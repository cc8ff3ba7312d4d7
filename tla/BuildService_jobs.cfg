\* Builds, a delete and recovery of two repositories, one fault.
SPECIFICATION Spec
CONSTANTS
    Slugs     = {r1, r2}
    NoSlug    = NoSlug
    Deleters  = {d1}
    NoHolder  = NoHolder
    Recovery  = Recovery
    MaxRepos  = 1
    Pool      = 2
    MaxBuilds = 3
    MaxFaults = 1
SYMMETRY Symmetry
INVARIANTS IInv OneBuildPerSlug SentinelIsExact DeletesSeeNoOlderBuild
PROPERTIES OutcomesStand
\* CHECK_DEADLOCK: the service may come to rest for good once its bound of
\* builds is used up and the recovery task has died.
CHECK_DEADLOCK FALSE
