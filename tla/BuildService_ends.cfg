\* Liveness: builds end, the service comes up again.
SPECIFICATION FairSpec
CONSTANTS
    Slugs     = {r1, r2}
    NoSlug    = NoSlug
    Deleters  = {d1}
    NoHolder  = NoHolder
    Recovery  = Recovery
    MaxRepos  = 2
    Pool      = 2
    MaxBuilds = 2
    MaxFaults = 1
PROPERTIES BuildsFinish ServesAgain
\* CHECK_DEADLOCK: the service may come to rest for good once its bound of
\* builds is used up and the recovery task has died.
CHECK_DEADLOCK FALSE
