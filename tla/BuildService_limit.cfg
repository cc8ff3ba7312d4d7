\* A build publishes while the POST of another repository counts.
SPECIFICATION Spec
CONSTANTS
    Slugs     = {r1, r2}
    NoSlug    = NoSlug
    Deleters  = {}
    NoHolder  = NoHolder
    Recovery  = Recovery
    MaxRepos  = 1
    Pool      = 2
    MaxBuilds = 2
    MaxFaults = 0
INVARIANTS RepositoryLimit
\* CHECK_DEADLOCK: the service may come to rest for good once its bound of
\* builds is used up and the recovery task has died.
CHECK_DEADLOCK FALSE
