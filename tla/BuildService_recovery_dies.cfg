\* A delete removes generations/ under the scan of recover().
SPECIFICATION Spec
CONSTANTS
    Slugs     = {r1}
    NoSlug    = NoSlug
    Deleters  = {d1}
    NoHolder  = NoHolder
    Recovery  = Recovery
    MaxRepos  = 1
    Pool      = 2
    MaxBuilds = 2
    MaxFaults = 0
INVARIANTS RecoveryKeepsRunning
\* CHECK_DEADLOCK: the service may come to rest for good once its bound of
\* builds is used up and the recovery task has died.
CHECK_DEADLOCK FALSE
