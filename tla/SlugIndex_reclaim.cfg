\* Liveness: recovery reclaims what nothing can use.
SPECIFICATION FairSpec
CONSTANTS
    Workers     = {w1, w2}
    Searchers   = {}
    NoWorker    = NoWorker
    Ops         = {"build", "recover"}
    Grace       = 1
    SearchBound = 1
    StallBound  = 1
    MaxGen      = 3
    MaxTime     = 3
    MaxFaults   = 1
PROPERTIES StorageReclaimed
