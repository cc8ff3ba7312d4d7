\* The first build of a slug dies before it makes the slug's directory.
SPECIFICATION FairSpec
CONSTANTS
    Workers     = {w1, w2}
    Searchers   = {}
    NoWorker    = NoWorker
    Ops         = {"build", "recover"}
    Grace       = 1
    SearchBound = 1
    StallBound  = 1
    MaxGen      = 2
    MaxTime     = 3
    MaxFaults   = 1
PROPERTIES AbandonedBuildsReclaimed
