\* Builds, recovery and deletes on one slug, against the abstract index.
SPECIFICATION Spec
CONSTANTS
    Workers     = {w1, w2}
    Searchers   = {s1}
    NoWorker    = NoWorker
    Ops         = {"build", "recover", "delete"}
    Grace       = 1
    SearchBound = 0
    StallBound  = 0
    MaxGen      = 2
    MaxTime     = 3
    MaxFaults   = 2
SYMMETRY Symmetry
INVARIANT SuccessMeansServing
PROPERTY ImplementsServedIndex
