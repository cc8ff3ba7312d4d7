\* Builds and recovery on one slug, no deletes.
SPECIFICATION Spec
CONSTANTS
    Workers     = {w1, w2}
    Searchers   = {s1}
    NoWorker    = NoWorker
    Ops         = {"build", "recover"}
    Grace       = 2
    SearchBound = 1
    StallBound  = 0
    MaxGen      = 3
    MaxTime     = 4
    MaxFaults   = 1
SYMMETRY Symmetry
INVARIANT IInv
PROPERTIES PointerMovesForward KeptGenerationsSurvive SearchesKeepTheirGeneration
