\* A search of a legacy index while the first generation is published.
SPECIFICATION Spec
CONSTANTS
    Workers     = {w1}
    Searchers   = {s1}
    NoWorker    = NoWorker
    Ops         = {"build"}
    Grace       = 2
    SearchBound = 1
    StallBound  = 0
    MaxGen      = 2
    MaxTime     = 3
    MaxFaults   = 0
PROPERTIES LegacySearchesKeepTheirIndex
