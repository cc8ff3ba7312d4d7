\* Files of up to four rows, three top-level nodes and windows up to three.
\* Graphs of four nodes with two relations, two assignments of communities,
\* two queries and up to two seeds, cut at two results or never; three windows of one
\* file, each overlapping the next, and a test, in all rankings.
\* Checkouts of up to two files of fourteen, one pattern per .graphignore.
\* Graphs of four nodes, communities of more than two split.
SPECIFICATION Spec
CONSTANTS
    Above <- MCAbove
    Dirs <- MCDirs
    SomeFiles <- MCFiles
    Patterns <- MCPatterns
    MaxFiles = 2
    MaxPatterns = 1
    Hidden = {".ci", ".a"}
    NoiseDirs = {"build", "graph-out"}
    SkipFiles = {"lock"}
    Sensitive = {"token"}
    Code = {"a", ".a", "token"}
    Documents = {"readme"}
    Vertices = {1, 2, 3, 4}
    MinSplit = 2
    Share = 4
    None = None
    MaxRows = 4
    MaxChildren = 3
    MaxSize = 3
    Eols = {"lf"}
    MaxParts = 1
    N = 4
    Relations <- MCRelations
    Intents = {{}, {"flow", "schema"}}
    Communities <- MCCommunities
    MaxSeeds = 2
    Depth = 2
    Caps = {2, 50}
    Unassigned = None
    Chunks <- OverlappingWindows
    Distances = {200, 600}
    SparseLists <- MCSparseLists
    Weights = {0, 1500}
    MaxHits = 4
    Others <- OneOther
    PerGraph = 2
    TopK = 2
INVARIANTS
    DetectFindsTheWanted CommunitiesCoverTheGraph
    EveryLineIsChunked
    FrontierIsClosed EarlierResultsAreExtended
    KeptAreTheBest SparseHitsSurviveFusion
