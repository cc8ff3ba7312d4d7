\* One seed is reached from the other at full depth.
SPECIFICATION Spec
CONSTANTS
    Above <- MCAbove
    Dirs <- MCDirs
    SomeFiles <- MCFiles
    Patterns <- MCPatterns
    MaxFiles = 1
    MaxPatterns = 0
    Hidden = {".ci", ".a"}
    NoiseDirs = {"build", "graph-out"}
    SkipFiles = {"lock"}
    Sensitive = {"token"}
    Code = {"a", ".a", "token"}
    Documents = {"readme"}
    Vertices = {1, 2, 3}
    MinSplit = 2
    Share = 4
    None = None
    MaxRows = 1
    MaxChildren = 1
    MaxSize = 2
    Eols = {"lf"}
    MaxParts = 1
    N = 4
    Relations <- MCRelations
    Intents = {{}, {"flow", "schema"}}
    Communities <- MCCommunities
    MaxSeeds = 2
    Depth = 2
    Caps = {2, 50}
    Unassigned = None
    Chunks <- OverlappingWindows
    Distances = {200, 600}
    SparseLists <- MCSparseLists
    Weights = {0, 1500}
    MaxHits = 1
    Others <- OneOther
    PerGraph = 2
    TopK = 2
INVARIANT EverySeedIsExpanded
