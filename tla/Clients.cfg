\* Two clients, three builds and one fault.
\* Batches of up to three texts; too long ones raise, or are skipped.
\* Two sessions, one of which keeps its child; four commands, two pids.
SPECIFICATION Spec
CONSTANTS
    Clients = {"c1", "c2"}
    MaxBuilds = 3
    MaxProgress = 1
    MaxFaults = 1
    Sessions = {"s1", "s2"}
    Lasting = {"s1"}
    Pids = {1, 2}
    MaxOps = 4
    MaxEvents = 2
    Texts <- MCTexts
    MaxBatch = 3
    Limit = 2
    MaxDepth = 2
INVARIANTS
    ReportsAreTrue DaemonIsNamed StoppedMeansGone
    PiecesTileTheText MergedVectorIsTheMean OnlyHopelessTextsAreDropped
PROPERTIES TerminalJobsStand PollingEnds BatchEnds
