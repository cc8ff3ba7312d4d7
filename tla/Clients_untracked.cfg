\* Two commands at once.
SPECIFICATION Spec
CONSTANTS
    Clients = {"c1", "c2"}
    MaxBuilds = 3
    MaxProgress = 1
    MaxFaults = 1
    Sessions = {"s1", "s2"}
    Lasting = {"s1"}
    Pids = {1, 2}
    MaxOps = 4
    MaxEvents = 0
    Texts <- MCTexts
    MaxBatch = 1
    Limit = 2
    MaxDepth = 2
INVARIANT DaemonCanBeStopped
