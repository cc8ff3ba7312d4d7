---------------------------- MODULE MCAlgorithms ----------------------------
(***************************************************************************)
(* The pure algorithms over all their small inputs.  Each behaviour is one *)
(* run of one of them; the variables of the others stay as they are.       *)
(***************************************************************************)
EXTENDS Discovery, Clustering, Chunking, WeightedBfs, HybridMerge

VARIABLE algorithm  \* the one that runs

vars == <<algorithm, DiscoveryVars, ClusteringVars, ChunkingVars, BfsVars, MergeVars>>

ChunkingIdle == /\ rows = <<>> /\ children = <<>> /\ parsed = FALSE
                /\ window = [size |-> 1, overlap |-> 0]
                /\ chunks = <<>> /\ links = <<>> /\ stored = {} /\ stage = "embedded"
BfsIdle == /\ relation = <<>> /\ intent = {} /\ community = <<>> /\ seeds = <<>> /\ heap = {} /\ counter = 0
           /\ visited = {} /\ discovered = <<>> /\ maxResults = 1 /\ done = TRUE
MergeIdle == /\ phase = "done" /\ dense = <<>> /\ sparse = <<>> /\ results = <<>>
             /\ dropped = <<>> /\ hits = 0

DiscoveryIdle == /\ disk = {} /\ ignores = [i \in 0..Len(Above) |-> {}] /\ gitLevel = 0
                 /\ scan = "root" /\ queue = {} /\ collected = {} /\ found = {}
                 /\ sensitive = {} /\ pending = {}
ClusteringIdle == /\ edges = {} /\ library = "leiden" /\ clusterAt = "partition"
                  /\ raw = <<>> /\ final = <<>> /\ label = [v \in Vertices |-> NoLabel]

Init ==
    \/ algorithm = "detect" /\ DiscoveryInit /\ ClusteringIdle /\ ChunkingIdle /\ BfsIdle /\ MergeIdle
    \/ algorithm = "cluster" /\ DiscoveryIdle /\ ClusterInit /\ ChunkingIdle /\ BfsIdle /\ MergeIdle
    \/ algorithm = "chunking" /\ DiscoveryIdle /\ ClusteringIdle /\ ChunkingInit /\ BfsIdle /\ MergeIdle
    \/ algorithm = "bfs" /\ DiscoveryIdle /\ ClusteringIdle /\ ChunkingIdle /\ BfsInit /\ MergeIdle
    \/ algorithm = "merge" /\ DiscoveryIdle /\ ClusteringIdle /\ ChunkingIdle /\ BfsIdle /\ MergeInit

Next ==
    \/ /\ algorithm = "detect" /\ DiscoveryNext
       /\ UNCHANGED <<algorithm, ClusteringVars, ChunkingVars, BfsVars, MergeVars>>
    \/ /\ algorithm = "cluster" /\ ClusterNext
       /\ UNCHANGED <<algorithm, DiscoveryVars, ChunkingVars, BfsVars, MergeVars>>
    \/ /\ algorithm = "chunking" /\ ChunkingNext
       /\ UNCHANGED <<algorithm, DiscoveryVars, ClusteringVars, BfsVars, MergeVars>>
    \/ /\ algorithm = "bfs" /\ BfsNext
       /\ UNCHANGED <<algorithm, DiscoveryVars, ClusteringVars, ChunkingVars, MergeVars>>
    \/ /\ algorithm = "merge" /\ MergeNext
       /\ UNCHANGED <<algorithm, DiscoveryVars, ClusteringVars, ChunkingVars, BfsVars>>

Spec == Init /\ [][Next]_vars

-----------------------------------------------------------------------------
\* A checkout named "repo" with its own .graphignore and one above it.
MCAbove == <<"repo">>
MCDirs == {<<"src">>, <<".ci">>, <<"build">>, <<"src", "build">>, <<"graph-out">>,
           <<"graph-out", "memory">>, <<"graph-out", "memory", ".ci">>, <<"graph-out", "converted">>}
MCFiles == {<<"a">>, <<".a">>, <<"token">>, <<"lock">>, <<"src", "a">>, <<"src", "readme">>,
    <<"src", "build", "a">>, <<".ci", "a">>, <<"build", "token">>, <<"graph-out", "a">>,
    <<"graph-out", "memory", "a">>, <<"graph-out", "memory", ".ci", "a">>,
    <<"graph-out", "memory", ".ci", "token">>, <<"graph-out", "converted", "a">>}
MCPatterns == {<<>>, <<"a">>, <<"src">>, <<"src", "a">>, <<"repo">>, <<"repo", "src">>,
               <<"*", "build">>, <<"graph-out", "memory">>, <<"*", ".ci", "a">>}

\* A call between two files is inferred.
MCRelations == {[name |-> "none", score |-> 10], [name |-> "contains", score |-> 10],
                [name |-> "calls", score |-> 8]}
MCCommunities == {[a \in Nodes |-> None], [a \in Nodes |-> IF a = 1 THEN None ELSE a \div 2]}

\* A file whose first two windows overlap the middle one, and a test.
C(f, s, e, t) == [file |-> f, start |-> s, end |-> e, test |-> t]
OverlappingWindows == {C("a", 1, 10, FALSE), C("a", 9, 18, FALSE), C("a", 17, 26, FALSE), C("t", 1, 10, TRUE)}
OneOther == {<<>>, <<Result(C("z", 1, 10, FALSE), "vector", 200, None)>>}

\* Two hits of any scores, or up to four of one score.
Falling(lists) == {s \in lists : \A i \in 2..Len(s) : s[i - 1][2] >= s[i][2]}
MCSparseLists == Falling(Hits(2, {4, 10})) \union Hits(4, {10})
=============================================================================
