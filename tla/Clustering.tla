----------------------------- MODULE Clustering -----------------------------
(***************************************************************************)
(* cluster: the communities of a graph.  A library finds them; nodes that  *)
(* have no edge are kept from it, communities that are too large go        *)
(* through it again, the rest is numbered by size and written to the       *)
(* nodes, from where a later build reads it.                               *)
(***************************************************************************)
EXTENDS Naturals, Sequences, FiniteSets, SequencesExt, FiniteSetsExt, Sorting

CONSTANTS
    Vertices,  \* the nodes of the graph
    MinSplit,  \* _MIN_SPLIT_SIZE
    Share      \* one over _MAX_COMMUNITY_FRACTION

ASSUME ClusteringAssumption ==
    /\ Vertices \subseteq Nat /\ IsFiniteSet(Vertices) /\ Vertices # {}
    /\ MinSplit \in Nat \ {0} /\ Share \in Nat \ {0}

VARIABLES
    edges,     \* sets of two vertices
    library,   \* "leiden", or "louvain" where that is not installed
    clusterAt, \* "partition", "isolates", "split", "assign" or "over"
    raw,       \* the communities by the number they were found under
    final,     \* final_communities, then sorted
    label      \* per vertex: its attribute community

ClusteringVars == <<edges, library, clusterAt, raw, final, label>>

NoLabel == 0
Joins(set) == {e \in edges : e \subseteq set}
Linked(set) == UNION Joins(set)
Connected(set) ==
    \A part \in (SUBSET set) \ {{}, set} :
        \E e \in Joins(set) : e \cap part # {} /\ ~(e \subseteq part)

\* Divisions of a set into communities, in the order of their least nodes.
FirstBefore(a, b) == Min(a) < Min(b)
Divisions(set) ==
    {Sorted(parts, FirstBefore) : parts \in
        {{{v \in set : home[v] = home[u]} : u \in set} : home \in [set -> 1..Cardinality(set)]}}

\* leiden leaves out a node without an edge, and what it puts together is
\* connected; louvain promises neither and loses nothing.
Partition(set) ==
    IF library = "leiden"
    THEN {d \in Divisions(Linked(set)) : \A i \in DOMAIN d : Connected(d[i])}
    ELSE Divisions(set)

ClusterInit ==
    /\ edges \in SUBSET {e \in SUBSET Vertices : Cardinality(e) = 2}
    /\ library \in {"leiden", "louvain"}
    /\ clusterAt = "partition" /\ raw = <<>> /\ final = <<>>
    /\ label = [v \in Vertices |-> NoLabel]

NoEdges ==
    /\ clusterAt = "partition" /\ edges = {}
    /\ final' = [i \in 1..Cardinality(Vertices) |-> {Sorted(Vertices, <)[i]}]
    /\ clusterAt' = "assign"
    /\ UNCHANGED <<edges, library, raw, label>>
FirstPass ==
    /\ clusterAt = "partition" /\ edges # {}
    /\ raw' \in Partition(Linked(Vertices))
    /\ clusterAt' = "isolates"
    /\ UNCHANGED <<edges, library, final, label>>

Isolates == Sorted(Vertices \ Linked(Vertices), <)
\* Mutant: the number of the last community is used once more.
AddIsolatesOverLast ==
    /\ clusterAt = "isolates"
    /\ raw' = [i \in 1..(Len(raw) + Len(Isolates) - (IF Isolates = <<>> THEN 0 ELSE 1)) |->
                  IF i < Len(raw) \/ Isolates = <<>> THEN raw[i] ELSE {Isolates[i - Len(raw) + 1]}]
    /\ clusterAt' = "split"
    /\ UNCHANGED <<edges, library, final, label>>
AddIsolates ==
    /\ clusterAt = "isolates"
    /\ raw' = raw \o [i \in DOMAIN Isolates |-> {Isolates[i]}]
    /\ clusterAt' = "split"
    /\ UNCHANGED <<edges, library, final, label>>

SplitOver == Max({MinSplit, Cardinality(Vertices) \div Share})
Keep ==
    /\ clusterAt = "split" /\ raw # <<>> /\ Cardinality(Head(raw)) <= SplitOver
    /\ final' = Append(final, Head(raw)) /\ raw' = Tail(raw)
    /\ UNCHANGED <<edges, library, clusterAt, label>>
\* A second pass; what fails or finds one community leaves it as it is.
SplitCommunity ==
    LET nodes == Head(raw)
    IN /\ clusterAt = "split" /\ raw # <<>> /\ Cardinality(nodes) > SplitOver
       /\ \/ /\ Joins(nodes) = {}
             /\ final' = final \o [i \in 1..Cardinality(nodes) |-> {Sorted(nodes, <)[i]}]
          \/ /\ Joins(nodes) # {}
             /\ \/ \E d \in Partition(nodes) :
                      final' = final \o (IF Len(d) <= 1 THEN <<nodes>> ELSE d)
                \/ final' = Append(final, nodes)
       /\ raw' = Tail(raw)
       /\ UNCHANGED <<edges, library, clusterAt, label>>

Larger(i, j) == \/ Cardinality(final[i]) > Cardinality(final[j])
                \/ Cardinality(final[i]) = Cardinality(final[j]) /\ i < j
Renumber ==
    /\ clusterAt = "split" /\ raw = <<>>
    /\ final' = At(final, Sorted(DOMAIN final, Larger))
    /\ clusterAt' = "assign"
    /\ UNCHANGED <<edges, library, raw, label>>
AssignCommunities ==
    /\ clusterAt = "assign"
    /\ label' = [v \in Vertices |-> IF \E i \in DOMAIN final : v \in final[i]
                                    THEN Max({i \in DOMAIN final : v \in final[i]}) ELSE NoLabel]
    /\ clusterAt' = "over"
    /\ UNCHANGED <<edges, library, raw, final>>

ClusterNext ==
    \/ NoEdges \/ FirstPass \/ AddIsolates \/ Keep \/ SplitCommunity \/ Renumber \/ AssignCommunities
    \/ clusterAt = "over" /\ UNCHANGED ClusteringVars

ClusterSpec == ClusterInit /\ [][ClusterNext]_ClusteringVars

-----------------------------------------------------------------------------
CommunitiesFromGraph ==
    [i \in {label[v] : v \in {w \in Vertices : label[w] # NoLabel}} |-> {v \in Vertices : label[v] = i}]

(* Every node has one community, whichever library ran: what is read back  *)
(* from the graph is what cluster returned, the largest first, and it      *)
(* leaves out no node.                                                     *)
CommunitiesCoverTheGraph ==
    clusterAt = "over" => /\ CommunitiesFromGraph = [i \in DOMAIN final |-> final[i]]
                          /\ UNION Range(final) = Vertices
                          /\ \A i \in 2..Len(final) : Cardinality(final[i - 1]) >= Cardinality(final[i])
=============================================================================
