---------------------------- MODULE WeightedBfs -----------------------------
(***************************************************************************)
(* _bfs_seeds: the graph expansion of a search.  A heap holds the paths    *)
(* found so far; the heaviest is popped, the oldest first among equals; a  *)
(* node is visited when it is popped for the first time.  Nodes are        *)
(* numbers, in the order the graph lists them as neighbours.  Weights are  *)
(* in thousandths.  The seeds are the list after the cap of large graphs,  *)
(* each the only node of its result.                                       *)
(***************************************************************************)
EXTENDS Naturals, FiniteSets, Sequences, FiniteSetsExt, SequencesExt

CONSTANTS
    N,            \* bound: nodes of the graph
    Relations,    \* what a pair of nodes can be: a relation ("none" without an
                  \* edge) and its confidence score in tenths
    Intents,      \* the sets of intents that are tried
    Communities,  \* the assignments of communities to nodes that are tried
    MaxSeeds,     \* bound: seeds of a search
    Depth,        \* traversal_depth
    Caps,         \* the values _MAX_GRAPH_RESULTS has in this instance
    Unassigned    \* a node without a community

Nodes == 1..N
Pairs == {e \in SUBSET Nodes : Cardinality(e) = 2}

ASSUME BfsConstantAssumption ==
    /\ Intents \subseteq SUBSET {"flow", "schema", "inherit", "similar"}
    /\ N \in Nat /\ Depth \in Nat /\ Caps \subseteq Nat \ {0} /\ MaxSeeds \in Nat
    /\ \A c \in Communities : DOMAIN c = Nodes
    /\ \A r \in Relations : r.score \in 0..10

VARIABLES
    relation,   \* the relation of each pair of nodes
    intent,     \* the intents whose keywords are in the query
    maxResults, \* _MAX_GRAPH_RESULTS
    community,  \* the community of each node
    seeds,      \* the seeds, in the order they are pushed
    heap,       \* paths to visit: nodes passed, weight, number of the push
    counter,    \* pushes made
    visited,    \* nodes popped
    discovered, \* visited nodes that are no seeds, in order, with their paths
    done        \* the search has returned

BfsVars == <<relation, intent, maxResults, community, seeds, heap, counter, visited, discovered, done>>
graph == <<relation, intent, maxResults, community, seeds>>

Push(path, weight, at) == [path |-> path, weight |-> weight, at |-> at]

BfsInit ==
    /\ relation \in [Pairs -> Relations] /\ intent \in Intents /\ community \in Communities
    /\ maxResults \in Caps
    /\ seeds \in {s \in UNION {[1..k -> Nodes] : k \in 1..MaxSeeds} : IsInjective(s)}
    /\ heap = {Push(<<seeds[k]>>, 0, k) : k \in DOMAIN seeds}
    /\ counter = Len(seeds) /\ visited = {} /\ discovered = <<>> /\ done = FALSE

-----------------------------------------------------------------------------
RelationWeight(r) ==
    CASE r \in {"imports", "imports_from", "method"} -> 300 [] r = "contains" -> 150
      [] r \in {"calls", "uses"} -> 700 [] r = "inherits" -> 800
      [] r = "rationale_for" -> 900 [] r = "semantically_similar_to" -> 1000
      [] OTHER -> 0

\* The keywords of the query raise the weight of some relations.
IntentRules == {<<"flow", "calls", 900>>, <<"flow", "uses", 900>>, <<"schema", "contains", 500>>,
                <<"inherit", "inherits", 950>>, <<"similar", "semantically_similar_to", 1100>>}
EffectiveWeight(r) ==
    LET boosts == {rule[3] : rule \in {b \in IntentRules : b[1] \in intent /\ b[2] = r}}
    IN IF boosts = {} THEN RelationWeight(r) ELSE Max(boosts)

\* The communities of at least half of the first five results.
FirstFive == {k \in DOMAIN seeds : k <= 5}
DominantCommunities ==
    LET Count(c) == Cardinality({k \in FirstFive : community[seeds[k]] = c})
    IN {c \in {community[seeds[k]] : k \in FirstFive} \ {Unassigned} :
           Count(c) >= 1 /\ Count(c) >= Cardinality(FirstFive) \div 2}

\* Inside a dominant community edges weigh more, across communities less.
Factor(a, b) ==
    LET known == Unassigned \notin {community[a], community[b]}
    IN CASE known /\ community[a] # community[b] -> 8
         [] known /\ community[a] = community[b] /\ community[a] \in DominantCommunities -> 12
         [] OTHER -> 10

Weight(a, b) ==
    LET r == relation[{a, b}]
    IN (EffectiveWeight(r.name) * r.score * Factor(a, b)) \div 100
Neighbours(a) == {b \in Nodes \ {a} : EffectiveWeight(relation[{a, b}].name) > 0}

Hops(entry) == Len(entry.path) - 1
Target(entry) == Last(entry.path)
IsSeed(a) == a \in Range(seeds)

\* Mutant: what was pushed once is not pushed again: marked visited on push.
NewEntriesOnce(entry) ==
    IF Hops(entry) >= Depth THEN {}
    ELSE {Push(Append(entry.path, b), entry.weight + Weight(Target(entry), b),
               counter + Cardinality({c \in Neighbours(Target(entry)) : c <= b})) :
             b \in {n \in Neighbours(Target(entry)) : n \notin {Target(h) : h \in heap}}}
\* Mutant: a path that could be extended by one more hop is not.
NewEntriesShallow(entry) ==
    IF Hops(entry) + 1 >= Depth THEN {}
    ELSE {Push(Append(entry.path, b), entry.weight + Weight(Target(entry), b),
               counter + Cardinality({c \in Neighbours(Target(entry)) : c <= b})) :
             b \in Neighbours(Target(entry))}
NewEntries(entry) ==
    IF Hops(entry) >= Depth THEN {}
    ELSE {Push(Append(entry.path, b), entry.weight + Weight(Target(entry), b),
               counter + Cardinality({c \in Neighbours(Target(entry)) : c <= b})) :
             b \in Neighbours(Target(entry))}

Before(e, f) == e.weight > f.weight \/ (e.weight = f.weight /\ e.at < f.at)
Heaviest == CHOOSE e \in heap : \A f \in heap \ {e} : Before(e, f)

PopVisited ==
    /\ ~done /\ heap # {} /\ Target(Heaviest) \in visited
    /\ heap' = heap \ {Heaviest}
    /\ UNCHANGED <<graph, counter, visited, discovered, done>>

Found == IF IsSeed(Target(Heaviest)) THEN discovered ELSE Append(discovered, Heaviest)
Full == ~IsSeed(Target(Heaviest)) /\ Len(Found) >= maxResults

PopNode ==
    /\ ~done /\ heap # {} /\ Target(Heaviest) \notin visited /\ ~Full
    /\ visited' = visited \union {Target(Heaviest)} /\ discovered' = Found
    /\ heap' = (heap \ {Heaviest}) \union NewEntries(Heaviest)
    /\ counter' = counter + Cardinality(NewEntries(Heaviest))
    /\ UNCHANGED <<graph, done>>

\* The last result: the search returns at once.
PopLast ==
    /\ ~done /\ heap # {} /\ Target(Heaviest) \notin visited /\ Full
    /\ visited' = visited \union {Target(Heaviest)} /\ discovered' = Found
    /\ heap' = heap \ {Heaviest} /\ done' = TRUE
    /\ UNCHANGED <<graph, counter>>

Return ==
    /\ ~done /\ heap = {}
    /\ done' = TRUE
    /\ UNCHANGED <<graph, heap, counter, visited, discovered>>

BfsDone == done /\ UNCHANGED BfsVars

BfsNext == PopVisited \/ PopNode \/ PopLast \/ Return \/ BfsDone

BfsSpec == BfsInit /\ [][BfsNext]_BfsVars

-----------------------------------------------------------------------------
Capped == Len(discovered) >= maxResults

Sum(path) == FoldLeft(LAMBDA sum, k : sum + Weight(path[k], path[k + 1]), 0,
                      [k \in 1..(Len(path) - 1) |-> k])

(* No expansion is forgotten: when the search returns without being        *)
(* capped, every neighbour of the first seed, and of a result that is      *)
(* nearer than the depth, was visited.                                     *)
FrontierIsClosed ==
    done /\ ~Capped =>
        \A a \in {Target(d) : d \in {r \in Range(discovered) : Hops(r) < Depth}}
                 \union {seeds[k] : k \in {j \in DOMAIN seeds : j = 1 /\ Depth > 0}} :
            Neighbours(a) \subseteq visited

(* A result is at least as heavy as the path that reaches it over an       *)
(* earlier result: the heap keeps every path to a node until the node is   *)
(* visited.                                                                *)
EarlierResultsAreExtended ==
    \A i, j \in DOMAIN discovered :
        LET d == discovered[i]  e == discovered[j]
        IN i < j /\ Hops(d) < Depth /\ Target(e) \in Neighbours(Target(d))
              => e.weight >= d.weight + Weight(Target(d), Target(e))

(* The heaviest path of at most Depth hops wins for each node.             *)
Walks == {p \in UNION {[1..k -> Nodes] : k \in 1..(Depth + 1)} :
             /\ IsInjective(p) /\ IsSeed(p[1])
             /\ \A k \in 1..(Len(p) - 1) : p[k + 1] \in Neighbours(p[k])}
HeaviestPathWins ==
    done => \A i \in DOMAIN discovered : \A p \in Walks :
        Last(p) = Target(discovered[i]) => Sum(p) <= discovered[i].weight

(* The depth is counted from each seed: a node within Depth hops of a seed *)
(* is found unless the results are capped.                                 *)
EverySeedIsExpanded ==
    done /\ ~Capped => \A p \in Walks : Last(p) \in visited
=============================================================================
