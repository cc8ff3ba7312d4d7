--------------------------- MODULE AlgorithmProofs --------------------------
(***************************************************************************)
(* Proofs about the algorithms of a search and of a build, for all inputs: *)
(* WeightedBfs on every graph, HybridMerge on any answers of the           *)
(* retrievers, Clustering of any graph with any partitions, Chunking of    *)
(* files of any length.                                                    *)
(*                                                                         *)
(* BfsInv says of every expanded node that each of its neighbours was      *)
(* visited or is still in the heap, at the weight of the path over it or   *)
(* more. When the heap is empty all were visited; and the next result, as  *)
(* the heaviest of the heap, is not lighter than any such path to it.      *)
(*                                                                         *)
(* MergeInv says what each stage has: the fused answer has each chunk      *)
(* once, in the order of the scores, with the best full-text hits in front *)
(* of the cut; a result that overlapping ones outdo is removed for one     *)
(* that is heavier or earlier, and following these ends at one that stays. *)
(*                                                                         *)
(* ClusterInv says that the communities found so far divide the vertices   *)
(* they cover, and of what the library returned that it divides the rest,  *)
(* until all are numbered by size.                                         *)
(*                                                                         *)
(* ChunkInv says that some chunk holds each line with text. The windows    *)
(* from a line on hold all up to the last (WindowsHold), the spans hold    *)
(* every row of the nodes (JoiningHolds), and rows and lines have the same *)
(* numbers when each row is one line (LinesOfRow).                         *)
(***************************************************************************)
EXTENDS WeightedBfs, HybridMerge, Clustering, Chunking, CollectionLemmas

-----------------------------------------------------------------------------
(* WeightedBfs                                                             *)

\* The entries of the heap and the results.
Entries == [path : Seq(Nodes) \ {<<>>}, weight : Nat, at : Nat]

\* The graph of a search.
GraphOK == /\ relation \in [Pairs -> Relations] /\ seeds \in Seq(Nodes) /\ seeds # <<>>
           /\ intent \subseteq {"flow", "schema", "inherit", "similar"}

\* The heap: pushes have numbers of their own and weights have a bound.
HeapOK == /\ heap \subseteq Entries /\ counter \in Nat
          /\ \A h \in heap : h.at <= counter
          /\ \A h, k \in heap : h.at = k.at => h = k
          /\ \E bound \in Nat : \A h \in heap : h.weight <= bound

\* What has been found was visited.
FoundOK == /\ visited \subseteq Nodes /\ discovered \in Seq(Entries)
           /\ \A i \in DOMAIN discovered : Target(discovered[i]) \in visited

\* b is among the nodes seen, or in the queue with at least weight w.
Reached(b, w, seen, queue) == b \in seen \/ \E h \in queue : Target(h) = b /\ h.weight >= w

\* The heap a search begins with.
SeedPushes == {Push(<<seeds[k]>>, 0, k) : k \in DOMAIN seeds}

\* Every neighbour of an expanded result is reached over it.
ExpandedOK ==
    \A i \in DOMAIN discovered : Hops(discovered[i]) < Depth =>
        \A b \in Neighbours(Target(discovered[i])) :
            Reached(b, discovered[i].weight + Weight(Target(discovered[i]), b), visited, heap)
\* So is every neighbour of the first seed, which is the first to be popped.
FirstOK ==
    IF visited = {} THEN heap = SeedPushes
    ELSE Depth > 0 => \A b \in Neighbours(seeds[1]) : Reached(b, 0, visited, heap)

\* The invariant of a search.
BfsInv ==
    /\ GraphOK /\ HeapOK /\ FoundOK /\ done \in BOOLEAN
    /\ EarlierResultsAreExtended
    /\ done => Capped \/ heap = {}
    /\ ~done \/ ~Capped => ExpandedOK /\ FirstOK

-----------------------------------------------------------------------------
(* Numbers and weights *)

\* The greatest of some of the boosts.
LEMMA GreatestBoost ==
    ASSUME NEW S, NEW z \in S, \A y \in S : y = 500 \/ y = 900 \/ y = 950 \/ y = 1100
    PROVE  Max(S) \in Nat /\ Max(S) <= 1100
  <1>1. PICK g \in S : \A y \in S : g >= y
    <2>1. CASE 1100 \in S
      BY <2>1
    <2>2. CASE 1100 \notin S /\ 950 \in S
      BY <2>2
    <2>3. CASE 1100 \notin S /\ 950 \notin S /\ 900 \in S
      BY <2>3
    <2>4. CASE 1100 \notin S /\ 950 \notin S /\ 900 \notin S
      BY <2>4
    <2> QED
      BY <2>1, <2>2, <2>3, <2>4
  <1>2. Max(S) \in S
    BY <1>1 DEF Max
  <1> QED
    BY <1>2

\* The weight of a relation is a number.
LEMMA EffectiveWeights ==
    ASSUME NEW r
    PROVE  EffectiveWeight(r) \in Nat /\ EffectiveWeight(r) <= 1100
  <1> DEFINE boosts == {rule[3] : rule \in {b \in IntentRules : b[1] \in intent /\ b[2] = r}}
  <1>1. RelationWeight(r) \in Nat /\ RelationWeight(r) <= 1100
    BY DEF RelationWeight
  <1>2. \A y \in boosts : y = 500 \/ y = 900 \/ y = 950 \/ y = 1100
    BY DEF IntentRules
  <1>3. ASSUME boosts # {} PROVE Max(boosts) \in Nat /\ Max(boosts) <= 1100
    <2> HIDE DEF boosts
    <2>1. PICK z \in boosts : TRUE
      BY <1>3
    <2> QED
      BY <1>2, <2>1, GreatestBoost
  <1>4. EffectiveWeight(r) = IF boosts = {} THEN RelationWeight(r) ELSE Max(boosts)
    BY DEF EffectiveWeight
  <1> HIDE DEF boosts
  <1> QED
    BY <1>1, <1>3, <1>4

\* The weight of an edge is a number, with its confidence and its communities.
LEMMA EdgeWeights ==
    ASSUME GraphOK, NEW a \in Nodes, NEW b \in Nodes, a # b
    PROVE  Weight(a, b) \in Nat /\ Weight(a, b) <= 1320
  <1> DEFINE r == relation[{a, b}]
  <1>1. {a, b} \in Pairs
    <2>1. IsFiniteSet({a}) /\ Cardinality({a}) = 1
      BY FS_Singleton
    <2>2. Cardinality({a} \union {b}) = 2
      BY <2>1, FS_AddElement
    <2>3. {a} \union {b} = {a, b}
      OBVIOUS
    <2> QED
      BY <2>2, <2>3 DEF Pairs
  <1>2. r.score \in 0..10
    BY <1>1, BfsConstantAssumption DEF GraphOK
  <1>3. EffectiveWeight(r.name) \in Nat /\ EffectiveWeight(r.name) <= 1100
    BY EffectiveWeights
  <1>4. Factor(a, b) \in {8, 10, 12}
    BY DEF Factor
  <1> DEFINE e == EffectiveWeight(r.name)  s == r.score  f == Factor(a, b)
  <1>5. Weight(a, b) = (e * s * f) \div 100
    BY DEF Weight
  <1> HIDE DEF e, s, f, r
  <1>6. e \in Nat /\ e <= 1100 /\ s \in 0..10 /\ f \in {8, 10, 12}
    BY <1>2, <1>3, <1>4 DEF e, s, f
  <1> DEFINE m == e * s  p == m * f
  <1>7. m \in Nat /\ m <= 11000
    BY <1>6
  <1> HIDE DEF m
  <1>8. p \in Nat /\ p <= 132000
    BY <1>6, <1>7
  <1>9. Weight(a, b) = p \div 100
    BY <1>5 DEF m
  <1> HIDE DEF p
  <1> QED
    BY <1>8, <1>9

-----------------------------------------------------------------------------
\* A heap that is not empty has a heaviest entry, the oldest among equals.
LEMMA HeaviestIs ==
    ASSUME HeapOK, heap # {}
    PROVE  Heaviest \in heap /\ \A f \in heap \ {Heaviest} : Before(Heaviest, f)
  <1>1. PICK bound \in Nat : \A h \in heap : h.weight <= bound
    BY DEF HeapOK
  <1>2. \A h \in heap : h.weight \in Nat /\ h.at \in Nat
    BY DEF HeapOK, Entries
  <1> DEFINE gaps == {bound - h.weight : h \in heap}
  <1>3. gaps \subseteq Nat /\ gaps # {}
    BY <1>1, <1>2
  <1>4. PICK gap \in gaps : \A g \in gaps : gap <= g
    BY <1>3, LeastNumber
  <1>5. PICK d \in heap : \A h \in heap : h.weight <= d.weight
    <2>1. PICK d \in heap : gap = bound - d.weight
      BY <1>4
    <2>2. ASSUME NEW h \in heap PROVE h.weight <= d.weight
      <3>1. gap <= bound - h.weight
        BY <1>4
      <3> QED
        BY <1>2, <2>1, <3>1
    <2> QED
      BY <2>2
  <1> DEFINE ages == {h.at : h \in {k \in heap : k.weight = d.weight}}
  <1>6. ages \subseteq Nat /\ ages # {}
    BY <1>2
  <1>7. PICK age \in ages : \A a \in ages : age <= a
    BY <1>6, LeastNumber
  <1>8. PICK e \in heap : e.weight = d.weight /\ e.at = age
    BY <1>7
  <1>9. ASSUME NEW f \in heap \ {e} PROVE Before(e, f)
    <2>1. f.weight <= e.weight
      BY <1>5, <1>8
    <2>2. f.weight = e.weight => e.at <= f.at
      BY <1>7, <1>8
    <2>3. e.at # f.at
      BY <1>9 DEF HeapOK
    <2> QED
      BY <1>2, <2>1, <2>2, <2>3 DEF Before
  <1> QED
    BY <1>8, <1>9 DEF Heaviest

\* The ranks of a finite set of numbers.
LEMMA Ranks ==
    ASSUME NEW S, S \subseteq Nat, IsFiniteSet(S), NEW a \in S
    PROVE  /\ Cardinality({c \in S : c <= a}) \in 1..Cardinality(S)
           /\ \A b \in S : Cardinality({c \in S : c <= a}) = Cardinality({c \in S : c <= b}) => a = b
  <1> DEFINE upTo(x) == {c \in S : c <= x}
  <1>1. ASSUME NEW x \in S
        PROVE  IsFiniteSet(upTo(x)) /\ Cardinality(upTo(x)) \in Nat
               /\ Cardinality(upTo(x)) <= Cardinality(S) /\ x \in upTo(x)
    BY FS_Subset, FS_CardinalityType
  <1>2. Cardinality(upTo(a)) # 0
    BY <1>1, FS_EmptySet
  <1>3. ASSUME NEW x \in S, NEW y \in S, x < y PROVE Cardinality(upTo(x)) # Cardinality(upTo(y))
    <2>1. upTo(x) \subseteq upTo(y) /\ y \notin upTo(x)
      <3>1. \A c \in S : c \in Nat
        OBVIOUS
      <3>2. \A c \in S : c <= x => c <= y
        BY <1>3, <3>1
      <3>3. ~(y <= x)
        BY <1>3, <3>1
      <3> QED
        BY <3>2, <3>3
    <2> HIDE DEF upTo
    <2>2. upTo(x) # upTo(y)
      BY <1>1, <2>1
    <2> QED
      BY <1>1, <2>1, <2>2, FS_Subset
  <1>4. ASSUME NEW b \in S, Cardinality(upTo(a)) = Cardinality(upTo(b)) PROVE a = b
    <2>1. a \in Nat /\ b \in Nat
      OBVIOUS
    <2>2. ~(a < b) /\ ~(b < a)
      BY <1>3, <1>4
    <2> QED
      BY <2>1, <2>2
  <1>5. Cardinality(S) \in Nat
    BY FS_CardinalityType
  <1> QED
    BY <1>1, <1>2, <1>4, <1>5

\* The last node of a path is one of the graph.
LEMMA TargetIs ==
    ASSUME NEW e \in Entries
    PROVE  Target(e) \in Nodes /\ Hops(e) \in Nat
  BY DEF Entries, Target, Last, Hops

\* What an entry pushes: one entry per neighbour, with numbers after the counter.
LEMMA Pushes ==
    ASSUME GraphOK, counter \in Nat, NEW e \in Entries
    PROVE  LET new == NewEntries(e)
           IN /\ new \subseteq Entries /\ Cardinality(new) \in Nat
              /\ \A n \in new : /\ n.at > counter /\ n.at <= counter + Cardinality(new)
                                 /\ n.weight <= e.weight + 1320
              /\ \A n, m \in new : n.at = m.at => n = m
              /\ Hops(e) < Depth => \A b \in Neighbours(Target(e)) :
                    \E n \in new : Target(n) = b /\ n.weight = e.weight + Weight(Target(e), b)
  <1> DEFINE new == NewEntries(e)
             T == Target(e)
             S == Neighbours(T)
             rank(b) == Cardinality({c \in S : c <= b})
             push(b) == Push(Append(e.path, b), e.weight + Weight(T, b), counter + rank(b))
  <1>1. T \in Nodes /\ Hops(e) \in Nat /\ Depth \in Nat /\ N \in Nat
    BY TargetIs, BfsConstantAssumption
  <1>2. S \subseteq Nodes \ {T}
    BY DEF Neighbours
  <1>3. S \subseteq Nat /\ IsFiniteSet(S) /\ Cardinality(S) \in Nat
    <2>1. IsFiniteSet(Nodes) /\ Nodes \subseteq Nat
      BY <1>1, FS_Interval DEF Nodes
    <2>2. S \in SUBSET Nodes
      BY <1>2
    <2> HIDE DEF S
    <2> QED
      BY <2>1, <2>2, FS_Subset, FS_CardinalityType
  <1>4. CASE Hops(e) >= Depth
    <2>1. new = {}
      BY <1>4 DEF NewEntries
    <2> QED
      BY <1>1, <1>4, <2>1, FS_EmptySet
  <1>5. CASE Hops(e) < Depth
    <2>1. new = {push(b) : b \in S}
      BY <1>1, <1>5 DEF NewEntries
    <2>2. ASSUME NEW b \in S
          PROVE  /\ push(b) \in Entries /\ Target(push(b)) = b
                 /\ push(b).weight = e.weight + Weight(T, b) /\ push(b).weight <= e.weight + 1320
                 /\ push(b).at = counter + rank(b) /\ rank(b) \in 1..Cardinality(S)
      <3>1. b \in Nodes /\ b # T
        BY <1>2
      <3>2. Weight(T, b) \in Nat /\ Weight(T, b) <= 1320
        BY <1>1, <3>1, EdgeWeights
      <3>3. rank(b) \in 1..Cardinality(S)
        BY <1>3, Ranks
      <3>4. e.path \in Seq(Nodes) /\ e.weight \in Nat
        BY DEF Entries
      <3>5. Append(e.path, b) \in Seq(Nodes) /\ Append(e.path, b) # <<>> /\ Last(Append(e.path, b)) = b
        BY <3>1, <3>4 DEF Last
      <3> DEFINE path == Append(e.path, b)  weight == Weight(T, b)  r == rank(b)
      <3>6. path \in Seq(Nodes) \ {<<>>} /\ Last(path) = b
        BY <3>5
      <3>7. e.weight + weight \in Nat /\ e.weight + weight <= e.weight + 1320
        <4>1. weight \in Nat /\ weight <= 1320 /\ e.weight \in Nat
          BY <3>2, <3>4
        <4> HIDE DEF weight
        <4> QED
          BY <4>1
      <3>8. counter + r \in Nat
        BY <1>3, <3>3
      <3>9. push(b) = [path |-> path, weight |-> e.weight + weight, at |-> counter + r]
        BY DEF Push
      <3> HIDE DEF push, path, weight, r
      <3>10. push(b) \in Entries /\ Target(push(b)) = b /\ push(b).weight = e.weight + weight
             /\ push(b).at = counter + r
        BY <3>6, <3>7, <3>8, <3>9 DEF Entries, Target
      <3> QED
        BY <3>3, <3>7, <3>10 DEF weight, r
    <2>3. ASSUME NEW b \in S, NEW c \in S, rank(b) = rank(c) PROVE b = c
      BY <1>3, <2>3, Ranks
    <2> HIDE DEF S, T, new, push, rank
    <2>4. Cardinality(new) = Cardinality(S)
      <3> DEFINE f == [b \in S |-> push(b)]
      <3>1. f \in [S -> new] /\ \A n \in new : \E b \in S : f[b] = n
        BY <2>1
      <3>2. \A b, c \in S : f[b] = f[c] => b = c
        BY <2>2
      <3>3. f \in Bijection(S, new)
        BY <3>1, <3>2 DEF Bijection, Injection, Surjection, IsInjective
      <3>4. ExistsBijection(S, new)
        BY <3>3 DEF ExistsBijection
      <3> QED
        BY <3>4, <1>3, FS_Bijection
    <2>5. \A n \in new : n.at > counter /\ n.at <= counter + Cardinality(new) /\ n.weight <= e.weight + 1320
      BY <1>3, <2>1, <2>2, <2>4
    <2>6. \A n, m \in new : n.at = m.at => n = m
      <3> SUFFICES ASSUME NEW b \in S, NEW c \in S, push(b).at = push(c).at PROVE push(b) = push(c)
        BY <2>1
      <3>1. rank(b) = rank(c)
        BY <1>3, <2>2
      <3> QED
        BY <2>3, <3>1
    <2>7. \A b \in S : \E n \in new : Target(n) = b /\ n.weight = e.weight + Weight(T, b)
      BY <2>1, <2>2
    <2>8. new \subseteq Entries /\ Cardinality(new) \in Nat
      BY <1>3, <2>1, <2>2, <2>4
    <2> QED
      BY <2>5, <2>6, <2>7, <2>8 DEF S, T, new
  <1> QED
    BY <1>1, <1>4, <1>5

-----------------------------------------------------------------------------
(* The steps *)

\* A visited node, or one with an entry that is not taken away, stays reached.
LEMMA StaysReached ==
    ASSUME NEW b, NEW w, NEW seen, NEW queue, NEW seenNow, NEW queueNow,
           Reached(b, w, seen, queue), seen \subseteq seenNow,
           \A h \in queue : h \in queueNow \/ Target(h) \in seenNow
    PROVE  Reached(b, w, seenNow, queueNow)
  BY DEF Reached

\* A graph that stays has the neighbours and the weights it had.
LEMMA GraphStays ==
    ASSUME UNCHANGED graph
    PROVE  /\ GraphOK' = GraphOK /\ SeedPushes' = SeedPushes
           /\ \A a : Neighbours(a)' = Neighbours(a) /\ IsSeed(a)' = IsSeed(a)
           /\ \A a, b : Weight(a, b)' = Weight(a, b)
  BY DEF graph, GraphOK, SeedPushes, Neighbours, IsSeed, Weight, EffectiveWeight, Factor,
         DominantCommunities, FirstFive

\* A heap without one of its entries.
LEMMA PoppedHeap ==
    ASSUME HeapOK, NEW e, heap' = heap \ {e}, counter' = counter
    PROVE  HeapOK'
  BY DEF HeapOK

\* The heap an expansion leaves.
LEMMA ExpandedHeap ==
    ASSUME GraphOK, HeapOK, NEW e \in heap, heap' = (heap \ {e}) \union NewEntries(e),
           counter' = counter + Cardinality(NewEntries(e))
    PROVE  HeapOK'
  <1> DEFINE new == NewEntries(e)
  <1>1. counter \in Nat /\ e \in Entries /\ heap \subseteq Entries
    BY DEF HeapOK
  <1>2. /\ new \subseteq Entries /\ Cardinality(new) \in Nat
        /\ \A n \in new : /\ n.at > counter /\ n.at <= counter + Cardinality(new)
                           /\ n.weight <= e.weight + 1320
        /\ \A n, m \in new : n.at = m.at => n = m
    BY <1>1, Pushes
  <1> HIDE DEF new
  <1>3. heap' = (heap \ {e}) \union new /\ counter' = counter + Cardinality(new)
    BY DEF new
  <1>4. heap' \subseteq Entries /\ counter' \in Nat
    BY <1>1, <1>2, <1>3
  <1>5. \A h \in heap : h.at <= counter /\ h.at \in Nat /\ h.weight \in Nat
    BY <1>1 DEF HeapOK, Entries
  <1>6. \A h \in new : h.at \in Nat /\ h.weight \in Nat
    BY <1>2 DEF Entries
  <1>7. \A h \in heap' : h.at <= counter'
    BY <1>1, <1>2, <1>3, <1>5, <1>6
  <1>8. ASSUME NEW h \in heap', NEW k \in heap', h.at = k.at PROVE h = k
    <2>1. CASE h \in heap /\ k \in heap
      BY <1>8, <2>1 DEF HeapOK
    <2>2. CASE h \in new /\ k \in new
      BY <1>2, <1>8, <2>2
    <2>3. CASE (h \in new /\ k \in heap) \/ (h \in heap /\ k \in new)
      BY <1>1, <1>2, <1>5, <1>6, <1>8, <2>3
    <2> QED
      BY <1>3, <2>1, <2>2, <2>3
  <1>9. \E bound \in Nat : \A h \in heap' : h.weight <= bound
    <2>1. PICK bound \in Nat : \A h \in heap : h.weight <= bound
      BY DEF HeapOK
    <2>2. \A h \in heap' : h.weight <= bound + 1320
      BY <1>2, <1>3, <1>5, <1>6, <2>1
    <2> QED
      BY <2>1, <2>2
  <1> QED
    BY <1>4, <1>7, <1>8, <1>9 DEF HeapOK

\* The search begins with its seeds alone.
LEMMA BfsBegins == BfsInit => BfsInv
  <1> SUFFICES ASSUME BfsInit PROVE BfsInv
    OBVIOUS
  <1>1. PICK k \in 1..MaxSeeds : seeds \in [1..k -> Nodes]
    BY DEF BfsInit
  <1>2. k \in Nat /\ seeds \in Seq(Nodes) /\ Len(seeds) = k /\ DOMAIN seeds = 1..k
    BY <1>1, BfsConstantAssumption
  <1>3. GraphOK
    BY <1>1, <1>2, BfsConstantAssumption DEF GraphOK, BfsInit
  <1>4. ASSUME NEW i \in 1..k
        PROVE  Push(<<seeds[i]>>, 0, i) \in Entries
    BY <1>1, <1>2 DEF Push, Entries
  <1>5. HeapOK
    <2>1. heap = {Push(<<seeds[i]>>, 0, i) : i \in 1..k} /\ counter = k
      BY <1>2 DEF BfsInit
    <2>2. heap \subseteq Entries
      BY <1>4, <2>1
    <2>3. \A h \in heap : h.weight = 0 /\ h.at <= k
      BY <1>2, <2>1 DEF Push
    <2>4. \A h, l \in heap : h.at = l.at => h = l
      BY <2>1 DEF Push
    <2>5. \E bound \in Nat : \A h \in heap : h.weight <= bound
      BY <2>3
    <2> QED
      BY <1>2, <2>1, <2>2, <2>3, <2>4, <2>5 DEF HeapOK
  <1>6. discovered = <<>> /\ DOMAIN discovered = {} /\ visited = {} /\ done = FALSE
    BY DEF BfsInit
  <1>7. FoundOK
    BY <1>6 DEF FoundOK
  <1>8. EarlierResultsAreExtended /\ ExpandedOK
    BY <1>6 DEF EarlierResultsAreExtended, ExpandedOK
  <1>9. FirstOK
    BY <1>6 DEF FirstOK, SeedPushes, BfsInit
  <1> QED
    BY <1>3, <1>5, <1>6, <1>7, <1>8, <1>9 DEF BfsInv

\* What an action leaves of the results when it finds nothing new.
LEMMA NothingFound ==
    ASSUME FoundOK, UNCHANGED <<graph, discovered>>, visited \subseteq visited', visited' \subseteq Nodes,
           EarlierResultsAreExtended
    PROVE  FoundOK' /\ EarlierResultsAreExtended'
  <1>1. FoundOK'
    BY DEF FoundOK, Target
  <1>2. EarlierResultsAreExtended'
    BY GraphStays DEF EarlierResultsAreExtended, Target, Hops
  <1> QED
    BY <1>1, <1>2

\* An entry of a visited node is thrown away.
LEMMA PopVisitedStep == BfsInv /\ PopVisited => BfsInv'
  <1> SUFFICES ASSUME BfsInv, PopVisited PROVE BfsInv'
    OBVIOUS
  <1>1. /\ GraphOK /\ HeapOK /\ FoundOK /\ EarlierResultsAreExtended /\ ExpandedOK /\ FirstOK
        /\ ~done /\ UNCHANGED <<graph, counter, visited, discovered, done>>
        /\ heap # {} /\ heap' = heap \ {Heaviest} /\ Target(Heaviest) \in visited
    BY DEF BfsInv, PopVisited
  <1>2. HeapOK' /\ GraphOK'
    BY <1>1, PoppedHeap, GraphStays
  <1>3. FoundOK' /\ EarlierResultsAreExtended'
    BY <1>1, NothingFound DEF FoundOK
  <1>4. ASSUME NEW b, NEW w, Reached(b, w, visited, heap) PROVE Reached(b, w, visited, heap \ {Heaviest})
    <2>1. \A h \in heap : h \in heap \ {Heaviest} \/ Target(h) \in visited
      BY <1>1
    <2> HIDE DEF Heaviest
    <2> QED
      BY <1>4, <2>1, StaysReached
  <1>5. ExpandedOK'
    <2> SUFFICES ASSUME NEW i \in DOMAIN discovered, Hops(discovered[i]) < Depth,
                        NEW b \in Neighbours(Target(discovered[i]))
                 PROVE  Reached(b, discovered[i].weight + Weight(Target(discovered[i]), b),
                                visited, heap \ {Heaviest})
      <3> DEFINE now == heap \ {Heaviest}
      <3>1. heap' = now /\ UNCHANGED <<graph, visited, discovered>>
        BY <1>1
      <3> HIDE DEF now
      <3>2. /\ \A a : Neighbours(a)' = Neighbours(a)
            /\ \A a, b : Weight(a, b)' = Weight(a, b)
        BY <3>1, GraphStays
      <3>3. ASSUME NEW i \in DOMAIN discovered, Hops(discovered[i]) < Depth,
                   NEW b \in Neighbours(Target(discovered[i]))
            PROVE  Reached(b, discovered[i].weight + Weight(Target(discovered[i]), b), visited, now)
        BY <3>3 DEF now
      <3> QED
        BY <3>1, <3>2, <3>3 DEF ExpandedOK, Target, Hops
    <2>1. Reached(b, discovered[i].weight + Weight(Target(discovered[i]), b), visited, heap)
      BY <1>1 DEF ExpandedOK
    <2> QED
      BY <1>4, <2>1
  <1>6. FirstOK'
    <2>1. visited # {} /\ visited' # {} /\ seeds' = seeds
      BY <1>1 DEF graph
    <2>2. ASSUME Depth > 0, NEW b \in Neighbours(seeds[1]) PROVE Reached(b, 0, visited, heap \ {Heaviest})
      BY <1>1, <1>4, <2>1, <2>2 DEF FirstOK
    <2> QED
      BY <1>1, <2>1, <2>2, GraphStays DEF FirstOK
  <1> QED
    BY <1>1, <1>2, <1>3, <1>5, <1>6 DEF BfsInv

\* A node popped for the first time is at least as heavy as every path that reaches
\* it over a result: those are in the heap, and it is the heaviest there.
LEMMA NewResult ==
    ASSUME BfsInv, ~done, heap # {}, Target(Heaviest) \notin visited,
           UNCHANGED graph, discovered' = Found, visited' = visited \union {Target(Heaviest)}
    PROVE  FoundOK' /\ EarlierResultsAreExtended'
  <1> DEFINE e == Heaviest
  <1>1. /\ GraphOK /\ HeapOK /\ FoundOK /\ EarlierResultsAreExtended /\ ExpandedOK
        /\ e \in heap /\ \A f \in heap \ {e} : Before(e, f)
    BY HeaviestIs DEF BfsInv
  <1>2. e \in Entries /\ Target(e) \in Nodes /\ \A h \in heap : h.weight \in Nat
    BY <1>1, TargetIs DEF HeapOK, Entries
  <1>3. \A h \in heap : h.weight <= e.weight
    BY <1>1, <1>2 DEF Before
  <1>4. discovered' = discovered \/ discovered' = Append(discovered, e)
    BY DEF Found
  <1> HIDE DEF e
  <1>5. CASE discovered' = discovered
    <2>1. visited \subseteq visited' /\ visited' \subseteq Nodes
      BY <1>1, <1>2 DEF FoundOK, e
    <2> QED
      BY <1>1, <1>5, <2>1, NothingFound
  <1>6. CASE discovered' = Append(discovered, e)
    <2> DEFINE n == Len(discovered)
    <2>1. discovered \in Seq(Entries) /\ n \in Nat /\ DOMAIN discovered = 1..n
      BY <1>1 DEF FoundOK
    <2>2. /\ discovered' \in Seq(Entries) /\ DOMAIN discovered' = 1..(n + 1)
          /\ discovered'[n + 1] = e /\ \A i \in 1..n : discovered'[i] = discovered[i]
      BY <1>2, <1>6, <2>1
    <2> HIDE DEF n
    <2>3. FoundOK'
      <3>1. visited' = visited \union {Target(e)} /\ visited' \subseteq Nodes
        BY <1>1, <1>2 DEF FoundOK, e
      <3>2. ASSUME NEW i \in 1..(n + 1) PROVE Target(discovered'[i]) \in visited'
        BY <1>1, <2>1, <2>2, <3>1 DEF FoundOK
      <3> QED
        BY <2>2, <3>1, <3>2 DEF FoundOK, Target
    <2>4. ASSUME NEW i \in 1..(n + 1), NEW j \in 1..(n + 1), i < j,
                 Hops(discovered'[i]) < Depth,
                 Target(discovered'[j]) \in Neighbours(Target(discovered'[i]))
          PROVE  discovered'[j].weight >=
                    discovered'[i].weight + Weight(Target(discovered'[i]), Target(discovered'[j]))
      <3>1. i \in 1..n /\ discovered'[i] = discovered[i]
        BY <2>1, <2>2, <2>4
      <3>2. CASE j \in 1..n
        BY <1>1, <2>1, <2>2, <2>4, <3>1, <3>2 DEF EarlierResultsAreExtended
      <3>3. CASE j = n + 1
        <4> DEFINE w == discovered[i].weight + Weight(Target(discovered[i]), Target(e))
        <4>1. discovered'[j] = e /\ Target(e) \in Neighbours(Target(discovered[i]))
          BY <2>2, <2>4, <3>1, <3>3
        <4>2. Reached(Target(e), w, visited, heap)
          BY <1>1, <2>1, <2>4, <3>1, <4>1 DEF ExpandedOK
        <4>3. w \in Nat
          <5>1. discovered[i] \in Entries
            BY <2>1, <3>1
          <5>2. Target(discovered[i]) \in Nodes /\ discovered[i].weight \in Nat
            BY <5>1, TargetIs DEF Entries
          <5>3. Weight(Target(discovered[i]), Target(e)) \in Nat
            BY <1>1, <1>2, <4>1, <5>2, EdgeWeights DEF Neighbours
          <5> DEFINE base == discovered[i].weight  more == Weight(Target(discovered[i]), Target(e))
          <5>4. base \in Nat /\ more \in Nat
            BY <5>2, <5>3
          <5> HIDE DEF base, more
          <5>5. base + more \in Nat
            BY <5>4
          <5> QED
            BY <5>5 DEF base, more
        <4> HIDE DEF w
        <4>4. PICK h \in heap : h.weight >= w
          BY <4>2 DEF Reached, e
        <4>5. e.weight >= w
          BY <1>2, <1>3, <4>3, <4>4 DEF Entries
        <4> QED
          BY <3>1, <4>1, <4>5 DEF w
      <3> QED
        BY <2>1, <3>2, <3>3
    <2>5. EarlierResultsAreExtended'
      BY <2>2, <2>4, GraphStays DEF EarlierResultsAreExtended, Target, Hops
    <2> QED
      BY <2>3, <2>5
  <1> QED
    BY <1>4, <1>5, <1>6

\* A node is popped for the first time: its neighbours enter the heap.
LEMMA PopNodeStep == BfsInv /\ PopNode => BfsInv'
  <1> SUFFICES ASSUME BfsInv, PopNode PROVE BfsInv'
    OBVIOUS
  <1> DEFINE e == Heaviest  T == Target(Heaviest)  new == NewEntries(Heaviest)
  <1>1. /\ GraphOK /\ HeapOK /\ FoundOK /\ ExpandedOK /\ FirstOK
        /\ ~done /\ UNCHANGED <<graph, done>> /\ heap # {} /\ T \notin visited
        /\ visited' = visited \union {T} /\ discovered' = Found
        /\ heap' = (heap \ {e}) \union new /\ counter' = counter + Cardinality(new)
    BY DEF BfsInv, PopNode
  <1>2. e \in heap /\ \A f \in heap \ {e} : Before(e, f)
    BY <1>1, HeaviestIs
  <1>3. FoundOK' /\ EarlierResultsAreExtended'
    BY <1>1, NewResult
  <1>4. discovered' = IF IsSeed(T) THEN discovered ELSE Append(discovered, e)
    BY <1>1 DEF Found
  <1>5. e \in Entries /\ counter \in Nat
    BY <1>1, <1>2 DEF HeapOK
  <1>6. /\ new \subseteq Entries
        /\ Hops(e) < Depth => \A b \in Neighbours(T) :
               \E n \in new : Target(n) = b /\ n.weight = e.weight + Weight(T, b)
    BY <1>1, <1>5, Pushes
  <1>7. e.weight \in Nat /\ T \in Nodes /\ Hops(e) \in Nat
    BY <1>5, TargetIs DEF Entries
  <1>8. T = Target(e)
    OBVIOUS
  <1>9. HeapOK' /\ GraphOK'
    BY <1>1, <1>2, ExpandedHeap, GraphStays
  <1> HIDE DEF e, T, new
  <1> DEFINE now == (heap \ {e}) \union new  seen == visited \union {T}
  <1>10. ASSUME NEW b, NEW w, Reached(b, w, visited, heap) PROVE Reached(b, w, seen, now)
    <2>1. \A h \in heap : h \in now \/ Target(h) \in seen
      BY <1>8
    <2>2. visited \subseteq seen
      OBVIOUS
    <2> HIDE DEF now, seen
    <2> QED
      BY <1>10, <2>1, <2>2, StaysReached
  <1>11. ASSUME Hops(e) < Depth, NEW b \in Neighbours(T)
         PROVE  Reached(b, e.weight + Weight(T, b), seen, now) /\ Reached(b, 0, seen, now)
    <2>1. PICK n \in new : Target(n) = b /\ n.weight = e.weight + Weight(T, b)
      BY <1>6, <1>11
    <2>2. n.weight \in Nat
      BY <1>6 DEF Entries
    <2>3. n \in now
      OBVIOUS
    <2> HIDE DEF now, seen
    <2> QED
      BY <2>1, <2>2, <2>3 DEF Reached
  <1>12. ExpandedOK'
    <2> SUFFICES ASSUME NEW i \in DOMAIN discovered', Hops(discovered'[i]) < Depth,
                        NEW b \in Neighbours(Target(discovered'[i]))
                 PROVE  Reached(b, discovered'[i].weight + Weight(Target(discovered'[i]), b), seen, now)
      <3>1. visited' = seen /\ heap' = now /\ UNCHANGED graph
        BY <1>1 DEF T, e, new
      <3> HIDE DEF now, seen
      <3> QED
        BY <3>1, GraphStays DEF ExpandedOK, Target, Hops
    <2> HIDE DEF now, seen
    <2>1. discovered \in Seq(Entries)
      BY <1>1 DEF FoundOK
    <2>2. CASE i \in DOMAIN discovered /\ discovered'[i] = discovered[i]
      <3>1. Reached(b, discovered[i].weight + Weight(Target(discovered[i]), b), visited, heap)
        BY <1>1, <2>2 DEF ExpandedOK
      <3> QED
        BY <1>10, <2>2, <3>1
    <2>3. CASE discovered'[i] = e
      BY <1>8, <1>11, <2>3
    <2>4. \/ i \in DOMAIN discovered /\ discovered'[i] = discovered[i]
          \/ discovered'[i] = e
      BY <1>4, <1>5, <2>1
    <2> QED
      BY <2>2, <2>3, <2>4
  <1>13. FirstOK'
    <2>1. seeds' = seeds /\ visited' # {} /\ visited' = seen /\ heap' = now
      BY <1>1 DEF graph, T, e, new
    <2>2. ASSUME Depth > 0, NEW b \in Neighbours(seeds[1]) PROVE Reached(b, 0, seen, now)
      <3>1. CASE visited # {}
        <4>1. Reached(b, 0, visited, heap)
          BY <1>1, <2>2, <3>1 DEF FirstOK
        <4> HIDE DEF now, seen
        <4> QED
          BY <1>10, <4>1
      <3>2. CASE visited = {}
        <4>1. heap = SeedPushes
          BY <1>1, <3>2 DEF FirstOK
        <4>2. 1 \in DOMAIN seeds /\ \A k \in DOMAIN seeds : k \in Nat /\ k >= 1 /\ seeds[k] \in Nodes
          BY <1>1 DEF GraphOK
        <4> DEFINE first == Push(<<seeds[1]>>, 0, 1)
        <4>3. first \in heap /\ first.weight = 0 /\ first.at = 1
          BY <4>1, <4>2 DEF SeedPushes, Push
        <4>4. PICK k \in DOMAIN seeds : e = Push(<<seeds[k]>>, 0, k)
          BY <1>2, <4>1 DEF SeedPushes
        <4>5. e.weight = 0 /\ e.at = k
          BY <4>4 DEF Push
        <4>6. e = first
          <5> SUFFICES ASSUME e # first PROVE FALSE
            OBVIOUS
          <5>1. Before(e, first)
            BY <1>2, <4>3
          <5> HIDE DEF first
          <5> QED
            BY <4>2, <4>3, <4>5, <5>1 DEF Before
        <4>7. T = seeds[1] /\ Hops(e) = 0
          BY <1>8, <4>2, <4>6 DEF Push, Target, Hops, Last
        <4> HIDE DEF now, seen
        <4> QED
          BY <1>11, <2>2, <4>7
      <3> QED
        BY <3>1, <3>2
    <2> HIDE DEF now, seen
    <2> QED
      BY <1>1, <2>1, <2>2, GraphStays DEF FirstOK
  <1> QED
    BY <1>1, <1>3, <1>9, <1>12, <1>13 DEF BfsInv

\* The result that fills the limit ends the search.
LEMMA PopLastStep == BfsInv /\ PopLast => BfsInv'
  <1> SUFFICES ASSUME BfsInv, PopLast PROVE BfsInv'
    OBVIOUS
  <1>1. /\ GraphOK /\ HeapOK /\ ~done /\ heap # {} /\ Target(Heaviest) \notin visited
        /\ UNCHANGED <<graph, counter>> /\ discovered' = Found
        /\ visited' = visited \union {Target(Heaviest)} /\ heap' = heap \ {Heaviest} /\ done' = TRUE
    BY DEF BfsInv, PopLast
  <1>2. FoundOK' /\ EarlierResultsAreExtended'
    BY <1>1, NewResult
  <1>3. HeapOK' /\ GraphOK'
    BY <1>1, PoppedHeap, GraphStays
  <1>4. Capped'
    BY <1>1 DEF PopLast, Full, Capped, graph
  <1> QED
    BY <1>1, <1>2, <1>3, <1>4 DEF BfsInv

\* The heap is empty.
LEMMA ReturnStep == BfsInv /\ Return => BfsInv'
  <1> SUFFICES ASSUME BfsInv, Return PROVE BfsInv'
    OBVIOUS
  <1>1. UNCHANGED <<graph, heap, counter, visited, discovered>> /\ ~done /\ done' = TRUE /\ heap' = {}
    BY DEF Return
  <1>2. GraphOK' /\ HeapOK' /\ FoundOK' /\ EarlierResultsAreExtended'
    BY <1>1, GraphStays, NothingFound DEF BfsInv, HeapOK, FoundOK
  <1>3. ExpandedOK' /\ FirstOK'
    <2>1. ExpandedOK /\ FirstOK
      BY <1>1 DEF BfsInv
    <2> QED
      BY <1>1, <2>1, GraphStays DEF ExpandedOK, FirstOK, Target, Hops, graph
  <1> QED
    BY <1>1, <1>2, <1>3 DEF BfsInv

\* Nothing changes when nothing happens.
LEMMA BfsStutters == BfsInv /\ UNCHANGED BfsVars => BfsInv'
  <1> SUFFICES ASSUME BfsInv, UNCHANGED BfsVars PROVE BfsInv'
    OBVIOUS
  <1>1. UNCHANGED <<graph, heap, counter, visited, discovered, done>>
    BY DEF BfsVars, graph
  <1>2. GraphOK' /\ HeapOK' /\ FoundOK' /\ EarlierResultsAreExtended'
    BY <1>1, GraphStays, NothingFound DEF BfsInv, HeapOK, FoundOK
  <1>3. Capped' = Capped /\ (ExpandedOK => ExpandedOK') /\ (FirstOK => FirstOK')
    <2>1. Capped' = Capped
      BY <1>1 DEF Capped, graph
    <2>2. ExpandedOK => ExpandedOK'
      BY <1>1, GraphStays DEF ExpandedOK, Target, Hops
    <2>3. FirstOK => FirstOK'
      BY <1>1, GraphStays DEF FirstOK, graph
    <2> QED
      BY <2>1, <2>2, <2>3
  <1> QED
    BY <1>1, <1>2, <1>3 DEF BfsInv

\* In every reachable state of a search, BfsInv holds.
THEOREM BfsInvariant == BfsSpec => []BfsInv
  <1>1. BfsInv /\ [BfsNext]_BfsVars => BfsInv'
    BY PopVisitedStep, PopNodeStep, PopLastStep, ReturnStep, BfsStutters DEF BfsNext, BfsDone
  <1> QED
    BY BfsBegins, <1>1, PTL DEF BfsSpec

\* A search that is not cut short has visited every neighbour of its first seed and of
\* each result nearer than the depth, on every graph.
THEOREM Closed == BfsSpec => []FrontierIsClosed
  <1>1. ASSUME BfsInv, done, ~Capped
        PROVE  /\ \A r \in Range(discovered) : Hops(r) < Depth => Neighbours(Target(r)) \subseteq visited
               /\ Depth > 0 => Neighbours(seeds[1]) \subseteq visited
    <2>1. heap = {} /\ ExpandedOK /\ FirstOK /\ GraphOK
      BY <1>1 DEF BfsInv
    <2>2. visited # {}
      <3>1. 1 \in DOMAIN seeds
        BY <2>1 DEF GraphOK
      <3> QED
        BY <2>1, <3>1 DEF FirstOK, SeedPushes
    <2>3. \A b, w : Reached(b, w, visited, heap) => b \in visited
      BY <2>1 DEF Reached
    <2>4. \A r \in Range(discovered) : \E i \in DOMAIN discovered : r = discovered[i]
      BY DEF Range
    <2>5. ASSUME NEW i \in DOMAIN discovered, Hops(discovered[i]) < Depth
          PROVE  Neighbours(Target(discovered[i])) \subseteq visited
      BY <2>1, <2>3, <2>5 DEF ExpandedOK
    <2>6. Depth > 0 => Neighbours(seeds[1]) \subseteq visited
      BY <2>1, <2>2, <2>3 DEF FirstOK
    <2> QED
      BY <2>4, <2>5, <2>6
  <1>2. BfsInv => FrontierIsClosed
    BY <1>1 DEF FrontierIsClosed
  <1> QED
    BY <1>2, BfsInvariant, PTL

\* No result is lighter than a path to it over an earlier one, on every graph and with
\* any weights of the relations.
THEOREM EarlierExtended == BfsSpec => []EarlierResultsAreExtended
  <1>1. BfsInv => EarlierResultsAreExtended
    BY DEF BfsInv
  <1> QED
    BY <1>1, BfsInvariant, PTL

-----------------------------------------------------------------------------
(* HybridMerge                                                             *)

\* Two results whose order decides which one stays.
Outdoes(seq, y, x) ==
    /\ Overlap(seq[y], seq[x])
    /\ \/ Relevance(seq[y]) > Relevance(seq[x])
       \/ Relevance(seq[y]) = Relevance(seq[x]) /\ y < x
\* What is removed was outdone.
AllOutdone(seq, removed) ==
    \A x \in removed : \E y \in 1..Len(seq) : Outdoes(seq, y, x)
\* Of a and each overlapping one of the later ones up to b, one is removed.
SettledTo(seq, removed, a, b) ==
    \A j \in (a + 1)..b : Overlap(seq[a], seq[j]) => a \in removed \/ j \in removed
\* Results with a relevance.
Ratable(seq) ==
    /\ DOMAIN seq = 1..Len(seq) /\ Len(seq) \in Nat
    /\ \A i \in 1..Len(seq) : Relevance(seq[i]) \in Int

\* One comparison takes away what is outdone.
LEMMA CompareIs ==
    ASSUME NEW seq, Ratable(seq), NEW a \in 1..Len(seq), NEW b \in (a + 1)..Len(seq),
           NEW removed \in SUBSET (1..Len(seq)), AllOutdone(seq, removed),
           SettledTo(seq, removed, a, b - 1)
    PROVE  /\ Compare(seq, a, removed, b) \in SUBSET (1..Len(seq))
           /\ removed \subseteq Compare(seq, a, removed, b)
           /\ AllOutdone(seq, Compare(seq, a, removed, b))
           /\ SettledTo(seq, Compare(seq, a, removed, b), a, b)
  <1>1. a \in Nat /\ b \in Nat /\ b \in 1..Len(seq) /\ a < b /\ Len(seq) \in Nat
    BY DEF Ratable
  <1>2. (a + 1)..b = ((a + 1)..(b - 1)) \union {b}
    BY <1>1
  <1> DEFINE now == Compare(seq, a, removed, b)
  <1>3. CASE b \in removed \/ ~Overlap(seq[a], seq[b])
    <2>1. now = removed
      BY <1>3 DEF Compare
    <2> QED
      BY <1>2, <1>3, <2>1 DEF SettledTo
  <1>4. CASE b \notin removed /\ Overlap(seq[a], seq[b])
    <2>1. Relevance(seq[a]) \in Int /\ Relevance(seq[b]) \in Int
      BY <1>1 DEF Ratable
    <2>2. PICK x \in {a, b} :
              /\ now = removed \union {x}
              /\ \E y \in {a, b} : Outdoes(seq, y, x)
      <3>1. Overlap(seq[b], seq[a])
        BY <1>4 DEF Overlap
      <3>2. CASE Relevance(seq[a]) >= Relevance(seq[b])
        <4>1. now = removed \union {b}
          BY <1>4, <3>2 DEF Compare
        <4>2. Outdoes(seq, a, b)
          BY <1>1, <1>4, <2>1, <3>2 DEF Outdoes
        <4> QED
          BY <4>1, <4>2
      <3>3. CASE ~(Relevance(seq[a]) >= Relevance(seq[b]))
        <4>1. now = removed \union {a}
          BY <1>4, <3>3 DEF Compare
        <4>2. Outdoes(seq, b, a)
          BY <2>1, <3>1, <3>3 DEF Outdoes
        <4> QED
          BY <4>1, <4>2
      <3> QED
        BY <3>2, <3>3
    <2>3. x \in 1..Len(seq) /\ a \in 1..Len(seq)
      BY <1>1
    <2>4. AllOutdone(seq, now)
      BY <1>1, <2>2 DEF AllOutdone
    <2>5. SettledTo(seq, now, a, b)
      BY <1>2, <2>2 DEF SettledTo
    <2> QED
      BY <2>2, <2>3, <2>4, <2>5
  <1> QED
    BY <1>3, <1>4

\* The inner loop.
Comparing(seq, removed, a) ==
    FoldLeft(LAMBDA acc, b : Compare(seq, a, acc, b), removed,
             [k \in 1..(Len(seq) - a) |-> a + k])

\* Its values, step by step.
IsComparing(g, seq, removed, a) ==
    /\ g \in [0..(Len(seq) - a) -> SUBSET (1..Len(seq))]
    /\ g[0] = removed /\ g[Len(seq) - a] = Comparing(seq, removed, a)
    /\ \A k \in 1..(Len(seq) - a) : g[k] = Compare(seq, a, g[k - 1], a + k)
\* The inner loop takes these steps.
LEMMA ComparingSteps ==
    ASSUME NEW seq, Ratable(seq), NEW a \in 1..Len(seq), NEW removed \in SUBSET (1..Len(seq))
    PROVE  \E g : IsComparing(g, seq, removed, a)
  <1> DEFINE n == Len(seq) - a
             V == SUBSET (1..Len(seq))
             later == [k \in 1..n |-> a + k]
             body(f) == [t \in SUBSET DOMAIN later |->
                           IF t = {} THEN removed
                           ELSE Compare(seq, a, f[t \ {Max(t)}], later[Max(t)])]
             f == CHOOSE h : h = body(h)
             F == [x \in V \X (1..n) |-> Compare(seq, a, x[1], later[x[2]])]
  <1>1. Comparing(seq, removed, a) = f[DOMAIN later]
    BY DEF Comparing, FoldLeft, MapThenFoldSet
  <1>2. n \in Nat /\ DOMAIN later = 1..n /\ \A k \in 1..n : later[k] \in (a + 1)..Len(seq)
    BY DEF Ratable
  <1>3. \A v \in V : \A k \in 1..n : Compare(seq, a, v, later[k]) \in V
    <2> SUFFICES ASSUME NEW v \in V, NEW k \in 1..n PROVE Compare(seq, a, v, later[k]) \in V
      OBVIOUS
    <2>1. later[k] \in 1..Len(seq)
      BY <1>2 DEF Ratable
    <2> HIDE DEF later
    <2> QED
      BY <2>1 DEF Compare
  <1> HIDE DEF V
  <1>4. /\ F \in [V \X (1..n) -> V]
        /\ \A v \in V : \A k \in 1..n : F[<<v, k>>] = Compare(seq, a, v, later[k])
    <2> HIDE DEF later, n
    <2> QED
      BY <1>3
  <1> HIDE DEF F, later, n
  <1>5. removed \in V
    BY DEF V
  <1>6. \E h : h = body(h)
    <2>1. PICK h : FoldOf(V, removed, F, h, n)
      BY <1>2, <1>4, <1>5, FoldExists
    <2>2. ASSUME NEW t \in SUBSET (1..n)
          PROVE  h[t] = IF t = {} THEN removed ELSE Compare(seq, a, h[t \ {Max(t)}], later[Max(t)])
      <3>1. h[t] = IF t = {} THEN removed ELSE F[<<h[t \ {Max(t)}], Max(t)>>]
        BY <2>1 DEF FoldOf
      <3>2. t # {} => Max(t) \in 1..n
        BY <1>2, GreatestIs
      <3>3. t \ {Max(t)} \in SUBSET (1..n) /\ h \in [SUBSET (1..n) -> V]
        BY <2>1 DEF FoldOf
      <3>4. h[t \ {Max(t)}] \in V
        BY <3>3
      <3> QED
        BY <1>4, <3>1, <3>2, <3>4
    <2>3. h \in [SUBSET DOMAIN later -> V]
      BY <1>2, <2>1 DEF FoldOf
    <2>4. h = body(h)
      BY <1>2, <2>2, <2>3
    <2> QED
      BY <2>4
  <1>7. f = body(f)
    BY <1>6
  <1> HIDE DEF f
  <1>8. Unfolds(V, removed, F, n, f)
    <2> SUFFICES ASSUME NEW t \in SUBSET (1..n)
                 PROVE  IF t = {} THEN f[t] = removed
                        ELSE f[t \ {Max(t)}] \in V => f[t] = F[<<f[t \ {Max(t)}], Max(t)>>]
      BY DEF Unfolds
    <2>1. f[t] = IF t = {} THEN removed ELSE Compare(seq, a, f[t \ {Max(t)}], later[Max(t)])
      BY <1>2, <1>7
    <2>2. t # {} => Max(t) \in 1..n
      BY <1>2, GreatestIs
    <2> QED
      BY <1>4, <2>1, <2>2
  <1> DEFINE g == StepsOf(f, n)
  <1>9. Chain(V, removed, F, n, g)
    <2>1. n \in Nat /\ F \in [V \X (1..n) -> V]
      BY <1>2, <1>4
    <2> QED
      BY <1>5, <1>8, <2>1, FoldIsChain
  <1>10. g[n] = Comparing(seq, removed, a)
    BY <1>1, <1>2 DEF StepsOf
  <1> HIDE DEF g
  <1>11. \A k \in 1..n : k - 1 \in 0..n /\ later[k] = a + k
    BY <1>2 DEF later
  <1>12. \A k \in 1..n : g[k] = Compare(seq, a, g[k - 1], a + k)
    BY <1>4, <1>9, <1>11 DEF Chain
  <1> QED
    BY <1>9, <1>10, <1>12 DEF Chain, V, n, IsComparing

\* The inner loop settles all overlaps of a with later ones.
LEMMA ComparingSettles ==
    ASSUME NEW seq, Ratable(seq), NEW a \in 1..Len(seq),
           NEW removed \in SUBSET (1..Len(seq)), AllOutdone(seq, removed)
    PROVE  /\ removed \subseteq Comparing(seq, removed, a)
           /\ AllOutdone(seq, Comparing(seq, removed, a))
           /\ SettledTo(seq, Comparing(seq, removed, a), a, Len(seq))
  <1> DEFINE n == Len(seq) - a
  <1>1. PICK g : IsComparing(g, seq, removed, a)
    BY ComparingSteps
  <1>2. /\ g \in [0..n -> SUBSET (1..Len(seq))]
        /\ g[0] = removed /\ Comparing(seq, removed, a) = g[n]
        /\ \A k \in 1..n : g[k] = Compare(seq, a, g[k - 1], a + k)
    BY <1>1 DEF IsComparing
  <1>7. n \in Nat /\ a \in Nat /\ Len(seq) \in Nat /\ a + n = Len(seq)
    BY DEF Ratable
  <1> DEFINE Good(k) == /\ removed \subseteq g[k] /\ AllOutdone(seq, g[k])
                        /\ SettledTo(seq, g[k], a, a + k)
             T == {k \in Nat : k > n \/ Good(k)}
  <1>3. Good(0)
    <2>1. (a + 1)..(a + 0) = {}
      BY <1>7
    <2> QED
      BY <1>2, <2>1 DEF SettledTo
  <1>4. ASSUME NEW k \in 1..n, Good(k - 1) PROVE Good(k)
    <2>1. a + k \in (a + 1)..Len(seq) /\ (a + k) - 1 = a + (k - 1) /\ k - 1 \in 0..n
      BY <1>7
    <2>2. g[k - 1] \in SUBSET (1..Len(seq))
      BY <1>2, <2>1
    <2>3. g[k] = Compare(seq, a, g[k - 1], a + k)
      BY <1>2
    <2>4. SettledTo(seq, g[k - 1], a, (a + k) - 1)
      BY <1>4, <2>1
    <2> HIDE DEF n
    <2>5. /\ g[k - 1] \subseteq g[k] /\ AllOutdone(seq, g[k])
          /\ SettledTo(seq, g[k], a, a + k)
      BY <1>4, <2>1, <2>2, <2>3, <2>4, CompareIs
    <2> QED
      BY <1>4, <2>5
  <1> HIDE DEF Good
  <1>5. Nat \subseteq T
    <2> SUFFICES ASSUME NEW k \in Nat, k \notin T, k = 0 \/ k - 1 \in T PROVE FALSE
      <3> HIDE DEF T
      <3> QED
        BY FirstMissing
    <2>1. CASE k = 0
      BY <1>3, <2>1
    <2>2. CASE k # 0
      <3>1. k \in 1..n /\ k - 1 \in Nat /\ ~(k - 1 > n)
        BY <1>7, <2>2
      <3> QED
        BY <1>4, <2>2, <3>1
    <2> QED
      BY <2>1, <2>2
  <1>6. Good(n)
    BY <1>7, <1>5
  <1> QED
    BY <1>2, <1>7, <1>6 DEF Good

\* The outer loop.
LEMMA RemovedSteps ==
    ASSUME NEW seq, Ratable(seq)
    PROVE  \E g \in [0..Len(seq) -> SUBSET (1..Len(seq))] :
              /\ g[0] = {} /\ Removed(seq) = g[Len(seq)]
              /\ \A k \in 1..Len(seq) : g[k] = CompareLater(seq, g[k - 1], k)
  <1> DEFINE n == Len(seq)
             V == SUBSET (1..n)
             all == [k \in DOMAIN seq |-> k]
             body(f) == [t \in SUBSET DOMAIN all |->
                           IF t = {} THEN {} ELSE CompareLater(seq, f[t \ {Max(t)}], all[Max(t)])]
             f == CHOOSE h : h = body(h)
             F == [x \in V \X (1..n) |-> CompareLater(seq, x[1], x[2])]
  <1>1. Removed(seq) = f[DOMAIN all]
    BY DEF Removed, FoldLeft, MapThenFoldSet
  <1>2. n \in Nat /\ DOMAIN all = 1..n /\ \A k \in 1..n : all[k] = k
    BY DEF Ratable
  <1>3. \A v \in V : \A k \in 1..n : CompareLater(seq, v, k) \in V
    <2> SUFFICES ASSUME NEW v \in V, NEW k \in 1..n PROVE CompareLater(seq, v, k) \in V
      OBVIOUS
    <2>1. CompareLater(seq, v, k) = IF k \in v THEN v ELSE Comparing(seq, v, k)
      BY DEF CompareLater, Comparing
    <2>2. PICK g : IsComparing(g, seq, v, k)
      BY ComparingSteps
    <2>3. n - k \in 0..(n - k)
      BY <1>2
    <2> QED
      BY <2>1, <2>2, <2>3 DEF IsComparing
  <1> HIDE DEF V
  <1>4. /\ F \in [V \X (1..n) -> V]
        /\ \A v \in V : \A k \in 1..n : F[<<v, k>>] = CompareLater(seq, v, k)
    <2> HIDE DEF n
    <2> QED
      BY <1>3
  <1> HIDE DEF F, all, n
  <1>5. {} \in V
    BY DEF V
  <1>6. \E h : h = body(h)
    <2>1. PICK h : FoldOf(V, {}, F, h, n)
      BY <1>2, <1>4, <1>5, FoldExists
    <2>2. ASSUME NEW t \in SUBSET (1..n)
          PROVE  h[t] = IF t = {} THEN {} ELSE CompareLater(seq, h[t \ {Max(t)}], all[Max(t)])
      <3>1. h[t] = IF t = {} THEN {} ELSE F[<<h[t \ {Max(t)}], Max(t)>>]
        BY <2>1 DEF FoldOf
      <3>2. t # {} => Max(t) \in 1..n
        BY <1>2, GreatestIs
      <3>3. t \ {Max(t)} \in SUBSET (1..n) /\ h \in [SUBSET (1..n) -> V]
        BY <2>1 DEF FoldOf
      <3>4. h[t \ {Max(t)}] \in V
        BY <3>3
      <3> QED
        BY <1>2, <1>4, <3>1, <3>2, <3>4
    <2>3. h \in [SUBSET DOMAIN all -> V]
      BY <1>2, <2>1 DEF FoldOf
    <2>4. h = body(h)
      BY <1>2, <2>2, <2>3
    <2> QED
      BY <2>4
  <1>7. f = body(f)
    BY <1>6
  <1> HIDE DEF f
  <1>8. Unfolds(V, {}, F, n, f)
    <2> SUFFICES ASSUME NEW t \in SUBSET (1..n)
                 PROVE  IF t = {} THEN f[t] = {}
                        ELSE f[t \ {Max(t)}] \in V => f[t] = F[<<f[t \ {Max(t)}], Max(t)>>]
      BY DEF Unfolds
    <2>1. f[t] = IF t = {} THEN {} ELSE CompareLater(seq, f[t \ {Max(t)}], all[Max(t)])
      BY <1>2, <1>7
    <2>2. t # {} => Max(t) \in 1..n
      BY <1>2, GreatestIs
    <2> QED
      BY <1>2, <1>4, <2>1, <2>2
  <1> DEFINE g == StepsOf(f, n)
  <1>9. Chain(V, {}, F, n, g)
    <2>1. n \in Nat /\ F \in [V \X (1..n) -> V]
      BY <1>2, <1>4
    <2> QED
      BY <1>5, <1>8, <2>1, FoldIsChain
  <1>10. g[n] = Removed(seq)
    BY <1>1, <1>2 DEF StepsOf
  <1> HIDE DEF g
  <1>11. \A k \in 1..n : k - 1 \in 0..n
    BY <1>2
  <1>12. \A k \in 1..n : g[k] = CompareLater(seq, g[k - 1], k)
    BY <1>4, <1>9, <1>11 DEF Chain
  <1> QED
    BY <1>9, <1>10, <1>12 DEF Chain, V, n

\* What _deduplicate_overlapping removes was outdone, and no overlap is left.
LEMMA RemovedIs ==
    ASSUME NEW seq, Ratable(seq)
    PROVE  /\ Removed(seq) \in SUBSET (1..Len(seq)) /\ AllOutdone(seq, Removed(seq))
           /\ \A a \in 1..Len(seq) : SettledTo(seq, Removed(seq), a, Len(seq))
  <1> DEFINE n == Len(seq)
  <1>1. PICK g \in [0..n -> SUBSET (1..n)] :
            /\ g[0] = {} /\ Removed(seq) = g[n]
            /\ \A k \in 1..n : g[k] = CompareLater(seq, g[k - 1], k)
    BY RemovedSteps
  <1>2. n \in Nat
    BY DEF Ratable
  <1> DEFINE Good(k) == /\ AllOutdone(seq, g[k])
                        /\ \A a \in 1..k : SettledTo(seq, g[k], a, n)
             T == {k \in Nat : k > n \/ Good(k)}
  <1>3. Good(0)
    <2>1. 1..0 = {}
      OBVIOUS
    <2> QED
      BY <1>1, <2>1 DEF AllOutdone
  <1>4. ASSUME NEW k \in 1..n, Good(k - 1) PROVE Good(k)
    <2>1. k - 1 \in 0..n /\ k \in Nat /\ 1..k = (1..(k - 1)) \union {k}
      BY <1>2
    <2>2. g[k - 1] \in SUBSET (1..n)
      BY <1>1, <2>1
    <2>3. g[k] = IF k \in g[k - 1] THEN g[k - 1] ELSE Comparing(seq, g[k - 1], k)
      BY <1>1 DEF CompareLater, Comparing
    <2> HIDE DEF n
    <2>4. CASE k \in g[k - 1]
      <3>1. SettledTo(seq, g[k], k, n)
        BY <2>3, <2>4 DEF SettledTo
      <3> QED
        BY <1>4, <2>1, <2>3, <2>4, <3>1
    <2>5. CASE k \notin g[k - 1]
      <3>1. /\ g[k - 1] \subseteq g[k] /\ AllOutdone(seq, g[k])
            /\ SettledTo(seq, g[k], k, n)
        BY <1>4, <2>2, <2>3, <2>5, ComparingSettles DEF n
      <3>2. ASSUME NEW a \in 1..(k - 1) PROVE SettledTo(seq, g[k], a, n)
        BY <1>4, <3>1 DEF SettledTo
      <3> QED
        BY <2>1, <3>1, <3>2
    <2> QED
      BY <2>4, <2>5
  <1> HIDE DEF Good
  <1>5. Nat \subseteq T
    <2> SUFFICES ASSUME NEW k \in Nat, k \notin T, k = 0 \/ k - 1 \in T PROVE FALSE
      <3> HIDE DEF T
      <3> QED
        BY FirstMissing
    <2>1. CASE k = 0
      BY <1>3, <2>1
    <2>2. CASE k # 0
      <3>1. k \in 1..n /\ k - 1 \in Nat /\ ~(k - 1 > n)
        BY <1>2, <2>2
      <3> QED
        BY <1>4, <2>2, <3>1
    <2> QED
      BY <2>1, <2>2
  <1>6. Good(n) /\ g[n] \in SUBSET (1..n)
    <2>1. n \in 0..n /\ ~(n > n)
      BY <1>2
    <2> QED
      BY <1>1, <1>2, <1>5, <2>1
  <1> QED
    BY <1>1, <1>6 DEF Good

-----------------------------------------------------------------------------
\* Results: a chunk, where it comes from, a distance, and a weight if from the graph.
Rated == {r \in [chunk : Chunks, provenance : {"vector", "sparse", "graph"},
                 distance : Int, weight : Nat \union {None}] :
            r.provenance = "graph" => r.weight \in Nat}

\* Every result has a relevance.
LEMMA Relevances ==
    ASSUME NEW r \in Rated
    PROVE  Relevance(r) \in Int
  <1>1. r.distance \in Int /\ (r.provenance = "graph" => r.weight \in Nat)
    BY DEF Rated
  <1>2. CASE r.provenance = "graph"
    <2>1. r.weight \div 3 \in Int
      BY <1>1, <1>2
    <2>2. Lesser(950, r.weight \div 3) \in Int
      BY <2>1 DEF Lesser
    <2>3. (Lesser(950, r.weight \div 3) * 95) \in Int
      BY <2>2
    <2>4. (Lesser(950, r.weight \div 3) * 95) \div 100 \in Int
      BY <2>3
    <2> QED
      BY <1>2, <2>4 DEF Relevance
  <1>3. CASE r.provenance # "graph"
    <2>1. Lesser(1000, r.distance) \in Int
      BY <1>1 DEF Lesser
    <2> QED
      BY <1>3, <2>1 DEF Relevance
  <1> QED
    BY <1>2, <1>3

\* Results with a distance and a rank can be compared.
LEMMA RatedSeqs ==
    ASSUME NEW seq \in Seq(Rated)
    PROVE  Ratable(seq)
  <1>1. \A i \in 1..Len(seq) : seq[i] \in Rated
    OBVIOUS
  <1> QED
    BY <1>1, Relevances DEF Ratable

\* The order of sort(): more relevant, then nearer, then earlier.
Sooner(seq) ==
    {x \in (1..Len(seq)) \X (1..Len(seq)) :
        \/ Relevance(seq[x[1]]) > Relevance(seq[x[2]])
        \/ /\ Relevance(seq[x[1]]) = Relevance(seq[x[2]])
           /\ \/ seq[x[1]].distance < seq[x[2]].distance
              \/ seq[x[1]].distance = seq[x[2]].distance /\ x[1] < x[2]}

\* Ranking keeps all results.
LEMMA RankedIs ==
    ASSUME NEW seq \in Seq(Rated)
    PROVE  \E g : Lists(g, 1..Len(seq)) /\ Ranked(seq) = At(seq, g)
  <1> DEFINE n == Len(seq)
             R == Sooner(seq)
  <1>1. n \in Nat /\ DOMAIN seq = 1..n
    OBVIOUS
  <1>2. \A i \in 1..n : Relevance(seq[i]) \in Int /\ seq[i].distance \in Int
    BY RatedSeqs DEF Ratable, Rated
  <1>3. Decides(1..n, R)
    <2> DEFINE rel(i) == Relevance(seq[i])
               far(i) == seq[i].distance
    <2>1. \A i \in 1..n : rel(i) \in Int /\ far(i) \in Int
      BY <1>2
    <2>2. \A i, j \in 1..n : <<i, j>> \in R <=>
              \/ rel(i) > rel(j)
              \/ rel(i) = rel(j) /\ (far(i) < far(j) \/ (far(i) = far(j) /\ i < j))
      BY DEF Sooner
    <2> HIDE DEF rel, far, R
    <2> QED
      BY <1>1, <2>1, <2>2 DEF Decides
  <1>4. IsFiniteSet(1..n)
    BY <1>1, FS_Interval
  <1> DEFINE rank(x) == Cardinality({y \in DOMAIN seq :
                 \/ Relevance(seq[y]) > Relevance(seq[x])
                 \/ /\ Relevance(seq[y]) = Relevance(seq[x])
                    /\ \/ seq[y].distance < seq[x].distance
                       \/ seq[y].distance = seq[x].distance /\ y < x})
             g == [k \in 1..Cardinality(1..n) |-> CHOOSE x \in 1..n : rank(x) = k - 1]
  <1>5. Ranked(seq) = At(seq, g)
    BY <1>1 DEF Ranked, Sorted
  <1>6. ASSUME NEW x \in 1..n PROVE rank(x) = Rank(1..n, R, x)
    <2>1. {y \in 1..n : <<y, x>> \in R} = {y \in 1..n :
                 \/ Relevance(seq[y]) > Relevance(seq[x])
                 \/ /\ Relevance(seq[y]) = Relevance(seq[x])
                    /\ \/ seq[y].distance < seq[x].distance
                       \/ seq[y].distance = seq[x].distance /\ y < x}
      BY DEF Sooner
    <2> QED
      BY <1>1, <2>1 DEF Rank
  <1> HIDE DEF rank
  <1>7. \A k \in 1..Cardinality(1..n) :
            (\E x \in 1..n : rank(x) = k - 1) => g[k] \in 1..n /\ rank(g[k]) = k - 1
    OBVIOUS
  <1>8. g = [k \in 1..Cardinality(1..n) |-> g[k]]
    OBVIOUS
  <1> HIDE DEF g, R, n
  <1>9. IsByRank(g, 1..n, R)
    BY <1>6, <1>7, <1>8 DEF IsByRank
  <1>10. InOrder(g, 1..n, R)
    BY <1>3, <1>4, <1>9, SortedInOrder
  <1>11. Lists(g, 1..n)
    BY <1>3, <1>4, <1>10, InOrderLists
  <1> QED
    BY <1>5, <1>11 DEF n

-----------------------------------------------------------------------------
\* Of what outdoes each other, the best is never removed: of every file a
\* result stays that is as relevant as any.
LEMMA BestStays ==
    ASSUME NEW seq, Ratable(seq), NEW removed \in SUBSET (1..Len(seq)),
           AllOutdone(seq, removed), NEW x \in 1..Len(seq)
    PROVE  \E y \in (1..Len(seq)) \ removed :
              seq[y].chunk.file = seq[x].chunk.file /\ Relevance(seq[y]) >= Relevance(seq[x])
  <1> DEFINE n == Len(seq)
             rel(i) == Relevance(seq[i])
             R == {z \in (1..n) \X (1..n) :
                     rel(z[1]) > rel(z[2]) \/ (rel(z[1]) = rel(z[2]) /\ z[1] < z[2])}
             rivals == {y \in 1..n : seq[y].chunk.file = seq[x].chunk.file /\ rel(y) >= rel(x)}
             ranks == {Rank(1..n, R, y) : y \in rivals}
  <1>1. n \in Nat /\ \A i \in 1..n : rel(i) \in Int
    BY DEF Ratable
  <1>2. \A i, j \in 1..n :
            <<i, j>> \in R <=> rel(i) > rel(j) \/ (rel(i) = rel(j) /\ i < j)
    OBVIOUS
  <1>3. Decides(1..n, R)
    <2> HIDE DEF rel, R, n
    <2> QED
      BY <1>1, <1>2 DEF Decides
  <1>4. IsFiniteSet(1..n) /\ Cardinality(1..n) = n
    BY <1>1, FS_Interval
  <1>5. x \in rivals
    BY <1>1
  <1>6. PICK y \in rivals : \A z \in rivals : Rank(1..n, R, y) <= Rank(1..n, R, z)
    <2> HIDE DEF rivals, R
    <2>1. \A z \in 1..n : Rank(1..n, R, z) \in Nat
      BY <1>1, <1>3, <1>4, RanksGrow
    <2>2. rivals \subseteq 1..n
      BY DEF rivals
    <2>3. ranks \subseteq Nat /\ ranks # {}
      BY <1>5, <2>1, <2>2
    <2>4. \E r \in ranks : \A q \in ranks : r <= q
      BY <2>3, LeastNumber
    <2> QED
      BY <2>4
  <1>7. y \notin removed
    <2> SUFFICES ASSUME y \in removed PROVE FALSE
      OBVIOUS
    <2>1. PICK w \in 1..n : Outdoes(seq, w, y)
      BY DEF AllOutdone
    <2>2. seq[w].chunk.file = seq[y].chunk.file /\ rel(w) >= rel(y) /\ <<w, y>> \in R
      BY <1>1, <1>2, <2>1 DEF Outdoes, Overlap
    <2>3. w \in rivals
      BY <1>1, <2>2
    <2> HIDE DEF R, rivals
    <2>4. Rank(1..n, R, y) <= Rank(1..n, R, w)
      BY <1>6, <2>3
    <2>5. w \in 1..n /\ y \in 1..n
      BY <1>6 DEF rivals
    <2>6. Rank(1..n, R, w) < Rank(1..n, R, y)
      BY <1>3, <1>4, <2>2, <2>5, RanksGrow
    <2>7. Rank(1..n, R, w) \in Int /\ Rank(1..n, R, y) \in Int
      BY <1>1, <1>3, <1>4, <2>5, RanksGrow
    <2> QED
      BY <2>4, <2>6, <2>7
  <1> QED
    BY <1>6, <1>7

\* A sequence has each member of another at some positions, and no other.
HasEach(res, seq, set) ==
    /\ \A k \in 1..Len(res) : \E i \in set : res[k] = seq[i]
    /\ \A i \in set : \E k \in 1..Len(res) : res[k] = seq[i]
    /\ \A j, k \in 1..Len(res) : j # k =>
          \E a, b \in set : a # b /\ res[j] = seq[a] /\ res[k] = seq[b]

\* What is kept and then put in some order.
LEMMA TwiceAt ==
    ASSUME NEW V, NEW seq \in Seq(V), NEW set \in SUBSET (1..Len(seq)), NEW g,
           Lists(g, 1..Len(Only(seq, set)))
    PROVE  /\ At(Only(seq, set), g) \in Seq(V)
           /\ HasEach(At(Only(seq, set), g), seq, set)
  <1> DEFINE kept == Only(seq, set)
             f == Sorted(set, <)
             n == Cardinality(set)
  <1>1. Len(seq) \in Nat
    OBVIOUS
  <1>2. Lists(f, set) /\ n \in Nat
    BY <1>1, Positions
  <1>3. kept = At(seq, f)
    BY DEF Only
  <1> HIDE DEF f, kept
  <1>4. /\ kept \in Seq(V) /\ Len(kept) = n
        /\ \A k \in 1..n : kept[k] = seq[f[k]] /\ f[k] \in set
    BY <1>2, <1>3, AtIs
  <1>5. IsFiniteSet(1..n) /\ Cardinality(1..n) = n
    BY <1>2, FS_Interval
  <1>6. Lists(g, 1..n)
    BY <1>4 DEF kept
  <1>7. /\ At(kept, g) \in Seq(V) /\ Len(At(kept, g)) = n
        /\ \A k \in 1..n : At(kept, g)[k] = kept[g[k]] /\ g[k] \in 1..n
    BY <1>4, <1>5, <1>6, AtIs
  <1>8. \A k \in 1..n : At(kept, g)[k] = seq[f[g[k]]] /\ f[g[k]] \in set
    BY <1>4, <1>7
  <1>9. ASSUME NEW i \in set PROVE \E k \in 1..n : f[g[k]] = i
    <2>1. PICK m \in 1..n : f[m] = i
      BY <1>2 DEF Lists
    <2>2. PICK k \in 1..n : g[k] = m
      BY <1>5, <1>6 DEF Lists
    <2> QED
      BY <2>1, <2>2
  <1>10. ASSUME NEW j \in 1..n, NEW k \in 1..n, j # k PROVE f[g[j]] # f[g[k]]
    <2>1. g[j] # g[k]
      BY <1>5, <1>6, <1>10 DEF Lists
    <2> QED
      BY <1>2, <1>7, <2>1 DEF Lists
  <1> DEFINE both == At(kept, g)
  <1> HIDE DEF both, n
  <1>11. both \in Seq(V) /\ Len(both) = n /\ \A k \in 1..n : both[k] = seq[f[g[k]]]
    BY <1>7, <1>8 DEF both
  <1>12. \A k \in 1..n : \E i \in set : both[k] = seq[i]
    BY <1>8, <1>11
  <1>13. \A i \in set : \E k \in 1..n : both[k] = seq[i]
    BY <1>9, <1>11
  <1>14. \A j, k \in 1..n : j # k =>
            \E a, b \in set : a # b /\ both[j] = seq[a] /\ both[k] = seq[b]
    <2> SUFFICES ASSUME NEW j \in 1..n, NEW k \in 1..n, j # k
                 PROVE  \E a, b \in set : a # b /\ both[j] = seq[a] /\ both[k] = seq[b]
      OBVIOUS
    <2>1. f[g[j]] \in set /\ f[g[k]] \in set /\ f[g[j]] # f[g[k]]
      BY <1>8, <1>10
    <2>2. both[j] = seq[f[g[j]]] /\ both[k] = seq[f[g[k]]]
      BY <1>11
    <2> QED
      BY <2>1, <2>2
  <1> QED
    BY <1>11, <1>12, <1>13, <1>14 DEF both, kept, HasEach

\* What the removal and the ranking after it come to.
LEMMA RemovalKeepsTheBest ==
    ASSUME results \in Seq(Rated), DeduplicateOverlapping
    PROVE  /\ \A i, j \in DOMAIN results' : i # j => ~Overlap(results'[i], results'[j])
           /\ \A d \in DOMAIN dropped' : \E i \in DOMAIN results' :
                 /\ results'[i].chunk.file = dropped'[d].chunk.file
                 /\ Relevance(results'[i]) >= Relevance(dropped'[d])
  <1> DEFINE n == Len(results)
             out == Removed(results)
             in == (1..n) \ out
             kept == Only(results, in)
  <1>1. n \in Nat /\ DOMAIN results = 1..n /\ Ratable(results)
    BY RatedSeqs
  <1>2. /\ out \in SUBSET (1..n) /\ AllOutdone(results, out)
        /\ \A a \in 1..n : SettledTo(results, out, a, n)
    BY <1>1, RemovedIs
  <1>3. Without(results, out) = kept /\ (1..n) \ in = out /\ in \in SUBSET (1..n)
    BY <1>1, <1>2 DEF Without
  <1> HIDE DEF out
  <1>4. results' = Ranked(kept) /\ dropped' = Only(results, out)
    BY <1>1, <1>3 DEF DeduplicateOverlapping, Without, out
  <1>5. kept \in Seq(Rated)
    BY <1>3, OnlyIs
  <1>6. PICK g : Lists(g, 1..Len(kept)) /\ Ranked(kept) = At(kept, g)
    <2> HIDE DEF kept
    <2> QED
      BY <1>5, RankedIs
  <1> HIDE DEF in
  <1>7. results' \in Seq(Rated) /\ HasEach(results', results, in)
    <2>1. results' = At(Only(results, in), g) /\ Lists(g, 1..Len(Only(results, in)))
      BY <1>4, <1>6
    <2> HIDE DEF kept, n
    <2>2. in \in SUBSET (1..Len(results))
      BY <1>3 DEF n
    <2> QED
      BY <2>1, <2>2, TwiceAt
  <1>8. /\ dropped' \in Seq(Rated)
        /\ \A d \in 1..Len(dropped') : \E i \in out : dropped'[d] = results[i]
    BY <1>2, <1>4, OnlyIs
  <1>9. ASSUME NEW j \in 1..Len(results'), NEW k \in 1..Len(results'), j # k
        PROVE  ~Overlap(results'[j], results'[k])
    <2>1. PICK a, b \in in : a # b /\ results'[j] = results[a] /\ results'[k] = results[b]
      BY <1>7, <1>9 DEF HasEach
    <2>2. a \in 1..n /\ b \in 1..n /\ a \notin out /\ b \notin out
      BY DEF in
    <2>3. Overlap(results[a], results[b]) => Overlap(results[b], results[a])
      BY DEF Overlap
    <2>4. a < b => ~Overlap(results[a], results[b])
      BY <1>1, <1>2, <2>2 DEF SettledTo
    <2>5. b < a => ~Overlap(results[b], results[a])
      BY <1>1, <1>2, <2>2 DEF SettledTo
    <2>6. a < b \/ b < a
      BY <1>1, <2>1, <2>2
    <2> QED
      BY <2>1, <2>3, <2>4, <2>5, <2>6
  <1>10. ASSUME NEW d \in 1..Len(dropped')
         PROVE  \E i \in 1..Len(results') :
                   /\ results'[i].chunk.file = dropped'[d].chunk.file
                   /\ Relevance(results'[i]) >= Relevance(dropped'[d])
    <2>1. PICK x \in out : dropped'[d] = results[x]
      BY <1>8
    <2>2. PICK y \in in : /\ results[y].chunk.file = results[x].chunk.file
                          /\ Relevance(results[y]) >= Relevance(results[x])
      BY <1>1, <1>2, BestStays DEF in
    <2>3. PICK i \in 1..Len(results') : results'[i] = results[y]
      BY <1>7 DEF HasEach
    <2> QED
      BY <2>1, <2>2, <2>3
  <1>11. DOMAIN results' = 1..Len(results') /\ DOMAIN dropped' = 1..Len(dropped')
    BY <1>7, <1>8
  <1> QED
    BY <1>9, <1>10, <1>11

-----------------------------------------------------------------------------
\* Hits of a retriever, and an answer that has no chunk twice.
Hit == Chunks \X Nat
\* Of an answer.
Distinct(seq) == \A i, j \in 1..Len(seq) : i # j => ChunkOf(seq[i]) # ChunkOf(seq[j])

\* The sum of one number, or of none.
LEMMA SumOfOne ==
    ASSUME NEW S, S \subseteq Int, \A x, y \in S : x = y
    PROVE  SumSet(S) \in Int
  <1> DEFINE body(f) == [s \in SUBSET S |->
                           IF s = {} THEN 0
                           ELSE (CHOOSE x \in s : TRUE) + f[s \ {CHOOSE x \in s : TRUE}]]
             f == CHOOSE h : h = body(h)
             h == [s \in SUBSET S |-> IF s = {} THEN 0 ELSE CHOOSE x \in s : TRUE]
  <1>1. SumSet(S) = f[S]
    BY DEF SumSet, FoldSet, MapThenFoldSet
  <1>2. ASSUME NEW s \in SUBSET S, s # {}
        PROVE  (CHOOSE x \in s : TRUE) \in Int /\ s \ {CHOOSE x \in s : TRUE} = {}
    BY <1>2
  <1>3. h[{}] = 0
    OBVIOUS
  <1>4. ASSUME NEW s \in SUBSET S
        PROVE  h[s] = IF s = {} THEN 0
                      ELSE (CHOOSE x \in s : TRUE) + h[s \ {CHOOSE x \in s : TRUE}]
    <2>1. CASE s = {}
      BY <2>1
    <2>2. CASE s # {}
      <3>1. h[s] = CHOOSE x \in s : TRUE
        BY <2>2
      <3>2. h[s \ {CHOOSE x \in s : TRUE}] = 0
        BY <1>2, <1>3, <2>2
      <3> HIDE DEF h
      <3> QED
        BY <1>2, <2>2, <3>1, <3>2
    <2> QED
      BY <2>1, <2>2
  <1>5. h = [s \in SUBSET S |-> h[s]]
    OBVIOUS
  <1> HIDE DEF h
  <1>6. h = body(h)
    BY <1>4, <1>5
  <1>7. f = body(f)
    BY <1>6
  <1> HIDE DEF f
  <1>8. \A s \in SUBSET S : f[s] = IF s = {} THEN 0
                             ELSE (CHOOSE x \in s : TRUE) + f[s \ {CHOOSE x \in s : TRUE}]
    BY <1>7
  <1>9. f[{}] = 0
    BY <1>8
  <1>10. CASE S = {}
    BY <1>1, <1>9, <1>10
  <1>11. CASE S # {}
    <2>1. f[S] = (CHOOSE x \in S : TRUE) + f[{}]
      BY <1>2, <1>8, <1>11
    <2> QED
      BY <1>1, <1>2, <1>9, <1>11, <2>1
  <1> QED
    BY <1>10, <1>11

\* Every chunk has a score.
LEMMA Reciprocals ==
    ASSUME NEW seq \in Seq(Hit), Distinct(seq), NEW chunk, NEW share \in Nat
    PROVE  Reciprocal(seq, chunk, share) \in Int
  <1> DEFINE ranks == {i - 1 : i \in {j \in DOMAIN seq : ChunkOf(seq[j]) = chunk}}
             S == {(share * Common) \div (rank + 60) : rank \in ranks}
  <1>1. \A r \in ranks : r \in Nat
    OBVIOUS
  <1>2. \A r, q \in ranks : r = q
    BY DEF Distinct
  <1>3. share * Common \in Nat
    BY DEF Common
  <1> HIDE DEF ranks
  <1>4. ASSUME NEW r \in ranks PROVE (share * Common) \div (r + 60) \in Int
    <2> DEFINE a == share * Common
               b == r + 60
    <2>1. a \in Nat /\ b \in Nat /\ b > 0
      BY <1>1, <1>3
    <2> HIDE DEF a, b
    <2>2. a \div b \in Int
      BY <2>1
    <2> QED
      BY <2>2 DEF a, b
  <1>5. S \subseteq Int /\ \A x, y \in S : x = y
    BY <1>2, <1>4
  <1> HIDE DEF S
  <1>6. SumSet(S) \in Int
    BY <1>5, SumOfOne
  <1> QED
    BY <1>6 DEF Reciprocal, S, ranks

\* The first n members, or all of fewer.
LEMMA FirstOfIs ==
    ASSUME NEW V, NEW seq \in Seq(V), NEW n \in Nat
    PROVE  /\ FirstOf(seq, n) \in Seq(V)
           /\ Len(FirstOf(seq, n)) = Lesser(n, Len(seq))
           /\ \A k \in 1..Lesser(n, Len(seq)) : FirstOf(seq, n)[k] = seq[k]
  <1>1. Lesser(n, Len(seq)) \in 0..Len(seq)
    BY DEF Lesser
  <1> QED
    BY <1>1 DEF FirstOf

\* Appending what is new leaves no chunk out.
LEMMA ExtendedHas ==
    ASSUME NEW seq \in Seq(Hit), NEW more \in Seq(Hit)
    PROVE  /\ Extended(seq, more) \in Seq(Hit)
           /\ ChunksIn(Extended(seq, more)) = ChunksIn(seq) \union ChunksIn(more)
  <1> DEFINE new == Unseen(seq, more)
             added == Only(more, new)
  <1>1. DOMAIN seq = 1..Len(seq) /\ DOMAIN more = 1..Len(more)
    OBVIOUS
  <1>2. new \in SUBSET (1..Len(more))
    BY <1>1 DEF Unseen
  <1> HIDE DEF new
  <1>3. /\ added \in Seq(Hit)
        /\ \A k \in 1..Len(added) : \E i \in new : added[k] = more[i]
        /\ \A i \in new : \E k \in 1..Len(added) : added[k] = more[i]
    BY <1>2, OnlyIs
  <1> HIDE DEF added
  <1>4. ChunksIn(added) = {ChunkOf(more[i]) : i \in new}
    BY <1>3 DEF ChunksIn
  <1>5. ChunksIn(seq) \union {ChunkOf(more[i]) : i \in new} = ChunksIn(seq) \union ChunksIn(more)
    BY <1>1, <1>2 DEF new, Unseen, ChunksIn
  <1>6. seq \o added \in Seq(Hit) /\ ChunksIn(seq \o added) = ChunksIn(seq) \union ChunksIn(added)
    <2>1. Len(seq \o added) = Len(seq) + Len(added) /\ seq \o added \in Seq(Hit)
      BY <1>3
    <2>2. \A i \in 1..Len(seq) : i \in 1..Len(seq \o added) /\ (seq \o added)[i] = seq[i]
      BY <1>3, <2>1
    <2>3. \A k \in 1..Len(added) : /\ Len(seq) + k \in 1..Len(seq \o added)
                                   /\ (seq \o added)[Len(seq) + k] = added[k]
      BY <1>3, <2>1
    <2>4. \A i \in 1..Len(seq \o added) :
              \/ i \in 1..Len(seq)
              \/ i - Len(seq) \in 1..Len(added) /\ i = Len(seq) + (i - Len(seq))
      BY <1>3, <2>1
    <2> DEFINE all == seq \o added
    <2>5. DOMAIN all = 1..Len(all) /\ DOMAIN added = 1..Len(added)
      BY <1>3, <2>1
    <2> HIDE DEF all
    <2>6. ChunksIn(all) = ChunksIn(seq) \union ChunksIn(added)
      <3>1. /\ \A i \in 1..Len(seq) : i \in DOMAIN all /\ all[i] = seq[i]
            /\ \A k \in 1..Len(added) : Len(seq) + k \in DOMAIN all /\ all[Len(seq) + k] = added[k]
            /\ \A i \in DOMAIN all : i \in 1..Len(seq) \/ i - Len(seq) \in 1..Len(added)
        BY <2>2, <2>3, <2>4, <2>5 DEF all
      <3>2. ASSUME NEW i \in DOMAIN all
            PROVE  ChunkOf(all[i]) \in ChunksIn(seq) \union ChunksIn(added)
        <4>1. CASE i \in 1..Len(seq)
          BY <1>1, <3>1, <4>1 DEF ChunksIn
        <4>2. CASE i \notin 1..Len(seq)
          <5>1. i - Len(seq) \in 1..Len(added) /\ i = Len(seq) + (i - Len(seq))
            BY <2>4, <2>5, <4>2 DEF all
          <5>2. all[i] = added[i - Len(seq)]
            BY <3>1, <5>1
          <5> QED
            BY <2>5, <5>1, <5>2 DEF ChunksIn
        <4> QED
          BY <4>1, <4>2
      <3>3. \A i \in 1..Len(seq) : ChunkOf(seq[i]) \in ChunksIn(all)
        BY <3>1 DEF ChunksIn
      <3>4. \A k \in 1..Len(added) : ChunkOf(added[k]) \in ChunksIn(all)
        BY <3>1 DEF ChunksIn
      <3> QED
        BY <1>1, <2>5, <3>2, <3>3, <3>4 DEF ChunksIn
    <2> QED
      BY <2>1, <2>6 DEF all
  <1> QED
    BY <1>4, <1>5, <1>6 DEF Extended, added, new

\* What was inserted, in the order of its scores.
ByScore ==
    {x \in (1..Len(Inserted)) \X (1..Len(Inserted)) :
        \/ RrfScore(ChunkOf(Inserted[x[1]])) > RrfScore(ChunkOf(Inserted[x[2]]))
        \/ /\ RrfScore(ChunkOf(Inserted[x[1]])) = RrfScore(ChunkOf(Inserted[x[2]]))
           /\ x[1] < x[2]}
\* The answers of the two retrievers.
Answers == /\ dense \in Seq(Hit) /\ Distinct(dense)
           /\ sparse \in Seq(Hit) /\ Distinct(sparse)
\* The fused answer has chunks of the two answers only.
LEMMA FusedOrder ==
    ASSUME Answers
    PROVE  ByRrf \in Seq(Hit) /\ ChunksIn(ByRrf) \subseteq ChunksIn(dense) \union ChunksIn(sparse)
  <1> DEFINE n == Len(Inserted)
             R == ByScore
             score(i) == RrfScore(ChunkOf(Inserted[i]))
  <1>1. /\ Inserted \in Seq(Hit)
        /\ ChunksIn(Inserted) = ChunksIn(dense) \union ChunksIn(sparse)
    BY ExtendedHas DEF Inserted, Answers
  <1>2. n \in Nat /\ DOMAIN Inserted = 1..n
    BY <1>1
  <1>3. \A i \in 1..n : score(i) \in Int
    <2> SUFFICES ASSUME NEW i \in 1..n PROVE score(i) \in Int
      OBVIOUS
    <2>1. /\ Reciprocal(dense, ChunkOf(Inserted[i]), 6) \in Int
          /\ Reciprocal(sparse, ChunkOf(Inserted[i]), 4) \in Int
      BY Reciprocals DEF Answers
    <2> QED
      BY <2>1 DEF RrfScore
  <1>4. Decides(1..n, R)
    <2>1. \A i, j \in 1..n : <<i, j>> \in R <=>
              score(i) > score(j) \/ (score(i) = score(j) /\ i < j)
      BY DEF ByScore
    <2> HIDE DEF score, R
    <2> QED
      BY <1>2, <1>3, <2>1 DEF Decides
  <1>5. IsFiniteSet(1..n)
    BY <1>2, FS_Interval
  <1> DEFINE rank(x) == Cardinality({y \in DOMAIN Inserted :
                 \/ RrfScore(ChunkOf(Inserted[y])) > RrfScore(ChunkOf(Inserted[x]))
                 \/ /\ RrfScore(ChunkOf(Inserted[y])) = RrfScore(ChunkOf(Inserted[x]))
                    /\ y < x})
             g == [k \in 1..Cardinality(1..n) |-> CHOOSE x \in 1..n : rank(x) = k - 1]
  <1>6. ByRrf = At(Inserted, g)
    BY <1>2 DEF ByRrf, Sorted
  <1>7. ASSUME NEW x \in 1..n PROVE rank(x) = Rank(1..n, R, x)
    <2>1. {y \in 1..n : <<y, x>> \in R} = {y \in 1..n :
                 \/ RrfScore(ChunkOf(Inserted[y])) > RrfScore(ChunkOf(Inserted[x]))
                 \/ /\ RrfScore(ChunkOf(Inserted[y])) = RrfScore(ChunkOf(Inserted[x]))
                    /\ y < x}
      BY DEF ByScore
    <2> QED
      BY <1>2, <2>1 DEF Rank
  <1> HIDE DEF rank
  <1>8. \A k \in 1..Cardinality(1..n) :
            (\E x \in 1..n : rank(x) = k - 1) => g[k] \in 1..n /\ rank(g[k]) = k - 1
    OBVIOUS
  <1>9. g = [k \in 1..Cardinality(1..n) |-> g[k]]
    OBVIOUS
  <1> HIDE DEF g, R, n
  <1>10. IsByRank(g, 1..n, R)
    BY <1>7, <1>8, <1>9 DEF IsByRank
  <1>11. Lists(g, 1..n)
    <2>1. InOrder(g, 1..n, R)
      BY <1>4, <1>5, <1>10, SortedInOrder
    <2> QED
      BY <1>4, <1>5, <2>1, InOrderLists
  <1>12. /\ At(Inserted, g) \in Seq(Hit) /\ Len(At(Inserted, g)) = Cardinality(1..n)
         /\ \A k \in 1..Cardinality(1..n) : At(Inserted, g)[k] = Inserted[g[k]] /\ g[k] \in 1..n
    <2>1. 1..n \in SUBSET (1..Len(Inserted))
      BY DEF n
    <2> QED
      BY <1>1, <1>11, <2>1, AtIs
  <1>13. DOMAIN ByRrf = 1..Cardinality(1..n)
    BY <1>6, <1>12
  <1> QED
    BY <1>1, <1>2, <1>6, <1>12, <1>13 DEF ChunksIn

\* The chunks of the first few.
LEMMA FirstChunks ==
    ASSUME NEW seq \in Seq(Hit), NEW n \in Nat
    PROVE  /\ FirstOf(seq, n) \in Seq(Hit) /\ ChunksIn(FirstOf(seq, n)) \subseteq ChunksIn(seq)
           /\ \A k \in 1..Len(seq) : k <= n => ChunkOf(seq[k]) \in ChunksIn(FirstOf(seq, n))
  <1> DEFINE first == FirstOf(seq, n)
             m == Lesser(n, Len(seq))
  <1>1. first \in Seq(Hit) /\ Len(first) = m /\ \A k \in 1..m : first[k] = seq[k]
    BY FirstOfIs
  <1>2. \A k \in 1..Len(seq) : k <= n => k \in 1..m
    BY DEF Lesser
  <1>3. \A k \in 1..m : k \in 1..Len(seq)
    BY DEF Lesser
  <1>4. DOMAIN first = 1..m /\ DOMAIN seq = 1..Len(seq)
    BY <1>1
  <1> HIDE DEF first, m
  <1>5. ChunksIn(first) \subseteq ChunksIn(seq)
    BY <1>1, <1>3, <1>4 DEF ChunksIn
  <1>6. \A k \in 1..Len(seq) : k <= n => ChunkOf(seq[k]) \in ChunksIn(first)
    BY <1>1, <1>2, <1>4 DEF ChunksIn
  <1> QED
    BY <1>1, <1>5, <1>6 DEF first

\* The candidates hold the first of the sparse hits, and of those of no test.
LEMMA CandidatesHold ==
    ASSUME Answers
    PROVE  /\ Candidates \in Seq(Hit)
           /\ ChunksIn(Candidates) \subseteq ChunksIn(dense) \union ChunksIn(sparse)
           /\ ChunksIn(FirstOf(sparse, PerGraph)) \subseteq ChunksIn(Candidates)
           /\ ChunksIn(FirstOf(NotTests(sparse), PerGraph)) \subseteq ChunksIn(Candidates)
           /\ NotTests(sparse) \in Seq(Hit)
  <1>1. PerGraph \in Nat
    BY MergeConstantAssumption
  <1> DEFINE sources == {i \in DOMAIN sparse : ~ChunkOf(sparse[i]).test}
             some == NotTests(sparse)
  <1>2. sources \in SUBSET (1..Len(sparse))
    BY DEF Answers
  <1>3. some = Only(sparse, sources)
    BY DEF NotTests
  <1> HIDE DEF sources, some
  <1>4. some \in Seq(Hit) /\ \A k \in 1..Len(some) : \E i \in sources : some[k] = sparse[i]
    BY <1>2, <1>3, OnlyIs DEF Answers
  <1>5. ChunksIn(some) \subseteq ChunksIn(sparse)
    <2>1. DOMAIN some = 1..Len(some) /\ sources \subseteq DOMAIN sparse
      BY <1>4 DEF sources
    <2> QED
      BY <1>4, <2>1 DEF ChunksIn
  <1>6. ByRrf \in Seq(Hit) /\ ChunksIn(ByRrf) \subseteq ChunksIn(dense) \union ChunksIn(sparse)
    BY FusedOrder
  <1> DEFINE a == FirstOf(ByRrf, PerGraph)
             b == FirstOf(sparse, PerGraph)
             c == FirstOf(some, PerGraph)
             ab == Extended(a, b)
             abc == Extended(ab, c)
  <1>7. /\ a \in Seq(Hit) /\ ChunksIn(a) \subseteq ChunksIn(ByRrf)
        /\ b \in Seq(Hit) /\ ChunksIn(b) \subseteq ChunksIn(sparse)
        /\ c \in Seq(Hit) /\ ChunksIn(c) \subseteq ChunksIn(some)
    BY <1>1, <1>4, <1>6, FirstChunks DEF Answers
  <1> HIDE DEF a, b, c
  <1>8. ab \in Seq(Hit) /\ ChunksIn(ab) = ChunksIn(a) \union ChunksIn(b)
    BY <1>7, ExtendedHas
  <1> HIDE DEF ab
  <1>9. abc \in Seq(Hit) /\ ChunksIn(abc) = ChunksIn(ab) \union ChunksIn(c)
    BY <1>7, <1>8, ExtendedHas
  <1>10. Candidates = abc
    BY DEF Candidates, ab, a, b, c, some
  <1> HIDE DEF abc
  <1>11. /\ ChunksIn(abc) \subseteq ChunksIn(dense) \union ChunksIn(sparse)
         /\ ChunksIn(b) \subseteq ChunksIn(abc) /\ ChunksIn(c) \subseteq ChunksIn(abc)
    BY <1>5, <1>6, <1>7, <1>8, <1>9
  <1> QED
    BY <1>4, <1>9, <1>10, <1>11 DEF b, c, some

\* The best score is that of the first hit.
LEMMA BestScore ==
    ASSUME sparse \in SparseLists, sparse # <<>>
    PROVE  LET best == Max({h[2] : h \in Range(sparse)}) IN best \in Nat /\ best > 0
  <1> DEFINE n == Len(sparse)
             score(i) == sparse[i][2]
             scores == {h[2] : h \in Range(sparse)}
             T == {k \in Nat : k \in 1..n => score(1) >= score(k)}
  <1>1. sparse \in Seq(Chunks \X Nat)
    BY MergeConstantAssumption
  <1>2. n \in Nat /\ n > 0 /\ DOMAIN sparse = 1..n
    BY <1>1
  <1>3. \A i \in 1..n : score(i) \in Nat
    <2> SUFFICES ASSUME NEW i \in 1..n PROVE score(i) \in Nat
      OBVIOUS
    <2>1. sparse[i] \in Chunks \X Nat
      BY <1>1
    <2> QED
      BY <2>1
  <1>4. \A i \in 1..n : score(i) > 0 /\ (i > 1 => score(i - 1) >= score(i))
    BY MergeConstantAssumption
  <1> HIDE DEF score
  <1>5. Nat \subseteq T
    <2> SUFFICES ASSUME NEW k \in Nat, k \notin T, k = 0 \/ k - 1 \in T PROVE FALSE
      <3> HIDE DEF T
      <3> QED
        BY FirstMissing
    <2>1. k \in 1..n /\ ~(score(1) >= score(k))
      OBVIOUS
    <2>2. CASE k = 1
      BY <1>3, <2>1, <2>2
    <2>3. CASE k > 1
      <3>1. k - 1 \in 1..n /\ k - 1 \in Nat
        BY <1>2, <2>1, <2>3
      <3>2. score(1) >= score(k - 1) /\ score(k - 1) >= score(k)
        BY <1>4, <2>1, <2>3, <3>1
      <3>3. 1 \in 1..n
        BY <1>2
      <3> QED
        BY <1>3, <2>1, <3>1, <3>2, <3>3
    <2> QED
      BY <2>1, <2>2, <2>3
  <1>6. \A k \in 1..n : score(1) >= score(k)
    BY <1>5
  <1>7. scores = {score(i) : i \in 1..n}
    BY <1>2 DEF Range, score
  <1>8. score(1) \in scores /\ \A y \in scores : score(1) >= y
    <2>1. 1 \in 1..n
      BY <1>2
    <2> HIDE DEF scores, T
    <2> QED
      BY <1>6, <1>7, <2>1
  <1>9. Max(scores) \in scores
    <2> HIDE DEF scores
    <2> QED
      BY <1>8 DEF Max
  <1>10. \A y \in scores : y \in Nat /\ y > 0
    BY <1>3, <1>4, <1>7
  <1> HIDE DEF scores
  <1>11. Max(scores) \in Nat /\ Max(scores) > 0
    BY <1>9, <1>10
  <1> QED
    BY <1>11 DEF scores

\* The value of a hit, by its chunk.
LEMMA Values ==
    ASSUME NEW seq \in Seq(Hit), NEW c \in ChunksIn(seq)
    PROVE  ValueIn(seq, c) \in Nat /\ c \in Chunks
  <1>1. PICK i \in DOMAIN seq : ChunkOf(seq[i]) = c
    BY DEF ChunksIn
  <1>2. \A h \in Range(seq) : h \in Chunks \X Nat
    BY DEF Range, Hit
  <1>3. seq[i] \in Range(seq)
    BY DEF Range
  <1> DEFINE hit == CHOOSE h \in Range(seq) : ChunkOf(h) = c
  <1>4. hit \in Range(seq) /\ ChunkOf(hit) = c
    BY <1>1, <1>3
  <1> HIDE DEF hit
  <1>5. hit[2] \in Nat /\ hit[1] \in Chunks
    BY <1>2, <1>4
  <1> QED
    BY <1>4, <1>5 DEF ValueIn, hit, ChunkOf

\* Whatever the search answers, its results have a relevance.
LEMMA MadeResults ==
    ASSUME Answers, sparse \in SparseLists, NEW hit,
           ChunkOf(hit) \in ChunksIn(dense) \union ChunksIn(sparse)
    PROVE  /\ ChunkOf(hit) \in ChunksIn(dense) =>
                 /\ VectorResult(ChunkOf(hit)) \in Rated
                 /\ VectorResult(ChunkOf(hit)).chunk = ChunkOf(hit)
           /\ MakeResult(hit) \in Rated /\ MakeResult(hit).chunk = ChunkOf(hit)
  <1> DEFINE c == ChunkOf(hit)
  <1>1. ASSUME c \in ChunksIn(dense)
        PROVE  VectorResult(c) \in Rated /\ VectorResult(c).chunk = c
    <2>1. ValueIn(dense, c) \in Nat /\ c \in Chunks
      BY <1>1, Values DEF Answers
    <2> HIDE DEF c
    <2> QED
      BY <2>1 DEF VectorResult, Result, Rated
  <1>2. ASSUME c \notin ChunksIn(dense)
        PROVE  MakeResult(hit) \in Rated /\ MakeResult(hit).chunk = c
    <2>1. ValueIn(sparse, c) \in Nat /\ c \in Chunks
      BY <1>2, Values DEF Answers
    <2>2. sparse # <<>>
      <3> SUFFICES ASSUME sparse = <<>> PROVE FALSE
        OBVIOUS
      <3>1. ChunksIn(sparse) = {}
        BY DEF ChunksIn
      <3> QED
        BY <1>2, <3>1
    <2> DEFINE best == Max({h[2] : h \in Range(sparse)})
               score == ValueIn(sparse, c)
    <2>3. best \in Nat /\ best > 0
      BY <2>2, BestScore
    <2>4. SparseDistance(score) = Greater(50, Lesser(950, 1000 - (1000 * score) \div best))
      BY DEF SparseDistance
    <2> HIDE DEF best, score, c
    <2>5. score \in Nat
      BY <2>1 DEF score
    <2>6. SparseDistance(score) \in Int
      <3> DEFINE a == 1000 * score
                 q == a \div best
      <3>1. a \in Nat
        BY <2>5
      <3> HIDE DEF a
      <3>2. q \in Int
        BY <2>3, <3>1
      <3> HIDE DEF q
      <3>3. Greater(50, Lesser(950, 1000 - q)) \in Int
        BY <3>2 DEF Greater, Lesser
      <3> QED
        BY <2>4, <3>3 DEF q, a
    <2>7. MakeResult(hit) = Result(c, "sparse", SparseDistance(score), None)
      BY <1>2 DEF MakeResult, score, c
    <2> QED
      BY <2>1, <2>6, <2>7 DEF Result, Rated
  <1>3. c \in ChunksIn(dense) => MakeResult(hit) = VectorResult(c)
    BY DEF MakeResult
  <1> QED
    BY <1>1, <1>2, <1>3

\* The hits that fusion must keep are candidates.
LEMMA BestAreCandidates ==
    ASSUME Answers, NEW i \in DOMAIN sparse,
           LET c == ChunkOf(sparse[i])
           IN Cardinality({j \in 1..(i - 1) : ~c.test => ~ChunkOf(sparse[j]).test}) < PerGraph
    PROVE  ChunkOf(sparse[i]) \in ChunksIn(Candidates)
  <1> DEFINE c == ChunkOf(sparse[i])
             n == Len(sparse)
             test(j) == ChunkOf(sparse[j]).test
  <1>1. PerGraph \in Nat /\ sparse \in Seq(Hit)
    BY MergeConstantAssumption DEF Answers
  <1>2. n \in Nat /\ i \in 1..n /\ DOMAIN sparse = 1..n
    BY <1>1
  <1>3. /\ ChunksIn(FirstOf(sparse, PerGraph)) \subseteq ChunksIn(Candidates)
        /\ ChunksIn(FirstOf(NotTests(sparse), PerGraph)) \subseteq ChunksIn(Candidates)
        /\ NotTests(sparse) \in Seq(Hit)
    BY CandidatesHold
  <1>4. CASE c.test
    <2>1. {j \in 1..(i - 1) : ~c.test => ~test(j)} = 1..(i - 1)
      BY <1>4
    <2>2. Cardinality(1..(i - 1)) = i - 1
      <3>1. i - 1 \in Nat
        BY <1>2
      <3> QED
        BY <3>1, FS_Interval
    <2>3. i - 1 < PerGraph
      BY <2>1, <2>2
    <2>4. i <= PerGraph
      BY <1>1, <1>2, <2>3
    <2>5. c \in ChunksIn(FirstOf(sparse, PerGraph))
      BY <1>1, <1>2, <2>4, FirstChunks
    <2> QED
      BY <1>3, <2>5
  <1>5. CASE ~c.test
    <2> DEFINE sources == {j \in DOMAIN sparse : ~test(j)}
               some == NotTests(sparse)
               before == {j \in sources : j < i}
    <2>1. sources \in SUBSET (1..n) /\ some = Only(sparse, sources) /\ i \in sources
      BY <1>2, <1>5 DEF NotTests
    <2>2. {j \in 1..(i - 1) : ~c.test => ~test(j)} = before
      BY <1>2, <1>5
    <2>3. Cardinality(before) < PerGraph
      BY <2>2
    <2> HIDE DEF before, sources, some
    <2>4. PICK k \in 1..Len(some) : /\ some[k] = sparse[i]
                                  /\ k = Cardinality({j \in sources : j < i}) + 1
      <3>1. sources \in SUBSET (1..Len(sparse)) /\ some = Only(sparse, sources)
        BY <2>1
      <3> HIDE DEF n
      <3>2. \A j \in sources : \E k \in 1..Len(Only(sparse, sources)) :
                /\ Only(sparse, sources)[k] = sparse[j]
                /\ k = Cardinality({m \in sources : m < j}) + 1
        BY <1>1, <3>1, OnlyIs
      <3> QED
        BY <2>1, <3>1, <3>2
    <2>5. k <= PerGraph
      <3> DEFINE m == Cardinality(before)
      <3>1. k = m + 1 /\ m < PerGraph
        BY <2>3, <2>4 DEF before
      <3>2. m = k - 1
        <4>1. IsFiniteSet(before)
          <5>1. before \in SUBSET (1..n)
            BY <2>1 DEF before
          <5> QED
            BY <1>2, <5>1, Positions
        <4>2. m \in Nat
          BY <4>1, FS_CardinalityType
        <4> HIDE DEF m
        <4> QED
          BY <3>1, <4>2
      <3> HIDE DEF m
      <3> QED
        BY <1>1, <3>1, <3>2
    <2>6. c \in ChunksIn(FirstOf(some, PerGraph))
      BY <1>1, <1>3, <2>4, <2>5, FirstChunks DEF some
    <2> QED
      BY <1>3, <2>6 DEF some
  <1> QED
    BY <1>4, <1>5

-----------------------------------------------------------------------------
\* What holds from step to step of a search.
MergeInv ==
    /\ phase \in {"fuse", "expand", "deduplicate"} =>
          Answers /\ sparse \in SparseLists /\ dropped = <<>>
    /\ phase \in {"expand", "deduplicate"} => results \in Seq(Rated)
    /\ SparseHitsSurviveFusion /\ KeptAreTheBest

\* Answers of the two retrievers.
LEMMA FirstAnswers ==
    ASSUME MergeInit
    PROVE  Answers
  <1>1. /\ Distances \subseteq Nat /\ PerGraph \in Nat /\ sparse \in SparseLists
        /\ sparse \in Seq(Chunks \X Nat)
    BY MergeConstantAssumption DEF MergeInit
  <1>2. Distinct(sparse)
    BY <1>1, MergeConstantAssumption DEF Distinct, ChunkOf
  <1>3. PICK k \in 0..PerGraph : dense \in [1..k -> Chunks \X Distances]
    BY DEF MergeInit, Hits
  <1>4. \A i, j \in DOMAIN dense : i # j => dense[i][1] # dense[j][1]
    BY DEF MergeInit, Hits
  <1>5. DOMAIN dense = 1..k /\ k \in Nat
    BY <1>1, <1>3
  <1>6. dense \in [1..k -> Chunks \X Nat]
    <2>1. \A i \in 1..k : dense[i] \in Chunks \X Nat
      BY <1>1, <1>3
    <2> QED
      BY <1>3, <2>1
  <1>7. dense \in Seq(Chunks \X Nat) /\ Len(dense) = k
    BY <1>5, <1>6
  <1>8. Distinct(dense)
    BY <1>4, <1>5, <1>7 DEF Distinct, ChunkOf
  <1> QED
    BY <1>1, <1>2, <1>7, <1>8 DEF Answers, Hit

\* A sequence with a result in place of each hit.
LEMMA Replaced ==
    ASSUME NEW hitSeq \in Seq(Hit), NEW res, res = [i \in DOMAIN hitSeq |-> res[i]],
           \A i \in DOMAIN hitSeq : res[i] \in Rated
    PROVE  res \in Seq(Rated) /\ DOMAIN res = DOMAIN hitSeq
  <1>1. DOMAIN hitSeq = 1..Len(hitSeq) /\ Len(hitSeq) \in Nat
    OBVIOUS
  <1> QED
    BY <1>1

\* Fusion makes results with a relevance and keeps the best sparse hits.
LEMMA FuseKeeps ==
    ASSUME Answers, sparse \in SparseLists, Fuse
    PROVE  /\ results' \in Seq(Rated)
           /\ \A i \in DOMAIN sparse :
                 LET c == ChunkOf(sparse[i])
                     better == {j \in 1..(i - 1) : ~c.test => ~ChunkOf(sparse[j]).test}
                 IN Cardinality(better) < PerGraph =>
                       \E k \in DOMAIN results' : results'[k].chunk = c
  <1>1. CASE sparse = <<>>
    <2>1. results' = [i \in DOMAIN dense |-> VectorResult(ChunkOf(dense[i]))]
      BY <1>1 DEF Fuse
    <2>2. ASSUME NEW i \in DOMAIN dense PROVE results'[i] \in Rated
      <3>1. ChunkOf(dense[i]) \in ChunksIn(dense)
        BY DEF ChunksIn
      <3> QED
        BY <2>1, <3>1, MadeResults
    <2>3. results' = [i \in DOMAIN dense |-> results'[i]]
      BY <2>1
    <2>4. results' \in Seq(Rated)
      BY <2>2, <2>3, Replaced DEF Answers
    <2>5. DOMAIN sparse = {}
      BY <1>1
    <2> QED
      BY <2>4, <2>5
  <1>2. CASE sparse # <<>>
    <2>1. results' = [i \in DOMAIN Candidates |-> MakeResult(Candidates[i])]
      BY <1>2 DEF Fuse
    <2>2. /\ Candidates \in Seq(Hit)
          /\ ChunksIn(Candidates) \subseteq ChunksIn(dense) \union ChunksIn(sparse)
      BY CandidatesHold
    <2>3. ASSUME NEW i \in DOMAIN Candidates
          PROVE  results'[i] \in Rated /\ results'[i].chunk = ChunkOf(Candidates[i])
      <3>1. ChunkOf(Candidates[i]) \in ChunksIn(dense) \union ChunksIn(sparse)
        BY <2>2 DEF ChunksIn
      <3>2. /\ MakeResult(Candidates[i]) \in Rated
            /\ MakeResult(Candidates[i]).chunk = ChunkOf(Candidates[i])
        BY <3>1, MadeResults
      <3> QED
        BY <2>1, <3>2
    <2>4. results' = [i \in DOMAIN Candidates |-> results'[i]]
      BY <2>1
    <2>5. results' \in Seq(Rated) /\ DOMAIN results' = DOMAIN Candidates
      BY <2>2, <2>3, <2>4, Replaced
    <2>6. ASSUME NEW i \in DOMAIN sparse,
                 LET c == ChunkOf(sparse[i])
                 IN Cardinality({j \in 1..(i - 1) : ~c.test => ~ChunkOf(sparse[j]).test}) < PerGraph
          PROVE  \E k \in DOMAIN results' : results'[k].chunk = ChunkOf(sparse[i])
      <3>1. ChunkOf(sparse[i]) \in ChunksIn(Candidates)
        BY <2>6, BestAreCandidates
      <3>2. PICK k \in DOMAIN Candidates : ChunkOf(Candidates[k]) = ChunkOf(sparse[i])
        BY <3>1 DEF ChunksIn
      <3> QED
        BY <2>3, <2>5, <3>2
    <2> QED
      BY <2>5, <2>6
  <1> QED
    BY <1>1, <1>2

\* What the graph adds has a relevance, too.
LEMMA ExpandedRated ==
    ASSUME results \in Seq(Rated), Expand
    PROVE  results' \in Seq(Rated)
  <1> DEFINE new == {c \in Chunks : \A i \in DOMAIN results : results[i].chunk # c}
             near == {results[i].distance : i \in DOMAIN results}
  <1>1. PICK found \in Expansions : \E heaviest \in Weights :
            results' = results \o [i \in DOMAIN found |->
                 Result(found[i][1], "graph",
                        EstimatedDistance(found[i][3], found[i][2], heaviest), found[i][2])]
    BY DEF Expand
  <1>2. PICK heaviest \in Weights :
            results' = results \o [i \in DOMAIN found |->
                 Result(found[i][1], "graph",
                        EstimatedDistance(found[i][3], found[i][2], heaviest), found[i][2])]
    BY <1>1
  <1>3. PICK k \in 0..(MaxHits - Len(sparse)) : found \in [1..k -> new \X Weights \X near]
    BY DEF Expansions
  <1>4. Weights \subseteq Nat
    BY MergeConstantAssumption
  <1>5. near \subseteq Int
    BY DEF Rated
  <1>6. DOMAIN found = 1..k
    BY <1>3
  <1> DEFINE far(i) == EstimatedDistance(found[i][3], found[i][2], heaviest)
             more == [i \in 1..k |-> Result(found[i][1], "graph", far(i), found[i][2])]
  <1>7. ASSUME NEW i \in 1..k PROVE more[i] \in Rated
    <2>1. found[i] \in new \X Weights \X near
      BY <1>3
    <2>2. found[i][1] \in Chunks /\ found[i][2] \in Nat /\ found[i][3] \in Int
      <3>1. found[i][1] \in new /\ found[i][2] \in Weights /\ found[i][3] \in near
        BY <2>1
      <3> QED
        BY <1>4, <1>5, <3>1
    <2>3. far(i) \in Int
      <3> DEFINE w == found[i][2]
                 d == found[i][3]
                 q == (1000 * w) \div heaviest
                 ratio == IF heaviest = 0 THEN 0 ELSE Lesser(800, q)
      <3>1. heaviest \in Nat /\ w \in Nat /\ d \in Int
        BY <1>4, <2>2
      <3>2. far(i) = Greater(100, Lesser((d * 800) \div 1000, (d * (1000 - ratio)) \div 1000))
        BY DEF EstimatedDistance
      <3> HIDE DEF far, w, d
      <3>3. heaviest # 0 => q \in Int
        <4> DEFINE p == 1000 * w
        <4>1. p \in Nat
          BY <3>1
        <4> HIDE DEF p
        <4>2. heaviest # 0 => p \div heaviest \in Int
          BY <3>1, <4>1
        <4> QED
          BY <4>2 DEF p
      <3> HIDE DEF q
      <3>4. ratio \in Int
        BY <3>3 DEF Lesser
      <3> HIDE DEF ratio
      <3> DEFINE m == d * (1000 - ratio)
      <3>5. m \in Int
        BY <3>1, <3>4
      <3> HIDE DEF m
      <3>6. Greater(100, Lesser((d * 800) \div 1000, m \div 1000)) \in Int
        BY <3>1, <3>5 DEF Greater, Lesser
      <3> QED
        BY <3>2, <3>6 DEF m
    <2> HIDE DEF far
    <2> QED
      BY <2>2, <2>3 DEF Result, Rated
  <1>8. more \in Seq(Rated)
    <2> HIDE DEF far
    <2>1. k \in Nat
      BY <1>3
    <2>2. more = [i \in 1..k |-> more[i]]
      OBVIOUS
    <2> HIDE DEF more
    <2> QED
      BY <1>7, <2>1, <2>2
  <1>9. results' = results \o more
    BY <1>2, <1>6
  <1> HIDE DEF more
  <1> QED
    BY <1>8, <1>9

\* Every step of a search keeps the invariant.
LEMMA MergeStep ==
    ASSUME MergeInv, [MergeNext]_MergeVars
    PROVE  MergeInv'
  <1> USE DEF MergeInv, Deduplicated
  <1>1. CASE Fuse
    <2>1. Answers /\ sparse \in SparseLists /\ dropped = <<>>
      BY <1>1 DEF Fuse
    <2>2. phase' = "expand" /\ dense' = dense /\ sparse' = sparse /\ dropped' = dropped
      BY <1>1 DEF Fuse
    <2>3. Answers'
      BY <2>1, <2>2 DEF Answers, Distinct
    <2>4. SparseHitsSurviveFusion'
      BY <1>1, <2>1, <2>2, FuseKeeps DEF SparseHitsSurviveFusion, InResults
    <2>5. results' \in Seq(Rated)
      BY <1>1, <2>1, FuseKeeps
    <2> QED
      BY <2>1, <2>2, <2>3, <2>4, <2>5 DEF KeptAreTheBest
  <1>2. CASE NoExpansion
    <2>1. phase = "expand" /\ phase' = "merge" /\ dropped' = dropped
      BY <1>2 DEF NoExpansion
    <2> QED
      BY <2>1 DEF SparseHitsSurviveFusion, KeptAreTheBest
  <1>3. CASE Expand
    <2>1. /\ phase = "expand" /\ phase' = "deduplicate"
          /\ dense' = dense /\ sparse' = sparse /\ dropped' = dropped
      BY <1>3 DEF Expand
    <2>2. results' \in Seq(Rated)
      BY <1>3, <2>1, ExpandedRated
    <2>3. Answers'
      BY <2>1 DEF Answers, Distinct
    <2> QED
      BY <2>1, <2>2, <2>3 DEF SparseHitsSurviveFusion, KeptAreTheBest
  <1>4. CASE DeduplicateOverlapping
    <2>1. phase = "deduplicate" /\ phase' = "merge"
      BY <1>4 DEF DeduplicateOverlapping
    <2>2. KeptAreTheBest'
      BY <1>4, <2>1, RemovalKeepsTheBest DEF KeptAreTheBest
    <2> QED
      BY <2>1, <2>2 DEF SparseHitsSurviveFusion
  <1>5. CASE Merge
    <2>1. phase' = "done"
      BY <1>5 DEF Merge
    <2> QED
      BY <2>1 DEF SparseHitsSurviveFusion, KeptAreTheBest
  <1>6. CASE UNCHANGED MergeVars
    BY <1>6 DEF MergeVars, SparseHitsSurviveFusion, KeptAreTheBest, Answers, Distinct, InResults
  <1> QED
    BY <1>1, <1>2, <1>3, <1>4, <1>5, <1>6 DEF MergeNext, MergeDone

\* On any two answers of the retrievers and any results of the graph.
THEOREM MergeInvariant == MergeSpec => []MergeInv
  <1>1. ASSUME MergeInit PROVE MergeInv
    BY <1>1, FirstAnswers
       DEF MergeInit, MergeInv, SparseHitsSurviveFusion, KeptAreTheBest, Deduplicated
  <1>2. MergeInv /\ [MergeNext]_MergeVars => MergeInv'
    BY MergeStep
  <1> QED
    BY <1>1, <1>2, PTL DEF MergeSpec

\* Of the answer of the full-text search, the best hits are in the result whatever the
\* vector search and the graph return.
THEOREM SparseSurvive == MergeSpec => []SparseHitsSurviveFusion
  <1>1. MergeInv => SparseHitsSurviveFusion
    BY DEF MergeInv
  <1> QED
    BY <1>1, MergeInvariant, PTL

\* A result leaves for one of its own lines that is better, and the best stay.
THEOREM BestKept == MergeSpec => []KeptAreTheBest
  <1>1. MergeInv => KeptAreTheBest
    BY DEF MergeInv
  <1> QED
    BY <1>1, MergeInvariant, PTL

-----------------------------------------------------------------------------
(* Clustering                                                              *)

\* A division of a set: communities with members, and each member in one.
Splits(seq, set) ==
    /\ seq \in Seq((SUBSET set) \ {{}})
    /\ \A v \in set : \E i \in 1..Len(seq) : v \in seq[i]
    /\ \A i, j \in 1..Len(seq) : i # j => seq[i] \cap seq[j] = {}

\* The communities of two sets.
LEMMA SplitsBoth ==
    ASSUME NEW A, NEW B, A \cap B = {}, NEW s, Splits(s, A), NEW t, Splits(t, B)
    PROVE  Splits(s \o t, A \union B)
  <1> DEFINE U == (SUBSET (A \union B)) \ {{}}
             all == s \o t
  <1>1. s \in Seq((SUBSET A) \ {{}}) /\ t \in Seq((SUBSET B) \ {{}})
    BY DEF Splits
  <1>2. /\ \A i \in 1..Len(s) : s[i] \in SUBSET A /\ s[i] # {}
        /\ \A i \in 1..Len(t) : t[i] \in SUBSET B /\ t[i] # {}
    BY <1>1
  <1>3. s \in Seq(U) /\ t \in Seq(U)
    <2>1. DOMAIN s = 1..Len(s) /\ Len(s) \in Nat /\ DOMAIN t = 1..Len(t) /\ Len(t) \in Nat
      BY <1>1
    <2>2. /\ \A i \in 1..Len(s) : s[i] \in U
          /\ \A i \in 1..Len(t) : t[i] \in U
      BY <1>2
    <2>3. s = [i \in 1..Len(s) |-> s[i]] /\ t = [i \in 1..Len(t) |-> t[i]]
      BY <1>1
    <2> HIDE DEF U
    <2> QED
      BY <2>1, <2>2, <2>3
  <1> HIDE DEF U
  <1>4. /\ all \in Seq(U) /\ Len(all) = Len(s) + Len(t) /\ Len(s) \in Nat /\ Len(t) \in Nat
        /\ \A i \in 1..Len(s) : i \in 1..Len(all) /\ all[i] = s[i]
        /\ \A i \in 1..Len(t) : Len(s) + i \in 1..Len(all) /\ all[Len(s) + i] = t[i]
    BY <1>3
  <1> HIDE DEF all
  <1>5. ASSUME NEW i \in 1..Len(all)
        PROVE  \/ i \in 1..Len(s) /\ all[i] = s[i]
               \/ i - Len(s) \in 1..Len(t) /\ all[i] = t[i - Len(s)]
    <2>1. CASE i <= Len(s)
      BY <1>4, <2>1
    <2>2. CASE i > Len(s)
      <3>1. i - Len(s) \in 1..Len(t) /\ Len(s) + (i - Len(s)) = i
        BY <1>4, <2>2
      <3> QED
        BY <1>4, <3>1
    <2> QED
      BY <1>4, <2>1, <2>2
  <1>6. ASSUME NEW v \in A \union B PROVE \E i \in 1..Len(all) : v \in all[i]
    <2>1. CASE v \in A
      BY <1>4, <2>1 DEF Splits
    <2>2. CASE v \in B
      <3>1. PICK i \in 1..Len(t) : v \in t[i]
        BY <2>2 DEF Splits
      <3> QED
        BY <1>4, <3>1
    <2> QED
      BY <2>1, <2>2
  <1>7. ASSUME NEW i \in 1..Len(all), NEW j \in 1..Len(all), i # j
        PROVE  all[i] \cap all[j] = {}
    <2>1. CASE i \in 1..Len(s) /\ j \in 1..Len(s)
      BY <1>4, <1>7, <2>1 DEF Splits
    <2>2. CASE i \in 1..Len(s) /\ j \notin 1..Len(s)
      <3>1. all[i] \in SUBSET A /\ all[j] \in SUBSET B
        BY <1>2, <1>4, <1>5, <2>2
      <3> QED
        BY <3>1
    <2>3. CASE i \notin 1..Len(s) /\ j \in 1..Len(s)
      <3>1. all[j] \in SUBSET A /\ all[i] \in SUBSET B
        BY <1>2, <1>4, <1>5, <2>3
      <3> QED
        BY <3>1
    <2>4. CASE i \notin 1..Len(s) /\ j \notin 1..Len(s)
      <3>1. /\ i - Len(s) \in 1..Len(t) /\ all[i] = t[i - Len(s)]
            /\ j - Len(s) \in 1..Len(t) /\ all[j] = t[j - Len(s)]
        BY <1>5, <2>4
      <3>2. i - Len(s) # j - Len(s)
        BY <1>4, <1>7
      <3> QED
        BY <3>1, <3>2 DEF Splits
    <2> QED
      BY <2>1, <2>2, <2>3, <2>4
  <1> QED
    BY <1>4, <1>6, <1>7 DEF Splits, U, all

\* One community.
LEMMA SplitsOne ==
    ASSUME NEW A, A # {}
    PROVE  Splits(<<A>>, A)
  <1>1. <<A>> \in Seq((SUBSET A) \ {{}}) /\ Len(<<A>>) = 1 /\ <<A>>[1] = A
    OBVIOUS
  <1> QED
    BY <1>1 DEF Splits

\* No community.
LEMMA SplitsNone == Splits(<<>>, {})
  BY DEF Splits

\* The rest after the first community.
LEMMA SplitsRest ==
    ASSUME NEW A, NEW s, Splits(s, A), s # <<>>
    PROVE  /\ Head(s) \in SUBSET A /\ Head(s) # {} /\ Head(s) = s[1] /\ Len(s) > 0
           /\ Splits(Tail(s), A \ Head(s))
           /\ \A i \in 1..Len(Tail(s)) : i + 1 \in 1..Len(s) /\ Tail(s)[i] = s[i + 1]
  <1> DEFINE rest == Tail(s)
             U == (SUBSET (A \ s[1])) \ {{}}
  <1>1. s \in Seq((SUBSET A) \ {{}}) /\ Len(s) \in Nat /\ Len(s) > 0 /\ Head(s) = s[1]
    BY DEF Splits
  <1>2. /\ Len(rest) = Len(s) - 1 /\ DOMAIN rest = 1..Len(rest)
        /\ \A i \in 1..Len(rest) : i + 1 \in 1..Len(s) /\ rest[i] = s[i + 1]
        /\ rest \in Seq((SUBSET A) \ {{}})
    BY <1>1
  <1>3. 1 \in 1..Len(s) /\ s[1] \in SUBSET A /\ s[1] # {}
    BY <1>1
  <1>4. ASSUME NEW i \in 1..Len(rest) PROVE rest[i] \in U
    <2>1. rest[i] = s[i + 1] /\ i + 1 \in 1..Len(s) /\ i + 1 # 1
      BY <1>1, <1>2
    <2>2. s[i + 1] \in SUBSET A /\ s[i + 1] # {} /\ s[1] \cap s[i + 1] = {}
      BY <1>1, <1>3, <2>1 DEF Splits
    <2> QED
      BY <2>1, <2>2
  <1>5. rest = [i \in 1..Len(rest) |-> rest[i]]
    <2>1. rest \in Seq((SUBSET A) \ {{}})
      BY <1>2
    <2> HIDE DEF rest
    <2> QED
      BY <2>1
  <1>6. rest \in Seq(U)
    <2>1. Len(rest) \in Nat
      BY <1>1, <1>2
    <2> HIDE DEF rest, U
    <2> QED
      BY <1>4, <1>5, <2>1
  <1> HIDE DEF rest
  <1>7. ASSUME NEW v \in A \ s[1] PROVE \E i \in 1..Len(rest) : v \in rest[i]
    <2>1. PICK j \in 1..Len(s) : v \in s[j]
      BY DEF Splits
    <2>2. j # 1 /\ j - 1 \in 1..Len(rest) /\ (j - 1) + 1 = j
      BY <1>1, <1>2, <2>1
    <2> QED
      BY <1>2, <2>1, <2>2
  <1>8. ASSUME NEW i \in 1..Len(rest), NEW j \in 1..Len(rest), i # j
        PROVE  rest[i] \cap rest[j] = {}
    <2>1. i + 1 # j + 1
      BY <1>1, <1>2, <1>8
    <2> QED
      BY <1>2, <2>1 DEF Splits
  <1> QED
    BY <1>1, <1>2, <1>3, <1>6, <1>7, <1>8 DEF Splits, rest, U

\* Sorted vertices.
LEMMA VertexOrder ==
    ASSUME NEW set \in SUBSET Vertices
    PROVE  Lists(Sorted(set, <), set) /\ IsFiniteSet(set) /\ Cardinality(set) \in Nat
  <1>1. IsFiniteSet(Vertices) /\ Vertices \subseteq Nat
    BY ClusteringAssumption
  <1>2. IsFiniteSet(set) /\ Cardinality(set) \in Nat
    BY <1>1, FS_Subset, FS_CardinalityType
  <1>3. set \subseteq Int /\ \A v \in set : v \in Int
    BY <1>1
  <1>4. Decides(set, Below)
    BY <1>3 DEF Decides, Below
  <1>5. InOrder(Sorted(set, <), set, Below)
    BY <1>2, <1>3, SortedNumbers
  <1> QED
    BY <1>2, <1>4, <1>5, InOrderLists

\* Every member of a set by itself.
Singles(seq, s) == seq = [i \in DOMAIN s |-> {s[i]}]
\* They divide the set.
LEMMA SplitsAlone ==
    ASSUME NEW set, IsFiniteSet(set), NEW s, Lists(s, set),
           NEW seq, Singles(seq, s)
    PROVE  /\ Splits(seq, set) /\ Len(seq) = Cardinality(set)
           /\ \A i \in 1..Len(seq) : \E v \in set : seq[i] = {v}
  <1> DEFINE n == Cardinality(set)
             U == (SUBSET set) \ {{}}
  <1>1. n \in Nat
    BY FS_CardinalityType
  <1>2. /\ s \in [1..n -> set] /\ \A v \in set : \E k \in 1..n : s[k] = v
        /\ \A j, k \in 1..n : j # k => s[j] # s[k]
    BY DEF Lists
  <1> HIDE DEF n
  <1>3. DOMAIN s = 1..n /\ \A i \in 1..n : seq[i] = {s[i]} /\ s[i] \in set
    BY <1>2 DEF Singles
  <1>4. \A i \in 1..n : seq[i] \in U
    BY <1>3
  <1>5. seq = [i \in 1..n |-> seq[i]]
    BY <1>3 DEF Singles
  <1>6. seq \in Seq(U) /\ Len(seq) = n
    <2> HIDE DEF U
    <2> QED
      BY <1>1, <1>4, <1>5
  <1>7. \A v \in set : \E i \in 1..n : v \in seq[i]
    BY <1>2, <1>3
  <1>8. \A i, j \in 1..n : i # j => seq[i] \cap seq[j] = {}
    BY <1>2, <1>3
  <1>9. \A i \in 1..n : \E v \in set : seq[i] = {v}
    BY <1>3
  <1> QED
    BY <1>6, <1>7, <1>8, <1>9 DEF Splits, U, n

\* The same communities in another order.
LEMMA SplitsPermuted ==
    ASSUME NEW A, NEW s, Splits(s, A), NEW g, Lists(g, 1..Len(s))
    PROVE  /\ Splits(At(s, g), A) /\ Len(At(s, g)) = Len(s)
           /\ \A k \in 1..Len(s) : At(s, g)[k] = s[g[k]] /\ g[k] \in 1..Len(s)
  <1> DEFINE n == Len(s)
             U == (SUBSET A) \ {{}}
             t == At(s, g)
  <1>1. s \in Seq(U) /\ n \in Nat
    BY DEF Splits
  <1> HIDE DEF U
  <1>2. Permuted(t, s, g, U)
    BY <1>1, AtPermutes
  <1>3. /\ t \in Seq(U) /\ Len(t) = n
        /\ \A k \in 1..n : t[k] = s[g[k]] /\ g[k] \in 1..n
        /\ \A i \in 1..n : \E k \in 1..n : t[k] = s[i]
    BY <1>2 DEF Permuted
  <1>4. \A j, k \in 1..n : j # k => g[j] # g[k]
    BY <1>2 DEF Permuted
  <1> HIDE DEF t
  <1>5. \A v \in A : \E k \in 1..n : v \in t[k]
    BY <1>3 DEF Splits
  <1>6. ASSUME NEW j \in 1..n, NEW k \in 1..n, j # k PROVE t[j] \cap t[k] = {}
    <2>1. t[j] = s[g[j]] /\ t[k] = s[g[k]] /\ g[j] \in 1..n /\ g[k] \in 1..n /\ g[j] # g[k]
      BY <1>3, <1>4, <1>6
    <2> QED
      BY <2>1 DEF Splits
  <1> QED
    BY <1>3, <1>5, <1>6 DEF Splits, U, t

\* The least of some numbers.
LEMMA LeastIs ==
    ASSUME NEW S, S \subseteq Nat, S # {}
    PROVE  Min(S) \in S /\ \A y \in S : Min(S) <= y
  <1>1. \E x \in S : \A y \in S : x <= y
    BY LeastNumber
  <1> QED
    BY <1>1 DEF Min

\* What the libraries return divides the set they are given.
LEMMA DivisionsSplit ==
    ASSUME NEW set \in SUBSET Vertices, NEW d \in Divisions(set)
    PROVE  Splits(d, set)
  <1> DEFINE U == (SUBSET set) \ {{}}
  <1>1. PICK home \in [set -> 1..Cardinality(set)] :
            d = Sorted({{v \in set : home[v] = home[u]} : u \in set}, FirstBefore)
    BY DEF Divisions
  <1> DEFINE parts == {{v \in set : home[v] = home[u]} : u \in set}
             n == Cardinality(parts)
             R == {x \in parts \X parts : Min(x[1]) < Min(x[2])}
  <1>2. /\ \A p \in parts : p \in U
        /\ \A v \in set : \E p \in parts : v \in p
        /\ \A p, q \in parts : p # q => p \cap q = {}
    <2> DEFINE part(u) == {v \in set : home[v] = home[u]}
    <2>1. ASSUME NEW u \in set PROVE part(u) \in U /\ u \in part(u) /\ part(u) \in parts
      OBVIOUS
    <2>2. ASSUME NEW p \in parts PROVE \E u \in set : p = part(u)
      OBVIOUS
    <2>3. \A u, w \in set : part(u) # part(w) => part(u) \cap part(w) = {}
      OBVIOUS
    <2> HIDE DEF part, parts, U
    <2> QED
      BY <2>1, <2>2, <2>3
  <1>3. IsFiniteSet(parts) /\ n \in Nat
    <2>1. IsFiniteSet(set)
      BY VertexOrder
    <2>2. IsFiniteSet(parts)
      <3> DEFINE f == [u \in set |-> {v \in set : home[v] = home[u]}]
      <3>1. /\ \A u \in set : f[u] \in parts
            /\ \A p \in parts : \E u \in set : f[u] = p
        OBVIOUS
      <3>2. f \in [set -> parts]
        OBVIOUS
      <3> HIDE DEF f, parts
      <3>3. f \in Surjection(set, parts)
        BY <3>1, <3>2 DEF Surjection
      <3> QED
        BY <2>1, <3>3, FS_Surjection
    <2> QED
      BY <2>2, FS_CardinalityType
  <1>4. d = Sorted(parts, FirstBefore)
    BY <1>1
  <1> HIDE DEF parts
  <1>5. \A p \in parts : Min(p) \in p /\ Min(p) \in Nat
    <2> SUFFICES ASSUME NEW p \in parts PROVE Min(p) \in p /\ Min(p) \in Nat
      OBVIOUS
    <2>1. p \subseteq Nat /\ p # {}
      BY <1>2, ClusteringAssumption
    <2> QED
      BY <2>1, LeastIs
  <1>6. \A p, q \in parts : p # q => Min(p) # Min(q)
    BY <1>2, <1>5
  <1>7. \A p, q \in parts : <<p, q>> \in R <=> Min(p) < Min(q)
    OBVIOUS
  <1>8. Decides(parts, R)
    <2> DEFINE min(p) == Min(p)
    <2>1. /\ \A p \in parts : min(p) \in Nat
          /\ \A p, q \in parts : p # q => min(p) # min(q)
          /\ \A p, q \in parts : <<p, q>> \in R <=> min(p) < min(q)
      BY <1>5, <1>6, <1>7
    <2> HIDE DEF min, R
    <2> QED
      BY <2>1 DEF Decides
  <1> DEFINE rank(x) == Cardinality({y \in parts : FirstBefore(y, x)})
             g == [k \in 1..n |-> CHOOSE x \in parts : rank(x) = k - 1]
  <1>9. d = g
    BY <1>4 DEF Sorted
  <1>10. ASSUME NEW x \in parts PROVE rank(x) = Rank(parts, R, x)
    <2>1. {y \in parts : <<y, x>> \in R} = {y \in parts : FirstBefore(y, x)}
      BY DEF FirstBefore
    <2> QED
      BY <2>1 DEF Rank
  <1> HIDE DEF rank
  <1>11. \A k \in 1..n : (\E x \in parts : rank(x) = k - 1) => g[k] \in parts /\ rank(g[k]) = k - 1
    OBVIOUS
  <1>12. g = [k \in 1..n |-> g[k]]
    OBVIOUS
  <1> HIDE DEF g, R
  <1>13. IsByRank(d, parts, R)
    BY <1>9, <1>10, <1>11, <1>12 DEF IsByRank
  <1>14. Lists(d, parts)
    <2>1. InOrder(d, parts, R)
      BY <1>3, <1>8, <1>13, SortedInOrder
    <2> QED
      BY <1>3, <1>8, <2>1, InOrderLists
  <1>15. /\ d \in [1..n -> parts] /\ \A p \in parts : \E k \in 1..n : d[k] = p
         /\ \A j, k \in 1..n : j # k => d[j] # d[k]
    BY <1>14 DEF Lists
  <1> HIDE DEF n, U
  <1>16. d \in Seq(U) /\ Len(d) = n
    <2>1. \A k \in 1..n : d[k] \in U
      BY <1>2, <1>15
    <2>2. d = [k \in 1..n |-> d[k]]
      BY <1>15
    <2> QED
      BY <1>3, <2>1, <2>2
  <1>17. \A v \in set : \E k \in 1..n : v \in d[k]
    BY <1>2, <1>15
  <1>18. \A j, k \in 1..n : j # k => d[j] \cap d[k] = {}
    BY <1>2, <1>15
  <1> QED
    BY <1>16, <1>17, <1>18 DEF Splits, U

-----------------------------------------------------------------------------
\* In a connected set of two or more every node has an edge within it.
LEMMA ConnectedLinks ==
    ASSUME NEW nodes, Connected(nodes), \A v \in nodes : nodes # {v}
    PROVE  Linked(nodes) = nodes
  <1>1. Linked(nodes) \subseteq nodes
    BY DEF Linked, Joins
  <1>2. ASSUME NEW v \in nodes PROVE v \in Linked(nodes)
    <2>1. {v} \in (SUBSET nodes) \ {{}, nodes}
      OBVIOUS
    <2>2. PICK e \in Joins(nodes) : e \cap {v} # {}
      BY <2>1 DEF Connected
    <2> QED
      BY <2>2 DEF Linked
  <1> QED
    BY <1>1, <1>2

\* The library divides connected vertices, and what it returns is connected.
LEMMA PartitionSplits ==
    ASSUME NEW nodes \in SUBSET Vertices, Linked(nodes) = nodes \/ library # "leiden",
           NEW d \in Partition(nodes)
    PROVE  /\ Splits(d, nodes)
           /\ library = "leiden" => \A i \in 1..Len(d) : Connected(d[i])
  <1>1. d \in Divisions(nodes)
    BY DEF Partition
  <1>2. Splits(d, nodes)
    BY <1>1, DivisionsSplit
  <1>3. DOMAIN d = 1..Len(d)
    BY <1>2 DEF Splits
  <1>4. library = "leiden" => \A i \in DOMAIN d : Connected(d[i])
    BY DEF Partition
  <1> QED
    BY <1>2, <1>3, <1>4

\* A community that is split has more than one node.
LEMMA SplitHasTwo ==
    ASSUME NEW nodes, Cardinality(nodes) > SplitOver
    PROVE  \A v \in nodes : nodes # {v}
  <1> DEFINE a == MinSplit
             b == Cardinality(Vertices) \div Share
  <1>1. a \in Nat /\ a > 0 /\ b \in Int
    <2>1. /\ Cardinality(Vertices) \in Nat /\ Share \in Nat /\ Share > 0
          /\ MinSplit \in Nat /\ MinSplit > 0
      BY ClusteringAssumption, FS_CardinalityType
    <2> QED
      BY <2>1
  <1> HIDE DEF a, b
  <1>2. Max({a, b}) >= a /\ Max({a, b}) \in Int
    <2>1. \E x \in {a, b} : \A y \in {a, b} : x >= y
      BY <1>1
    <2>2. Max({a, b}) \in {a, b} /\ \A y \in {a, b} : Max({a, b}) >= y
      BY <2>1 DEF Max
    <2> QED
      BY <1>1, <2>2
  <1>3. SplitOver = Max({a, b})
    BY DEF SplitOver, a, b
  <1>4. ASSUME NEW v \in nodes, nodes = {v} PROVE FALSE
    <2>1. Cardinality(nodes) = 1
      BY <1>4, FS_Singleton
    <2> DEFINE m == Max({a, b})
    <2>2. 1 > m /\ m >= a /\ m \in Int
      BY <1>2, <1>3, <2>1
    <2> HIDE DEF m
    <2> QED
      BY <1>1, <2>2
  <1> QED
    BY <1>4

\* The communities of the second pass take the place of the one it divides.
LEMMA Second ==
    ASSUME NEW rest \in SUBSET Vertices, Splits(raw, rest), Splits(final, Vertices \ rest),
           raw # <<>>, NEW pieces, Splits(pieces, Head(raw))
    PROVE  \E left \in SUBSET Vertices :
              Splits(Tail(raw), left) /\ Splits(final \o pieces, Vertices \ left)
  <1> DEFINE left == rest \ Head(raw)
  <1>1. Head(raw) \in SUBSET rest /\ Splits(Tail(raw), left)
    BY SplitsRest
  <1>2. Splits(final \o pieces, (Vertices \ rest) \union Head(raw))
    <2>1. (Vertices \ rest) \cap Head(raw) = {}
      BY <1>1
    <2> QED
      BY <2>1, SplitsBoth
  <1>3. Vertices \ left = (Vertices \ rest) \union Head(raw) /\ left \in SUBSET Vertices
    BY <1>1
  <1> HIDE DEF left
  <1> QED
    BY <1>1, <1>2, <1>3

-----------------------------------------------------------------------------
\* The largest come first.
LargestFirst == \A i \in 2..Len(final) : Cardinality(final[i - 1]) >= Cardinality(final[i])

\* At every step the communities found so far, of the first pass and of the second,
\* divide the vertices; those leiden found are connected.
ClusterInv ==
    /\ edges \in SUBSET {e \in SUBSET Vertices : Cardinality(e) = 2}
    /\ clusterAt = "partition" => raw = <<>> /\ final = <<>>
    /\ clusterAt = "isolates" => Splits(raw, Linked(Vertices)) /\ final = <<>>
    /\ clusterAt = "split" =>
          \E rest \in SUBSET Vertices : Splits(raw, rest) /\ Splits(final, Vertices \ rest)
    /\ clusterAt \in {"isolates", "split"} /\ library = "leiden" =>
          \A i \in 1..Len(raw) : Connected(raw[i])
    /\ clusterAt = "assign" => Splits(final, Vertices) /\ LargestFirst
    /\ CommunitiesCoverTheGraph

\* A graph without an edge.
LEMMA NoEdgesStep ==
    ASSUME ClusterInv, NoEdges
    PROVE  ClusterInv'
  <1> DEFINE s == Sorted(Vertices, <)
             n == Cardinality(Vertices)
  <1>1. Lists(s, Vertices) /\ IsFiniteSet(Vertices) /\ n \in Nat
    BY VertexOrder
  <1> HIDE DEF s
  <1>2. final' = [i \in 1..n |-> {s[i]}] /\ clusterAt' = "assign" /\ edges' = edges
    BY DEF NoEdges, s
  <1>3. DOMAIN s = 1..n
    BY <1>1 DEF Lists
  <1>4. Singles(final', s)
    BY <1>2, <1>3 DEF Singles
  <1>5. /\ Splits(final', Vertices) /\ Len(final') = n
        /\ \A i \in 1..Len(final') : \E v \in Vertices : final'[i] = {v}
    BY <1>1, <1>4, SplitsAlone
  <1>6. \A i \in 1..n : Cardinality(final'[i]) = 1
    BY <1>5, FS_Singleton
  <1>7. LargestFirst'
    <2>1. \A i \in 2..n : i \in 1..n /\ i - 1 \in 1..n
      BY <1>1
    <2> QED
      BY <1>5, <1>6, <2>1 DEF LargestFirst
  <1> QED
    BY <1>2, <1>5, <1>7 DEF ClusterInv, CommunitiesCoverTheGraph

\* The vertices with an edge keep it when the others are left out.
LEMMA FirstPassStep ==
    ASSUME ClusterInv, FirstPass
    PROVE  ClusterInv'
  <1> DEFINE set == Linked(Vertices)
  <1>1. set \in SUBSET Vertices
    BY DEF Linked, Joins
  <1>2. Linked(set) = set
    <2>1. Joins(Vertices) \subseteq Joins(set)
      BY DEF Joins, Linked
    <2>2. Joins(set) \subseteq Joins(Vertices)
      BY <1>1 DEF Joins
    <2> QED
      BY <2>1, <2>2 DEF Linked
  <1>3. /\ raw' \in Partition(set) /\ clusterAt' = "isolates" /\ final' = <<>>
        /\ edges' = edges /\ library' = library
    BY DEF FirstPass, ClusterInv
  <1>4. /\ Splits(raw', set)
        /\ library = "leiden" => \A i \in 1..Len(raw') : Connected(raw'[i])
    BY <1>1, <1>2, <1>3, PartitionSplits
  <1>5. Splits(raw', Linked(Vertices)')
    BY <1>3, <1>4 DEF Linked, Joins
  <1>6. library' = "leiden" => \A i \in 1..Len(raw') : Connected(raw[i])'
    BY <1>3, <1>4 DEF Connected, Joins
  <1> QED
    BY <1>3, <1>5, <1>6 DEF ClusterInv, CommunitiesCoverTheGraph

\* The vertices that have no edge.
LEMMA IsolatesStep ==
    ASSUME ClusterInv, AddIsolates
    PROVE  ClusterInv'
  <1> DEFINE set == Linked(Vertices)
             lone == Vertices \ set
             more == [i \in DOMAIN Isolates |-> {Isolates[i]}]
  <1>1. set \in SUBSET Vertices /\ lone \in SUBSET Vertices
    BY DEF Linked, Joins
  <1>2. Splits(raw, set) /\ final = <<>>
    BY DEF ClusterInv, AddIsolates
  <1>3. Splits(more, lone) /\ \A i \in 1..Len(more) : \E v \in lone : more[i] = {v}
    <2>1. Lists(Isolates, lone) /\ IsFiniteSet(lone)
      BY <1>1, VertexOrder DEF Isolates
    <2>2. Singles(more, Isolates)
      BY DEF Singles
    <2> HIDE DEF set, more
    <2> QED
      BY <2>1, <2>2, SplitsAlone
  <1>4. /\ raw' = raw \o more /\ clusterAt' = "split" /\ final' = final
        /\ edges' = edges /\ library' = library
    BY DEF AddIsolates
  <1> HIDE DEF more
  <1>5. Splits(raw', Vertices)
    <2>1. set \cap lone = {} /\ set \union lone = Vertices
      BY <1>1
    <2> HIDE DEF set, lone
    <2> QED
      BY <1>2, <1>3, <1>4, <2>1, SplitsBoth
  <1>6. Splits(final', Vertices \ Vertices)
    BY <1>2, <1>4, SplitsNone
  <1>7. ASSUME library = "leiden", NEW i \in 1..Len(raw') PROVE Connected(raw'[i])
    <2>1. raw \in Seq(SUBSET Vertices) /\ more \in Seq(SUBSET Vertices)
      <3>1. raw \in Seq((SUBSET set) \ {{}}) /\ more \in Seq((SUBSET lone) \ {{}})
        BY <1>2, <1>3 DEF Splits
      <3>2. /\ (SUBSET set) \ {{}} \subseteq SUBSET Vertices
            /\ (SUBSET lone) \ {{}} \subseteq SUBSET Vertices
        BY <1>1
      <3> HIDE DEF set, lone
      <3> DEFINE A == (SUBSET set) \ {{}}
                 B == (SUBSET lone) \ {{}}
                 V == SUBSET Vertices
      <3>3. raw \in Seq(A) /\ more \in Seq(B) /\ A \subseteq V /\ B \subseteq V
        BY <3>1, <3>2
      <3> HIDE DEF A, B, V
      <3>4. raw \in Seq(V) /\ more \in Seq(V)
        BY <3>3
      <3> QED
        BY <3>4 DEF V
    <2>2. \/ i \in 1..Len(raw) /\ raw'[i] = raw[i]
          \/ i - Len(raw) \in 1..Len(more) /\ raw'[i] = more[i - Len(raw)]
      BY <1>4, <2>1
    <2>3. CASE i \in 1..Len(raw) /\ raw'[i] = raw[i]
      BY <1>7, <2>3 DEF ClusterInv, AddIsolates
    <2>4. CASE i - Len(raw) \in 1..Len(more) /\ raw'[i] = more[i - Len(raw)]
      <3>1. PICK v \in lone : raw'[i] = {v}
        BY <1>3, <2>4
      <3>2. (SUBSET {v}) \ {{}, {v}} = {}
        OBVIOUS
      <3> QED
        BY <3>1, <3>2 DEF Connected
    <2> QED
      BY <2>2, <2>3, <2>4
  <1>8. library' = "leiden" => \A i \in 1..Len(raw') : Connected(raw[i])'
    BY <1>4, <1>7 DEF Connected, Joins
  <1>9. \E rest \in SUBSET Vertices : Splits(raw', rest) /\ Splits(final', Vertices \ rest)
    BY <1>5, <1>6
  <1> QED
    BY <1>4, <1>8, <1>9 DEF ClusterInv, CommunitiesCoverTheGraph

\* Appending one community.
LEMMA OneMore ==
    ASSUME NEW A, NEW s, Splits(s, A), NEW nodes
    PROVE  Append(s, nodes) = s \o <<nodes>>
  <1>1. PICK V : s \in Seq(V)
    BY DEF Splits
  <1> DEFINE W == V \union {nodes}
  <1>2. s \in Seq(W) /\ nodes \in W
    <2>1. V \subseteq W /\ nodes \in W
      OBVIOUS
    <2> HIDE DEF W
    <2> QED
      BY <1>1, <2>1
  <1> QED
    BY <1>2

\* The first community that is left goes through the second pass.
LEMMA SecondPass ==
    ASSUME ClusterInv, clusterAt = "split", raw # <<>>, NEW pieces, Splits(pieces, Head(raw)),
           final' = final \o pieces, raw' = Tail(raw),
           UNCHANGED <<edges, library, clusterAt, label>>
    PROVE  ClusterInv'
  <1>1. PICK rest \in SUBSET Vertices : Splits(raw, rest) /\ Splits(final, Vertices \ rest)
    BY DEF ClusterInv
  <1>2. \E left \in SUBSET Vertices : Splits(raw', left) /\ Splits(final', Vertices \ left)
    BY <1>1, Second
  <1>3. ASSUME library = "leiden", NEW i \in 1..Len(raw') PROVE Connected(raw'[i])
    <2>1. i + 1 \in 1..Len(raw) /\ raw'[i] = raw[i + 1]
      BY <1>1, SplitsRest
    <2> QED
      BY <1>3, <2>1 DEF ClusterInv
  <1>4. library' = "leiden" => \A i \in 1..Len(raw') : Connected(raw[i])'
    BY <1>3 DEF Connected, Joins
  <1> QED
    BY <1>2, <1>4 DEF ClusterInv, CommunitiesCoverTheGraph

\* A community that is small enough is kept.
LEMMA KeepStep ==
    ASSUME ClusterInv, Keep
    PROVE  ClusterInv'
  <1>1. PICK rest \in SUBSET Vertices : Splits(raw, rest) /\ Splits(final, Vertices \ rest)
    BY DEF ClusterInv, Keep
  <1>2. Head(raw) # {} /\ raw # <<>>
    BY <1>1, SplitsRest DEF Keep
  <1>3. Splits(<<Head(raw)>>, Head(raw))
    BY <1>2, SplitsOne
  <1>4. final' = final \o <<Head(raw)>>
    BY <1>1, OneMore DEF Keep
  <1> QED
    BY <1>2, <1>3, <1>4, SecondPass DEF Keep

\* A large one is replaced by a division of it.
LEMMA SplitStep ==
    ASSUME ClusterInv, SplitCommunity
    PROVE  ClusterInv'
  <1> DEFINE nodes == Head(raw)
  <1>1. PICK rest \in SUBSET Vertices : Splits(raw, rest) /\ Splits(final, Vertices \ rest)
    BY DEF ClusterInv, SplitCommunity
  <1>2. raw # <<>> /\ clusterAt = "split" /\ Cardinality(nodes) > SplitOver /\ raw' = Tail(raw)
    BY DEF SplitCommunity
  <1>3. nodes \in SUBSET Vertices /\ nodes # {} /\ nodes = raw[1] /\ 1 \in 1..Len(raw)
    <2>1. Len(raw) \in Nat
      BY <1>1 DEF Splits
    <2> HIDE DEF nodes
    <2>2. Head(raw) \in SUBSET rest /\ Head(raw) # {} /\ Head(raw) = raw[1] /\ Len(raw) > 0
      BY <1>1, <1>2, SplitsRest
    <2> QED
      BY <2>1, <2>2 DEF nodes
  <1>4. Linked(nodes) = nodes \/ library # "leiden"
    <2>1. library = "leiden" => Connected(nodes)
      BY <1>2, <1>3 DEF ClusterInv
    <2>2. \A v \in nodes : nodes # {v}
      BY <1>2, SplitHasTwo
    <2> QED
      BY <2>1, <2>2, ConnectedLinks
  <1>5. Splits(<<nodes>>, nodes) /\ Append(final, nodes) = final \o <<nodes>>
    BY <1>1, <1>3, SplitsOne, OneMore
  <1> HIDE DEF nodes
  <1>6. \E pieces : Splits(pieces, nodes) /\ final' = final \o pieces
    <2>1. CASE Joins(nodes) = {} /\ final' = final \o [i \in 1..Cardinality(nodes) |-> {Sorted(nodes, <)[i]}]
      <3> DEFINE s == Sorted(nodes, <)
                 pieces == [i \in 1..Cardinality(nodes) |-> {s[i]}]
      <3>1. Lists(s, nodes) /\ IsFiniteSet(nodes)
        BY <1>3, VertexOrder
      <3>2. final' = final \o pieces
        BY <2>1
      <3> HIDE DEF s
      <3>3. Singles(pieces, s)
        BY <3>1 DEF Lists, Singles
      <3> HIDE DEF pieces
      <3>4. Splits(pieces, nodes)
        BY <3>1, <3>3, SplitsAlone
      <3> QED
        BY <3>2, <3>4
    <2>2. CASE \E d \in Partition(nodes) : final' = final \o (IF Len(d) <= 1 THEN <<nodes>> ELSE d)
      <3>1. PICK d \in Partition(nodes) : final' = final \o (IF Len(d) <= 1 THEN <<nodes>> ELSE d)
        BY <2>2
      <3>2. Splits(d, nodes)
        BY <1>3, <1>4, PartitionSplits
      <3> QED
        BY <1>5, <3>1, <3>2
    <2>3. CASE final' = Append(final, nodes)
      BY <1>5, <2>3
    <2> QED
      BY <2>1, <2>2, <2>3 DEF SplitCommunity, nodes
  <1>7. PICK pieces : Splits(pieces, nodes) /\ final' = final \o pieces
    BY <1>6
  <1> QED
    BY <1>2, <1>7, SecondPass DEF SplitCommunity, nodes

\* Sorting by size keeps the communities.
LEMMA RenumberStep ==
    ASSUME ClusterInv, Renumber
    PROVE  ClusterInv'
  <1> DEFINE n == Len(final)
             size(i) == Cardinality(final[i])
             R == {x \in (1..n) \X (1..n) :
                     size(x[1]) > size(x[2]) \/ (size(x[1]) = size(x[2]) /\ x[1] < x[2])}
             rank(x) == Cardinality({y \in DOMAIN final : Larger(y, x)})
             g == [k \in 1..Cardinality(1..n) |-> CHOOSE x \in 1..n : rank(x) = k - 1]
  <1>1. PICK rest \in SUBSET Vertices : Splits(<<>>, rest) /\ Splits(final, Vertices \ rest)
    BY DEF ClusterInv, Renumber
  <1>2. rest = {}
    BY <1>1 DEF Splits
  <1>3. Splits(final, Vertices)
    BY <1>1, <1>2
  <1>4. n \in Nat /\ DOMAIN final = 1..n /\ \A i \in 1..n : final[i] \in SUBSET Vertices
    BY <1>3 DEF Splits
  <1>5. \A i \in 1..n : size(i) \in Nat
    BY <1>4, VertexOrder
  <1>6. \A i, j \in 1..n : <<i, j>> \in R <=> size(i) > size(j) \/ (size(i) = size(j) /\ i < j)
    OBVIOUS
  <1>7. \A i, j \in 1..n : Larger(i, j) <=> <<i, j>> \in R
    BY DEF Larger
  <1>8. final' = At(final, g) /\ clusterAt' = "assign" /\ edges' = edges
    BY <1>4 DEF Renumber, Sorted
  <1> HIDE DEF R, size
  <1>9. Decides(1..n, R)
    <2> HIDE DEF n
    <2> QED
      BY <1>4, <1>5, <1>6 DEF Decides
  <1>10. IsFiniteSet(1..n) /\ Cardinality(1..n) = n
    <2> HIDE DEF n
    <2> QED
      BY <1>4, FS_Interval
  <1>11. ASSUME NEW x \in 1..n PROVE rank(x) = Rank(1..n, R, x)
    <2>1. {y \in 1..n : <<y, x>> \in R} = {y \in 1..n : Larger(y, x)}
      BY <1>7
    <2> QED
      BY <1>4, <2>1 DEF Rank
  <1> HIDE DEF rank
  <1>12. \A k \in 1..Cardinality(1..n) :
             (\E x \in 1..n : rank(x) = k - 1) => g[k] \in 1..n /\ rank(g[k]) = k - 1
    OBVIOUS
  <1>13. g = [k \in 1..Cardinality(1..n) |-> g[k]]
    OBVIOUS
  <1> HIDE DEF g, n
  <1>14. IsByRank(g, 1..n, R)
    BY <1>11, <1>12, <1>13 DEF IsByRank
  <1>15. InOrder(g, 1..n, R)
    BY <1>9, <1>10, <1>14, SortedInOrder
  <1>16. Lists(g, 1..n)
    BY <1>9, <1>10, <1>15, InOrderLists
  <1>17. /\ Splits(final', Vertices) /\ Len(final') = n
         /\ \A k \in 1..n : final'[k] = final[g[k]] /\ g[k] \in 1..n
    BY <1>3, <1>8, <1>16, SplitsPermuted DEF n
  <1>18. LargestFirst'
    <2> SUFFICES ASSUME NEW i \in 2..n PROVE Cardinality(final'[i - 1]) >= Cardinality(final'[i])
      BY <1>17 DEF LargestFirst
    <2>1. i - 1 \in 1..n /\ i \in 1..n /\ i - 1 < i
      BY <1>4
    <2>2. <<g[i - 1], g[i]>> \in R
      BY <1>10, <1>15, <2>1 DEF InOrder
    <2>3. size(g[i - 1]) >= size(g[i])
      <3>1. g[i - 1] \in 1..n /\ g[i] \in 1..n
        BY <1>17, <2>1
      <3>2. size(g[i - 1]) > size(g[i]) \/ size(g[i - 1]) = size(g[i])
        BY <1>6, <2>2, <3>1
      <3>3. size(g[i - 1]) \in Nat /\ size(g[i]) \in Nat
        BY <1>5, <3>1
      <3> QED
        BY <3>2, <3>3
    <2> QED
      BY <1>17, <2>1, <2>3 DEF size
  <1> QED
    BY <1>8, <1>17, <1>18 DEF ClusterInv, CommunitiesCoverTheGraph

\* The number of a node is that of its community.
LEMMA Labels ==
    ASSUME Splits(final, Vertices), AssignCommunities
    PROVE  /\ \A v \in Vertices : label'[v] \in 1..Len(final) /\ v \in final[label'[v]]
           /\ \A i \in 1..Len(final) : \A v \in final[i] : v \in Vertices /\ label'[v] = i
  <1> DEFINE n == Len(final)
             of(v) == {i \in DOMAIN final : v \in final[i]}
  <1>1. /\ n \in Nat /\ DOMAIN final = 1..n
        /\ \A i \in 1..n : final[i] \in SUBSET Vertices
    BY DEF Splits
  <1>2. ASSUME NEW i \in 1..n, NEW v \in final[i] PROVE v \in Vertices /\ label'[v] = i
    <2>1. v \in Vertices
      BY <1>1, <1>2
    <2>2. of(v) = {i}
      BY <1>1, <1>2 DEF Splits
    <2>3. label'[v] = Max(of(v))
      BY <1>1, <1>2, <2>1 DEF AssignCommunities
    <2>4. Max({i}) = i
      <3>1. i \in Int
        BY <1>1
      <3> QED
        BY <3>1 DEF Max
    <2> QED
      BY <2>1, <2>2, <2>3, <2>4
  <1>3. ASSUME NEW v \in Vertices PROVE label'[v] \in 1..n /\ v \in final[label'[v]]
    <2>1. PICK i \in 1..n : v \in final[i]
      BY DEF Splits
    <2> QED
      BY <1>2, <2>1
  <1> QED
    BY <1>2, <1>3

\* The labels number the communities.
LEMMA AssignStep ==
    ASSUME ClusterInv, AssignCommunities
    PROVE  ClusterInv'
  <1> DEFINE n == Len(final)
             read == {label'[v] : v \in {w \in Vertices : label'[w] # NoLabel}}
  <1>1. /\ Splits(final, Vertices) /\ LargestFirst /\ clusterAt' = "over"
        /\ final' = final /\ edges' = edges
    BY DEF AssignCommunities, ClusterInv
  <1>2. /\ n \in Nat /\ DOMAIN final = 1..n
        /\ \A i \in 1..n : final[i] \in SUBSET Vertices /\ final[i] # {}
    BY <1>1 DEF Splits
  <1>3. /\ \A v \in Vertices : label'[v] \in 1..n /\ v \in final[label'[v]]
        /\ \A i \in 1..n : \A v \in final[i] : v \in Vertices /\ label'[v] = i
    BY <1>1, Labels
  <1>4. read = 1..n
    <2>1. \A v \in Vertices : label'[v] # NoLabel
      BY <1>2, <1>3 DEF NoLabel
    <2>2. \A i \in 1..n : \E v \in Vertices : label'[v] = i
      BY <1>2, <1>3
    <2> QED
      BY <1>3, <2>1, <2>2
  <1>5. ASSUME NEW i \in 1..n PROVE {v \in Vertices : label'[v] = i} = final[i]
    BY <1>2, <1>3
  <1>6. CommunitiesFromGraph' = [i \in read |-> {v \in Vertices : label'[v] = i}]
    BY DEF CommunitiesFromGraph
  <1>7. CommunitiesFromGraph' = [i \in DOMAIN final |-> final[i]]
    BY <1>2, <1>4, <1>5, <1>6
  <1>8. UNION Range(final) = Vertices
    <2>1. \A v \in Vertices : \E i \in 1..n : v \in final[i]
      BY <1>3
    <2> QED
      BY <1>2, <2>1 DEF Range
  <1>9. CommunitiesCoverTheGraph'
    BY <1>1, <1>7, <1>8 DEF CommunitiesCoverTheGraph, LargestFirst
  <1> QED
    BY <1>1, <1>9 DEF ClusterInv

\* Whichever library runs and whatever it finds: every node has one community,
\* cluster leaves out no node, and what is read back is what it returned.
THEOREM ClusterInvariant == ClusterSpec => []ClusterInv
  <1>1. ASSUME ClusterInit PROVE ClusterInv
    BY <1>1 DEF ClusterInit, ClusterInv, CommunitiesCoverTheGraph
  <1>2. ASSUME ClusterInv, [ClusterNext]_ClusteringVars PROVE ClusterInv'
    <2>1. CASE NoEdges
      BY <1>2, <2>1, NoEdgesStep
    <2>2. CASE FirstPass
      BY <1>2, <2>2, FirstPassStep
    <2>3. CASE AddIsolates
      BY <1>2, <2>3, IsolatesStep
    <2>4. CASE Keep
      BY <1>2, <2>4, KeepStep
    <2>5. CASE SplitCommunity
      BY <1>2, <2>5, SplitStep
    <2>6. CASE Renumber
      BY <1>2, <2>6, RenumberStep
    <2>7. CASE AssignCommunities
      BY <1>2, <2>7, AssignStep
    <2>8. CASE UNCHANGED ClusteringVars
      <3>1. UNCHANGED <<edges, library, clusterAt, raw, final, label>>
        BY <2>8 DEF ClusteringVars
      <3>2. Splits(raw, Linked(Vertices)) => Splits(raw', Linked(Vertices)')
        BY <3>1 DEF Linked, Joins
      <3>3. (\A i \in 1..Len(raw) : Connected(raw[i])) => \A i \in 1..Len(raw') : Connected(raw[i])'
        BY <3>1 DEF Connected, Joins
      <3>4. CommunitiesFromGraph' = CommunitiesFromGraph
        BY <3>1 DEF CommunitiesFromGraph
      <3>5. CommunitiesCoverTheGraph'
        BY <1>2, <3>1, <3>4 DEF ClusterInv, CommunitiesCoverTheGraph
      <3>6. LargestFirst => LargestFirst'
        BY <3>1 DEF LargestFirst
      <3> QED
        BY <1>2, <3>1, <3>2, <3>3, <3>5, <3>6 DEF ClusterInv
    <2> QED
      BY <1>2, <2>1, <2>2, <2>3, <2>4, <2>5, <2>6, <2>7, <2>8 DEF ClusterNext
  <1> QED
    BY <1>1, <1>2, PTL DEF ClusterSpec

\* Every node of the graph is in one community, numbered from the largest, for every
\* graph, either library and every partition it returns.
THEOREM Covered == ClusterSpec => []CommunitiesCoverTheGraph
  <1>1. ClusterInv => CommunitiesCoverTheGraph
    BY DEF ClusterInv
  <1> QED
    BY <1>1, ClusterInvariant, PTL

-----------------------------------------------------------------------------
(* Chunking                                                                *)

\* The lines of a range.
Ranges == Nat \X Nat
\* Some range of the sequence holds the line.
Holds(ranges, l) == \E i \in 1..Len(ranges) : l \in ranges[i][1]..ranges[i][2]
\* A window that moves on.
WindowOK == window.size \in Nat /\ window.overlap \in Nat /\ window.overlap < window.size
\* The recursion of Windows, at one line.
WindowAt(f, last, pos) ==
    LET end == Smaller(pos + window.size - 1, last)
    IN <<<<pos, end>>>> \o (IF end >= last THEN <<>> ELSE f[pos + window.size - window.overlap])
\* The recursion.
IsWindows(f, first, last) == f = [pos \in first..last |-> WindowAt(f, last, pos)]

\* The recursion looks at later lines only.
LEMMA WindowsExist ==
    ASSUME WindowOK, NEW first \in Nat, NEW last \in Nat, first <= last
    PROVE  \E f : IsWindows(f, first, last)
  <1> DEFINE Some(lo) == \E f : IsWindows(f, lo, last)
             T == {d \in Nat : d > last - first \/ Some(last - d)}
  <1>1. ASSUME NEW lo \in first..last, lo = last \/ Some(lo + 1) PROVE Some(lo)
    <2> DEFINE size == window.size
               overlap == window.overlap
    <2>1. size \in Nat /\ overlap \in Nat /\ overlap < size /\ lo \in Nat
      BY DEF WindowOK
    <2> HIDE DEF size, overlap
    <2>2. PICK f : lo = last \/ IsWindows(f, lo + 1, last)
      BY <1>1
    <2> DEFINE g == [pos \in lo..last |-> IF pos = lo THEN WindowAt(f, last, lo) ELSE f[pos]]
    <2>3. ASSUME NEW pos \in lo..last PROVE WindowAt(g, last, pos) = WindowAt(f, last, pos)
      <3>1. CASE pos + size - 1 >= last
        <4>1. Smaller(pos + size - 1, last) = last
          BY <2>1, <3>1 DEF Smaller
        <4> HIDE DEF g
        <4> QED
          BY <4>1 DEF WindowAt, size
      <3>2. CASE pos + size - 1 < last
        <4>1. Smaller(pos + size - 1, last) = pos + size - 1
          BY <2>1, <3>2 DEF Smaller
        <4>2. /\ pos + size - overlap \in lo..last /\ pos + size - overlap # lo
          BY <2>1, <3>2
        <4>3. g[pos + size - overlap] = f[pos + size - overlap]
          BY <4>2
        <4> HIDE DEF g
        <4> QED
          BY <4>1, <4>3 DEF WindowAt, size, overlap
      <3> QED
        BY <2>1, <3>1, <3>2
    <2>4. ASSUME NEW pos \in lo..last PROVE g[pos] = WindowAt(g, last, pos)
      <3>1. CASE pos = lo
        <4>1. g[pos] = WindowAt(f, last, pos)
          BY <3>1
        <4> HIDE DEF g
        <4> QED
          BY <2>3, <4>1
      <3>2. CASE pos # lo
        <4>1. g[pos] = f[pos]
          BY <3>2
        <4>2. pos \in (lo + 1)..last /\ lo # last
          BY <2>1, <3>2
        <4>3. f[pos] = WindowAt(f, last, pos)
          BY <2>2, <4>2 DEF IsWindows
        <4> HIDE DEF g
        <4> QED
          BY <2>3, <4>1, <4>3
      <3> QED
        BY <3>1, <3>2
    <2>5. g = [pos \in lo..last |-> g[pos]]
      OBVIOUS
    <2> HIDE DEF g
    <2>6. IsWindows(g, lo, last)
      BY <2>4, <2>5 DEF IsWindows
    <2> QED
      BY <2>6
  <1> HIDE DEF Some
  <1>2. Nat \subseteq T
    <2> SUFFICES ASSUME NEW d \in Nat, d \notin T, d = 0 \/ d - 1 \in T PROVE FALSE
      <3> HIDE DEF T
      <3> QED
        BY FirstMissing
    <2>1. last - d \in first..last /\ ~Some(last - d)
      OBVIOUS
    <2>2. CASE d = 0
      BY <1>1, <2>1, <2>2
    <2>3. CASE d # 0
      <3>1. Some(last - (d - 1)) /\ last - (d - 1) = last - d + 1
        BY <2>1, <2>3
      <3>2. Some(last - d + 1)
        BY <3>1
      <3> QED
        BY <1>1, <2>1, <3>2
    <2> QED
      BY <2>2, <2>3
  <1>3. last - first \in T /\ last - (last - first) = first
    BY <1>2
  <1> QED
    BY <1>3 DEF Some

\* The windows from a line on hold every line up to the last one.
HoldsFrom(f, last, pos) == f[pos] \in Seq(Ranges) /\ \A l \in pos..last : Holds(f[pos], l)
\* They do, by the least distance from the end at which they might not.
LEMMA WindowsHold ==
    ASSUME WindowOK, NEW first \in Nat, NEW last \in Nat, NEW f, IsWindows(f, first, last),
           NEW pos \in first..last
    PROVE  HoldsFrom(f, last, pos)
  <1> DEFINE size == window.size
             overlap == window.overlap
             Bad == {d \in Nat : d <= last - first /\ ~HoldsFrom(f, last, last - d)}
  <1>1. size \in Nat /\ overlap \in Nat /\ overlap < size
    BY DEF WindowOK
  <1> HIDE DEF size, overlap
  <1>2. Bad = {}
    <2> SUFFICES ASSUME Bad # {} PROVE FALSE
      OBVIOUS
    <2>1. PICK d \in Bad : \A e \in Bad : d <= e
      <3>1. Bad \subseteq Nat
        OBVIOUS
      <3> HIDE DEF Bad
      <3> QED
        BY <3>1, LeastNumber
    <2> DEFINE here == last - d
               end == Smaller(here + size - 1, last)
               next == here + size - overlap
    <2>2. here \in first..last /\ here \in Nat /\ ~HoldsFrom(f, last, here)
      BY <2>1
    <2>3. f[here] = WindowAt(f, last, here)
      BY <2>2 DEF IsWindows
    <2>4. /\ end \in Nat /\ next \in Nat /\ next > here /\ end <= last
          /\ end < last => end = here + size - 1 /\ next \in first..last /\ next <= end + 1
      BY <1>1, <2>2 DEF Smaller
    <2>5. f[here] = <<<<here, end>>>> \o (IF end >= last THEN <<>> ELSE f[next])
      BY <2>3 DEF WindowAt, size, overlap
    <2>6. end < last => HoldsFrom(f, last, next)
      <3> SUFFICES ASSUME end < last PROVE HoldsFrom(f, last, next)
        OBVIOUS
      <3>1. last - next \in Nat /\ last - next < d /\ last - next <= last - first
        BY <2>1, <2>2, <2>4
      <3>2. last - next \notin Bad
        BY <2>1, <3>1
      <3>3. last - (last - next) = next
        BY <2>4
      <3> HIDE DEF next
      <3> QED
        BY <3>1, <3>2, <3>3
    <2> DEFINE rest == IF end >= last THEN <<>> ELSE f[next]
    <2> HIDE DEF here, end, next
    <2>7. rest \in Seq(Ranges)
      BY <2>2, <2>4, <2>6 DEF HoldsFrom
    <2>8. f[here] = <<<<here, end>>>> \o rest
      BY <2>5
    <2>9. \A l \in here..last : l > end => Holds(rest, l)
      BY <2>2, <2>4, <2>6 DEF HoldsFrom
    <2> HIDE DEF rest
    <2> DEFINE one == <<<<here, end>>>>
    <2>10. one \in Seq(Ranges) /\ Len(one) = 1 /\ one[1] = <<here, end>>
      BY <2>2, <2>4 DEF Ranges
    <2> HIDE DEF one
    <2>11. /\ one \o rest \in Seq(Ranges) /\ Len(one \o rest) = 1 + Len(rest)
           /\ (one \o rest)[1] = <<here, end>>
           /\ \A i \in 1..Len(rest) : (one \o rest)[i + 1] = rest[i]
      BY <2>7, <2>10, OneBefore
    <2>12. Len(rest) \in Nat
      BY <2>7
    <2>13. f[here] = one \o rest
      BY <2>8 DEF one
    <2>14. ASSUME NEW l \in here..last PROVE Holds(f[here], l)
      <3>1. CASE l <= end
        <4>1. 1 \in 1..Len(f[here]) /\ f[here][1] = <<here, end>>
          BY <2>11, <2>12, <2>13
        <4>2. l \in here..end
          BY <2>2, <2>4, <3>1
        <4>3. f[here][1][1] = here /\ f[here][1][2] = end
          BY <4>1
        <4> QED
          BY <4>1, <4>2, <4>3 DEF Holds
      <3>2. CASE l > end
        <4>1. PICK i \in 1..Len(rest) : l \in rest[i][1]..rest[i][2]
          BY <2>9, <3>2 DEF Holds
        <4>2. i + 1 \in 1..Len(f[here]) /\ f[here][i + 1] = rest[i]
          BY <2>11, <2>12, <2>13
        <4> QED
          BY <4>1, <4>2 DEF Holds
      <3> QED
        BY <2>2, <2>4, <3>1, <3>2
    <2>15. f[here] \in Seq(Ranges)
      BY <2>11, <2>13
    <2> QED
      BY <2>2, <2>14, <2>15 DEF HoldsFrom
  <1>3. last - pos \in Nat /\ last - pos <= last - first /\ last - (last - pos) = pos
    OBVIOUS
  <1> QED
    BY <1>2, <1>3

\* What Windows returns.
LEMMA WindowsAre ==
    ASSUME WindowOK, NEW first \in Nat, NEW last \in Nat, first <= last
    PROVE  /\ Windows(first, last) \in Seq(Ranges)
           /\ \A l \in first..last : Holds(Windows(first, last), l)
  <1> DEFINE f == CHOOSE h : IsWindows(h, first, last)
  <1>1. IsWindows(f, first, last)
    BY WindowsExist
  <1>2. Windows(first, last) = f[first]
    BY DEF Windows, IsWindows, WindowAt
  <1> HIDE DEF f
  <1>3. first \in first..last
    OBVIOUS
  <1>4. HoldsFrom(f, last, first)
    BY <1>1, <1>3, WindowsHold
  <1> QED
    BY <1>2, <1>4 DEF HoldsFrom

-----------------------------------------------------------------------------
\* A range of rows of a file with n rows.
Span(n) == {s \in (1..n) \X (1..n) : s[1] <= s[2]}
\* A node of the parse tree of such a file.
IsNode(c, n) == c.start \in 1..n /\ c.end \in 1..n /\ c.start <= c.end
\* What joining a node to the spans does.
KeepsRows(spans, now, node, n) ==
    /\ now \in Seq(Span(n))
    /\ \A l \in Nat : Holds(spans, l) => Holds(now, l)
    /\ \A l \in node.start..node.end : Holds(now, l)

\* A span of its own.
LEMMA SpanAppended ==
    ASSUME NEW n \in Nat, NEW spans \in Seq(Span(n)), NEW node, IsNode(node, n)
    PROVE  KeepsRows(spans, Append(spans, <<node.start, node.end>>), node, n)
  <1> DEFINE new == <<node.start, node.end>>
             S == Span(n)
  <1>1. new \in S /\ new[1] = node.start /\ new[2] = node.end
    BY DEF IsNode, Span
  <1>2. spans \in Seq(S) /\ Len(spans) \in Nat
    OBVIOUS
  <1> HIDE DEF new, S
  <1> DEFINE now == Append(spans, new)
  <1>3. /\ now \in Seq(S) /\ Len(now) = Len(spans) + 1
        /\ now[Len(spans) + 1] = new
        /\ \A i \in 1..Len(spans) : now[i] = spans[i]
    BY <1>1, <1>2
  <1> HIDE DEF now
  <1>4. ASSUME NEW l \in Nat, Holds(spans, l) PROVE Holds(now, l)
    <2>1. PICK i \in 1..Len(spans) : l \in spans[i][1]..spans[i][2]
      BY <1>4 DEF Holds
    <2>2. i \in 1..Len(now) /\ now[i] = spans[i]
      BY <1>2, <1>3
    <2> QED
      BY <2>1, <2>2 DEF Holds
  <1>5. ASSUME NEW l \in node.start..node.end PROVE Holds(now, l)
    <2>1. Len(spans) + 1 \in 1..Len(now)
      BY <1>2, <1>3
    <2> QED
      BY <1>1, <1>3, <2>1 DEF Holds
  <1> QED
    BY <1>3, <1>4, <1>5 DEF KeepsRows, S, now, new

\* The last span made longer.
LEMMA SpanJoined ==
    ASSUME NEW n \in Nat, NEW spans \in Seq(Span(n)), NEW node, IsNode(node, n),
           spans # <<>>, Last(spans)[2] = node.start - 1
    PROVE  KeepsRows(spans, Append(Front(spans), <<Last(spans)[1], node.end>>), node, n)
  <1> DEFINE m == Len(spans)
             last == spans[m]
             new == <<last[1], node.end>>
             S == Span(n)
             front == SubSeq(spans, 1, m - 1)
             now == Append(front, new)
  <1>1. m \in Nat /\ m > 0 /\ last \in S /\ \A i \in 1..m : spans[i] \in S
    OBVIOUS
  <1>2. /\ last[1] \in 1..n /\ last[2] \in 1..n /\ last[1] <= last[2] /\ last[2] = node.start - 1
        /\ node.start \in 1..n /\ node.end \in 1..n /\ node.start <= node.end
    <2>1. last[2] = node.start - 1
      BY DEF Last
    <2> HIDE DEF last
    <2> QED
      BY <1>1, <2>1 DEF IsNode, Span
  <1>3. new \in S /\ new[1] = last[1] /\ new[2] = node.end
    <2> HIDE DEF last
    <2> QED
      BY <1>2 DEF Span
  <1>4. front \in Seq(S) /\ Len(front) = m - 1 /\ \A i \in 1..(m - 1) : front[i] = spans[i]
    BY BeforeTheLast
  <1> HIDE DEF new, S, front
  <1>5. /\ now \in Seq(S) /\ Len(now) = m
        /\ now[m] = new
        /\ \A i \in 1..(m - 1) : now[i] = spans[i]
    <2> HIDE DEF m
    <2>1. /\ now \in Seq(S) /\ Len(now) = Len(front) + 1
          /\ now[Len(front) + 1] = new
          /\ \A i \in 1..Len(front) : now[i] = front[i]
      BY <1>3, <1>4
    <2> HIDE DEF now
    <2> QED
      BY <1>1, <1>4, <2>1
  <1> HIDE DEF now
  <1>6. ASSUME NEW l \in Nat, Holds(spans, l) PROVE Holds(now, l)
    <2>1. PICK i \in 1..m : l \in spans[i][1]..spans[i][2]
      BY <1>6 DEF Holds
    <2>2. CASE i = m
      <3>1. l \in last[1]..last[2]
        BY <2>1, <2>2
      <3> HIDE DEF last
      <3>2. l \in now[m][1]..now[m][2]
        BY <1>2, <1>3, <1>5, <3>1
      <3>3. m \in 1..Len(now)
        BY <1>1, <1>5
      <3> QED
        BY <3>2, <3>3 DEF Holds
    <2>3. CASE i # m
      <3>1. i \in 1..(m - 1) /\ i \in 1..Len(now)
        BY <1>1, <1>5, <2>3
      <3>2. now[i] = spans[i]
        BY <1>5, <3>1
      <3> QED
        BY <2>1, <3>1, <3>2 DEF Holds
    <2> QED
      BY <2>2, <2>3
  <1>7. ASSUME NEW l \in node.start..node.end PROVE Holds(now, l)
    <2> HIDE DEF last
    <2>1. m \in 1..Len(now)
      BY <1>1, <1>5
    <2>2. l \in now[m][1]..now[m][2]
      BY <1>2, <1>3, <1>5
    <2> QED
      BY <2>1, <2>2 DEF Holds
  <1>8. now = Append(Front(spans), <<Last(spans)[1], node.end>>)
    BY DEF now, front, new, Front, Last
  <1> QED
    BY <1>5, <1>6, <1>7, <1>8 DEF KeepsRows, S

\* JoinSpan loses no row.
LEMMA JoinSpanKeeps ==
    ASSUME NEW n \in Nat, NEW spans \in Seq(Span(n)), NEW node, IsNode(node, n)
    PROVE  KeepsRows(spans, JoinSpan(spans, node), node, n)
  <1>1. CASE node.structural \/ spans = <<>> \/ Last(spans)[2] # node.start - 1
    BY <1>1, SpanAppended DEF JoinSpan
  <1>2. CASE ~(node.structural \/ spans = <<>> \/ Last(spans)[2] # node.start - 1)
    <2>1. spans # <<>> /\ Last(spans)[2] = node.start - 1
      BY <1>2
    <2>2. JoinSpan(spans, node) = Append(Front(spans), <<Last(spans)[1], node.end>>)
      BY <1>2 DEF JoinSpan
    <2> QED
      BY <2>1, <2>2, SpanJoined
  <1> QED
    BY <1>1, <1>2

\* The spans, node by node.
Joining == FoldLeft(JoinSpan, <<>>, children)
\* The steps of the fold.
IsJoining(g, n) ==
    /\ g \in [0..Len(children) -> Seq(Span(n))]
    /\ g[0] = <<>> /\ g[Len(children)] = Joining
    /\ \A k \in 1..Len(children) : g[k] = JoinSpan(g[k - 1], children[k])
\* The fold takes these steps.
LEMMA JoiningSteps ==
    ASSUME NEW n \in Nat, Len(children) \in Nat, DOMAIN children = 1..Len(children),
           \A k \in 1..Len(children) : IsNode(children[k], n)
    PROVE  \E g : IsJoining(g, n)
  <1> DEFINE m == Len(children)
             V == Seq(Span(n))
             body(f) == [t \in SUBSET DOMAIN children |->
                           IF t = {} THEN <<>> ELSE JoinSpan(f[t \ {Max(t)}], children[Max(t)])]
             f == CHOOSE h : h = body(h)
             F == [x \in V \X (1..m) |-> JoinSpan(x[1], children[x[2]])]
  <1>1. Joining = f[DOMAIN children]
    BY DEF Joining, FoldLeft, MapThenFoldSet
  <1>2. m \in Nat /\ DOMAIN children = 1..m /\ \A k \in 1..m : IsNode(children[k], n)
    OBVIOUS
  <1>3. \A v \in V : \A k \in 1..m : JoinSpan(v, children[k]) \in V
    <2> SUFFICES ASSUME NEW v \in V, NEW k \in 1..m PROVE JoinSpan(v, children[k]) \in V
      OBVIOUS
    <2>1. KeepsRows(v, JoinSpan(v, children[k]), children[k], n)
      BY <1>2, JoinSpanKeeps
    <2> QED
      BY <2>1 DEF KeepsRows
  <1>5. <<>> \in V
    OBVIOUS
  <1> HIDE DEF V
  <1>4. /\ F \in [V \X (1..m) -> V]
        /\ \A v \in V : \A k \in 1..m : F[<<v, k>>] = JoinSpan(v, children[k])
    <2> HIDE DEF m
    <2> QED
      BY <1>3
  <1> HIDE DEF F, m
  <1>6. \E h : h = body(h)
    <2>1. PICK h : FoldOf(V, <<>>, F, h, m)
      BY <1>2, <1>4, <1>5, FoldExists
    <2>2. ASSUME NEW t \in SUBSET (1..m)
          PROVE  h[t] = IF t = {} THEN <<>> ELSE JoinSpan(h[t \ {Max(t)}], children[Max(t)])
      <3>1. h[t] = IF t = {} THEN <<>> ELSE F[<<h[t \ {Max(t)}], Max(t)>>]
        BY <2>1 DEF FoldOf
      <3>2. t # {} => Max(t) \in 1..m
        BY <1>2, GreatestIs
      <3>3. t \ {Max(t)} \in SUBSET (1..m) /\ h \in [SUBSET (1..m) -> V]
        BY <2>1 DEF FoldOf
      <3>4. h[t \ {Max(t)}] \in V
        BY <3>3
      <3> QED
        BY <1>4, <3>1, <3>2, <3>4
    <2>3. h \in [SUBSET DOMAIN children -> V]
      BY <1>2, <2>1 DEF FoldOf
    <2>4. h = body(h)
      BY <1>2, <2>2, <2>3
    <2> QED
      BY <2>4
  <1>7. f = body(f)
    BY <1>6
  <1> HIDE DEF f
  <1>8. Unfolds(V, <<>>, F, m, f)
    <2> SUFFICES ASSUME NEW t \in SUBSET (1..m)
                 PROVE  IF t = {} THEN f[t] = <<>>
                        ELSE f[t \ {Max(t)}] \in V => f[t] = F[<<f[t \ {Max(t)}], Max(t)>>]
      BY DEF Unfolds
    <2>1. f[t] = IF t = {} THEN <<>> ELSE JoinSpan(f[t \ {Max(t)}], children[Max(t)])
      BY <1>2, <1>7
    <2>2. t # {} => Max(t) \in 1..m
      BY <1>2, GreatestIs
    <2> QED
      BY <1>4, <2>1, <2>2
  <1> DEFINE g == StepsOf(f, m)
  <1>9. Chain(V, <<>>, F, m, g)
    <2>1. m \in Nat /\ F \in [V \X (1..m) -> V]
      BY <1>2, <1>4
    <2> QED
      BY <1>5, <1>8, <2>1, FoldIsChain
  <1>10. g[m] = Joining
    BY <1>1, <1>2 DEF StepsOf
  <1> HIDE DEF g
  <1>11. \A k \in 1..m : k - 1 \in 0..m
    BY <1>2
  <1>12. /\ g \in [0..m -> V] /\ g[0] = <<>>
         /\ \A k \in 1..m : g[k] = F[<<g[k - 1], k>>]
    BY <1>9 DEF Chain
  <1>13. \A k \in 1..m : g[k] = JoinSpan(g[k - 1], children[k])
    BY <1>4, <1>11, <1>12
  <1> QED
    BY <1>10, <1>12, <1>13 DEF IsJoining, m, V

\* Every row of a node is in some span.
LEMMA JoiningHolds ==
    ASSUME NEW n \in Nat, NEW g, IsJoining(g, n), Len(children) \in Nat,
           \A k \in 1..Len(children) : IsNode(children[k], n)
    PROVE  /\ Joining \in Seq(Span(n))
           /\ \A i \in 1..Len(children) :
                  \A l \in children[i].start..children[i].end : Holds(Joining, l)
  <1> DEFINE m == Len(children)
  <1>1. m \in Nat /\ m \in 0..m
    OBVIOUS
  <1>2. ASSUME NEW k \in 1..m
        PROVE  KeepsRows(g[k - 1], g[k], children[k], n)
    <2>1. k - 1 \in 0..m
      BY <1>1
    <2>2. g[k - 1] \in Seq(Span(n)) /\ g[k] = JoinSpan(g[k - 1], children[k])
      BY <2>1 DEF IsJoining
    <2> QED
      BY <2>2, JoinSpanKeeps
  <1>3. Joining \in Seq(Span(n)) /\ g[m] = Joining
    BY <1>1 DEF IsJoining
  <1>4. SUFFICES ASSUME NEW i \in 1..m, NEW l \in children[i].start..children[i].end
                 PROVE  Holds(g[m], l)
    BY <1>3
  <1>5. l \in Nat
    BY DEF IsNode
  <1>6. Holds(g[i], l)
    BY <1>2 DEF KeepsRows
  <1> HIDE DEF m
  <1> DEFINE T == {k \in Nat : k < i \/ k > m \/ Holds(g[k], l)}
  <1>7. Nat \subseteq T
    <2> SUFFICES ASSUME NEW k \in Nat, k \notin T, k = 0 \/ k - 1 \in T PROVE FALSE
      <3> HIDE DEF T
      <3> QED
        BY FirstMissing
    <2>1. k \in 1..m /\ k > i /\ k - 1 \in T
      BY <1>1, <1>6
    <2>2. Holds(g[k - 1], l)
      BY <1>1, <2>1
    <2>3. KeepsRows(g[k - 1], g[k], children[k], n)
      BY <1>2, <2>1
    <2>4. Holds(g[k], l)
      BY <1>5, <2>2, <2>3 DEF KeepsRows
    <2> QED
      BY <2>4
  <1> QED
    BY <1>1, <1>7

-----------------------------------------------------------------------------
\* A line of the text.
TextLine == [blank : BOOLEAN, eol : Eols]
\* The lines of each row.
RowLines(fileRows) ==
    [k \in 1..Len(fileRows) |->
        [p \in 1..fileRows[k].parts |-> [blank |-> fileRows[k].blank, eol |-> fileRows[k].eol]]]

\* They are sequences of lines.
LEMMA RowLinesType ==
    ASSUME NEW fileRows \in Seq(Row)
    PROVE  /\ RowLines(fileRows) \in Seq(Seq(TextLine)) /\ Len(RowLines(fileRows)) = Len(fileRows)
           /\ \A k \in 1..Len(fileRows) : /\ Len(RowLines(fileRows)[k]) = fileRows[k].parts
                                          /\ fileRows[k].parts \in Nat \ {0}
           /\ SplitLines(fileRows) = FlattenSeq(RowLines(fileRows))
  <1> DEFINE n == Len(fileRows)
             lines(k) == [p \in 1..fileRows[k].parts |->
                            [blank |-> fileRows[k].blank, eol |-> fileRows[k].eol]]
  <1>1. n \in Nat
    OBVIOUS
  <1>2. ASSUME NEW k \in 1..n
        PROVE  /\ fileRows[k].parts \in Nat \ {0}
               /\ [blank |-> fileRows[k].blank, eol |-> fileRows[k].eol] \in TextLine
    <2>1. fileRows[k] \in Row
      OBVIOUS
    <2>2. MaxParts \in Nat
      BY ChunkingAssumption
    <2> QED
      BY <2>1, <2>2 DEF Row, TextLine
  <1>3. ASSUME NEW k \in 1..n PROVE lines(k) \in Seq(TextLine) /\ Len(lines(k)) = fileRows[k].parts
    <2> DEFINE parts == fileRows[k].parts
               line == [blank |-> fileRows[k].blank, eol |-> fileRows[k].eol]
    <2>1. parts \in Nat /\ line \in TextLine
      BY <1>2
    <2> HIDE DEF parts, line
    <2>2. [p \in 1..parts |-> line] \in Seq(TextLine) /\ Len([p \in 1..parts |-> line]) = parts
      BY <2>1
    <2> QED
      BY <2>2 DEF parts, line
  <1>4. RowLines(fileRows) = [k \in 1..n |-> lines(k)]
    BY DEF RowLines
  <1> HIDE DEF lines, n
  <1>5. [k \in 1..n |-> lines(k)] \in Seq(Seq(TextLine)) /\ Len([k \in 1..n |-> lines(k)]) = n
    BY <1>1, <1>3
  <1>6. SplitLines(fileRows) = FlattenSeq(RowLines(fileRows))
    BY DEF SplitLines, RowLines
  <1> QED
    BY <1>2, <1>3, <1>4, <1>5, <1>6 DEF n

\* The number of the last line of every row.
IsNumbering(g) ==
    /\ g \in [0..Len(rows) -> Nat] /\ g[0] = 0 /\ g[Len(rows)] = Len(Decoded)
    /\ \A k \in 1..Len(rows) : g[k] = g[k - 1] + rows[k].parts
    /\ \A k \in 1..Len(rows) : FirstLine(k) = g[k - 1] + 1

\* The lines are numbered row by row.
LEMMA NumberingExists ==
    ASSUME rows \in Seq(Row)
    PROVE  /\ Decoded \in Seq(TextLine) /\ (\E g : IsNumbering(g))
           /\ \A k \in 1..Len(rows) : rows[k].parts \in Nat \ {0}
  <1> DEFINE n == Len(rows)
             seqs == RowLines(rows)
  <1>1. /\ seqs \in Seq(Seq(TextLine)) /\ Len(seqs) = n /\ Decoded = FlattenSeq(seqs)
        /\ \A k \in 1..n : Len(seqs[k]) = rows[k].parts /\ rows[k].parts \in Nat \ {0}
    BY RowLinesType DEF Decoded
  <1>2. n \in Nat
    OBVIOUS
  <1>3. ASSUME NEW k \in 1..n
        PROVE  /\ SubSeq(rows, 1, k - 1) \in Seq(Row) /\ Len(SubSeq(rows, 1, k - 1)) = k - 1
               /\ \A i \in 1..(k - 1) : SubSeq(rows, 1, k - 1)[i] = rows[i]
    <2>1. k - 1 \in Nat /\ \A i \in 1..(k - 1) : rows[i] \in Row
      OBVIOUS
    <2> DEFINE j == k - 1
    <2> HIDE DEF j
    <2>2. j \in Nat /\ \A i \in 1..j : rows[i] \in Row
      BY <2>1 DEF j
    <2>3. /\ SubSeq(rows, 1, j) \in Seq(Row)
          /\ Len(SubSeq(rows, 1, j)) = (IF 1 <= j THEN j - 1 + 1 ELSE 0)
          /\ \A i \in 1..(j - 1 + 1) : SubSeq(rows, 1, j)[i] = rows[1 + i - 1]
      BY <2>2, SubSeqProperties
    <2> DEFINE first == SubSeq(rows, 1, j)
    <2> HIDE DEF first
    <2>4. first \in Seq(Row) /\ Len(first) = j /\ \A i \in 1..j : first[i] = rows[i]
      BY <2>2, <2>3 DEF first
    <2> QED
      BY <2>4 DEF first, j
  <1>4. PICK h : IsFlattening(h, TextLine, seqs)
    BY <1>1, FlattenIs
  <1> DEFINE g == [k \in 0..n |-> Len(h[k])]
  <1>5. ASSUME NEW k \in 1..n PROVE FirstLine(k) = g[k - 1] + 1
    <2> DEFINE first == SubSeq(rows, 1, k - 1)
               t == RowLines(first)
    <2>1. first \in Seq(Row) /\ Len(first) = k - 1 /\ \A i \in 1..(k - 1) : first[i] = rows[i]
      BY <1>3
    <2>2. FirstLine(k) = Len(SplitLines(first)) + 1
      BY DEF FirstLine
    <2> HIDE DEF first
    <2>3. t \in Seq(Seq(TextLine)) /\ Len(t) = k - 1 /\ SplitLines(first) = FlattenSeq(t)
      BY <2>1, RowLinesType
    <2>4. \A i \in 1..(k - 1) : t[i] = seqs[i]
      <3> SUFFICES ASSUME NEW i \in 1..(k - 1) PROVE t[i] = seqs[i]
        OBVIOUS
      <3>1. i \in 1..Len(first) /\ i \in 1..Len(rows)
        BY <1>2, <2>1
      <3>2. first[i] = rows[i]
        BY <2>1
      <3> QED
        BY <3>1, <3>2 DEF RowLines
    <2> HIDE DEF t, seqs
    <2>5. Begins(t, seqs)
      BY <1>1, <1>2, <2>3, <2>4 DEF Begins
    <2>6. FlattenSeq(t) = h[Len(t)]
      <3>1. /\ t \in Seq(Seq(TextLine)) /\ seqs \in Seq(Seq(TextLine))
            /\ IsFlattening(h, TextLine, seqs)
        BY <1>1, <1>4, <2>3
      <3> DEFINE V == TextLine
      <3> HIDE DEF V
      <3>2. t \in Seq(Seq(V)) /\ seqs \in Seq(Seq(V)) /\ IsFlattening(h, V, seqs)
        BY <3>1 DEF V
      <3> QED
        BY <2>5, <3>2, FlattenPrefix
    <2>7. k - 1 \in 0..n
      BY <1>2
    <2>8. g[k - 1] = Len(h[k - 1])
      BY <2>7
    <2> QED
      BY <2>2, <2>3, <2>6, <2>8
  <1> HIDE DEF seqs, n
  <1>6. \A k \in 0..n : h[k] \in Seq(TextLine)
    BY <1>1, <1>4 DEF IsFlattening
  <1>7. g \in [0..n -> Nat]
    BY <1>6
  <1>8. h[0] = <<>> /\ h[n] = Decoded
    BY <1>1, <1>4 DEF IsFlattening
  <1>9. g[0] = 0 /\ g[n] = Len(Decoded) /\ Decoded \in Seq(TextLine)
    <2>1. 0 \in 0..n /\ n \in 0..n
      BY <1>2
    <2> QED
      BY <1>6, <1>8, <2>1
  <1>10. ASSUME NEW k \in 1..n PROVE g[k] = g[k - 1] + rows[k].parts
    <2>1. k \in 0..n /\ k - 1 \in 0..n /\ k \in 1..Len(seqs)
      BY <1>1, <1>2
    <2>2. Grows(h, TextLine, seqs, k)
      BY <1>1, <1>4, <2>1, FlatGrows
    <2>3. Len(h[k]) = Len(h[k - 1]) + Len(seqs[k])
      BY <2>2 DEF Grows
    <2> QED
      BY <1>1, <2>1, <2>3
  <1> HIDE DEF g
  <1>11. IsNumbering(g)
    BY <1>5, <1>7, <1>9, <1>10 DEF IsNumbering, n
  <1> QED
    BY <1>1, <1>9, <1>11 DEF n

\* A line of a row is a line of the file, and the same number when each row
\* is one line.
LEMMA LinesOfRow ==
    ASSUME rows \in Seq(Row), NEW k \in 1..Len(rows), NEW l \in LinesOf(k)
    PROVE  /\ Decoded \in Seq(TextLine) /\ l \in 1..Len(Decoded)
           /\ (\A i \in 1..Len(rows) : rows[i].parts = 1) => l = k /\ Len(Decoded) = Len(rows)
  <1> DEFINE n == Len(rows)
  <1>1. n \in Nat /\ k \in 1..n
    OBVIOUS
  <1>2. /\ Decoded \in Seq(TextLine) /\ \E g : IsNumbering(g)
        /\ \A i \in 1..n : rows[i].parts \in Nat \ {0}
    BY NumberingExists
  <1>3. PICK g : IsNumbering(g)
    BY <1>2
  <1>4. /\ g \in [0..n -> Nat] /\ g[0] = 0 /\ g[n] = Len(Decoded)
        /\ \A i \in 1..n : g[i] = g[i - 1] + rows[i].parts
    BY <1>3 DEF IsNumbering
  <1>5. FirstLine(k) = g[k - 1] + 1
    BY <1>3 DEF IsNumbering
  <1> HIDE DEF n
  <1>6. /\ k - 1 \in 0..n /\ g[k - 1] \in Nat /\ rows[k].parts \in Nat
    BY <1>1, <1>2, <1>4
  <1>7. l \in Nat /\ l >= g[k - 1] + 1 /\ l <= g[k]
    <2>1. l \in FirstLine(k)..(FirstLine(k) + rows[k].parts - 1)
      BY DEF LinesOf
    <2>2. g[k] = g[k - 1] + rows[k].parts
      BY <1>1, <1>4
    <2> DEFINE first == FirstLine(k)
               parts == rows[k].parts
    <2>3. l \in first..(first + parts - 1) /\ first = g[k - 1] + 1 /\ g[k] = g[k - 1] + parts
      BY <1>5, <2>1, <2>2
    <2>4. g[k - 1] \in Nat /\ parts \in Nat
      BY <1>6
    <2> HIDE DEF first, parts
    <2> QED
      BY <2>3, <2>4
  <1> DEFINE T == {i \in Nat : i < k \/ i > n \/ g[k] <= g[i]}
  <1>8. Nat \subseteq T
    <2> SUFFICES ASSUME NEW i \in Nat, i \notin T, i = 0 \/ i - 1 \in T PROVE FALSE
      <3> HIDE DEF T
      <3> QED
        BY FirstMissing
    <2>1. g[k] \in Nat
      BY <1>1, <1>4
    <2>2. i \in 1..n /\ i > k /\ i - 1 \in T /\ i - 1 \in 0..n /\ i \in 0..n
      BY <1>1, <2>1
    <2>3. g[k] <= g[i - 1]
      BY <1>1, <2>2
    <2>4. /\ g[i] = g[i - 1] + rows[i].parts /\ rows[i].parts \in Nat
          /\ g[i - 1] \in Nat /\ g[i] \in Nat
      BY <1>2, <1>4, <2>2
    <2>5. g[k] <= g[i]
      BY <2>1, <2>3, <2>4
    <2> QED
      BY <2>5
  <1>9. g[k] <= g[n]
    BY <1>1, <1>8
  <1>10. g[k] \in Nat /\ g[n] \in Nat
    BY <1>1, <1>4
  <1>11. l \in 1..Len(Decoded)
    BY <1>4, <1>6, <1>7, <1>9, <1>10
  <1>12. ASSUME \A i \in 1..n : rows[i].parts = 1
         PROVE  l = k /\ Len(Decoded) = n
    <2> DEFINE U == {i \in Nat : i > n \/ g[i] = i}
    <2>1. Nat \subseteq U
      <3> SUFFICES ASSUME NEW i \in Nat, i \notin U, i = 0 \/ i - 1 \in U PROVE FALSE
        <4> HIDE DEF U
        <4> QED
          BY FirstMissing
      <3>1. i # 0
        BY <1>4
      <3>2. i \in 1..n /\ i - 1 \in U
        BY <1>1, <3>1
      <3>3. g[i - 1] = i - 1
        BY <1>1, <3>2
      <3>4. g[i] = g[i - 1] + 1
        BY <1>4, <1>12, <3>2
      <3> QED
        BY <3>2, <3>3, <3>4
    <2>2. g[n] = n /\ g[k] = k /\ g[k - 1] = k - 1
      BY <1>1, <2>1
    <2> QED
      BY <1>1, <1>4, <1>7, <2>2
  <1> QED
    BY <1>2, <1>11, <1>12 DEF n

-----------------------------------------------------------------------------
\* Some chunk holds the line.
InAChunk(file, l) == \E i \in 1..Len(file) : l \in file[i].start..file[i].end

\* Chunks made of ranges hold what the ranges hold.
LEMMA ChunksOfRanges ==
    ASSUME NEW lines, NEW ranges \in Seq(Ranges), NEW file,
           file = [k \in 1..Len(ranges) |-> NewChunk(lines, ranges[k][1], ranges[k][2])],
           NEW l, Holds(ranges, l)
    PROVE  InAChunk(file, l)
  <1>1. PICK i \in 1..Len(ranges) : l \in ranges[i][1]..ranges[i][2]
    BY DEF Holds
  <1>2. Len(ranges) \in Nat
    OBVIOUS
  <1>3. DOMAIN file = 1..Len(ranges)
    OBVIOUS
  <1>4. Len(file) = Len(ranges)
    BY <1>2, <1>3
  <1>5. file[i] = NewChunk(lines, ranges[i][1], ranges[i][2])
    BY <1>1
  <1>6. file[i].start = ranges[i][1] /\ file[i].end = ranges[i][2]
    BY <1>5 DEF NewChunk
  <1> QED
    BY <1>1, <1>4, <1>6 DEF InAChunk

\* The linear chunker holds every line.
LEMMA LinearHolds ==
    ASSUME WindowOK, rows # <<>>, Decoded \in Seq(TextLine), NEW l \in 1..Len(Decoded)
    PROVE  InAChunk(ChunkFileLinear, l)
  <1> DEFINE n == Len(Decoded)
             ranges == Windows(1, n)
  <1>1. n \in Nat /\ 1 \in Nat /\ 1 <= n
    OBVIOUS
  <1>2. Len(ReadText) = n
    BY <1>1 DEF ReadText
  <1> HIDE DEF n
  <1>3. ranges \in Seq(Ranges) /\ Holds(ranges, l)
    BY <1>1, WindowsAre DEF n
  <1>4. ChunkFileLinear = [k \in 1..Len(ranges) |-> NewChunk(ReadText, ranges[k][1], ranges[k][2])]
    BY <1>2 DEF ChunkFileLinear
  <1> HIDE DEF ranges
  <1> QED
    BY <1>3, <1>4, ChunksOfRanges

\* The spans of a file with nodes, or of one without.
LEMMA SpansHold ==
    ASSUME NEW n \in Nat \ {0}, children \in Seq(Child), rows \in Seq(Row), Len(rows) = n,
           ParseTree(rows, children), NEW k \in 1..n, ~rows[k].blank
    PROVE  Spans(n) \in Seq(Span(n)) /\ Holds(Spans(n), k)
  <1> DEFINE m == Len(children)
  <1>1. m \in Nat /\ DOMAIN children = 1..m /\ \A i \in 1..m : children[i] \in Child
    OBVIOUS
  <1>2. ASSUME NEW i \in 1..m PROVE IsNode(children[i], n)
    <2>1. children[i] \in Child /\ children[i].end <= n
      BY <1>1 DEF ParseTree
    <2>2. MaxRows \in Nat
      BY ChunkingAssumption
    <2> QED
      BY <2>1, <2>2 DEF Child, IsNode
  <1>3. PICK g : IsJoining(g, n)
    BY <1>1, <1>2, JoiningSteps
  <1>4. /\ Joining \in Seq(Span(n))
        /\ \A i \in 1..m : \A l \in children[i].start..children[i].end : Holds(Joining, l)
    BY <1>1, <1>2, <1>3, JoiningHolds
  <1>5. PICK i \in 1..m : k \in children[i].start..children[i].end
    BY DEF ParseTree
  <1>6. Holds(Joining, k)
    BY <1>4, <1>5
  <1>7. Joining # <<>>
    BY <1>6 DEF Holds
  <1>8. Spans(n) = Joining
    BY <1>7 DEF Spans, Joining
  <1> QED
    BY <1>4, <1>6, <1>8

\* The AST chunker holds every row that is not blank, when the rows are the
\* lines.
LEMMA AstHolds ==
    ASSUME WindowOK, children \in Seq(Child), rows \in Seq(Row), ParseTree(rows, children),
           Len(Decoded) = Len(rows), NEW l \in 1..Len(rows), ~rows[l].blank
    PROVE  InAChunk(ChunkFileAst, l)
  <1> DEFINE n == Len(rows)
             spans == Spans(n)
             seqs == [k \in 1..Len(spans) |-> Windows(spans[k][1], Smaller(spans[k][2], n))]
             ranges == FlattenSeq(seqs)
  <1>1. n \in Nat \ {0} /\ rows # <<>>
    OBVIOUS
  <1>2. spans \in Seq(Span(n)) /\ Holds(spans, l)
    BY <1>1, SpansHold
  <1>3. ChunkFileAst = [k \in 1..Len(ranges) |-> NewChunk(Decoded, ranges[k][1], ranges[k][2])]
    BY <1>1 DEF ChunkFileAst
  <1> HIDE DEF n, spans
  <1>4. Len(spans) \in Nat /\ \A k \in 1..Len(spans) : spans[k] \in Span(n)
    BY <1>2
  <1>5. ASSUME NEW k \in 1..Len(spans)
        PROVE  /\ Smaller(spans[k][2], n) = spans[k][2]
               /\ Windows(spans[k][1], Smaller(spans[k][2], n)) \in Seq(Ranges)
               /\ \A i \in spans[k][1]..spans[k][2] :
                      Holds(Windows(spans[k][1], Smaller(spans[k][2], n)), i)
    <2> DEFINE first == spans[k][1]
               last == spans[k][2]
    <2>1. first \in Nat /\ last \in Nat /\ first <= last /\ last <= n
      BY <1>1, <1>4 DEF Span
    <2> HIDE DEF first, last
    <2>2. Smaller(last, n) = last
      BY <2>1 DEF Smaller
    <2>3. /\ Windows(first, last) \in Seq(Ranges)
          /\ \A i \in first..last : Holds(Windows(first, last), i)
      BY <2>1, WindowsAre
    <2> QED
      BY <2>2, <2>3 DEF first, last
  <1>6. seqs \in Seq(Seq(Ranges)) /\ Len(seqs) = Len(spans)
    <2> DEFINE m == Len(spans)
               W(k) == Windows(spans[k][1], Smaller(spans[k][2], n))
    <2>1. m \in Nat /\ \A k \in 1..m : W(k) \in Seq(Ranges)
      BY <1>4, <1>5
    <2> HIDE DEF m, W
    <2>2. [k \in 1..m |-> W(k)] \in Seq(Seq(Ranges)) /\ Len([k \in 1..m |-> W(k)]) = m
      BY <2>1
    <2> QED
      BY <2>2 DEF m, W
  <1>7. PICK k \in 1..Len(spans) : l \in spans[k][1]..spans[k][2]
    BY <1>2 DEF Holds
  <1>8. seqs[k] = Windows(spans[k][1], Smaller(spans[k][2], n)) /\ k \in 1..Len(seqs)
    BY <1>6, <1>7
  <1>9. PICK i \in 1..Len(seqs[k]) : l \in seqs[k][i][1]..seqs[k][i][2]
    BY <1>5, <1>7, <1>8 DEF Holds
  <1> HIDE DEF seqs
  <1>10. PICK j \in 1..Len(ranges) : ranges[j] = seqs[k][i]
    BY <1>6, <1>8, <1>9, FlattenHas
  <1>11. ranges \in Seq(Ranges)
    <2>1. PICK g : IsFlattening(g, Ranges, seqs)
      BY <1>6, FlattenIs
    <2>2. Len(seqs) \in 0..Len(seqs)
      BY <1>4, <1>6
    <2> QED
      BY <2>1, <2>2 DEF IsFlattening
  <1> HIDE DEF ranges
  <1>12. Holds(ranges, l)
    BY <1>9, <1>10 DEF Holds
  <1> QED
    BY <1>3, <1>11, <1>12, ChunksOfRanges

-----------------------------------------------------------------------------
\* The file as it is found.
FileOK ==
    /\ rows \in Seq(Row) /\ children \in Seq(Child) /\ ParseTree(rows, children) /\ WindowOK
\* splitlines() and the parser agree on what a line is.
RowsAreLines == \A k \in Rows : rows[k].parts = 1
\* The invariant of chunking.
ChunkInv == FileOK /\ ((RowsAreLines \/ ~parsed) => EveryLineIsChunked)

\* Sequences of bounded length are sequences.
LEMMA BoundedAreSequences == ASSUME NEW S, NEW n \in Nat, NEW s \in SeqOf(S, n) PROVE s \in Seq(S)
  <1>1. PICK m \in 0..n : s \in [1..m -> S]
    BY DEF SeqOf
  <1>2. m \in Nat
    OBVIOUS
  <1> QED
    BY <1>1, <1>2

\* The first state.
LEMMA ChunkInit == ChunkingInit => ChunkInv
  <1> SUFFICES ASSUME ChunkingInit PROVE ChunkInv
    OBVIOUS
  <1>1. MaxRows \in Nat /\ MaxChildren \in Nat /\ MaxSize \in Nat
    BY ChunkingAssumption
  <1>2. rows \in Seq(Row) /\ children \in Seq(Child)
    BY <1>1, BoundedAreSequences DEF ChunkingInit
  <1>3. WindowOK
    BY <1>1 DEF ChunkingInit, WindowOK
  <1>4. stage = "discovered" /\ ParseTree(rows, children)
    BY DEF ChunkingInit
  <1> QED
    BY <1>2, <1>3, <1>4 DEF ChunkInv, FileOK, EveryLineIsChunked, Chunked

\* What BuildChunkMap makes holds every line with text.
LEMMA BuildChunkMapHolds ==
    ASSUME FileOK, RowsAreLines \/ ~parsed, BuildChunkMap
    PROVE  EveryLineIsChunked'
  <1> SUFFICES ASSUME NEW k \in Rows, ~rows[k].blank, NEW l \in LinesOf(k)
               PROVE  InAChunk(chunks', l)
    <2>1. rows' = rows
      BY DEF BuildChunkMap
    <2>2. EveryLineIsChunked' = (Chunked' => \A k \in Rows : ~rows[k].blank =>
             \A l \in LinesOf(k) : InAChunk(chunks', l))
      BY <2>1 DEF EveryLineIsChunked, Rows, LinesOf, FirstLine, InAChunk
    <2> QED
      BY <2>2
  <1>1. rows \in Seq(Row) /\ children \in Seq(Child) /\ ParseTree(rows, children) /\ WindowOK
    BY DEF FileOK
  <1>2. k \in 1..Len(rows)
    BY DEF Rows
  <1>3. /\ Decoded \in Seq(TextLine) /\ l \in 1..Len(Decoded)
        /\ (\A i \in 1..Len(rows) : rows[i].parts = 1) => l = k /\ Len(Decoded) = Len(rows)
    BY <1>1, <1>2, LinesOfRow
  <1>4. rows # <<>>
    BY <1>2
  <1>5. CASE parsed
    <2>1. l = k /\ Len(Decoded) = Len(rows)
      BY <1>3, <1>5 DEF RowsAreLines, Rows
    <2>2. InAChunk(ChunkFileAst, l)
      BY <1>1, <1>2, <2>1, AstHolds
    <2>3. chunks' = ChunkFileAst
      BY <1>5 DEF BuildChunkMap
    <2> QED
      BY <2>2, <2>3
  <1>6. CASE ~parsed
    <2>1. InAChunk(ChunkFileLinear, l)
      BY <1>1, <1>3, <1>4, LinearHolds
    <2>2. chunks' = ChunkFileLinear
      BY <1>6 DEF BuildChunkMap
    <2> QED
      BY <2>1, <2>2
  <1> QED
    BY <1>5, <1>6

\* Every step keeps the invariant.
LEMMA ChunkStep == ChunkInv /\ [ChunkingNext]_ChunkingVars => ChunkInv'
  <1> SUFFICES ASSUME ChunkInv, [ChunkingNext]_ChunkingVars PROVE ChunkInv'
    OBVIOUS
  <1> USE DEF ChunkInv
  <1>1. FileOK' /\ (RowsAreLines' <=> RowsAreLines) /\ parsed' = parsed
    <2>1. rows' = rows /\ children' = children /\ parsed' = parsed /\ window' = window
      BY DEF ChunkingNext, BuildChunkMap, MapChunks, Embed, ChunkingDone, ChunkingVars
    <2> QED
      BY <2>1 DEF FileOK, RowsAreLines, Rows, ParseTree, WindowOK
  <1>2. CASE BuildChunkMap
    BY <1>1, <1>2, BuildChunkMapHolds
  <1>3. ASSUME UNCHANGED <<rows, chunks>>, Chunked' => Chunked PROVE ChunkInv'
    BY <1>1, <1>3 DEF EveryLineIsChunked, Rows, LinesOf, FirstLine
  <1>4. CASE MapChunks
    BY <1>3, <1>4 DEF MapChunks, Chunked
  <1>5. CASE Embed
    BY <1>3, <1>5 DEF Embed, Chunked
  <1>6. CASE ChunkingDone
    BY <1>3, <1>6 DEF ChunkingDone, ChunkingVars, Chunked
  <1>7. CASE UNCHANGED ChunkingVars
    BY <1>3, <1>7 DEF ChunkingVars, Chunked
  <1> QED
    BY <1>2, <1>4, <1>5, <1>6, <1>7 DEF ChunkingNext

\* No line with text is lost between two chunks, in files of any length with any
\* parse tree, window and overlap: by the linear chunker always, by the AST chunker
\* when splitlines() and the parser agree on the lines.
THEOREM EveryLineChunked ==
    ChunkingSpec => []((RowsAreLines \/ ~parsed) => EveryLineIsChunked)
  <1>1. ChunkInv => ((RowsAreLines \/ ~parsed) => EveryLineIsChunked)
    BY DEF ChunkInv
  <1> QED
    BY <1>1, ChunkInit, ChunkStep, PTL DEF ChunkingSpec

=============================================================================
