---------------------------- MODULE HybridMerge -----------------------------
(***************************************************************************)
(* GraphSearcher.search after retrieval, and the merge of multi_search:    *)
(* the fusion of dense and sparse rankings, the results the graph adds,    *)
(* the removal of overlapping chunks, and the ranking over two indexes.    *)
(* Distances, relevances and weights are in thousandths.                   *)
(***************************************************************************)
EXTENDS Integers, Sequences, FiniteSets, SequencesExt, FiniteSetsExt, Sorting

CONSTANTS
    Chunks,     \* the chunks of the index: file, start, end, and test: under tests or docs
    Distances,  \* the distances a dense hit can have
    SparseLists,\* the answers of the sparse retriever: chunk and score, the best first
    Weights,    \* the weights a graph path can have
    MaxHits,    \* bound: sparse hits and chunks the graph adds
    Others,     \* what the search of the other index may return
    PerGraph,   \* n_results_per_graph: the top_k of one index
    TopK,       \* top_k of the merged response
    None

ASSUME MergeConstantAssumption ==
    /\ Distances \subseteq 0..2000 /\ Weights \subseteq Nat /\ MaxHits \in Nat
    /\ \A c \in Chunks : c.test \in BOOLEAN
    /\ SparseLists \subseteq Seq(Chunks \X Nat)
    /\ \A s \in SparseLists : \A i \in 1..Len(s) :
          /\ s[i][2] > 0 /\ (i > 1 => s[i - 1][2] >= s[i][2])
          /\ \A j \in 1..Len(s) : i # j => s[i][1] # s[j][1]
    /\ PerGraph \in Nat \ {0} /\ TopK \in Nat \ {0}

VARIABLES
    phase,    \* the next step of the search
    dense,    \* the dense hits: chunk and distance, the nearest first
    sparse,   \* the sparse hits: chunk and score, the best first
    results,  \* by_hash: the results so far, in order
    dropped,  \* the results _deduplicate_overlapping removed
    hits      \* vector_hits of the response

MergeVars == <<phase, dense, sparse, results, dropped, hits>>

Hits(max, values) ==
    {s \in UNION {[1..k -> Chunks \X values] : k \in 0..max} :
        \A i, j \in DOMAIN s : i # j => s[i][1] # s[j][1]}

MergeInit ==
    /\ dense \in {s \in Hits(PerGraph, Distances) : \A i \in 2..Len(s) : s[i - 1][2] <= s[i][2]}
    /\ sparse \in SparseLists
    /\ phase = "fuse" /\ results = <<>> /\ dropped = <<>> /\ hits = 0

ChunkOf(hit) == hit[1]
ChunksIn(seq) == {ChunkOf(seq[i]) : i \in DOMAIN seq}
Lesser(a, b) == IF a < b THEN a ELSE b
Greater(a, b) == IF a < b THEN b ELSE a
FirstOf(seq, n) == SubSeq(seq, 1, Lesser(n, Len(seq)))
Result(chunk, provenance, distance, weight) ==
    [chunk |-> chunk, provenance |-> provenance, distance |-> distance, weight |-> weight]

-----------------------------------------------------------------------------
(* Reciprocal rank fusion: 0.6 / (rank + 60) and 0.4 / (rank + 60), with   *)
(* ranks from 0, as integers.                                              *)

Common == 60 * 61 * 62 * 63
Reciprocal(seq, chunk, share) ==
    LET ranks == {i - 1 : i \in {j \in DOMAIN seq : ChunkOf(seq[j]) = chunk}}
    IN SumSet({(share * Common) \div (rank + 60) : rank \in ranks})
RrfScore(chunk) == Reciprocal(dense, chunk, 6) + Reciprocal(sparse, chunk, 4)

Unseen(seq, more) == {i \in DOMAIN more : ChunkOf(more[i]) \notin ChunksIn(seq)}
Extended(seq, more) == seq \o Only(more, Unseen(seq, more))

\* sorted(): equal scores stay in the order of insertion, dense before sparse.
Inserted == Extended(dense, sparse)
ByRrf ==
    LET before(i, j) == \/ RrfScore(ChunkOf(Inserted[i])) > RrfScore(ChunkOf(Inserted[j]))
                        \/ /\ RrfScore(ChunkOf(Inserted[i])) = RrfScore(ChunkOf(Inserted[j]))
                           /\ i < j
    IN At(Inserted, Sorted(DOMAIN Inserted, before))

NotTests(seq) == Only(seq, {i \in DOMAIN seq : ~ChunkOf(seq[i]).test})
\* Mutant: the cut comes before the filter: tests crowd the sources out.
CandidatesCut ==
    Extended(Extended(FirstOf(ByRrf, PerGraph), FirstOf(sparse, PerGraph)),
             NotTests(FirstOf(sparse, PerGraph)))
Candidates ==
    Extended(Extended(FirstOf(ByRrf, PerGraph), FirstOf(sparse, PerGraph)),
             FirstOf(NotTests(sparse), PerGraph))

ValueIn(seq, chunk) == (CHOOSE h \in Range(seq) : ChunkOf(h) = chunk)[2]
SparseDistance(score) ==
    LET best == Max({h[2] : h \in Range(sparse)})
    IN Greater(50, Lesser(950, 1000 - (1000 * score) \div best))
VectorResult(chunk) == Result(chunk, "vector", ValueIn(dense, chunk), None)
MakeResult(hit) ==
    LET chunk == ChunkOf(hit)
    IN IF chunk \in ChunksIn(dense) THEN VectorResult(chunk)
       ELSE Result(chunk, "sparse", SparseDistance(ValueIn(sparse, chunk)), None)

Fuse ==
    /\ phase = "fuse"
    /\ results' = IF sparse = <<>> THEN [i \in DOMAIN dense |-> VectorResult(ChunkOf(dense[i]))]
                  ELSE [i \in DOMAIN Candidates |-> MakeResult(Candidates[i])]
    /\ phase' = "expand"
    /\ UNCHANGED <<dense, sparse, dropped, hits>>

-----------------------------------------------------------------------------
VectorHits(seq) == Cardinality({i \in DOMAIN seq : seq[i].provenance = "vector"})

\* No graph, no hit, or no node of the graph in a hit: the answer as it is.
NoExpansion ==
    /\ phase = "expand"
    /\ hits' = VectorHits(results) /\ phase' = "merge"
    /\ UNCHANGED <<dense, sparse, results, dropped>>

\* A chunk reached over a path from a hit: nearer than the hit by at least a fifth.
EstimatedDistance(seed, weight, heaviest) ==
    LET ratio == IF heaviest = 0 THEN 0 ELSE Lesser(800, (1000 * weight) \div heaviest)
    IN Greater(100, Lesser((seed * 800) \div 1000, (seed * (1000 - ratio)) \div 1000))

Expansions ==
    LET new == {c \in Chunks : \A i \in DOMAIN results : results[i].chunk # c}
        seeds == {results[i].distance : i \in DOMAIN results}
    IN {s \in UNION {[1..k -> new \X Weights \X seeds] : k \in 0..(MaxHits - Len(sparse))} :
          \A i, j \in DOMAIN s : i # j => s[i][1] # s[j][1]}

\* The results of the graph: chunk, path weight and distance of the seed.  The
\* heaviest path may be of a node whose chunks are hits already, or missing.
Expand ==
    /\ phase = "expand" /\ results # <<>>
    /\ \E found \in Expansions : \E heaviest \in Weights :
          /\ \A i \in DOMAIN found : found[i][2] <= heaviest
          /\ results' = results \o [i \in DOMAIN found |->
                 Result(found[i][1], "graph",
                        EstimatedDistance(found[i][3], found[i][2], heaviest), found[i][2])]
    /\ phase' = "deduplicate"
    /\ UNCHANGED <<dense, sparse, dropped, hits>>

-----------------------------------------------------------------------------
Relevance(r) ==
    IF r.provenance # "graph" THEN 1000 - Lesser(1000, r.distance)
    ELSE IF r.weight > 0 THEN (Lesser(950, r.weight \div 3) * 95) \div 100 ELSE 285

Overlap(r, s) ==
    /\ r.chunk.file = s.chunk.file
    /\ r.chunk.start <= s.chunk.end /\ s.chunk.start <= r.chunk.end

\* Mutant: of two that overlap the later one goes.
CompareKeepsFirst(seq, a, removed, b) ==
    IF b \in removed \/ ~Overlap(seq[a], seq[b]) THEN removed ELSE removed \union {b}
Compare(seq, a, removed, b) ==
    IF b \in removed \/ ~Overlap(seq[a], seq[b]) THEN removed
    ELSE removed \union {IF Relevance(seq[a]) >= Relevance(seq[b]) THEN b ELSE a}
\* Pairs in order; a result removed in the inner loop goes on removing others.
CompareLater(seq, removed, a) ==
    IF a \in removed THEN removed
    ELSE FoldLeft(LAMBDA acc, b : Compare(seq, a, acc, b), removed,
                  [k \in 1..(Len(seq) - a) |-> a + k])
Removed(seq) ==
    FoldLeft(LAMBDA acc, a : CompareLater(seq, acc, a), {}, [k \in DOMAIN seq |-> k])

Without(seq, out) == Only(seq, DOMAIN seq \ out)

\* The sort key: relevance, then distance; sort() is stable.
Ranked(seq) ==
    LET before(i, j) ==
            \/ Relevance(seq[i]) > Relevance(seq[j])
            \/ /\ Relevance(seq[i]) = Relevance(seq[j])
               /\ seq[i].distance < seq[j].distance \/ (seq[i].distance = seq[j].distance /\ i < j)
    IN At(seq, Sorted(DOMAIN seq, before))

DeduplicateOverlapping ==
    /\ phase = "deduplicate"
    /\ LET kept == Without(results, Removed(results))
       IN results' = Ranked(kept) /\ hits' = VectorHits(kept)
    /\ dropped' = Without(results, DOMAIN results \ Removed(results))
    /\ phase' = "merge"
    /\ UNCHANGED <<dense, sparse>>

\* multi_search: the other index answers, or its search failed and is left out.
Merge ==
    /\ phase = "merge"
    /\ \E other \in Others :
          /\ results' = FirstOf(Ranked(results \o other), TopK)
          /\ hits' = hits + VectorHits(other)
    /\ phase' = "done"
    /\ UNCHANGED <<dense, sparse, dropped>>

MergeDone == phase = "done" /\ UNCHANGED MergeVars

MergeNext == Fuse \/ NoExpansion \/ Expand \/ DeduplicateOverlapping \/ Merge \/ MergeDone

MergeSpec == MergeInit /\ [][MergeNext]_MergeVars

-----------------------------------------------------------------------------
InResults(c) == \E i \in DOMAIN results : results[i].chunk = c

(* What fusion cuts off comes back: the best sparse hits, and the best     *)
(* sparse hits outside tests and docs, are results of the index whatever   *)
(* their rank among the dense hits.                                        *)
SparseHitsSurviveFusion ==
    phase = "expand" =>
        \A i \in DOMAIN sparse :
            LET c == ChunkOf(sparse[i])
                better == {j \in 1..(i - 1) : ~c.test => ~ChunkOf(sparse[j]).test}
            IN Cardinality(better) < PerGraph => InResults(c)

(* No two results of one index overlap after the removal, and every file   *)
(* keeps a result as relevant as its best one was.                         *)
Deduplicated == phase = "merge" /\ dropped # <<>>
KeptAreTheBest ==
    Deduplicated =>
        /\ \A i, j \in DOMAIN results : i # j => ~Overlap(results[i], results[j])
        /\ \A d \in DOMAIN dropped : \E i \in DOMAIN results :
               /\ results[i].chunk.file = dropped[d].chunk.file
               /\ Relevance(results[i]) >= Relevance(dropped[d])

(* Only one of an overlapping group is kept, the higher ranked; what is    *)
(* disjoint from the results that are kept stays.                          *)
DroppedAreCovered ==
    Deduplicated =>
        \A d \in DOMAIN dropped : \E i \in DOMAIN results :
            Overlap(results[i], dropped[d]) /\ Relevance(results[i]) >= Relevance(dropped[d])

(* The distance of a result of the graph is at most a fifth better than    *)
(* that of the nearest hit it may come from.                               *)
EstimateIsConservative ==
    phase = "deduplicate" =>
        \A i \in DOMAIN results : results[i].provenance = "graph" =>
            \E j \in DOMAIN results : /\ results[j].provenance # "graph"
                                      /\ 10 * results[i].distance >= 8 * results[j].distance

(* vector_hits counts the results of the response that are vector hits.    *)
VectorHitsAreResults == phase = "done" => hits = VectorHits(results)
=============================================================================
