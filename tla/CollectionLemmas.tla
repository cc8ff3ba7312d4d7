-------------------------- MODULE CollectionLemmas --------------------------
(***************************************************************************)
(* Lemmas about numbers, folds and sequences that the proofs about the     *)
(* algorithms share.                                                       *)
(*                                                                         *)
(* The operators of the community modules are made of recursive functions  *)
(* and of folds, which are CHOOSE expressions: to know what such a         *)
(* function is at any argument, it has to be shown that one exists. The    *)
(* lemmas do that without an induction theorem, each by the least number   *)
(* at which it would fail (LeastNumber, FirstMissing): FoldExists and      *)
(* FoldIsChain for FoldLeft, FlattenIs for FlattenSeq, SortedInOrder for   *)
(* the sorting of Sorting.                                                 *)
(***************************************************************************)
EXTENDS Sorting, Integers, FiniteSetsExt, SequencesExt, TLAPS, FiniteSetTheorems,
        SequenceTheorems, WellFoundedInduction

\* Every set of numbers has a least one.
LEMMA LeastNumber ==
    ASSUME NEW T, T \subseteq Nat, T # {}
    PROVE  \E x \in T : \A y \in T : x <= y
  <1>1. IsWellFoundedOn(OpToRel(<, Nat), Nat)
    BY NatLessThanWellFounded
  <1>2. PICK x \in T : \A y \in T : <<y, x>> \notin OpToRel(<, Nat)
    <2> HIDE DEF OpToRel
    <2> QED
      BY <1>1, WFMin
  <1>3. ASSUME NEW y \in T PROVE x <= y
    <2>1. x \in Nat /\ y \in Nat
      OBVIOUS
    <2>2. <<y, x>> \in Nat \X Nat /\ <<y, x>>[1] = y /\ <<y, x>>[2] = x
      BY <2>1
    <2>3. ASSUME y < x PROVE FALSE
      BY <1>2, <2>2, <2>3 DEF OpToRel
    <2> QED
      BY <2>1, <2>3
  <1> QED
    BY <1>3

\* The least number that is not in a set follows one that is, unless it is 0.
LEMMA FirstMissing ==
    ASSUME NEW T, ~(Nat \subseteq T)
    PROVE  \E n \in Nat : n \notin T /\ (n = 0 \/ n - 1 \in T)
  <1>1. PICK n \in Nat \ T : \A m \in Nat \ T : n <= m
    <2> DEFINE missing == Nat \ T
    <2>1. missing # {} /\ missing \subseteq Nat
      OBVIOUS
    <2> HIDE DEF missing
    <2>2. \E n \in missing : \A m \in missing : n <= m
      BY <2>1, LeastNumber
    <2> QED
      BY <2>2 DEF missing
  <1>2. n # 0 => n - 1 \in Nat /\ ~(n <= n - 1)
    OBVIOUS
  <1> QED
    BY <1>1, <1>2

\* The greatest of the numbers up to n.
LEMMA GreatestIs ==
    ASSUME NEW n \in Nat, NEW s \in SUBSET (1..n), s # {}
    PROVE  Max(s) \in s /\ \A y \in s : Max(s) >= y
  <1> DEFINE above == {k \in Nat : \A y \in s : y <= k}
  <1>1. PICK k \in above : \A m \in above : k <= m
    <2>1. n \in above /\ above \subseteq Nat
      OBVIOUS
    <2> HIDE DEF above
    <2> QED
      BY <2>1, LeastNumber
  <1>2. k \in s
    <2> SUFFICES ASSUME k \notin s PROVE FALSE
      OBVIOUS
    <2>1. PICK y \in s : TRUE
      OBVIOUS
    <2>2. k \in Nat \ {0} /\ \A z \in s : z <= k - 1
      BY <1>1, <2>1
    <2>3. k - 1 \in above
      BY <2>2
    <2> QED
      BY <1>1, <2>2, <2>3
  <1>3. \A y \in s : k >= y
    BY <1>1
  <1> QED
    BY <1>2, <1>3 DEF Max

\* f folds the sets of the numbers up to k, the greatest number first.
FoldOf(V, base, F, f, k) ==
    /\ f \in [SUBSET (1..k) -> V]
    /\ \A s \in SUBSET (1..k) : f[s] = IF s = {} THEN base ELSE F[<<f[s \ {Max(s)}], Max(s)>>]

\* Without its greatest number a set is smaller by one number.
LEMMA WithoutGreatest ==
    ASSUME NEW k \in Nat, NEW s \in SUBSET (1..k), s # {}
    PROVE  Max(s) \in 1..k /\ s \ {Max(s)} \in SUBSET (1..(k - 1))
  <1>1. Max(s) \in s /\ \A y \in s : Max(s) >= y
    BY GreatestIs
  <1> DEFINE greatest == Max(s)
  <1> HIDE DEF greatest
  <1>2. greatest \in s /\ (\A y \in s : greatest >= y) /\ s \subseteq 1..k
    BY <1>1 DEF greatest
  <1>3. ASSUME NEW y \in s, y # greatest PROVE y \in 1..(k - 1)
    BY <1>2, <1>3
  <1> QED
    BY <1>2, <1>3 DEF greatest

\* One number more.
LEMMA FoldGrows ==
    ASSUME NEW V, NEW base \in V, NEW n \in Nat, NEW F \in [V \X (1..n) -> V],
           NEW k \in 1..n, NEW f, FoldOf(V, base, F, f, k - 1)
    PROVE  \E g : FoldOf(V, base, F, g, k)
  <1> DEFINE g == [s \in SUBSET (1..k) |-> IF s = {} THEN base ELSE F[<<f[s \ {Max(s)}], Max(s)>>]]
  <1>1. k \in Nat /\ 1..k \subseteq 1..n /\ 1..(k - 1) \subseteq 1..k
    OBVIOUS
  <1>2. f \in [SUBSET (1..(k - 1)) -> V]
    BY DEF FoldOf
  <1>3. ASSUME NEW s \in SUBSET (1..k), s # {}
        PROVE  Max(s) \in 1..n /\ s \ {Max(s)} \in SUBSET (1..(k - 1))
    BY <1>1, <1>3, WithoutGreatest
  <1>4. ASSUME NEW s \in SUBSET (1..k) PROVE g[s] \in V
    <2>1. CASE s = {}
      BY <2>1
    <2>2. CASE s # {}
      <3>1. f[s \ {Max(s)}] \in V /\ Max(s) \in 1..n
        BY <1>2, <1>3, <2>2
      <3>2. <<f[s \ {Max(s)}], Max(s)>> \in V \X (1..n)
        BY <3>1
      <3>3. F[<<f[s \ {Max(s)}], Max(s)>>] \in V
        BY <3>2
      <3> QED
        BY <2>2, <3>3
    <2> QED
      BY <2>1, <2>2
  <1>5. ASSUME NEW s \in SUBSET (1..(k - 1)) PROVE g[s] = f[s]
    <2>1. s \in SUBSET (1..k)
      BY <1>1
    <2>2. f[s] = IF s = {} THEN base ELSE F[<<f[s \ {Max(s)}], Max(s)>>]
      BY DEF FoldOf
    <2> QED
      BY <2>1, <2>2
  <1>6. ASSUME NEW s \in SUBSET (1..k)
        PROVE  g[s] = IF s = {} THEN base ELSE F[<<g[s \ {Max(s)}], Max(s)>>]
    <2>1. s # {} => g[s \ {Max(s)}] = f[s \ {Max(s)}]
      <3> HIDE DEF g
      <3> QED
        BY <1>3, <1>5
    <2> QED
      BY <2>1
  <1>7. g \in [SUBSET (1..k) -> V]
    BY <1>4
  <1> HIDE DEF g
  <1> QED
    BY <1>6, <1>7 DEF FoldOf

\* A fold over the numbers up to n is a function.
LEMMA FoldExists ==
    ASSUME NEW V, NEW n \in Nat, NEW base \in V, NEW F \in [V \X (1..n) -> V]
    PROVE  \E f : FoldOf(V, base, F, f, n)
  <1> DEFINE T == {k \in Nat : k > n \/ \E f : FoldOf(V, base, F, f, k)}
  <1>1. Nat \subseteq T
    <2> SUFFICES ASSUME NEW k \in Nat, k \notin T, k = 0 \/ k - 1 \in T PROVE FALSE
      <3> HIDE DEF T
      <3> QED
        BY FirstMissing
    <2>1. CASE k = 0
      <3> DEFINE f == [s \in SUBSET (1..0) |-> base]
      <3>1. \A s \in SUBSET (1..0) : s = {} /\ f[s] = base
        OBVIOUS
      <3>2. f \in [SUBSET (1..0) -> V]
        OBVIOUS
      <3> HIDE DEF f
      <3>3. FoldOf(V, base, F, f, 0)
        BY <3>1, <3>2 DEF FoldOf
      <3> QED
        BY <2>1, <3>3
    <2>2. CASE k # 0
      <3>1. k - 1 \in Nat /\ k \in 1..n /\ ~(k - 1 > n) /\ k - 1 \in T
        BY <2>2
      <3>2. PICK f : FoldOf(V, base, F, f, k - 1)
        BY <3>1
      <3>3. \E g : FoldOf(V, base, F, g, k)
        BY <3>1, <3>2, FoldGrows
      <3> QED
        BY <3>3
    <2> QED
      BY <2>1, <2>2
  <1>2. n \in T /\ ~(n > n)
    BY <1>1
  <1> QED
    BY <1>2

\* The steps of a fold from the left.
Chain(V, base, F, n, g) ==
    g \in [0..n -> V] /\ g[0] = base /\ \A k \in 1..n : g[k] = F[<<g[k - 1], k>>]
\* The folds of the first k numbers.
StepsOf(f, n) == [k \in 0..n |-> f[1..k]]
\* What the fold of a set comes to, as long as its values are in V.
Unfolds(V, base, F, n, f) ==
    \A s \in SUBSET (1..n) :
        IF s = {} THEN f[s] = base
        ELSE f[s \ {Max(s)}] \in V => f[s] = F[<<f[s \ {Max(s)}], Max(s)>>]
\* The folds of the first numbers are the steps.
LEMMA FoldIsChain ==
    ASSUME NEW V, NEW base \in V, NEW n \in Nat, NEW F \in [V \X (1..n) -> V],
           NEW f, Unfolds(V, base, F, n, f)
    PROVE  Chain(V, base, F, n, StepsOf(f, n))
  <1>1. f[1..0] = base
    <2>1. 1..0 = {} /\ 1..0 \in SUBSET (1..n)
      OBVIOUS
    <2> QED
      BY <2>1 DEF Unfolds
  <1>2. ASSUME NEW k \in 1..n, f[1..(k - 1)] \in V
        PROVE  f[1..k] = F[<<f[1..(k - 1)], k>>] /\ f[1..k] \in V
    <2>1. k \in Nat /\ 1..k \in SUBSET (1..n) /\ 1..k # {} /\ k \in 1..k
      OBVIOUS
    <2>2. Max(1..k) \in 1..k /\ \A y \in 1..k : Max(1..k) >= y
      BY <2>1, GreatestIs
    <2>3. Max(1..k) = k
      BY <2>1, <2>2
    <2>4. (1..k) \ {k} = 1..(k - 1)
      OBVIOUS
    <2>5. f[1..k] = F[<<f[1..(k - 1)], k>>]
      BY <1>2, <2>1, <2>3, <2>4 DEF Unfolds
    <2>6. <<f[1..(k - 1)], k>> \in V \X (1..n)
      BY <1>2
    <2> QED
      BY <2>5, <2>6
  <1> DEFINE T == {k \in Nat : k > n \/ f[1..k] \in V}
  <1>3. Nat \subseteq T
    <2> SUFFICES ASSUME NEW k \in Nat, k \notin T, k = 0 \/ k - 1 \in T PROVE FALSE
      <3> HIDE DEF T
      <3> QED
        BY FirstMissing
    <2>1. CASE k = 0
      BY <1>1, <2>1
    <2>2. CASE k # 0
      <3>1. k \in 1..n /\ k - 1 \in Nat /\ ~(k - 1 > n)
        BY <2>2
      <3>2. f[1..(k - 1)] \in V
        BY <2>2, <3>1
      <3> QED
        BY <1>2, <3>1, <3>2
    <2> QED
      BY <2>1, <2>2
  <1>4. \A k \in 0..n : f[1..k] \in V
    BY <1>3
  <1> HIDE DEF T
  <1>5. \A k \in 1..n : k - 1 \in 0..n /\ k \in 0..n
    OBVIOUS
  <1>6. [k \in 0..n |-> f[1..k]] \in [0..n -> V]
    BY <1>4
  <1>7. [k \in 0..n |-> f[1..k]][0] = base
    BY <1>1
  <1>8. ASSUME NEW k \in 1..n PROVE f[1..k] = F[<<f[1..(k - 1)], k>>]
    BY <1>2, <1>4, <1>5
  <1> QED
    BY <1>5, <1>6, <1>7, <1>8 DEF Chain, StepsOf

-----------------------------------------------------------------------------
\* One of a set in a row: not a pair.
LEMMA OneInARow == ASSUME NEW V, NEW a \in V PROVE <<a>> \in Seq(V) /\ Len(<<a>>) # 2
  OBVIOUS

\* Two of a set in a row.
LEMMA TwoInARow ==
    ASSUME NEW V, NEW a \in V, NEW b \in V
    PROVE  <<a, b>> \in Seq(V) /\ Len(<<a, b>>) = 2 /\ <<a, b>>[1] = a
  OBVIOUS

\* Three of a set in a row: not a pair.
LEMMA ThreeInARow ==
    ASSUME NEW V, NEW a \in V, NEW b \in V, NEW c \in V
    PROVE  <<a, b>> \o <<c>> \in Seq(V) /\ Len(<<a, b>> \o <<c>>) # 2
  OBVIOUS

-----------------------------------------------------------------------------
\* A set R of pairs decides between any two members of a set.
Decides(set, R) ==
    /\ \A x \in set : <<x, x>> \notin R
    /\ \A x, y \in set : x = y \/ <<x, y>> \in R \/ <<y, x>> \in R
    /\ \A x, y, z \in set : <<x, y>> \in R /\ <<y, z>> \in R => <<x, z>> \in R
\* How many members come before x.
Rank(set, R, x) == Cardinality({y \in set : <<y, x>> \in R})
\* A sequence has every member of a set once, in the order R.
InOrder(seq, set, R) ==
    /\ seq \in [1..Cardinality(set) -> set]
    /\ \A x \in set : \E k \in 1..Cardinality(set) : seq[k] = x
    /\ \A j, k \in 1..Cardinality(set) : j < k => <<seq[j], seq[k]>> \in R
    /\ \A k \in 1..Cardinality(set) : Rank(set, R, seq[k]) = k - 1
\* The k-th of the sequence has rank k - 1, if any member has.
IsByRank(seq, set, R) ==
    /\ seq = [k \in 1..Cardinality(set) |-> seq[k]]
    /\ \A k \in 1..Cardinality(set) :
          (\E x \in set : Rank(set, R, x) = k - 1)
              => seq[k] \in set /\ Rank(set, R, seq[k]) = k - 1

\* What comes later has more before it.
LEMMA RanksGrow ==
    ASSUME NEW set, IsFiniteSet(set), NEW R, Decides(set, R)
    PROVE  /\ \A x \in set : Rank(set, R, x) \in 0..(Cardinality(set) - 1)
           /\ \A x, y \in set : <<x, y>> \in R <=> Rank(set, R, x) < Rank(set, R, y)
           /\ \A x, y \in set : Rank(set, R, x) = Rank(set, R, y) => x = y
  <1> DEFINE before(x) == {y \in set : <<y, x>> \in R}
  <1>1. ASSUME NEW x \in set
        PROVE  IsFiniteSet(before(x)) /\ Rank(set, R, x) \in 0..(Cardinality(set) - 1)
    <2>1. before(x) \in SUBSET (set \ {x})
      BY DEF Decides
    <2>2. /\ IsFiniteSet(set \ {x}) /\ Cardinality(set \ {x}) = Cardinality(set) - 1
          /\ Cardinality(set) \in Nat
      BY FS_RemoveElement, FS_CardinalityType
    <2>3. IsFiniteSet(before(x)) /\ Cardinality(before(x)) <= Cardinality(set \ {x})
      BY <2>1, <2>2, FS_Subset
    <2>4. Cardinality(before(x)) \in Nat
      BY <2>3, FS_CardinalityType
    <2> HIDE DEF before
    <2>5. Rank(set, R, x) = Cardinality(before(x))
      BY DEF Rank, before
    <2> QED
      BY <2>2, <2>3, <2>4, <2>5
  <1>2. ASSUME NEW x \in set, NEW y \in set, <<x, y>> \in R
        PROVE  Rank(set, R, x) < Rank(set, R, y)
    <2>1. before(x) \in SUBSET before(y) /\ x \in before(y) /\ x \notin before(x)
      BY <1>2 DEF Decides
    <2>2. IsFiniteSet(before(x)) /\ IsFiniteSet(before(y))
      BY <1>1
    <2> HIDE DEF before
    <2>3. /\ Cardinality(before(x)) <= Cardinality(before(y))
          /\ Cardinality(before(x)) # Cardinality(before(y))
      BY <2>1, <2>2, FS_Subset
    <2>4. Cardinality(before(x)) \in Nat /\ Cardinality(before(y)) \in Nat
      BY <2>2, FS_CardinalityType
    <2>5. Rank(set, R, x) = Cardinality(before(x)) /\ Rank(set, R, y) = Cardinality(before(y))
      BY DEF Rank, before
    <2> QED
      BY <2>3, <2>4, <2>5
  <1>3. \A x \in set : Rank(set, R, x) \in Int
    <2> HIDE DEF before
    <2>1. Cardinality(set) \in Nat
      BY FS_CardinalityType
    <2> QED
      BY <1>1, <2>1
  <1>4. ASSUME NEW x \in set, NEW y \in set
        PROVE  /\ <<x, y>> \in R <=> Rank(set, R, x) < Rank(set, R, y)
               /\ Rank(set, R, x) = Rank(set, R, y) => x = y
    <2>1. x = y \/ <<x, y>> \in R \/ <<y, x>> \in R
      BY DEF Decides
    <2>2. /\ <<x, y>> \in R => Rank(set, R, x) < Rank(set, R, y)
          /\ <<y, x>> \in R => Rank(set, R, y) < Rank(set, R, x)
      BY <1>2
    <2>3. Rank(set, R, x) \in Int /\ Rank(set, R, y) \in Int
      BY <1>3
    <2> QED
      BY <2>1, <2>2, <2>3
  <1> QED
    BY <1>1, <1>4

\* Every rank is taken: sorting lists every member once and in order.
LEMMA SortedInOrder ==
    ASSUME NEW set, IsFiniteSet(set), NEW R, Decides(set, R), NEW seq, IsByRank(seq, set, R)
    PROVE  InOrder(seq, set, R)
  <1> DEFINE n == Cardinality(set)
             f == [x \in set |-> Rank(set, R, x) + 1]
  <1>1. /\ \A x \in set : Rank(set, R, x) \in 0..(n - 1)
        /\ \A x, y \in set : <<x, y>> \in R <=> Rank(set, R, x) < Rank(set, R, y)
        /\ \A x, y \in set : Rank(set, R, x) = Rank(set, R, y) => x = y
    BY RanksGrow
  <1>2. n \in Nat
    BY FS_CardinalityType
  <1>3. \A k \in 1..n : \E x \in set : Rank(set, R, x) = k - 1
    <2>1. f \in Injection(set, 1..n)
      <3> HIDE DEF n
      <3>1. \A x \in set : f[x] \in 1..n
        BY <1>1, <1>2
      <3>2. \A x, y \in set : f[x] = f[y] => x = y
        <4> SUFFICES ASSUME NEW x \in set, NEW y \in set, f[x] = f[y] PROVE x = y
          OBVIOUS
        <4>1. Rank(set, R, x) + 1 = Rank(set, R, y) + 1
          OBVIOUS
        <4>2. Rank(set, R, x) \in Int /\ Rank(set, R, y) \in Int
          BY <1>1, <1>2
        <4> QED
          BY <1>1, <4>1, <4>2
      <3> HIDE DEF f
      <3> QED
        BY <3>1, <3>2 DEF Injection, IsInjective, f
    <2>2. IsFiniteSet(1..n) /\ Cardinality(1..n) = n
      BY <1>2, FS_Interval
    <2>3. f \in Surjection(set, 1..n)
      <3> HIDE DEF f
      <3> QED
        BY <2>1, <2>2, FS_Injection
    <2>4. SUFFICES ASSUME NEW k \in 1..n PROVE \E x \in set : Rank(set, R, x) = k - 1
      OBVIOUS
    <2>5. PICK x \in set : f[x] = k
      <3> HIDE DEF f
      <3> QED
        BY <2>3 DEF Surjection
    <2>6. Rank(set, R, x) + 1 = k /\ Rank(set, R, x) \in Int
      BY <1>1, <1>2, <2>5
    <2> QED
      BY <1>2, <2>6
  <1>4. \A k \in 1..n : seq[k] \in set /\ Rank(set, R, seq[k]) = k - 1
    BY <1>3 DEF IsByRank
  <1>5. seq \in [1..n -> set]
    BY <1>4 DEF IsByRank
  <1>6. ASSUME NEW x \in set PROVE \E k \in 1..n : seq[k] = x
    <2>1. Rank(set, R, x) + 1 \in 1..n /\ (Rank(set, R, x) + 1) - 1 = Rank(set, R, x)
      BY <1>1, <1>2
    <2>2. seq[Rank(set, R, x) + 1] = x
      BY <1>1, <1>4, <2>1
    <2> QED
      BY <2>1, <2>2
  <1>7. ASSUME NEW j \in 1..n, NEW k \in 1..n, j < k PROVE <<seq[j], seq[k]>> \in R
    <2>1. j - 1 < k - 1
      BY <1>2, <1>7
    <2> QED
      BY <1>1, <1>4, <2>1
  <1> QED
    BY <1>4, <1>5, <1>6, <1>7 DEF InOrder

\* Sorting numbers.
Below == {x \in Int \X Int : x[1] < x[2]}
\* The numbers of a set, in order.
LEMMA SortedNumbers ==
    ASSUME NEW set, set \subseteq Int, IsFiniteSet(set)
    PROVE  InOrder(Sorted(set, <), set, Below)
  <1>1. Decides(set, Below)
    BY DEF Decides, Below
  <1>2. ASSUME NEW x \in set PROVE Cardinality({y \in set : y < x}) = Rank(set, Below, x)
    <2>1. {y \in set : y < x} = {y \in set : <<y, x>> \in Below}
      BY DEF Below
    <2> QED
      BY <2>1 DEF Rank
  <1>3. IsByRank(Sorted(set, <), set, Below)
    <2> DEFINE rank(x) == Cardinality({y \in set : y < x})
               seq == [k \in 1..Cardinality(set) |-> CHOOSE x \in set : rank(x) = k - 1]
    <2>1. Sorted(set, <) = seq
      BY DEF Sorted
    <2>2. \A x \in set : rank(x) = Rank(set, Below, x)
      BY <1>2
    <2> HIDE DEF rank
    <2>3. \A k \in 1..Cardinality(set) :
              (\E x \in set : rank(x) = k - 1) => seq[k] \in set /\ rank(seq[k]) = k - 1
      OBVIOUS
    <2>4. seq = [k \in 1..Cardinality(set) |-> seq[k]]
      OBVIOUS
    <2> HIDE DEF seq
    <2> QED
      BY <2>1, <2>2, <2>3, <2>4 DEF IsByRank
  <1> QED
    BY <1>1, <1>3, SortedInOrder


\* A sequence of all members of a set, each of them once.
Lists(seq, set) ==
    /\ seq \in [1..Cardinality(set) -> set]
    /\ \A x \in set : \E k \in 1..Cardinality(set) : seq[k] = x
    /\ \A j, k \in 1..Cardinality(set) : j # k => seq[j] # seq[k]

\* A sorted set is such a sequence.
LEMMA InOrderLists ==
    ASSUME NEW set, IsFiniteSet(set), NEW R, Decides(set, R), NEW seq, InOrder(seq, set, R)
    PROVE  Lists(seq, set)
  <1>1. ASSUME NEW j \in 1..Cardinality(set), NEW k \in 1..Cardinality(set), j < k
        PROVE  seq[j] # seq[k]
    <2>1. <<seq[j], seq[k]>> \in R /\ seq[k] \in set
      BY <1>1 DEF InOrder
    <2> QED
      BY <2>1 DEF Decides
  <1>2. Cardinality(set) \in Nat
    BY FS_CardinalityType
  <1>3. ASSUME NEW j \in 1..Cardinality(set), NEW k \in 1..Cardinality(set), j # k
        PROVE  seq[j] # seq[k]
    <2>1. j < k \/ k < j
      BY <1>2, <1>3
    <2> QED
      BY <1>1, <2>1
  <1> QED
    BY <1>3 DEF InOrder, Lists

\* Positions of a sequence.
LEMMA Positions ==
    ASSUME NEW n \in Nat, NEW set \in SUBSET (1..n)
    PROVE  /\ IsFiniteSet(set) /\ Cardinality(set) \in Nat /\ set \subseteq Int
           /\ Decides(set, Below)
           /\ Lists(Sorted(set, <), set) /\ InOrder(Sorted(set, <), set, Below)
  <1>1. IsFiniteSet(1..n)
    BY FS_Interval
  <1>2. IsFiniteSet(set) /\ Cardinality(set) \in Nat
    BY <1>1, FS_Subset, FS_CardinalityType
  <1>3. set \subseteq Int
    OBVIOUS
  <1>4. Decides(set, Below)
    BY <1>3 DEF Decides, Below
  <1>5. InOrder(Sorted(set, <), set, Below)
    BY <1>2, <1>3, SortedNumbers
  <1> QED
    BY <1>2, <1>3, <1>4, <1>5, InOrderLists

\* The members at some positions.
LEMMA AtIs ==
    ASSUME NEW V, NEW seq \in Seq(V), NEW set \in SUBSET (1..Len(seq)), NEW g, Lists(g, set)
    PROVE  /\ At(seq, g) \in Seq(V) /\ Len(At(seq, g)) = Cardinality(set)
           /\ \A k \in 1..Cardinality(set) : At(seq, g)[k] = seq[g[k]] /\ g[k] \in set
           /\ \A i \in set : \E k \in 1..Cardinality(set) : At(seq, g)[k] = seq[i]
  <1>1. Cardinality(set) \in Nat
    <2>1. Len(seq) \in Nat
      OBVIOUS
    <2> QED
      BY <2>1, Positions
  <1>2. g \in [1..Cardinality(set) -> set] /\ DOMAIN g = 1..Cardinality(set)
    BY DEF Lists
  <1>3. \A k \in 1..Cardinality(set) : g[k] \in set /\ seq[g[k]] \in V
    <2>1. \A i \in set : seq[i] \in V
      OBVIOUS
    <2>2. \A k \in 1..Cardinality(set) : g[k] \in set
      BY <1>2
    <2> QED
      BY <2>1, <2>2
  <1>4. At(seq, g) = [k \in 1..Cardinality(set) |-> seq[g[k]]]
    BY <1>2 DEF At
  <1>5. \A i \in set : \E k \in 1..Cardinality(set) : g[k] = i
    BY DEF Lists
  <1> QED
    BY <1>1, <1>3, <1>4, <1>5

\* t has the members of s in the order of g, each once.
Permuted(t, s, g, V) ==
    /\ t \in Seq(V) /\ Len(t) = Len(s)
    /\ \A k \in 1..Len(s) : t[k] = s[g[k]] /\ g[k] \in 1..Len(s)
    /\ \A i \in 1..Len(s) : \E k \in 1..Len(s) : t[k] = s[i]
    /\ \A j, k \in 1..Len(s) : j # k => g[j] # g[k]
\* Taking all the members in some order.
LEMMA AtPermutes ==
    ASSUME NEW V, NEW s \in Seq(V), NEW g, Lists(g, 1..Len(s))
    PROVE  Permuted(At(s, g), s, g, V)
  <1> DEFINE n == Len(s)
             t == At(s, g)
  <1>1. n \in Nat
    OBVIOUS
  <1>2. Cardinality(1..n) = n
    <2> HIDE DEF n
    <2> QED
      BY <1>1, FS_Interval
  <1>3. /\ t \in Seq(V) /\ Len(t) = n
        /\ \A k \in 1..n : t[k] = s[g[k]] /\ g[k] \in 1..n
        /\ \A i \in 1..n : \E k \in 1..n : t[k] = s[i]
    BY <1>1, <1>2, AtIs
  <1>4. \A j, k \in 1..n : j # k => g[j] # g[k]
    BY <1>2 DEF Lists
  <1> QED
    BY <1>3, <1>4 DEF Permuted

\* A comprehension with a condition.
LEMMA OnlyIs ==
    ASSUME NEW V, NEW seq \in Seq(V), NEW set \in SUBSET (1..Len(seq))
    PROVE  /\ Only(seq, set) \in Seq(V) /\ Len(Only(seq, set)) = Cardinality(set)
           /\ \A k \in 1..Len(Only(seq, set)) : \E i \in set : Only(seq, set)[k] = seq[i]
           /\ \A i \in set : \E k \in 1..Len(Only(seq, set)) :
                 Only(seq, set)[k] = seq[i] /\ k = Cardinality({j \in set : j < i}) + 1
  <1> DEFINE g == Sorted(set, <)
             n == Cardinality(set)
  <1>1. Lists(g, set) /\ InOrder(g, set, Below) /\ n \in Nat
    <2>1. Len(seq) \in Nat
      OBVIOUS
    <2> QED
      BY <2>1, Positions
  <1>2. Only(seq, set) = At(seq, g)
    BY DEF Only
  <1> HIDE DEF g
  <1>3. /\ At(seq, g) \in Seq(V) /\ Len(At(seq, g)) = n
        /\ \A k \in 1..n : At(seq, g)[k] = seq[g[k]] /\ g[k] \in set
    BY <1>1, AtIs
  <1>4. ASSUME NEW i \in set
        PROVE  \E k \in 1..n : At(seq, g)[k] = seq[i] /\ k = Cardinality({j \in set : j < i}) + 1
    <2>1. PICK k \in 1..n : g[k] = i
      BY <1>1 DEF Lists
    <2>2. Rank(set, Below, i) = k - 1
      BY <1>1, <2>1 DEF InOrder
    <2>3. {j \in set : <<j, i>> \in Below} = {j \in set : j < i}
      <3>1. \A j \in set : j \in Int
        OBVIOUS
      <3> HIDE DEF n
      <3> QED
        BY <3>1 DEF Below
    <2>4. Cardinality({j \in set : j < i}) = k - 1
      BY <2>2, <2>3 DEF Rank
    <2>5. k = Cardinality({j \in set : j < i}) + 1
      <3> DEFINE before == Cardinality({j \in set : j < i})
      <3> HIDE DEF before
      <3>1. before = k - 1
        BY <2>4 DEF before
      <3>2. k = before + 1
        BY <1>1, <3>1
      <3> QED
        BY <3>2 DEF before
    <2> QED
      BY <1>3, <2>1, <2>5
  <1> QED
    BY <1>2, <1>3, <1>4

-----------------------------------------------------------------------------
\* Two sequences joined.
AreJoined(V, s, t) ==
    /\ s \o t \in Seq(V) /\ Len(s \o t) = Len(s) + Len(t)
    /\ \A i \in 1..Len(s) : i \in 1..Len(s \o t) /\ (s \o t)[i] = s[i]
    /\ \A i \in 1..Len(t) : Len(s) + i \in 1..Len(s \o t) /\ (s \o t)[Len(s) + i] = t[i]
\* Any two are.
LEMMA Joined ==
    ASSUME NEW V, NEW s \in Seq(V), NEW t \in Seq(V)
    PROVE  AreJoined(V, s, t)
  BY DEF AreJoined

\* One member before the others.
LEMMA OneBefore ==
    ASSUME NEW V, NEW s \in Seq(V), NEW t \in Seq(V), Len(s) = 1
    PROVE  /\ s \o t \in Seq(V) /\ Len(s \o t) = 1 + Len(t)
           /\ (s \o t)[1] = s[1]
           /\ \A i \in 1..Len(t) : (s \o t)[i + 1] = t[i]
  <1>1. AreJoined(V, s, t)
    BY Joined
  <1> DEFINE c == s \o t
  <1>2. c \in Seq(V) /\ Len(c) = Len(s) + Len(t)
    BY <1>1 DEF AreJoined
  <1>3. \A i \in 1..Len(s) : c[i] = s[i]
    BY <1>1 DEF AreJoined
  <1>4. \A i \in 1..Len(t) : c[Len(s) + i] = t[i]
    BY <1>1 DEF AreJoined
  <1> HIDE DEF c
  <1>5. Len(t) \in Nat /\ 1 \in 1..1 /\ \A i \in 1..Len(t) : 1 + i = i + 1
    OBVIOUS
  <1>6. Len(c) = 1 + Len(t) /\ c[1] = s[1] /\ \A i \in 1..Len(t) : c[i + 1] = t[i]
    BY <1>2, <1>3, <1>4, <1>5
  <1> QED
    BY <1>2, <1>6 DEF c

\* The members before the last one.
LEMMA BeforeTheLast ==
    ASSUME NEW V, NEW s \in Seq(V), s # <<>>
    PROVE  /\ SubSeq(s, 1, Len(s) - 1) \in Seq(V)
           /\ Len(SubSeq(s, 1, Len(s) - 1)) = Len(s) - 1
           /\ \A i \in 1..(Len(s) - 1) : SubSeq(s, 1, Len(s) - 1)[i] = s[i]
  <1> DEFINE n == Len(s) - 1
             front == SubSeq(s, 1, n)
  <1>1. n \in Nat /\ \A i \in 1..n : s[i] \in V
    OBVIOUS
  <1> HIDE DEF n
  <1>2. /\ SubSeq(s, 1, n) \in Seq(V) /\ Len(SubSeq(s, 1, n)) = (IF 1 <= n THEN n - 1 + 1 ELSE 0)
        /\ \A i \in 1..(n - 1 + 1) : SubSeq(s, 1, n)[i] = s[1 + i - 1]
    BY <1>1, SubSeqProperties
  <1> HIDE DEF front
  <1>3. front \in Seq(V) /\ Len(front) = n /\ \A i \in 1..n : front[i] = s[i]
    BY <1>1, <1>2 DEF front
  <1> QED
    BY <1>3 DEF front, n

\* Joining sequences, one after the other.
IsFlattening(g, V, seqs) ==
    /\ g \in [0..Len(seqs) -> Seq(V)]
    /\ g[0] = <<>> /\ g[Len(seqs)] = FlattenSeq(seqs)
    /\ \A k \in 1..Len(seqs) : g[k] = g[k - 1] \o seqs[k]

\* One step of FlattenSeq.
Flattened(f, seqs) == [i \in 1..Len(seqs) |-> IF i = 1 THEN seqs[i] ELSE f[i - 1] \o seqs[i]]

\* Joining is a function.
LEMMA FlatExists ==
    ASSUME NEW V, NEW seqs \in Seq(Seq(V)), Len(seqs) > 0
    PROVE  \E f : f = Flattened(f, seqs)
  <1> DEFINE n == Len(seqs)
             S == Seq(V)
             F == [x \in S \X (1..n) |-> x[1] \o seqs[x[2]]]
  <1>1. n \in Nat /\ \A k \in 1..n : seqs[k] \in S
    OBVIOUS
  <1>2. \A s \in S : \A k \in 1..n : s \o seqs[k] \in S
    <2>1. \A s \in S : \A t \in S : s \o t \in S
      OBVIOUS
    <2> HIDE DEF S, n
    <2> QED
      BY <1>1, <2>1
  <1>3. <<>> \in S /\ \A s \in S : <<>> \o s = s
    OBVIOUS
  <1> HIDE DEF S, n
  <1>4. F \in [S \X (1..n) -> S] /\ \A s \in S : \A k \in 1..n : F[<<s, k>>] = s \o seqs[k]
    BY <1>2
  <1> HIDE DEF F
  <1>5. PICK f : FoldOf(S, <<>>, F, f, n)
    BY <1>1, <1>3, <1>4, FoldExists
  <1>6. Unfolds(S, <<>>, F, n, f)
    BY <1>5 DEF FoldOf, Unfolds
  <1>7. Chain(S, <<>>, F, n, StepsOf(f, n))
    BY <1>1, <1>3, <1>4, <1>6, FoldIsChain
  <1> DEFINE g == StepsOf(f, n)
             h == [i \in 1..n |-> g[i]]
  <1> HIDE DEF g
  <1>8. /\ g \in [0..n -> S] /\ g[0] = <<>>
        /\ \A k \in 1..n : g[k] = F[<<g[k - 1], k>>]
    BY <1>7 DEF Chain, g
  <1>9. \A k \in 1..n : k \in 0..n /\ k - 1 \in 0..n /\ (k # 1 => k - 1 \in 1..n)
    BY <1>1
  <1>10. \A k \in 1..n : g[k] = g[k - 1] \o seqs[k]
    BY <1>4, <1>8, <1>9
  <1>11. ASSUME NEW i \in 1..n PROVE h[i] = IF i = 1 THEN seqs[i] ELSE h[i - 1] \o seqs[i]
    <2>1. CASE i = 1
      <3>1. h[i] = g[i] /\ g[i - 1] = <<>>
        BY <1>8, <2>1
      <3> HIDE DEF h
      <3>2. h[i] = <<>> \o seqs[i]
        BY <1>10, <3>1
      <3> QED
        BY <1>1, <1>3, <2>1, <3>2
    <2>2. CASE i # 1
      <3>1. h[i - 1] = g[i - 1] /\ h[i] = g[i]
        BY <1>9, <2>2
      <3> HIDE DEF h
      <3> QED
        BY <1>10, <2>2, <3>1
    <2> QED
      BY <2>1, <2>2
  <1>12. h = [i \in 1..n |-> h[i]]
    OBVIOUS
  <1> HIDE DEF h
  <1>13. h = Flattened(h, seqs)
    BY <1>11, <1>12 DEF Flattened, n
  <1> QED
    BY <1>13

\* Joining step by step.
LEMMA FlattenIs ==
    ASSUME NEW V, NEW seqs \in Seq(Seq(V))
    PROVE  \E g : IsFlattening(g, V, seqs)
  <1> DEFINE n == Len(seqs)
             S == Seq(V)
  <1>1. /\ n \in Nat /\ DOMAIN seqs = 1..n /\ (\A k \in 1..n : seqs[k] \in S)
        /\ (n = 0 => seqs = <<>>)
    OBVIOUS
  <1>2. /\ <<>> \in S /\ (\A s \in S : <<>> \o s = s)
        /\ \A s \in S : \A t \in S : s \o t \in S
    OBVIOUS
  <1>3. CASE n = 0
    <2> DEFINE g == [k \in 0..0 |-> <<>>]
    <2>1. g \in [0..0 -> Seq(V)] /\ g[0] = <<>>
      OBVIOUS
    <2>2. FlattenSeq(seqs) = <<>>
      BY <1>1, <1>3 DEF FlattenSeq
    <2> HIDE DEF g
    <2>3. IsFlattening(g, V, seqs)
      BY <1>3, <2>1, <2>2 DEF IsFlattening
    <2> QED
      BY <2>3
  <1>4. CASE n # 0
    <2> DEFINE f == CHOOSE h : h = Flattened(h, seqs)
               g == [k \in 0..n |-> IF k = 0 THEN <<>> ELSE f[k]]
    <2>1. FlattenSeq(seqs) = f[n]
      BY <1>4 DEF FlattenSeq, Flattened
    <2>2. \E h : h = Flattened(h, seqs)
      BY <1>1, <1>4, FlatExists
    <2>3. f = Flattened(f, seqs)
      BY <2>2
    <2> HIDE DEF f
    <2>4. \A i \in 1..n : f[i] = IF i = 1 THEN seqs[i] ELSE f[i - 1] \o seqs[i]
      BY <2>3 DEF Flattened
    <2> HIDE DEF n, S
    <2> DEFINE T == {k \in Nat : k > n \/ k = 0 \/ f[k] \in S}
    <2>5. Nat \subseteq T
      <3> SUFFICES ASSUME NEW k \in Nat, k \notin T, k = 0 \/ k - 1 \in T PROVE FALSE
        <4> HIDE DEF T
        <4> QED
          BY FirstMissing
      <3>1. k \in 1..n /\ f[k] \notin S /\ k - 1 \in Nat /\ ~(k - 1 > n) /\ k - 1 \in T
        BY <1>1
      <3>2. k # 1
        BY <1>1, <2>4, <3>1
      <3>3. f[k - 1] \in S
        BY <3>1, <3>2
      <3> QED
        BY <1>1, <1>2, <2>4, <3>1, <3>2, <3>3
    <2>6. \A k \in 1..n : f[k] \in S
      BY <1>1, <2>5
    <2>7. ASSUME NEW k \in 1..n PROVE g[k] = g[k - 1] \o seqs[k]
      <3>1. k \in 0..n /\ k - 1 \in 0..n /\ k # 0
        BY <1>1
      <3>2. CASE k = 1
        <4>1. g[k] = f[k] /\ g[k - 1] = <<>>
          BY <3>1, <3>2
        <4> QED
          BY <1>1, <1>2, <2>4, <3>2, <4>1
      <3>3. CASE k # 1
        <4>1. g[k] = f[k] /\ g[k - 1] = f[k - 1]
          BY <1>1, <3>1, <3>3
        <4> QED
          BY <2>4, <3>3, <4>1
      <3> QED
        BY <3>2, <3>3
    <2>8. g \in [0..n -> S] /\ g[0] = <<>> /\ g[n] = FlattenSeq(seqs)
      <3>1. \A k \in 0..n : g[k] \in S
        BY <1>1, <1>2, <2>6
      <3>2. 0 \in 0..n /\ n \in 0..n
        BY <1>1
      <3> QED
        BY <1>4, <2>1, <3>1, <3>2
    <2> HIDE DEF g
    <2>9. IsFlattening(g, V, seqs)
      BY <2>7, <2>8 DEF IsFlattening, n, S
    <2> QED
      BY <2>9
  <1> QED
    BY <1>3, <1>4

\* What is joined grows, and keeps what it has.
Grows(g, V, seqs, k) ==
    /\ k - 1 \in 0..Len(seqs) /\ g[k] \in Seq(V) /\ g[k - 1] \in Seq(V)
    /\ Len(g[k]) = Len(g[k - 1]) + Len(seqs[k])
    /\ \A i \in 1..Len(g[k - 1]) : i \in 1..Len(g[k]) /\ g[k][i] = g[k - 1][i]
    /\ \A i \in 1..Len(seqs[k]) : /\ Len(g[k - 1]) + i \in 1..Len(g[k])
                                  /\ g[k][Len(g[k - 1]) + i] = seqs[k][i]

\* Every step of joining does.
LEMMA FlatGrows ==
    ASSUME NEW V, NEW seqs \in Seq(Seq(V)), NEW g, IsFlattening(g, V, seqs), NEW k \in 1..Len(seqs)
    PROVE  Grows(g, V, seqs, k)
  <1>1. Len(seqs) \in Nat /\ k - 1 \in 0..Len(seqs) /\ k \in 0..Len(seqs) /\ seqs[k] \in Seq(V)
    OBVIOUS
  <1>2. g[k] \in Seq(V) /\ g[k - 1] \in Seq(V) /\ g[k] = g[k - 1] \o seqs[k]
    BY <1>1 DEF IsFlattening
  <1> DEFINE s == g[k - 1]
             t == seqs[k]
  <1>3. s \in Seq(V) /\ t \in Seq(V)
    BY <1>1, <1>2
  <1> HIDE DEF s, t
  <1>4. /\ Len(s \o t) = Len(s) + Len(t)
        /\ \A i \in 1..Len(s) : i \in 1..Len(s \o t) /\ (s \o t)[i] = s[i]
        /\ \A i \in 1..Len(t) : Len(s) + i \in 1..Len(s \o t) /\ (s \o t)[Len(s) + i] = t[i]
    BY <1>3
  <1>5. g[k] = s \o t
    BY <1>2 DEF s, t
  <1> QED
    BY <1>1, <1>2, <1>4, <1>5 DEF s, t, Grows

\* Every member of every sequence is in the whole.
LEMMA FlattenHas ==
    ASSUME NEW V, NEW seqs \in Seq(Seq(V)), NEW k \in 1..Len(seqs), NEW i \in 1..Len(seqs[k])
    PROVE  \E m \in 1..Len(FlattenSeq(seqs)) : FlattenSeq(seqs)[m] = seqs[k][i]
  <1> DEFINE n == Len(seqs)
             x == seqs[k][i]
  <1>1. PICK g : IsFlattening(g, V, seqs)
    BY FlattenIs
  <1> DEFINE Has(j) == \E m \in 1..Len(g[j]) : g[j][m] = x
             T == {j \in Nat : j < k \/ j > n \/ Has(j)}
  <1>2. n \in Nat
    OBVIOUS
  <1>3. Has(k)
    <2>1. Len(g[k - 1]) + i \in 1..Len(g[k]) /\ g[k][Len(g[k - 1]) + i] = seqs[k][i]
      <3>1. Grows(g, V, seqs, k)
        BY <1>1, FlatGrows
      <3> QED
        BY <3>1 DEF Grows
    <2> HIDE DEF x
    <2>2. g[k][Len(g[k - 1]) + i] = x
      BY <2>1 DEF x
    <2> QED
      BY <2>1, <2>2
  <1> HIDE DEF x
  <1>4. ASSUME NEW j \in 1..n, Has(j - 1) PROVE Has(j)
    <2>1. PICK m \in 1..Len(g[j - 1]) : g[j - 1][m] = x
      BY <1>4
    <2>2. \A l \in 1..Len(g[j - 1]) : l \in 1..Len(g[j]) /\ g[j][l] = g[j - 1][l]
      <3>1. Grows(g, V, seqs, j)
        BY <1>1, FlatGrows
      <3> QED
        BY <3>1 DEF Grows
    <2>3. m \in 1..Len(g[j]) /\ g[j][m] = g[j - 1][m]
      BY <2>2
    <2> QED
      BY <2>1, <2>3
  <1> HIDE DEF Has, n
  <1>5. Nat \subseteq T
    <2> SUFFICES ASSUME NEW j \in Nat, j \notin T, j = 0 \/ j - 1 \in T PROVE FALSE
      <3> HIDE DEF T
      <3> QED
        BY FirstMissing
    <2>1. j \in 1..n /\ k \in 1..n /\ j >= k /\ j # k /\ j - 1 \in T
      BY <1>2, <1>3 DEF n
    <2>2. Has(j - 1)
      BY <1>2, <2>1
    <2> QED
      BY <1>4, <2>1, <2>2
  <1>6. n \in T /\ k \in 1..n
    BY <1>2, <1>5 DEF n
  <1>7. Has(n)
    BY <1>2, <1>6
  <1>8. g[n] = FlattenSeq(seqs)
    BY <1>1 DEF n, IsFlattening
  <1> QED
    BY <1>7, <1>8 DEF Has, x

\* t is the first few of seqs.
Begins(t, seqs) == Len(t) <= Len(seqs) /\ \A k \in 1..Len(t) : t[k] = seqs[k]
\* The joined first few are a step of joining all.
LEMMA FlattenPrefix ==
    ASSUME NEW V, NEW seqs \in Seq(Seq(V)), NEW g, IsFlattening(g, V, seqs),
           NEW t \in Seq(Seq(V)), Begins(t, seqs)
    PROVE  FlattenSeq(t) = g[Len(t)]
  <1> DEFINE n == Len(t)
  <1>1. PICK h : IsFlattening(h, V, t)
    BY FlattenIs
  <1>2. n \in Nat /\ \A k \in 1..n : k \in 1..Len(seqs) /\ t[k] = seqs[k]
    BY DEF Begins
  <1> DEFINE T == {k \in Nat : k > n \/ h[k] = g[k]}
  <1>3. h[0] = g[0]
    BY <1>1 DEF IsFlattening
  <1>4. ASSUME NEW k \in 1..n, h[k - 1] = g[k - 1] PROVE h[k] = g[k]
    BY <1>1, <1>2, <1>4 DEF IsFlattening
  <1> HIDE DEF n
  <1>5. Nat \subseteq T
    <2> SUFFICES ASSUME NEW k \in Nat, k \notin T, k = 0 \/ k - 1 \in T PROVE FALSE
      <3> HIDE DEF T
      <3> QED
        BY FirstMissing
    <2>1. CASE k = 0
      BY <1>3, <2>1
    <2>2. CASE k # 0
      <3>1. k \in 1..n /\ k - 1 \in Nat /\ ~(k - 1 > n) /\ k - 1 \in T
        BY <1>2, <2>2
      <3> QED
        BY <1>4, <3>1
    <2> QED
      BY <2>1, <2>2
  <1>6. h[n] = g[n]
    BY <1>2, <1>5
  <1> QED
    BY <1>1, <1>6 DEF n, IsFlattening

=============================================================================
