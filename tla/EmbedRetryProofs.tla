--------------------------- MODULE EmbedRetryProofs --------------------------
(*************************************************************************)
(* Proofs about EmbedRetry, for every batch of texts, every depth and    *)
(* every sequence of answers of the provider.                            *)
(*                                                                       *)
(* EmbedInv says that the answered parts and those of the pending calls  *)
(* share no character and leave none out (AllApart, Covered), that a part*)
(* of a text of one line is as short as its depth says (AllHalved), and  *)
(* that a tree of halves leads from each text to those parts (IsTree).   *)
(* The first two give PiecesTileTheText, the third                       *)
(* OnlyHopelessTextsAreDropped, the fourth MergedVectorIsTheMean: by     *)
(* induction on the size of a part, the vector merged from its halves is *)
(* the mean over its characters.                                         *)
(*                                                                       *)
(* The sums are folds and the vectors a recursive function. Each is shown*)
(* to exist and to have its property by least counterexample:            *)
(* FirstMissing.                                                         *)
(*************************************************************************)
EXTENDS EmbedRetry, CollectionLemmas

\* The sums of the first k numbers of a sequence.
Sums(s, g) == /\ g \in [0..Len(s) -> Nat] /\ g[0] = 0
              /\ \A k \in 1..Len(s) : g[k] = g[k - 1] + s[k]

\* The parts of a request, and what is known of each.
Requests == [parts : Seq(Parts), depth : 0..MaxDepth]
\* The types of the variables.
TypeOK ==
    /\ texts \in Seq(Texts) /\ pending \in Seq(Requests)
    /\ embedded \subseteq Parts /\ skipped \subseteq Parts
    /\ attempts \in 0..3 /\ perText \in BOOLEAN /\ skip \in BOOLEAN /\ failed \in BOOLEAN

\* Where the parts of the pending calls are.
PartSlots(calls) ==
    {x \in Nat \X Nat : x[1] \in 1..Len(calls) /\ x[2] \in 1..Len(calls[x[1]].parts)}
\* The part at a position.
PartAt(calls, x) == calls[x[1]].parts[x[2]]
\* A part that is answered or pending.
Present(p, done, calls) == p \in done \/ \E x \in PartSlots(calls) : PartAt(calls, x) = p

\* Two parts without a character in common.
Apart(p, q) == \/ p.text # q.text
               \/ p.at + Size(p.lines) <= q.at
               \/ q.at + Size(q.lines) <= p.at
\* The part has character c of text i.
Has(p, i, c) == p.text = i /\ c \in p.at..(p.at + Size(p.lines) - 1)

\* Every character is in a part, and in one only.
Covered(all, done, calls) ==
    \A i \in 1..Len(all) : \A c \in 0..(Size(all[i]) - 1) :
        \E p \in Parts : Has(p, i, c) /\ Present(p, done, calls)
\* No character is in two parts.
AllApart(done, calls) ==
    /\ \A p, q \in done : p = q \/ Apart(p, q)
    /\ \A p \in done : \A x \in PartSlots(calls) : Apart(p, PartAt(calls, x))
    /\ \A x, y \in PartSlots(calls) : x = y \/ Apart(PartAt(calls, x), PartAt(calls, y))

\* A part of a text of one line is as short as its depth says.
Halved(all, p, depth) ==
    /\ p.text \in 1..Len(all)
    /\ Len(all[p.text]) <= 1 => /\ Len(p.lines) <= 1
                                /\ (Size(p.lines) - 1) * 2^depth < Size(all[p.text])
\* So is every pending part.
AllHalved(all, calls) ==
    \A x \in PartSlots(calls) : Halved(all, PartAt(calls, x), calls[x[1]].depth)

\* A tree of parts, from the texts down to the answered and the pending ones.
IsTree(tree, all, done, calls) ==
    /\ tree \subseteq Parts
    /\ \A i \in 1..Len(all) : [text |-> i, at |-> 0, lines |-> all[i]] \in tree
    /\ \A p \in tree : \/ Present(p, done, calls)
                       \/ Splittable(p) /\ SplitInHalf(p)[1] \in tree /\ SplitInHalf(p)[2] \in tree

\* The parts that are answered.
Answers == embedded \union skipped
\* What is known of the parts.
PartsOK(all, done, calls) ==
    /\ Covered(all, done, calls) /\ AllApart(done, calls) /\ AllHalved(all, calls)
    /\ \E tree : IsTree(tree, all, done, calls)
\* The inductive invariant.
EmbedInv == TypeOK /\ PartsOK(texts, Answers, pending) /\ OnlyHopelessTextsAreDropped

-----------------------------------------------------------------------------
(* Sizes *)

\* The size of a text adds up its lines from the left.
LEMMA SizeSteps ==
    ASSUME NEW s \in Seq(Nat)
    PROVE  \E g : Sums(s, g) /\ Size(s) = g[Len(s)]
  <1> DEFINE n == Len(s)
             body(f) == [t \in SUBSET DOMAIN s |->
                           IF t = {} THEN 0 ELSE f[t \ {Max(t)}] + s[Max(t)]]
             f == CHOOSE h : h = body(h)
  <1>1. Size(s) = f[DOMAIN s]
    BY DEF Size, FoldLeft, MapThenFoldSet
  <1>2. n \in Nat /\ DOMAIN s = 1..n /\ \A i \in 1..n : s[i] \in Nat
    OBVIOUS
  <1>3. \E h : h = body(h)
    <2> DEFINE F == [x \in Nat \X (1..n) |-> x[1] + s[x[2]]]
    <2>1. F \in [Nat \X (1..n) -> Nat]
      BY <1>2
    <2>2. \A v \in Nat : \A i \in 1..n : F[<<v, i>>] = v + s[i]
      OBVIOUS
    <2> HIDE DEF F
    <2>3. PICK h : FoldOf(Nat, 0, F, h, n)
      BY <1>2, <2>1, FoldExists
    <2>4. ASSUME NEW t \in SUBSET (1..n)
          PROVE  h[t] = IF t = {} THEN 0 ELSE h[t \ {Max(t)}] + s[Max(t)]
      <3>1. h[t] = IF t = {} THEN 0 ELSE F[<<h[t \ {Max(t)}], Max(t)>>]
        BY <2>3 DEF FoldOf
      <3>2. t # {} => Max(t) \in 1..n
        BY <1>2, GreatestIs
      <3>3. t \ {Max(t)} \in SUBSET (1..n) /\ h \in [SUBSET (1..n) -> Nat]
        BY <2>3 DEF FoldOf
      <3>4. h[t \ {Max(t)}] \in Nat
        BY <3>3
      <3> QED
        BY <2>2, <3>1, <3>2, <3>4
    <2>5. h \in [SUBSET DOMAIN s -> Nat]
      BY <1>2, <2>3 DEF FoldOf
    <2>6. h = body(h)
      BY <1>2, <2>4, <2>5
    <2> QED
      BY <2>5, <2>6
  <1>4. f = body(f)
    BY <1>3
  <1> HIDE DEF f
  <1>5. \A t \in SUBSET (1..n) : f[t] = IF t = {} THEN 0 ELSE f[t \ {Max(t)}] + s[Max(t)]
    BY <1>2, <1>4
  <1> DEFINE g == [k \in 0..n |-> f[1..k]]
  <1>6. f[1..0] = 0
    <2>1. 1..0 = {} /\ 1..0 \in SUBSET (1..n)
      OBVIOUS
    <2> QED
      BY <1>5, <2>1
  <1>7. ASSUME NEW k \in 1..n PROVE f[1..k] = f[1..(k - 1)] + s[k]
    <2>1. 1..k \in SUBSET (1..n) /\ k \in 1..k /\ 1..k # {} /\ (1..k) \ {k} = 1..(k - 1)
      BY <1>2
    <2>2. Max(1..k) \in 1..k /\ \A y \in 1..k : Max(1..k) >= y
      BY <1>2, <2>1, GreatestIs
    <2>3. Max(1..k) = k
      BY <2>1, <2>2
    <2> QED
      BY <1>5, <2>1, <2>3
  <1>8. ASSUME NEW k \in 0..n PROVE f[1..k] \in Nat
    <2> DEFINE T == {j \in Nat : j > n \/ f[1..j] \in Nat}
    <2>1. Nat \subseteq T
      <3> SUFFICES ASSUME NEW j \in Nat, j \notin T, j = 0 \/ j - 1 \in T PROVE FALSE
        <4> HIDE DEF T
        <4> QED
          BY FirstMissing
      <3>1. CASE j = 0
        BY <1>6, <3>1
      <3>2. CASE j # 0
        <4>1. j \in 1..n /\ f[1..(j - 1)] \in Nat
          BY <1>2, <3>2
        <4> QED
          BY <1>2, <1>7, <4>1
      <3> QED
        BY <3>1, <3>2
    <2> QED
      BY <1>2, <2>1
  <1>9. Sums(s, g)
    <2>1. g \in [0..n -> Nat]
      BY <1>8
    <2>2. g[0] = 0
      BY <1>2, <1>6
    <2>3. ASSUME NEW k \in 1..n PROVE g[k] = g[k - 1] + s[k]
      <3>1. k \in 0..n /\ k - 1 \in 0..n
        BY <1>2
      <3> QED
        BY <1>7, <3>1
    <2> HIDE DEF g
    <2> QED
      BY <2>1, <2>2, <2>3 DEF Sums
  <1>10. Size(s) = g[n]
    BY <1>1, <1>2
  <1> HIDE DEF g
  <1> QED
    BY <1>9, <1>10

\* The size of some adjacent lines.
LEMMA SizeOfPart ==
    ASSUME NEW s \in Seq(Nat), NEW g, Sums(s, g), NEW a \in 0..Len(s), NEW b \in a..Len(s)
    PROVE  Size(SubSeq(s, a + 1, b)) = g[b] - g[a]
  <1> DEFINE t == SubSeq(s, a + 1, b)
  <1>1. a \in Nat /\ b \in Nat /\ b - a \in Nat /\ Len(s) \in Nat
    OBVIOUS
  <1>2. t \in Seq(Nat) /\ Len(t) = b - a /\ \A j \in 1..(b - a) : t[j] = s[a + j]
    OBVIOUS
  <1> HIDE DEF t
  <1>3. PICK h : Sums(t, h) /\ Size(t) = h[Len(t)]
    BY <1>2, SizeSteps
  <1> DEFINE T == {j \in Nat : j > b - a \/ h[j] = g[a + j] - g[a]}
  <1>4. Nat \subseteq T
    <2> SUFFICES ASSUME NEW j \in Nat, j \notin T, j = 0 \/ j - 1 \in T PROVE FALSE
      <3> HIDE DEF T
      <3> QED
        BY FirstMissing
    <2>1. \A i \in 0..Len(s) : g[i] \in Nat
      BY DEF Sums
    <2>2. CASE j = 0
      BY <1>1, <1>3, <2>1, <2>2 DEF Sums
    <2>3. CASE j # 0
      <3>1. j \in 1..(b - a) /\ j - 1 \in 0..(b - a) /\ ~(j - 1 > b - a) /\ a + j \in 1..Len(s)
            /\ a + (j - 1) = (a + j) - 1 /\ (a + j) - 1 \in 0..Len(s) /\ a + j \in 0..Len(s)
        <4> DEFINE len == Len(s)
        <4>1. len \in Nat /\ a \in Nat /\ b \in Nat /\ b <= len /\ j \in Nat /\ j <= b - a
          BY <1>1, <2>3
        <4> HIDE DEF len
        <4> QED
          BY <4>1, <2>3 DEF len
      <3>2. h[j - 1] = g[(a + j) - 1] - g[a]
        BY <2>3, <3>1
      <3> DEFINE x == a + j
                 now == g[x]
                 before == g[x - 1]
                 line == s[x]
                 start == g[a]
      <3>3. t[j] = line /\ h[j] = h[j - 1] + t[j]
        BY <1>2, <1>3, <3>1 DEF Sums
      <3>4. now \in Nat /\ before \in Nat /\ start \in Nat /\ line \in Nat
        <4>1. now \in Nat
          BY <2>1, <3>1
        <4>2. x - 1 \in 0..Len(s)
          BY <3>1
        <4>3. before \in Nat /\ start \in Nat
          BY <2>1, <4>2
        <4>4. line \in Nat
          BY <3>1
        <4> QED
          BY <4>1, <4>3, <4>4
      <3>5. now = before + line
        <4>1. x \in 1..Len(s)
          BY <3>1
        <4> HIDE DEF x
        <4> QED
          BY <4>1 DEF Sums
      <3>6. h[j - 1] = before - start
        BY <3>2
      <3> HIDE DEF now, before, line, start
      <3>7. h[j] = now - start
        BY <3>3, <3>4, <3>5, <3>6
      <3>8. h[j] = g[a + j] - g[a]
        BY <3>7 DEF now, start
      <3> QED
        BY <3>8
    <2> QED
      BY <2>2, <2>3
  <1>5. b - a \in T /\ ~(b - a > b - a) /\ a + (b - a) = b
    BY <1>1, <1>4
  <1> QED
    BY <1>2, <1>3, <1>5 DEF t

\* Sizes are numbers, the size of one line is its own, and a division keeps the size.
LEMMA Sizes ==
    ASSUME NEW s \in Seq(Nat)
    PROVE  /\ Size(s) \in Nat
           /\ Len(s) = 0 => Size(s) = 0
           /\ Len(s) = 1 => Size(s) = s[1]
           /\ \A k \in 0..Len(s) : /\ Size(SubSeq(s, 1, k)) \in Nat
                                   /\ Size(SubSeq(s, k + 1, Len(s))) \in Nat
                                   /\ Size(s) = Size(SubSeq(s, 1, k))
                                                + Size(SubSeq(s, k + 1, Len(s)))
  <1>1. PICK g : Sums(s, g) /\ Size(s) = g[Len(s)]
    BY SizeSteps
  <1>2. Len(s) \in Nat /\ \A i \in 0..Len(s) : g[i] \in Nat
    <2>1. g \in [0..Len(s) -> Nat]
      BY <1>1 DEF Sums
    <2> QED
      BY <2>1
  <1>3. Size(s) \in Nat
    BY <1>1, <1>2
  <1>4. ASSUME Len(s) = 1 PROVE Size(s) = s[1]
    <2>1. g[1] = g[1 - 1] + s[1] /\ g[0] = 0 /\ s[1] \in Nat /\ 1 - 1 = 0
      BY <1>1, <1>4 DEF Sums
    <2> QED
      BY <1>1, <1>4, <2>1
  <1>5. ASSUME NEW k \in 0..Len(s)
        PROVE  /\ Size(SubSeq(s, 1, k)) = g[k]
               /\ Size(SubSeq(s, k + 1, Len(s))) = g[Len(s)] - g[k]
               /\ SubSeq(s, 1, k) \in Seq(Nat) /\ SubSeq(s, k + 1, Len(s)) \in Seq(Nat)
    <2>1. 0 \in 0..Len(s) /\ k \in 0..k /\ Len(s) \in k..Len(s) /\ k \in Nat
      BY <1>2
    <2>2. Size(SubSeq(s, 0 + 1, k)) = g[k] - g[0]
      BY <1>1, <2>1, SizeOfPart
    <2>3. Size(SubSeq(s, k + 1, Len(s))) = g[Len(s)] - g[k]
      BY <1>1, <2>1, SizeOfPart
    <2>4. g[0] = 0 /\ 0 + 1 = 1 /\ g[k] \in Nat
      BY <1>1, <1>2 DEF Sums
    <2>5. SubSeq(s, 1, k) \in Seq(Nat) /\ SubSeq(s, k + 1, Len(s)) \in Seq(Nat)
      OBVIOUS
    <2> QED
      BY <2>2, <2>3, <2>4, <2>5
  <1>6. ASSUME NEW t \in Seq(Nat) PROVE Size(t) \in Nat
    <2>1. PICK h : Sums(t, h) /\ Size(t) = h[Len(t)]
      BY SizeSteps
    <2> QED
      BY <2>1 DEF Sums
  <1>7. ASSUME NEW k \in 0..Len(s)
        PROVE  /\ Size(SubSeq(s, 1, k)) \in Nat /\ Size(SubSeq(s, k + 1, Len(s))) \in Nat
               /\ Size(s) = Size(SubSeq(s, 1, k)) + Size(SubSeq(s, k + 1, Len(s)))
    <2>1. g[k] \in Nat /\ g[Len(s)] \in Nat
      BY <1>2
    <2>2. /\ Size(SubSeq(s, 1, k)) = g[k]
          /\ Size(SubSeq(s, k + 1, Len(s))) = g[Len(s)] - g[k]
      BY <1>5
    <2>3. Size(SubSeq(s, 1, k)) \in Nat /\ Size(SubSeq(s, k + 1, Len(s))) \in Nat
      BY <1>5, <1>6
    <2> QED
      BY <1>1, <2>1, <2>2, <2>3
  <1>8. Len(s) = 0 => Size(s) = 0
    BY <1>1 DEF Sums
  <1> QED
    BY <1>3, <1>4, <1>7, <1>8

\* The power of two with one more.
LEMMA TwoExp ==
    /\ 2^0 = 1
    /\ \A n \in Nat : 2^n \in Nat /\ 2^(n + 1) = 2 * 2^n
  <1>1. 2^0 = 1
    OBVIOUS
  <1>2. ASSUME NEW n \in Nat PROVE IsFiniteSet(SUBSET (1..n)) /\ Cardinality(SUBSET (1..n)) = 2^n
    <2>1. 1 \in Int /\ n \in Int /\ IsFiniteSet(1..n) /\ Cardinality(1..n) = n
      BY <1>2, FS_Interval
    <2> QED
      BY <2>1, FS_SUBSET
  <1>3. ASSUME NEW n \in Nat PROVE 2^n \in Nat
    BY <1>2, FS_CardinalityType
  <1>4. ASSUME NEW n \in Nat PROVE 2^(n + 1) = 2 * 2^n
    <2> DEFINE A == SUBSET (1..n)
               B == {s \union {n + 1} : s \in A}
               f == [s \in A |-> s \union {n + 1}]
    <2>1. n + 1 \in Nat /\ n + 1 \notin 1..n /\ 1..(n + 1) = (1..n) \union {n + 1}
      OBVIOUS
    <2>2. SUBSET (1..(n + 1)) = A \union B
      <3>1. ASSUME NEW s \in SUBSET (1..(n + 1)), n + 1 \in s PROVE s \in B
        <4>1. s \ {n + 1} \in A /\ s = (s \ {n + 1}) \union {n + 1}
          BY <2>1, <3>1
        <4> QED
          BY <4>1
      <3> QED
        BY <2>1, <3>1
    <2>3. A \intersect B = {}
      BY <2>1
    <2>4. f \in Bijection(A, B)
      <3>1. f \in [A -> B]
        OBVIOUS
      <3>2. \A s, t \in A : f[s] = f[t] => s = t
        BY <2>1
      <3>3. \A b \in B : \E s \in A : f[s] = b
        OBVIOUS
      <3> HIDE DEF A, B, f
      <3>4. IsInjective(f)
        BY <3>1, <3>2 DEF IsInjective
      <3> QED
        BY <3>1, <3>3, <3>4 DEF Bijection, Injection, Surjection
    <2> HIDE DEF A, B
    <2>5. IsFiniteSet(A) /\ Cardinality(A) = 2^n
      BY <1>2 DEF A
    <2>6. IsFiniteSet(B) /\ Cardinality(B) = Cardinality(A)
      <3>1. ExistsBijection(A, B)
        BY <2>4 DEF ExistsBijection
      <3> QED
        BY <2>5, <3>1, FS_Bijection
    <2>7. Cardinality(A \union B) = Cardinality(A) + Cardinality(B) - Cardinality(A \intersect B)
      BY <2>5, <2>6, FS_Union
    <2>8. Cardinality(A \intersect B) = 0 /\ Cardinality(A) \in Nat
      BY <2>3, <2>5, FS_EmptySet, FS_CardinalityType
    <2>9. Cardinality(SUBSET (1..(n + 1))) = 2^(n + 1)
      BY <1>2, <2>1
    <2> DEFINE c == Cardinality(A)
    <2>10. 2^(n + 1) = c + c - 0 /\ c = 2^n /\ c \in Nat
      BY <2>2, <2>5, <2>6, <2>7, <2>8, <2>9
    <2> HIDE DEF c
    <2>11. c + c - 0 = 2 * c
      BY <2>10
    <2> QED
      BY <2>10, <2>11
  <1> QED
    BY <1>1, <1>3, <1>4

-----------------------------------------------------------------------------
(* Splitting a text *)

\* There is a line end nearest to the middle.
LEMMA NearestIs ==
    ASSUME NEW lines \in Seq(Nat), Len(lines) > 1
    PROVE  Nearest(lines) \in 1..(Len(lines) - 1)
  <1> DEFINE ends == 1..(Len(lines) - 1)
             best == {k \in ends : \A j \in ends : Distance(lines, k) <= Distance(lines, j)}
             T == {Distance(lines, k) : k \in ends}
  <1>1. ASSUME NEW k \in ends PROVE Distance(lines, k) \in Nat
    <2>1. k \in 0..Len(lines)
      OBVIOUS
    <2>2. Size(SubSeq(lines, 1, k)) \in Nat /\ Size(lines) \in Nat
      BY <2>1, Sizes
    <2> QED
      BY <2>2 DEF Distance
  <1>2. 1 \in ends /\ ends \subseteq Nat
    OBVIOUS
  <1> HIDE DEF ends
  <1>3. T \subseteq Nat /\ T # {}
    BY <1>1, <1>2
  <1>4. PICK d \in T : \A e \in T : d <= e
    <2> HIDE DEF T
    <2> QED
      BY <1>3, LeastNumber
  <1>5. PICK k \in ends : d = Distance(lines, k)
    OBVIOUS
  <1>6. k \in best
    BY <1>4, <1>5
  <1>7. \E x \in best : \A y \in best : x <= y
    <2>1. best \subseteq Nat /\ best # {}
      BY <1>2, <1>6
    <2> HIDE DEF best
    <2> QED
      BY <2>1, LeastNumber
  <1>8. Min(best) \in best
    <2> HIDE DEF best
    <2> QED
      BY <1>7 DEF Min
  <1> QED
    BY <1>8 DEF Nearest, ends

\* What holds of the halves of a part.
AreHalves(p, h) ==
    /\ h[1] \in Parts /\ h[2] \in Parts /\ h[1].text = p.text /\ h[2].text = p.text
    /\ Size(h[1].lines) \in Nat /\ Size(h[2].lines) \in Nat
    /\ h[1].at = p.at /\ h[2].at = p.at + Size(h[1].lines)
    /\ Size(p.lines) = Size(h[1].lines) + Size(h[2].lines)
    /\ \A j \in 1..2 : Len(h[j].lines) + Size(h[j].lines) < Len(p.lines) + Size(p.lines)
    /\ Len(p.lines) = 1 => \A j \in 1..2 : /\ Len(h[j].lines) = 1
                                           /\ 2 * Size(h[j].lines) <= Size(p.lines) + 1

\* A sequence in two.
LEMMA CutSequence ==
    ASSUME NEW S, NEW s \in Seq(S), NEW k \in 0..Len(s)
    PROVE  /\ SubSeq(s, 1, k) \in Seq(S) /\ Len(SubSeq(s, 1, k)) = k
           /\ SubSeq(s, k + 1, Len(s)) \in Seq(S) /\ Len(SubSeq(s, k + 1, Len(s))) = Len(s) - k
           /\ \A j \in 1..k : SubSeq(s, 1, k)[j] = s[j]
           /\ \A j \in 1..(Len(s) - k) : SubSeq(s, k + 1, Len(s))[j] = s[k + j]
  <1>1. k \in Nat /\ Len(s) \in Nat /\ k <= Len(s)
    OBVIOUS
  <1>2. /\ SubSeq(s, 1, k) \in Seq(S) /\ Len(SubSeq(s, 1, k)) = k
        /\ \A j \in 1..k : SubSeq(s, 1, k)[j] = s[j]
    BY <1>1
  <1>3. /\ SubSeq(s, k + 1, Len(s)) \in Seq(S) /\ Len(SubSeq(s, k + 1, Len(s))) = Len(s) - k
        /\ \A j \in 1..(Len(s) - k) : SubSeq(s, k + 1, Len(s))[j] = s[k + j]
    BY <1>1
  <1> QED
    BY <1>2, <1>3

\* Two adjacent pieces of a part are its halves, if none is much longer than the other.
LEMMA PiecesAreHalves ==
    ASSUME NEW p \in Parts, NEW a \in Seq(Nat), NEW b \in Seq(Nat),
           Size(p.lines) = Size(a) + Size(b),
           Len(a) + Size(a) < Len(p.lines) + Size(p.lines),
           Len(b) + Size(b) < Len(p.lines) + Size(p.lines),
           Len(p.lines) = 1 => /\ Len(a) = 1 /\ 2 * Size(a) <= Size(p.lines) + 1
                               /\ Len(b) = 1 /\ 2 * Size(b) <= Size(p.lines) + 1
    PROVE  AreHalves(p, Pieces(p, a, b))
  <1> DEFINE h == Pieces(p, a, b)
  <1>1. /\ h[1] = [text |-> p.text, at |-> p.at, lines |-> a]
        /\ h[2] = [text |-> p.text, at |-> p.at + Size(a), lines |-> b]
    BY DEF Pieces
  <1>2. p.text \in Nat /\ p.at \in Nat /\ Size(a) \in Nat /\ Size(b) \in Nat
    BY Sizes DEF Parts
  <1> HIDE DEF h
  <1>3. h[1] \in Parts /\ h[2] \in Parts
    BY <1>1, <1>2 DEF Parts
  <1>4. /\ h[1].text = p.text /\ h[2].text = p.text /\ h[1].at = p.at
        /\ h[2].at = p.at + Size(h[1].lines) /\ h[1].lines = a /\ h[2].lines = b
    BY <1>1
  <1>5. \A j \in 1..2 : h[j].lines = a \/ h[j].lines = b
    BY <1>4
  <1>6. \A j \in 1..2 : Len(h[j].lines) + Size(h[j].lines) < Len(p.lines) + Size(p.lines)
    BY <1>5
  <1>7. Len(p.lines) = 1 => \A j \in 1..2 : /\ Len(h[j].lines) = 1
                                            /\ 2 * Size(h[j].lines) <= Size(p.lines) + 1
    BY <1>5
  <1> QED
    BY <1>2, <1>3, <1>4, <1>6, <1>7 DEF AreHalves, h

\* A text is divided at a line end, or in the middle of its only line.
LEMMA Halving ==
    ASSUME NEW p \in Parts, Splittable(p)
    PROVE  AreHalves(p, SplitInHalf(p))
  <1> DEFINE lines == p.lines
             len == Len(lines)
             n == Size(lines)
  <1>1. lines \in Seq(Nat) /\ len \in Nat /\ n \in Nat /\ n >= 2 /\ len # 0
    BY Sizes DEF Parts, Splittable
  <1>2. CASE len > 1
    <2> DEFINE k == Nearest(lines)
               a == SubSeq(lines, 1, k)
               b == SubSeq(lines, k + 1, len)
    <2>1. k \in 1..(len - 1)
      BY <1>1, <1>2, NearestIs
    <2>2. SplitInHalf(p) = Pieces(p, a, b)
      BY <1>2 DEF SplitInHalf
    <2> HIDE DEF k
    <2>3. k \in 0..len
      <3> HIDE DEF len, n
      <3> QED
        BY <1>1, <2>1
    <2>4. a \in Seq(Nat) /\ b \in Seq(Nat) /\ Len(a) = k /\ Len(b) = len - k
      <3> HIDE DEF lines, n
      <3> QED
        BY <1>1, <2>3, CutSequence
    <2>5. Size(a) \in Nat /\ Size(b) \in Nat /\ n = Size(a) + Size(b)
      BY <1>1, <2>3, Sizes
    <2>6. k + Size(a) < len + n /\ (len - k) + Size(b) < len + n
      <3> HIDE DEF a, b, n, len
      <3>1. \A x, y \in Nat : n = x + y => k + x < len + n /\ (len - k) + y < len + n
        BY <1>1, <2>1
      <3> QED
        BY <2>5, <3>1
    <2>7. Len(a) + Size(a) < len + n /\ Len(b) + Size(b) < len + n
      BY <2>4, <2>6
    <2>8. ~(len = 1)
      <3> HIDE DEF len, n
      <3> QED
        BY <1>1, <1>2
    <2> HIDE DEF a, b
    <2> QED
      BY <2>2, <2>4, <2>5, <2>7, <2>8, PiecesAreHalves
  <1>3. CASE len = 1
    <2> DEFINE cut == n \div 2
               a == <<cut>>
               b == <<n - cut>>
    <2>1. SplitInHalf(p) = Pieces(p, a, b)
      BY <1>3 DEF SplitInHalf
    <2>2. cut \in Nat /\ n - cut \in Nat /\ cut < n /\ n - cut < n /\ 2 * cut <= n + 1
          /\ 2 * (n - cut) <= n + 1 /\ n = cut + (n - cut)
      <3> HIDE DEF n
      <3> QED
        BY <1>1
    <2> HIDE DEF cut
    <2>3. /\ a \in Seq(Nat) /\ Len(a) = 1 /\ a[1] = cut
          /\ b \in Seq(Nat) /\ Len(b) = 1 /\ b[1] = n - cut
      BY <2>2
    <2> HIDE DEF a, b
    <2>4. Size(a) = cut /\ Size(b) = n - cut
      BY <2>3, Sizes
    <2>5. Len(a) + Size(a) < len + n /\ Len(b) + Size(b) < len + n
      <3> HIDE DEF n, len
      <3> QED
        BY <1>1, <1>3, <2>2, <2>3, <2>4
    <2> QED
      BY <2>1, <2>2, <2>3, <2>4, <2>5, PiecesAreHalves
  <1>4. len > 1 \/ len = 1
    <2> HIDE DEF len
    <2> QED
      BY <1>1
  <1> QED
    BY <1>2, <1>3, <1>4

\* A part inside of another one is apart from what the other is apart from.
Within(p, q) == /\ p.text = q.text /\ q.at <= p.at
                /\ p.at + Size(p.lines) <= q.at + Size(q.lines)
\* Parts inside of parts that are apart are apart.
LEMMA ApartInside ==
    ASSUME NEW p \in Parts, NEW q \in Parts, NEW s \in Parts, NEW t \in Parts
    PROVE  /\ Size(p.lines) \in Nat /\ Within(p, p)
           /\ Apart(p, q) <=> Apart(q, p)
           /\ Within(p, s) /\ Within(q, t) /\ Apart(s, t) => Apart(p, q)
  <1>1. \A x \in Parts : x.at \in Nat /\ Size(x.lines) \in Nat
    BY Sizes DEF Parts
  <1> QED
    BY <1>1 DEF Within, Apart

-----------------------------------------------------------------------------
(* Positions *)

\* Where a part that was not in the first call was before.
Was(more, x) == <<x[1] - Len(more) + 1, x[2]>>

\* The calls after the first one is replaced by more calls.
Follows(calls, more, next) == next = more \o Tail(calls)
\* The parts of the new calls come from more, or from a later call of calls.
Shifted(calls, more, next) ==
    /\ next \in Seq(Requests)
    /\ \A x \in PartSlots(more) :
          x \in PartSlots(next) /\ next[x[1]] = more[x[1]] /\ PartAt(next, x) = PartAt(more, x)
    /\ \A x \in PartSlots(next) \ PartSlots(more) :
          /\ Was(more, x) \in PartSlots(calls) /\ Was(more, x)[1] # 1
          /\ next[x[1]] = calls[Was(more, x)[1]] /\ PartAt(next, x) = PartAt(calls, Was(more, x))
    /\ \A z \in PartSlots(calls) :
          z[1] # 1 => \E x \in PartSlots(next) \ PartSlots(more) : Was(more, x) = z
\* Replacing the first call gives those parts.
LEMMA Replaced ==
    ASSUME NEW calls \in Seq(Requests), calls # <<>>, NEW more \in Seq(Requests),
           NEW next, Follows(calls, more, next)
    PROVE  Shifted(calls, more, next)
  <1> DEFINE m == Len(more)
             n == Len(calls)
  <1>1. m \in Nat /\ n \in Nat /\ n >= 1
    OBVIOUS
  <1>2. next \in Seq(Requests) /\ Len(next) = m + n - 1
    BY DEF Follows
  <1>3. /\ \A r \in 1..m : next[r] = more[r]
        /\ \A r \in 2..n : next[r + m - 1] = calls[r]
    BY DEF Follows
  <1> HIDE DEF m, n
  <1>4. ASSUME NEW x \in PartSlots(more)
        PROVE  x \in PartSlots(next) /\ next[x[1]] = more[x[1]] /\ PartAt(next, x) = PartAt(more, x)
    <2>1. x[1] \in 1..m /\ x[1] \in 1..Len(next) /\ next[x[1]] = more[x[1]]
      BY <1>1, <1>2, <1>3 DEF PartSlots, m
    <2> QED
      BY <2>1 DEF PartSlots, PartAt
  <1>5. ASSUME NEW x \in PartSlots(next), x \notin PartSlots(more)
        PROVE  /\ Was(more, x) \in PartSlots(calls) /\ Was(more, x)[1] # 1
               /\ next[x[1]] = calls[Was(more, x)[1]]
               /\ PartAt(next, x) = PartAt(calls, Was(more, x))
    <2> DEFINE r == x[1]
               s == r - m + 1
    <2>1. r \in 1..(m + n - 1) /\ x \in Nat \X Nat /\ x[2] \in 1..Len(next[r].parts)
      BY <1>2 DEF PartSlots
    <2>2. r \notin 1..m
      BY <1>3, <1>5, <2>1 DEF PartSlots, m
    <2> HIDE DEF r
    <2>3. s \in 2..n /\ s + m - 1 = r /\ s \in Nat
      BY <1>1, <2>1, <2>2
    <2>4. next[r] = calls[s]
      BY <1>3, <2>3
    <2>5. Was(more, x) = <<s, x[2]>> /\ x[2] \in Nat
      BY <2>1 DEF Was, m, r
    <2> HIDE DEF s
    <2>6. s \in 1..Len(calls) /\ s # 1
      BY <1>1, <2>3 DEF n
    <2> DEFINE w == <<s, x[2]>>
    <2>7. w \in Nat \X Nat /\ w[1] = s /\ w[2] = x[2]
      BY <2>3, <2>5
    <2>8. w[2] \in 1..Len(calls[w[1]].parts)
      BY <2>1, <2>4, <2>7
    <2> HIDE DEF w
    <2>9. w \in PartSlots(calls) /\ w[1] # 1 /\ PartAt(next, x) = PartAt(calls, w)
      BY <2>4, <2>6, <2>7, <2>8 DEF PartSlots, PartAt, r
    <2> QED
      BY <2>4, <2>5, <2>7, <2>9 DEF w, r
  <1>6. ASSUME NEW z \in PartSlots(calls), z[1] # 1
        PROVE  \E x \in PartSlots(next) \ PartSlots(more) : Was(more, x) = z
    <2> DEFINE s == z[1]
               r == s + m - 1
               x == <<r, z[2]>>
    <2>1. s \in 2..n /\ z \in Nat \X Nat /\ z[2] \in 1..Len(calls[s].parts) /\ z = <<s, z[2]>>
      BY <1>1, <1>6 DEF PartSlots, n
    <2> HIDE DEF s
    <2>2. r \in 1..(m + n - 1) /\ r \notin 1..m /\ r - m + 1 = s /\ r \in Nat
      <3>1. s \in 2..n
        BY <2>1
      <3> QED
        BY <1>1, <3>1
    <2>3. next[r] = calls[s]
      BY <1>3, <2>1
    <2> HIDE DEF r
    <2>4. x \in Nat \X Nat /\ x[1] = r /\ x[2] = z[2]
      BY <2>1, <2>2
    <2>5. x \in PartSlots(next) /\ x \notin PartSlots(more)
      BY <1>2, <2>1, <2>2, <2>4, <2>3 DEF PartSlots, m
    <2>6. Was(more, x) = z
      BY <2>1, <2>2, <2>4 DEF Was, m
    <2> QED
      BY <2>5, <2>6
  <1> QED
    BY <1>2, <1>4, <1>5, <1>6 DEF Shifted

\* What is present stays present, but the parts of the first call.
LEMMA PresentReturned ==
    ASSUME NEW calls \in Seq(Requests), calls # <<>>, NEW more \in Seq(Requests),
           NEW next, Follows(calls, more, next), NEW done, NEW now, done \subseteq now, NEW p
    PROVE  /\ Present(p, now, more) => Present(p, now, next)
           /\ Present(p, done, calls) =>
                \/ Present(p, now, next)
                \/ \E k \in 1..Len(calls[1].parts) : p = calls[1].parts[k]
  <1>1. Shifted(calls, more, next)
    BY Replaced
  <1>2. ASSUME NEW x \in PartSlots(more), PartAt(more, x) = p PROVE Present(p, now, next)
    BY <1>1, <1>2 DEF Present, Shifted
  <1>3. ASSUME NEW z \in PartSlots(calls), PartAt(calls, z) = p, z[1] # 1
        PROVE  Present(p, now, next)
    <2>1. PICK x \in PartSlots(next) \ PartSlots(more) : Was(more, x) = z
      BY <1>1, <1>3 DEF Shifted
    <2>2. PartAt(next, x) = PartAt(calls, z)
      BY <1>1, <2>1 DEF Shifted
    <2> QED
      BY <1>3, <2>1, <2>2 DEF Present
  <1>4. ASSUME NEW z \in PartSlots(calls), PartAt(calls, z) = p, z[1] = 1
        PROVE  \E k \in 1..Len(calls[1].parts) : p = calls[1].parts[k]
    BY <1>4 DEF PartSlots, PartAt
  <1> QED
    BY <1>2, <1>3, <1>4 DEF Present

\* Every character stays in a part, if those of the first call do.
LEMMA CoverReturned ==
    ASSUME NEW calls \in Seq(Requests), calls # <<>>, NEW more \in Seq(Requests),
           NEW next, Follows(calls, more, next), NEW done, NEW now, done \subseteq now,
           NEW all, Covered(all, done, calls),
           \A k \in 1..Len(calls[1].parts) : \A i, c :
               Has(calls[1].parts[k], i, c) =>
                   \E p \in Parts : Has(p, i, c) /\ Present(p, now, more)
    PROVE  Covered(all, now, next)
  <1> SUFFICES ASSUME NEW i \in 1..Len(all), NEW c \in 0..(Size(all[i]) - 1)
               PROVE  \E p \in Parts : Has(p, i, c) /\ Present(p, now, next)
    BY DEF Covered
  <1>1. PICK p \in Parts : Has(p, i, c) /\ Present(p, done, calls)
    BY DEF Covered
  <1>2. CASE Present(p, now, next)
    BY <1>1, <1>2
  <1>3. CASE \E k \in 1..Len(calls[1].parts) : p = calls[1].parts[k]
    <2>1. PICK q \in Parts : Has(q, i, c) /\ Present(q, now, more)
      BY <1>1, <1>3
    <2>2. Present(q, now, next)
      BY <2>1, PresentReturned
    <2> QED
      BY <2>1, <2>2
  <1> QED
    BY <1>1, <1>2, <1>3, PresentReturned

\* The parts stay as short as their depths say, if the new ones are.
LEMMA HalvedReturned ==
    ASSUME NEW calls \in Seq(Requests), calls # <<>>, NEW more \in Seq(Requests),
           NEW next, Follows(calls, more, next),
           NEW all, AllHalved(all, calls), AllHalved(all, more)
    PROVE  AllHalved(all, next)
  <1> SUFFICES ASSUME NEW x \in PartSlots(next)
               PROVE  Halved(all, PartAt(next, x), next[x[1]].depth)
    BY DEF AllHalved
  <1>1. Shifted(calls, more, next)
    BY Replaced
  <1>2. CASE x \in PartSlots(more)
    BY <1>1, <1>2 DEF AllHalved, Shifted
  <1>3. CASE x \notin PartSlots(more)
    BY <1>1, <1>3 DEF AllHalved, Shifted
  <1> QED
    BY <1>2, <1>3

\* The tree grows by the halves of the parts of the first call.
LEMMA TreeReturned ==
    ASSUME NEW calls \in Seq(Requests), calls # <<>>, NEW more \in Seq(Requests),
           NEW next, Follows(calls, more, next), NEW done, NEW now, done \subseteq now,
           NEW all, NEW tree, IsTree(tree, all, done, calls),
           NEW extra \in SUBSET Parts, \A p \in extra : Present(p, now, more),
           \A k \in 1..Len(calls[1].parts) :
               \/ Present(calls[1].parts[k], now, more)
               \/ /\ Splittable(calls[1].parts[k])
                  /\ SplitInHalf(calls[1].parts[k])[1] \in extra
                  /\ SplitInHalf(calls[1].parts[k])[2] \in extra
    PROVE  IsTree(tree \union extra, all, now, next)
  <1>1. ASSUME NEW p \in tree
        PROVE  \/ Present(p, now, next)
               \/ /\ Splittable(p) /\ SplitInHalf(p)[1] \in tree \union extra
                  /\ SplitInHalf(p)[2] \in tree \union extra
    <2>1. CASE Present(p, done, calls)
      <3>1. CASE Present(p, now, next)
        BY <3>1
      <3>2. CASE \E k \in 1..Len(calls[1].parts) : p = calls[1].parts[k]
        <4>1. \/ Present(p, now, more)
              \/ Splittable(p) /\ SplitInHalf(p)[1] \in extra /\ SplitInHalf(p)[2] \in extra
          BY <3>2
        <4>2. Present(p, now, more) => Present(p, now, next)
          BY PresentReturned
        <4> QED
          BY <4>1, <4>2
      <3> QED
        BY <2>1, <3>1, <3>2, PresentReturned
    <2>2. CASE /\ Splittable(p) /\ SplitInHalf(p)[1] \in tree /\ SplitInHalf(p)[2] \in tree
      BY <2>2
    <2> QED
      BY <2>1, <2>2 DEF IsTree
  <1>2. ASSUME NEW p \in extra PROVE Present(p, now, next)
    BY <1>2, PresentReturned
  <1> QED
    BY <1>1, <1>2 DEF IsTree

\* The parts of more calls lie in those of the first call, apart from each
\* other, and an answered part is not divided.
Inside(g, calls, more, done, now) ==
    /\ g \in [PartSlots(more) -> 1..Len(calls[1].parts)]
    /\ \A x \in PartSlots(more) : Within(PartAt(more, x), calls[1].parts[g[x]])
    /\ \A x, y \in PartSlots(more) : x = y \/ g[x] # g[y] \/ Apart(PartAt(more, x), PartAt(more, y))
    /\ \A p \in now : \/ p \in done
                      \/ \E k \in 1..Len(calls[1].parts) :
                             p = calls[1].parts[k] /\ \A x \in PartSlots(more) : g[x] # k
\* Parts stay apart when the first call is replaced by parts inside of its own.
LEMMA ApartReturned ==
    ASSUME NEW calls \in Seq(Requests), calls # <<>>, NEW more \in Seq(Requests),
           NEW next, Follows(calls, more, next),
           NEW done \in SUBSET Parts, NEW now \in SUBSET Parts, AllApart(done, calls),
           NEW g, Inside(g, calls, more, done, now)
    PROVE  AllApart(now, next)
  <1> DEFINE from(x) == IF x \in PartSlots(more) THEN <<1, g[x]>> ELSE Was(more, x)
  <1>1. Shifted(calls, more, next)
    BY Replaced
  <1>2. next \in Seq(Requests)
    BY <1>1 DEF Shifted
  <1>3. ASSUME NEW seq \in Seq(Requests), NEW x \in PartSlots(seq) PROVE PartAt(seq, x) \in Parts
    <2>1. x[1] \in 1..Len(seq) /\ x[2] \in 1..Len(seq[x[1]].parts)
      BY DEF PartSlots
    <2>2. seq[x[1]].parts \in Seq(Parts)
      <3> DEFINE r == seq[x[1]]
      <3>1. r \in Requests
        BY <2>1
      <3> HIDE DEF r
      <3>2. r.parts \in Seq(Parts)
        BY <3>1 DEF Requests
      <3> QED
        BY <3>2 DEF r
    <2> QED
      BY <2>1, <2>2 DEF PartAt
  <1>4. ASSUME NEW k \in 1..Len(calls[1].parts)
        PROVE  <<1, k>> \in PartSlots(calls) /\ PartAt(calls, <<1, k>>) = calls[1].parts[k]
    <2>1. 1 \in 1..Len(calls) /\ k \in Nat
      BY DEF Requests
    <2> QED
      BY <2>1 DEF PartSlots, PartAt
  <1>5. ASSUME NEW x \in PartSlots(next)
        PROVE  /\ from(x) \in PartSlots(calls) /\ PartAt(next, x) \in Parts
               /\ PartAt(calls, from(x)) \in Parts
               /\ Within(PartAt(next, x), PartAt(calls, from(x)))
    <2>1. CASE x \in PartSlots(more)
      <3>1. PartAt(next, x) = PartAt(more, x)
        BY <1>1, <2>1 DEF Shifted
      <3>2. from(x) \in PartSlots(calls) /\ PartAt(calls, from(x)) = calls[1].parts[g[x]]
        BY <1>4, <2>1 DEF Inside
      <3> QED
        BY <1>2, <1>3, <2>1, <3>1, <3>2 DEF Inside
    <2>2. CASE x \notin PartSlots(more)
      <3>1. from(x) \in PartSlots(calls) /\ PartAt(next, x) = PartAt(calls, from(x))
        BY <1>1, <2>2 DEF Shifted
      <3>2. PartAt(next, x) \in Parts
        BY <1>2, <1>3
      <3> QED
        BY <3>1, <3>2, ApartInside
    <2> QED
      BY <2>1, <2>2
  <1>6. ASSUME NEW x \in PartSlots(next), NEW y \in PartSlots(next), x # y, from(x) = from(y)
        PROVE  Apart(PartAt(next, x), PartAt(next, y))
    <2>1. CASE x \in PartSlots(more) /\ y \in PartSlots(more)
      <3>1. g[x] = g[y]
        BY <1>6, <2>1
      <3> QED
        BY <1>1, <1>6, <2>1, <3>1 DEF Shifted, Inside
    <2>2. CASE ~(x \in PartSlots(more)) /\ ~(y \in PartSlots(more))
      <3>1. Was(more, x) = Was(more, y)
        BY <1>6, <2>2
      <3>2. x[1] - Len(more) + 1 = y[1] - Len(more) + 1 /\ x[2] = y[2]
        BY <3>1 DEF Was
      <3>3. x = <<x[1], x[2]>> /\ y = <<y[1], y[2]>> /\ x[1] \in Nat
            /\ y[1] \in Nat /\ Len(more) \in Nat
        BY DEF PartSlots
      <3>4. x[1] = y[1]
        BY <3>2, <3>3
      <3> QED
        BY <1>6, <3>2, <3>3, <3>4
    <2>3. ASSUME NEW v \in PartSlots(next), v \in PartSlots(more),
                 NEW w \in PartSlots(next), w \notin PartSlots(more)
          PROVE  from(v) # from(w)
      <3>1. from(v)[1] = 1
        BY <2>3
      <3>2. from(w)[1] # 1
        BY <1>1, <2>3 DEF Shifted
      <3> QED
        BY <3>1, <3>2
    <2> HIDE DEF from
    <2> QED
      BY <1>6, <2>1, <2>2, <2>3
  <1>7. ASSUME NEW p \in now, p \notin done
        PROVE  \E z \in PartSlots(calls) :
                   p = PartAt(calls, z) /\ \A x \in PartSlots(next) : from(x) # z
    <2>1. PICK k \in 1..Len(calls[1].parts) :
              p = calls[1].parts[k] /\ \A x \in PartSlots(more) : g[x] # k
      BY <1>7 DEF Inside
    <2>2. ASSUME NEW x \in PartSlots(next) PROVE from(x) # <<1, k>>
      <3>1. CASE x \in PartSlots(more)
        BY <2>1, <3>1
      <3>2. CASE x \notin PartSlots(more)
        <4>1. from(x)[1] # 1
          BY <1>1, <3>2 DEF Shifted
        <4> QED
          BY <4>1
      <3> QED
        BY <3>1, <3>2
    <2> HIDE DEF from
    <2> QED
      BY <1>4, <2>1, <2>2
  <1> HIDE DEF from
  <1>8. ASSUME NEW x \in PartSlots(next), NEW y \in PartSlots(next), x # y
        PROVE  Apart(PartAt(next, x), PartAt(next, y))
    <2>1. CASE from(x) # from(y)
      <3>1. Apart(PartAt(calls, from(x)), PartAt(calls, from(y)))
        BY <1>5, <2>1 DEF AllApart
      <3> QED
        BY <1>5, <3>1, ApartInside
    <2> QED
      BY <1>6, <1>8, <2>1
  <1>9. ASSUME NEW p \in now, NEW x \in PartSlots(next) PROVE Apart(p, PartAt(next, x))
    <2>1. Apart(p, PartAt(calls, from(x)))
      <3>1. CASE p \in done
        BY <1>5, <3>1 DEF AllApart
      <3>2. CASE p \notin done
        BY <1>5, <1>7, <3>2 DEF AllApart
      <3> QED
        BY <3>1, <3>2
    <2> QED
      BY <1>5, <2>1, ApartInside
  <1>10. ASSUME NEW p \in now, NEW q \in now, p # q PROVE Apart(p, q)
    <2>1. CASE p \in done /\ q \in done
      BY <1>10, <2>1 DEF AllApart
    <2>2. CASE p \notin done /\ q \notin done
      BY <1>7, <1>10, <2>2 DEF AllApart
    <2>3. ASSUME NEW v \in now, NEW w \in now, v \in done, w \notin done PROVE Apart(v, w)
      BY <1>7, <2>3 DEF AllApart
    <2> QED
      BY <2>1, <2>2, <2>3, ApartInside
  <1> QED
    BY <1>8, <1>9, <1>10 DEF AllApart

-----------------------------------------------------------------------------
(* The steps *)

\* The parts of the first call are answered.
LEMMA AnsweredOK ==
    ASSUME NEW all, NEW done \in SUBSET Parts, NEW calls \in Seq(Requests), calls # <<>>,
           PartsOK(all, done, calls),
           NEW now \in SUBSET Parts, done \subseteq now,
           \A k \in 1..Len(calls[1].parts) : calls[1].parts[k] \in now,
           \A p \in now : p \in done \/ \E k \in 1..Len(calls[1].parts) : p = calls[1].parts[k],
           NEW next, Follows(calls, <<>>, next)
    PROVE  next \in Seq(Requests) /\ PartsOK(all, now, next)
  <1> DEFINE none == <<>>
             parts == calls[1].parts
             g == [x \in PartSlots(none) |-> 1]
  <1>1. none \in Seq(Requests) /\ PartSlots(none) = {}
    BY DEF PartSlots
  <1>2. Shifted(calls, none, next)
    BY <1>1, Replaced
  <1>3. \A k \in 1..Len(parts) : parts[k] \in now
    OBVIOUS
  <1>4. done \subseteq now
    OBVIOUS
  <1>5. Follows(calls, none, next)
    OBVIOUS
  <1>6. \A p \in now : p \in done \/ \E k \in 1..Len(parts) : p = parts[k]
    OBVIOUS
  <1>7. \A k \in 1..Len(parts) : parts[k] \in Parts
    <2>1. calls[1] \in Requests
      OBVIOUS
    <2> QED
      BY <2>1 DEF Requests
  <1> HIDE DEF none
  <1>8. Covered(all, now, next)
    <2>1. Covered(all, done, calls)
      BY DEF PartsOK
    <2>2. \A k \in 1..Len(parts) : \A i, c :
              Has(parts[k], i, c) => \E p \in Parts : Has(p, i, c) /\ Present(p, now, none)
      BY <1>3, <1>7 DEF Present
    <2> QED
      BY <1>1, <1>4, <1>5, <2>1, <2>2, CoverReturned
  <1>9. AllApart(now, next)
    <2>1. AllApart(done, calls)
      BY DEF PartsOK
    <2>2. g \in [PartSlots(none) -> 1..Len(parts)]
      BY <1>1
    <2>3. /\ \A x \in PartSlots(none) : Within(PartAt(none, x), parts[g[x]])
          /\ \A x, y \in PartSlots(none) :
                x = y \/ g[x] # g[y] \/ Apart(PartAt(none, x), PartAt(none, y))
      BY <1>1
    <2>4. \A p \in now : \/ p \in done
                         \/ \E k \in 1..Len(parts) :
                               p = parts[k] /\ \A x \in PartSlots(none) : g[x] # k
      BY <1>1, <1>6
    <2> HIDE DEF g
    <2>5. Inside(g, calls, none, done, now)
      BY <2>2, <2>3, <2>4 DEF Inside
    <2> QED
      BY <1>1, <1>5, <2>1, <2>5, ApartReturned
  <1>10. AllHalved(all, next)
    <2>1. AllHalved(all, calls) /\ AllHalved(all, none)
      BY <1>1 DEF PartsOK, AllHalved
    <2> QED
      BY <1>1, <1>5, <2>1, HalvedReturned
  <1>11. \E tree : IsTree(tree, all, now, next)
    <2>1. PICK tree : IsTree(tree, all, done, calls)
      BY DEF PartsOK
    <2>2. \A k \in 1..Len(parts) : Present(parts[k], now, none)
      BY <1>3 DEF Present
    <2>3. {} \in SUBSET Parts /\ \A p \in {} : Present(p, now, none)
      OBVIOUS
    <2> DEFINE extra == {}
    <2> HIDE DEF extra
    <2>4. IsTree(tree \union extra, all, now, next)
      BY <1>1, <1>4, <1>5, <2>1, <2>2, <2>3, TreeReturned DEF extra
    <2> QED
      BY <2>4
  <1> QED
    BY <1>2, <1>8, <1>9, <1>10, <1>11 DEF PartsOK, Shifted

\* The batch of the first call is divided.
LEMMA BatchSplitOK ==
    ASSUME NEW all, NEW done \in SUBSET Parts, NEW calls \in Seq(Requests), calls # <<>>,
           PartsOK(all, done, calls), NEW more,
           more = [k \in 1..2 |-> [parts |-> Halves(calls[1].parts)[k], depth |-> calls[1].depth]],
           NEW next, Follows(calls, more, next)
    PROVE  next \in Seq(Requests) /\ PartsOK(all, done, next)
  <1> DEFINE parts == calls[1].parts
             n == Len(parts)
             mid == n \div 2
             left == SubSeq(parts, 1, mid)
             right == SubSeq(parts, mid + 1, n)
             depth == calls[1].depth
             g == [x \in PartSlots(more) |-> IF x[1] = 1 THEN x[2] ELSE mid + x[2]]
  <1>1. parts \in Seq(Parts) /\ depth \in 0..MaxDepth
    <2>1. calls[1] \in Requests
      OBVIOUS
    <2> QED
      BY <2>1 DEF Requests
  <1>2. n \in Nat /\ mid \in 0..n /\ n - mid \in Nat
    <2>1. n \in Nat
      BY <1>1
    <2> HIDE DEF n
    <2> QED
      BY <2>1
  <1>3. more = <<[parts |-> left, depth |-> depth], [parts |-> right, depth |-> depth]>>
    <2>1. Halves(parts) = <<left, right>>
      BY DEF Halves
    <2>2. more = [k \in 1..2 |-> [parts |-> Halves(parts)[k], depth |-> depth]]
      OBVIOUS
    <2> HIDE DEF left, right, depth
    <2> QED
      BY <2>1, <2>2
  <1> HIDE DEF parts, depth
  <1>4. /\ left \in Seq(Parts) /\ Len(left) = mid /\ \A k \in 1..mid : left[k] = parts[k]
        /\ right \in Seq(Parts) /\ Len(right) = n - mid
        /\ \A k \in 1..(n - mid) : right[k] = parts[mid + k]
    <2> HIDE DEF mid
    <2> QED
      BY <1>1, <1>2, CutSequence
  <1> HIDE DEF left, right
  <1>5. /\ more \in Seq(Requests) /\ Len(more) = 2
        /\ more[1].parts = left /\ more[2].parts = right
        /\ more[1].depth = depth /\ more[2].depth = depth
    BY <1>1, <1>3, <1>4 DEF Requests
  <1> HIDE DEF n, mid
  <1>6. ASSUME NEW x \in PartSlots(more)
        PROVE  /\ g[x] \in 1..n /\ PartAt(more, x) = parts[g[x]] /\ more[x[1]].depth = depth
               /\ x = <<x[1], x[2]>> /\ x[2] \in Nat
               /\ \/ x[1] = 1 /\ x[2] \in 1..mid
                  \/ x[1] = 2 /\ x[2] \in 1..(n - mid)
    <2>1. x[1] \in 1..2 /\ x = <<x[1], x[2]>> /\ x[2] \in Nat /\ x[2] \in 1..Len(more[x[1]].parts)
      BY <1>5 DEF PartSlots
    <2>2. CASE x[1] = 1
      <3>1. x[2] \in 1..mid /\ g[x] = x[2]
        BY <1>4, <1>5, <2>1, <2>2
      <3>2. x[2] \in 1..n
        BY <1>2, <3>1
      <3> QED
        BY <1>4, <1>5, <2>1, <2>2, <3>1, <3>2 DEF PartAt
    <2>3. CASE x[1] = 2
      <3>1. x[2] \in 1..(n - mid) /\ g[x] = mid + x[2]
        BY <1>4, <1>5, <2>1, <2>3
      <3>2. mid + x[2] \in 1..n
        BY <1>2, <3>1
      <3> QED
        BY <1>4, <1>5, <2>1, <2>3, <3>1, <3>2 DEF PartAt
    <2> QED
      BY <2>1, <2>2, <2>3
  <1>7. ASSUME NEW k \in 1..n PROVE \E x \in PartSlots(more) : PartAt(more, x) = parts[k]
    <2>1. CASE k \in 1..mid
      <3>1. <<1, k>> \in PartSlots(more) /\ PartAt(more, <<1, k>>) = parts[k]
        BY <1>4, <1>5, <2>1 DEF PartSlots, PartAt
      <3> QED
        BY <3>1
    <2>2. CASE k \notin 1..mid
      <3>1. k - mid \in 1..(n - mid) /\ mid + (k - mid) = k /\ k - mid \in Nat
        BY <1>2, <2>2
      <3>2. <<2, k - mid>> \in PartSlots(more) /\ PartAt(more, <<2, k - mid>>) = parts[k]
        BY <1>4, <1>5, <3>1 DEF PartSlots, PartAt
      <3> QED
        BY <3>2
    <2> QED
      BY <2>1, <2>2
  <1>8. ASSUME NEW x \in PartSlots(more), NEW y \in PartSlots(more), x # y PROVE g[x] # g[y]
    <2>1. CASE x[1] = y[1]
      <3>1. x[2] # y[2]
        BY <1>6, <1>8, <2>1
      <3> QED
        BY <1>2, <1>6, <2>1, <3>1
    <2>2. ASSUME NEW v \in PartSlots(more), NEW w \in PartSlots(more), v[1] = 1, w[1] = 2
          PROVE  g[v] # g[w]
      <3>1. g[v] = v[2] /\ g[w] = mid + w[2] /\ v[2] \in 1..mid /\ w[2] \in 1..(n - mid)
        BY <1>6, <2>2
      <3> QED
        BY <1>2, <3>1
    <2> HIDE DEF g
    <2> QED
      BY <1>6, <2>1, <2>2
  <1>9. g \in [PartSlots(more) -> 1..n]
    BY <1>6
  <1> HIDE DEF g
  <1>10. Shifted(calls, more, next)
    BY <1>5, Replaced
  <1>11. \A k \in 1..n : Present(parts[k], done, more)
    BY <1>7 DEF Present
  <1>12. \A k \in 1..n : parts[k] \in Parts
    BY <1>1 DEF n
  <1> USE DEF n, parts
  <1>13. Covered(all, done, next)
    <2>1. Covered(all, done, calls)
      BY DEF PartsOK
    <2>2. \A k \in 1..n : \A i, c :
              Has(parts[k], i, c) => \E p \in Parts : Has(p, i, c) /\ Present(p, done, more)
      BY <1>11, <1>12
    <2> QED
      BY <1>5, <2>1, <2>2, CoverReturned
  <1>14. AllApart(done, next)
    <2>1. AllApart(done, calls)
      BY DEF PartsOK
    <2>2. \A x \in PartSlots(more) : Within(PartAt(more, x), parts[g[x]])
      BY <1>6, <1>12, ApartInside
    <2>3. \A x, y \in PartSlots(more) :
              x = y \/ g[x] # g[y] \/ Apart(PartAt(more, x), PartAt(more, y))
      BY <1>8
    <2>4. Inside(g, calls, more, done, done)
      BY <1>9, <2>2, <2>3 DEF Inside
    <2> QED
      BY <1>5, <2>1, <2>4, ApartReturned
  <1>15. AllHalved(all, next)
    <2>1. AllHalved(all, calls)
      BY DEF PartsOK
    <2>2. \A k \in 1..n : Halved(all, parts[k], depth)
      <3>1. ASSUME NEW k \in 1..n PROVE Halved(all, parts[k], depth)
        <4>1. <<1, k>> \in PartSlots(calls) /\ PartAt(calls, <<1, k>>) = parts[k]
          BY <1>2 DEF PartSlots, PartAt
        <4>2. calls[<<1, k>>[1]].depth = depth
          BY DEF depth
        <4> QED
          BY <2>1, <4>1, <4>2 DEF AllHalved
      <3> QED
        BY <3>1
    <2>3. AllHalved(all, more)
      BY <1>6, <2>2 DEF AllHalved
    <2> QED
      BY <1>5, <2>1, <2>3, HalvedReturned
  <1>16. \E tree : IsTree(tree, all, done, next)
    <2>1. PICK tree : IsTree(tree, all, done, calls)
      BY DEF PartsOK
    <2> DEFINE extra == {}
    <2>2. extra \in SUBSET Parts /\ \A p \in extra : Present(p, done, more)
      OBVIOUS
    <2> HIDE DEF extra
    <2>3. IsTree(tree \union extra, all, done, next)
      BY <1>5, <1>11, <2>1, <2>2, TreeReturned
    <2> QED
      BY <2>3
  <1> QED
    BY <1>10, <1>13, <1>14, <1>15, <1>16 DEF PartsOK, Shifted

\* A factor keeps the order of two numbers.
LEMMA Scaled ==
    ASSUME NEW a \in Int, NEW b \in Int, a <= b, NEW e \in Nat
    PROVE  a * e <= b * e
  <1>1. (b - a) * e >= 0
    OBVIOUS
  <1>2. (b - a) * e = b * e - a * e
    OBVIOUS
  <1>3. a * e \in Int /\ b * e \in Int
    OBVIOUS
  <1> QED
    BY <1>1, <1>2, <1>3

\* A factor of two is either factor's.
LEMMA Doubled ==
    ASSUME NEW a \in Int, NEW e \in Nat
    PROVE  a * (2 * e) = (2 * a) * e
  <1>1. a * (2 * e) = 2 * (a * e)
    OBVIOUS
  <1>2. (2 * a) * e = 2 * (a * e)
    OBVIOUS
  <1> QED
    BY <1>1, <1>2

\* A half is shorter by a factor of two.
LEMMA ShorterHalf ==
    ASSUME NEW a \in Nat, NEW m \in Nat, NEW size \in Nat, NEW depth \in Nat,
           2 * a <= m + 1, (m - 1) * 2^depth < size
    PROVE  (a - 1) * 2^(depth + 1) < size
  <1> DEFINE e == 2^depth
             x == (2 * (a - 1)) * e
             y == (m - 1) * e
  <1>1. e \in Nat /\ 2^(depth + 1) = 2 * e /\ y < size
    BY TwoExp
  <1> HIDE DEF e
  <1>2. 2 * (a - 1) \in Int /\ a - 1 \in Int /\ m - 1 \in Int /\ 2 * (a - 1) <= m - 1
    OBVIOUS
  <1>3. x <= y
    BY <1>1, <1>2, Scaled
  <1>4. (a - 1) * (2 * e) = x
    BY <1>1, <1>2, Doubled
  <1>5. x \in Int /\ y \in Int
    BY <1>1, <1>2
  <1> HIDE DEF x, y
  <1>6. x < size
    BY <1>1, <1>3, <1>5
  <1> QED
    BY <1>1, <1>4, <1>6

\* The halves of a part lie side by side, and are all of it.
LEMMA HalvesTile ==
    ASSUME NEW p \in Parts, NEW h, AreHalves(p, h)
    PROVE  /\ h[1] \in Parts /\ h[2] \in Parts
           /\ Within(h[1], p) /\ Within(h[2], p) /\ Apart(h[1], h[2]) /\ Apart(h[2], h[1])
           /\ \A i, c : Has(p, i, c) => Has(h[1], i, c) \/ Has(h[2], i, c)
  <1> DEFINE at == p.at
             m == Size(p.lines)
             a == Size(h[1].lines)
             b == Size(h[2].lines)
  <1>1. /\ a \in Nat /\ b \in Nat /\ m = a + b
        /\ h[1].text = p.text /\ h[2].text = p.text /\ h[1].at = at /\ h[2].at = at + a
    BY DEF AreHalves
  <1>2. at \in Nat
    BY DEF Parts
  <1> HIDE DEF at, a, b, m
  <1>3. h[1].at <= at + m /\ h[1].at + a <= at + m /\ at <= h[1].at /\ at <= h[2].at
        /\ h[2].at + b <= at + m /\ h[1].at + a <= h[2].at
    BY <1>1, <1>2
  <1>4. \A c : c \in at..(at + m - 1) => c \in at..(at + a - 1) \/ c \in (at + a)..(at + a + b - 1)
    BY <1>1, <1>2
  <1>5. \A i, c : Has(p, i, c) => Has(h[1], i, c) \/ Has(h[2], i, c)
    BY <1>1, <1>4 DEF Has, at, m, a, b
  <1>6. h[1] \in Parts /\ h[2] \in Parts
    BY DEF AreHalves
  <1> QED
    BY <1>1, <1>3, <1>5, <1>6 DEF Within, Apart, at, m, a, b

\* A half is as short as the next depth says.
LEMMA HalfIsHalved ==
    ASSUME NEW all, NEW p \in Parts, NEW h, AreHalves(p, h), Splittable(p), NEW depth \in Nat,
           Halved(all, p, depth), Size(all[p.text]) \in Nat, NEW r \in 1..2
    PROVE  Halved(all, h[r], depth + 1)
  <1> DEFINE n == Len(p.lines)
             m == Size(p.lines)
             a == Size(h[r].lines)
             size == Size(all[p.text])
  <1>1. /\ h[r].text = p.text /\ a \in Nat
        /\ n = 1 => Len(h[r].lines) = 1 /\ 2 * a <= m + 1
    <2>1. r = 1 \/ r = 2
      OBVIOUS
    <2>2. /\ h[r].text = p.text /\ a \in Nat
      BY <2>1 DEF AreHalves
    <2> QED
      BY <2>2 DEF AreHalves
  <1>2. m \in Nat /\ n \in Nat /\ n # 0
    <2>1. p.lines \in Seq(Nat) /\ m >= 2
      BY DEF Parts, Splittable
    <2> QED
      BY <2>1, Sizes
  <1> HIDE DEF n, m, a, size
  <1>3. ASSUME Len(all[p.text]) <= 1
        PROVE  Len(h[r].lines) <= 1 /\ (a - 1) * 2^(depth + 1) < size
    <2>1. n <= 1 /\ (m - 1) * 2^depth < size
      BY <1>3 DEF Halved, n, m, size
    <2>2. n = 1
      BY <1>2, <2>1
    <2>3. Len(h[r].lines) = 1 /\ 2 * a <= m + 1
      BY <1>1, <2>2
    <2>4. size \in Nat
      BY DEF size
    <2>5. (a - 1) * 2^(depth + 1) < size
      BY <1>1, <1>2, <2>1, <2>3, <2>4, ShorterHalf
    <2> QED
      BY <2>3, <2>5
  <1> QED
    BY <1>1, <1>3 DEF Halved, a, size

\* Two calls with a part each.
IsTwo(h, d, more) == more = [k \in 1..2 |-> [parts |-> <<h[k]>>, depth |-> d]]
\* The parts of such calls.
Two(h, d, more) ==
    /\ more \in Seq(Requests)
    /\ \A r \in 1..2 : <<r, 1>> \in PartSlots(more) /\ PartAt(more, <<r, 1>>) = h[r]
    /\ \A x \in PartSlots(more) : /\ x = <<x[1], x[2]>> /\ x[2] = 1
                                  /\ PartAt(more, x) = h[x[1]] /\ more[x[1]].depth = d
                                  /\ x[1] = 1 \/ x[1] = 2
\* Calls of two parts have those parts.
LEMMA TwoCalls ==
    ASSUME NEW h, h[1] \in Parts, h[2] \in Parts, NEW d \in 0..MaxDepth, NEW more,
           IsTwo(h, d, more)
    PROVE  Two(h, d, more)
  <1>1. more = <<[parts |-> <<h[1]>>, depth |-> d], [parts |-> <<h[2]>>, depth |-> d]>>
    BY DEF IsTwo
  <1>2. more \in Seq(Requests) /\ Len(more) = 2
    BY <1>1 DEF Requests
  <1>3. ASSUME NEW r \in 1..2
        PROVE  more[r].parts = <<h[r]>> /\ more[r].depth = d /\ Len(more[r].parts) = 1
               /\ more[r].parts[1] = h[r]
    BY DEF IsTwo
  <1> DEFINE calls == more
  <1>4. calls \in Seq(Requests) /\ Len(calls) = 2
    BY <1>2
  <1>5. \A r \in 1..2 : /\ calls[r].depth = d /\ Len(calls[r].parts) = 1
                        /\ calls[r].parts[1] = h[r]
    BY <1>3
  <1>6. more = calls
    OBVIOUS
  <1> HIDE DEF calls
  <1>7. ASSUME NEW r \in 1..2
        PROVE  <<r, 1>> \in PartSlots(calls) /\ PartAt(calls, <<r, 1>>) = h[r]
    <2> DEFINE x == <<r, 1>>
    <2>1. x \in Nat \X Nat /\ x[1] = r /\ x[2] = 1
      OBVIOUS
    <2> HIDE DEF x
    <2>2. x[1] \in 1..Len(calls) /\ x[2] \in 1..Len(calls[x[1]].parts)
      BY <1>4, <1>5, <2>1
    <2>3. x \in PartSlots(calls) /\ PartAt(calls, x) = h[r]
      BY <1>5, <2>1, <2>2 DEF PartSlots, PartAt
    <2> QED
      BY <2>3 DEF x
  <1>8. ASSUME NEW x \in PartSlots(calls)
        PROVE  /\ x = <<x[1], x[2]>> /\ x[2] = 1
               /\ PartAt(calls, x) = h[x[1]] /\ calls[x[1]].depth = d
               /\ x[1] = 1 \/ x[1] = 2
    <2>1. x \in Nat \X Nat /\ x[1] \in 1..2 /\ x[2] \in 1..Len(calls[x[1]].parts)
      BY <1>4 DEF PartSlots
    <2> DEFINE r == x[1]
    <2>2. r \in 1..2 /\ x = <<r, x[2]>>
      BY <2>1
    <2>3. x[2] \in 1..1
      BY <1>5, <2>1
    <2>4. x[2] = 1 /\ (r = 1 \/ r = 2)
      BY <2>2, <2>3
    <2> HIDE DEF r
    <2>5. calls[r].parts[1] = h[r] /\ calls[r].depth = d
      BY <1>5, <2>2
    <2>6. PartAt(calls, x) = h[r]
      BY <2>4, <2>5 DEF PartAt, r
    <2> QED
      BY <2>2, <2>4, <2>5, <2>6 DEF r
  <1> QED
    BY <1>2, <1>6, <1>7, <1>8 DEF Two

\* The text of the first call is divided.
LEMMA TextSplitOK ==
    ASSUME NEW all, NEW done \in SUBSET Parts, NEW calls \in Seq(Requests), calls # <<>>,
           \A i \in 1..Len(all) : Size(all[i]) \in Nat,
           PartsOK(all, done, calls), NEW p, NEW h, NEW depth,
           Len(calls[1].parts) = 1, p = calls[1].parts[1], depth = calls[1].depth,
           Splittable(p), depth < MaxDepth, h = SplitInHalf(p), NEW more,
           IsTwo(h, depth + 1, more),
           NEW next, Follows(calls, more, next)
    PROVE  next \in Seq(Requests) /\ PartsOK(all, done, next)
  <1> DEFINE g == [x \in PartSlots(more) |-> 1]
  <1>1. p \in Parts /\ depth \in 0..MaxDepth
    <2>1. calls[1] \in Requests
      OBVIOUS
    <2>2. calls[1].parts \in Seq(Parts) /\ calls[1].depth \in 0..MaxDepth
      BY <2>1 DEF Requests
    <2>3. 1 \in 1..Len(calls[1].parts)
      OBVIOUS
    <2>4. calls[1].parts[1] \in Parts
      BY <2>2, <2>3
    <2> QED
      BY <2>2, <2>4
  <1>2. AreHalves(p, h)
    BY <1>1, Halving
  <1>3. h[1] \in Parts /\ h[2] \in Parts
    BY <1>1, <1>2, HalvesTile
  <1>4. /\ more \in Seq(Requests)
        /\ \A r \in 1..2 : <<r, 1>> \in PartSlots(more) /\ PartAt(more, <<r, 1>>) = h[r]
        /\ \A x \in PartSlots(more) : /\ x = <<x[1], x[2]>> /\ x[2] = 1
                                      /\ PartAt(more, x) = h[x[1]] /\ more[x[1]].depth = depth + 1
                                      /\ x[1] = 1 \/ x[1] = 2
    <2>1. depth + 1 \in 0..MaxDepth
      BY <1>1, InstanceAssumption
    <2>2. h[1] \in Parts /\ h[2] \in Parts
      BY <1>3
    <2>3. Two(h, depth + 1, more)
      BY <2>1, <2>2, TwoCalls
    <2> QED
      BY <2>3 DEF Two
  <1>5. Present(h[1], done, more) /\ Present(h[2], done, more)
    <2>1. 1 \in 1..2 /\ 2 \in 1..2
      OBVIOUS
    <2>2. /\ <<1, 1>> \in PartSlots(more) /\ PartAt(more, <<1, 1>>) = h[1]
          /\ <<2, 1>> \in PartSlots(more) /\ PartAt(more, <<2, 1>>) = h[2]
      BY <1>4, <2>1
    <2> QED
      BY <2>2 DEF Present
  <1>6. Shifted(calls, more, next)
    BY <1>4, Replaced
  <1> HIDE DEF g
  <1>7. Covered(all, done, next)
    <2>1. Covered(all, done, calls)
      BY DEF PartsOK
    <2>2. ASSUME NEW i, NEW c, Has(p, i, c)
          PROVE  \E q \in Parts : Has(q, i, c) /\ Present(q, done, more)
      <3>1. Has(h[1], i, c) \/ Has(h[2], i, c)
        BY <1>1, <1>2, <2>2, HalvesTile
      <3> QED
        BY <1>3, <1>5, <3>1
    <2>3. \A k \in 1..Len(calls[1].parts) : \A i, c :
              Has(calls[1].parts[k], i, c) =>
                  \E q \in Parts : Has(q, i, c) /\ Present(q, done, more)
      <3>1. \A k \in 1..Len(calls[1].parts) : calls[1].parts[k] = p
        OBVIOUS
      <3> QED
        BY <2>2, <3>1
    <2>4. done \subseteq done
      OBVIOUS
    <2> QED
      BY <1>4, <2>1, <2>3, <2>4, CoverReturned
  <1>8. AllApart(done, next)
    <2>1. AllApart(done, calls)
      BY DEF PartsOK
    <2>2. Within(h[1], p) /\ Within(h[2], p) /\ Apart(h[1], h[2]) /\ Apart(h[2], h[1])
      BY <1>1, <1>2, HalvesTile
    <2>3. Inside(g, calls, more, done, done)
      <3>1. g \in [PartSlots(more) -> 1..Len(calls[1].parts)]
        BY DEF g
      <3>2. \A x \in PartSlots(more) : Within(PartAt(more, x), calls[1].parts[g[x]])
        BY <1>4, <2>2 DEF g
      <3>3. ASSUME NEW x \in PartSlots(more), NEW y \in PartSlots(more), x # y
            PROVE  Apart(PartAt(more, x), PartAt(more, y))
        <4>1. x[1] # y[1] /\ (x[1] = 1 \/ x[1] = 2) /\ (y[1] = 1 \/ y[1] = 2)
          BY <1>4, <3>3
        <4>2. PartAt(more, x) = h[x[1]] /\ PartAt(more, y) = h[y[1]]
          BY <1>4
        <4>3. Apart(h[x[1]], h[y[1]])
          BY <2>2, <4>1
        <4> QED
          BY <4>2, <4>3
      <3> QED
        BY <3>1, <3>2, <3>3 DEF Inside
    <2> QED
      BY <1>4, <2>1, <2>3, ApartReturned
  <1>9. AllHalved(all, next)
    <2>1. AllHalved(all, calls)
      BY DEF PartsOK
    <2>2. Halved(all, p, depth)
      <3>1. <<1, 1>> \in PartSlots(calls) /\ PartAt(calls, <<1, 1>>) = p
        BY DEF PartSlots, PartAt
      <3>2. calls[<<1, 1>>[1]].depth = depth
        OBVIOUS
      <3> QED
        BY <2>1, <3>1, <3>2 DEF AllHalved
    <2>3. ASSUME NEW r \in 1..2 PROVE Halved(all, h[r], depth + 1)
      <3>1. depth \in Nat /\ Size(all[p.text]) \in Nat
        BY <1>1, <2>2 DEF Halved
      <3> QED
        BY <1>1, <1>2, <2>2, <3>1, HalfIsHalved
    <2>4. AllHalved(all, more)
      BY <1>4, <2>3 DEF AllHalved
    <2> QED
      BY <1>4, <2>1, <2>4, HalvedReturned
  <1>10. \E tree : IsTree(tree, all, done, next)
    <2>1. PICK tree : IsTree(tree, all, done, calls)
      BY DEF PartsOK
    <2> DEFINE extra == {h[1], h[2]}
    <2>2. extra \in SUBSET Parts /\ \A q \in extra : Present(q, done, more)
      BY <1>3, <1>5
    <2>3. \A k \in 1..Len(calls[1].parts) :
              /\ Splittable(calls[1].parts[k])
              /\ SplitInHalf(calls[1].parts[k])[1] \in extra
              /\ SplitInHalf(calls[1].parts[k])[2] \in extra
      <3>1. \A k \in 1..Len(calls[1].parts) : calls[1].parts[k] = p
        OBVIOUS
      <3> QED
        BY <3>1
    <2>4. done \subseteq done
      OBVIOUS
    <2> HIDE DEF extra
    <2>5. IsTree(tree \union extra, all, done, next)
      BY <1>4, <2>1, <2>2, <2>3, <2>4, TreeReturned
    <2> QED
      BY <2>5
  <1> QED
    BY <1>6, <1>7, <1>8, <1>9, <1>10 DEF PartsOK, Shifted

-----------------------------------------------------------------------------
(* The invariant *)

\* The batch starts as one call of whole texts.
LEMMA InitOK == EmbedInit => EmbedInv
  <1> SUFFICES ASSUME EmbedInit PROVE EmbedInv
    OBVIOUS
  <1> DEFINE n == Len(texts)
             parts == [i \in 1..n |-> Whole(i)]
  <1>1. texts \in Seq(Texts)
    BY DEF EmbedInit
  <1>2. n \in Nat /\ pending = <<[parts |-> parts, depth |-> 0]>> /\ Answers = {}
    BY <1>1 DEF EmbedInit, Answers
  <1>3. ASSUME NEW i \in 1..n
        PROVE  texts[i] \in Seq(Nat) /\ Whole(i) \in Parts /\ parts[i] = Whole(i)
               /\ Size(texts[i]) \in Nat
    <2>1. texts[i] \in Seq(Nat)
      BY <1>1, InstanceAssumption
    <2> QED
      BY <2>1, Sizes DEF Whole, Parts
  <1>4. ASSUME NEW i \in 1..n
        PROVE  Whole(i).text = i /\ Whole(i).at = 0 /\ Whole(i).lines = texts[i]
    BY DEF Whole
  <1>5. parts \in Seq(Parts) /\ Len(parts) = n
    BY <1>2, <1>3
  <1> HIDE DEF parts, n
  <1>6. Len(pending) = 1 /\ pending[1].parts = parts /\ pending[1].depth = 0
    BY <1>2
  <1>7. ASSUME NEW x \in PartSlots(pending)
        PROVE  /\ x = <<1, x[2]>> /\ x[2] \in 1..n
               /\ PartAt(pending, x) = Whole(x[2]) /\ pending[x[1]].depth = 0
    <2>1. x \in Nat \X Nat /\ x[1] \in 1..1 /\ x[2] \in 1..Len(pending[x[1]].parts)
      BY <1>6 DEF PartSlots
    <2>2. x[1] = 1 /\ x = <<x[1], x[2]>>
      BY <2>1
    <2>3. x[2] \in 1..n
      BY <1>5, <1>6, <2>1, <2>2
    <2> QED
      BY <1>3, <1>6, <2>2, <2>3 DEF PartAt
  <1>8. ASSUME NEW i \in 1..n
        PROVE  <<1, i>> \in PartSlots(pending) /\ PartAt(pending, <<1, i>>) = Whole(i)
    <2>1. 1 \in 1..Len(pending) /\ i \in Nat /\ i \in 1..Len(pending[1].parts)
      BY <1>2, <1>5, <1>6
    <2> QED
      BY <1>3, <1>6, <2>1 DEF PartSlots, PartAt
  <1>9. ASSUME NEW i \in 1..n PROVE Present(Whole(i), Answers, pending)
    BY <1>8 DEF Present
  <1>10. TypeOK
    <2>1. 0 \in 0..MaxDepth
      BY InstanceAssumption
    <2>2. [parts |-> parts, depth |-> 0] \in Requests
      BY <1>5, <2>1 DEF Requests
    <2>3. pending \in Seq(Requests)
      BY <1>2, <2>2
    <2>4. /\ embedded = {} /\ skipped = {} /\ attempts = 0 /\ failed = FALSE
          /\ perText \in BOOLEAN /\ skip \in BOOLEAN
      BY DEF EmbedInit
    <2>5. 0 \in 0..3
      OBVIOUS
    <2> QED
      BY <1>1, <2>3, <2>4, <2>5 DEF TypeOK
  <1>11. Covered(texts, Answers, pending)
    <2> SUFFICES ASSUME NEW i \in 1..n, NEW c \in 0..(Size(texts[i]) - 1)
                 PROVE  \E p \in Parts : Has(p, i, c) /\ Present(p, Answers, pending)
      BY DEF Covered, n
    <2>1. Size(texts[i]) \in Nat
      BY <1>3
    <2> DEFINE size == Size(texts[i])
    <2> HIDE DEF size
    <2>2. c \in 0..(0 + size - 1)
      BY <2>1 DEF size
    <2>3. Has(Whole(i), i, c)
      BY <1>4, <2>2 DEF Has, size
    <2> QED
      BY <1>3, <1>9, <2>3
  <1>12. AllApart(Answers, pending)
    <2>1. ASSUME NEW x \in PartSlots(pending), NEW y \in PartSlots(pending), x # y
          PROVE  Apart(PartAt(pending, x), PartAt(pending, y))
      <3>1. x[2] # y[2]
        BY <1>7, <2>1
      <3> QED
        BY <1>4, <1>7, <3>1 DEF Apart
    <2> QED
      BY <1>2, <2>1 DEF AllApart
  <1>13. AllHalved(texts, pending)
    <2> SUFFICES ASSUME NEW x \in PartSlots(pending)
                 PROVE  Halved(texts, PartAt(pending, x), pending[x[1]].depth)
      BY DEF AllHalved
    <2>1. \A i \in 1..n : (Size(texts[i]) - 1) * 2^0 < Size(texts[i])
      <3>1. ASSUME NEW i \in 1..n PROVE (Size(texts[i]) - 1) * 2^0 < Size(texts[i])
        <4> DEFINE size == Size(texts[i])
                   one == 2^0
        <4>1. size \in Nat /\ one = 1
          BY <1>3, TwoExp
        <4> HIDE DEF size, one
        <4>2. (size - 1) * one < size
          BY <4>1
        <4> QED
          BY <4>2 DEF size, one
      <3> QED
        BY <3>1
    <2>2. x[2] \in 1..n /\ PartAt(pending, x) = Whole(x[2]) /\ pending[x[1]].depth = 0
      BY <1>7
    <2> DEFINE i == x[2]
    <2> HIDE DEF i
    <2>3. Halved(texts, Whole(i), 0)
      BY <1>4, <2>1, <2>2 DEF Halved, n, i
    <2> QED
      BY <2>2, <2>3 DEF i
  <1>14. \E tree : IsTree(tree, texts, Answers, pending)
    <2> DEFINE tree == {Whole(i) : i \in 1..n}
    <2>1. \A i \in 1..n : [text |-> i, at |-> 0, lines |-> texts[i]] \in tree
      BY DEF Whole
    <2>2. tree \subseteq Parts /\ \A p \in tree : Present(p, Answers, pending)
      BY <1>3, <1>9
    <2> HIDE DEF tree
    <2>3. IsTree(tree, texts, Answers, pending)
      BY <2>1, <2>2 DEF IsTree, n
    <2> QED
      BY <2>3
  <1>15. OnlyHopelessTextsAreDropped
    BY DEF EmbedInit, OnlyHopelessTextsAreDropped
  <1> QED
    BY <1>10, <1>11, <1>12, <1>13, <1>14, <1>15 DEF EmbedInv, PartsOK

\* A text that is given up is too long, however often it were divided.
LEMMA GivenUpIsHopeless ==
    ASSUME EmbedInv, TooLong, Single, AtLimit
    PROVE  LET p == Request.parts[1]
           IN /\ p \in Parts /\ Size(p.lines) > Limit
              /\ Size(p.lines) >= 2 => \/ Len(texts[p.text]) > 1
                                       \/ Size(texts[p.text]) > Limit * 2 ^ MaxDepth
  <1> DEFINE p == Request.parts[1]
             m == Size(p.lines)
             size == Size(texts[p.text])
             depth == Request.depth
  <1>1. pending \in Seq(Requests) /\ pending # <<>> /\ Request = pending[1]
        /\ Len(Request.parts) = 1
    BY DEF EmbedInv, TypeOK, TooLong, Asking, Request, Single
  <1>2. Request.parts \in Seq(Parts) /\ depth \in 0..MaxDepth
    <2>1. pending[1] \in Requests
      BY <1>1
    <2> QED
      BY <1>1, <2>1 DEF Requests
  <1>3. p \in Parts /\ m \in Nat
    <2>1. p \in Parts
      BY <1>1, <1>2
    <2> QED
      BY <2>1, Sizes DEF Parts
  <1>4. m > Limit
    <2> DEFINE sizes == [k \in 1..Len(Request.parts) |-> Size(Request.parts[k].lines)]
    <2>1. sizes \in Seq(Nat) /\ Len(sizes) = 1 /\ sizes[1] = m /\ DOMAIN sizes = 1..1
      <3> DEFINE n == Len(Request.parts)
      <3>1. n = 1 /\ DOMAIN sizes = 1..n /\ \A k \in 1..n : sizes[k] = m
        BY <1>1
      <3>2. \A k \in 1..n : Size(Request.parts[k].lines) \in Nat
        BY <1>1, <1>3
      <3>3. sizes = [k \in 1..n |-> Size(Request.parts[k].lines)]
        OBVIOUS
      <3> HIDE DEF n, m, sizes
      <3>4. n \in Nat /\ 1 \in 1..n
        BY <3>1
      <3>5. sizes \in Seq(Nat) /\ Len(sizes) = n
        BY <3>2, <3>4, <3>3
      <3> QED
        BY <3>1, <3>4, <3>5
    <2>2. ~(IF perText THEN \A k \in DOMAIN sizes : sizes[k] <= Limit ELSE Size(sizes) <= Limit)
      BY DEF TooLong, Fits, Size
    <2> HIDE DEF sizes, m
    <2>3. Size(sizes) = m
      BY <2>1, Sizes
    <2>4. ~(m <= Limit)
      BY <2>1, <2>2, <2>3
    <2> QED
      BY <1>3, <2>4, InstanceAssumption
  <1>5. ASSUME m >= 2, ~(Len(texts[p.text]) > 1) PROVE size > Limit * 2^MaxDepth
    <2>1. Halved(texts, p, depth)
      <3>1. <<1, 1>> \in PartSlots(pending) /\ PartAt(pending, <<1, 1>>) = p
        <4>1. 1 \in 1..Len(pending) /\ Len(pending[1].parts) = 1 /\ p = pending[1].parts[1]
          BY <1>1
        <4> DEFINE x == <<1, 1>>
        <4>2. x \in Nat \X Nat /\ x[1] = 1 /\ x[2] = 1 /\ 1 \in 1..1
          OBVIOUS
        <4> HIDE DEF x, p
        <4>3. x \in PartSlots(pending) /\ PartAt(pending, x) = p
          BY <4>1, <4>2 DEF PartSlots, PartAt
        <4> QED
          BY <4>3 DEF x
      <3>2. pending[<<1, 1>>[1]].depth = depth
        BY <1>1
      <3>3. AllHalved(texts, pending)
        BY DEF EmbedInv, PartsOK
      <3> QED
        BY <3>1, <3>2, <3>3 DEF AllHalved
    <2>2. texts[p.text] \in Seq(Nat) /\ size \in Nat
      <3>1. texts[p.text] \in Seq(Nat)
        BY <2>1, InstanceAssumption DEF Halved, EmbedInv, TypeOK
      <3> QED
        BY <3>1, Sizes
    <2>3. Len(texts[p.text]) <= 1
      BY <1>5, <2>2
    <2>4. depth = MaxDepth
      <3>1. Splittable(p)
        BY <1>5 DEF Splittable
      <3>2. depth >= MaxDepth
        BY <3>1 DEF AtLimit
      <3> HIDE DEF depth
      <3> QED
        BY <1>2, <3>2, InstanceAssumption
    <2>5. (m - 1) * 2^MaxDepth < size
      BY <2>1, <2>3, <2>4 DEF Halved
    <2> DEFINE e == 2^MaxDepth
    <2>6. e \in Nat
      BY InstanceAssumption, TwoExp
    <2> HIDE DEF m, size, e
    <2>7. Limit \in Int /\ m - 1 \in Int /\ Limit <= m - 1
      BY <1>3, <1>4, InstanceAssumption
    <2>8. Limit * e <= (m - 1) * e
      BY <2>6, <2>7, Scaled
    <2>9. Limit * e \in Int /\ (m - 1) * e \in Int
      BY <2>6, <2>7
    <2> DEFINE x == Limit * e
               y == (m - 1) * e
    <2>10. x \in Int /\ y \in Int /\ size \in Nat /\ x <= y /\ y < size
      BY <2>2, <2>5, <2>8, <2>9 DEF e
    <2> HIDE DEF x, y
    <2>11. size > x
      BY <2>10
    <2> QED
      BY <2>11 DEF x, e
  <1> QED
    BY <1>3, <1>4, <1>5

\* A request with its first call answered.
LEMMA ReturnedNothing ==
    ASSUME EmbedInv, Asking, Returned(<<>>), texts' = texts,
           Answers' = Answers \union ToSet(Request.parts)
    PROVE  pending' \in Seq(Requests) /\ PartsOK(texts, Answers, pending)'
  <1> DEFINE parts == pending[1].parts
             now == Answers'
  <1>1. pending \in Seq(Requests) /\ pending # <<>> /\ Request = pending[1]
        /\ Answers \in SUBSET Parts
    BY DEF EmbedInv, TypeOK, Asking, Request, Answers
  <1>2. parts \in Seq(Parts)
    <2>1. pending[1] \in Requests
      BY <1>1
    <2> QED
      BY <2>1 DEF Requests
  <1>3. /\ \A k \in 1..Len(parts) : parts[k] \in now
        /\ \A p \in now : p \in Answers \/ \E k \in 1..Len(parts) : p = parts[k]
        /\ Answers \subseteq now
    BY <1>1, <1>2 DEF ToSet
  <1>4. now \in SUBSET Parts
    BY <1>1, <1>2, <1>3
  <1> HIDE DEF now
  <1>5. PartsOK(texts, Answers, pending) /\ Follows(pending, <<>>, pending')
    BY DEF EmbedInv, Returned, Follows
  <1>6. pending' \in Seq(Requests) /\ PartsOK(texts, now, pending')
    BY <1>1, <1>3, <1>4, <1>5, AnsweredOK
  <1> QED
    BY <1>6 DEF now

\* Every step keeps the invariant.
LEMMA StepOK == EmbedInv /\ [EmbedNext]_EmbedVars => EmbedInv'
  <1> SUFFICES ASSUME EmbedInv, [EmbedNext]_EmbedVars PROVE EmbedInv'
    OBVIOUS
  <1>1. TypeOK /\ PartsOK(texts, Answers, pending) /\ OnlyHopelessTextsAreDropped
    BY DEF EmbedInv
  <1>2. ASSUME Asking PROVE pending \in Seq(Requests) /\ pending # <<>> /\ Request = pending[1]
    BY <1>1, <1>2 DEF TypeOK, Asking, Request
  <1>3. ASSUME Asking PROVE ToSet(Request.parts) \subseteq Parts
    <2>1. pending[1] \in Requests
      BY <1>2, <1>3
    <2>2. Request.parts \in Seq(Parts)
      BY <1>2, <1>3, <2>1 DEF Requests
    <2> QED
      BY <2>2 DEF ToSet
  <1>4. ASSUME UNCHANGED <<texts, perText, skip, pending, embedded, skipped>>,
               attempts' \in 0..3, failed' \in BOOLEAN
        PROVE  EmbedInv'
    BY <1>1, <1>4 DEF EmbedInv, TypeOK, Answers, OnlyHopelessTextsAreDropped
  <1>5. CASE UNCHANGED EmbedVars
    BY <1>1, <1>4, <1>5 DEF EmbedVars, TypeOK
  <1>6. CASE Embed
    <2>1. Answers' = Answers \union ToSet(Request.parts)
      BY <1>6 DEF Embed, Answers
    <2>2. pending' \in Seq(Requests) /\ PartsOK(texts, Answers, pending)'
      BY <1>6, <2>1, ReturnedNothing DEF Embed, Kept
    <2>3. TypeOK'
      BY <1>1, <1>3, <1>6, <2>2 DEF TypeOK, Embed, Kept, Returned
    <2>4. OnlyHopelessTextsAreDropped'
      BY <1>1, <1>6 DEF OnlyHopelessTextsAreDropped, Embed, Kept
    <2> QED
      BY <2>2, <2>3, <2>4 DEF EmbedInv
  <1>7. CASE SplitBatch
    <2> DEFINE halves == Halves(Request.parts)
               more == [k \in 1..2 |-> [parts |-> halves[k], depth |-> Request.depth]]
    <2>1. /\ Asking /\ Follows(pending, more, pending') /\ attempts' = 0
          /\ UNCHANGED <<texts, perText, skip, embedded, skipped, failed>>
      BY <1>7 DEF SplitBatch, TooLong, Kept, Returned, Follows
    <2>2. more = [k \in 1..2 |-> [parts |-> Halves(pending[1].parts)[k],
                                              depth |-> pending[1].depth]]
      BY <1>2, <2>1
    <2>3. Answers \in SUBSET Parts /\ Answers' = Answers
      BY <1>1, <2>1 DEF TypeOK, Answers
    <2> HIDE DEF more
    <2>4. pending' \in Seq(Requests) /\ PartsOK(texts, Answers, pending')
      BY <1>1, <1>2, <2>1, <2>2, <2>3, BatchSplitOK
    <2>5. TypeOK'
      BY <1>1, <2>1, <2>4 DEF TypeOK
    <2>6. OnlyHopelessTextsAreDropped'
      BY <1>1, <2>1 DEF OnlyHopelessTextsAreDropped
    <2> QED
      BY <2>1, <2>3, <2>4, <2>5, <2>6 DEF EmbedInv
  <1>8. CASE SplitText
    <2> DEFINE p == pending[1].parts[1]
               h == SplitInHalf(p)
               depth == pending[1].depth
               more == [k \in 1..2 |-> [parts |-> <<h[k]>>, depth |-> depth + 1]]
    <2>1. /\ Asking /\ Single /\ Request.depth < MaxDepth /\ Splittable(Request.parts[1])
          /\ attempts' = 0 /\ UNCHANGED <<texts, perText, skip, embedded, skipped, failed>>
      BY <1>8 DEF SplitText, TooLong, Kept, Returned
    <2>2. /\ pending \in Seq(Requests) /\ pending # <<>> /\ Request = pending[1]
          /\ Len(pending[1].parts) = 1 /\ Splittable(p) /\ depth < MaxDepth
      BY <1>2, <2>1 DEF Single
    <2>3. Follows(pending, more, pending')
      BY <1>8, <2>2 DEF SplitText, Returned, Follows
    <2>4. Answers \in SUBSET Parts /\ Answers' = Answers
      BY <1>1, <2>1 DEF TypeOK, Answers
    <2>5. \A i \in 1..Len(texts) : Size(texts[i]) \in Nat
      BY <1>1, InstanceAssumption, Sizes DEF TypeOK
    <2>6. /\ p = pending[1].parts[1] /\ depth = pending[1].depth /\ h = SplitInHalf(p)
          /\ IsTwo(h, depth + 1, more)
      BY DEF IsTwo
    <2> HIDE DEF p, h, depth, more
    <2>7. pending' \in Seq(Requests) /\ PartsOK(texts, Answers, pending')
      BY <1>1, <2>2, <2>3, <2>4, <2>5, <2>6, TextSplitOK
    <2>8. TypeOK'
      BY <1>1, <2>1, <2>7 DEF TypeOK
    <2>9. OnlyHopelessTextsAreDropped'
      BY <1>1, <2>1 DEF OnlyHopelessTextsAreDropped
    <2> QED
      BY <2>1, <2>4, <2>7, <2>8, <2>9 DEF EmbedInv
  <1>9. CASE GiveUp
    <2>1. /\ Asking /\ TooLong /\ Single /\ AtLimit
          /\ UNCHANGED <<texts, perText, skip, embedded>>
      BY <1>9 DEF GiveUp, TooLong, Kept
    <2>2. CASE ~skip
      BY <1>1, <1>4, <1>9, <2>1, <2>2 DEF GiveUp, TypeOK
    <2>3. CASE skip
      <3>1. /\ Returned(<<>>) /\ skipped' = skipped \union ToSet(Request.parts) /\ UNCHANGED failed
        BY <1>9, <2>3 DEF GiveUp
      <3>2. Answers' = Answers \union ToSet(Request.parts)
        BY <2>1, <3>1 DEF Answers
      <3>3. pending' \in Seq(Requests) /\ PartsOK(texts, Answers, pending)'
        BY <2>1, <3>1, <3>2, ReturnedNothing
      <3>4. TypeOK'
        BY <1>1, <1>3, <2>1, <3>1, <3>3 DEF TypeOK, Returned
      <3>5. ToSet(Request.parts) = {Request.parts[1]}
        <4>1. Request.parts \in Seq(Parts) /\ Len(Request.parts) = 1
          <5>1. pending[1] \in Requests
            BY <1>2, <2>1
          <5> QED
            BY <1>2, <2>1, <5>1 DEF Requests, Single
        <4>2. DOMAIN Request.parts = 1..1
          BY <4>1
        <4>3. \A k \in 1..1 : k = 1
          OBVIOUS
        <4> QED
          BY <4>2, <4>3 DEF ToSet
      <3>6. OnlyHopelessTextsAreDropped'
        <4>1. /\ Size(Request.parts[1].lines) > Limit
              /\ Size(Request.parts[1].lines) >= 2 =>
                    \/ Len(texts[Request.parts[1].text]) > 1
                    \/ Size(texts[Request.parts[1].text]) > Limit * 2 ^ MaxDepth
          BY <2>1, GivenUpIsHopeless
        <4> QED
          BY <1>1, <2>1, <3>1, <3>5, <4>1 DEF OnlyHopelessTextsAreDropped
      <3> QED
        BY <3>3, <3>4, <3>6 DEF EmbedInv
    <2> QED
      BY <2>2, <2>3
  <1>10. ASSUME NEW e \in Errors, Transient(e) PROVE EmbedInv'
    BY <1>1, <1>4, <1>10 DEF Transient, Kept, TypeOK
  <1>11. ASSUME NEW e \in Errors, Raises(e) PROVE EmbedInv'
    BY <1>1, <1>4, <1>11 DEF Raises, Kept, TypeOK
  <1> QED
    BY <1>5, <1>6, <1>7, <1>8, <1>9, <1>10, <1>11 DEF EmbedNext, Answered, RateLimited, Done

-----------------------------------------------------------------------------
(* The theorems *)

\* The invariant of the calls of one batch.
THEOREM EmbedInvariant == EmbedSpec => []EmbedInv
  <1>1. EmbedInit => EmbedInv
    BY InitOK
  <1>2. EmbedInv /\ [EmbedNext]_EmbedVars => EmbedInv'
    BY StepOK
  <1> QED
    BY <1>1, <1>2, PTL DEF EmbedSpec, EmbedFairness

\* Only a text is dropped that no division within MaxDepth would make fit.
THEOREM HopelessOnly == EmbedSpec => []OnlyHopelessTextsAreDropped
  <1>1. EmbedInv => OnlyHopelessTextsAreDropped
    BY DEF EmbedInv
  <1> QED
    BY <1>1, EmbedInvariant, PTL

\* Every character of a returned text is in exactly one embedded piece.
THEOREM Tiled == EmbedSpec => []PiecesTileTheText
  <1>1. EmbedInv => PiecesTileTheText
    <2> SUFFICES ASSUME EmbedInv, Ended, NEW i \in 1..Len(texts), ~Dropped(i),
                        NEW c \in 0..(Size(texts[i]) - 1)
                 PROVE  Cardinality({p \in embedded :
                            p.text = i /\ c \in p.at..(p.at + Size(p.lines) - 1)}) = 1
      BY DEF PiecesTileTheText
    <2>1. pending = <<>> /\ PartSlots(pending) = {}
      BY DEF Ended, PartSlots
    <2>2. PICK p \in Parts : Has(p, i, c) /\ Present(p, Answers, pending)
      BY DEF EmbedInv, PartsOK, Covered
    <2>3. p \in embedded
      BY <2>1, <2>2 DEF Present, Answers, Has, Dropped
    <2>4. ASSUME NEW q \in embedded, Has(q, i, c) PROVE q = p
      <3>1. q = p \/ Apart(p, q)
        BY <2>3 DEF EmbedInv, PartsOK, AllApart, Answers
      <3>2. q \in Parts
        BY DEF EmbedInv, TypeOK
      <3>3. /\ p.at \in Nat /\ q.at \in Nat /\ Size(p.lines) \in Nat /\ Size(q.lines) \in Nat
        BY <3>2, Sizes DEF Parts
      <3> QED
        BY <2>2, <2>4, <3>1, <3>3 DEF Has, Apart
    <2>5. {q \in embedded : q.text = i /\ c \in q.at..(q.at + Size(q.lines) - 1)} = {p}
      BY <2>2, <2>3, <2>4 DEF Has
    <2> QED
      BY <2>5, FS_Singleton
  <1> QED
    BY <1>1, EmbedInvariant, PTL

-----------------------------------------------------------------------------
(* The vector of a text *)

\* The vector of a part, from those of its halves.
VectorAt(f, p) ==
    IF p \in embedded \/ ~Splittable(p)
    THEN [w |-> [k \in 1..Size(p.lines) |-> 1], den |-> Size(p.lines)]
    ELSE LET h == SplitInHalf(p)
         IN Merge(f[h[1]], f[h[2]], Size(h[1].lines), Size(h[2].lines))
\* What the halves of a part have less of.
Measure(p) == Len(p.lines) + Size(p.lines)
\* The parts below a measure.
Small(n) == {p \in Parts : Measure(p) < n}
\* The vectors of the parts below a measure.
VectorsBelow(f, n) == f = [p \in Small(n) |-> VectorAt(f, p)]

\* The halves of a part are smaller by the measure.
LEMMA Smaller ==
    ASSUME NEW p \in Parts
    PROVE  /\ Measure(p) \in Nat
           /\ Splittable(p) => \A j \in 1..2 : /\ SplitInHalf(p)[j] \in Parts
                                               /\ Measure(SplitInHalf(p)[j]) \in Nat
                                               /\ Measure(SplitInHalf(p)[j]) < Measure(p)
  <1>1. ASSUME NEW q \in Parts PROVE Measure(q) \in Nat
    BY Sizes DEF Measure, Parts
  <1>2. ASSUME Splittable(p), NEW j \in 1..2
        PROVE  SplitInHalf(p)[j] \in Parts /\ Measure(SplitInHalf(p)[j]) < Measure(p)
    <2>1. AreHalves(p, SplitInHalf(p))
      BY <1>2, Halving
    <2>2. j = 1 \/ j = 2
      OBVIOUS
    <2> QED
      BY <2>1, <2>2 DEF AreHalves, Measure
  <1> QED
    BY <1>1, <1>2

\* Functions that agree on the halves of a part agree on its vector.
LEMMA SameVector ==
    ASSUME NEW p \in Parts, NEW f, NEW g,
           Splittable(p) => \A j \in 1..2 : f[SplitInHalf(p)[j]] = g[SplitInHalf(p)[j]]
    PROVE  VectorAt(f, p) = VectorAt(g, p)
  <1>1. CASE p \in embedded \/ ~Splittable(p)
    BY <1>1 DEF VectorAt
  <1>2. CASE ~(p \in embedded \/ ~Splittable(p))
    <2>1. 1 \in 1..2 /\ 2 \in 1..2
      OBVIOUS
    <2>2. f[SplitInHalf(p)[1]] = g[SplitInHalf(p)[1]] /\ f[SplitInHalf(p)[2]] = g[SplitInHalf(p)[2]]
      BY <1>2, <2>1
    <2> QED
      BY <1>2, <2>2 DEF VectorAt
  <1> QED
    BY <1>1, <1>2

\* There is only one vector for a part.
LEMMA OneVector ==
    ASSUME NEW m \in Nat, NEW n \in Nat, NEW f, NEW g, VectorsBelow(f, m), VectorsBelow(g, n),
           NEW p \in Small(m) \intersect Small(n)
    PROVE  f[p] = g[p]
  <1> DEFINE T == {k \in Nat : \A q \in Small(m) \intersect Small(n) :
                               Measure(q) < k => f[q] = g[q]}
  <1>1. Nat \subseteq T
    <2> SUFFICES ASSUME NEW k \in Nat, k \notin T, k = 0 \/ k - 1 \in T PROVE FALSE
      <3> HIDE DEF T
      <3> QED
        BY FirstMissing
    <2>1. PICK q \in Small(m) \intersect Small(n) : Measure(q) < k /\ f[q] # g[q]
      OBVIOUS
    <2>2. q \in Parts /\ Measure(q) \in Nat /\ Measure(q) < m /\ Measure(q) < n
      BY Smaller DEF Small
    <2>3. k - 1 \in T /\ k # 0
      BY <2>1, <2>2
    <2>4. ASSUME Splittable(q), NEW j \in 1..2
          PROVE  f[SplitInHalf(q)[j]] = g[SplitInHalf(q)[j]]
      <3> DEFINE h == SplitInHalf(q)[j]
      <3>1. h \in Parts /\ Measure(h) \in Nat /\ Measure(h) < Measure(q)
        BY <2>2, <2>4, Smaller
      <3> HIDE DEF h
      <3>2. Measure(h) < m /\ Measure(h) < n /\ Measure(h) < k - 1
        BY <2>1, <2>2, <2>3, <3>1
      <3>3. h \in Small(m) \intersect Small(n)
        BY <3>1, <3>2 DEF Small
      <3>4. f[h] = g[h]
        BY <2>3, <3>2, <3>3
      <3> QED
        BY <3>4 DEF h
    <2>5. VectorAt(f, q) = VectorAt(g, q)
      BY <2>2, <2>4, SameVector
    <2>6. f[q] = VectorAt(f, q) /\ g[q] = VectorAt(g, q)
      BY DEF VectorsBelow
    <2> QED
      BY <2>1, <2>5, <2>6
  <1>2. Measure(p) \in Nat
    BY Smaller DEF Small
  <1>3. Measure(p) + 1 \in T /\ Measure(p) < Measure(p) + 1
    BY <1>1, <1>2
  <1> QED
    BY <1>3

\* The small parts have their vectors, however small.
LEMMA VectorsExist ==
    ASSUME NEW n \in Nat
    PROVE  \E f : VectorsBelow(f, n)
  <1> DEFINE T == {k \in Nat : \E f : VectorsBelow(f, k)}
  <1>1. Nat \subseteq T
    <2> SUFFICES ASSUME NEW k \in Nat, k \notin T, k = 0 \/ k - 1 \in T PROVE FALSE
      <3> HIDE DEF T
      <3> QED
        BY FirstMissing
    <2>1. CASE k = 0
      <3> DEFINE f == [p \in Small(0) |-> 0]
      <3>1. Small(0) = {}
        BY Smaller DEF Small
      <3>2. VectorsBelow(f, 0)
        BY <3>1 DEF VectorsBelow
      <3> QED
        BY <2>1, <3>2
    <2>2. CASE k # 0
      <3>1. PICK f : VectorsBelow(f, k - 1)
        BY <2>2
      <3> DEFINE g == [p \in Small(k) |-> VectorAt(f, p)]
      <3>2. ASSUME NEW p \in Small(k - 1) PROVE g[p] = f[p]
        <4>1. p \in Small(k)
          BY Smaller DEF Small
        <4>2. f[p] = VectorAt(f, p)
          BY <3>1 DEF VectorsBelow
        <4> QED
          BY <4>1, <4>2
      <3>3. ASSUME NEW p \in Small(k) PROVE VectorAt(f, p) = VectorAt(g, p)
        <4>1. p \in Parts /\ Measure(p) \in Nat /\ Measure(p) < k
          BY Smaller DEF Small
        <4>2. ASSUME Splittable(p), NEW j \in 1..2
              PROVE  f[SplitInHalf(p)[j]] = g[SplitInHalf(p)[j]]
          <5> DEFINE h == SplitInHalf(p)[j]
          <5>1. h \in Parts /\ Measure(h) \in Nat /\ Measure(h) < Measure(p)
            BY <4>1, <4>2, Smaller
          <5> HIDE DEF h, g
          <5>2. Measure(h) < k - 1
            BY <4>1, <5>1
          <5>3. h \in Small(k - 1)
            BY <5>1, <5>2 DEF Small
          <5>4. f[h] = g[h]
            BY <3>2, <5>3
          <5> QED
            BY <5>4 DEF h
        <4> HIDE DEF g
        <4> QED
          BY <4>1, <4>2, SameVector
      <3>4. g = [p \in Small(k) |-> VectorAt(f, p)]
        OBVIOUS
      <3> HIDE DEF g
      <3>5. VectorsBelow(g, k)
        BY <3>3, <3>4 DEF VectorsBelow
      <3> QED
        BY <3>5
    <2> QED
      BY <2>1, <2>2
  <1> QED
    BY <1>1

\* The vectors of all parts.
LEMMA AllVectors == \E f : f = [p \in Parts |-> VectorAt(f, p)]
  <1> DEFINE small(n) == CHOOSE f : VectorsBelow(f, n)
             all == [p \in Parts |-> small(Measure(p) + 1)[p]]
  <1>1. ASSUME NEW n \in Nat PROVE VectorsBelow(small(n), n)
    BY VectorsExist
  <1> HIDE DEF small
  <1>2. ASSUME NEW p \in Parts PROVE all[p] = VectorAt(all, p)
    <2> DEFINE n == Measure(p) + 1
               f == small(n)
    <2>1. Measure(p) \in Nat /\ n \in Nat /\ Measure(p) < n
      BY Smaller
    <2>2. VectorsBelow(f, n) /\ p \in Small(n)
      BY <1>1, <2>1 DEF Small
    <2>3. all[p] = VectorAt(f, p)
      BY <2>2 DEF VectorsBelow
    <2>4. ASSUME Splittable(p), NEW j \in 1..2
          PROVE  f[SplitInHalf(p)[j]] = all[SplitInHalf(p)[j]]
      <3> DEFINE h == SplitInHalf(p)[j]
                 m == Measure(h) + 1
                 g == small(m)
      <3>1. h \in Parts /\ Measure(h) \in Nat /\ Measure(h) < Measure(p)
        BY <2>4, Smaller
      <3> HIDE DEF h
      <3>2. m \in Nat /\ Measure(h) < m /\ Measure(h) < n
        BY <2>1, <3>1
      <3>3. h \in Small(m) \intersect Small(n) /\ VectorsBelow(g, m)
        BY <1>1, <3>1, <3>2 DEF Small
      <3>4. all[h] = g[h]
        BY <3>1
      <3> HIDE DEF m, g, n, f, all
      <3>5. f[h] = g[h]
        BY <2>1, <2>2, <3>2, <3>3, OneVector
      <3> QED
        BY <3>4, <3>5 DEF h
    <2> HIDE DEF all, f
    <2>5. VectorAt(f, p) = VectorAt(all, p)
      BY <2>4, SameVector
    <2> QED
      BY <2>3, <2>5
  <1>3. all = [p \in Parts |-> all[p]]
    OBVIOUS
  <1> HIDE DEF all
  <1>4. all = [p \in Parts |-> VectorAt(all, p)]
    BY <1>2, <1>3
  <1> QED
    BY <1>4

\* The vector of a text is the last one of such vectors.
LEMMA VectorIs ==
    ASSUME NEW i, Whole(i) \in Parts
    PROVE  \E f : /\ \A p \in Parts : f[p] = VectorAt(f, p)
                  /\ VectorOf(i) = f[Whole(i)]
  <1> DEFINE f == CHOOSE g : g = [p \in Parts |-> VectorAt(g, p)]
  <1>1. VectorOf(i) = f[Whole(i)]
    BY DEF VectorOf, VectorAt
  <1>2. f = [p \in Parts |-> VectorAt(f, p)]
    BY AllVectors
  <1> HIDE DEF f
  <1>3. \A p \in Parts : f[p] = VectorAt(f, p)
    BY <1>2
  <1> QED
    BY <1>1, <1>3

\* A vector of n characters, all of the same weight.
Mean(v, n) ==
    /\ v.den \in Nat /\ \A k \in 1..n : v.w[k] \in Nat
    /\ \A k \in 1..n : v.w[k] * n = v.den

\* A product of three weighs its factors alike.
LEMMA Weights ==
    ASSUME NEW x \in Nat, NEW m \in Nat, NEW d \in Nat, NEW s \in Nat
    PROVE  x * m * d \in Nat /\ (x * m * d) * s = s * (x * m) * d
  <1>1. x * m \in Nat
    OBVIOUS
  <1> DEFINE y == x * m
  <1>2. y \in Nat
    BY <1>1
  <1> HIDE DEF y
  <1>3. y * d \in Nat /\ (y * d) * s = s * (y * d) /\ s * (y * d) = s * y * d
    BY <1>2
  <1> QED
    BY <1>3 DEF y

\* Vectors merged by length weigh all characters alike, if each of them does.
LEMMA MergeIsMean ==
    ASSUME NEW m \in Nat, NEW n \in Nat, NEW a, NEW b, Mean(a, m), Mean(b, n)
    PROVE  Mean(Merge(a, b, m, n), m + n)
  <1> DEFINE v == Merge(a, b, m, n)
             den == (m + n) * a.den * b.den
  <1>1. /\ v.den = den
        /\ \A k \in 1..(m + n) :
              v.w[k] = IF k <= m THEN a.w[k] * m * b.den ELSE b.w[k - m] * n * a.den
    BY DEF Merge
  <1> HIDE DEF v
  <1>2. a.den \in Nat /\ b.den \in Nat /\ m + n \in Nat
    BY DEF Mean
  <1>3. den \in Nat
    <2>1. (m + n) * a.den \in Nat
      BY <1>2
    <2> QED
      BY <1>2, <2>1
  <1>4. ASSUME NEW k \in 1..(m + n) PROVE v.w[k] \in Nat /\ v.w[k] * (m + n) = den
    <2>1. CASE k <= m
      <3> DEFINE x == a.w[k]
      <3>1. k \in 1..m /\ v.w[k] = x * m * b.den
        BY <1>1, <2>1
      <3>2. x \in Nat /\ x * m = a.den
        BY <3>1 DEF Mean
      <3>3. x * m * b.den \in Nat /\ (x * m * b.den) * (m + n) = (m + n) * (x * m) * b.den
        <4> HIDE DEF x
        <4> QED
          BY <1>2, <3>2, Weights
      <3> HIDE DEF x
      <3> QED
        BY <3>1, <3>2, <3>3
    <2>2. CASE ~(k <= m)
      <3> DEFINE x == b.w[k - m]
      <3>1. k - m \in 1..n /\ v.w[k] = x * n * a.den
        BY <1>1, <2>2
      <3>2. x \in Nat /\ x * n = b.den
        BY <3>1 DEF Mean
      <3>3. x * n * a.den \in Nat /\ (x * n * a.den) * (m + n) = (m + n) * (x * n) * a.den
        <4> HIDE DEF x
        <4> QED
          BY <1>2, <3>2, Weights
      <3>4. (m + n) * b.den * a.den = (m + n) * a.den * b.den
        BY <1>2
      <3> HIDE DEF x
      <3> QED
        BY <3>1, <3>2, <3>3, <3>4
    <2> QED
      BY <2>1, <2>2
  <1> HIDE DEF den
  <1> QED
    BY <1>1, <1>3, <1>4 DEF Mean, v

\* In a tree whose leaves are all embedded every vector is a mean.
LEMMA TreeMeans ==
    ASSUME NEW tree, IsTree(tree, texts, Answers, <<>>), NEW i, ~Dropped(i),
           NEW f, \A p \in Parts : f[p] = VectorAt(f, p),
           NEW q \in tree, q.text = i
    PROVE  Mean(f[q], Size(q.lines))
  <1> DEFINE T == {k \in Nat : \A p \in tree :
                      Measure(p) < k /\ p.text = i => Mean(f[p], Size(p.lines))}
  <1>1. tree \subseteq Parts
    BY DEF IsTree
  <1>2. Nat \subseteq T
    <2> SUFFICES ASSUME NEW k \in Nat, k \notin T, k = 0 \/ k - 1 \in T PROVE FALSE
      <3> HIDE DEF T
      <3> QED
        BY FirstMissing
    <2>1. PICK p \in tree : Measure(p) < k /\ p.text = i /\ ~Mean(f[p], Size(p.lines))
      OBVIOUS
    <2>2. p \in Parts /\ Measure(p) \in Nat /\ k # 0 /\ k - 1 \in T
      BY <1>1, <2>1, Smaller
    <2>3. f[p] = VectorAt(f, p) /\ Size(p.lines) \in Nat
      BY <2>2, Sizes DEF Parts
    <2>4. CASE p \in embedded \/ ~Splittable(p)
      <3> DEFINE n == Size(p.lines)
      <3>1. f[p] = [w |-> [j \in 1..n |-> 1], den |-> n]
        BY <2>3, <2>4 DEF VectorAt
      <3> HIDE DEF n
      <3>2. Mean(f[p], n)
        BY <2>3, <3>1 DEF Mean, n
      <3> QED
        BY <2>1, <3>2 DEF n
    <2>5. CASE ~(p \in embedded \/ ~Splittable(p))
      <3> DEFINE h == SplitInHalf(p)
                 m == Size(h[1].lines)
                 n == Size(h[2].lines)
      <3>1. f[p] = Merge(f[h[1]], f[h[2]], m, n)
        BY <2>3, <2>5 DEF VectorAt
      <3>2. h[1] \in tree /\ h[2] \in tree
        <4>1. ~Present(p, Answers, <<>>)
          BY <2>1, <2>5 DEF Present, Answers, Dropped, PartSlots
        <4> QED
          BY <2>1, <4>1 DEF IsTree
      <3>3. /\ h[1].text = i /\ h[2].text = i /\ m \in Nat /\ n \in Nat /\ Size(p.lines) = m + n
        BY <2>1, <2>2, <2>5, Halving DEF AreHalves
      <3>4. ASSUME NEW j \in 1..2 PROVE Mean(f[h[j]], Size(h[j].lines))
        <4>1. h[j] \in tree /\ h[j].text = i
          BY <3>2, <3>3
        <4>2. Measure(h[j]) \in Nat /\ Measure(h[j]) < Measure(p)
          BY <2>2, <2>5, Smaller
        <4>3. Measure(h[j]) < k - 1
          BY <2>1, <2>2, <4>2
        <4> QED
          BY <2>2, <4>1, <4>3
      <3>5. 1 \in 1..2 /\ 2 \in 1..2
        OBVIOUS
      <3>6. Mean(f[h[1]], m) /\ Mean(f[h[2]], n)
        BY <3>4, <3>5
      <3> HIDE DEF h, m, n
      <3>7. Mean(f[p], m + n)
        BY <3>1, <3>3, <3>6, MergeIsMean
      <3> QED
        BY <2>1, <3>3, <3>7
    <2> QED
      BY <2>4, <2>5
  <1>3. Measure(q) \in Nat
    BY <1>1, Smaller
  <1>4. Measure(q) + 1 \in T /\ Measure(q) < Measure(q) + 1
    BY <1>2, <1>3
  <1> QED
    BY <1>4

\* The merged vector of a returned text weighs all its characters alike.
THEOREM MergedMean == EmbedSpec => []MergedVectorIsTheMean
  <1>1. EmbedInv => MergedVectorIsTheMean
    <2> SUFFICES ASSUME EmbedInv, Ended, NEW i \in 1..Len(texts), ~Dropped(i)
                 PROVE  LET v == VectorOf(i)
                        IN \A k \in 1..Size(texts[i]) : v.w[k] * Size(texts[i]) = v.den
      BY DEF MergedVectorIsTheMean
    <2>1. PICK tree : IsTree(tree, texts, Answers, <<>>)
      BY DEF EmbedInv, PartsOK, Ended
    <2>2. Whole(i) \in tree /\ Whole(i) \in Parts
      BY <2>1 DEF IsTree, Whole
    <2>3. PICK f : (\A p \in Parts : f[p] = VectorAt(f, p)) /\ VectorOf(i) = f[Whole(i)]
      BY <2>2, VectorIs
    <2>4. Whole(i).text = i /\ Whole(i).lines = texts[i]
      BY DEF Whole
    <2>5. Mean(f[Whole(i)], Size(Whole(i).lines))
      BY <2>1, <2>2, <2>3, <2>4, TreeMeans
    <2>6. Mean(VectorOf(i), Size(texts[i]))
      BY <2>3, <2>4, <2>5
    <2> QED
      BY <2>6 DEF Mean
  <1> QED
    BY <1>1, EmbedInvariant, PTL
=============================================================================
