----------------------------- MODULE EmbedRetry -----------------------------
(***************************************************************************)
(* embed_texts: one batch of texts sent to the embedding provider.  A      *)
(* request that is rate limited is sent again for ever, one that fails     *)
(* transiently three more times, one that exceeds the context is halved:   *)
(* first the batch, then the text, down to max_split_depth.  The pieces of *)
(* a text are embedded one by one and merged by length.  A text is the     *)
(* sequence of the lengths of its lines.  A vector is known by the weight  *)
(* each character of the text has in it.                                   *)
(***************************************************************************)
EXTENDS Naturals, Sequences, SequencesExt, FiniteSetsExt

CONSTANTS
    Texts,      \* the texts of this instance: sequences of line lengths
    MaxBatch,   \* bound: texts of a batch
    Limit,      \* characters the provider takes
    MaxDepth    \* max_embedding_split_depth

ASSUME InstanceAssumption ==
    /\ Texts \subseteq Seq(Nat \ {0}) /\ MaxBatch \in Nat /\ Limit \in Nat
    /\ MaxDepth \in Nat

VARIABLES
    texts,     \* the batch
    perText,   \* the limit holds for each text, or for the whole request
    skip,      \* skip_context_length_errors
    pending,   \* calls still to make, the next one first: parts and split depth
    attempts,  \* transient_attempts of the next call
    embedded,  \* parts that got a vector
    skipped,   \* parts answered with the empty sentinel
    failed     \* an exception left embed_texts

EmbedVars == <<texts, perText, skip, pending, attempts, embedded, skipped, failed>>

Size(lines) == FoldLeft(LAMBDA n, l : n + l, 0, lines)
Whole(i) == [text |-> i, at |-> 0, lines |-> texts[i]]
Parts == [text : Nat, at : Nat, lines : Seq(Nat)]

EmbedInit ==
    /\ texts \in UNION {[1..n -> Texts] : n \in 1..MaxBatch} /\ perText \in BOOLEAN
    /\ skip \in BOOLEAN
    /\ pending = <<[parts |-> [i \in 1..Len(texts) |-> Whole(i)], depth |-> 0]>>
    /\ attempts = 0 /\ embedded = {} /\ skipped = {} /\ failed = FALSE

-----------------------------------------------------------------------------
(* What the provider answers, and how an error is classified.              *)

Errors == [status : {400, 429, 500, 404}, details : {"context", "terminated", "other"}]
IsRateLimit(e) == e.status = 429
IsTransient(e) == e.status = 500 \/ e.details = "terminated"
IsContextLength(e) == e.status = 400 /\ e.details = "context"

Fits(request) ==
    LET sizes == [k \in 1..Len(request.parts) |-> Size(request.parts[k].lines)]
    IN IF perText THEN \A k \in DOMAIN sizes : sizes[k] <= Limit
       ELSE FoldLeft(LAMBDA n, s : n + s, 0, sizes) <= Limit

-----------------------------------------------------------------------------
(* Splitting a text in half: at the line end nearest to the middle, or in  *)
(* the middle of its only line.                                            *)

Distance(lines, k) == LET at == 2 * Size(SubSeq(lines, 1, k))
                          n  == Size(lines)
                      IN IF at < n THEN n - at ELSE at - n
Nearest(lines) ==
    Min({k \in 1..(Len(lines) - 1) :
            \A j \in 1..(Len(lines) - 1) : Distance(lines, k) <= Distance(lines, j)})
Pieces(part, left, right) ==
    <<[text |-> part.text, at |-> part.at, lines |-> left],
      [text |-> part.text, at |-> part.at + Size(left), lines |-> right]>>
\* Mutant: the character at the middle of a line is in neither half.
SplitInHalfGap(part) ==
    LET n == Size(part.lines)
        cut == n \div 2
    IN <<[part EXCEPT !.lines = <<cut>>],
         [part EXCEPT !.lines = <<n - cut - 1>>, !.at = @ + cut + 1]>>
SplitInHalf(part) ==
    LET lines == part.lines
        n == Size(lines)
        k == Nearest(lines)
        cut == n \div 2
    IN IF Len(lines) > 1
       THEN Pieces(part, SubSeq(lines, 1, k), SubSeq(lines, k + 1, Len(lines)))
       ELSE Pieces(part, <<cut>>, <<n - cut>>)
Splittable(part) == Size(part.lines) >= 2

-----------------------------------------------------------------------------
(* One call of the provider for the first pending request.                 *)

Asking == pending # <<>> /\ ~failed
Request == Head(pending)
Single  == Len(Request.parts) = 1
Returned(more) == pending' = more \o Tail(pending) /\ attempts' = 0
Kept == UNCHANGED <<texts, perText, skip>>

Embed ==
    /\ Asking /\ Fits(Request) /\ Returned(<<>>)
    /\ embedded' = embedded \cup ToSet(Request.parts)
    /\ UNCHANGED <<skipped, failed>> /\ Kept

RateLimited == Asking /\ (\E e \in Errors : IsRateLimit(e)) /\ UNCHANGED EmbedVars

Transient(e) ==
    /\ Asking /\ e \in Errors /\ ~IsRateLimit(e) /\ IsTransient(e) /\ attempts < 3
    /\ attempts' = attempts + 1
    /\ UNCHANGED <<pending, embedded, skipped, failed>> /\ Kept

Raises(e) ==
    /\ Asking /\ e \in Errors /\ ~IsRateLimit(e) /\ ~(IsTransient(e) /\ attempts < 3)
    /\ ~IsContextLength(e) /\ failed' = TRUE
    /\ UNCHANGED <<pending, attempts, embedded, skipped>> /\ Kept

TooLong == Asking /\ ~Fits(Request)

Halves(parts) == LET mid == Len(parts) \div 2
                 IN <<SubSeq(parts, 1, mid), SubSeq(parts, mid + 1, Len(parts))>>
\* Mutant: the middle is the end of the batch, and the empty rest is not sent.
SplitBatchWhole ==
    /\ TooLong /\ ~Single /\ Returned(<<Request>>)
    /\ UNCHANGED <<embedded, skipped, failed>> /\ Kept
SplitBatch ==
    /\ TooLong /\ ~Single
    /\ LET halves == Halves(Request.parts)
       IN Returned([k \in 1..2 |-> [parts |-> halves[k], depth |-> Request.depth]])
    /\ UNCHANGED <<embedded, skipped, failed>> /\ Kept

SplitText ==
    /\ TooLong /\ Single /\ Request.depth < MaxDepth /\ Splittable(Request.parts[1])
    /\ LET halves == SplitInHalf(Request.parts[1])
       IN Returned([k \in 1..2 |-> [parts |-> <<halves[k]>>, depth |-> Request.depth + 1]])
    /\ UNCHANGED <<embedded, skipped, failed>> /\ Kept

\* Mutant: one level less.
AtLimitEarly == Request.depth + 1 >= MaxDepth \/ ~Splittable(Request.parts[1])
AtLimit == Request.depth >= MaxDepth \/ ~Splittable(Request.parts[1])
GiveUp ==
    /\ TooLong /\ Single /\ AtLimit
    /\ IF skip THEN Returned(<<>>) /\ skipped' = skipped \cup ToSet(Request.parts) /\ UNCHANGED failed
               ELSE failed' = TRUE /\ UNCHANGED <<pending, attempts, skipped>>
    /\ UNCHANGED embedded /\ Kept

Done == ~Asking /\ UNCHANGED EmbedVars

Answered == Embed \/ SplitBatch \/ SplitText \/ GiveUp
            \/ \E e \in Errors : Transient(e) \/ Raises(e)
EmbedNext == Answered \/ RateLimited \/ Done

\* The provider may answer 429 any number of times, but not for ever: nothing
\* in the code ends that loop.
EmbedFairness == SF_EmbedVars(Answered)
EmbedSpec == EmbedInit /\ [][EmbedNext]_EmbedVars /\ EmbedFairness

-----------------------------------------------------------------------------
(* What embed_texts returns, merged on the way back from the recursion.    *)

Ended == pending = <<>> /\ ~failed
Dropped(i) == \E p \in skipped : p.text = i

\* Mutant: halves count the same.
MergeUnweighted(a, b, m, n) ==
    [w |-> [k \in 1..(m + n) |-> IF k <= m THEN a.w[k] * b.den ELSE b.w[k - m] * a.den],
     den |-> 2 * a.den * b.den]
Merge(a, b, m, n) ==
    [w |-> [k \in 1..(m + n) |-> IF k <= m THEN a.w[k] * m * b.den ELSE b.w[k - m] * n * a.den],
     den |-> (m + n) * a.den * b.den]
VectorOf(i) ==
    LET vector[p \in Parts] ==
            IF p \in embedded \/ ~Splittable(p)
            THEN [w |-> [k \in 1..Size(p.lines) |-> 1], den |-> Size(p.lines)]
            ELSE LET h == SplitInHalf(p)
                 IN Merge(vector[h[1]], vector[h[2]], Size(h[1].lines), Size(h[2].lines))
    IN vector[Whole(i)]

\* Every character of a text that is returned was embedded, once, under the
\* text's own position in the batch, however batch and text were split.
PiecesTileTheText ==
    Ended => \A i \in 1..Len(texts) : ~Dropped(i) =>
        \A c \in 0..(Size(texts[i]) - 1) :
            Cardinality({p \in embedded : p.text = i /\ c \in p.at..(p.at + Size(p.lines) - 1)}) = 1

\* A merged vector weighs all characters of the text alike, as one vector of
\* the whole text would, whatever the tree of splits.
MergedVectorIsTheMean ==
    Ended => \A i \in 1..Len(texts) : ~Dropped(i) =>
        LET v == VectorOf(i)
        IN \A k \in 1..Size(texts[i]) : v.w[k] * Size(texts[i]) = v.den

\* Only a text is dropped whose halves, MaxDepth times, cannot fit; texts
\* next to it in the batch are not.
OnlyHopelessTextsAreDropped ==
    \A p \in skipped : Size(p.lines) > Limit /\
        (Size(p.lines) >= 2 =>
            \/ Len(texts[p.text]) > 1
            \/ Size(texts[p.text]) > Limit * 2 ^ MaxDepth)

\* The batch ends, with vectors or with an exception, if the provider stops
\* rate limiting now and then.
BatchEnds == <>(~Asking)
=============================================================================
