---------------------------- MODULE FacadeProofs ----------------------------
(***************************************************************************)
(* Proofs about SearchCache and CollectionSweep, for all repositories,     *)
(* searches, scopes and bounds.                                            *)
(*                                                                         *)
(* CacheInv follows every search with the set of indexes it has seen of    *)
(* each slug while it ran.  What a search found is among them; and when it *)
(* stores its answer, whatever was overtaken since makes the second reading*)
(* of the pointer differ (OvertakenOK), so the answer is fit for its key.  *)
(*                                                                         *)
(* SweepInv follows a delete through the collections: unless one has       *)
(* failed, records of its slug are only in those still on its list, because*)
(* they are only written by a build of the slug, which its lock keeps away.*)
(***************************************************************************)
EXTENDS SearchCache, CollectionSweep, TLAPS

-----------------------------------------------------------------------------
(* SearchCache                                                             *)

\* The index searched for a slug with pointer p and, if l, legacy files.
ActiveOf(p, l) == IF p # NoIndex THEN p ELSE IF l THEN Legacy ELSE NoIndex

\* The index of a slug: p is its pointer, l says whether it has a legacy index,
\* n is its newest generation, h its directory, j its job.
IndexOK(p, l, n, h, j) ==
    /\ p \in 0..n /\ n \in 0..MaxGen
    /\ l /\ p = NoIndex => n = 0
    /\ ActiveOf(p, l) # NoIndex => h /\ j # "deleting"

\* The entries.
Kept == [scope : Scopes \cup {{}}, token : Tokens, val : Answers]
Jobs == {"idle", "announced", "building", "built", "deleting"}
RunningPcs == {"token", "get", "check", "discover", "search", "again", "set"}
Requesting == [pc : RunningPcs \cup {"idle", "done", "refused"}, scope : Scopes \cup {{}},
               todo : SUBSET Slugs, token : Tokens, again : Tokens, val : Answers,
               seen : [Slugs -> SUBSET (Gens \cup {NoIndex, Legacy})]]

\* What a search q has read of the pointer of s, what it found there, and that it
\* reads every slug that keeps an index throughout.
TokenOK(q, s, l, n) ==
    s \in DOMAIN q.token =>
        /\ q.token[s] <= n
        /\ q.token[s] # NoIndex => q.token[s] \in q.seen[s]
        /\ q.token[s] = NoIndex => NoIndex \in q.seen[s] \/ (l /\ Legacy \in q.seen[s])
AnswerOK(q, s, n) ==
    s \in DOMAIN q.val =>
        /\ q.val[s] \in q.seen[s] /\ (q.val[s] = Legacy \/ q.val[s] <= n)
        /\ q.scope = All \/ s \in q.scope
CoveredOK(q, s) ==
    \/ s \in DOMAIN q.token \/ (q.pc = "token" /\ s \in q.todo) \/ NoIndex \in q.seen[s]
    \/ q.scope # All /\ s \notin q.scope

\* What is cached under a token: val is for the key with token.
KeyOK(token, val, s, l) ==
    s \in DOMAIN token /\ s \in DOMAIN val =>
        /\ token[s] # NoIndex => val[s] = token[s]
        /\ token[s] = NoIndex /\ l => val[s] = Legacy
\* A result that is not of the generation read first was overtaken: the second
\* reading tells.
OvertakenOK(q, s, p, l) ==
    /\ s \in DOMAIN q.token /\ s \in DOMAIN q.val /\ q.token[s] # NoIndex
         /\ q.val[s] # q.token[s] => p # q.token[s] /\ (s \in DOMAIN q.again => q.again[s] # q.token[s])
    /\ s \in DOMAIN q.again /\ s \in DOMAIN q.val /\ q.again[s] = NoIndex /\ l => q.val[s] = Legacy

\* What a running search q knows of slug s.
SlugOK(q, s, p, l, n) ==
    /\ ActiveOf(p, l) \in q.seen[s]
    /\ TokenOK(q, s, l, n) /\ AnswerOK(q, s, n) /\ CoveredOK(q, s)
    /\ q.pc \in {"token", "get", "check", "discover"} => s \notin DOMAIN q.val
    /\ q.pc \notin {"again", "set"} => s \notin DOMAIN q.again
    /\ q.pc = "search" /\ q.scope # All /\ s \in q.todo => s \in q.scope
    /\ q.pc # "set" => OvertakenOK(q, s, p, l)
    /\ q.pc = "set" => KeyOK(q.token, q.val, s, l)

\* An answer is of indexes that were there, or of a slug that had none meanwhile.
DoneOK(q) == \A s \in DOMAIN q.val : q.val[s] \in q.seen[s] \/ NoIndex \in q.seen[s]

RequestOK(q, p, l, n) ==
    /\ q.pc \in RunningPcs => \A s \in Slugs : SlugOK(q, s, p[s], l[s], n[s])
    /\ q.pc = "done" => DoneOK(q)

\* An entry of the cache is fit for its key, and within its scope.
EntryOK(e, l) ==
    \A s \in DOMAIN e.val : KeyOK(e.token, e.val, s, l[s]) /\ (e.scope = All \/ s \in e.scope)

\* The invariant of the indexes, the cache and the searches.
CacheInv ==
    /\ pub \in [Slugs -> Nat] /\ last \in [Slugs -> Nat]
    /\ legacy \in [Slugs -> BOOLEAN] /\ home \in [Slugs -> BOOLEAN] /\ job \in [Slugs -> Jobs]
    /\ \A s \in Slugs : IndexOK(pub[s], legacy[s], last[s], home[s], job[s])
    /\ cache \subseteq Kept /\ \A e \in cache : EntryOK(e, legacy)
    /\ req \in [Requests -> Requesting]
    /\ \A r \in Requests : RequestOK(req[r], pub, legacy, last)

\* A search that has not begun has read and found nothing.
LEMMA IdleIs ==
    /\ Idle \in Requesting /\ Idle.pc = "idle"
    /\ Idle.token = Empty /\ Idle.again = Empty /\ Idle.val = Empty
    /\ DOMAIN Empty = {} /\ Empty \in Tokens /\ Empty \in Answers
  <1>1. /\ Empty \in [{} -> Gens \cup {NoIndex}] /\ Empty \in [{} -> Gens \cup {Legacy}]
        /\ DOMAIN Empty = {}
    BY DEF Empty
  <1>2. Empty \in Tokens /\ Empty \in Answers
    BY <1>1 DEF Tokens, Answers
  <1> QED
    BY <1>1, <1>2 DEF Idle, Requesting

\* Nothing is cached and no search runs at first.
LEMMA CacheInitial == CacheInit => CacheInv
  <1> SUFFICES ASSUME CacheInit PROVE CacheInv
    OBVIOUS
  <1>1. \A s \in Slugs : IndexOK(pub[s], legacy[s], last[s], home[s], job[s])
    BY BoundAssumption DEF CacheInit, IndexOK, ActiveOf, NoIndex
  <1>2. \A r \in Requests : RequestOK(req[r], pub, legacy, last)
    BY IdleIs DEF CacheInit, RequestOK, RunningPcs
  <1>3. req \in [Requests -> Requesting]
    BY IdleIs DEF CacheInit
  <1>4. /\ pub \in [Slugs -> Nat] /\ last \in [Slugs -> Nat] /\ job \in [Slugs -> Jobs]
        /\ legacy \in [Slugs -> BOOLEAN] /\ home \in [Slugs -> BOOLEAN]
        /\ cache = {}
    BY DEF CacheInit, NoIndex, Jobs
  <1> QED
    BY <1>1, <1>2, <1>3, <1>4 DEF CacheInv

\* A step of one search: the index stays, what is cached is fit to be.
LEMMA RequestStep ==
    ASSUME CacheInv, NEW r \in Requests, NEW q, UNCHANGED index,
           req' = [req EXCEPT ![r] = q], q \in Requesting, RequestOK(q, pub, legacy, last),
           cache' \subseteq Kept, \A e \in cache' : EntryOK(e, legacy)
    PROVE  CacheInv'
  BY DEF CacheInv, index

\* A step that moves no pointer and leaves the searches alone.
LEMMA QuietStep ==
    ASSUME CacheInv, UNCHANGED <<pub, legacy, last, req>>, cache' \subseteq cache,
           home' \in [Slugs -> BOOLEAN], job' \in [Slugs -> Jobs],
           \A s \in Slugs : IndexOK(pub[s], legacy[s], last[s], home'[s], job'[s])
    PROVE  CacheInv'
  BY DEF CacheInv

\* What a reading or a result adds to a map: With.
LEMMA WithIs ==
    ASSUME NEW f, NEW s, NEW g
    PROVE  /\ DOMAIN With(f, s, g) = DOMAIN f \cup {s} /\ With(f, s, g)[s] = g
           /\ \A x \in DOMAIN f : x # s => With(f, s, g)[x] = f[x]
  BY DEF With

\* What it takes to be a token and an answer.
LEMMA TokenIs ==
    ASSUME NEW f
    PROVE  f \in Tokens <=> /\ DOMAIN f \subseteq Slugs
                            /\ f \in [DOMAIN f -> Gens \cup {NoIndex}]
  BY DEF Tokens

\* Tokens map slugs to generations, answers also to the legacy index.
LEMMA AnswerIs ==
    ASSUME NEW f
    PROVE  f \in Answers <=> /\ DOMAIN f \subseteq Slugs
                             /\ f \in [DOMAIN f -> Gens \cup {Legacy}]
  BY DEF Answers

\* A reading added to a token gives a token.
LEMMA WithToken ==
    ASSUME NEW f \in Tokens, NEW s \in Slugs, NEW g \in Gens \cup {NoIndex}
    PROVE  With(f, s, g) \in Tokens
  <1>1. With(f, s, g) \in [DOMAIN f \cup {s} -> Gens \cup {NoIndex}]
    BY TokenIs DEF With
  <1> QED
    BY <1>1, TokenIs, WithIs

\* A result added to an answer gives an answer.
LEMMA WithAnswer ==
    ASSUME NEW f \in Answers, NEW s \in Slugs, NEW g \in Gens \cup {Legacy}
    PROVE  With(f, s, g) \in Answers
  <1>1. With(f, s, g) \in [DOMAIN f \cup {s} -> Gens \cup {Legacy}]
    BY AnswerIs DEF With
  <1> QED
    BY <1>1, AnswerIs, WithIs

\* A new generation of s: its number is new to every search.
LEMMA SeesPublish ==
    ASSUME NEW q \in Requesting, NEW s \in Slugs, NEW p, NEW l, NEW n \in Nat, n < MaxGen,
           SlugOK(q, s, p, l, n)
    PROVE  SlugOK([q EXCEPT !.seen[s] = @ \cup {n + 1}], s, n + 1, l, n + 1)
  <1> DEFINE v == [q EXCEPT !.seen[s] = @ \cup {n + 1}]
  <1>1. /\ v.seen[s] = q.seen[s] \cup {n + 1} /\ v.pc = q.pc /\ v.scope = q.scope /\ v.todo = q.todo
        /\ v.token = q.token /\ v.again = q.again /\ v.val = q.val
    BY DEF Requesting
  <1>2. ASSUME s \in DOMAIN q.token PROVE q.token[s] \in Nat
    BY <1>2, TokenIs DEF Requesting, Gens, NoIndex
  <1>3. ASSUME s \in DOMAIN q.val PROVE q.val[s] \in Nat
    BY <1>3, AnswerIs, BoundAssumption DEF Requesting, Gens, Legacy
  <1> HIDE DEF v
  <1>4. ActiveOf(n + 1, l) \in v.seen[s]
    BY <1>1 DEF ActiveOf, NoIndex
  <1>5. TokenOK(v, s, l, n + 1)
    BY <1>1, <1>2 DEF TokenOK, SlugOK
  <1>6. AnswerOK(v, s, n + 1) /\ CoveredOK(v, s)
    BY <1>1, <1>3 DEF AnswerOK, CoveredOK, SlugOK
  <1>7. v.pc # "set" => OvertakenOK(v, s, n + 1, l)
    BY <1>1, <1>2 DEF OvertakenOK, SlugOK, TokenOK
  <1>8. v.pc = "set" => KeyOK(v.token, v.val, s, l)
    BY <1>1 DEF SlugOK
  <1> QED
    BY <1>1, <1>4, <1>5, <1>6, <1>7, <1>8 DEF SlugOK, v

\* The index of s is deleted: a search that runs sees it gone.
LEMMA SeesDelete ==
    ASSUME NEW q \in Requesting, NEW s \in Slugs, NEW p, NEW l, NEW n,
           SlugOK(q, s, p, l, n)
    PROVE  SlugOK([q EXCEPT !.seen[s] = @ \cup {NoIndex}], s, NoIndex, FALSE, n)
  <1> DEFINE v == [q EXCEPT !.seen[s] = @ \cup {NoIndex}]
  <1>1. /\ v.seen[s] = q.seen[s] \cup {NoIndex} /\ v.pc = q.pc /\ v.scope = q.scope
        /\ v.todo = q.todo /\ v.token = q.token /\ v.again = q.again /\ v.val = q.val
    BY DEF Requesting
  <1> HIDE DEF v
  <1>2. ActiveOf(NoIndex, FALSE) \in v.seen[s]
    BY <1>1 DEF ActiveOf
  <1>3. TokenOK(v, s, FALSE, n) /\ AnswerOK(v, s, n) /\ CoveredOK(v, s)
    BY <1>1 DEF TokenOK, AnswerOK, CoveredOK, SlugOK
  <1>4. v.pc # "set" => OvertakenOK(v, s, NoIndex, FALSE)
    BY <1>1 DEF OvertakenOK, SlugOK
  <1>5. v.pc = "set" => KeyOK(v.token, v.val, s, FALSE)
    BY <1>1 DEF SlugOK, KeyOK
  <1> QED
    BY <1>1, <1>2, <1>3, <1>4, <1>5 DEF SlugOK, v

\* Every search that runs sees what becomes of the index of s.
LEMMA IndexStep ==
    ASSUME CacheInv, NEW s \in Slugs, NEW p \in Gens \cup {NoIndex}, NEW l \in BOOLEAN, NEW n \in Nat,
           pub' = [pub EXCEPT ![s] = p], legacy' = [legacy EXCEPT ![s] = l],
           last' = [last EXCEPT ![s] = n], UNCHANGED <<home, cache>>,
           job' \in [Slugs -> Jobs], \A t \in Slugs : t # s => job'[t] = job[t],
           IndexOK(p, l, n, home[s], job'[s]), l => legacy[s], Witness(s),
           \A q \in Requesting : SlugOK(q, s, pub[s], legacy[s], last[s]) =>
               SlugOK([q EXCEPT !.seen[s] = @ \cup {ActiveOf(p, l)}], s, p, l, n)
    PROVE  CacheInv'
  <1>1. \A t \in Slugs : IndexOK(pub[t], legacy[t], last[t], home[t], job[t])'
    BY DEF CacheInv
  <1>2. \A e \in cache' : EntryOK(e, legacy')
    <2> SUFFICES ASSUME NEW e \in cache PROVE EntryOK(e, legacy')
      OBVIOUS
    <2>1. DOMAIN e.val \subseteq Slugs /\ EntryOK(e, legacy)
      BY AnswerIs DEF CacheInv, Kept
    <2>2. \A t \in Slugs : legacy'[t] => legacy[t]
      BY DEF CacheInv
    <2> QED
      BY <2>1, <2>2 DEF EntryOK, KeyOK
  <1>3. Active(s)' = ActiveOf(p, l)
    BY DEF Active, ActiveOf, CacheInv
  <1>4. ASSUME NEW r \in Requests PROVE RequestOK(req'[r], pub', legacy', last')
    <2> DEFINE q == req[r]
               v == [q EXCEPT !.seen[s] = @ \cup {ActiveOf(p, l)}]
    <2>1. q \in Requesting /\ RequestOK(q, pub, legacy, last)
      BY DEF CacheInv, RequestOK
    <2>2. CASE Running(r)
      <3>1. req'[r] = v /\ q.pc \in RunningPcs
        BY <1>3, <2>1, <2>2 DEF Witness, Running, Requesting, RunningPcs
      <3>2. ActiveOf(p, l) \in Gens \cup {NoIndex, Legacy}
        BY DEF ActiveOf
      <3>3. v \in Requesting /\ v.pc = q.pc
        BY <2>1, <3>2 DEF Requesting
      <3>4. SlugOK(v, s, p, l, n)
        BY <2>1, <3>1 DEF RequestOK
      <3>5. ASSUME NEW t \in Slugs, t # s
            PROVE  SlugOK(v, t, pub[t], legacy[t], last[t])
        <4>1. SlugOK(q, t, pub[t], legacy[t], last[t])
          BY <2>1, <3>1 DEF RequestOK
        <4>2. /\ v.seen[t] = q.seen[t] /\ v.scope = q.scope /\ v.todo = q.todo /\ v.pc = q.pc
              /\ v.token = q.token /\ v.again = q.again /\ v.val = q.val
          BY <2>1, <3>5 DEF Requesting
        <4> HIDE DEF v, q
        <4> QED
          BY <4>1, <4>2 DEF SlugOK, TokenOK, AnswerOK, CoveredOK, OvertakenOK
      <3> HIDE DEF v
      <3>6. \A t \in Slugs : SlugOK(v, t, pub'[t], legacy'[t], last'[t])
        BY <3>4, <3>5 DEF CacheInv
      <3> QED
        BY <3>1, <3>3, <3>6 DEF RequestOK, RunningPcs
    <2>3. CASE ~Running(r)
      <3>1. req'[r] = q /\ q.pc \notin RunningPcs
        BY <2>3 DEF Witness, Running, RunningPcs
      <3> QED
        BY <2>1, <3>1 DEF RequestOK
    <2> QED
      BY <2>2, <2>3
  <1>5. req' \in [Requests -> Requesting]
    <2>1. ActiveOf(p, l) \in Gens \cup {NoIndex, Legacy}
      BY DEF ActiveOf
    <2>2. ASSUME NEW q \in Requesting
          PROVE  [q EXCEPT !.seen[s] = @ \cup {ActiveOf(p, l)}] \in Requesting
      BY <2>1 DEF Requesting
    <2> QED
      BY <1>3, <2>2 DEF Witness, CacheInv
  <1>6. /\ pub' \in [Slugs -> Nat] /\ last' \in [Slugs -> Nat]
        /\ legacy' \in [Slugs -> BOOLEAN] /\ home' \in [Slugs -> BOOLEAN]
    BY BoundAssumption DEF CacheInv, Gens, NoIndex
  <1> QED
    BY <1>1, <1>2, <1>4, <1>5, <1>6 DEF CacheInv

\* A build that publishes.
LEMMA PublishInv ==
    ASSUME CacheInv, NEW s \in Slugs, Publish(s)
    PROVE  CacheInv'
  <1> DEFINE n == last[s] + 1
  <1>1. IndexOK(pub[s], legacy[s], last[s], home[s], job[s])
    BY DEF CacheInv
  <1>2. n \in Nat /\ n \in Gens /\ last[s] \in Nat /\ last[s] < MaxGen
    BY <1>1, BoundAssumption DEF IndexOK, Publish, Gens
  <1>3. /\ pub' = [pub EXCEPT ![s] = n] /\ legacy' = [legacy EXCEPT ![s] = legacy[s]]
        /\ last' = [last EXCEPT ![s] = n] /\ UNCHANGED <<home, cache>>
        /\ job' \in [Slugs -> Jobs] /\ job'[s] = "built" /\ \A t \in Slugs : t # s => job'[t] = job[t]
    BY DEF Publish, CacheInv, Jobs
  <1>4. IndexOK(n, legacy[s], n, home[s], job'[s])
    BY <1>1, <1>2, <1>3, BoundAssumption DEF IndexOK, Publish, ActiveOf, NoIndex
  <1>5. ActiveOf(n, legacy[s]) = n
    BY <1>2 DEF ActiveOf, NoIndex, Gens
  <1>6. legacy[s] \in BOOLEAN /\ Witness(s)
    BY DEF CacheInv, Publish
  <1>7. \A q \in Requesting : SlugOK(q, s, pub[s], legacy[s], last[s]) =>
            SlugOK([q EXCEPT !.seen[s] = @ \cup {n}], s, n, legacy[s], n)
    BY <1>2, SeesPublish
  <1> HIDE DEF n
  <1> QED
    BY <1>2, <1>3, <1>4, <1>5, <1>6, <1>7, IndexStep

\* A delete that removes the pointer and the legacy files, before the directory.
LEMMA DeleteIndexInv ==
    ASSUME CacheInv, NEW s \in Slugs, DeleteIndex(s)
    PROVE  CacheInv'
  <1>1. IndexOK(pub[s], legacy[s], last[s], home[s], job[s])
    BY DEF CacheInv
  <1>2. last[s] \in Nat
    BY <1>1, BoundAssumption DEF IndexOK
  <1>3. /\ pub' = [pub EXCEPT ![s] = NoIndex] /\ legacy' = [legacy EXCEPT ![s] = FALSE]
        /\ last' = [last EXCEPT ![s] = last[s]] /\ UNCHANGED <<home, cache>>
        /\ job' \in [Slugs -> Jobs] /\ job'[s] = "deleting" /\ \A t \in Slugs : t # s => job'[t] = job[t]
        /\ Witness(s)
    BY DEF DeleteIndex, CacheInv, Jobs
  <1>4. IndexOK(NoIndex, FALSE, last[s], home[s], job'[s]) /\ ActiveOf(NoIndex, FALSE) = NoIndex
    BY <1>1, <1>2, <1>3 DEF IndexOK, ActiveOf, NoIndex
  <1> QED
    BY <1>2, <1>3, <1>4, IndexStep, SeesDelete

\* Steps of builds and deletes that move no pointer, and what leaves the cache.
LEMMA QuietInv ==
    ASSUME CacheInv,
           Expire \/ \E s \in Slugs : \/ Announce(s) \/ BeginBuild(s) \/ MakeHome(s) \/ UpToDate(s)
                                      \/ BuildEnds(s) \/ InvalidateForSlug(s) \/ DeleteHome(s)
    PROVE  CacheInv'
  <1>1. CASE Expire
    BY <1>1, QuietStep DEF Expire, CacheInv
  <1>2. ASSUME NEW s \in Slugs, InvalidateForSlug(s) PROVE CacheInv'
    BY <1>2, QuietStep DEF InvalidateForSlug, CacheInv
  <1>3. ASSUME NEW s \in Slugs,
               Announce(s) \/ BeginBuild(s) \/ UpToDate(s) \/ BuildEnds(s) \/ MakeHome(s)
                 \/ DeleteHome(s)
        PROVE  CacheInv'
    <2>1. /\ UNCHANGED <<pub, legacy, last, req, cache>>
          /\ home' \in [Slugs -> BOOLEAN] /\ job' \in [Slugs -> Jobs]
      BY <1>3 DEF Announce, BeginBuild, UpToDate, BuildEnds, MakeHome, DeleteHome, CacheInv, Jobs
    <2>2. \A t \in Slugs : t # s => home'[t] = home[t] /\ job'[t] = job[t]
      BY <1>3 DEF Announce, BeginBuild, UpToDate, BuildEnds, MakeHome, DeleteHome, CacheInv, Jobs
    <2>3. \A t \in Slugs : IndexOK(pub[t], legacy[t], last[t], home[t], job[t])
      BY DEF CacheInv
    <2>4. /\ home'[s] = home[s] \/ home'[s] \/ job[s] = "deleting"
          /\ job'[s] # "deleting"
      BY <1>3, <2>3 DEF Announce, BeginBuild, UpToDate, BuildEnds, MakeHome, DeleteHome, CacheInv,
                        IndexOK
    <2>5. IndexOK(pub[s], legacy[s], last[s], home'[s], job'[s])
      BY <2>3, <2>4 DEF IndexOK
    <2> QED
      BY <2>1, <2>2, <2>3, <2>5, QuietStep
  <1> QED
    BY <1>1, <1>2, <1>3

-----------------------------------------------------------------------------

\* A search that runs.
LEMMA RunningIs ==
    ASSUME CacheInv, NEW r \in Requests, req[r].pc \in RunningPcs
    PROVE  /\ req[r] \in Requesting
           /\ \A s \in Slugs : /\ SlugOK(req[r], s, pub[s], legacy[s], last[s])
                               /\ IndexOK(pub[s], legacy[s], last[s], home[s], job[s])
  BY DEF CacheInv, RequestOK

\* An index is active from what its pointer and its legacy files say.
LEMMA ActiveIs ==
    ASSUME CacheInv, NEW s \in Slugs
    PROVE  /\ Active(s) = ActiveOf(pub[s], legacy[s])
           /\ Active(s) \in Gens \cup {NoIndex, Legacy}
           /\ pub[s] \in Gens \cup {NoIndex}
           /\ HasSlug(s) => home[s]
  <1>1. IndexOK(pub[s], legacy[s], last[s], home[s], job[s])
    BY DEF CacheInv
  <1>2. pub[s] \in Gens \cup {NoIndex}
    BY <1>1, BoundAssumption DEF IndexOK, Gens, NoIndex
  <1>3. Active(s) = ActiveOf(pub[s], legacy[s])
    BY DEF Active, ActiveOf
  <1> QED
    BY <1>1, <1>2, <1>3 DEF IndexOK, HasSlug, ActiveOf

\* The step of a search that leaves the cache alone.
LEMMA SearchStep ==
    ASSUME CacheInv, NEW r \in Requests, NEW q, UNCHANGED <<index, cache>>, Becomes(r, q),
           q \in Requesting, RequestOK(q, pub, legacy, last)
    PROVE  CacheInv'
  BY RequestStep DEF CacheInv, Becomes

\* A search begins: it sees the indexes as they are.
LEMMA ReceiveInv ==
    ASSUME CacheInv, NEW r \in Requests, NEW scope \in Scopes, Receive(r, scope)
    PROVE  CacheInv'
  <1> DEFINE seen == [s \in Slugs |-> {Active(s)}]
             todo == Selected(scope)
             q == [Idle EXCEPT !.pc = "token", !.scope = scope, !.todo = todo, !.seen = seen]
  <1>1. UNCHANGED <<index, cache>> /\ Becomes(r, q)
    BY DEF Receive, At
  <1>2. todo \subseteq Slugs
    BY ScopesAssumption DEF Selected
  <1>3. seen \in [Slugs -> SUBSET (Gens \cup {NoIndex, Legacy})]
    BY ActiveIs
  <1> HIDE DEF seen, todo
  <1>4. /\ q \in Requesting /\ q.pc = "token" /\ q.scope = scope /\ q.todo = todo
        /\ q.seen = seen /\ q.token = Empty /\ q.again = Empty /\ q.val = Empty
    BY <1>2, <1>3, IdleIs DEF Requesting, RunningPcs
  <1> HIDE DEF q
  <1>5. ASSUME NEW s \in Slugs PROVE SlugOK(q, s, pub[s], legacy[s], last[s])
    <2>1. s \notin DOMAIN q.token /\ s \notin DOMAIN q.again /\ s \notin DOMAIN q.val
      BY <1>4, IdleIs
    <2>2. q.seen[s] = {Active(s)} /\ Active(s) = ActiveOf(pub[s], legacy[s])
      BY <1>4, ActiveIs DEF seen
    <2>3. s \in q.todo \/ Active(s) = NoIndex \/ (q.scope # All /\ s \notin q.scope)
      BY <1>4, ActiveIs DEF Selected, HasSlug, todo
    <2> QED
      BY <1>4, <2>1, <2>2, <2>3
      DEF SlugOK, TokenOK, AnswerOK, CoveredOK, OvertakenOK, KeyOK
  <1> QED
    BY <1>1, <1>4, <1>5, SearchStep DEF RequestOK, RunningPcs

\* The first reading of a pointer makes the key.
LEMMA ReadPointerInv ==
    ASSUME CacheInv, NEW r \in Requests, NEW t \in Slugs, ReadPointer(r, t)
    PROVE  CacheInv'
  <1> DEFINE q == req[r]
             token == With(q.token, t, pub[t])
             v == [q EXCEPT !.todo = @ \ {t}, !.token = token]
  <1>1. UNCHANGED <<index, cache>> /\ Becomes(r, v) /\ q.pc = "token" /\ t \in q.todo
    BY DEF ReadPointer, At, PointerOf
  <1>2. q \in Requesting /\ \A s \in Slugs : SlugOK(q, s, pub[s], legacy[s], last[s])
    BY <1>1, RunningIs DEF RunningPcs
  <1>3. token \in Tokens
    BY <1>2, WithToken, ActiveIs DEF Requesting
  <1>w. /\ DOMAIN token = DOMAIN q.token \cup {t} /\ token[t] = pub[t]
        /\ \A x \in DOMAIN q.token : x # t => token[x] = q.token[x]
    BY DEF With
  <1> HIDE DEF token
  <1>4. /\ t \in DOMAIN token /\ token[t] = pub[t]
        /\ \A s \in Slugs : s # t => /\ s \in DOMAIN token <=> s \in DOMAIN q.token
                                     /\ s \in DOMAIN token => token[s] = q.token[s]
    BY <1>w
  <1>5. /\ v \in Requesting /\ v.pc = q.pc /\ v.scope = q.scope /\ v.todo = q.todo \ {t}
        /\ v.token = token /\ v.again = q.again /\ v.val = q.val /\ v.seen = q.seen
    BY <1>2, <1>3 DEF Requesting
  <1> HIDE DEF v
  <1>6. ASSUME NEW s \in Slugs PROVE SlugOK(v, s, pub[s], legacy[s], last[s])
    <2>1. SlugOK(q, s, pub[s], legacy[s], last[s])
      BY <1>2
    <2>2. TokenOK(v, s, legacy[s], last[s])
      <3>1. CASE s = t
        <4>1. pub[s] <= last[s]
          BY BoundAssumption DEF CacheInv, IndexOK
        <4>2. ActiveOf(pub[s], legacy[s]) \in q.seen[s]
          BY <2>1 DEF SlugOK
        <4> QED
          BY <1>4, <1>5, <3>1, <4>1, <4>2 DEF TokenOK, ActiveOf, CacheInv
      <3>2. CASE s # t
        BY <1>4, <1>5, <2>1, <3>2 DEF TokenOK, SlugOK
      <3> QED
        BY <3>1, <3>2
    <2> QED
      BY <1>1, <1>4, <1>5, <2>1, <2>2 DEF SlugOK, AnswerOK, CoveredOK, OvertakenOK
  <1> QED
    BY <1>1, <1>5, <1>6, SearchStep DEF RequestOK

\* The second reading of a pointer, after the search.
LEMMA ReadAgainInv ==
    ASSUME CacheInv, NEW r \in Requests, NEW t \in Slugs, ReadAgain(r, t)
    PROVE  CacheInv'
  <1> DEFINE q == req[r]
             again == With(q.again, t, pub[t])
             v == [q EXCEPT !.todo = @ \ {t}, !.again = again]
  <1>1. UNCHANGED <<index, cache>> /\ Becomes(r, v) /\ q.pc = "again"
    BY DEF ReadAgain, At, PointerOf
  <1>2. q \in Requesting /\ \A s \in Slugs : SlugOK(q, s, pub[s], legacy[s], last[s])
    BY <1>1, RunningIs DEF RunningPcs
  <1>3. again \in Tokens
    BY <1>2, WithToken, ActiveIs DEF Requesting
  <1>w. /\ DOMAIN again = DOMAIN q.again \cup {t} /\ again[t] = pub[t]
        /\ \A x \in DOMAIN q.again : x # t => again[x] = q.again[x]
    BY DEF With
  <1> HIDE DEF again
  <1>4. /\ t \in DOMAIN again /\ again[t] = pub[t]
        /\ \A s \in Slugs : s # t => /\ s \in DOMAIN again <=> s \in DOMAIN q.again
                                     /\ s \in DOMAIN again => again[s] = q.again[s]
    BY <1>w
  <1>5. /\ v \in Requesting /\ v.pc = q.pc /\ v.scope = q.scope
        /\ v.token = q.token /\ v.again = again /\ v.val = q.val /\ v.seen = q.seen
    BY <1>2, <1>3 DEF Requesting
  <1> HIDE DEF v
  <1>6. ASSUME NEW s \in Slugs PROVE SlugOK(v, s, pub[s], legacy[s], last[s])
    <2>1. SlugOK(q, s, pub[s], legacy[s], last[s])
      BY <1>2
    <2>2. OvertakenOK(v, s, pub[s], legacy[s])
      <3>1. CASE s = t
        <4>1. s \in DOMAIN q.val => q.val[s] \in Gens \cup {Legacy} /\ (q.val[s] = Legacy \/ q.val[s] <= last[s])
          BY <1>2, <2>1, AnswerIs DEF Requesting, SlugOK, AnswerOK
        <4>2. legacy[s] /\ pub[s] = NoIndex => last[s] = 0
          BY DEF CacheInv, IndexOK
        <4>3. s \in DOMAIN q.val /\ legacy[s] /\ pub[s] = NoIndex => q.val[s] = Legacy
          BY <4>1, <4>2, BoundAssumption DEF Gens
        <4> QED
          BY <1>1, <1>4, <1>5, <2>1, <3>1, <4>3 DEF OvertakenOK, SlugOK
      <3>2. CASE s # t
        BY <1>1, <1>4, <1>5, <2>1, <3>2 DEF OvertakenOK, SlugOK
      <3> QED
        BY <3>1, <3>2
    <2> QED
      BY <1>1, <1>5, <2>1, <2>2 DEF SlugOK, AnswerOK, CoveredOK, TokenOK
  <1> QED
    BY <1>1, <1>5, <1>6, SearchStep DEF RequestOK

\* The search of one slug finds the index that is active at that moment.
LEMMA SearchSlugInv ==
    ASSUME CacheInv, NEW r \in Requests, NEW t \in Slugs, SearchSlug(r, t)
    PROVE  CacheInv'
  <1> DEFINE q == req[r]
             val == With(q.val, t, Active(t))
             v == [q EXCEPT !.todo = @ \ {t}, !.val = val]
  <1>1. UNCHANGED <<index, cache>> /\ Becomes(r, v) /\ q.pc = "search" /\ t \in q.todo
    BY DEF SearchSlug, At
  <1>2. q \in Requesting /\ \A s \in Slugs : SlugOK(q, s, pub[s], legacy[s], last[s])
    BY <1>1, RunningIs DEF RunningPcs
  <1>3. Active(t) \in Gens \cup {Legacy}
    BY ActiveIs DEF SearchSlug, HasSlug
  <1>4. val \in Answers
    BY <1>2, <1>3, WithAnswer DEF Requesting
  <1>w. /\ DOMAIN val = DOMAIN q.val \cup {t} /\ val[t] = Active(t)
        /\ \A x \in DOMAIN q.val : x # t => val[x] = q.val[x]
    BY DEF With
  <1> HIDE DEF val
  <1>5. /\ t \in DOMAIN val /\ val[t] = Active(t)
        /\ \A s \in Slugs : s # t => /\ s \in DOMAIN val <=> s \in DOMAIN q.val
                                     /\ s \in DOMAIN val => val[s] = q.val[s]
    BY <1>w
  <1>6. /\ v \in Requesting /\ v.pc = q.pc /\ v.scope = q.scope /\ v.todo = q.todo \ {t}
        /\ v.token = q.token /\ v.again = q.again /\ v.val = val /\ v.seen = q.seen
    BY <1>2, <1>4 DEF Requesting
  <1> HIDE DEF v
  <1>7. ASSUME NEW s \in Slugs PROVE SlugOK(v, s, pub[s], legacy[s], last[s])
    <2>1. SlugOK(q, s, pub[s], legacy[s], last[s])
      BY <1>2
    <2>2. AnswerOK(v, s, last[s]) /\ OvertakenOK(v, s, pub[s], legacy[s])
      <3>1. CASE s = t
        <4>1. Active(s) = ActiveOf(pub[s], legacy[s]) /\ Active(s) # NoIndex
          BY <3>1, ActiveIs DEF SearchSlug, HasSlug
        <4>2. Active(s) \in q.seen[s] /\ (q.scope # All => s \in q.scope) /\ s \notin DOMAIN q.again
          BY <1>1, <2>1, <3>1, <4>1 DEF SlugOK
        <4>3. pub[s] <= last[s]
          BY BoundAssumption DEF CacheInv, IndexOK
        <4>4. /\ Active(s) = Legacy \/ Active(s) <= last[s]
              /\ pub[s] # NoIndex => Active(s) = pub[s]
          BY <4>1, <4>3 DEF ActiveOf
        <4> QED
          BY <1>1, <1>5, <1>6, <3>1, <4>2, <4>4 DEF AnswerOK, OvertakenOK
      <3>2. CASE s # t
        BY <1>1, <1>5, <1>6, <2>1, <3>2 DEF AnswerOK, OvertakenOK, SlugOK
      <3> QED
        BY <3>1, <3>2
    <2> QED
      BY <1>1, <1>6, <2>1, <2>2 DEF SlugOK, CoveredOK, TokenOK
  <1> QED
    BY <1>1, <1>6, <1>7, SearchStep DEF RequestOK

\* A search that goes on with what it has read and found.
LEMMA GoesOn ==
    ASSUME CacheInv, NEW r \in Requests, NEW pc \in RunningPcs, NEW todo \in SUBSET Slugs,
           NEW again \in {req[r].again, Empty},
           UNCHANGED <<index, cache>>, req[r].pc \in RunningPcs,
           Becomes(r, [req[r] EXCEPT !.pc = pc, !.todo = todo, !.again = again]),
           \A s \in Slugs :
               SlugOK(req[r], s, pub[s], legacy[s], last[s]) =>
                  /\ (pc = "token" /\ s \in todo) \/ req[r].pc # "token" \/ s \notin req[r].todo
                  /\ pc \in {"token", "get", "check", "discover"} => s \notin DOMAIN req[r].val
                  /\ pc \notin {"again", "set"} => s \notin DOMAIN again
                  /\ pc = "search" /\ req[r].scope # All /\ s \in todo => s \in req[r].scope
                  /\ pc # "set" => again = req[r].again /\ req[r].pc # "set"
                  /\ pc = "set" => KeyOK(req[r].token, req[r].val, s, legacy[s])
    PROVE  CacheInv'
  <1> DEFINE q == req[r]
             v == [q EXCEPT !.pc = pc, !.todo = todo, !.again = again]
  <1>1. q \in Requesting /\ \A s \in Slugs : SlugOK(q, s, pub[s], legacy[s], last[s])
    BY RunningIs
  <1>2. again \in Tokens
    BY <1>1, IdleIs DEF Requesting
  <1>3. /\ v \in Requesting /\ v.pc = pc /\ v.scope = q.scope /\ v.todo = todo
        /\ v.token = q.token /\ v.again = again /\ v.val = q.val /\ v.seen = q.seen
    BY <1>1, <1>2 DEF Requesting
  <1> HIDE DEF v
  <1>4. ASSUME NEW s \in Slugs PROVE SlugOK(v, s, pub[s], legacy[s], last[s])
    <2>1. SlugOK(q, s, pub[s], legacy[s], last[s])
      BY <1>1
    <2>2. TokenOK(v, s, legacy[s], last[s]) /\ AnswerOK(v, s, last[s]) /\ CoveredOK(v, s)
      BY <1>3, <2>1 DEF SlugOK, TokenOK, AnswerOK, CoveredOK
    <2>3. pc # "set" => OvertakenOK(v, s, pub[s], legacy[s])
      BY <1>3, <2>1 DEF SlugOK, OvertakenOK
    <2> QED
      BY <1>3, <2>1, <2>2, <2>3 DEF SlugOK
  <1> QED
    BY <1>1, <1>3, <1>4, SearchStep DEF RequestOK, RunningPcs, v

\* The steps between the readings, the searches and the answer.
LEMMA StepsOfASearch ==
    ASSUME CacheInv, NEW r \in Requests,
           \/ TokenRead(r) \/ Miss(r) \/ Discover(r) \/ Merge(r)
           \/ \E t \in Slugs : SearchSlugFails(r, t)
    PROVE  CacheInv'
  <1> DEFINE q == req[r]
  <1>1. q.pc \in RunningPcs /\ UNCHANGED <<index, cache>>
    BY DEF TokenRead, Miss, Discover, Merge, SearchSlugFails, At, RunningPcs
  <1>2. q \in Requesting
    BY <1>1, RunningIs
  <1>3. \A pc, todo : /\ [q EXCEPT !.pc = pc] = [q EXCEPT !.pc = pc, !.todo = q.todo, !.again = q.again]
                      /\ [q EXCEPT !.pc = pc, !.todo = todo]
                           = [q EXCEPT !.pc = pc, !.todo = todo, !.again = q.again]
                      /\ [q EXCEPT !.todo = todo]
                           = [q EXCEPT !.pc = q.pc, !.todo = todo, !.again = q.again]
    BY <1>2 DEF Requesting
  <1>4. CASE TokenRead(r)
    <2>1. /\ Becomes(r, [q EXCEPT !.pc = "get", !.todo = q.todo, !.again = q.again])
          /\ q.pc = "token" /\ q.todo = {}
      BY <1>3, <1>4 DEF TokenRead, At
    <2> QED
      BY <1>1, <2>1, GoesOn DEF SlugOK, RunningPcs
  <1>5. CASE Miss(r)
    <2>1. /\ Becomes(r, [q EXCEPT !.pc = "check", !.todo = q.todo, !.again = q.again])
          /\ q.pc = "get"
      BY <1>3, <1>5 DEF Miss, At
    <2>2. q.todo \in SUBSET Slugs
      BY <1>2 DEF Requesting
    <2> QED
      BY <1>1, <2>1, <2>2, GoesOn DEF SlugOK, RunningPcs
  <1>6. CASE Discover(r)
    <2> DEFINE todo == {s \in IF q.scope = All THEN Slugs ELSE q.scope : HasSlug(s)}
    <2>1. /\ Becomes(r, [q EXCEPT !.pc = "search", !.todo = todo, !.again = q.again])
          /\ q.pc = "discover"
      BY <1>3, <1>6 DEF Discover, At
    <2>2. todo \in SUBSET Slugs /\ (q.scope # All => todo \subseteq q.scope)
      BY <1>2, ScopesAssumption DEF Requesting
    <2> HIDE DEF todo
    <2> QED
      BY <1>1, <2>1, <2>2, GoesOn DEF SlugOK, RunningPcs
  <1>7. CASE Merge(r)
    <2> DEFINE todo == Selected(q.scope)
    <2>1. /\ Becomes(r, [q EXCEPT !.pc = "again", !.todo = todo, !.again = q.again])
          /\ q.pc = "search"
      BY <1>3, <1>7 DEF Merge, At
    <2>2. todo \in SUBSET Slugs
      BY <1>2, ScopesAssumption DEF Requesting, Selected
    <2> HIDE DEF todo
    <2>3. "again" \in RunningPcs
      BY DEF RunningPcs
    <2> QED
      BY <1>1, <2>1, <2>2, <2>3, GoesOn
  <1>8. ASSUME NEW t \in Slugs, SearchSlugFails(r, t) PROVE CacheInv'
    <2> DEFINE todo == q.todo \ {t}
    <2>1. /\ Becomes(r, [q EXCEPT !.pc = q.pc, !.todo = todo, !.again = q.again])
          /\ q.pc = "search"
      BY <1>3, <1>8 DEF SearchSlugFails, At
    <2>2. todo \in SUBSET Slugs /\ todo \subseteq q.todo
      BY <1>2 DEF Requesting
    <2> HIDE DEF todo
    <2>3. ASSUME NEW s \in Slugs, SlugOK(q, s, pub[s], legacy[s], last[s])
          PROVE  /\ s \in todo => s \in q.todo
                 /\ s \in q.todo => q.scope = All \/ s \in q.scope
                 /\ s \notin DOMAIN q.again
      BY <2>1, <2>2, <2>3 DEF SlugOK
    <2>4. "search" \in RunningPcs
      BY DEF RunningPcs
    <2> QED
      BY <1>1, <2>1, <2>2, <2>3, <2>4, GoesOn
  <1> QED
    BY <1>4, <1>5, <1>6, <1>7, <1>8

\* A search that is refused, or that raises.
LEMMA RefuseInv ==
    ASSUME CacheInv, NEW r \in Requests, UNCHANGED <<index, cache>>, Refuse(r)
    PROVE  CacheInv'
  <1>1. /\ [Idle EXCEPT !.pc = "refused"] \in Requesting
        /\ [Idle EXCEPT !.pc = "refused"].pc = "refused"
    BY IdleIs DEF Requesting
  <1> QED
    BY <1>1, SearchStep DEF Refuse, RequestOK, RunningPcs

\* What a search answers, from the cache or not.
LEMMA AnswerInv ==
    ASSUME CacheInv, NEW r \in Requests, NEW val \in Answers, UNCHANGED index, Answer(r, val),
           req[r].pc \in RunningPcs,
           \A s \in DOMAIN val : val[s] \in req[r].seen[s] \/ NoIndex \in req[r].seen[s],
           cache' \subseteq Kept, \A e \in cache' : EntryOK(e, legacy)
    PROVE  CacheInv'
  <1> DEFINE seen == req[r].seen
             q == [Idle EXCEPT !.pc = "done", !.val = val, !.seen = seen]
  <1>1. seen \in [Slugs -> SUBSET (Gens \cup {NoIndex, Legacy})]
    BY RunningIs DEF Requesting
  <1> HIDE DEF seen
  <1>2. q \in Requesting /\ q.pc = "done" /\ q.val = val /\ q.seen = seen
    BY <1>1, IdleIs DEF Requesting
  <1>3. req' = [req EXCEPT ![r] = q]
    BY DEF Answer, Becomes, seen
  <1> HIDE DEF q
  <1>4. RequestOK(q, pub, legacy, last)
    BY <1>2 DEF RequestOK, RunningPcs, DoneOK, seen
  <1> QED
    BY <1>2, <1>3, <1>4, RequestStep

\* A search whose scope has an unknown slug is refused; others go on.
LEMMA CheckInv ==
    ASSUME CacheInv, NEW r \in Requests, Check(r)
    PROVE  CacheInv'
  <1> DEFINE q == req[r]
  <1>1. q.pc = "check" /\ q.pc \in RunningPcs /\ UNCHANGED <<index, cache>>
    BY DEF Check, At, RunningPcs
  <1>2. q \in Requesting
    BY <1>1, RunningIs
  <1>3. CASE Refuse(r)
    BY <1>1, <1>3, RefuseInv
  <1>4. CASE Becomes(r, [q EXCEPT !.pc = "discover"])
    <2>1. [q EXCEPT !.pc = "discover"]
            = [q EXCEPT !.pc = "discover", !.todo = q.todo, !.again = q.again]
      BY <1>2 DEF Requesting
    <2>2. q.todo \in SUBSET Slugs /\ Becomes(r, [q EXCEPT !.pc = "discover", !.todo = q.todo,
                                                          !.again = q.again])
      BY <1>2, <1>4, <2>1 DEF Requesting
    <2> QED
      BY <1>1, <2>2, GoesOn DEF SlugOK, RunningPcs
  <1> QED
    BY <1>3, <1>4 DEF Check

\* What a running search has found so far is current.
LEMMA FoundIsSeen ==
    ASSUME CacheInv, NEW r \in Requests, req[r].pc \in RunningPcs
    PROVE  /\ req[r].val \in Answers
           /\ \A s \in DOMAIN req[r].val : req[r].val[s] \in req[r].seen[s]
  <1>1. req[r].val \in Answers /\ DOMAIN req[r].val \subseteq Slugs
    BY RunningIs, AnswerIs DEF Requesting
  <1> QED
    BY <1>1, RunningIs DEF SlugOK, AnswerOK

\* A search whose two readings differ answers without storing.
LEMMA CompareInv ==
    ASSUME CacheInv, NEW r \in Requests, Compare(r)
    PROVE  CacheInv'
  <1> DEFINE q == req[r]
  <1>1. q.pc = "again" /\ q.pc \in RunningPcs /\ UNCHANGED <<index, cache>>
    BY DEF Compare, At, RunningPcs
  <1>2. q \in Requesting /\ \A s \in Slugs : SlugOK(q, s, pub[s], legacy[s], last[s])
    BY <1>1, RunningIs
  <1>3. CASE q.again # q.token
    <2>1. Answer(r, q.val)
      BY <1>3 DEF Compare, GenerationUnchanged
    <2> QED
      BY <1>1, <2>1, FoundIsSeen, AnswerInv DEF CacheInv
  <1>4. CASE q.again = q.token
    <2>1. [q EXCEPT !.pc = "set", !.again = Empty]
            = [q EXCEPT !.pc = "set", !.todo = q.todo, !.again = Empty]
      BY <1>2, IdleIs DEF Requesting
    <2>2. q.todo \in SUBSET Slugs /\ Becomes(r, [q EXCEPT !.pc = "set", !.todo = q.todo,
                                                          !.again = Empty])
      BY <1>2, <1>4, <2>1 DEF Requesting, Compare, GenerationUnchanged
    <2>3. ASSUME NEW s \in Slugs PROVE KeyOK(q.token, q.val, s, legacy[s])
      BY <1>1, <1>2, <1>4 DEF SlugOK, OvertakenOK, KeyOK
    <2>4. \A s \in Slugs : s \notin DOMAIN Empty
      BY IdleIs
    <2>5. "set" \in RunningPcs
      BY DEF RunningPcs
    <2> QED
      BY <1>1, <2>2, <2>3, <2>4, <2>5, GoesOn
  <1> QED
    BY <1>3, <1>4

\* An answer stored under its key, or not when storing fails.
LEMMA StoreInv ==
    ASSUME CacheInv, NEW r \in Requests, Store(r) \/ StoreFails(r)
    PROVE  CacheInv'
  <1> DEFINE q == req[r]
             new == [scope |-> q.scope, token |-> q.token, val |-> q.val]
  <1>1. q.pc = "set" /\ q.pc \in RunningPcs /\ UNCHANGED index /\ Answer(r, q.val)
    BY DEF Store, StoreFails, At, RunningPcs
  <1>2. q \in Requesting /\ \A s \in Slugs : SlugOK(q, s, pub[s], legacy[s], last[s])
    BY <1>1, RunningIs
  <1>3. CASE StoreFails(r)
    BY <1>1, <1>3, FoundIsSeen, AnswerInv DEF StoreFails, CacheInv
  <1>4. CASE Store(r)
    <2>1. cache' \subseteq cache \cup {new}
      BY <1>4 DEF Store
    <2>2. new \in Kept
      BY <1>2, <1>1 DEF Requesting, Kept
    <2>3. EntryOK(new, legacy)
      <3>1. DOMAIN q.val \subseteq Slugs
        BY <1>2, AnswerIs DEF Requesting
      <3> QED
        BY <1>1, <1>2, <3>1 DEF EntryOK, SlugOK, AnswerOK
    <2> HIDE DEF new
    <2>4. cache' \subseteq Kept /\ \A e \in cache' : EntryOK(e, legacy)
      BY <2>1, <2>2, <2>3 DEF CacheInv
    <2> QED
      BY <1>1, <2>4, FoundIsSeen, AnswerInv
  <1> QED
    BY <1>3, <1>4

\* An answer from the cache is of the generations the search has just read.
LEMMA HitInv ==
    ASSUME CacheInv, NEW r \in Requests, Hit(r)
    PROVE  CacheInv'
  <1> DEFINE q == req[r]
  <1>1. q.pc = "get" /\ q.pc \in RunningPcs /\ UNCHANGED <<index, cache>>
    BY DEF Hit, At, RunningPcs
  <1>2. PICK e \in cache : SameKey(e, r) /\ Answer(r, e.val)
    BY DEF Hit
  <1>3. q \in Requesting /\ \A s \in Slugs : SlugOK(q, s, pub[s], legacy[s], last[s])
    BY <1>1, RunningIs
  <1>4. e.val \in Answers /\ DOMAIN e.val \subseteq Slugs /\ EntryOK(e, legacy)
    BY AnswerIs DEF CacheInv, Kept
  <1>5. ASSUME NEW s \in DOMAIN e.val
        PROVE  e.val[s] \in q.seen[s] \/ NoIndex \in q.seen[s]
    <2>1. TokenOK(q, s, legacy[s], last[s]) /\ CoveredOK(q, s)
      BY <1>3, <1>4 DEF SlugOK
    <2>2. KeyOK(q.token, e.val, s, legacy[s]) /\ (q.scope = All \/ s \in q.scope)
      BY <1>2, <1>4 DEF EntryOK, SameKey
    <2> QED
      BY <1>1, <2>1, <2>2 DEF TokenOK, CoveredOK, KeyOK
  <1> QED
    BY <1>1, <1>2, <1>4, <1>5, AnswerInv DEF CacheInv

-----------------------------------------------------------------------------
\* The cached searches alone.
CacheSpec == CacheInit /\ [][CacheNext]_CacheVars

\* In every reachable state the indexes, the cache and the searches agree: CacheInv.
THEOREM CacheInvariant == CacheSpec => []CacheInv
  <1>1. CacheInv /\ [CacheNext]_CacheVars => CacheInv'
    <2> SUFFICES ASSUME CacheInv, [CacheNext]_CacheVars
                 PROVE  CacheInv'
      OBVIOUS
    <2>1. CASE UNCHANGED CacheVars
      BY <2>1 DEF CacheVars, CacheInv
    <2>2. ASSUME NEW s \in Slugs,
                 \/ Announce(s) \/ BeginBuild(s) \/ MakeHome(s) \/ Publish(s) \/ UpToDate(s)
                 \/ BuildEnds(s) \/ InvalidateForSlug(s) \/ DeleteIndex(s) \/ DeleteHome(s)
          PROVE  CacheInv'
      BY <2>2, QuietInv, PublishInv, DeleteIndexInv
    <2>3. ASSUME NEW r \in Requests, SearchFails(r) PROVE CacheInv'
      BY <2>3, RefuseInv DEF SearchFails, At
    <2> QED
      BY <2>1, <2>2, <2>3, QuietInv, ReceiveInv, ReadPointerInv, ReadAgainInv, SearchSlugInv,
         StepsOfASearch, HitInv, CheckInv, CompareInv, StoreInv DEF CacheNext
  <1> QED
    BY CacheInitial, <1>1, PTL DEF CacheSpec

\* What a search answers about a slug, cached or not, is an index that was active while
\* it ran, or the slug lost its index meanwhile; for any number of searches and slugs.
THEOREM Answered == CacheSpec => []AnswersAreCurrent
  <1>1. CacheInv => AnswersAreCurrent
    BY DEF CacheInv, RequestOK, DoneOK, AnswersAreCurrent
  <1> QED
    BY <1>1, CacheInvariant, PTL

\* No entry of the cache ever answers for another generation than its key names.
THEOREM Entered == CacheSpec => []CachedGenerations
  <1>1. CacheInv => CachedGenerations
    BY DEF CacheInv, EntryOK, KeyOK, CachedGenerations
  <1> QED
    BY <1>1, CacheInvariant, PTL

-----------------------------------------------------------------------------
(* CollectionSweep                                                         *)

\* The steps of a delete; the collections; and what builds and deletes know.
SweepPcs == {"open", "purge", "count", "drop"}
Records == [up : BOOLEAN, records : SUBSET Repositories, open : SUBSET Repositories]
Workers == [pc : SweepPcs \union {"rest", "store", "save", "clean"},
            own : SUBSET (Repositories \X (Nat \ {0})), todo : SUBSET Collections, at : Collections,
            purged : BOOLEAN, dropped : SUBSET Collections, failed : BOOLEAN]

\* A collection c of a generation holds records of its slug alone; k is what is there.
CollectionOK(c, k) ==
    /\ k.up \/ (k.records = {} /\ k.open = {})
    /\ c # Shared => k.records \subseteq {c[1]}

\* What the build or delete w of slug s may rely on while others go through the
\* collections k.
WorkerOK(s, w, k) ==
    /\ w.pc = "store" => w.at # Shared /\ w.at[1] = s
    /\ w.pc \in SweepPcs =>
         /\ \A c \in w.own : c[1] = s
         /\ w.pc \in {"open", "purge"} => w.purged = FALSE
         /\ w.purged /\ w.at # Shared => w.at[1] = s
         /\ ~w.failed => \A c \in Collections :
                s \in k[c].records => c \in w.todo \/ (w.pc = "purge" /\ c = w.at)
    /\ w.pc = "drop" => IF w.at = Shared THEN k[Shared].records = {} ELSE w.at[1] = s

\* The invariant of the collections and the builds and deletes that use them.
SweepInv ==
    /\ chroma \in [Collections -> Records] /\ worker \in [Repositories -> Workers]
    /\ disk \in [Repositories -> SUBSET (Nat \ {0})] /\ builds \in [Repositories -> Nat \ {0}]
    /\ \A c \in Collections : CollectionOK(c, chroma[c])
    /\ \A s \in Repositories : WorkerOK(s, worker[s], chroma)

\* The sweeps alone.
SweepSpec == SweepInit /\ [][SweepNext]_SweepVars

\* Collections of generations are not the shared one, and belong to a slug.
LEMMA CollectionIs ==
    /\ Shared \in Collections /\ Shared[2] # 1
    /\ \A s \in Repositories, g \in 1..MaxGenerations :
           <<s, g>> \in Collections /\ <<s, g>> # Shared
    /\ \A c \in Collections : c # Shared => c[1] \in Repositories /\ c[2] \in Nat \ {0}
                                              /\ c = <<c[1], c[2]>>
  BY SweepAssumption DEF Collections, Shared

\* A worker at rest.
LEMMA RestingIs ==
    Resting \in Workers /\ Resting.pc = "rest" /\ Resting.failed = FALSE /\ Resting.purged = FALSE
  BY CollectionIs DEF Resting, Workers

\* Nobody is at work at first, and records are where builds have put them.
LEMMA SweepInitial == SweepInit => SweepInv
  <1> SUFFICES ASSUME SweepInit PROVE SweepInv
    OBVIOUS
  <1>1. PICK sharers \in {{}, Repositories} :
          chroma = [c \in Collections |->
                      CASE c = Shared -> [up |-> sharers # {}, records |-> sharers, open |-> {}]
                        [] c[2] = 1 -> [up |-> TRUE, records |-> {c[1]}, open |-> {}]
                        [] OTHER -> Absent]
    BY DEF SweepInit
  <1>2. ASSUME NEW c \in Collections PROVE chroma[c] \in Records /\ CollectionOK(c, chroma[c])
    <2>1. CASE c = Shared
      <3>1. chroma[c] = [up |-> sharers # {}, records |-> sharers, open |-> {}]
        BY <1>1, <2>1, CollectionIs
      <3>2. CASE sharers = {}
        BY <2>1, <3>1, <3>2 DEF Records, CollectionOK
      <3>3. CASE sharers # {}
        <4>1. chroma[c] = [up |-> TRUE, records |-> sharers, open |-> {}]
          BY <3>1, <3>3
        <4> QED
          BY <1>1, <2>1, <4>1 DEF Records, CollectionOK
      <3> QED
        BY <3>2, <3>3
    <2>2. CASE c # Shared /\ c[2] = 1
      <3>1. chroma[c] = [up |-> TRUE, records |-> {c[1]}, open |-> {}]
        BY <1>1, <2>2
      <3> QED
        BY <2>2, <3>1, CollectionIs DEF Records, CollectionOK
    <2>3. CASE c # Shared /\ c[2] # 1
      <3>1. chroma[c] = Absent
        BY <1>1, <2>3
      <3> QED
        BY <3>1 DEF Records, CollectionOK, Absent
    <2> QED
      BY <2>1, <2>2, <2>3
  <1>3. chroma \in [Collections -> Records]
    <2>1. chroma = [c \in Collections |-> chroma[c]]
      BY <1>1
    <2> QED
      BY <1>2, <2>1
  <1>4. worker \in [Repositories -> Workers] /\ \A s \in Repositories : WorkerOK(s, worker[s], chroma)
    BY RestingIs DEF SweepInit, WorkerOK, SweepPcs
  <1>5. disk \in [Repositories -> SUBSET (Nat \ {0})] /\ builds \in [Repositories -> Nat \ {0}]
    BY DEF SweepInit
  <1> QED
    BY <1>2, <1>3, <1>4, <1>5 DEF SweepInv

\* A step of slug s: it may add records of s, and none to the shared collection.
LEMMA WorkerStep ==
    ASSUME SweepInv, NEW s \in Repositories, NEW w \in Workers, NEW k \in [Collections -> Records],
           chroma' = k, worker' = [worker EXCEPT ![s] = w],
           disk' \in [Repositories -> SUBSET (Nat \ {0})], builds' \in [Repositories -> Nat \ {0}],
           \A c \in Collections : /\ CollectionOK(c, k[c])
                                  /\ k[c].records \subseteq chroma[c].records \union {s},
           k[Shared].records \subseteq chroma[Shared].records,
           WorkerOK(s, w, k)
    PROVE  SweepInv'
  <1>1. ASSUME NEW t \in Repositories, t # s PROVE WorkerOK(t, worker[t], k)
    <2>1. WorkerOK(t, worker[t], chroma)
      BY DEF SweepInv
    <2>2. \A c \in Collections : t \in k[c].records => t \in chroma[c].records
      BY <1>1
    <2> QED
      BY <2>1, <2>2 DEF WorkerOK
  <1>2. \A t \in Repositories : WorkerOK(t, worker'[t], k)
    BY <1>1 DEF SweepInv
  <1> QED
    BY <1>2 DEF SweepInv

\* Opening a collection, even one that must be made, changes no records.
LEMMA GetOrCreateIs ==
    ASSUME SweepInv, NEW s \in Repositories, NEW c \in Collections
    PROVE  /\ GetOrCreate(s, c) \in [Collections -> Records]
           /\ \A d \in Collections : /\ CollectionOK(d, GetOrCreate(s, c)[d])
                                     /\ GetOrCreate(s, c)[d].records = chroma[d].records
  <1> DEFINE k == GetOrCreate(s, c)
             new == [chroma[c] EXCEPT !.up = TRUE, !.open = @ \union {s}]
  <1>1. chroma[c] \in Records /\ chroma \in [Collections -> Records]
    BY DEF SweepInv
  <1>2. new \in Records /\ new.up /\ new.records = chroma[c].records
    BY <1>1 DEF Records
  <1>3. k = [chroma EXCEPT ![c] = new]
    BY <1>1 DEF GetOrCreate, Records
  <1> HIDE DEF k, new
  <1>4. k \in [Collections -> Records] /\ k[c] = new /\ \A d \in Collections : d # c => k[d] = chroma[d]
    BY <1>1, <1>2, <1>3
  <1> QED
    BY <1>2, <1>4 DEF SweepInv, CollectionOK, k

\* Nor does closing what a worker has open.
LEMMA ClosedIs ==
    ASSUME SweepInv, NEW s \in Repositories
    PROVE  /\ Closed(s) \in [Collections -> Records]
           /\ \A d \in Collections : /\ CollectionOK(d, Closed(s)[d])
                                     /\ Closed(s)[d].up = chroma[d].up
                                     /\ Closed(s)[d].records = chroma[d].records
  <1> DEFINE k == Closed(s)
             c == worker[s].at
             new == [chroma[c] EXCEPT !.open = @ \ {s}]
  <1>1. c \in Collections /\ chroma[c] \in Records /\ chroma \in [Collections -> Records]
    BY DEF SweepInv, Workers
  <1>2. /\ new \in Records /\ new.up = chroma[c].up /\ new.records = chroma[c].records
        /\ new.open \subseteq chroma[c].open
    BY <1>1 DEF Records
  <1>3. k = [chroma EXCEPT ![c] = new]
    BY <1>1 DEF Closed, Records
  <1> HIDE DEF k, new
  <1>4. k \in [Collections -> Records] /\ k[c] = new /\ \A d \in Collections : d # c => k[d] = chroma[d]
    BY <1>1, <1>2, <1>3
  <1> QED
    BY <1>2, <1>4 DEF SweepInv, CollectionOK, k

\* Dropping a collection changes no other.
LEMMA DroppedIs ==
    ASSUME SweepInv, NEW c
    PROVE  /\ Dropped(c) \in [Collections -> Records]
           /\ \A d \in Collections : /\ CollectionOK(d, Dropped(c)[d])
                                     /\ Dropped(c)[d].records \subseteq chroma[d].records
                                     /\ d # c => Dropped(c)[d] = chroma[d]
  <1>1. Absent \in Records /\ Absent.records = {} /\ Absent.open = {}
    BY DEF Absent, Records
  <1> QED
    BY <1>1 DEF Dropped, SweepInv, CollectionOK

-----------------------------------------------------------------------------

\* A worker of slug s, whatever it does.
LEMMA WorkerIs ==
    ASSUME SweepInv, NEW s \in Repositories
    PROVE  /\ worker[s] \in Workers /\ WorkerOK(s, worker[s], chroma)
           /\ worker \in [Repositories -> Workers] /\ chroma \in [Collections -> Records]
           /\ disk \in [Repositories -> SUBSET (Nat \ {0})]
           /\ builds \in [Repositories -> Nat \ {0}]
           /\ \A c \in Collections : CollectionOK(c, chroma[c])
  BY DEF SweepInv

\* A worker at rest relies on nothing.
LEMMA RestingOK == ASSUME NEW s, NEW k PROVE WorkerOK(s, Resting, k)
  BY RestingIs DEF WorkerOK, SweepPcs

\* A build makes the collection of its next generation.
LEMMA BuildOpensInv ==
    ASSUME SweepInv, NEW s \in Repositories, BuildOpens(s)
    PROVE  SweepInv'
  <1> DEFINE c == <<s, builds[s] + 1>>
             w == [Resting EXCEPT !.pc = "store", !.at = c]
             k == GetOrCreate(s, c)
  <1>1. builds[s] \in Nat \ {0} /\ builds[s] + 1 \in 1..MaxGenerations
    BY WorkerIs, SweepAssumption DEF BuildOpens
  <1>2. c \in Collections /\ c # Shared /\ c[1] = s
    BY <1>1, CollectionIs
  <1> HIDE DEF c
  <1>3. w \in Workers /\ w.pc = "store" /\ w.at = c
    BY <1>2, RestingIs DEF Workers
  <1>4. chroma' = k /\ worker' = [worker EXCEPT ![s] = w]
    BY DEF BuildOpens, c
  <1>5. builds' \in [Repositories -> Nat \ {0}] /\ disk' \in [Repositories -> SUBSET (Nat \ {0})]
    BY WorkerIs DEF BuildOpens
  <1> HIDE DEF w, k
  <1>6. WorkerOK(s, w, k)
    BY <1>2, <1>3 DEF WorkerOK, SweepPcs
  <1>7. /\ k \in [Collections -> Records]
        /\ \A d \in Collections : CollectionOK(d, k[d]) /\ k[d].records = chroma[d].records
    BY <1>2, GetOrCreateIs DEF k
  <1>8. /\ \A d \in Collections : CollectionOK(d, k[d]) /\ k[d].records \subseteq chroma[d].records \union {s}
        /\ k[Shared].records \subseteq chroma[Shared].records
    BY <1>7, CollectionIs
  <1> QED
    BY <1>3, <1>4, <1>5, <1>6, <1>7, <1>8, WorkerStep

\* A build stores records of its slug there.
LEMMA BuildStoresInv ==
    ASSUME SweepInv, NEW s \in Repositories, BuildStores(s)
    PROVE  SweepInv'
  <1> DEFINE c == worker[s].at
             closed == Closed(s)
             new == [closed[c] EXCEPT !.records = @ \union {s}]
             k == [closed EXCEPT ![c] = new]
             w == [Resting EXCEPT !.pc = "save"]
  <1>1. c \in Collections /\ c # Shared /\ c[1] = s
    BY WorkerIs DEF BuildStores, Working, WorkerOK, Workers
  <1>2. /\ closed \in [Collections -> Records]
        /\ \A d \in Collections : /\ CollectionOK(d, closed[d])
                                  /\ closed[d].up = chroma[d].up
                                  /\ closed[d].records = chroma[d].records
    BY ClosedIs
  <1>3. chroma' = k /\ worker' = [worker EXCEPT ![s] = w]
    BY <1>1, <1>2 DEF BuildStores, Records
  <1>4. chroma[c].up
    BY <1>1, WorkerIs DEF BuildStores, Opened, CollectionOK
  <1> HIDE DEF closed, c
  <1>5. /\ new \in Records /\ new.up /\ new.records = closed[c].records \union {s}
    BY <1>1, <1>2, <1>4 DEF Records
  <1> HIDE DEF new
  <1>6. /\ k \in [Collections -> Records] /\ k[c] = new
        /\ \A d \in Collections : d # c => k[d] = closed[d]
    BY <1>1, <1>2, <1>5
  <1> HIDE DEF k
  <1>7. \A d \in Collections : CollectionOK(d, k[d]) /\ k[d].records \subseteq chroma[d].records \union {s}
    BY <1>1, <1>2, <1>5, <1>6 DEF CollectionOK
  <1>8. w \in Workers /\ w.pc = "save"
    BY RestingIs DEF Workers
  <1> HIDE DEF w
  <1>9. WorkerOK(s, w, k)
    BY <1>8 DEF WorkerOK, SweepPcs
  <1>10. UNCHANGED <<disk, builds>>
    BY DEF BuildStores
  <1>11. k[Shared].records \subseteq chroma[Shared].records
    BY <1>1, <1>2, <1>6, CollectionIs
  <1>12. disk' \in [Repositories -> SUBSET (Nat \ {0})] /\ builds' \in [Repositories -> Nat \ {0}]
    BY <1>10, WorkerIs
  <1> QED
    BY <1>3, <1>6, <1>7, <1>8, <1>9, <1>11, <1>12, WorkerStep

\* A build that fails drops the collection it has made.
LEMMA BuildFailsInv ==
    ASSUME SweepInv, NEW s \in Repositories, BuildFails(s)
    PROVE  SweepInv'
  <1> DEFINE k == Dropped(<<s, builds[s]>>)
  <1>1. /\ chroma' = k /\ worker' = [worker EXCEPT ![s] = Resting] /\ UNCHANGED <<disk, builds>>
    BY DEF BuildFails, Ends
  <1>2. /\ k \in [Collections -> Records]
        /\ \A d \in Collections : CollectionOK(d, k[d]) /\ k[d].records \subseteq chroma[d].records
    BY DroppedIs
  <1> HIDE DEF k
  <1> QED
    BY <1>1, <1>2, CollectionIs, RestingIs, RestingOK, WorkerIs, WorkerStep

\* A step of slug s that leaves Chroma alone.
LEMMA ChromaStays ==
    ASSUME SweepInv, NEW s \in Repositories, NEW w \in Workers, chroma' = chroma,
           worker' = [worker EXCEPT ![s] = w],
           disk' \in [Repositories -> SUBSET (Nat \ {0})], builds' = builds,
           WorkerOK(s, w, chroma)
    PROVE  SweepInv'
  BY WorkerIs, CollectionIs, WorkerStep

\* A build that publishes drops nothing yet.
LEMMA BuildSavesInv ==
    ASSUME SweepInv, NEW s \in Repositories, BuildSaves(s)
    PROVE  SweepInv'
  <1> DEFINE w == [worker[s] EXCEPT !.pc = "clean"]
  <1>1. worker' = [worker EXCEPT ![s] = w] /\ UNCHANGED <<chroma, builds>>
    BY WorkerIs DEF BuildSaves, Workers
  <1>2. w \in Workers /\ w.pc = "clean"
    BY WorkerIs DEF Workers
  <1>3. disk' \in [Repositories -> SUBSET (Nat \ {0})]
    BY WorkerIs DEF BuildSaves
  <1> HIDE DEF w
  <1>4. WorkerOK(s, w, chroma)
    BY <1>2 DEF WorkerOK, SweepPcs
  <1> QED
    BY <1>1, <1>2, <1>3, <1>4, ChromaStays

\* The cleanup of a build drops only collections of its own slug.
LEMMA CleanUpInv ==
    ASSUME SweepInv, NEW s \in Repositories, CleanUp(s)
    PROVE  SweepInv'
  <1>1. CASE Ends(s) /\ UNCHANGED <<chroma, disk>>
    BY <1>1, RestingIs, RestingOK, WorkerIs, ChromaStays DEF Ends, CleanUp
  <1>2. ASSUME NEW c \in Garbage(s) \intersect There,
               chroma' = Dropped(c), disk' = [disk EXCEPT ![s] = @ \ {c[2]}], UNCHANGED worker
        PROVE  SweepInv'
    <2> DEFINE k == Dropped(c)
    <2>1. /\ k \in [Collections -> Records]
          /\ \A d \in Collections : CollectionOK(d, k[d]) /\ k[d].records \subseteq chroma[d].records
      BY DroppedIs
    <2>2. worker' = [worker EXCEPT ![s] = worker[s]] /\ UNCHANGED builds
      BY <1>2, WorkerIs DEF CleanUp
    <2>3. disk' \in [Repositories -> SUBSET (Nat \ {0})]
      BY <1>2, WorkerIs
    <2> HIDE DEF k
    <2>4. WorkerOK(s, worker[s], k)
      BY WorkerIs DEF CleanUp, Working, WorkerOK, SweepPcs
    <2> QED
      BY <1>2, <2>1, <2>2, <2>3, <2>4, CollectionIs, WorkerIs, WorkerStep DEF k
  <1> QED
    BY <1>1, <1>2 DEF CleanUp

\* What is there when a delete begins is all that holds records.
LEMMA ListNamesInv ==
    ASSUME SweepInv, NEW s \in Repositories, ListNames(s)
    PROVE  SweepInv'
  <1> DEFINE own == {<<s, g>> : g \in disk[s]}
             w == [Resting EXCEPT !.pc = "open", !.todo = There, !.own = own]
  <1>1. UNCHANGED <<chroma, disk, builds>>
    BY DEF ListNames
  <1>2. CASE Ends(s)
    BY <1>1, <1>2, RestingIs, RestingOK, WorkerIs, ChromaStays DEF Ends
  <1>3. CASE worker' = [worker EXCEPT ![s] = w]
    <2>1. own \in SUBSET (Repositories \X (Nat \ {0})) /\ \A c \in own : c[1] = s
      BY WorkerIs
    <2>2. There \subseteq Collections /\ \A c \in Collections : chroma[c].records # {} => c \in There
      BY WorkerIs DEF There, CollectionOK
    <2> HIDE DEF own
    <2>3. /\ w \in Workers /\ w.pc = "open" /\ w.todo = There /\ w.own = own /\ w.purged = FALSE
      BY <2>1, <2>2, RestingIs DEF Workers, SweepPcs
    <2> HIDE DEF w
    <2>4. WorkerOK(s, w, chroma)
      BY <2>1, <2>2, <2>3 DEF WorkerOK
    <2> QED
      BY <1>1, <1>3, <2>3, <2>4, WorkerIs, ChromaStays
  <1> QED
    BY <1>2, <1>3 DEF ListNames

\* A delete opens the next collection on its list.
LEMMA OpenNextInv ==
    ASSUME SweepInv, NEW s \in Repositories, NEW c \in Collections, OpenNext(s, c)
    PROVE  SweepInv'
  <1> DEFINE k == GetOrCreate(s, c)
             old == worker[s]
             w == [old EXCEPT !.pc = "purge", !.at = c, !.todo = @ \ {c}]
  <1>1. chroma' = k /\ worker' = [worker EXCEPT ![s] = w] /\ UNCHANGED <<disk, builds>>
    BY WorkerIs DEF OpenNext, Workers
  <1>2. old \in Workers /\ WorkerOK(s, old, chroma) /\ old.pc = "open"
    BY WorkerIs DEF OpenNext, Working
  <1>3. /\ w \in Workers /\ w.pc = "purge" /\ w.at = c /\ w.todo = old.todo \ {c}
        /\ w.own = old.own /\ w.failed = old.failed /\ w.purged = old.purged
    BY <1>2 DEF Workers, SweepPcs
  <1>4. /\ k \in [Collections -> Records]
        /\ \A d \in Collections : CollectionOK(d, k[d]) /\ k[d].records = chroma[d].records
    BY GetOrCreateIs
  <1> HIDE DEF k, w, old
  <1>5. WorkerOK(s, w, k)
    BY <1>2, <1>3, <1>4 DEF WorkerOK, SweepPcs
  <1>6. /\ \A d \in Collections : CollectionOK(d, k[d]) /\ k[d].records \subseteq chroma[d].records \union {s}
        /\ k[Shared].records \subseteq chroma[Shared].records
    BY <1>4, CollectionIs
  <1>7. disk' \in [Repositories -> SUBSET (Nat \ {0})] /\ builds' \in [Repositories -> Nat \ {0}]
    BY <1>1, WorkerIs
  <1> QED
    BY <1>1, <1>3, <1>4, <1>5, <1>6, <1>7, WorkerStep

\* It takes the records of its slug out of it.
LEMMA DeleteBySlugInv ==
    ASSUME SweepInv, NEW s \in Repositories, DeleteBySlug(s)
    PROVE  SweepInv'
  <1> DEFINE old == worker[s]
             c == old.at
             purged == s \in chroma[c].records
             new == [chroma[c] EXCEPT !.records = @ \ {s}]
             k == [chroma EXCEPT ![c] = new]
             w == [old EXCEPT !.pc = "count", !.purged = purged]
  <1>1. old \in Workers /\ WorkerOK(s, old, chroma) /\ old.pc = "purge" /\ c \in Collections
    BY WorkerIs DEF DeleteBySlug, Working, Workers
  <1>2. chroma[c] \in Records /\ CollectionOK(c, chroma[c])
    BY <1>1, WorkerIs
  <1>3. chroma' = k /\ worker' = [worker EXCEPT ![s] = w]
    BY <1>1, <1>2, WorkerIs DEF DeleteBySlug, Records, Workers
  <1>4. disk' \in [Repositories -> SUBSET (Nat \ {0})] /\ builds' \in [Repositories -> Nat \ {0}]
    BY WorkerIs DEF DeleteBySlug
  <1>5. purged \in BOOLEAN /\ (purged /\ c # Shared => c[1] = s)
    BY <1>1, <1>2 DEF CollectionOK
  <1> HIDE DEF purged
  <1>6. /\ w \in Workers /\ w.pc = "count" /\ w.purged = purged /\ w.at = c /\ w.todo = old.todo
        /\ w.own = old.own /\ w.failed = old.failed
    BY <1>1, <1>5 DEF Workers, SweepPcs
  <1>7. new \in Records /\ new.records = chroma[c].records \ {s} /\ CollectionOK(c, new)
    BY <1>2 DEF Records, CollectionOK
  <1> HIDE DEF new
  <1>8. /\ k \in [Collections -> Records] /\ k[c] = new
        /\ \A d \in Collections : d # c => k[d] = chroma[d]
    BY <1>1, <1>7, WorkerIs
  <1> HIDE DEF k, w, old
  <1>9. /\ \A d \in Collections : /\ CollectionOK(d, k[d])
                                   /\ k[d].records \subseteq chroma[d].records \union {s}
        /\ k[Shared].records \subseteq chroma[Shared].records
    BY <1>7, <1>8, CollectionIs, WorkerIs
  <1>10. WorkerOK(s, w, k)
    BY <1>1, <1>5, <1>6, <1>7, <1>8 DEF WorkerOK, SweepPcs
  <1> QED
    BY <1>3, <1>4, <1>6, <1>8, <1>9, <1>10, WorkerStep

\* A delete that goes on to the next collection.
LEMMA OnwardIs ==
    ASSUME SweepInv, NEW s \in Repositories, worker[s].pc \in {"count", "drop"}
    PROVE  /\ Onward(s) \in Workers /\ WorkerOK(s, Onward(s), chroma)
           /\ Onward(s).pc = "open" /\ Onward(s).purged = FALSE
           /\ Onward(s).failed = worker[s].failed /\ Onward(s).own = worker[s].own
           /\ Onward(s).dropped = worker[s].dropped
  <1> DEFINE old == worker[s]
             w == Onward(s)
  <1>1. old \in Workers /\ WorkerOK(s, old, chroma)
    BY WorkerIs
  <1>2. /\ w \in Workers /\ w.pc = "open" /\ w.at = Shared /\ w.purged = FALSE /\ w.todo = old.todo
        /\ w.own = old.own /\ w.failed = old.failed /\ w.dropped = old.dropped
    BY <1>1, CollectionIs DEF Onward, Workers, SweepPcs
  <1> HIDE DEF w
  <1>3. WorkerOK(s, w, chroma)
    BY <1>1, <1>2 DEF WorkerOK, SweepPcs
  <1> QED
    BY <1>2, <1>3 DEF w

\* What a delete relies on is about records alone.
LEMMA SameRecords ==
    ASSUME NEW s, NEW w, NEW k, NEW j, WorkerOK(s, w, k),
           \A c \in Collections : j[c].records \subseteq k[c].records
    PROVE  WorkerOK(s, w, j)
  BY CollectionIs DEF WorkerOK

\* It counts what is left, to see whether the collection may be dropped.
LEMMA CountInv ==
    ASSUME SweepInv, NEW s \in Repositories, Count(s)
    PROVE  SweepInv'
  <1> DEFINE old == worker[s]
             k == Closed(s)
             drop == \/ old.at \in old.own
                     \/ old.purged /\ chroma[old.at].records = {}
             w == IF drop THEN [old EXCEPT !.pc = "drop"] ELSE Onward(s)
  <1>1. old \in Workers /\ WorkerOK(s, old, chroma) /\ old.pc = "count"
    BY WorkerIs DEF Count, CountAndGo, Working
  <1>2. chroma' = k /\ worker' = [worker EXCEPT ![s] = w] /\ UNCHANGED <<disk, builds>>
    BY WorkerIs DEF Count, CountAndGo
  <1>3. w \in Workers /\ WorkerOK(s, w, chroma)
    <2>1. CASE drop
      <3>1. /\ w \in Workers /\ w.pc = "drop" /\ w.at = old.at /\ w.todo = old.todo
            /\ w.own = old.own /\ w.failed = old.failed /\ w.purged = old.purged
        BY <1>1, <2>1 DEF Workers, SweepPcs
      <3>2. IF old.at = Shared THEN chroma[Shared].records = {} ELSE old.at[1] = s
        <4>1. Shared \notin old.own
          BY <1>1 DEF Workers, Shared
        <4> QED
          BY <1>1, <2>1, <4>1 DEF WorkerOK, SweepPcs
      <3> HIDE DEF w, old
      <3>3. WorkerOK(s, w, chroma)
        BY <1>1, <3>1, <3>2 DEF WorkerOK, SweepPcs
      <3> QED
        BY <3>1, <3>3
    <2>2. CASE ~drop
      BY <1>1, <2>2, OnwardIs
    <2> QED
      BY <2>1, <2>2
  <1>4. /\ k \in [Collections -> Records]
        /\ \A d \in Collections : CollectionOK(d, k[d]) /\ k[d].records = chroma[d].records
    BY ClosedIs
  <1> HIDE DEF k, w
  <1>5. WorkerOK(s, w, k)
    BY <1>3, <1>4, SameRecords
  <1>6. /\ \A d \in Collections : /\ CollectionOK(d, k[d])
                                   /\ k[d].records \subseteq chroma[d].records \union {s}
        /\ k[Shared].records \subseteq chroma[Shared].records
    BY <1>4, CollectionIs
  <1>7. disk' \in [Repositories -> SUBSET (Nat \ {0})] /\ builds' \in [Repositories -> Nat \ {0}]
    BY <1>2, WorkerIs
  <1> QED
    BY <1>2, <1>3, <1>4, <1>5, <1>6, <1>7, WorkerStep

\* A collection of its own, or one that was found empty, is dropped.
LEMMA DropStrictInv ==
    ASSUME SweepInv, NEW s \in Repositories, DropStrict(s)
    PROVE  SweepInv'
  <1> DEFINE c == worker[s].at
             k == Dropped(c)
             on == Onward(s)
             w == [on EXCEPT !.dropped = @ \union {c}]
  <1>1. worker[s].pc = "drop" /\ c \in Collections
    BY WorkerIs DEF DropStrict, Working, Workers
  <1>2. chroma' = k /\ worker' = [worker EXCEPT ![s] = w] /\ UNCHANGED <<disk, builds>>
    BY DEF DropStrict
  <1>3. on \in Workers /\ WorkerOK(s, on, chroma) /\ on.pc = "open"
    BY <1>1, OnwardIs
  <1> HIDE DEF on, c
  <1>4. /\ w \in Workers /\ w.pc = on.pc /\ w.at = on.at /\ w.todo = on.todo
        /\ w.own = on.own /\ w.failed = on.failed /\ w.purged = on.purged
    BY <1>1, <1>3 DEF Workers
  <1> HIDE DEF w
  <1>5. WorkerOK(s, w, chroma)
    BY <1>3, <1>4 DEF WorkerOK
  <1>6. /\ k \in [Collections -> Records]
        /\ \A d \in Collections : CollectionOK(d, k[d]) /\ k[d].records \subseteq chroma[d].records
    BY DroppedIs
  <1> HIDE DEF k
  <1>7. WorkerOK(s, w, k)
    BY <1>5, <1>6, SameRecords
  <1> QED
    BY <1>2, <1>4, <1>6, <1>7, CollectionIs, WorkerIs, WorkerStep

\* A collection that fails is remembered, and the delete goes on.
LEMMA CollectionFailsInv ==
    ASSUME SweepInv, NEW s \in Repositories, CollectionFails(s)
    PROVE  SweepInv'
  <1> DEFINE old == worker[s]
             k == Closed(s)
             on == Onward(s)
             w == [on EXCEPT !.failed = TRUE]
  <1>1. old \in Workers /\ WorkerOK(s, old, chroma) /\ old.pc \in {"purge", "count", "drop"}
    BY WorkerIs DEF CollectionFails, Working
  <1>2. chroma' = k /\ worker' = [worker EXCEPT ![s] = w] /\ UNCHANGED <<disk, builds>>
    BY DEF CollectionFails
  <1>3. /\ on \in Workers /\ on.pc = "open" /\ on.own = old.own /\ on.purged = FALSE
    BY <1>1, CollectionIs DEF Onward, Workers, SweepPcs
  <1> HIDE DEF on, old
  <1>4. /\ w \in Workers /\ w.pc = "open" /\ w.own = old.own /\ w.failed = TRUE
        /\ w.purged = FALSE
    BY <1>3 DEF Workers
  <1>5. /\ k \in [Collections -> Records]
        /\ \A d \in Collections : CollectionOK(d, k[d]) /\ k[d].records = chroma[d].records
    BY ClosedIs
  <1> HIDE DEF k, w
  <1>6. WorkerOK(s, w, k)
    BY <1>1, <1>4 DEF WorkerOK, SweepPcs
  <1>7. /\ \A d \in Collections : /\ CollectionOK(d, k[d])
                                   /\ k[d].records \subseteq chroma[d].records \union {s}
        /\ k[Shared].records \subseteq chroma[Shared].records
    BY <1>5, CollectionIs
  <1>8. disk' \in [Repositories -> SUBSET (Nat \ {0})] /\ builds' \in [Repositories -> Nat \ {0}]
    BY <1>2, WorkerIs
  <1> QED
    BY <1>2, <1>4, <1>5, <1>6, <1>7, <1>8, WorkerStep

\* At last the delete looks for what it has left.
LEMMA VerifyInv ==
    ASSUME SweepInv, NEW s \in Repositories, Verify(s)
    PROVE  SweepInv'
  <1>1. disk' \in [Repositories -> SUBSET (Nat \ {0})]
    BY WorkerIs DEF Verify
  <1> QED
    BY <1>1, RestingIs, RestingOK, ChromaStays DEF Verify, Ends

\* In every reachable state of builds and deletes at several slugs, SweepInv holds.
THEOREM SweepInvariant == SweepSpec => []SweepInv
  <1>1. SweepInv /\ [SweepNext]_SweepVars => SweepInv'
    <2> SUFFICES ASSUME SweepInv, [SweepNext]_SweepVars
                 PROVE  SweepInv'
      OBVIOUS
    <2>1. CASE UNCHANGED SweepVars
      BY <2>1 DEF SweepVars, SweepInv
    <2> QED
      BY <2>1, BuildOpensInv, BuildStoresInv, BuildFailsInv, BuildSavesInv, CleanUpInv,
         ListNamesInv, OpenNextInv, DeleteBySlugInv, CountInv, DropStrictInv,
         CollectionFailsInv, VerifyInv DEF SweepNext
  <1> QED
    BY SweepInitial, <1>1, PTL DEF SweepSpec

\* A delete that succeeds has been through every collection that held records of
\* its slug.
LEMMA SuccessLeavesNothing ==
    ASSUME SweepInv, NEW s \in Repositories, Verify(s), Succeeds(s), NEW c \in Collections
    PROVE  s \notin chroma'[c].records
  BY WorkerIs DEF Verify, Succeeds, Working, WorkerOK, SweepPcs

\* A collection goes only in a step of its own slug's build or delete, or when it is
\* the shared one and empty.
LEMMA DropsAreOwn ==
    ASSUME SweepInv, SweepNext, NEW c \in There, ~chroma'[c].up
    PROVE  IF c = Shared THEN chroma[c].records = {}
           ELSE worker'[c[1]] # worker[c[1]] \/ Working(c[1], "clean")
  <1>1. c \in Collections /\ chroma[c].up
    BY DEF There
  <1>2. PICK s \in Repositories :
            \/ BuildOpens(s) \/ BuildStores(s) \/ BuildFails(s) \/ BuildSaves(s) \/ CleanUp(s)
            \/ ListNames(s) \/ (\E d \in Collections : OpenNext(s, d)) \/ DeleteBySlug(s)
            \/ Count(s) \/ DropStrict(s) \/ CollectionFails(s) \/ Verify(s)
    BY DEF SweepNext
  <1>3. CASE BuildFails(s)
    <2>1. chroma' = Dropped(<<s, builds[s]>>) /\ worker'[s] # worker[s]
      BY <1>3, RestingIs, WorkerIs DEF BuildFails, Ends, Working
    <2>2. c = <<s, builds[s]>>
      BY <1>1, <2>1, DroppedIs
    <2>3. builds[s] # 0 /\ c[1] = s /\ c[2] = builds[s]
      BY <2>2, WorkerIs
    <2> QED
      BY <2>1, <2>3 DEF Shared
  <1>4. CASE CleanUp(s)
    <2>1. PICK d \in Garbage(s) : chroma' = Dropped(d)
      BY <1>1, <1>4 DEF CleanUp, Ends
    <2>2. c = d
      BY <1>1, <2>1, DroppedIs
    <2>3. c[1] = s /\ c # Shared
      BY <2>2, SweepAssumption DEF Garbage, Shared
    <2> QED
      BY <1>4, <2>3 DEF CleanUp
  <1>5. CASE DropStrict(s)
    <2> DEFINE on == Onward(s)
    <2>1. chroma' = Dropped(worker[s].at) /\ worker[s].pc = "drop"
      BY <1>5 DEF DropStrict, Working
    <2>2. c = worker[s].at
      BY <1>1, <2>1, DroppedIs
    <2>3. on \in Workers /\ on.pc = "open"
      BY <2>1, OnwardIs
    <2>4. worker'[s] = [on EXCEPT !.dropped = @ \union {worker[s].at}]
      BY <1>5, WorkerIs DEF DropStrict
    <2> HIDE DEF on
    <2>5. worker'[s].pc = "open"
      BY <2>3, <2>4 DEF Workers
    <2> QED
      BY <2>1, <2>2, <2>5, WorkerIs DEF WorkerOK
  <1>6. CASE BuildStores(s) \/ Count(s) \/ CollectionFails(s) \/ DeleteBySlug(s)
    <2>1. chroma'[c].up = chroma[c].up
      <3>1. CASE BuildStores(s)
        BY <1>1, <3>1, ClosedIs DEF BuildStores, Records
      <3>2. CASE Count(s) \/ CollectionFails(s)
        BY <1>1, <3>2, ClosedIs DEF Count, CountAndGo, CollectionFails
      <3>3. CASE DeleteBySlug(s)
        BY <1>1, <3>3, WorkerIs DEF DeleteBySlug, Records
      <3> QED
        BY <1>6, <3>1, <3>2, <3>3
    <2> QED
      BY <1>1, <2>1
  <1>7. CASE BuildOpens(s) \/ \E d \in Collections : OpenNext(s, d)
    <2>1. PICK d : chroma' = GetOrCreate(s, d)
      BY <1>7 DEF BuildOpens, OpenNext
    <2>2. chroma'[c].up
      BY <1>1, <2>1, WorkerIs DEF GetOrCreate, Records
    <2> QED
      BY <2>2
  <1>8. CASE BuildSaves(s) \/ ListNames(s) \/ Verify(s)
    BY <1>1, <1>8 DEF BuildSaves, ListNames, Verify
  <1> QED
    BY <1>2, <1>3, <1>4, <1>5, <1>6, <1>7, <1>8

\* A delete that succeeds leaves no record of its slug in any collection, and no step
\* takes a collection away from another slug; for any number of slugs and failures.
THEOREM Deleted == SweepSpec => DeletesAreExact
  <1>1. SweepInv /\ [SweepNext]_SweepVars =>
            [/\ \A s \in Repositories : Verify(s) /\ Succeeds(s) =>
                   \A c \in Collections : s \notin chroma'[c].records
             /\ \A c \in There : ~chroma'[c].up =>
                   IF c = Shared THEN chroma[c].records = {}
                   ELSE worker'[c[1]] # worker[c[1]] \/ Working(c[1], "clean")]_SweepVars
    BY SuccessLeavesNothing, DropsAreOwn
  <1> QED
    BY <1>1, SweepInvariant, PTL DEF SweepSpec, DeletesAreExact
=============================================================================
