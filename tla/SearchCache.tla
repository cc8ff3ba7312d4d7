----------------------------- MODULE SearchCache -----------------------------
(***************************************************************************)
(* The Redis cache in front of POST /v1/search.  Its key holds the         *)
(* generation token, read from the pointers on disk before the search and  *)
(* read again after it; build threads publish and deletes remove indexes   *)
(* at any moment in between, also between the second reading and the       *)
(* write.  One query and one top_k stand for all: they are only part of    *)
(* the key.  A result is the generation each slug was searched in; a slug  *)
(* whose search failed is left out, as multi_search does.                  *)
(***************************************************************************)
EXTENDS Naturals, FiniteSets

CONSTANTS
    Slugs,
    Requests,   \* searches, each served once
    Scopes,     \* body.repos: sets of slugs, or All for null
    All,
    Deletes,    \* BOOLEAN: repositories are deleted in this instance
    MaxGen      \* bound: generations of a slug

ASSUME ScopesAssumption == Scopes \subseteq (SUBSET Slugs) \cup {All}
ASSUME BoundAssumption  == MaxGen \in Nat /\ Deletes \in BOOLEAN

NoIndex == 0            \* generation_id null: no pointer
Legacy  == MaxGen + 1   \* a top-level index without pointer
Gens    == 1..MaxGen

VARIABLES
    pub,     \* generation named by current.json of each slug, or NoIndex
    legacy,  \* a legacy index is there
    home,    \* graph/<slug>/ exists
    last,    \* newest generation ever made: ids are not reused
    job,     \* what holds the slug: "idle", "announced", "building", "built", "deleting"
    cache,   \* the entries of Redis: scope and token (the key), val
    req      \* the searches

CacheVars == <<pub, legacy, home, last, job, cache, req>>
index == <<pub, legacy, home, last, job>>

Tokens  == UNION {[S -> Gens \cup {NoIndex}] : S \in SUBSET Slugs}
Answers == UNION {[S -> Gens \cup {Legacy}] : S \in SUBSET Slugs}
Entries == [scope : Scopes, token : Tokens, val : Answers]
Empty   == [s \in {} |-> NoIndex]
With(f, s, g) == [x \in DOMAIN f \cup {s} |-> IF x = s THEN g ELSE f[x]]

Idle == [pc |-> "idle", scope |-> {}, todo |-> {}, token |-> Empty,
         again |-> Empty, val |-> Empty, seen |-> [s \in Slugs |-> {}]]

\* What a search of s would use now.
Active(s) == IF pub[s] # NoIndex THEN pub[s] ELSE IF legacy[s] THEN Legacy ELSE NoIndex
HasSlug(s) == Active(s) # NoIndex

CacheInit ==
    /\ legacy \in [Slugs -> BOOLEAN] /\ home = legacy
    /\ pub = [s \in Slugs |-> NoIndex] /\ last = [s \in Slugs |-> 0]
    /\ job = [s \in Slugs |-> "idle"]
    /\ cache = {} /\ req = [r \in Requests |-> Idle]

-----------------------------------------------------------------------------
(* Builds and deletes of a slug.  Every running search remembers, for the  *)
(* properties only, what was active since it began.                        *)

Running(r) == req[r].pc \notin {"idle", "done", "refused"}
Witness(s) ==
    req' = [r \in Requests |->
              IF Running(r) THEN [req[r] EXCEPT !.seen[s] = @ \cup {Active(s)'}] ELSE req[r]]

\* _run_build: invalidates before the build and after it.
Announce(s) == job[s] = "idle" /\ job' = [job EXCEPT ![s] = "announced"]
               /\ UNCHANGED <<pub, legacy, home, last, cache, req>>
BeginBuild(s) == job[s] = "announced" /\ job' = [job EXCEPT ![s] = "building"]
                 /\ UNCHANGED <<pub, legacy, home, last, cache, req>>
Invalidating(s) == job[s] \in {"announced", "built"}

\* The directory of a first build appears before its pointer.
MakeHome(s) ==
    /\ job[s] = "building" /\ ~home[s] /\ home' = [home EXCEPT ![s] = TRUE]
    /\ UNCHANGED <<pub, legacy, last, job, cache, req>>
Publish(s) ==
    /\ job[s] = "building" /\ home[s] /\ last[s] < MaxGen
    /\ last' = [last EXCEPT ![s] = @ + 1] /\ pub' = [pub EXCEPT ![s] = last'[s]]
    /\ job' = [job EXCEPT ![s] = "built"]
    /\ UNCHANGED <<legacy, home, cache>> /\ Witness(s)
\* The index is up to date: a success too, with the same generation.
UpToDate(s) == job[s] = "building" /\ HasSlug(s) /\ job' = [job EXCEPT ![s] = "built"]
               /\ UNCHANGED <<pub, legacy, home, last, cache, req>>
\* The task ends, after the second invalidation or because the build raised.
BuildEnds(s) == job[s] \in {"building", "built"} /\ job' = [job EXCEPT ![s] = "idle"]
                /\ UNCHANGED <<pub, legacy, home, last, cache, req>>

References(e, s) == s \in DOMAIN e.val
\* One key that the scan returned and whose body names s.  A Redis error
\* ends the scan anywhere, so any part of those keys may go.
InvalidateForSlug(s) ==
    /\ Invalidating(s)
    /\ \E e \in cache : References(e, s) /\ cache' = cache \ {e}
    /\ UNCHANGED <<pub, legacy, home, last, job, req>>

\* facade.delete: pointer and legacy files go, then the directory.
DeleteIndex(s) ==
    /\ Deletes /\ job[s] = "idle" /\ HasSlug(s)
    /\ pub' = [pub EXCEPT ![s] = NoIndex] /\ legacy' = [legacy EXCEPT ![s] = FALSE]
    /\ job' = [job EXCEPT ![s] = "deleting"]
    /\ UNCHANGED <<home, last, cache>> /\ Witness(s)
DeleteHome(s) ==
    /\ job[s] = "deleting" /\ home' = [home EXCEPT ![s] = FALSE]
    /\ job' = [job EXCEPT ![s] = "idle"]
    /\ UNCHANGED <<pub, legacy, last, cache, req>>

-----------------------------------------------------------------------------
(* One search request.                                                     *)

At(r, pc) == req[r].pc = pc /\ UNCHANGED index
Becomes(r, record) == req' = [req EXCEPT ![r] = record]
Answer(r, val) == Becomes(r, [Idle EXCEPT !.pc = "done", !.val = val, !.seen = req[r].seen])
Refuse(r) == Becomes(r, [Idle EXCEPT !.pc = "refused"])
PointerOf(s) == pub[s]
\* generation_token lists the directories when no slugs are given.
Selected(scope) == IF scope = All THEN {s \in Slugs : home[s]} ELSE scope

Receive(r, scope) ==
    /\ At(r, "idle") /\ UNCHANGED cache
    /\ Becomes(r, [Idle EXCEPT !.pc = "token", !.scope = scope, !.todo = Selected(scope),
                               !.seen = [s \in Slugs |-> {Active(s)}]])

\* One pointer is read at a time, and builds go on in between.
ReadPointer(r, s) ==
    /\ At(r, "token") /\ s \in req[r].todo /\ UNCHANGED cache
    /\ Becomes(r, [req[r] EXCEPT !.todo = @ \ {s},
                                 !.token = With(@, s, PointerOf(s))])
ReadAgain(r, s) ==
    /\ At(r, "again") /\ s \in req[r].todo /\ UNCHANGED cache
    /\ Becomes(r, [req[r] EXCEPT !.todo = @ \ {s}, !.again = With(@, s, PointerOf(s))])
TokenRead(r) == At(r, "token") /\ req[r].todo = {} /\ UNCHANGED cache
                /\ Becomes(r, [req[r] EXCEPT !.pc = "get"])

\* Mutant: the key is the request alone.
SameKeyUntokened(e, r) == e.scope = req[r].scope
\* _make_key.
SameKey(e, r) == e.scope = req[r].scope /\ e.token = req[r].token

Hit(r) ==
    /\ At(r, "get") /\ UNCHANGED cache
    /\ \E e \in cache : SameKey(e, r) /\ Answer(r, e.val)
\* No entry, or the read fails.
Miss(r) == At(r, "get") /\ UNCHANGED cache /\ Becomes(r, [req[r] EXCEPT !.pc = "check"])

\* The handler refuses unknown slugs with 400.
Check(r) ==
    /\ At(r, "check") /\ UNCHANGED cache
    /\ IF req[r].scope # All /\ \E s \in req[r].scope : ~HasSlug(s)
       THEN Refuse(r) ELSE Becomes(r, [req[r] EXCEPT !.pc = "discover"])
Discover(r) ==
    /\ At(r, "discover") /\ UNCHANGED cache
    /\ Becomes(r, [req[r] EXCEPT !.pc = "search",
           !.todo = {s \in IF req[r].scope = All THEN Slugs ELSE req[r].scope : HasSlug(s)}])

\* One slug resolves its generation and is searched, in its own thread.
SearchSlug(r, s) ==
    /\ At(r, "search") /\ s \in req[r].todo /\ HasSlug(s) /\ UNCHANGED cache
    /\ Becomes(r, [req[r] EXCEPT !.todo = @ \ {s}, !.val = With(@, s, Active(s))])
\* It raises: the slug is missing from the answer.
SearchSlugFails(r, s) ==
    /\ At(r, "search") /\ s \in req[r].todo /\ UNCHANGED cache
    /\ Becomes(r, [req[r] EXCEPT !.todo = @ \ {s}])
SearchFails(r) == At(r, "search") /\ UNCHANGED cache
                  /\ Refuse(r)
Merge(r) ==
    /\ At(r, "search") /\ req[r].todo = {} /\ UNCHANGED cache
    /\ Becomes(r, [req[r] EXCEPT !.pc = "again", !.todo = Selected(req[r].scope)])

\* Mutant: the token is not compared again before the write.
GenerationUnchangedUnread(r) == TRUE
GenerationUnchanged(r) == req[r].again = req[r].token

Compare(r) ==
    /\ At(r, "again") /\ req[r].todo = {} /\ UNCHANGED cache
    /\ IF GenerationUnchanged(r) THEN Becomes(r, [req[r] EXCEPT !.pc = "set", !.again = Empty])
       ELSE Answer(r, req[r].val)
Store(r) ==
    /\ At(r, "set")
    /\ cache' = {e \in cache : ~SameKey(e, r)}
                 \cup {[scope |-> req[r].scope, token |-> req[r].token, val |-> req[r].val]}
    /\ Answer(r, req[r].val)
StoreFails(r) == At(r, "set") /\ UNCHANGED cache /\ Answer(r, req[r].val)

\* The time to live of an entry ends.
Expire == \E e \in cache : cache' = cache \ {e} /\ UNCHANGED <<pub, legacy, home, last, job, req>>

CacheNext ==
    \/ \E s \in Slugs :
        \/ Announce(s) \/ BeginBuild(s) \/ MakeHome(s) \/ Publish(s) \/ UpToDate(s) \/ BuildEnds(s)
        \/ InvalidateForSlug(s) \/ DeleteIndex(s) \/ DeleteHome(s)
    \/ \E r \in Requests :
        \/ \E scope \in Scopes : Receive(r, scope)
        \/ \E s \in Slugs : ReadPointer(r, s) \/ ReadAgain(r, s)
                            \/ SearchSlug(r, s) \/ SearchSlugFails(r, s)
        \/ TokenRead(r) \/ Hit(r) \/ Miss(r) \/ Check(r) \/ Discover(r)
        \/ SearchFails(r) \/ Merge(r) \/ Compare(r) \/ Store(r) \/ StoreFails(r)
    \/ Expire

-----------------------------------------------------------------------------
\* A cached result holds, for every slug whose generation is part of its key,
\* that generation or nothing: publishes, deletes and failures during the
\* search never put the result of another generation under the key.
CachedGenerations ==
    \A e \in cache : \A s \in DOMAIN e.val :
        s \in DOMAIN e.token /\ e.token[s] # NoIndex => e.val[s] = e.token[s]

\* What a search answers for a repository that had an index all the time from
\* the request to the answer was active then at some moment, from the cache or
\* not: no answer is older than the request that got it.  For a deleted
\* repository see NothingDeletedIsServed.
AnswersAreCurrent ==
    \A r \in Requests : req[r].pc = "done" =>
        \A s \in DOMAIN req[r].val :
            req[r].val[s] \in req[r].seen[s] \/ NoIndex \in req[r].seen[s]

\* A repository whose index was gone during the whole of a search, its
\* directory too at the end, is not in the answer.
NothingDeletedIsServed ==
    \A r \in Requests : req[r].pc = "done" =>
        \A s \in DOMAIN req[r].val : req[r].seen[s] # {NoIndex} \/ home[s]
=============================================================================
