------------------------------ MODULE SlugIndex ------------------------------
(***************************************************************************)
(* The generation store of ONE repository slug: the directory              *)
(* graph/<slug>/ (current.json, generations/<id>/, a legacy top-level      *)
(* index) and its Chroma collections codeknow_<slug>_<id>.  Workers build, *)
(* recover and delete under the slug's flock; searches read without it.    *)
(*                                                                         *)
(* A worker may die at any step (Crash), which frees the flock; calls to   *)
(* Chroma and to the file system may fail where the code tolerates it.     *)
(* Every such fault is charged to a budget, MaxFaults.  Time is a counter  *)
(* because retirement, the grace period and the age of a collection are    *)
(* compared with the clock.                                                *)
(***************************************************************************)
EXTENDS Naturals, FiniteSets

CONSTANTS
    Workers,      \* threads or processes that build, recover or delete
    Searchers,    \* searches of this slug
    NoWorker,     \* the lock is free
    Ops,          \* the operations workers call in this instance
    Grace,        \* PipelineConfig.generation_grace_seconds
    SearchBound,  \* the longest a search takes
    StallBound,   \* the longest publish pauses between stamp and pointer
    MaxGen,       \* bound: generation ids
    MaxTime,      \* bound: clock
    MaxFaults     \* bound: crashes and tolerated failures

AllOps == {"build", "recover", "delete"}

ASSUME WorkersAssumption == NoWorker \notin Workers
ASSUME OpsAssumption     == Ops \subseteq AllOps
ASSUME BoundsAssumption  ==
    /\ Grace \in Nat /\ SearchBound \in Nat /\ StallBound \in Nat
    /\ MaxGen \in Nat /\ MaxTime \in Nat \ {0} /\ MaxFaults \in Nat

Gens  == 1..MaxGen       \* new_generation_id() returns ids that sort by time
None  == 0               \* no generation
Times == 1..MaxTime
Never == 0               \* no time stamp

VARIABLES
    now,         \* the clock
    home,        \* graph/<slug>/ exists
    pointer,     \* current.json: cur and prev; cur = None when it is missing
    dir,         \* generations/<g>: "none", "partial" or "complete"
    retired,     \* generations/<g>/retired_at, Never when missing or torn
    coll,        \* collection of g: "absent", "partial" or "full" (validated)
    born,        \* the time stamp that starts the id g
    legacyMeta,  \* top-level metadata.json and graph.json of a legacy index
    legacyColl,  \* its collection codeknow_<slug>
    lock,        \* holder of .locks/<slug>.lock
    pc,          \* next step of each worker
    task,        \* the operation it runs
    gen,         \* the generation its build creates
    reuse,       \* can_reuse: copy unchanged vectors from the active one
    migrate,     \* legacy_collection is not None
    old,         \* publish_generation: the validated old generation
    cleanAt,     \* cleanup_generations: time of the cutoff
    todo,        \* cleanup_generations: directories still to look at
    removed,     \* cleanup_generations: its result
    held,        \* the generation a search resolved
    mode,        \* next step of each search
    started,     \* when it read the pointer
    faults       \* faults so far

store   == <<home, pointer, dir, retired, coll, born, legacyMeta, legacyColl>>
locals  == <<gen, reuse, migrate, old, cleanAt, todo, removed>>
workers == <<lock, pc, task, locals>>
reads   == <<held, mode, started>>
vars    == <<now, store, workers, reads, faults>>

Steps == {"idle", "load", "clean", "sweep", "rmtree", "drop", "abandon",
          "extract", "embed", "write", "seal", "stamp", "swap", "legacy",
          "abort", "undo", "purge", "wipe", "ok", "failed"}

NoPointer == [cur |-> None, prev |-> None]
MaybeGen  == Gens \cup {None}

TypeOK ==
    /\ now \in Times
    /\ home \in BOOLEAN
    /\ pointer \in [cur : MaybeGen, prev : MaybeGen]
    /\ dir \in [Gens -> {"none", "partial", "complete"}]
    /\ retired \in [Gens -> Times \cup {Never}]
    /\ coll \in [Gens -> {"absent", "partial", "full"}]
    /\ born \in [Gens -> Times \cup {Never}]
    /\ legacyMeta \in BOOLEAN /\ legacyColl \in BOOLEAN
    /\ lock \in Workers \cup {NoWorker}
    /\ pc \in [Workers -> Steps]
    /\ task \in [Workers -> AllOps \cup {"none"}]
    /\ gen \in [Workers -> MaybeGen]
    /\ reuse \in [Workers -> BOOLEAN]
    /\ migrate \in [Workers -> BOOLEAN]
    /\ old \in [Workers -> MaybeGen]
    /\ cleanAt \in [Workers -> Times \cup {Never}]
    /\ todo \in [Workers -> SUBSET Gens]
    /\ removed \in [Workers -> SUBSET Gens]
    /\ held \in [Searchers -> MaybeGen]
    /\ mode \in [Searchers -> {"idle", "graph", "query", "legacy"}]
    /\ started \in [Searchers -> Times \cup {Never}]
    /\ faults \in 0..MaxFaults

Init ==
    /\ now = 1
    /\ legacyMeta \in BOOLEAN
    /\ legacyColl = legacyMeta
    /\ home = legacyMeta
    /\ pointer = NoPointer
    /\ dir = [g \in Gens |-> "none"]
    /\ retired = [g \in Gens |-> Never]
    /\ coll = [g \in Gens |-> "absent"]
    /\ born = [g \in Gens |-> Never]
    /\ lock = NoWorker
    /\ pc = [w \in Workers |-> "idle"]
    /\ task = [w \in Workers |-> "none"]
    /\ gen = [w \in Workers |-> None]
    /\ reuse = [w \in Workers |-> FALSE]
    /\ migrate = [w \in Workers |-> FALSE]
    /\ old = [w \in Workers |-> None]
    /\ cleanAt = [w \in Workers |-> Never]
    /\ todo = [w \in Workers |-> {}]
    /\ removed = [w \in Workers |-> {}]
    /\ held = [s \in Searchers |-> None]
    /\ mode = [s \in Searchers |-> "idle"]
    /\ started = [s \in Searchers |-> Never]
    /\ faults = 0

-----------------------------------------------------------------------------
(* Vocabulary *)

Complete(g) == g \in Gens /\ dir[g] = "complete"         \* validate_generation
Intact(g)   == Complete(g) /\ coll[g] = "full"
Used        == {g \in Gens : born[g] # Never}            \* ids handed out
Kept        == {pointer.cur, pointer.prev}
Inside(w)   == pc[w] # "idle"                            \* holds the flock

\* load_current raises: current.json names a generation that is not complete.
Dangling == pointer.cur # None /\ ~Complete(pointer.cur)

Goto(w, step) == pc' = [pc EXCEPT ![w] = step]

\* A fault is possible only while the budget lasts.
Charge(fault) ==
    /\ fault => faults < MaxFaults
    /\ faults' = IF fault THEN faults + 1 ELSE faults

\* delete_collection() of every collection in G; it suppresses every error,
\* so any of them may survive.
DropCollections(G) ==
    \E survivors \in SUBSET {g \in G : coll[g] # "absent"} :
        /\ coll' = [g \in Gens |-> IF g \in G \ survivors THEN "absent" ELSE coll[g]]
        /\ Charge(survivors # {})

\* delete_collection() of the legacy collection.
DropLegacyCollection ==
    /\ legacyColl' \in {FALSE, legacyColl}
    /\ Charge(legacyColl')

\* _cleanup_old_generations returns or swallows: before the build proper
\* (no id yet) the pipeline goes on, after publish and in recover it is done.
AfterClean(w) == IF task[w] = "build" /\ gen[w] = None THEN "extract" ELSE "ok"

ForgetLocals(w) ==
    /\ gen' = [gen EXCEPT ![w] = None]
    /\ reuse' = [reuse EXCEPT ![w] = FALSE]
    /\ migrate' = [migrate EXCEPT ![w] = FALSE]
    /\ old' = [old EXCEPT ![w] = None]
    /\ cleanAt' = [cleanAt EXCEPT ![w] = Never]
    /\ todo' = [todo EXCEPT ![w] = {}]
    /\ removed' = [removed EXCEPT ![w] = {}]

Leave(w) ==
    /\ Goto(w, "idle")
    /\ task' = [task EXCEPT ![w] = "none"]
    /\ lock' = NoWorker
    /\ ForgetLocals(w)

-----------------------------------------------------------------------------
(* The lock *)

\* Mutant: recover() runs without the slug's lock.
AcquireRecoverUnlocked(w, op) ==
    /\ pc[w] = "idle"
    /\ op # "recover" => lock = NoWorker
    /\ op = "build" => Used # Gens
    /\ op = "recover" => home
    /\ lock' = w
    /\ task' = [task EXCEPT ![w] = op]
    /\ Goto(w, CASE op = "build" -> "load" [] op = "recover" -> "clean"
                 [] OTHER -> "purge")
    /\ UNCHANGED <<now, store, locals, reads, faults>>

\* slug_build_lock: blocking flock, then the first step of the operation.
Acquire(w, op) ==
    /\ pc[w] = "idle"
    /\ lock = NoWorker
    /\ op = "build" => Used # Gens                       \* bound: MaxGen
    /\ op = "recover" => home              \* recover() lists directories
    /\ lock' = w
    /\ task' = [task EXCEPT ![w] = op]
    /\ Goto(w, CASE op = "build" -> "load" [] op = "recover" -> "clean"
                 [] OTHER -> "purge")
    /\ UNCHANGED <<now, store, locals, reads, faults>>

\* The context manager unlocks when the operation returns or raises.
Release(w) ==
    /\ pc[w] \in {"ok", "failed"}
    /\ Leave(w)
    /\ UNCHANGED <<now, store, reads, faults>>

\* The process dies; the kernel drops its flock, the store stays as it is.
Crash(w) ==
    /\ Inside(w)
    /\ Leave(w)
    /\ Charge(TRUE)
    /\ UNCHANGED <<now, store, reads>>

-----------------------------------------------------------------------------
(* Build, up to the embedding *)

\* Mutant: the collection of an up-to-date generation is not validated.
UpToDateUnvalidated(w) ==
    /\ pc[w] = "load"
    /\ Complete(pointer.cur)
    /\ Goto(w, "ok")
    /\ UNCHANGED <<now, store, lock, task, locals, reads, faults>>

\* The active generation is complete, its commit is the resolved one, its
\* collection passes validate_collection_records: return without writing.
UpToDate(w) ==
    /\ pc[w] = "load"
    /\ Intact(pointer.cur)
    /\ Goto(w, "ok")
    /\ UNCHANGED <<now, store, lock, task, locals, reads, faults>>

\* Otherwise work is needed.  Vectors are reused only from a validated
\* collection; an incomplete active generation counts as no index at all,
\* not even a legacy one.
Load(w) ==
    /\ pc[w] = "load"
    /\ \E r \in BOOLEAN :
          /\ r => Intact(pointer.cur)
          /\ reuse' = [reuse EXCEPT ![w] = r]
    /\ migrate' = [migrate EXCEPT ![w] = pointer.cur = None /\ legacyMeta]
    /\ Goto(w, "clean")
    /\ UNCHANGED <<now, store, lock, task, gen, old, cleanAt, todo, removed,
                   reads, faults>>

\* resolve() raises (load), or a stage between cleanup and embedding does.
BuildRaises(w) ==
    /\ pc[w] \in {"load", "extract"}
    /\ Charge(TRUE)
    /\ Goto(w, "failed")
    /\ UNCHANGED <<now, store, lock, task, locals, reads>>

\* new_generation_id(), then embed() creates the collection and fills it.
StartEmbed(w) ==
    /\ pc[w] = "extract"
    /\ \E g \in Gens :
          /\ \A h \in Gens : h < g <=> h \in Used          \* ids sort by time
          /\ gen' = [gen EXCEPT ![w] = g]
          /\ born' = [born EXCEPT ![g] = now]
          /\ coll' = [coll EXCEPT ![g] = "partial"]
    /\ Goto(w, "embed")
    /\ UNCHANGED <<now, home, pointer, dir, retired, legacyMeta, legacyColl,
                   lock, task, reuse, migrate, old, cleanAt, todo, removed,
                   reads, faults>>

\* Mutant: embed() does not validate what it stored.
FinishEmbedUnvalidated(w) ==
    /\ pc[w] = "embed"
    /\ \E c \in {"partial", "full"} : coll' = [coll EXCEPT ![gen[w]] = c]
    /\ Goto(w, "write")
    /\ UNCHANGED <<now, home, pointer, dir, retired, born, legacyMeta, legacyColl,
                   lock, task, locals, reads, faults>>

\* copy_from, store_chunk_map, update_metadata, validate_records succeed:
\* copied vectors come from the active collection, so it must have them all.
FinishEmbed(w) ==
    /\ pc[w] = "embed"
    /\ reuse[w] => Intact(pointer.cur)
    /\ coll' = [coll EXCEPT ![gen[w]] = "full"]
    /\ Goto(w, "write")
    /\ UNCHANGED <<now, home, pointer, dir, retired, born, legacyMeta, legacyColl,
                   lock, task, locals, reads, faults>>

-----------------------------------------------------------------------------
(* Build, from the files to the pointer *)

\* save_pipeline_result: mkdir, graph, chunk map.
WriteFiles(w) ==
    /\ pc[w] = "write"
    /\ home' = TRUE
    /\ dir' = [dir EXCEPT ![gen[w]] = "partial"]
    /\ Goto(w, "seal")
    /\ UNCHANGED <<now, pointer, retired, coll, born, legacyMeta, legacyColl,
                   lock, task, locals, reads, faults>>

\* save_metadata: the last of the three required files.
WriteMetadata(w) ==
    /\ pc[w] = "seal"
    /\ dir' = [dir EXCEPT ![gen[w]] = "complete"]
    /\ Goto(w, "stamp")
    /\ UNCHANGED <<now, home, pointer, retired, coll, born, legacyMeta,
                   legacyColl, lock, task, locals, reads, faults>>

\* publish_generation, first half: the generation is validated, and if the
\* old one is valid it is stamped retired before the pointer moves.
StampRetired(w) ==
    /\ pc[w] = "stamp"
    /\ Complete(gen[w])
    /\ IF Complete(pointer.cur)
       THEN /\ old' = [old EXCEPT ![w] = pointer.cur]
            /\ retired' = [retired EXCEPT ![pointer.cur] = now]
       ELSE /\ old' = [old EXCEPT ![w] = None]
            /\ UNCHANGED retired
    /\ Goto(w, "swap")
    /\ UNCHANGED <<now, home, pointer, dir, coll, born, legacyMeta, legacyColl,
                   lock, task, gen, reuse, migrate, cleanAt, todo, removed,
                   reads, faults>>

\* Mutant: the pointer forgets the generation it replaces.
SwapPointerForgets(w) ==
    /\ pc[w] = "swap"
    /\ pointer' = [cur |-> gen[w], prev |-> None]
    /\ Goto(w, IF migrate[w] THEN "legacy" ELSE "clean")
    /\ UNCHANGED <<now, home, dir, retired, coll, born, legacyMeta, legacyColl,
                   lock, task, locals, reads, faults>>

\* publish_generation, second half: temp.replace(pointer).
SwapPointer(w) ==
    /\ pc[w] = "swap"
    /\ pointer' = [cur |-> gen[w], prev |-> old[w]]
    /\ Goto(w, IF migrate[w] THEN "legacy" ELSE "clean")
    /\ UNCHANGED <<now, home, dir, retired, coll, born, legacyMeta, legacyColl,
                   lock, task, locals, reads, faults>>

\* The collection of the legacy index goes as soon as the pointer is there.
DropLegacy(w) ==
    /\ pc[w] = "legacy"
    /\ DropLegacyCollection
    /\ Goto(w, "clean")
    /\ UNCHANGED <<now, home, pointer, dir, retired, coll, born, legacyMeta,
                   lock, task, locals, reads>>

\* embed() or save_pipeline_result() raises before the pointer is replaced.
SaveRaises(w) ==
    /\ pc[w] \in {"embed", "write", "seal", "stamp", "swap"}
    /\ Charge(TRUE)
    /\ Goto(w, "abort")
    /\ UNCHANGED <<now, store, lock, task, locals, reads>>

\* except-branch: rmtree(generation, ignore_errors=True) ...
AbortDirectory(w) ==
    /\ pc[w] = "abort"
    /\ \E left \in {"none", "partial"} :
          /\ left = "partial" => dir[gen[w]] # "none"
          /\ Charge(left = "partial")
          /\ dir' = [dir EXCEPT ![gen[w]] = left]
    /\ Goto(w, "undo")
    /\ UNCHANGED <<now, home, pointer, retired, coll, born, legacyMeta,
                   legacyColl, lock, task, locals, reads>>

\* ... then delete_collection, then raise.
AbortCollection(w) ==
    /\ pc[w] = "undo"
    /\ DropCollections({gen[w]})
    /\ Goto(w, "failed")
    /\ UNCHANGED <<now, home, pointer, dir, retired, born, legacyMeta,
                   legacyColl, lock, task, locals, reads>>

-----------------------------------------------------------------------------
(* Cleanup, before and after a build and in recover *)

\* cleanup_generations raises on a dangling pointer; the caller swallows it.
CleanupRefused(w) ==
    /\ pc[w] = "clean"
    /\ Dangling
    /\ Goto(w, AfterClean(w))
    /\ UNCHANGED <<now, store, lock, task, locals, reads, faults>>

\* Mutant: only the current generation is protected.
CandidatesSparePrevious == {g \in Gens : dir[g] # "none"} \ {pointer.cur}

\* Mutant: only directories that validate are looked at.
CandidatesComplete == {g \in Gens : Complete(g)} \ Kept

\* The directories that are not protected.
Candidates == {g \in Gens : dir[g] # "none"} \ Kept

\* The directory listing, the protected ids and the cutoff are taken once.
CleanupStart(w) ==
    /\ pc[w] = "clean"
    /\ ~Dangling
    /\ cleanAt' = [cleanAt EXCEPT ![w] = now]
    /\ todo' = [todo EXCEPT ![w] = Candidates]
    /\ removed' = [removed EXCEPT ![w] = {}]
    /\ Goto(w, "sweep")
    /\ UNCHANGED <<now, store, lock, task, gen, reuse, migrate, old, reads, faults>>

Newest(w, g) == g \in todo[w] /\ \A h \in todo[w] : h <= g

\* A complete directory without a stamp is stamped and kept.
SweepStamps(w, g) ==
    /\ pc[w] = "sweep"
    /\ Newest(w, g)
    /\ Complete(g) /\ retired[g] = Never
    /\ retired' = [retired EXCEPT ![g] = now]
    /\ todo' = [todo EXCEPT ![w] = @ \ {g}]
    /\ UNCHANGED <<now, home, pointer, dir, coll, born, legacyMeta, legacyColl,
                   lock, pc, task, gen, reuse, migrate, old, cleanAt, removed,
                   reads, faults>>

\* Mutant: the grace period is ignored.
ExpiredAtOnce(w, g) == retired[g] # Never /\ retired[g] <= cleanAt[w]

Expired(w, g) == retired[g] # Never /\ retired[g] + Grace <= cleanAt[w]

\* A complete directory within its grace period is kept.
SweepKeeps(w, g) ==
    /\ pc[w] = "sweep"
    /\ Newest(w, g)
    /\ Complete(g) /\ retired[g] # Never /\ ~Expired(w, g)
    /\ todo' = [todo EXCEPT ![w] = @ \ {g}]
    /\ UNCHANGED <<now, store, lock, pc, task, gen, reuse, migrate, old, cleanAt,
                   removed, reads, faults>>

\* shutil.rmtree begins on an incomplete or expired directory.  Only a
\* complete one yields the name of its collection.
SweepRemoves(w, g) ==
    /\ pc[w] = "sweep"
    /\ Newest(w, g)
    /\ ~Complete(g) \/ Expired(w, g)
    /\ dir' = [dir EXCEPT ![g] = "partial"]
    /\ removed' = [removed EXCEPT ![w] = IF Complete(g) THEN @ \cup {g} ELSE @]
    /\ Goto(w, "rmtree")
    /\ UNCHANGED <<now, home, pointer, retired, coll, born, legacyMeta,
                   legacyColl, lock, task, gen, reuse, migrate, old, cleanAt,
                   todo, reads, faults>>

RmtreeDone(w, g) ==
    /\ pc[w] = "rmtree"
    /\ Newest(w, g)
    /\ dir' = [dir EXCEPT ![g] = "none"]
    /\ retired' = [retired EXCEPT ![g] = Never]
    /\ todo' = [todo EXCEPT ![w] = @ \ {g}]
    /\ Goto(w, "sweep")
    /\ UNCHANGED <<now, home, pointer, coll, born, legacyMeta, legacyColl,
                   lock, task, gen, reuse, migrate, old, cleanAt, removed,
                   reads, faults>>

\* rmtree raises: the rest of the cleanup is skipped, the error swallowed.
RmtreeRaises(w) ==
    /\ pc[w] = "rmtree"
    /\ Charge(TRUE)
    /\ Goto(w, AfterClean(w))
    /\ UNCHANGED <<now, store, lock, task, locals, reads>>

SweepDone(w) ==
    /\ pc[w] = "sweep"
    /\ todo[w] = {}
    /\ Goto(w, "drop")
    /\ UNCHANGED <<now, store, lock, task, locals, reads, faults>>

\* The collections of the generations just removed.
DropRemoved(w) ==
    /\ pc[w] = "drop"
    /\ DropCollections(removed[w])
    /\ Goto(w, "abandon")
    /\ UNCHANGED <<now, home, pointer, dir, retired, born, legacyMeta,
                   legacyColl, lock, task, locals, reads>>

\* list_collection_names returned None: nothing is known, nothing is dropped.
ListingFails(w) ==
    /\ pc[w] = "abandon"
    /\ Charge(TRUE)
    /\ Goto(w, AfterClean(w))
    /\ UNCHANGED <<now, store, lock, task, locals, reads>>

\* Collections with no directory, not named by the pointer, older than the
\* grace period.
Abandoned == {g \in Gens : /\ coll[g] # "absent"
                           /\ g \notin Kept
                           /\ dir[g] = "none"
                           /\ born[g] + Grace <= now}

\* _cleanup_abandoned_collections, which also drops a legacy collection once
\* a pointer exists.  The two kinds of drop fail independently.
DropAbandoned(w) ==
    /\ pc[w] = "abandon"
    /\ \E survivors \in SUBSET Abandoned, legacyStays \in BOOLEAN :
          /\ legacyStays => legacyColl
          /\ coll' = [g \in Gens |->
                        IF g \in Abandoned \ survivors THEN "absent" ELSE coll[g]]
          /\ legacyColl' = IF pointer.cur = None THEN legacyColl ELSE legacyStays
          /\ Charge(survivors # {} \/ (pointer.cur # None /\ legacyStays))
    /\ Goto(w, AfterClean(w))
    /\ UNCHANGED <<now, home, pointer, dir, retired, born, legacyMeta,
                   lock, task, locals, reads>>

-----------------------------------------------------------------------------
(* Delete *)

\* A staging collection that has no record yet and no directory carries
\* nothing that ties it to the slug.
Unrecognised == {g \in Gens : coll[g] = "partial" /\ dir[g] = "none" /\ g \notin Kept}

\* Nothing recognised is left.
Purged(left, missed, legacyLeft, listed) ==
    /\ listed /\ ~legacyLeft
    /\ \A g \in Gens : left[g] # "absent" => g \in missed

\* Every collection of the slug is emptied and dropped; each failure is
\* isolated and reported at the end, before any directory is touched.
PurgeCollections(w) ==
    /\ pc[w] = "purge"
    /\ \E left \in [Gens -> {"absent", "partial", "full"}],
          missed \in SUBSET Unrecognised, legacyLeft \in {FALSE, legacyColl},
          listed \in BOOLEAN :
          LET clean == Purged(left, missed, legacyLeft, listed)
          IN /\ \A g \in Gens :
                  /\ coll[g] = "absent" => left[g] = "absent"
                  /\ left[g] = "full" => coll[g] = "full"
             /\ coll' = left
             /\ legacyColl' = legacyLeft
             /\ Charge(~clean)
             /\ Goto(w, IF clean THEN "wipe" ELSE "failed")
    /\ UNCHANGED <<now, home, pointer, dir, retired, born, legacyMeta,
                   lock, task, locals, reads>>

\* rmtree(slug_dir, ignore_errors=True) removes everything ...
WipeDirectory(w) ==
    /\ pc[w] = "wipe"
    /\ home' = FALSE
    /\ pointer' = NoPointer
    /\ dir' = [g \in Gens |-> "none"]
    /\ retired' = [g \in Gens |-> Never]
    /\ legacyMeta' = FALSE
    /\ Goto(w, "ok")
    /\ UNCHANGED <<now, coll, born, legacyColl, lock, task, locals, reads, faults>>

\* ... or, in whatever order the files came, only some of it; the delete
\* succeeds all the same.
WipePartly(w) ==
    /\ pc[w] = "wipe"
    /\ pointer' \in {NoPointer, pointer}
    /\ \E gone, hurt \in SUBSET {g \in Gens : dir[g] # "none"} :
          /\ dir' = [g \in Gens |-> IF g \in gone THEN "none"
                                    ELSE IF g \in hurt THEN "partial"
                                    ELSE dir[g]]
          /\ retired' = [g \in Gens |-> IF g \in gone THEN Never ELSE retired[g]]
    /\ legacyMeta' \in {FALSE, legacyMeta}
    /\ Charge(TRUE)
    /\ Goto(w, "ok")
    /\ UNCHANGED <<now, home, coll, born, legacyColl, lock, task, locals, reads>>

-----------------------------------------------------------------------------
(* Search, without the lock *)

\* load_current: one read of the pointer, all three files validated.
SearchResolves(s) ==
    /\ mode[s] = "idle"
    /\ Complete(pointer.cur)
    /\ held' = [held EXCEPT ![s] = pointer.cur]
    /\ mode' = [mode EXCEPT ![s] = "graph"]
    /\ started' = [started EXCEPT ![s] = now]
    /\ UNCHANGED <<now, store, workers, faults>>

\* No pointer but top-level metadata: the legacy graph and collection.
SearchResolvesLegacy(s) ==
    /\ mode[s] = "idle"
    /\ pointer.cur = None /\ legacyMeta
    /\ mode' = [mode EXCEPT ![s] = "legacy"]
    /\ started' = [started EXCEPT ![s] = now]
    /\ UNCHANGED <<now, store, workers, held, faults>>

\* load_graph; a missing file only downgrades the search to vectors alone.
SearchLoadsGraph(s) ==
    /\ mode[s] = "graph"
    /\ mode' = [mode EXCEPT ![s] = "query"]
    /\ UNCHANGED <<now, store, workers, held, started, faults>>

\* The queries ran, or failed because the collection is gone.
SearchEnds(s) ==
    /\ mode[s] \in {"query", "legacy"}
    /\ held' = [held EXCEPT ![s] = None]
    /\ mode' = [mode EXCEPT ![s] = "idle"]
    /\ started' = [started EXCEPT ![s] = Never]
    /\ UNCHANGED <<now, store, workers, faults>>

-----------------------------------------------------------------------------
(* Time and the specification *)

\* No search outlives SearchBound and no publish stalls beyond StallBound.
Tick ==
    /\ now < MaxTime
    /\ \A s \in Searchers : mode[s] # "idle" => now < started[s] + SearchBound
    /\ \A w \in Workers : pc[w] = "swap" /\ old[w] # None
                             => now < retired[old[w]] + StallBound
    /\ now' = now + 1
    /\ UNCHANGED <<store, workers, reads, faults>>

BuildStep(w) ==
    \/ UpToDate(w) \/ Load(w) \/ BuildRaises(w) \/ StartEmbed(w) \/ FinishEmbed(w)
    \/ WriteFiles(w) \/ WriteMetadata(w) \/ StampRetired(w) \/ SwapPointer(w)
    \/ DropLegacy(w) \/ SaveRaises(w) \/ AbortDirectory(w) \/ AbortCollection(w)

CleanupStep(w) ==
    \/ CleanupRefused(w) \/ CleanupStart(w)
    \/ \E g \in Gens : \/ SweepStamps(w, g) \/ SweepKeeps(w, g)
                       \/ SweepRemoves(w, g) \/ RmtreeDone(w, g)
    \/ RmtreeRaises(w) \/ SweepDone(w) \/ DropRemoved(w)
    \/ ListingFails(w) \/ DropAbandoned(w)

DeleteStep(w) == PurgeCollections(w) \/ WipeDirectory(w) \/ WipePartly(w)

WorkerStep(w) ==
    \/ Release(w) \/ BuildStep(w) \/ CleanupStep(w) \/ DeleteStep(w)

SearchStep(s) ==
    \/ SearchResolves(s) \/ SearchResolvesLegacy(s)
    \/ SearchLoadsGraph(s) \/ SearchEnds(s)

Next ==
    \/ \E w \in Workers, op \in Ops : Acquire(w, op)
    \/ \E w \in Workers : WorkerStep(w) \/ Crash(w)
    \/ \E s \in Searchers : SearchStep(s)
    \/ Tick

Spec == Init /\ [][Next]_vars

(***************************************************************************)
(* Fairness: a running operation goes on, a search ends, the clock ticks,  *)
(* and the recovery sweep (at start and then periodically) keeps getting   *)
(* the flock: the kernel wakes a blocked waiter whenever it is released.   *)
(***************************************************************************)
FairSpec ==
    /\ Spec
    /\ \A w \in Workers : /\ WF_vars(WorkerStep(w))
                          /\ SF_vars("recover" \in Ops /\ Acquire(w, "recover"))
    /\ \A s \in Searchers : WF_vars(SearchLoadsGraph(s) \/ SearchEnds(s))
    /\ WF_vars(Tick)

-----------------------------------------------------------------------------
(* Properties *)

Deleting == \E w \in Workers : Inside(w) /\ task[w] = "delete"

\* One operation at a time: builds, recovery and deletes of the slug never
\* overlap, whatever crashes (locking.py "Serialize builds and deletion").
MutualExclusion ==
    \A v, w \in Workers : Inside(v) /\ Inside(w) => v = w

\* A build that reports success leaves a pointer to a complete generation with
\* a complete collection, also when it returned early as up to date and when
\* an earlier delete or crash had damaged the index.
SuccessMeansServing ==
    \A w \in Workers : task[w] = "build" /\ pc[w] = "ok" => Intact(pointer.cur)

\* The pointer moves only to a newer generation whose files and collection are
\* all there, and names as previous the generation it replaces if that one is
\* complete; only a delete takes it away (publish_generation; README "Builds
\* are published atomically").
PointerMovesForward ==
    [][pointer' # pointer =>
          \/ Deleting /\ pointer' = NoPointer
          \/ /\ Intact(pointer.cur)'
             /\ pointer'.cur > pointer.cur
             /\ pointer'.prev = IF Complete(pointer.cur) THEN pointer.cur ELSE None]_vars

\* No crash, failed build, cleanup or recovery ever damages the current or the
\* previous generation; only a delete does ("Never delete the active or
\* previous generation during recovery").
KeptGenerationsSurvive ==
    [][\A g \in Gens : g \in Kept /\ Intact(g) /\ ~Intact(g)' => Deleting]_vars

\* A search that resolved a whole generation can read its graph and its
\* collection until it ends, however many builds publish meanwhile, unless
\* the slug is deleted ("Delay old generation cleanup so a search that already
\* read the old pointer can finish").
SearchesKeepTheirGeneration ==
    [][\A s \in Searchers, g \in Gens :
          held[s] = g /\ Intact(g) /\ ~Intact(g)' => Deleting]_vars

\* Storage that nothing can use any more: superseded or abandoned, and past
\* every grace period the cleanup waits for.
Reclaimable(g) ==
    /\ born[g] # Never /\ born[g] + Grace <= now
    /\ g \notin Kept
    /\ \A w \in Workers : gen[w] # g
    /\ Complete(g) => retired[g] # Never /\ retired[g] + Grace <= now

Reclaimed(g) == dir[g] = "none" /\ coll[g] = "absent"

\* Once the slug has a directory, recovery eventually removes the directory
\* and the collection of every superseded or abandoned generation, whatever
\* crashed or failed before.
StorageReclaimed ==
    \A g \in Gens : home /\ Reclaimable(g) ~> Reclaimed(g)

\* The same without a directory for the slug: plan/done/reindex-on-git-update.md
\* has startup remove abandoned staging collections.
AbandonedBuildsReclaimed ==
    \A g \in Gens : Reclaimable(g) ~> Reclaimed(g)

\* A search that resolved the legacy index can read its collection to the end.
LegacySearchesKeepTheirIndex ==
    [][\A s \in Searchers :
          mode[s] = "legacy" /\ legacyColl /\ ~legacyColl' => Deleting]_vars

-----------------------------------------------------------------------------
(* The inductive invariant behind the safety properties *)

BuildSteps   == {"load", "extract", "embed", "write", "seal", "stamp", "swap",
                 "legacy", "abort", "undo"}
StagingSteps == {"embed", "write", "seal", "stamp", "swap", "abort", "undo"}
CleanSteps   == {"clean", "sweep", "rmtree", "drop", "abandon"}
DeleteSteps  == {"purge", "wipe"}

\* The flock is held exactly by the worker inside, and a step belongs to the
\* operation that takes it.
LockInv ==
    \A w \in Workers :
        /\ Inside(w) <=> lock = w
        /\ pc[w] \in BuildSteps => task[w] = "build"
        /\ pc[w] \in CleanSteps => task[w] \in {"build", "recover"}
        /\ pc[w] \in DeleteSteps => task[w] = "delete"

\* An id not handed out yet has left no trace anywhere.
FreshInv ==
    \A g \in Gens \ Used :
        /\ dir[g] = "none" /\ coll[g] = "absent"
        /\ g \notin Kept
        /\ \A w \in Workers : gen[w] # g
        /\ \A s \in Searchers : held[s] # g

\* A worker names a generation only once its build has created one.
IdleInv == \A w \in Workers : pc[w] \in {"idle", "load", "extract"} => gen[w] = None

\* A build owns the generation it stages: nobody's pointer, nobody's read, and
\* each step finds what the steps before it made.
StagingInv(w) ==
    /\ pc[w] \in StagingSteps =>
          /\ gen[w] \in Gens \ Kept
          /\ \A g \in Used : g <= gen[w]
          /\ \A s \in Searchers : held[s] # gen[w]
    /\ pc[w] \in {"write", "seal", "stamp", "swap"} => coll[gen[w]] = "full"
    /\ pc[w] \in {"stamp", "swap"} => dir[gen[w]] = "complete"

\* Between the two halves of publish the old generation is known, stamped, and
\* the stamp is at most StallBound old.
SwapInv(w) ==
    pc[w] = "swap" =>
       /\ old[w] = IF Complete(pointer.cur) THEN pointer.cur ELSE None
       /\ old[w] # None => /\ retired[old[w]] # Never
                           /\ now <= retired[old[w]] + StallBound

\* Once the pointer has moved, the build's generation is the active one.
PublishedInv(w) ==
    /\ task[w] = "build" /\ gen[w] # None /\ pc[w] \in CleanSteps \cup {"legacy"}
          => gen[w] = pointer.cur /\ Intact(pointer.cur)
    /\ pc[w] = "legacy" => gen[w] # None
    /\ task[w] = "build" /\ pc[w] = "ok" => Intact(pointer.cur)

\* A cleanup never has a kept generation on its list and drops collections
\* only of generations whose directory it has broken up.
CleanInv(w) ==
    /\ pc[w] \in {"sweep", "rmtree"} =>
          /\ todo[w] \subseteq Used \ Kept
          /\ cleanAt[w] <= now
    /\ pc[w] \in {"sweep", "rmtree", "drop"} =>
          \A g \in removed[w] : dir[g] # "complete"
    /\ pc[w] = "rmtree" =>
          \A g \in Gens : Newest(w, g) => dir[g] # "complete"

\* A delete touches directories only when no collection is usable any more.
WipeInv(w) == pc[w] = "wipe" => \A g \in Gens : coll[g] # "full"

WorkerInv(w) ==
    StagingInv(w) /\ SwapInv(w) /\ PublishedInv(w) /\ CleanInv(w) /\ WipeInv(w)

\* What a search holds was current when it began: either it still is, or it
\* was stamped retired at most StallBound before the search began.
SearchInv(s) ==
    /\ mode[s] \in {"idle", "legacy"} => held[s] = None
    /\ held[s] # None =>
          /\ started[s] # Never
          /\ started[s] <= now /\ now <= started[s] + SearchBound
          /\ Intact(held[s]) /\ held[s] # pointer.cur =>
                /\ retired[held[s]] # Never
                /\ started[s] <= retired[held[s]] + StallBound

IInv ==
    /\ TypeOK /\ LockInv /\ FreshInv /\ IdleInv
    /\ \A w \in Workers : WorkerInv(w)
    /\ \A s \in Searchers : SearchInv(s)

-----------------------------------------------------------------------------
(* The abstract index this store implements *)

Whole     == {g \in Gens : Intact(g)}
Published == IF Intact(pointer.cur) THEN pointer.cur ELSE None
Reading   == [s \in Searchers |-> IF Intact(held[s]) THEN held[s] ELSE None]

Served == INSTANCE ServedIndex WITH
    Readers <- Searchers, whole <- Whole, published <- Published,
    reading <- Reading, destroying <- Deleting

\* Searchers see an index whose published generation is replaced atomically
\* and whose generations vanish under a reader only during a delete: every
\* step of locks, files, collections and clocks is one step of ServedIndex.
ImplementsServedIndex == Served!Spec
=============================================================================
