---------------------------- MODULE BuildService ----------------------------
(***************************************************************************)
(* The build service of codeknow-api: one event loop that accepts builds,  *)
(* answers polls and deletes, resumes one task per build, and a pool of    *)
(* threads in which builds, deletes and the periodic recovery run, each    *)
(* under the flock of its slug.                                            *)
(*                                                                         *)
(* A handler or task runs on the loop without interruption up to its next  *)
(* await, but the threads do not stop meanwhile: POST /v1/build reads the  *)
(* disk three times before it decides, and a build thread may publish or a *)
(* delete thread may remove files between two of these reads.              *)
(*                                                                         *)
(* What the operations do inside the lock is the subject of SlugIndex;     *)
(* here an index is what has_slug, list_repos and recover see of it.       *)
(***************************************************************************)
EXTENDS Naturals, FiniteSets

CONSTANTS
    Slugs,       \* repositories
    NoSlug,      \* no repository
    Deleters,    \* clients of DELETE /v1/repos
    NoHolder,    \* a free lock
    Recovery,    \* the holder of a lock that recover() takes
    MaxRepos,    \* _MAX_REPOSITORIES
    Pool,        \* threads of the default executor
    MaxBuilds,   \* bound: accepted builds
    MaxFaults    \* bound: crashes and failures outside the builds

ASSUME ServiceAssumption ==
    /\ NoSlug \notin Slugs /\ IsFiniteSet(Slugs)
    /\ MaxRepos \in Nat /\ Pool \in Nat \ {0}
    /\ MaxBuilds \in Nat /\ MaxFaults \in Nat

Builds  == 1..MaxBuilds      \* accepted builds, in the order of acceptance
NoBuild == 0
ASSUME HoldersAssumption ==
    /\ Builds \cap Deleters = {}
    /\ Recovery \notin Builds \cup Deleters
    /\ NoHolder \notin Builds \cup Deleters \cup {Recovery}

VARIABLES
    disk,      \* per slug: "pointer" (current.json), "current" (the generation
               \* it names is complete), "generations" (the directory)
    flock,     \* per slug: who holds .locks/<slug>.lock
    serving,   \* the lifespan start-up is over
    post,      \* a POST of a new repository under way: its slug, what it counted
    inFlight,  \* state.builds_in_flight
    entry,     \* state.build_jobs: the build whose job a slug's entry is
    status,    \* status of the job of each build
    slugOf,    \* the slug of each build
    task,      \* where the task of each build (_run_build) is
    call,      \* where its thread (facade.build) is
    deleting,  \* where each DELETE request is
    target,    \* its slug
    since,     \* the last build accepted before it
    recover,   \* where the recovery task is
    todo,      \* slugs recover() still has to visit
    visiting,  \* the slug it visits
    faults     \* faults so far

jobs    == <<post, inFlight, entry, status, slugOf, task>>
deletes == <<deleting, target, since>>
sweep   == <<recover, todo, visiting>>
vars    == <<disk, flock, serving, jobs, call, deletes, sweep, faults>>

Holders   == Builds \cup Deleters \cup {Recovery}
NoPost    == [slug |-> NoSlug, step |-> "none", count |-> 0]
Terminal  == {"succeeded", "failed"}
Live      == {b \in Builds : task[b] \notin {"none", "done"}}
Accepted  == {b \in Builds : task[b] # "none"}

TypeOK ==
    /\ disk \in [Slugs -> SUBSET {"pointer", "current", "generations"}]
    /\ flock \in [Slugs -> Holders \cup {NoHolder}]
    /\ serving \in BOOLEAN
    /\ post \in [slug : Slugs, step : {"count", "decide"},
                 count : 0..Cardinality(Slugs)] \cup {NoPost}
    /\ inFlight \subseteq Slugs
    /\ entry \in [Slugs -> Builds \cup {NoBuild}]
    /\ status \in [Builds -> {"none", "queued", "running"} \cup Terminal]
    /\ slugOf \in [Builds -> Slugs \cup {NoSlug}]
    /\ task \in [Builds -> {"none", "created", "clearing", "calling", "closing", "done"}]
    /\ call \in [Builds -> {"none", "queued", "running", "locked", "published",
                            "ok", "failed"}]
    /\ deleting \in [Deleters -> {"none", "queued", "running", "purging", "wiping"}]
    /\ target \in [Deleters -> Slugs \cup {NoSlug}]
    /\ since \in [Deleters -> Builds \cup {NoBuild}]
    /\ recover \in {"asleep", "queued", "visit", "scan", "lock", "clean", "dead"}
    /\ todo \subseteq Slugs
    /\ visiting \in Slugs \cup {NoSlug}
    /\ faults \in 0..MaxFaults

Init ==
    /\ disk = [s \in Slugs |-> {}]
    /\ flock = [s \in Slugs |-> NoHolder]
    /\ serving = FALSE
    /\ post = NoPost
    /\ inFlight = {}
    /\ entry = [s \in Slugs |-> NoBuild]
    /\ status = [b \in Builds |-> "none"]
    /\ slugOf = [b \in Builds |-> NoSlug]
    /\ task = [b \in Builds |-> "none"]
    /\ call = [b \in Builds |-> "none"]
    /\ deleting = [d \in Deleters |-> "none"]
    /\ target = [d \in Deleters |-> NoSlug]
    /\ since = [d \in Deleters |-> NoBuild]
    /\ recover = "queued"
    /\ todo = {}
    /\ visiting = NoSlug
    /\ faults = 0

-----------------------------------------------------------------------------
(* What the service sees of an index *)

HasSlug(s) == "pointer" \in disk[s]                          \* has_slug
Listed     == {s \in Slugs : {"pointer", "current"} \subseteq disk[s]}
                                                             \* list_repos

\* The executor is at its limit when every thread has work, blocked or not.
Busy ==
    {b \in Builds : call[b] \in {"running", "locked", "published"}}
        \cup {d \in Deleters : deleting[d] \in {"running", "purging", "wiping"}}
        \cup (IF recover \in {"visit", "scan", "lock", "clean"} THEN {Recovery} ELSE {})
FreeThread == Cardinality(Busy) < Pool

\* Mutant: the reads of a POST are awaited, other handlers run between them.
LoopFreeAlways == TRUE

\* The loop has no handler half way (a POST never awaits, it only takes time).
LoopFree == post = NoPost

Take(s, holder)    == flock[s] = NoHolder /\ flock' = [flock EXCEPT ![s] = holder]
Release(s)         == flock' = [flock EXCEPT ![s] = NoHolder]

\* A fault is possible only while the budget lasts.
Fault == faults < MaxFaults /\ faults' = faults + 1

-----------------------------------------------------------------------------
(* POST /v1/build *)

\* Jobs old enough to be evicted; the age is a choice, the status is not.
Evictable == {s \in Slugs : entry[s] # NoBuild /\ status[entry[s]] \in Terminal}

Evicted(gone) == [s \in Slugs |-> IF s \in gone THEN NoBuild ELSE entry[s]]

\* Mark the slug, evict, register the job and create the task.
Admit(s) ==
    LET b == Cardinality(Accepted) + 1 IN
    /\ b \in Builds
    /\ \E gone \in SUBSET Evictable :
          entry' = [Evicted(gone) EXCEPT ![s] = b]
    /\ inFlight' = inFlight \cup {s}
    /\ status' = [status EXCEPT ![b] = "queued"]
    /\ slugOf' = [slugOf EXCEPT ![b] = s]
    /\ task' = [task EXCEPT ![b] = "created"]

\* Mutant: refuse by the status of the job instead of the in-flight set.
IdleByStatus(s) ==
    s \notin {r \in Slugs : entry[r] # NoBuild /\ status[entry[r]] \notin Terminal}

\* The 409 of a slug in flight leaves the state alone.
Idle(s) == s \notin inFlight

PostKnown(s) ==
    /\ serving /\ LoopFree /\ Idle(s) /\ HasSlug(s)
    /\ Admit(s)
    /\ UNCHANGED <<disk, flock, serving, post, call, deletes, sweep, faults>>

PostNew(s) ==
    /\ serving /\ LoopFree /\ Idle(s) /\ ~HasSlug(s)
    /\ Cardinality(Accepted) < MaxBuilds
    /\ post' = [slug |-> s, step |-> "count", count |-> 0]
    /\ UNCHANGED <<disk, flock, serving, inFlight, entry, status, slugOf, task,
                   call, deletes, sweep, faults>>

\* indexed_count = facade.list_repos().total
PostCounts ==
    /\ post.step = "count"
    /\ post' = [post EXCEPT !.step = "decide", !.count = Cardinality(Listed)]
    /\ UNCHANGED <<disk, flock, serving, inFlight, entry, status, slugOf, task,
                   call, deletes, sweep, faults>>

NewBuilds  == {s \in inFlight : ~HasSlug(s)}
UnderLimit == post.count + Cardinality(NewBuilds) < MaxRepos

PostAccepts ==
    /\ post.step = "decide" /\ UnderLimit
    /\ Admit(post.slug)
    /\ post' = NoPost
    /\ UNCHANGED <<disk, flock, serving, call, deletes, sweep, faults>>

PostRefuses ==
    /\ post.step = "decide" /\ ~UnderLimit
    /\ post' = NoPost
    /\ UNCHANGED <<disk, flock, serving, inFlight, entry, status, slugOf, task,
                   call, deletes, sweep, faults>>

\* GET /v1/build/{slug}
Poll ==
    /\ serving /\ LoopFree
    /\ \E gone \in (SUBSET Evictable) \ {{}} : entry' = Evicted(gone)
    /\ UNCHANGED <<disk, flock, serving, post, inFlight, status, slugOf, task,
                   call, deletes, sweep, faults>>

-----------------------------------------------------------------------------
(* _run_build *)

\* job = state.build_jobs[slug]; without one the task ends at once.
TaskStarts(b) ==
    /\ LoopFree /\ task[b] = "created"
    /\ IF entry[slugOf[b]] = NoBuild
         THEN /\ task' = [task EXCEPT ![b] = "done"]
              /\ inFlight' = inFlight \ {slugOf[b]}
              /\ UNCHANGED status
         ELSE /\ task' = [task EXCEPT ![b] = "clearing"]
              /\ status' = [status EXCEPT ![entry[slugOf[b]]] = "running"]
              /\ UNCHANGED inFlight
    /\ UNCHANGED <<disk, flock, serving, post, entry, slugOf, call, deletes, sweep,
                   faults>>

\* The cache is invalidated, facade.build goes to the executor.
TaskCalls(b) ==
    /\ LoopFree /\ task[b] = "clearing"
    /\ task' = [task EXCEPT ![b] = "calling"]
    /\ call' = [call EXCEPT ![b] = "queued"]
    /\ UNCHANGED <<disk, flock, serving, post, inFlight, entry, status, slugOf,
                   deletes, sweep, faults>>

\* Mutant: no finally, the slug stays in flight.
FailsKeepsMark(b) ==
    /\ status' = [status EXCEPT ![b] = "failed"]
    /\ task' = [task EXCEPT ![b] = "done"]
    /\ UNCHANGED inFlight

\* except and finally.
Fails(b) ==
    /\ status' = [status EXCEPT ![b] = "failed"]
    /\ task' = [task EXCEPT ![b] = "done"]
    /\ inFlight' = inFlight \ {slugOf[b]}

\* The Redis client cannot be made (a malformed URL): get_client is outside
\* the try of invalidate_for_slug.
InvalidationFails(b) ==
    /\ LoopFree /\ task[b] = "clearing"
    /\ Fault
    /\ Fails(b)
    /\ UNCHANGED <<disk, flock, serving, post, entry, slugOf, call, deletes, sweep>>

TaskFails(b) ==
    /\ LoopFree /\ task[b] = "calling" /\ call[b] = "failed"
    /\ Fails(b)
    /\ UNCHANGED <<disk, flock, serving, post, entry, slugOf, call, deletes, sweep,
                   faults>>

\* The job succeeds, then the cache is invalidated again.
TaskSucceeds(b) ==
    /\ LoopFree /\ task[b] = "calling" /\ call[b] = "ok"
    /\ status' = [status EXCEPT ![b] = "succeeded"]
    /\ task' = [task EXCEPT ![b] = "closing"]
    /\ UNCHANGED <<disk, flock, serving, post, inFlight, entry, slugOf, call, deletes,
                   sweep, faults>>

\* Mutant: the second invalidation may raise, and except takes success back.
TaskEndsRaising(b) ==
    /\ LoopFree /\ task[b] = "closing"
    /\ \/ UNCHANGED status
       \/ status' = [status EXCEPT ![b] = "failed"]
    /\ task' = [task EXCEPT ![b] = "done"]
    /\ inFlight' = inFlight \ {slugOf[b]}
    /\ UNCHANGED <<disk, flock, serving, post, entry, slugOf, call, deletes, sweep,
                   faults>>

TaskEnds(b) ==
    /\ LoopFree /\ task[b] = "closing"
    /\ task' = [task EXCEPT ![b] = "done"]
    /\ inFlight' = inFlight \ {slugOf[b]}
    /\ UNCHANGED <<disk, flock, serving, post, entry, status, slugOf, call, deletes,
                   sweep, faults>>

-----------------------------------------------------------------------------
(* facade.build in its thread *)

Calls(b, from, to) == call[b] = from /\ call' = [call EXCEPT ![b] = to]

BuildRuns(b) ==
    /\ FreeThread
    /\ Calls(b, "queued", "running")
    /\ UNCHANGED <<disk, flock, serving, jobs, deletes, sweep, faults>>

BuildLocks(b) ==
    /\ Calls(b, "running", "locked")
    /\ Take(slugOf[b], b)
    /\ UNCHANGED <<disk, serving, jobs, deletes, sweep, faults>>

\* publish_generation, or the index is up to date.
BuildPublishes(b) ==
    /\ Calls(b, "locked", "published")
    /\ disk' = [disk EXCEPT ![slugOf[b]] = {"pointer", "current", "generations"}]
    /\ UNCHANGED <<flock, serving, jobs, deletes, sweep, faults>>

BuildReturns(b) ==
    /\ Calls(b, "published", "ok")
    /\ Release(slugOf[b])
    /\ UNCHANGED <<disk, serving, jobs, deletes, sweep, faults>>

\* Mutant: the lock is not released on the way out of an exception.
BuildRaisesLocked(b) ==
    /\ Calls(b, "locked", "failed")
    /\ UNCHANGED <<disk, flock, serving, jobs, deletes, sweep, faults>>

\* Any error before the publication; the staging directory may stay.
BuildRaises(b) ==
    /\ Calls(b, "locked", "failed")
    /\ Release(slugOf[b])
    /\ \E staged \in {{}, {"generations"}} :
          disk' = [disk EXCEPT ![slugOf[b]] = @ \cup staged]
    /\ UNCHANGED <<serving, jobs, deletes, sweep, faults>>

-----------------------------------------------------------------------------
(* DELETE /v1/repos *)

\* 404 without an index, 409 with a build in flight; both checks on the loop.
DeleteAccepted(d, s) ==
    /\ serving /\ LoopFree /\ deleting[d] = "none"
    /\ HasSlug(s) /\ Idle(s)
    /\ deleting' = [deleting EXCEPT ![d] = "queued"]
    /\ target' = [target EXCEPT ![d] = s]
    /\ since' = [since EXCEPT ![d] = Cardinality(Accepted)]
    /\ UNCHANGED <<disk, flock, serving, jobs, call, sweep, faults>>

Deletes(d, from, to) ==
    /\ deleting[d] = from
    /\ deleting' = [deleting EXCEPT ![d] = to]
    /\ UNCHANGED <<target, since>>

DeleteEnds(d, from) ==
    /\ deleting[d] = from
    /\ deleting' = [deleting EXCEPT ![d] = "none"]
    /\ target' = [target EXCEPT ![d] = NoSlug]
    /\ since' = [since EXCEPT ![d] = NoBuild]
    /\ Release(target[d])

DeleteRuns(d) ==
    /\ FreeThread
    /\ Deletes(d, "queued", "running")
    /\ UNCHANGED <<disk, flock, serving, jobs, call, sweep, faults>>

DeleteLocks(d) ==
    /\ Deletes(d, "running", "purging")
    /\ Take(target[d], d)
    /\ UNCHANGED <<disk, serving, jobs, call, sweep, faults>>

\* The collections are gone ...
DeletePurges(d) ==
    /\ Deletes(d, "purging", "wiping")
    /\ UNCHANGED <<disk, flock, serving, jobs, call, sweep, faults>>

\* ... or one of them is not, and the delete raises with every file in place.
PurgeFails(d) ==
    /\ DeleteEnds(d, "purging")
    /\ Fault
    /\ UNCHANGED <<disk, serving, jobs, call, sweep>>

\* rmtree in the order of the directory; a directory goes after what is in it.
Wipes(d) ==
    /\ deleting[d] = "wiping"
    /\ \E part \in disk[target[d]] :
          /\ part = "generations" => "current" \notin disk[target[d]]
          /\ disk' = [disk EXCEPT ![target[d]] = @ \ {part}]
    /\ UNCHANGED <<flock, serving, jobs, call, deletes, sweep, faults>>

WipeEnds(d) ==
    /\ DeleteEnds(d, "wiping")
    /\ disk[target[d]] = {}
    /\ UNCHANGED <<disk, serving, jobs, call, sweep, faults>>

\* ignore_errors=True: what cannot be removed stays, the delete succeeds.
WipeGivesUp(d) ==
    /\ DeleteEnds(d, "wiping")
    /\ disk[target[d]] # {}
    /\ Fault
    /\ UNCHANGED <<disk, serving, jobs, call, sweep>>

-----------------------------------------------------------------------------
(* recover(), at start-up and every recovery_interval *)

RecoveryWakes ==
    /\ LoopFree /\ recover = "asleep"
    /\ recover' = "queued"
    /\ UNCHANGED <<disk, flock, serving, jobs, call, deletes, todo, visiting, faults>>

\* The listing of graph_dir.
RecoveryRuns ==
    /\ FreeThread /\ recover = "queued"
    /\ recover' = "visit"
    /\ todo' = {s \in Slugs : disk[s] # {}}
    /\ UNCHANGED <<disk, flock, serving, jobs, call, deletes, visiting, faults>>

\* Without the lock: metadata of the active generation, else the newest
\* staged one, for which generations/ is listed.
RecoveryVisits(s) ==
    /\ recover = "visit" /\ s \in todo
    /\ todo' = todo \ {s}
    /\ visiting' = IF disk[s] = {} THEN NoSlug ELSE s
    /\ recover' = IF disk[s] = {} THEN "visit"
                  ELSE IF s \notin Listed /\ "generations" \in disk[s] THEN "scan" ELSE "lock"
    /\ UNCHANGED <<disk, flock, serving, jobs, call, deletes, faults>>

\* generations.iterdir() raises when the directory has gone since is_dir();
\* nothing catches it, and the periodic task ends.
RecoveryScans ==
    /\ recover = "scan"
    /\ recover' = IF "generations" \in disk[visiting] THEN "lock" ELSE "dead"
    /\ UNCHANGED <<disk, flock, serving, jobs, call, deletes, todo, visiting, faults>>

RecoveryLocks ==
    /\ recover = "lock"
    /\ recover' = "clean"
    /\ Take(visiting, Recovery)
    /\ UNCHANGED <<disk, serving, jobs, call, deletes, todo, visiting, faults>>

\* Nothing that has_slug or list_repos look at is removed.
RecoveryCleans ==
    /\ recover = "clean"
    /\ recover' = "visit"
    /\ visiting' = NoSlug
    /\ Release(visiting)
    /\ UNCHANGED <<disk, serving, jobs, call, deletes, todo, faults>>

\* The first round ends the start-up.
RecoveryEnds ==
    /\ recover = "visit" /\ todo = {}
    /\ recover' = "asleep"
    /\ serving' = TRUE
    /\ UNCHANGED <<disk, flock, jobs, call, deletes, todo, visiting, faults>>

-----------------------------------------------------------------------------
(* The process dies and is started again: only the files stay. *)

\* Mutant: lock files that outlive their holder instead of flock.
LocksLeft == flock

\* The kernel releases every flock of a dead process.
LocksAfterCrash == [s \in Slugs |-> NoHolder]

Crash ==
    /\ Fault
    /\ serving' = FALSE
    /\ flock' = LocksAfterCrash
    /\ post' = NoPost
    /\ inFlight' = {}
    /\ entry' = [s \in Slugs |-> NoBuild]
    /\ task' = [b \in Builds |-> IF task[b] = "none" THEN "none" ELSE "done"]
    /\ call' = [b \in Builds |-> "none"]
    /\ deleting' = [d \in Deleters |-> "none"]
    /\ target' = [d \in Deleters |-> NoSlug]
    /\ since' = [d \in Deleters |-> NoBuild]
    /\ recover' = "queued"
    /\ todo' = {}
    /\ visiting' = NoSlug
    /\ UNCHANGED <<disk, status, slugOf>>

-----------------------------------------------------------------------------

Posting == PostCounts \/ PostAccepts \/ PostRefuses

Task(b) ==
    \/ TaskStarts(b) \/ TaskCalls(b) \/ InvalidationFails(b)
    \/ TaskFails(b) \/ TaskSucceeds(b) \/ TaskEnds(b)

Thread(b) ==
    \/ BuildRuns(b) \/ BuildLocks(b)
    \/ BuildPublishes(b) \/ BuildReturns(b) \/ BuildRaises(b)

Deletion(d) ==
    \/ DeleteRuns(d) \/ DeleteLocks(d) \/ DeletePurges(d) \/ PurgeFails(d)
    \/ Wipes(d) \/ WipeEnds(d) \/ WipeGivesUp(d)

Recovers ==
    \/ RecoveryRuns \/ RecoveryScans \/ RecoveryLocks \/ RecoveryCleans \/ RecoveryEnds
    \/ \E s \in Slugs : RecoveryVisits(s)

Next ==
    \/ Posting
    \/ \E s \in Slugs : PostKnown(s) \/ PostNew(s)
    \/ Poll
    \/ \E b \in Builds : Task(b) \/ Thread(b)
    \/ \E d \in Deleters : Deletion(d) \/ \E s \in Slugs : DeleteAccepted(d, s)
    \/ RecoveryWakes \/ Recovers
    \/ Crash

Spec == Init /\ [][Next]_vars

\* What is running goes on; the loop and the executor serve their queues in
\* order and the kernel wakes every waiter of a lock, so nobody waits for ever
\* while the loop, threads and locks come free again and again.  No client
\* need do anything.
Fairness ==
    /\ WF_vars(Posting)
    /\ SF_vars(Recovers)
    /\ \A b \in Builds : SF_vars(Task(b) \/ Thread(b))
    /\ \A d \in Deleters : SF_vars(Deletion(d))

FairSpec == Spec /\ Fairness

-----------------------------------------------------------------------------
(* Properties *)

\* At most one build of a slug is under way, from the POST that admits it to
\* the end of its task (POST /v1/build answers 409 otherwise).
OneBuildPerSlug ==
    \A b, c \in Live : slugOf[b] = slugOf[c] => b = c

\* builds_in_flight is the set of slugs with a build under way: nothing is
\* refused for a build that has ended, however it ended, and nothing is
\* admitted beside one that has not (_run_build, finally).
SentinelIsExact == inFlight = {slugOf[b] : b \in Live}

\* Whatever polls evict, a client that polls finds the job of a build under
\* way, with the status of that build: queued before its task runs, running
\* until its outcome is known (_evict_completed_jobs, _run_build).
JobOfRunningBuild ==
    \A b \in Live :
        /\ task[b] = "created" => status[b] = "queued"
        /\ task[b] \in {"clearing", "calling"} => status[b] = "running"
        /\ task[b] # "closing" => entry[slugOf[b]] = b

\* A delete and a build of the same slug are under way together only when the
\* build was accepted after the delete: the check in DELETE /v1/repos is not
\* overtaken by builds it could have seen.
DeletesSeeNoOlderBuild ==
    \A d \in Deleters, b \in Live :
        deleting[d] # "none" /\ target[d] = slugOf[b] => b > since[d]

\* An outcome, once reported, is not taken back: no later step of the task, no
\* later build of the slug and no failing cache changes it (_run_build).
OutcomesStand ==
    [][\A b \in Builds : status[b] \in Terminal => status'[b] = status[b]]_vars

\* Every accepted build comes to an end, with builds, deletes and recovery
\* waiting for the threads and the locks of each other.
BuildsFinish ==
    \A b \in Builds : (task[b] = "created") ~> (task[b] = "done")

\* Wherever the process dies, the next one gets through its first recovery and
\* serves requests: no lock and no half-removed directory is in the way.
ServesAgain == (~serving) ~> serving

\* "in-flight new repository consumes slot" (tests/test_api_build.py): what is
\* indexed and what is being built never exceeds _MAX_REPOSITORIES.
RepositoryLimit ==
    Cardinality(Listed \cup {slugOf[b] : b \in Live}) <= MaxRepos

\* "The API recovers abandoned staging data at startup and periodically while
\* it runs" (packages/codeknow-api/README.md).
RecoveryKeepsRunning == recover # "dead"

-----------------------------------------------------------------------------
(* The inductive invariant *)

\* Builds are numbered in the order of acceptance.
AcceptedInv ==
    /\ \E n \in 0..MaxBuilds : Accepted = 1..n
    /\ \A b \in Accepted : slugOf[b] \in Slugs
    /\ \A b \in Builds \ Accepted : status[b] = "none"

\* Which thread belongs to which task.
CallInv ==
    \A b \in Builds :
        /\ call[b] # "none" => task[b] # "none"
        /\ call[b] \in {"queued", "running", "locked", "published"}
              => task[b] = "calling"
        /\ task[b] \in {"created", "clearing"} => call[b] = "none"
        /\ task[b] = "closing" => status[b] = "succeeded"

\* Jobs registered for a slug are jobs of that slug.
EntryInv ==
    \A s \in Slugs : entry[s] # NoBuild => entry[s] \in Accepted /\ slugOf[entry[s]] = s

\* Who holds the lock of a slug is at work on it, and the only one.
LockInv ==
    /\ \A b \in Builds, s \in Slugs :
          flock[s] = b <=> call[b] \in {"locked", "published"} /\ slugOf[b] = s
    /\ \A d \in Deleters, s \in Slugs :
          flock[s] = d <=> deleting[d] \in {"purging", "wiping"} /\ target[d] = s
    /\ \A s \in Slugs : flock[s] = Recovery <=> recover = "clean" /\ visiting = s

\* A POST half way still finds its slug idle when it decides.
PostInv ==
    post # NoPost =>
        /\ serving
        /\ post.slug \in Slugs \ inFlight
        /\ post.step # "none"
        /\ Cardinality(Accepted) < MaxBuilds

\* Before the first recovery ends nothing else runs.
StartInv ==
    ~serving =>
        /\ Live = {} /\ \A d \in Deleters : deleting[d] = "none"
        /\ recover \notin {"asleep", "dead"}
        /\ recover = "scan" => "generations" \in disk[visiting]

\* Deletes and recovery know their slug.
TargetInv ==
    /\ \A d \in Deleters :
          /\ deleting[d] # "none" => target[d] \in Slugs
          /\ since[d] \in Accepted \cup {NoBuild}
    /\ recover \in {"scan", "lock", "clean"} => visiting \in Slugs

IInv ==
    /\ TypeOK
    /\ AcceptedInv /\ CallInv /\ EntryInv /\ LockInv /\ PostInv /\ StartInv /\ TargetInv
    /\ OneBuildPerSlug /\ SentinelIsExact /\ JobOfRunningBuild
    /\ DeletesSeeNoOlderBuild

=============================================================================
