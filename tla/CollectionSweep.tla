--------------------------- MODULE CollectionSweep ---------------------------
(***************************************************************************)
(* delete(slug) goes through every collection of Chroma, those of other    *)
(* slugs too, and holds the lock of its own slug only: other slugs are     *)
(* built and deleted meanwhile.  Opening a collection creates it when it   *)
(* is not there; what was opened is gone when the collection is dropped,   *)
(* whatever comes under its name later.                                    *)
(***************************************************************************)
EXTENDS Naturals, FiniteSets

CONSTANTS
    Repositories,    \* the repositories
    MaxGenerations,  \* bound: builds of a slug
    MaxSweeps,       \* bound: deletes
    MaxRefusals      \* bound: calls that Chroma refuses

ASSUME SweepAssumption == MaxGenerations \in Nat /\ MaxSweeps \in Nat /\ MaxRefusals \in Nat

\* One collection per generation, and one that older builds of all slugs shared.
Shared == <<"shared", 0>>
Collections == {Shared} \union (Repositories \X (1..MaxGenerations))

VARIABLES
    chroma,   \* per collection: whether it is there, whose records it has, and which
              \* slugs have opened it: what it was before a drop is open to nobody
    disk,     \* per slug: the generations of its directory
    current,  \* per slug: the generation of the pointer, or 0
    worker,   \* per slug: the build or delete that has its lock
    builds, sweeps, refusals

SweepVars == <<chroma, disk, current, worker, builds, sweeps, refusals>>

Resting == [pc |-> "rest", own |-> {}, todo |-> {}, at |-> Shared, purged |-> FALSE,
            dropped |-> {}, failed |-> FALSE]
Absent == [up |-> FALSE, records |-> {}, open |-> {}]
SweepInit ==
    /\ disk = [s \in Repositories |-> {1}] /\ current = [s \in Repositories |-> 1]
    /\ \E sharers \in {{}, Repositories} :
          chroma = [c \in Collections |->
                      CASE c = Shared -> [up |-> sharers # {}, records |-> sharers, open |-> {}]
                        [] c[2] = 1 -> [up |-> TRUE, records |-> {c[1]}, open |-> {}]
                        [] OTHER -> Absent]
    /\ worker = [s \in Repositories |-> Resting]
    /\ builds = [s \in Repositories |-> 1] /\ sweeps = 0 /\ refusals = 0

Working(s, pc) == worker[s].pc = pc
Onward(s) == [worker[s] EXCEPT !.pc = "open", !.at = Shared, !.purged = FALSE]
Ends(s) == worker' = [worker EXCEPT ![s] = Resting]
There == {c \in Collections : chroma[c].up}

\* get_or_create_collection.
GetOrCreate(s, c) == [chroma EXCEPT ![c].up = TRUE, ![c].open = @ \union {s}]
Opened(s) == s \in chroma[worker[s].at].open
Closed(s) == [chroma EXCEPT ![worker[s].at].open = @ \ {s}]
Dropped(c) == [chroma EXCEPT ![c] = Absent]

-----------------------------------------------------------------------------
(* A build, as far as it touches Chroma.                                   *)

BuildOpens(s) ==
    /\ Working(s, "rest") /\ builds[s] < MaxGenerations
    /\ LET c == <<s, builds[s] + 1>>
       IN /\ chroma' = GetOrCreate(s, c)
          /\ worker' = [worker EXCEPT ![s] = [Resting EXCEPT !.pc = "store", !.at = c]]
    /\ builds' = [builds EXCEPT ![s] = @ + 1]
    /\ UNCHANGED <<disk, current, sweeps, refusals>>
BuildStores(s) ==
    /\ Working(s, "store") /\ Opened(s)
    /\ chroma' = [Closed(s) EXCEPT ![worker[s].at].records = @ \union {s}]
    /\ worker' = [worker EXCEPT ![s] = [Resting EXCEPT !.pc = "save"]]
    /\ UNCHANGED <<disk, current, builds, sweeps, refusals>>
BuildFails(s) ==
    /\ Working(s, "store") \/ Working(s, "save")
    /\ chroma' = Dropped(<<s, builds[s]>>) /\ Ends(s)
    /\ UNCHANGED <<disk, current, builds, sweeps, refusals>>
BuildSaves(s) ==
    /\ Working(s, "save")
    /\ disk' = [disk EXCEPT ![s] = @ \union {builds[s]}]
    /\ current' = [current EXCEPT ![s] = builds[s]]
    /\ worker' = [worker EXCEPT ![s].pc = "clean"]
    /\ UNCHANGED <<chroma, builds, sweeps, refusals>>

\* Generations before the previous one, and collections of the slug without a
\* generation; not those within the grace time.
Garbage(s) == {<<s, g>> : g \in 1..MaxGenerations} \ ({<<s, current[s]>>} \union
                  {<<s, g>> : g \in {h \in disk[s] : \A k \in disk[s] : k <= h \/ k = current[s]}})
CleanUp(s) ==
    /\ Working(s, "clean")
    /\ \/ \E c \in Garbage(s) \intersect There :
             /\ chroma' = Dropped(c) /\ disk' = [disk EXCEPT ![s] = @ \ {c[2]}]
             /\ UNCHANGED worker
       \/ Ends(s) /\ UNCHANGED <<chroma, disk>>
    /\ UNCHANGED <<current, builds, sweeps, refusals>>

-----------------------------------------------------------------------------
(* delete(slug).                                                           *)

Refusal == refusals < MaxRefusals /\ refusals' = refusals + 1

ListNames(s) ==
    /\ Working(s, "rest") /\ sweeps < MaxSweeps /\ sweeps' = sweeps + 1
    /\ \/ /\ worker' = [worker EXCEPT ![s] = [Resting EXCEPT !.pc = "open", !.todo = There,
                                                   !.own = {<<s, g>> : g \in disk[s]}]]
          /\ UNCHANGED refusals
       \/ Ends(s) /\ Refusal
    /\ UNCHANGED <<chroma, disk, current, builds>>
OpenNext(s, c) ==
    /\ Working(s, "open") /\ c \in worker[s].todo
    /\ chroma' = GetOrCreate(s, c)
    /\ worker' = [worker EXCEPT ![s].pc = "purge", ![s].at = c, ![s].todo = @ \ {c}]
    /\ UNCHANGED <<disk, current, builds, sweeps, refusals>>
DeleteBySlug(s) ==
    /\ Working(s, "purge") /\ Opened(s)
    /\ chroma' = [chroma EXCEPT ![worker[s].at].records = @ \ {s}]
    /\ worker' = [worker EXCEPT ![s].pc = "count", ![s].purged = s \in chroma[worker[s].at].records]
    /\ UNCHANGED <<disk, current, builds, sweeps, refusals>>

CountAndGo(s, drop) ==
    /\ Working(s, "count") /\ Opened(s)
    /\ chroma' = Closed(s)
    /\ worker' = [worker EXCEPT ![s] = IF drop THEN [@ EXCEPT !.pc = "drop"] ELSE Onward(s)]
    /\ UNCHANGED <<disk, current, builds, sweeps, refusals>>
\* Mutant: what is empty is dropped, whoever emptied or has just made it.
CountEmpty(s) ==
    CountAndGo(s, worker[s].at \in worker[s].own \/ chroma[worker[s].at].records = {})
Count(s) ==
    CountAndGo(s, \/ worker[s].at \in worker[s].own
                  \/ worker[s].purged /\ chroma[worker[s].at].records = {})
\* By name, not by what was opened.
DropStrict(s) ==
    /\ Working(s, "drop") /\ chroma[worker[s].at].up
    /\ chroma' = Dropped(worker[s].at)
    /\ worker' = [worker EXCEPT ![s] = [Onward(s) EXCEPT !.dropped = @ \union {worker[s].at}]]
    /\ UNCHANGED <<disk, current, builds, sweeps, refusals>>
\* What was opened or is to be dropped is gone, or Chroma refuses.
CollectionFails(s) ==
    /\ \E pc \in {"purge", "count", "drop"} : Working(s, pc)
    /\ \/ Refusal
       \/ /\ IF Working(s, "drop") THEN ~chroma[worker[s].at].up ELSE ~Opened(s)
          /\ UNCHANGED refusals
    /\ chroma' = Closed(s)
    /\ worker' = [worker EXCEPT ![s] = [Onward(s) EXCEPT !.failed = TRUE]]
    /\ UNCHANGED <<disk, current, builds, sweeps>>
Succeeds(s) == ~worker[s].failed /\ worker[s].dropped \intersect There = {}
Verify(s) ==
    /\ Working(s, "open") /\ worker[s].todo = {}
    /\ Ends(s)
    /\ IF Succeeds(s)
       THEN disk' = [disk EXCEPT ![s] = {}] /\ current' = [current EXCEPT ![s] = 0]
       ELSE UNCHANGED <<disk, current>>
    /\ UNCHANGED <<chroma, builds, sweeps, refusals>>

SweepNext ==
    \E s \in Repositories :
        \/ BuildOpens(s) \/ BuildStores(s) \/ BuildFails(s) \/ BuildSaves(s) \/ CleanUp(s)
        \/ ListNames(s) \/ (\E c \in Collections : OpenNext(s, c)) \/ DeleteBySlug(s)
        \/ Count(s) \/ DropStrict(s) \/ CollectionFails(s) \/ Verify(s)

-----------------------------------------------------------------------------
(* A delete that reports success has left no record of its slug in any     *)
(* collection; a collection of another slug is dropped by that slug alone, *)
(* so the one of its pointer stays, and the shared one goes when it is     *)
(* empty.                                                                  *)
DeletesAreExact ==
    [][/\ \A s \in Repositories : Verify(s) /\ Succeeds(s) =>
              \A c \in Collections : s \notin chroma'[c].records
       /\ \A c \in There : ~chroma'[c].up =>
              IF c = Shared THEN chroma[c].records = {}
              ELSE worker'[c[1]] # worker[c[1]] \/ Working(c[1], "clean")]_SweepVars

(* At rest every collection belongs to a generation.                       *)
NoneIsLeft ==
    (\A s \in Repositories : Working(s, "rest")) =>
        \A c \in There \ {Shared} : c[2] \in disk[c[1]]

(* A delete fails only when Chroma refuses something.                      *)
OnlyRefusalsFail == (\E s \in Repositories : worker[s].failed) => refusals > 0
=============================================================================
