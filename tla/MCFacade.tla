------------------------------ MODULE MCFacade ------------------------------
(***************************************************************************)
(* What the facade does to several repositories at once, without their     *)
(* locks: cached searches over them, and deletes that go through all       *)
(* collections.  Each behaviour is of one of the two; the variables of the *)
(* other stay as they are.                                                 *)
(***************************************************************************)
EXTENDS SearchCache, CollectionSweep, TLC

VARIABLE call  \* the one that is looked at

vars == <<call, CacheVars, SweepVars>>

CacheIdle == /\ pub = [s \in Slugs |-> NoIndex] /\ legacy = [s \in Slugs |-> FALSE] /\ home = legacy
             /\ last = [s \in Slugs |-> 0] /\ job = [s \in Slugs |-> "idle"]
             /\ cache = {} /\ req = [r \in Requests |-> Idle]
SweepIdle == /\ chroma = [c \in Collections |-> Absent] /\ disk = [s \in Repositories |-> {}]
             /\ current = [s \in Repositories |-> 0] /\ worker = [s \in Repositories |-> Resting]
             /\ builds = [s \in Repositories |-> 0] /\ sweeps = 0 /\ refusals = 0

Init ==
    \/ call = "search" /\ CacheInit /\ SweepIdle
    \/ call = "delete" /\ CacheIdle /\ SweepInit

Next ==
    \/ call = "search" /\ CacheNext /\ UNCHANGED <<call, SweepVars>>
    \/ call = "delete" /\ SweepNext /\ UNCHANGED <<call, CacheVars>>

Spec == Init /\ [][Next]_vars

-----------------------------------------------------------------------------
Symmetry == Permutations(Requests) \union Permutations(Slugs) \union Permutations(Repositories)
=============================================================================
