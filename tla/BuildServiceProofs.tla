------------------------- MODULE BuildServiceProofs -------------------------
(***************************************************************************)
(* Proofs about BuildService, for all repositories, deletes, threads and   *)
(* bounds: the type invariant, then the inductive invariant IInv and what  *)
(* follows from it.                                                        *)
(*                                                                         *)
(* The heart is that the in-flight set is exact.  Every other agreement    *)
(* leans on it: a POST that finds its slug idle creates the only build of  *)
(* that slug, so the job it registers replaces none that a task still      *)
(* needs, and a DELETE that finds it idle is older than every build it     *)
(* meets.  Threads and locks come in only through CallInv and LockInv.     *)
(***************************************************************************)
EXTENDS BuildService, TLAPS, FiniteSetTheorems

\* There are finitely many repositories to list.
LEMMA Counted == Cardinality(Listed) \in 0..Cardinality(Slugs)
  <1>1. Listed \subseteq Slugs
    BY DEF Listed
  <1> QED
    BY <1>1, FS_Subset, FS_CardinalityType, ServiceAssumption

\* No more builds are accepted than there are numbers for.
LEMMA AcceptedCount == Cardinality(Accepted) \in Builds \cup {NoBuild}
  <1>1. /\ Accepted \subseteq 1..MaxBuilds
        /\ IsFiniteSet(1..MaxBuilds)
        /\ Cardinality(1..MaxBuilds) = MaxBuilds
    BY FS_Interval, ServiceAssumption DEF Accepted, Builds
  <1>2. IsFiniteSet(Accepted) /\ Cardinality(Accepted) <= MaxBuilds
    BY <1>1, FS_Subset
  <1>3. Cardinality(Accepted) \in Nat
    BY <1>2, FS_CardinalityType
  <1> QED
    BY <1>2, <1>3, ServiceAssumption DEF Builds, NoBuild

-----------------------------------------------------------------------------
(* The type invariant *)

LEMMA PostTypes ==
    ASSUME TypeOK,
           Posting \/ (\E s \in Slugs : PostKnown(s) \/ PostNew(s)) \/ Poll
    PROVE  TypeOK'
  <1> USE ServiceAssumption DEF TypeOK, NoPost, deletes, sweep
  <1>a. ASSUME NEW s \in Slugs, Admit(s)
        PROVE  /\ entry' \in [Slugs -> Builds \cup {NoBuild}]
               /\ inFlight' \subseteq Slugs
               /\ status' \in [Builds -> {"none", "queued", "running"} \cup Terminal]
               /\ slugOf' \in [Builds -> Slugs \cup {NoSlug}]
               /\ task' \in [Builds -> {"none", "created", "clearing", "calling",
                                        "closing", "done"}]
    BY <1>a DEF Admit, Evicted, Evictable
  <1>1. CASE PostCounts
    <2>a. post \in [slug : Slugs, step : {"count", "decide"}, count : 0..Cardinality(Slugs)]
      BY <1>1 DEF PostCounts
    <2>1. /\ post.slug \in Slugs
          /\ post' = [slug |-> post.slug, step |-> "decide", count |-> Cardinality(Listed)]
      BY <1>1, <2>a DEF PostCounts
    <2>2. post' \in [slug : Slugs, step : {"count", "decide"}, count : 0..Cardinality(Slugs)]
      BY <2>1, Counted
    <2> QED
      BY <1>1, <2>2 DEF PostCounts
  <1>2. CASE PostAccepts
    <2>1. post.slug \in Slugs
      BY <1>2 DEF PostAccepts
    <2> QED
      BY <1>2, <2>1, <1>a DEF PostAccepts
  <1>3. CASE PostRefuses
    BY <1>3 DEF PostRefuses
  <1>4. ASSUME NEW s \in Slugs, PostKnown(s) PROVE TypeOK'
    BY <1>4, <1>a DEF PostKnown
  <1>5. ASSUME NEW s \in Slugs, PostNew(s) PROVE TypeOK'
    BY <1>5, FS_CardinalityType DEF PostNew
  <1>6. CASE Poll
    BY <1>6 DEF Poll, Evicted
  <1> QED
    BY <1>1, <1>2, <1>3, <1>4, <1>5, <1>6 DEF Posting

LEMMA TaskTypes ==
    ASSUME TypeOK, NEW b \in Builds, Task(b)
    PROVE  TypeOK'
  <1> USE ServiceAssumption DEF TypeOK, Terminal, Fails, Fault, deletes, sweep
  <1>1. CASE TaskStarts(b)
    BY <1>1 DEF TaskStarts
  <1>2. CASE TaskCalls(b)
    BY <1>2 DEF TaskCalls
  <1>3. CASE InvalidationFails(b)
    BY <1>3 DEF InvalidationFails
  <1>4. CASE TaskFails(b)
    BY <1>4 DEF TaskFails
  <1>5. CASE TaskSucceeds(b)
    BY <1>5 DEF TaskSucceeds
  <1>6. CASE TaskEnds(b)
    BY <1>6 DEF TaskEnds
  <1> QED
    BY <1>1, <1>2, <1>3, <1>4, <1>5, <1>6 DEF Task

LEMMA ThreadTypes ==
    ASSUME TypeOK, NEW b \in Builds, Thread(b)
    PROVE  TypeOK'
  <1> USE DEF TypeOK, Calls, Take, Release, jobs, deletes, sweep
  <1>1. CASE BuildRuns(b)
    BY <1>1 DEF BuildRuns
  <1>2. CASE BuildLocks(b)
    BY <1>2 DEF BuildLocks, Holders
  <1>3. CASE BuildPublishes(b)
    BY <1>3 DEF BuildPublishes
  <1>4. CASE BuildReturns(b)
    BY <1>4 DEF BuildReturns
  <1>5. CASE BuildRaises(b)
    <2>1. PICK staged \in {{}, {"generations"}} :
             disk' = [disk EXCEPT ![slugOf[b]] = @ \cup staged]
      BY <1>5 DEF BuildRaises
    <2>2. disk' \in [Slugs -> SUBSET {"pointer", "current", "generations"}]
      BY <2>1
    <2> QED
      BY <1>5, <2>2 DEF BuildRaises
  <1> QED
    BY <1>1, <1>2, <1>3, <1>4, <1>5 DEF Thread

LEMMA DeleteTypes ==
    ASSUME TypeOK, NEW d \in Deleters,
           Deletion(d) \/ \E s \in Slugs : DeleteAccepted(d, s)
    PROVE  TypeOK'
  <1> USE ServiceAssumption DEF TypeOK, Deletes, DeleteEnds, Take, Release, Fault,
                                 jobs, sweep
  <1>1. CASE DeleteRuns(d)
    BY <1>1 DEF DeleteRuns
  <1>2. CASE DeleteLocks(d)
    BY <1>2 DEF DeleteLocks, Holders
  <1>3. CASE DeletePurges(d)
    BY <1>3 DEF DeletePurges
  <1>4. CASE PurgeFails(d)
    <2>1. faults' \in 0..MaxFaults
      BY <1>4 DEF PurgeFails
    <2> QED
      BY <1>4, <2>1 DEF PurgeFails
  <1>5. CASE Wipes(d)
    <2>1. PICK part \in disk[target[d]] :
             disk' = [disk EXCEPT ![target[d]] = @ \ {part}]
      BY <1>5 DEF Wipes
    <2>2. disk' \in [Slugs -> SUBSET {"pointer", "current", "generations"}]
      BY <2>1
    <2> QED
      BY <1>5, <2>2 DEF Wipes, deletes
  <1>6. CASE WipeEnds(d)
    BY <1>6 DEF WipeEnds
  <1>7. CASE WipeGivesUp(d)
    <2>1. faults' \in 0..MaxFaults
      BY <1>7 DEF WipeGivesUp
    <2> QED
      BY <1>7, <2>1 DEF WipeGivesUp
  <1>8. ASSUME NEW s \in Slugs, DeleteAccepted(d, s)
        PROVE  TypeOK'
    <2>1. Cardinality(Accepted) \in Builds \cup {NoBuild}
      BY AcceptedCount
    <2> QED
      BY <1>8, <2>1 DEF DeleteAccepted
  <1> QED
    BY <1>1, <1>2, <1>3, <1>4, <1>5, <1>6, <1>7, <1>8 DEF Deletion

LEMMA RecoveryTypes ==
    ASSUME TypeOK, RecoveryWakes \/ Recovers
    PROVE  TypeOK'
  <1> USE DEF TypeOK, Take, Release, jobs, deletes
  <1>1. CASE RecoveryWakes
    BY <1>1 DEF RecoveryWakes
  <1>2. CASE RecoveryRuns
    BY <1>2 DEF RecoveryRuns
  <1>3. CASE RecoveryScans
    BY <1>3 DEF RecoveryScans
  <1>4. CASE RecoveryLocks
    BY <1>4 DEF RecoveryLocks, Holders
  <1>5. CASE RecoveryCleans
    BY <1>5 DEF RecoveryCleans
  <1>6. CASE RecoveryEnds
    BY <1>6 DEF RecoveryEnds
  <1>7. ASSUME NEW s \in Slugs, RecoveryVisits(s)
        PROVE  TypeOK'
    BY <1>7 DEF RecoveryVisits
  <1> QED
    BY <1>1, <1>2, <1>3, <1>4, <1>5, <1>6, <1>7 DEF Recovers

LEMMA CrashTypes ==
    ASSUME TypeOK, Crash
    PROVE  TypeOK'
  <1>1. faults' \in 0..MaxFaults
    BY ServiceAssumption DEF TypeOK, Crash, Fault
  <1>2. task' \in [Builds -> {"none", "created", "clearing", "calling", "closing",
                              "done"}]
    BY DEF Crash
  <1>3. flock' \in [Slugs -> Holders \cup {NoHolder}]
    BY DEF Crash, LocksAfterCrash
  <1> QED
    BY <1>1, <1>2, <1>3 DEF TypeOK, Crash

\* Every variable of the service keeps its type.
LEMMA TypeStep ==
    ASSUME TypeOK, [Next]_vars
    PROVE  TypeOK'
  <1>1. CASE UNCHANGED vars
    BY <1>1 DEF vars, jobs, deletes, sweep, TypeOK
  <1>2. CASE Next
    BY <1>2, PostTypes, TaskTypes, ThreadTypes, DeleteTypes, RecoveryTypes, CrashTypes
       DEF Next
  <1> QED
    BY <1>1, <1>2

LEMMA InitTypes == Init => TypeOK
  <1> SUFFICES ASSUME Init PROVE TypeOK
    OBVIOUS
  <1>1. faults \in 0..MaxFaults
    BY ServiceAssumption DEF Init
  <1>2. status \in [Builds -> {"none", "queued", "running"} \cup Terminal]
    BY DEF Init
  <1> QED
    BY <1>1, <1>2 DEF Init, TypeOK

THEOREM TypeCorrect == Spec => []TypeOK
  <1>1. TypeOK /\ [Next]_vars => TypeOK'
    BY TypeStep
  <1> QED
    BY <1>1, InitTypes, PTL DEF Spec

-----------------------------------------------------------------------------
(* The inductive invariant *)

\* What the loop keeps among its own data.
JobsAgree ==
    /\ AcceptedInv /\ EntryInv
    /\ OneBuildPerSlug /\ SentinelIsExact /\ JobOfRunningBuild

\* A step that leaves the loop's data alone keeps them in agreement.
LEMMA JobsStay ==
    ASSUME IInv, UNCHANGED jobs
    PROVE  JobsAgree' /\ Accepted' = Accepted /\ Live' = Live
  <1>1. Accepted' = Accepted /\ Live' = Live
    BY DEF jobs, Accepted, Live
  <1>2. AcceptedInv'
    BY <1>1 DEF IInv, AcceptedInv, jobs
  <1>3. EntryInv'
    BY <1>1 DEF IInv, EntryInv, jobs
  <1>4. OneBuildPerSlug' /\ SentinelIsExact'
    BY <1>1 DEF IInv, OneBuildPerSlug, SentinelIsExact, jobs
  <1>5. JobOfRunningBuild'
    BY <1>1 DEF IInv, JobOfRunningBuild, jobs
  <1> QED
    BY <1>1, <1>2, <1>3, <1>4, <1>5 DEF JobsAgree

\* Lock holders of different kinds are different.
LEMMA KindsDiffer ==
    /\ NoHolder \notin Builds \cup Deleters \cup {Recovery}
    /\ Recovery \notin Builds \cup Deleters
    /\ \A b \in Builds, d \in Deleters : b # d
  BY HoldersAssumption

-----------------------------------------------------------------------------
(* Recovery *)

LEMMA RecoveryStep ==
    ASSUME IInv, RecoveryWakes \/ Recovers
    PROVE  IInv'
  <1>1. UNCHANGED <<jobs, call, deletes>>
    BY DEF RecoveryWakes, Recovers, RecoveryRuns, RecoveryScans, RecoveryLocks,
           RecoveryCleans, RecoveryEnds, RecoveryVisits
  <1>2. JobsAgree' /\ Accepted' = Accepted /\ Live' = Live
    BY <1>1, JobsStay
  <1>3. TypeOK'
    BY RecoveryTypes DEF IInv
  <1>4. CallInv'
    BY <1>1 DEF IInv, CallInv, jobs
  <1>5. DeletesSeeNoOlderBuild'
    BY <1>1, <1>2 DEF IInv, DeletesSeeNoOlderBuild, jobs, deletes
  <1>6. UNCHANGED disk /\ (serving => serving')
    BY DEF RecoveryWakes, Recovers, RecoveryRuns, RecoveryScans, RecoveryLocks,
           RecoveryCleans, RecoveryEnds, RecoveryVisits
  <1>7. PostInv'
    BY <1>1, <1>2, <1>6 DEF IInv, PostInv, jobs, NoPost
  <1>8. TargetInv'
    <2>0. ASSUME NEW s \in Slugs, RecoveryVisits(s)
          PROVE  recover' \in {"scan", "lock", "clean"} => visiting' \in Slugs
      <3>1. CASE disk[s] = {}
        <4>1. s \notin Listed /\ "generations" \notin disk[s]
          BY <3>1 DEF Listed
        <4> QED
          BY <2>0, <3>1, <4>1 DEF RecoveryVisits
      <3>2. CASE disk[s] # {}
        BY <2>0, <3>2 DEF RecoveryVisits
      <3> QED
        BY <3>1, <3>2
    <2>1. recover' \in {"scan", "lock", "clean"} => visiting' \in Slugs
      BY <2>0 DEF IInv, TargetInv, RecoveryWakes, Recovers, RecoveryRuns, RecoveryScans,
                  RecoveryLocks, RecoveryCleans, RecoveryEnds
    <2> QED
      BY <1>1, <1>2, <2>1 DEF IInv, TargetInv, deletes
  <1>9. StartInv'
    <2>1. ASSUME ~serving'
          PROVE  recover' \notin {"asleep", "dead"}
      BY <1>6, <2>1 DEF IInv, StartInv, TargetInv, RecoveryWakes, Recovers, RecoveryRuns,
             RecoveryScans, RecoveryLocks, RecoveryCleans, RecoveryEnds, RecoveryVisits
    <2>2. ASSUME ~serving', recover' = "scan"
          PROVE  "generations" \in disk'[visiting']
      BY <1>6, <2>2 DEF IInv, StartInv, RecoveryWakes, Recovers, RecoveryRuns,
             RecoveryScans, RecoveryLocks, RecoveryCleans, RecoveryEnds, RecoveryVisits
    <2> QED
      BY <1>1, <1>2, <1>6, <2>1, <2>2 DEF IInv, StartInv, deletes
  <1>10. LockInv'
    <2> USE KindsDiffer DEF LockInv, jobs, deletes
    <2>0. LockInv /\ TypeOK /\ TargetInv
      BY DEF IInv
    <2>1. CASE RecoveryLocks
      BY <2>0, <2>1, <1>1 DEF RecoveryLocks, Take, TypeOK, TargetInv
    <2>2. CASE RecoveryCleans
      BY <2>0, <2>2, <1>1 DEF RecoveryCleans, Release, TypeOK, TargetInv
    <2>3. CASE ~RecoveryLocks /\ ~RecoveryCleans
      <3>1. UNCHANGED flock /\ recover' # "clean" /\ recover # "clean"
        BY <2>3 DEF RecoveryWakes, Recovers, RecoveryRuns, RecoveryScans,
                    RecoveryEnds, RecoveryVisits
      <3> QED
        BY <2>0, <3>1, <1>1
    <2> QED
      BY <2>1, <2>2, <2>3
  <1> QED
    BY <1>2, <1>3, <1>4, <1>5, <1>7, <1>8, <1>9, <1>10 DEF IInv, JobsAgree

-----------------------------------------------------------------------------
(* Deletes *)

LEMMA DeleteStep ==
    ASSUME IInv, NEW d \in Deleters,
           Deletion(d) \/ \E s \in Slugs : DeleteAccepted(d, s)
    PROVE  IInv'
  <1>0. TypeOK /\ LockInv /\ TargetInv /\ StartInv /\ PostInv /\ CallInv /\ AcceptedInv
        /\ SentinelIsExact /\ DeletesSeeNoOlderBuild
    BY DEF IInv
  <1>1. UNCHANGED <<jobs, call, sweep, serving>>
    BY DEF Deletion, DeleteAccepted, DeleteRuns, DeleteLocks, DeletePurges, PurgeFails,
           Wipes, WipeEnds, WipeGivesUp
  <1>2. JobsAgree' /\ Accepted' = Accepted /\ Live' = Live
    BY <1>1, JobsStay
  <1>3. TypeOK'
    BY DeleteTypes DEF IInv
  <1>4. CallInv'
    BY <1>0, <1>1 DEF CallInv, jobs
  <1>5. PostInv'
    BY <1>0, <1>1, <1>2 DEF PostInv, jobs, NoPost
  <1>6. serving
    <2>1. deleting[d] # "none" \/ \E s \in Slugs : DeleteAccepted(d, s)
      BY DEF Deletion, DeleteRuns, DeleteLocks, DeletePurges, PurgeFails, Wipes, WipeEnds,
             WipeGivesUp, Deletes, DeleteEnds
    <2> QED
      BY <1>0, <2>1 DEF StartInv, DeleteAccepted
  <1>7. StartInv'
    BY <1>1, <1>6 DEF StartInv
  <1>8. CASE \E s \in Slugs : DeleteAccepted(d, s)
    <2>1. PICK s \in Slugs : DeleteAccepted(d, s)
      BY <1>8
    <2>2. PICK n \in 0..MaxBuilds : Accepted = 1..n
      BY <1>0 DEF AcceptedInv
    <2>3. Cardinality(Accepted) = n /\ n \in Accepted \cup {NoBuild}
      BY <2>2, FS_Interval, ServiceAssumption DEF NoBuild
    <2>4. TargetInv'
      BY <1>0, <1>1, <1>2, <2>1, <2>3 DEF TargetInv, TypeOK, DeleteAccepted, sweep
    <2>5. LockInv'
      BY <1>0, <1>1, <2>1 DEF LockInv, TypeOK, DeleteAccepted, sweep, jobs
    <2>6. \A b \in Live : slugOf[b] # s
      BY <1>0, <2>1 DEF SentinelIsExact, DeleteAccepted, Idle
    <2>7. DeletesSeeNoOlderBuild'
      BY <1>0, <1>1, <1>2, <2>1, <2>6 DEF DeletesSeeNoOlderBuild, TypeOK, DeleteAccepted, jobs
    <2> QED
      BY <1>2, <1>3, <1>4, <1>5, <1>7, <2>4, <2>5, <2>7 DEF IInv, JobsAgree
  <1>9. ASSUME Deletion(d)
        PROVE  /\ deleting[d] # "none"
               /\ \A c \in Deleters : c # d =>
                     UNCHANGED <<deleting[c], target[c], since[c]>>
               /\ deleting'[d] # "none" => UNCHANGED <<target[d], since[d]>>
               /\ since'[d] \in {since[d], NoBuild}
    BY <1>0, <1>9 DEF TypeOK, Deletion, DeleteRuns, DeleteLocks, DeletePurges, PurgeFails,
           Wipes, WipeEnds, WipeGivesUp, Deletes, DeleteEnds, deletes
  <1>10. CASE Deletion(d)
    <2>1. TargetInv'
      BY <1>0, <1>1, <1>2, <1>9, <1>10 DEF TargetInv, sweep
    <2>2. DeletesSeeNoOlderBuild'
      BY <1>0, <1>1, <1>2, <1>9, <1>10 DEF DeletesSeeNoOlderBuild, jobs
    <2>3. target[d] \in Slugs
      BY <1>0, <1>9, <1>10 DEF TargetInv
    <2>4. LockInv'
      <3> USE KindsDiffer DEF LockInv, TypeOK, jobs, sweep
      <3>1. CASE DeleteLocks(d)
        BY <1>0, <1>1, <2>3, <3>1 DEF DeleteLocks, Deletes, Take
      <3>2. CASE PurgeFails(d) \/ WipeEnds(d) \/ WipeGivesUp(d)
        <4>1. DeleteEnds(d, deleting[d]) /\ deleting[d] \in {"purging", "wiping"}
          BY <3>2 DEF PurgeFails, WipeEnds, WipeGivesUp, DeleteEnds
        <4> QED
          BY <1>0, <1>1, <2>3, <4>1 DEF DeleteEnds, Release
      <3>3. CASE DeleteRuns(d) \/ DeletePurges(d) \/ Wipes(d)
        BY <1>0, <1>1, <3>3 DEF DeleteRuns, DeletePurges, Wipes, Deletes, deletes
      <3> QED
        BY <3>1, <3>2, <3>3, <1>10 DEF Deletion
    <2> QED
      BY <1>2, <1>3, <1>4, <1>5, <1>7, <2>1, <2>2, <2>4 DEF IInv, JobsAgree
  <1> QED
    BY <1>8, <1>10

-----------------------------------------------------------------------------
(* Threads of builds *)

LEMMA ThreadStep ==
    ASSUME IInv, NEW b \in Builds, Thread(b)
    PROVE  IInv'
  <1>0. TypeOK /\ LockInv /\ TargetInv /\ StartInv /\ PostInv /\ CallInv /\ AcceptedInv
        /\ DeletesSeeNoOlderBuild
    BY DEF IInv
  <1>1. UNCHANGED <<jobs, deletes, sweep, serving>>
    BY DEF Thread, BuildRuns, BuildLocks, BuildPublishes, BuildReturns, BuildRaises
  <1>2. JobsAgree' /\ Accepted' = Accepted /\ Live' = Live
    BY <1>1, JobsStay
  <1>3. TypeOK'
    BY ThreadTypes DEF IInv
  <1>4. /\ call[b] \in {"queued", "running", "locked", "published"}
        /\ \A c \in Builds : c # b => call'[c] = call[c]
        /\ call'[b] # "none"
    BY <1>0 DEF TypeOK, Thread, BuildRuns, BuildLocks, BuildPublishes, BuildReturns,
           BuildRaises, Calls
  <1>5. task[b] = "calling"
    BY <1>0, <1>4 DEF CallInv
  <1>6. b \in Live /\ b \in Accepted /\ slugOf[b] \in Slugs
    BY <1>0, <1>5 DEF Live, Accepted, AcceptedInv
  <1>7. serving
    BY <1>0, <1>6 DEF StartInv
  <1>8. CallInv'
    BY <1>0, <1>1, <1>4, <1>5 DEF CallInv, jobs
  <1>9. PostInv'
    BY <1>0, <1>1, <1>2 DEF PostInv, jobs, NoPost
  <1>10. StartInv'
    BY <1>1, <1>7 DEF StartInv
  <1>11. TargetInv' /\ DeletesSeeNoOlderBuild'
    BY <1>0, <1>1, <1>2 DEF TargetInv, DeletesSeeNoOlderBuild, jobs, deletes, sweep
  <1>12. LockInv'
    <2> USE KindsDiffer DEF LockInv, TypeOK, jobs, sweep, deletes
    <2>1. CASE BuildRuns(b)
      BY <1>0, <1>1, <2>1 DEF BuildRuns, Calls
    <2>2. CASE BuildPublishes(b)
      BY <1>0, <1>1, <2>2 DEF BuildPublishes, Calls
    <2>3. CASE BuildLocks(b)
      BY <1>0, <1>1, <1>6, <2>3 DEF BuildLocks, Calls, Take
    <2>4. CASE BuildReturns(b) \/ BuildRaises(b)
      <3>1. /\ call[b] \in {"locked", "published"}
            /\ call' \in {[call EXCEPT ![b] = "ok"], [call EXCEPT ![b] = "failed"]}
            /\ Release(slugOf[b])
        BY <2>4 DEF BuildReturns, BuildRaises, Calls
      <3> QED
        BY <1>0, <1>1, <1>6, <3>1 DEF Release
    <2> QED
      BY <2>1, <2>2, <2>3, <2>4 DEF Thread
  <1> QED
    BY <1>2, <1>3, <1>8, <1>9, <1>10, <1>11, <1>12 DEF IInv, JobsAgree

-----------------------------------------------------------------------------
(* Tasks of builds *)

\* A step of a task either goes on with the build or ends it.
LEMMA TaskEffect ==
    ASSUME IInv, NEW b \in Builds, Task(b)
    PROVE  /\ b \in Live /\ post = NoPost
           /\ UNCHANGED <<post, entry, slugOf, flock, deletes, sweep, disk, serving>>
           /\ \A c \in Builds : c # b => UNCHANGED <<task[c], status[c], call[c]>>
           /\ \/ /\ task'[b] \in {"clearing", "calling", "closing"} /\ inFlight' = inFlight
                 /\ task'[b] = "closing" <=> status'[b] = "succeeded"
                 /\ task'[b] # "closing" <=> status'[b] = "running"
                 /\ task'[b] = "clearing" => call'[b] = "none"
                 /\ task'[b] = "calling" => call'[b] = "queued"
                 /\ task'[b] = "closing" => call'[b] = "ok"
                 /\ task[b] # "closing"
              \/ /\ task'[b] = "done" /\ inFlight' = inFlight \ {slugOf[b]}
                 /\ call'[b] = call[b]
           /\ call[b] \in {"none", "ok", "failed"}
           /\ call'[b] \in {"none", "queued", "ok", "failed"}
           /\ status[b] \in Terminal => status'[b] = status[b]
  <1>0. TypeOK /\ CallInv /\ AcceptedInv /\ JobOfRunningBuild
    BY DEF IInv
  <1>1. b \in Live
    BY DEF Live, Task, TaskStarts, TaskCalls, InvalidationFails, TaskFails, TaskSucceeds,
           TaskEnds
  <1>2. /\ post = NoPost
        /\ UNCHANGED <<post, entry, slugOf, flock, deletes, sweep, disk, serving>>
    BY DEF Task, TaskStarts, TaskCalls, InvalidationFails, TaskFails, TaskSucceeds,
           TaskEnds, LoopFree
  <1> USE <1>0, <1>1, <1>2, ServiceAssumption DEF TypeOK, Terminal
  <1>3. CASE TaskStarts(b)
    <2>1. slugOf[b] \in Slugs /\ entry[slugOf[b]] = b /\ b # NoBuild
      BY <1>3 DEF TaskStarts, AcceptedInv, Accepted, JobOfRunningBuild, Builds, NoBuild
    <2>2. /\ task' = [task EXCEPT ![b] = "clearing"] /\ status' = [status EXCEPT ![b] = "running"]
          /\ UNCHANGED <<inFlight, call>>
      BY <1>3, <2>1 DEF TaskStarts
    <2>3. call[b] = "none" /\ status[b] = "queued"
      BY <1>3 DEF TaskStarts, CallInv, JobOfRunningBuild
    <2>4. /\ task'[b] = "clearing" /\ status'[b] = "running" /\ call'[b] = "none"
          /\ task[b] = "created" /\ inFlight' = inFlight
          /\ \A c \in Builds : c # b => UNCHANGED <<task[c], status[c], call[c]>>
      BY <1>3, <2>2, <2>3 DEF TaskStarts
    <2> QED
      BY <2>3, <2>4
  <1>4. CASE TaskCalls(b)
    BY <1>4 DEF TaskCalls, CallInv, JobOfRunningBuild
  <1>5. CASE TaskSucceeds(b)
    BY <1>5 DEF TaskSucceeds, CallInv, JobOfRunningBuild
  <1>6. CASE InvalidationFails(b)
    BY <1>6 DEF InvalidationFails, Fails, CallInv, JobOfRunningBuild
  <1>7. CASE TaskFails(b)
    BY <1>7 DEF TaskFails, Fails, CallInv, JobOfRunningBuild
  <1>8. CASE TaskEnds(b)
    BY <1>8 DEF TaskEnds, CallInv
  <1> QED
    BY <1>3, <1>4, <1>5, <1>6, <1>7, <1>8 DEF Task

LEMMA TaskStep ==
    ASSUME IInv, NEW b \in Builds, Task(b)
    PROVE  IInv'
  <1>0. /\ TypeOK /\ LockInv /\ TargetInv /\ StartInv /\ PostInv /\ CallInv /\ AcceptedInv
        /\ EntryInv /\ OneBuildPerSlug /\ SentinelIsExact /\ JobOfRunningBuild
        /\ DeletesSeeNoOlderBuild
    BY DEF IInv
  <1>1. TypeOK'
    BY <1>0, TaskTypes
  <1>2. /\ b \in Live /\ post = NoPost
        /\ UNCHANGED <<post, entry, slugOf, flock, deletes, sweep, disk, serving>>
        /\ \A c \in Builds : c # b => UNCHANGED <<task[c], status[c], call[c]>>
    BY TaskEffect
  <1>3. Accepted' = Accepted
    BY <1>2, TaskEffect DEF Accepted, Live
  <1>4. Live' \subseteq Live
    BY <1>2, TaskEffect DEF Live
  <1>5. AcceptedInv' /\ EntryInv' /\ OneBuildPerSlug'
    BY <1>0, <1>2, <1>3, <1>4 DEF AcceptedInv, EntryInv, OneBuildPerSlug, Live, Accepted
  <1>6. SentinelIsExact'
    <2>1. CASE task'[b] \in {"clearing", "calling", "closing"} /\ inFlight' = inFlight
      <3>1. Live' = Live
        BY <1>2, <2>1 DEF Live
      <3> QED
        BY <1>0, <1>2, <2>1, <3>1 DEF SentinelIsExact
    <2>2. CASE task'[b] = "done" /\ inFlight' = inFlight \ {slugOf[b]}
      <3>1. Live' = Live \ {b}
        BY <1>2, <2>2 DEF Live
      <3>2. \A c \in Live : slugOf[c] = slugOf[b] <=> c = b
        BY <1>0, <1>2 DEF OneBuildPerSlug
      <3> QED
        BY <1>0, <1>2, <2>2, <3>1, <3>2 DEF SentinelIsExact
    <2> QED
      BY <2>1, <2>2, TaskEffect
  <1>7. JobOfRunningBuild'
    <2>1. ASSUME NEW c \in Live', c # b
          PROVE  /\ task'[c] = "created" => status'[c] = "queued"
                 /\ task'[c] \in {"clearing", "calling"} => status'[c] = "running"
                 /\ task'[c] # "closing" => entry'[slugOf'[c]] = c
      <3>1. c \in Live /\ c \in Builds
        BY <1>4 DEF Live
      <3> QED
        BY <1>0, <1>2, <2>1, <3>1 DEF JobOfRunningBuild
    <2>2. ASSUME b \in Live'
          PROVE  /\ task'[b] = "created" => status'[b] = "queued"
                 /\ task'[b] \in {"clearing", "calling"} => status'[b] = "running"
                 /\ task'[b] # "closing" => entry'[slugOf'[b]] = b
      <3>1. task'[b] # "done"
        BY <2>2 DEF Live
      <3> QED
        BY <1>0, <1>2, <3>1, TaskEffect DEF JobOfRunningBuild
    <2> QED
      BY <2>1, <2>2 DEF JobOfRunningBuild
  <1>8. CallInv'
    BY <1>0, <1>2, TaskEffect DEF CallInv
  <1>9. LockInv'
    <2>1. \A c \in Builds : call'[c] \in {"locked", "published"}
                               <=> call[c] \in {"locked", "published"}
      BY <1>2, TaskEffect
    <2> QED
      BY <1>0, <1>2, <2>1 DEF LockInv, deletes, sweep
  <1>10. StartInv' /\ PostInv'
    <2>1. serving
      BY <1>0, <1>2 DEF StartInv
    <2> QED
      BY <1>2, <2>1 DEF StartInv, PostInv, NoPost
  <1>11. TargetInv' /\ DeletesSeeNoOlderBuild'
    BY <1>0, <1>2, <1>3, <1>4 DEF TargetInv, DeletesSeeNoOlderBuild, deletes, sweep
  <1> QED
    BY <1>1, <1>5, <1>6, <1>7, <1>8, <1>9, <1>10, <1>11 DEF IInv

-----------------------------------------------------------------------------
(* Requests *)

\* Eviction takes jobs from the table that no task needs.
LEMMA EvictedJobs ==
    ASSUME TypeOK, NEW gone \in SUBSET Evictable, NEW r \in Slugs
    PROVE  /\ Evicted(gone)[r] \in {entry[r], NoBuild}
           /\ entry[r] # NoBuild /\ status[entry[r]] \in {"queued", "running"}
                 => Evicted(gone)[r] = entry[r]
  BY DEF Evicted, Evictable, Terminal

\* The admission of a build of an idle slug.
LEMMA AdmitStep ==
    ASSUME IInv, NEW s \in Slugs, s \notin inFlight, Admit(s), LoopFree \/ post.slug = s,
           serving, post' = NoPost,
           UNCHANGED <<disk, flock, serving, call, deletes, sweep, faults>>
    PROVE  IInv' /\ \A b \in Builds : status[b] \in Terminal => status'[b] = status[b]
  <1> DEFINE b == Cardinality(Accepted) + 1
  <1>0. /\ TypeOK /\ LockInv /\ TargetInv /\ StartInv /\ PostInv /\ CallInv /\ AcceptedInv
        /\ EntryInv /\ OneBuildPerSlug /\ SentinelIsExact /\ JobOfRunningBuild
        /\ DeletesSeeNoOlderBuild
    BY DEF IInv
  <1>1. PICK n \in 0..MaxBuilds : Accepted = 1..n
    BY <1>0 DEF AcceptedInv
  <1>2. b = n + 1 /\ b \in Builds
    <2>1. Cardinality(1..n) = n
      BY FS_Interval
    <2>2. b \in Builds
      BY DEF Admit
    <2> QED
      BY <1>1, <2>1, <2>2
  <1>3. b \notin Accepted /\ b # NoBuild /\ \A c \in Accepted \cup {NoBuild} : b > c
    BY <1>1, <1>2, ServiceAssumption DEF NoBuild
  <1>4. task[b] = "none" /\ call[b] = "none" /\ status[b] = "none"
    BY <1>0, <1>2, <1>3 DEF Accepted, CallInv, AcceptedInv
  <1>5. /\ inFlight' = inFlight \cup {s}
        /\ status' = [status EXCEPT ![b] = "queued"]
        /\ slugOf' = [slugOf EXCEPT ![b] = s]
        /\ task' = [task EXCEPT ![b] = "created"]
    BY DEF Admit
  <1>6. PICK gone \in SUBSET Evictable : entry' = [Evicted(gone) EXCEPT ![s] = b]
    BY DEF Admit
  <1> HIDE DEF b
  <1>7. Accepted' = Accepted \cup {b} /\ Live' = Live \cup {b}
    BY <1>0, <1>2, <1>5 DEF Accepted, Live, TypeOK
  <1>8. \A c \in Builds : c # b => UNCHANGED <<task[c], status[c], slugOf[c]>>
    BY <1>0, <1>5 DEF TypeOK
  <1>9. status'[b] = "queued" /\ slugOf'[b] = s /\ task'[b] = "created" /\ entry'[s] = b
    BY <1>0, <1>2, <1>5, <1>6 DEF TypeOK, Evicted
  <1>10. \A r \in Slugs \ {s} :
            /\ entry'[r] \in {entry[r], NoBuild}
            /\ entry[r] # NoBuild /\ status[entry[r]] \in {"queued", "running"}
                  => entry'[r] = entry[r]
    BY <1>0, <1>6, EvictedJobs DEF Evicted
  <1>11. Live \subseteq Builds /\ Accepted \subseteq Builds /\ b \notin Live /\ Live \subseteq Accepted
    BY <1>3 DEF Live, Accepted
  <1>12. \A c \in Live : slugOf[c] # s /\ slugOf[c] \in Slugs
    BY <1>0, <1>11 DEF SentinelIsExact, AcceptedInv
  <1>13. TypeOK'
    BY <1>0, <1>2, <1>5, <1>6 DEF TypeOK, Evicted, Terminal, deletes, sweep
  <1>14. AcceptedInv'
    <2>1. n + 1 \in 0..MaxBuilds /\ Accepted' = 1..(n + 1)
      BY <1>1, <1>2, <1>7, ServiceAssumption DEF Builds
    <2>2. \A c \in Accepted' : slugOf'[c] \in Slugs
      BY <1>0, <1>7, <1>8, <1>9, <1>11 DEF AcceptedInv
    <2>3. \A c \in Builds \ Accepted' : status'[c] = "none"
      BY <1>0, <1>7, <1>8 DEF AcceptedInv
    <2> QED
      BY <2>1, <2>2, <2>3 DEF AcceptedInv
  <1>15. EntryInv'
    BY <1>0, <1>3, <1>7, <1>8, <1>9, <1>10, <1>11 DEF EntryInv
  <1>16. OneBuildPerSlug'
    BY <1>0, <1>7, <1>8, <1>9, <1>11, <1>12 DEF OneBuildPerSlug
  <1>17. SentinelIsExact'
    BY <1>0, <1>5, <1>7, <1>8, <1>9, <1>11 DEF SentinelIsExact
  <1>18. JobOfRunningBuild'
    <2>1. ASSUME NEW c \in Live
          PROVE  /\ task'[c] = "created" => status'[c] = "queued"
                 /\ task'[c] \in {"clearing", "calling"} => status'[c] = "running"
                 /\ task'[c] # "closing" => entry'[slugOf'[c]] = c
      <3>1. c # b /\ c \in Builds /\ c # NoBuild
        BY <1>11, ServiceAssumption DEF Builds, NoBuild
      <3>2. UNCHANGED <<task[c], status[c], slugOf[c]>>
        BY <1>8, <3>1
      <3>3. slugOf[c] \in Slugs \ {s}
        BY <1>12
      <3>4. task[c] \in {"created", "clearing", "calling", "closing"}
        BY <1>0, <3>1 DEF Live, TypeOK
      <3>5. task[c] # "closing" => entry[slugOf[c]] = c /\ status[c] \in {"queued", "running"}
        BY <1>0, <3>4 DEF JobOfRunningBuild
      <3>6. task[c] # "closing" => entry'[slugOf[c]] = c
        BY <3>1, <3>3, <3>5, <1>10
      <3> QED
        BY <1>0, <3>2, <3>6 DEF JobOfRunningBuild
    <2> QED
      BY <1>7, <1>9, <2>1 DEF JobOfRunningBuild
  <1>19. CallInv'
    BY <1>0, <1>4, <1>8, <1>9 DEF CallInv
  <1>20. LockInv'
    BY <1>0, <1>4, <1>8 DEF LockInv, deletes, sweep
  <1>21. PostInv' /\ StartInv'
    BY DEF PostInv, StartInv
  <1>22. TargetInv'
    BY <1>0, <1>7 DEF TargetInv, deletes, sweep
  <1>23. DeletesSeeNoOlderBuild'
    BY <1>0, <1>3, <1>7, <1>8, <1>11 DEF DeletesSeeNoOlderBuild, TargetInv, deletes
  <1>24. \A c \in Builds : status[c] \in Terminal => status'[c] = status[c]
    BY <1>4, <1>8 DEF Terminal
  <1> QED
    BY <1>13, <1>14, <1>15, <1>16, <1>17, <1>18, <1>19, <1>20, <1>21, <1>22, <1>23, <1>24
       DEF IInv

LEMMA PostStep ==
    ASSUME IInv, Posting \/ (\E s \in Slugs : PostKnown(s) \/ PostNew(s)) \/ Poll
    PROVE  IInv' /\ \A b \in Builds : status[b] \in Terminal => status'[b] = status[b]
  <1>0. /\ TypeOK /\ LockInv /\ TargetInv /\ StartInv /\ PostInv /\ CallInv /\ AcceptedInv
        /\ EntryInv /\ OneBuildPerSlug /\ SentinelIsExact /\ JobOfRunningBuild
        /\ DeletesSeeNoOlderBuild
    BY DEF IInv
  <1>1. TypeOK'
    BY <1>0, PostTypes
  <1>2. ASSUME NEW s \in Slugs, PostKnown(s)
        PROVE  IInv' /\ \A b \in Builds : status[b] \in Terminal => status'[b] = status[b]
    BY <1>2, AdmitStep DEF PostKnown, LoopFree, Idle
  <1>3. CASE PostAccepts
    <2>1. post.step = "decide" /\ post # NoPost
      BY <1>3 DEF PostAccepts, NoPost
    <2>2. serving /\ post.slug \in Slugs \ inFlight
      BY <1>0, <2>1 DEF PostInv
    <2> QED
      BY <1>3, <2>2, AdmitStep DEF PostAccepts
  <1>4. ASSUME UNCHANGED <<disk, flock, serving, inFlight, status, slugOf, task, call,
                           deletes, sweep>>,
               EntryInv', JobOfRunningBuild', PostInv'
        PROVE  IInv' /\ \A b \in Builds : status[b] \in Terminal => status'[b] = status[b]
    <2>1. Accepted' = Accepted /\ Live' = Live
      BY <1>4 DEF Accepted, Live
    <2>2. AcceptedInv' /\ OneBuildPerSlug' /\ SentinelIsExact'
      BY <1>0, <1>4, <2>1 DEF AcceptedInv, OneBuildPerSlug, SentinelIsExact
    <2>3. CallInv' /\ LockInv'
      BY <1>0, <1>4 DEF CallInv, LockInv, deletes, sweep
    <2>4. StartInv' /\ TargetInv' /\ DeletesSeeNoOlderBuild'
      BY <1>0, <1>4, <2>1 DEF StartInv, TargetInv, DeletesSeeNoOlderBuild, deletes, sweep
    <2> QED
      BY <1>1, <1>4, <2>2, <2>3, <2>4 DEF IInv
  <1>5. ASSUME UNCHANGED <<disk, flock, serving, inFlight, entry, status, slugOf, task, call,
                           deletes, sweep>>,
               PostInv'
        PROVE  IInv' /\ \A b \in Builds : status[b] \in Terminal => status'[b] = status[b]
    <2>1. Accepted' = Accepted /\ Live' = Live
      BY <1>5 DEF Accepted, Live
    <2>2. EntryInv' /\ JobOfRunningBuild'
      BY <1>0, <1>5, <2>1 DEF EntryInv, JobOfRunningBuild
    <2> QED
      BY <1>4, <1>5, <2>2
  <1>6. ASSUME NEW s \in Slugs, PostNew(s)
        PROVE  IInv' /\ \A b \in Builds : status[b] \in Terminal => status'[b] = status[b]
    <2>1. PostInv'
      BY <1>6 DEF PostInv, PostNew, Idle, Accepted
    <2> QED
      BY <1>5, <1>6, <2>1 DEF PostNew
  <1>7. CASE PostCounts
    <2>1. post.step = "count" /\ post # NoPost
      BY <1>7 DEF PostCounts, NoPost
    <2>2. post'.slug = post.slug /\ post'.step = "decide"
      BY <1>0, <1>7, <2>1 DEF PostCounts, TypeOK
    <2>3. PostInv'
      BY <1>0, <1>7, <2>1, <2>2 DEF PostInv, PostCounts, Accepted
    <2> QED
      BY <1>5, <1>7, <2>3 DEF PostCounts
  <1>8. CASE PostRefuses
    <2>1. PostInv'
      BY <1>8 DEF PostInv, PostRefuses
    <2> QED
      BY <1>5, <1>8, <2>1 DEF PostRefuses
  <1>9. CASE Poll
    <2>1. PICK gone \in (SUBSET Evictable) \ {{}} : entry' = Evicted(gone)
      BY <1>9 DEF Poll
    <2>2. \A r \in Slugs :
             /\ entry'[r] \in {entry[r], NoBuild}
             /\ entry[r] # NoBuild /\ status[entry[r]] \in {"queued", "running"}
                   => entry'[r] = entry[r]
      BY <1>0, <2>1, EvictedJobs
    <2>3. /\ UNCHANGED <<disk, flock, serving, inFlight, status, slugOf, task, call,
                         deletes, sweep>>
          /\ post' = post /\ post = NoPost
      BY <1>9 DEF Poll, LoopFree
    <2>4. Accepted' = Accepted /\ Live' = Live
      BY <2>3 DEF Accepted, Live
    <2>5. EntryInv' /\ PostInv'
      BY <1>0, <2>2, <2>3, <2>4 DEF EntryInv, PostInv
    <2>6. JobOfRunningBuild'
      <3>1. ASSUME NEW c \in Live, task[c] # "closing"
            PROVE  entry'[slugOf[c]] = c
        <4>1. c \in Builds /\ c # NoBuild /\ c \in Accepted
          BY ServiceAssumption DEF Live, Accepted, Builds, NoBuild
        <4>2. task[c] \in {"created", "clearing", "calling"}
          BY <1>0, <3>1, <4>1 DEF Live, TypeOK
        <4>3. entry[slugOf[c]] = c /\ status[c] \in {"queued", "running"}
          BY <1>0, <3>1, <4>2 DEF JobOfRunningBuild
        <4> QED
          BY <1>0, <2>2, <4>1, <4>3 DEF AcceptedInv
      <3> QED
        BY <1>0, <2>3, <2>4, <3>1 DEF JobOfRunningBuild
    <2> QED
      BY <1>4, <2>3, <2>5, <2>6
  <1> QED
    BY <1>2, <1>3, <1>6, <1>7, <1>8, <1>9 DEF Posting

-----------------------------------------------------------------------------
(* Crash, and all steps together *)

LEMMA CrashStep ==
    ASSUME IInv, Crash
    PROVE  IInv'
  <1>0. TypeOK /\ AcceptedInv /\ TargetInv
    BY DEF IInv
  <1>1. TypeOK'
    BY <1>0, CrashTypes
  <1>2. Accepted' = Accepted /\ Live' = {}
    BY <1>0 DEF Crash, Accepted, Live, TypeOK
  <1>3. AcceptedInv'
    BY <1>0, <1>2 DEF AcceptedInv, Crash
  <1>4. EntryInv' /\ CallInv'
    BY <1>0 DEF EntryInv, CallInv, Crash, TypeOK
  <1>5. LockInv'
    BY KindsDiffer DEF LockInv, Crash, LocksAfterCrash
  <1>6. PostInv' /\ StartInv' /\ TargetInv'
    BY <1>2 DEF PostInv, StartInv, TargetInv, Crash
  <1>7. SentinelIsExact'
    BY <1>2 DEF SentinelIsExact, Crash
  <1>8. OneBuildPerSlug' /\ JobOfRunningBuild' /\ DeletesSeeNoOlderBuild'
    BY <1>2 DEF OneBuildPerSlug, JobOfRunningBuild, DeletesSeeNoOlderBuild
  <1> QED
    BY <1>1, <1>3, <1>4, <1>5, <1>6, <1>7, <1>8 DEF IInv

LEMMA InitIInv == Init => IInv
  <1> SUFFICES ASSUME Init PROVE IInv
    OBVIOUS
  <1>1. Accepted = {} /\ Live = {}
    BY DEF Init, Accepted, Live
  <1>2. AcceptedInv
    BY <1>1, ServiceAssumption DEF AcceptedInv, Init
  <1>3. LockInv
    BY KindsDiffer DEF LockInv, Init
  <1>4. EntryInv /\ CallInv /\ PostInv /\ StartInv /\ TargetInv
    BY <1>1 DEF Init, EntryInv, CallInv, PostInv, StartInv, TargetInv
  <1>5. SentinelIsExact /\ OneBuildPerSlug /\ JobOfRunningBuild /\ DeletesSeeNoOlderBuild
    BY <1>1 DEF Init, SentinelIsExact, OneBuildPerSlug, JobOfRunningBuild,
                DeletesSeeNoOlderBuild
  <1> QED
    BY <1>2, <1>3, <1>4, <1>5, InitTypes DEF IInv

LEMMA IInvStep ==
    ASSUME IInv, [Next]_vars
    PROVE  IInv'
  <1>1. CASE UNCHANGED vars
    <2>1. JobsAgree' /\ Accepted' = Accepted /\ Live' = Live
      BY <1>1, JobsStay DEF vars
    <2>2. TypeOK'
      BY TypeStep DEF IInv
    <2> QED
      BY <1>1, <2>1, <2>2
         DEF vars, jobs, deletes, sweep, IInv, JobsAgree, CallInv, LockInv, PostInv, StartInv,
             TargetInv, DeletesSeeNoOlderBuild
  <1>2. CASE Next
    BY <1>2, PostStep, TaskStep, ThreadStep, DeleteStep, RecoveryStep, CrashStep DEF Next
  <1> QED
    BY <1>1, <1>2

\* The agreement of the in-flight set, the job table, the tasks, the threads
\* and the locks holds in every reachable state.
THEOREM Inductive == Spec => []IInv
  <1>1. IInv /\ [Next]_vars => IInv'
    BY IInvStep
  <1> QED
    BY <1>1, InitIInv, PTL DEF Spec

\* There is never more than one build of a slug under way.
THEOREM OneBuild == Spec => []OneBuildPerSlug
  <1>1. IInv => OneBuildPerSlug
    BY DEF IInv
  <1> QED
    BY <1>1, Inductive, PTL

\* builds_in_flight is exact, whatever fails and whatever is evicted.
THEOREM Sentinel == Spec => []SentinelIsExact
  <1>1. IInv => SentinelIsExact
    BY DEF IInv
  <1> QED
    BY <1>1, Inductive, PTL

\* A client that polls a build under way finds its job.
THEOREM JobFound == Spec => []JobOfRunningBuild
  <1>1. IInv => JobOfRunningBuild
    BY DEF IInv
  <1> QED
    BY <1>1, Inductive, PTL

\* No delete runs beside a build it should have been refused for.
THEOREM DeletesRefused == Spec => []DeletesSeeNoOlderBuild
  <1>1. IInv => DeletesSeeNoOlderBuild
    BY DEF IInv
  <1> QED
    BY <1>1, Inductive, PTL

\* An outcome, once reported, stands.
THEOREM OutcomesKept == Spec => OutcomesStand
  <1>1. ASSUME IInv, [Next]_vars
        PROVE  [\A b \in Builds : status[b] \in Terminal => status'[b] = status[b]]_vars
    <2>1. CASE UNCHANGED vars
      BY <2>1
    <2>2. CASE \E b \in Builds : Task(b)
      <3>1. PICK b \in Builds : Task(b)
        BY <2>2
      <3> QED
        BY <1>1, <3>1, TaskEffect
    <2>3. CASE \/ Posting \/ (\E s \in Slugs : PostKnown(s) \/ PostNew(s)) \/ Poll
      BY <1>1, <2>3, PostStep
    <2>4. CASE \/ \E b \in Builds : Thread(b)
               \/ \E d \in Deleters : Deletion(d) \/ \E s \in Slugs : DeleteAccepted(d, s)
               \/ RecoveryWakes \/ Recovers \/ Crash
      <3>1. status' = status
        BY <2>4 DEF Thread, BuildRuns, BuildLocks, BuildPublishes, BuildReturns, BuildRaises,
             Deletion, DeleteAccepted, DeleteRuns, DeleteLocks, DeletePurges, PurgeFails,
             Wipes, WipeEnds, WipeGivesUp, RecoveryWakes, Recovers, RecoveryRuns,
             RecoveryScans, RecoveryLocks, RecoveryCleans, RecoveryEnds, RecoveryVisits,
             Crash, jobs
      <3> QED
        BY <3>1
    <2> QED
      BY <1>1, <2>1, <2>2, <2>3, <2>4 DEF Next
  <1>2. IInv /\ [Next]_vars =>
           [\A b \in Builds : status[b] \in Terminal => status'[b] = status[b]]_vars
    BY <1>1
  <1> QED
    BY <1>2, Inductive, PTL DEF Spec, OutcomesStand

=============================================================================
