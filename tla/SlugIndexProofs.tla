--------------------------- MODULE SlugIndexProofs ---------------------------
(***************************************************************************)
(* Proofs about SlugIndex for every number of workers, searchers and       *)
(* generations, every grace period and every sequence of faults.           *)
(*                                                                         *)
(* First types and the lock.  Then the inductive invariant and the safety  *)
(* properties that follow from it.  The flock makes the argument short:    *)
(* while a worker is inside, every other one is idle (OthersIdle), so that *)
(* a step of w can only disturb WorkerInv(w), what is known of unused ids  *)
(* (FreshInv) and what searches hold (SearchInv).  There is one step per   *)
(* action and under it one per part that the action touches.               *)
(*                                                                         *)
(* Last, SlugIndex implements ServedIndex: behind locks, files,            *)
(* collections, clocks and crashes, searchers see an index whose published *)
(* generation is replaced atomically and whose generations vanish under a  *)
(* reader only while a delete runs.  Every step of SlugIndex is mapped to  *)
(* one step of ServedIndex or to none.                                     *)
(***************************************************************************)
EXTENDS SlugIndex, TLAPS

-----------------------------------------------------------------------------
(* Type correctness *)

\* Types hold at first.
LEMMA TypeInit == Init => TypeOK
  BY BoundsAssumption
  DEF Init, TypeOK, NoPointer, MaybeGen, Gens, None, Never, Times, Steps

\* Charging a fault keeps the budget.
LEMMA ChargeType ==
  ASSUME TypeOK, NEW fault \in BOOLEAN, Charge(fault)
  PROVE  faults' \in 0..MaxFaults
  BY BoundsAssumption DEF TypeOK, Charge

\* A worker goes to another step.
LEMMA GoesTo ==
  ASSUME NEW step \in Steps, NEW w \in Workers, NEW at \in [Workers -> Steps]
  PROVE  [at EXCEPT ![w] = step] \in [Workers -> Steps]
  OBVIOUS

\* Every action keeps the types.
LEMMA TypeStep == TypeOK /\ [Next]_vars => TypeOK'
<1> SUFFICES ASSUME TypeOK, [Next]_vars PROVE TypeOK'
  OBVIOUS
<1> USE BoundsAssumption, OpsAssumption
<1> USE DEF TypeOK, MaybeGen, Gens, None, Never, Times, Steps, Goto, Charge,
            Leave, ForgetLocals, store, locals, workers, reads
<1>1. ASSUME NEW w \in Workers, NEW op \in Ops, Acquire(w, op) PROVE TypeOK'
  BY <1>1 DEF Acquire, AllOps
<1>2. ASSUME NEW w \in Workers, Release(w) \/ Crash(w) PROVE TypeOK'
  <2>1. CASE Release(w)
    BY <2>1 DEF Release
  <2>2. CASE Crash(w)
    <3>1. faults' \in 0..MaxFaults
      BY <2>2, ChargeType DEF Crash
    <3> QED
      BY <2>2, <3>1 DEF Crash
  <2> QED
    BY <1>2, <2>1, <2>2
<1>3. ASSUME NEW w \in Workers, BuildStep(w) PROVE TypeOK'
  <2>1. CASE UpToDate(w)
    BY <2>1 DEF UpToDate
  <2>2. CASE Load(w)
    BY <2>2 DEF Load
  <2>3. CASE BuildRaises(w)
    BY <2>3 DEF BuildRaises
  <2>4. CASE StartEmbed(w)
    BY <2>4 DEF StartEmbed
  <2>5. CASE FinishEmbed(w)
    BY <2>5 DEF FinishEmbed
  <2>6. CASE WriteFiles(w)
    BY <2>6 DEF WriteFiles
  <2>7. CASE WriteMetadata(w)
    BY <2>7 DEF WriteMetadata
  <2>8. CASE StampRetired(w)
    <3>1. CASE Complete(pointer.cur)
      <4>1. /\ pointer.cur \in Gens
            /\ old' = [old EXCEPT ![w] = pointer.cur]
            /\ retired' = [retired EXCEPT ![pointer.cur] = now]
        BY <2>8, <3>1 DEF StampRetired, Complete
      <4>2. old' \in [Workers -> MaybeGen] /\ retired' \in [Gens -> Times \union {Never}]
        BY <4>1
      <4>3. pc' \in [Workers -> Steps]
        BY <2>8, GoesTo DEF StampRetired
      <4>4. UNCHANGED <<now, home, pointer, dir, coll, born, legacyMeta, legacyColl,
                        lock, task, gen, reuse, migrate, cleanAt, todo, removed, reads, faults>>
        BY <2>8 DEF StampRetired
      <4> QED
        BY <4>2, <4>3, <4>4
    <3>2. CASE ~Complete(pointer.cur)
      BY <2>8, <3>2 DEF StampRetired
    <3> QED
      BY <3>1, <3>2
  <2>9. CASE SwapPointer(w)
    BY <2>9 DEF SwapPointer
  <2>10. CASE DropLegacy(w)
    <3>1. CASE legacyColl' = TRUE
      BY <2>10, <3>1 DEF DropLegacy, DropLegacyCollection
    <3>2. CASE legacyColl' = FALSE
      BY <2>10, <3>2 DEF DropLegacy, DropLegacyCollection
    <3> QED
      BY <2>10, <3>1, <3>2 DEF DropLegacy, DropLegacyCollection
  <2>11. CASE SaveRaises(w)
    BY <2>11 DEF SaveRaises
  <2>12. CASE AbortDirectory(w)
    <3>1. PICK left \in {"none", "partial"} :
             /\ Charge(left = "partial")
             /\ dir' = [dir EXCEPT ![gen[w]] = left]
      BY <2>12 DEF AbortDirectory
    <3>2. faults' \in 0..MaxFaults
      BY <3>1
    <3> QED
      BY <2>12, <3>1, <3>2 DEF AbortDirectory
  <2>13. CASE AbortCollection(w)
    BY <2>13 DEF AbortCollection, DropCollections
  <2> QED
    BY <1>3, <2>1, <2>2, <2>3, <2>4, <2>5, <2>6, <2>7, <2>8, <2>9, <2>10, <2>11, <2>12, <2>13
    DEF BuildStep
<1>4. ASSUME NEW w \in Workers, CleanupStep(w) PROVE TypeOK'
  <2>1. CASE CleanupRefused(w)
    BY <2>1 DEF CleanupRefused, AfterClean
  <2>2. CASE CleanupStart(w)
    BY <2>2 DEF CleanupStart, Candidates
  <2>3. ASSUME NEW g \in Gens, SweepStamps(w, g) PROVE TypeOK'
    BY <2>3 DEF SweepStamps
  <2>4. ASSUME NEW g \in Gens, SweepKeeps(w, g) PROVE TypeOK'
    BY <2>4 DEF SweepKeeps
  <2>5. ASSUME NEW g \in Gens, SweepRemoves(w, g) PROVE TypeOK'
    BY <2>5 DEF SweepRemoves
  <2>6. ASSUME NEW g \in Gens, RmtreeDone(w, g) PROVE TypeOK'
    BY <2>6 DEF RmtreeDone
  <2>7. CASE RmtreeRaises(w)
    BY <2>7 DEF RmtreeRaises, AfterClean
  <2>8. CASE SweepDone(w)
    BY <2>8 DEF SweepDone
  <2>9. CASE DropRemoved(w)
    BY <2>9 DEF DropRemoved, DropCollections
  <2>10. CASE ListingFails(w)
    BY <2>10 DEF ListingFails, AfterClean
  <2>11. CASE DropAbandoned(w)
    BY <2>11 DEF DropAbandoned, AfterClean, Abandoned
  <2> QED
    BY <1>4, <2>1, <2>2, <2>3, <2>4, <2>5, <2>6, <2>7, <2>8, <2>9, <2>10, <2>11 DEF CleanupStep
<1>5. ASSUME NEW w \in Workers, DeleteStep(w) PROVE TypeOK'
  <2>1. CASE PurgeCollections(w)
    <3>1. \E left \in [Gens -> {"absent", "partial", "full"}],
             missed \in SUBSET Unrecognised, legacyLeft \in {FALSE, legacyColl},
             listed \in BOOLEAN :
               /\ coll' = left /\ legacyColl' = legacyLeft
               /\ Charge(~Purged(left, missed, legacyLeft, listed))
               /\ Goto(w, "wipe") \/ Goto(w, "failed")
      <4> HIDE DEF Charge, Goto, TypeOK
      <4> QED
        BY <2>1 DEF PurgeCollections
    <3>2. faults' \in 0..MaxFaults
      <4>1. \E b : Charge(b)
        <5> HIDE DEF Charge
        <5> QED
          BY <3>1
      <4> QED
        BY <4>1
    <3>3. UNCHANGED <<now, home, pointer, dir, retired, born, legacyMeta, lock,
                      task, locals, reads>>
      BY <2>1 DEF PurgeCollections
    <3>4. legacyColl' \in BOOLEAN
      BY <3>1
    <3>5. coll' \in [Gens -> {"absent", "partial", "full"}]
      BY <3>1
    <3>6. pc' \in [Workers -> Steps]
      <4>1. Goto(w, "wipe") \/ Goto(w, "failed")
        <5> HIDE DEF Goto
        <5> QED
          BY <3>1
      <4>2. "wipe" \in Steps /\ "failed" \in Steps /\ pc \in [Workers -> Steps]
        OBVIOUS
      <4> HIDE DEF Steps, TypeOK
      <4> QED
        BY <4>1, <4>2, GoesTo
    <3> QED
      BY <3>2, <3>3, <3>4, <3>5, <3>6
  <2>2. CASE WipeDirectory(w)
    BY <2>2 DEF WipeDirectory, NoPointer
  <2>3. CASE WipePartly(w)
    <3>1. PICK gone, hurt \in SUBSET Gens :
             /\ dir' = [g \in Gens |-> IF g \in gone THEN "none"
                                       ELSE IF g \in hurt THEN "partial"
                                       ELSE dir[g]]
             /\ retired' = [g \in Gens |-> IF g \in gone THEN Never
                                           ELSE retired[g]]
      BY <2>3 DEF WipePartly
    <3>2. /\ UNCHANGED <<now, home, coll, born, legacyColl, lock, task, locals,
                         reads>>
          /\ pointer' \in {NoPointer, pointer}
          /\ Charge(TRUE) /\ Goto(w, "ok")
      BY <2>3 DEF WipePartly
    <3>3. legacyMeta' \in BOOLEAN
      BY <2>3 DEF WipePartly
    <3>4. pointer' \in [cur : MaybeGen, prev : MaybeGen]
      BY <3>2 DEF NoPointer
    <3> QED
      BY <3>1, <3>2, <3>3, <3>4
  <2> QED
    BY <1>5, <2>1, <2>2, <2>3 DEF DeleteStep
<1>6. ASSUME NEW s \in Searchers, SearchStep(s) PROVE TypeOK'
  <2>1. CASE SearchResolves(s)
    BY <2>1 DEF SearchResolves, Complete
  <2>2. CASE SearchResolvesLegacy(s)
    BY <2>2 DEF SearchResolvesLegacy
  <2>3. CASE SearchLoadsGraph(s)
    BY <2>3 DEF SearchLoadsGraph
  <2>4. CASE SearchEnds(s)
    BY <2>4 DEF SearchEnds
  <2> QED
    BY <1>6, <2>1, <2>2, <2>3, <2>4 DEF SearchStep
<1>7. CASE Tick
  BY <1>7 DEF Tick
<1>8. CASE UNCHANGED vars
  BY <1>8 DEF vars
<1> QED
  BY <1>1, <1>2, <1>3, <1>4, <1>5, <1>6, <1>7, <1>8 DEF Next, WorkerStep

\* Every variable stays in its type.
THEOREM TypeCorrect == Spec => []TypeOK
<1> QED
  BY TypeInit, TypeStep, PTL DEF Spec

-----------------------------------------------------------------------------
(* The lock *)

\* Nobody is inside at first.
LEMMA LockInit == Init => LockInv
  BY WorkersAssumption DEF Init, LockInv, Inside, BuildSteps, CleanSteps, DeleteSteps

\* Only a build goes on after a cleanup.
LEMMA AfterCleanSteps ==
  ASSUME NEW w \in Workers
  PROVE  /\ AfterClean(w) \in {"extract", "ok"}
         /\ AfterClean(w) = "extract" <=> task[w] = "build" /\ gen[w] = None
  BY DEF AfterClean

\* A worker inside keeps the flock and its task while it steps on.
LEMMA StepsInside ==
  ASSUME TypeOK, NEW w \in Workers,
         BuildStep(w) \/ CleanupStep(w) \/ DeleteStep(w)
  PROVE  /\ Inside(w)
         /\ UNCHANGED <<lock, task>>
         /\ pc'[w] \in Steps \ {"idle"}
         /\ \A v \in Workers \ {w} : pc'[v] = pc[v]
         /\ pc'[w] \in BuildSteps =>
               pc[w] \in BuildSteps \/ (task[w] = "build" /\ pc[w] \in CleanSteps)
         /\ pc'[w] \in CleanSteps => pc[w] \in BuildSteps \cup CleanSteps
         /\ pc'[w] \in DeleteSteps => pc[w] \in DeleteSteps
<1> USE DEF TypeOK, Steps, BuildSteps, CleanSteps, DeleteSteps, Inside, Goto
<1>1. CASE BuildStep(w)
  <2>1. CASE BuildRaises(w)
    <3>1. /\ pc[w] \in {"load", "extract"} /\ UNCHANGED <<lock, task>>
          /\ pc' = [pc EXCEPT ![w] = "failed"]
      BY <2>1 DEF BuildRaises
    <3> QED
      BY <3>1
  <2>2. CASE UpToDate(w) \/ Load(w)
    BY <2>2 DEF UpToDate, Load
  <2>3. CASE SaveRaises(w)
    <3>1. /\ pc[w] \in StagingSteps /\ UNCHANGED <<lock, task>>
          /\ pc' = [pc EXCEPT ![w] = "abort"]
      BY <2>3 DEF SaveRaises, StagingSteps
    <3> QED
      BY <3>1 DEF StagingSteps
  <2>4. CASE StartEmbed(w) \/ FinishEmbed(w) \/ WriteFiles(w) \/ WriteMetadata(w)
    BY <2>4 DEF StartEmbed, FinishEmbed, WriteFiles, WriteMetadata
  <2>5. CASE StampRetired(w) \/ DropLegacy(w)
    BY <2>5 DEF StampRetired, DropLegacy
  <2>6. CASE SwapPointer(w)
    <3>1. /\ pc[w] = "swap" /\ UNCHANGED <<lock, task>>
          /\ \/ pc' = [pc EXCEPT ![w] = "legacy"]
             \/ pc' = [pc EXCEPT ![w] = "clean"]
      BY <2>6, Zenon DEF SwapPointer, locals
    <3> QED
      BY <3>1
  <2>7. CASE AbortDirectory(w) \/ AbortCollection(w)
    BY <2>7 DEF AbortDirectory, AbortCollection
  <2> QED
    BY <1>1, <2>1, <2>2, <2>4, <2>5, <2>6, <2>7, <2>3 DEF BuildStep
<1>2. CASE CleanupStep(w)
  <2> USE AfterCleanSteps
  <2>1. CASE CleanupRefused(w) \/ CleanupStart(w) \/ SweepDone(w)
    BY <2>1 DEF CleanupRefused, CleanupStart, SweepDone
  <2>2. ASSUME NEW g \in Gens, \/ SweepStamps(w, g) \/ SweepKeeps(w, g)
                                \/ SweepRemoves(w, g) \/ RmtreeDone(w, g)
        PROVE  /\ pc' \in {pc, [pc EXCEPT ![w] = "rmtree"], [pc EXCEPT ![w] = "sweep"]}
               /\ pc[w] \in {"sweep", "rmtree"}
               /\ UNCHANGED <<lock, task>>
    BY <2>2 DEF SweepStamps, SweepKeeps, SweepRemoves, RmtreeDone
  <2>3. CASE RmtreeRaises(w)
    BY <2>3 DEF RmtreeRaises
  <2>4. CASE DropRemoved(w)
    <3>1. /\ pc[w] \in {"drop"} /\ UNCHANGED <<lock, task>>
          /\ pc' = [pc EXCEPT ![w] = "abandon"]
      BY <2>4 DEF DropRemoved
    <3> QED
      BY <3>1
  <2>5. CASE ListingFails(w)
    BY <2>5 DEF ListingFails
  <2>6. CASE DropAbandoned(w)
    BY <2>6 DEF DropAbandoned
  <2> QED
    BY <1>2, <2>1, <2>2, <2>3, <2>4, <2>5, <2>6 DEF CleanupStep
<1>3. CASE DeleteStep(w)
  <2>1. CASE PurgeCollections(w)
    <3>1. pc[w] = "purge" /\ UNCHANGED <<lock, task>>
      BY <2>1 DEF PurgeCollections
    <3>2. \/ pc' = [pc EXCEPT ![w] = "wipe"]
          \/ pc' = [pc EXCEPT ![w] = "failed"]
      BY <2>1, Zenon DEF PurgeCollections
    <3> QED
      BY <3>1, <3>2
  <2>2. CASE WipeDirectory(w)
    BY <2>2 DEF WipeDirectory
  <2>3. CASE WipePartly(w)
    BY <2>3 DEF WipePartly
  <2> QED
    BY <1>3, <2>1, <2>2, <2>3 DEF DeleteStep
<1> QED
  BY <1>1, <1>2, <1>3

\* Every action keeps the lock.
LEMMA LockStep == TypeOK /\ LockInv /\ [Next]_vars => LockInv'
<1> SUFFICES ASSUME TypeOK, LockInv, [Next]_vars PROVE LockInv'
  OBVIOUS
<1> USE WorkersAssumption, OpsAssumption
<1> USE DEF LockInv, TypeOK, Inside, BuildSteps, CleanSteps, DeleteSteps
<1>1. ASSUME NEW w \in Workers, NEW op \in Ops, Acquire(w, op) PROVE LockInv'
  BY <1>1 DEF Acquire, Goto, AllOps
<1>2. ASSUME NEW w \in Workers, Release(w) \/ Crash(w) PROVE LockInv'
  <2>1. \A v \in Workers \ {w} : pc[v] = "idle"
    BY <1>2 DEF Release, Crash
  <2>2. pc' = [pc EXCEPT ![w] = "idle"] /\ lock' = NoWorker
    BY <1>2 DEF Release, Crash, Leave, Goto
  <2> QED
    BY <2>1, <2>2 DEF Steps
<1>3. ASSUME NEW w \in Workers, BuildStep(w) \/ CleanupStep(w) \/ DeleteStep(w)
      PROVE  LockInv'
  BY <1>3, StepsInside
<1>4. ASSUME NEW s \in Searchers, SearchStep(s) PROVE LockInv'
  BY <1>4 DEF SearchStep, SearchResolves, SearchResolvesLegacy, SearchLoadsGraph,
     SearchEnds, workers
<1>5. CASE Tick
  BY <1>5 DEF Tick, workers
<1>6. CASE UNCHANGED vars
  BY <1>6 DEF vars, workers
<1> QED
  BY <1>1, <1>2, <1>3, <1>4, <1>5, <1>6 DEF Next, WorkerStep

\* Two operations of one slug never run at the same time.
THEOREM OneAtATime == Spec => []MutualExclusion
<1>1. TypeOK /\ LockInv => MutualExclusion
  BY WorkersAssumption DEF TypeOK, LockInv, MutualExclusion
<1> QED
  BY <1>1, TypeInit, TypeStep, LockInit, LockStep, PTL DEF Spec

-----------------------------------------------------------------------------
(* Frames *)

\* While a worker is inside, every other one is idle.
LEMMA OthersIdle ==
  ASSUME TypeOK, LockInv, NEW w \in Workers, Inside(w), NEW v \in Workers \ {w}
  PROVE  pc[v] = "idle"
  BY DEF LockInv, Inside

\* An idle worker satisfies its part of the invariant.
LEMMA IdleWorker ==
  ASSUME NEW w \in Workers, pc[w] = "idle"
  PROVE  WorkerInv(w)
  BY DEF WorkerInv, StagingInv, SwapInv, PublishedInv, CleanInv, WipeInv,
         StagingSteps, CleanSteps

\* A step of w that keeps WorkerInv(w) keeps that of every worker.
LEMMA WorkerFrame ==
  ASSUME TypeOK, LockInv, NEW w \in Workers, Inside(w),
         \A v \in Workers \ {w} : pc'[v] = pc[v],
         WorkerInv(w)'
  PROVE  \A v \in Workers : WorkerInv(v)'
<1> TAKE v \in Workers
<1>1. CASE v = w
  BY <1>1
<1>2. CASE v # w
  <2>1. pc'[v] = "idle"
    BY <1>2, OthersIdle
  <2> QED
    BY <2>1 DEF WorkerInv, StagingInv, SwapInv, PublishedInv, CleanInv, WipeInv,
       StagingSteps, CleanSteps
<1> QED
  BY <1>1, <1>2

\* What FreshInv depends on.
LEMMA FreshFrame ==
  ASSUME FreshInv, UNCHANGED <<dir, coll, born, pointer, gen, held>>
  PROVE  FreshInv'
  BY DEF FreshInv, Used, Kept

\* What SearchInv depends on.
LEMMA SearchFrame ==
  ASSUME \A s \in Searchers : SearchInv(s),
         UNCHANGED <<mode, held, started, now, dir, coll, pointer, retired>>
  PROVE  \A s \in Searchers : SearchInv(s)'
  BY DEF SearchInv, Intact, Complete

\* A step that makes no generation whole and leaves pointer and stamps of
\* the generations that stay whole alone does not disturb a search.
LEMMA SearchShrinks ==
  ASSUME \A s \in Searchers : SearchInv(s),
         UNCHANGED <<mode, held, started, now, pointer>>,
         \A s \in Searchers : held[s] # None /\ Intact(held[s])' =>
             Intact(held[s]) /\ (held[s] # pointer.cur => retired'[held[s]] = retired[held[s]])
  PROVE  \A s \in Searchers : SearchInv(s)'
  BY DEF SearchInv, Intact, Complete

-----------------------------------------------------------------------------
(* Builds up to the embedding *)

\* What a step of w has to keep.
StepKeeps(w) == /\ FreshInv'
                /\ WorkerInv(w)'
                /\ \A s \in Searchers : SearchInv(s)'

\* Build, up to the validated collection.
LEMMA EarlyBuildKeeps ==
  ASSUME IInv, NEW w \in Workers,
         UpToDate(w) \/ Load(w) \/ BuildRaises(w) \/ StartEmbed(w) \/ FinishEmbed(w)
  PROVE  StepKeeps(w)
<1> USE DEF IInv, TypeOK, Goto
<1>1. CASE UpToDate(w)
  <2>1. pc[w] = "load" /\ pc' = [pc EXCEPT ![w] = "ok"] /\ Intact(pointer.cur)
    BY <1>1 DEF UpToDate
  <2>2. UNCHANGED <<now, store, task, locals, reads>>
    BY <1>1 DEF UpToDate
  <2>3. FreshInv' /\ \A s \in Searchers : SearchInv(s)'
    BY <2>2, FreshFrame, SearchFrame DEF store, reads, locals
  <2>4. WorkerInv(w)'
    BY <2>1, <2>2 DEF WorkerInv, StagingInv, SwapInv, PublishedInv, CleanInv, WipeInv,
       StagingSteps, CleanSteps, store, locals, Intact, Complete
  <2> QED
    BY <2>3, <2>4 DEF StepKeeps
<1>2. CASE Load(w)
  <2>1. pc[w] = "load" /\ pc' = [pc EXCEPT ![w] = "clean"]
    BY <1>2 DEF Load
  <2>2. UNCHANGED <<now, store, task, gen, old, cleanAt, todo, removed, reads>>
    BY <1>2 DEF Load
  <2>3. FreshInv' /\ \A s \in Searchers : SearchInv(s)'
    BY <2>2, FreshFrame, SearchFrame DEF store, reads
  <2>4. WorkerInv(w)'
    BY <2>1, <2>2 DEF WorkerInv, StagingInv, SwapInv, PublishedInv, CleanInv, WipeInv,
       StagingSteps, CleanSteps, IdleInv
  <2> QED
    BY <2>3, <2>4 DEF StepKeeps
<1>3. CASE BuildRaises(w)
  <2>1. pc' = [pc EXCEPT ![w] = "failed"]
    BY <1>3 DEF BuildRaises
  <2>2. UNCHANGED <<now, store, locals, reads>>
    BY <1>3 DEF BuildRaises
  <2>3. FreshInv' /\ \A s \in Searchers : SearchInv(s)'
    BY <2>2, FreshFrame, SearchFrame DEF store, reads, locals
  <2>4. WorkerInv(w)'
    BY <2>1 DEF WorkerInv, StagingInv, SwapInv, PublishedInv, CleanInv, WipeInv,
       StagingSteps, CleanSteps
  <2> QED
    BY <2>3, <2>4 DEF StepKeeps
<1>4. CASE StartEmbed(w)
  <2>1. PICK g \in Gens :
           /\ \A h \in Gens : h < g <=> h \in Used
           /\ gen' = [gen EXCEPT ![w] = g]
           /\ born' = [born EXCEPT ![g] = now]
           /\ coll' = [coll EXCEPT ![g] = "partial"]
    BY <1>4 DEF StartEmbed
  <2>2. pc' = [pc EXCEPT ![w] = "embed"]
    BY <1>4 DEF StartEmbed
  <2>3. UNCHANGED <<now, pointer, dir, retired, reads>>
    BY <1>4 DEF StartEmbed
  <2>4. g \notin Used /\ Used' = Used \cup {g}
    BY <2>1 DEF Gens, Used, Never, Times
  <2>5. g \notin Kept /\ \A s \in Searchers : held[s] # g
    BY <2>4 DEF FreshInv
  <2>6. FreshInv'
    BY <2>1, <2>3, <2>4 DEF FreshInv, Kept, reads
  <2>7. WorkerInv(w)'
    <3>1. StagingInv(w)'
      <4>1. \A h \in Used' : h <= g
        BY <2>1, <2>4 DEF Gens, Used
      <4> QED
        BY <2>1, <2>2, <2>3, <2>5, <4>1 DEF StagingInv, Kept, reads
    <3> QED
      BY <2>2, <3>1 DEF WorkerInv, SwapInv, PublishedInv, CleanInv, WipeInv, CleanSteps
  <2>8. \A s \in Searchers : SearchInv(s)'
    BY <2>1, <2>3, <2>5 DEF SearchInv, Intact, Complete, reads
  <2> QED
    BY <2>6, <2>7, <2>8 DEF StepKeeps
<1>5. CASE FinishEmbed(w)
  <2>1. /\ pc[w] = "embed" /\ pc' = [pc EXCEPT ![w] = "write"]
        /\ coll' = [coll EXCEPT ![gen[w]] = "full"]
    BY <1>5 DEF FinishEmbed
  <2>2. UNCHANGED <<now, pointer, dir, retired, born, locals, reads>>
    BY <1>5 DEF FinishEmbed
  <2>3. /\ gen[w] \in Gens \ Kept /\ \A g \in Used : g <= gen[w]
        /\ \A s \in Searchers : held[s] # gen[w]
    BY <2>1 DEF WorkerInv, StagingInv, StagingSteps
  <2>4. FreshInv'
    BY <2>1, <2>2 DEF FreshInv, Used, Kept, locals, reads
  <2>5. WorkerInv(w)'
    <3>1. StagingInv(w)'
      BY <2>1, <2>2, <2>3 DEF StagingInv, StagingSteps, Used, Kept, locals, reads
    <3> QED
      BY <2>1, <3>1 DEF WorkerInv, SwapInv, PublishedInv, CleanInv, WipeInv, CleanSteps
  <2>6. \A s \in Searchers : SearchInv(s)'
    BY <2>1, <2>2, <2>3 DEF SearchInv, Intact, Complete, reads
  <2> QED
    BY <2>4, <2>5, <2>6 DEF StepKeeps
<1> QED
  BY <1>1, <1>2, <1>3, <1>4, <1>5

-----------------------------------------------------------------------------
(* Builds from the files on *)

\* A step that only touches the generation w stages, and not its id.
LEMMA StagingFrame ==
  ASSUME IInv, NEW w \in Workers, pc[w] \in StagingSteps,
         UNCHANGED <<now, pointer, retired, born, gen, reads>>,
         dir' \in [Gens -> {"none", "partial", "complete"}],
         coll' \in [Gens -> {"absent", "partial", "full"}],
         \A g \in Gens \ {gen[w]} : dir'[g] = dir[g] /\ coll'[g] = coll[g]
  PROVE  /\ FreshInv'
         /\ \A s \in Searchers : SearchInv(s)'
         /\ gen'[w] \in Gens \ Kept'
         /\ \A g \in Used' : g <= gen'[w]
         /\ \A s \in Searchers : held'[s] # gen'[w]
<1> USE DEF IInv, TypeOK
<1>1. /\ gen[w] \in Gens \ Kept /\ \A g \in Used : g <= gen[w]
      /\ \A s \in Searchers : held[s] # gen[w]
  BY DEF WorkerInv, StagingInv
<1>2. FreshInv'
  BY DEF FreshInv, Used, Kept, reads
<1>3. \A s \in Searchers : SearchInv(s)'
  BY <1>1 DEF SearchInv, Intact, Complete, reads
<1> QED
  BY <1>1, <1>2, <1>3 DEF Used, Kept, reads

\* The staging directory is written, or removed after a failure.
LEMMA StagingKeeps ==
  ASSUME IInv, NEW w \in Workers,
         WriteFiles(w) \/ WriteMetadata(w) \/ SaveRaises(w) \/ AbortDirectory(w)
         \/ AbortCollection(w)
  PROVE  StepKeeps(w)
<1> USE DEF IInv, TypeOK, Goto, StagingSteps
<1>1. CASE WriteFiles(w)
  <2>1. /\ pc[w] = "write" /\ pc' = [pc EXCEPT ![w] = "seal"]
        /\ dir' = [dir EXCEPT ![gen[w]] = "partial"]
    BY <1>1 DEF WriteFiles
  <2>2. UNCHANGED <<now, pointer, retired, coll, born, gen, reads>>
    BY <1>1 DEF WriteFiles, locals
  <2>3. coll[gen[w]] = "full"
    BY <2>1 DEF WorkerInv, StagingInv
  <2> QED
    BY <2>1, <2>2, <2>3, StagingFrame
    DEF StepKeeps, WorkerInv, StagingInv, SwapInv, PublishedInv, CleanInv, WipeInv, CleanSteps
<1>2. CASE WriteMetadata(w)
  <2>1. /\ pc[w] = "seal" /\ pc' = [pc EXCEPT ![w] = "stamp"]
        /\ dir' = [dir EXCEPT ![gen[w]] = "complete"]
    BY <1>2 DEF WriteMetadata
  <2>2. UNCHANGED <<now, pointer, retired, coll, born, gen, reads>>
    BY <1>2 DEF WriteMetadata, locals
  <2>3. coll[gen[w]] = "full" /\ gen[w] \in Gens
    BY <2>1 DEF WorkerInv, StagingInv
  <2> QED
    BY <2>1, <2>2, <2>3, StagingFrame
    DEF StepKeeps, WorkerInv, StagingInv, SwapInv, PublishedInv, CleanInv, WipeInv, CleanSteps
<1>3. CASE SaveRaises(w)
  <2>1. pc[w] \in StagingSteps /\ pc' = [pc EXCEPT ![w] = "abort"]
    BY <1>3 DEF SaveRaises
  <2>2. UNCHANGED <<now, pointer, dir, retired, coll, born, gen, reads>>
    BY <1>3 DEF SaveRaises, store, locals
  <2> QED
    BY <2>1, <2>2, StagingFrame
    DEF StepKeeps, WorkerInv, StagingInv, SwapInv, PublishedInv, CleanInv, WipeInv, CleanSteps
<1>4. CASE AbortDirectory(w)
  <2>1. pc[w] = "abort" /\ pc' = [pc EXCEPT ![w] = "undo"]
    BY <1>4 DEF AbortDirectory
  <2>2. UNCHANGED <<now, pointer, retired, coll, born, gen, reads>>
    BY <1>4 DEF AbortDirectory, locals
  <2>3. PICK left \in {"none", "partial"} : dir' = [dir EXCEPT ![gen[w]] = left]
    BY <1>4 DEF AbortDirectory
  <2> QED
    BY <2>1, <2>2, <2>3, StagingFrame
    DEF StepKeeps, WorkerInv, StagingInv, SwapInv, PublishedInv, CleanInv, WipeInv, CleanSteps
<1>5. CASE AbortCollection(w)
  <2>1. pc[w] = "undo" /\ pc' = [pc EXCEPT ![w] = "failed"]
    BY <1>5 DEF AbortCollection
  <2>2. UNCHANGED <<now, pointer, dir, retired, born, gen, reads>>
    BY <1>5 DEF AbortCollection, locals
  <2>3. PICK survivors \in SUBSET {g \in {gen[w]} : coll[g] # "absent"} :
           coll' = [g \in Gens |-> IF g \in {gen[w]} \ survivors THEN "absent" ELSE coll[g]]
    BY <1>5 DEF AbortCollection, DropCollections
  <2>4. /\ coll' \in [Gens -> {"absent", "partial", "full"}]
        /\ \A g \in Gens \ {gen[w]} : coll'[g] = coll[g]
    BY <2>3
  <2> QED
    BY <2>1, <2>2, <2>4, StagingFrame
    DEF StepKeeps, WorkerInv, StagingInv, SwapInv, PublishedInv, CleanInv, WipeInv, CleanSteps
<1> QED
  BY <1>1, <1>2, <1>3, <1>4, <1>5

\* publish_generation(), and the legacy index dropped after it.
LEMMA PublishKeeps ==
  ASSUME IInv, NEW w \in Workers, StampRetired(w) \/ SwapPointer(w) \/ DropLegacy(w)
  PROVE  StepKeeps(w)
<1> USE BoundsAssumption DEF IInv, TypeOK, Goto, StagingSteps, MaybeGen, Gens, None, Never, Times
<1>1. CASE StampRetired(w)
  <2>1. pc[w] = "stamp" /\ pc' = [pc EXCEPT ![w] = "swap"]
    BY <1>1 DEF StampRetired
  <2>2. UNCHANGED <<now, pointer, dir, coll, born, gen, reads>>
    BY <1>1 DEF StampRetired
  <2>3. /\ gen[w] \in Gens \ Kept /\ \A g \in Used : g <= gen[w]
        /\ \A s \in Searchers : held[s] # gen[w]
        /\ coll[gen[w]] = "full" /\ dir[gen[w]] = "complete"
    BY <2>1 DEF WorkerInv, StagingInv
  <2>4. \A g \in Gens \ {pointer.cur} : retired'[g] = retired[g]
    BY <1>1 DEF StampRetired
  <2>5. FreshInv'
    BY <2>2, FreshFrame DEF reads
  <2>6. SwapInv(w)'
    <3>1. CASE Complete(pointer.cur)
      <4>1. old'[w] = pointer.cur /\ retired'[pointer.cur] = now
        BY <1>1, <3>1 DEF StampRetired, Complete
      <4> QED
        BY <2>2, <3>1, <4>1 DEF SwapInv, Complete
    <3>2. CASE ~Complete(pointer.cur)
      <4>1. old'[w] = None
        BY <1>1, <3>2 DEF StampRetired
      <4> QED
        BY <2>2, <3>2, <4>1 DEF SwapInv, Complete
    <3> QED
      BY <3>1, <3>2
  <2>7. WorkerInv(w)'
    BY <2>1, <2>2, <2>3, <2>6
    DEF WorkerInv, StagingInv, PublishedInv, CleanInv, WipeInv, CleanSteps, Used, Kept, reads
  <2>8. \A s \in Searchers : SearchInv(s)'
    BY <2>2, <2>4 DEF SearchInv, Intact, Complete, reads
  <2> QED
    BY <2>5, <2>7, <2>8 DEF StepKeeps
<1>2. CASE SwapPointer(w)
  <2>1. /\ pc[w] = "swap" /\ pc'[w] \in {"legacy", "clean"}
        /\ pointer' = [cur |-> gen[w], prev |-> old[w]]
    <3>1. pc' \in {[pc EXCEPT ![w] = "legacy"], [pc EXCEPT ![w] = "clean"]}
      BY <1>2, Zenon DEF SwapPointer
    <3> QED
      BY <1>2, <3>1 DEF SwapPointer
  <2>2. UNCHANGED <<now, dir, retired, coll, born, gen, task, reads>>
    BY <1>2 DEF SwapPointer, locals
  <2>3. /\ gen[w] \in Gens \ Kept /\ coll[gen[w]] = "full" /\ dir[gen[w]] = "complete"
        /\ \A s \in Searchers : held[s] # gen[w]
    BY <2>1 DEF WorkerInv, StagingInv
  <2>4. /\ old[w] = IF Complete(pointer.cur) THEN pointer.cur ELSE None
        /\ old[w] # None => retired[old[w]] # Never /\ now <= retired[old[w]] + StallBound
    BY <2>1 DEF WorkerInv, SwapInv
  <2>5. FreshInv'
    <3>1. gen[w] \in Used
      BY <2>3 DEF FreshInv
    <3>2. \A g \in Gens \ Used : g # pointer'.cur /\ g # pointer'.prev
      BY <2>1, <2>4, <3>1 DEF FreshInv, Kept
    <3> QED
      BY <2>2, <3>2 DEF FreshInv, Used, Kept, reads
  <2>6. WorkerInv(w)'
    BY <2>1, <2>2, <2>3
    DEF WorkerInv, StagingInv, SwapInv, PublishedInv, CleanInv, WipeInv, Intact, Complete
  <2>7. ASSUME NEW s \in Searchers PROVE SearchInv(s)'
    <3>1. CASE Intact(held[s]) /\ held[s] = pointer.cur
      BY <2>1, <2>2, <2>3, <2>4, <3>1 DEF SearchInv, Intact, Complete, reads
    <3>2. CASE ~(Intact(held[s]) /\ held[s] = pointer.cur)
      BY <2>2, <3>2 DEF SearchInv, Intact, Complete, reads
    <3> QED
      BY <3>1, <3>2
  <2> QED
    BY <2>5, <2>6, <2>7 DEF StepKeeps
<1>3. CASE DropLegacy(w)
  <2>1. pc[w] = "legacy" /\ pc' = [pc EXCEPT ![w] = "clean"]
    BY <1>3 DEF DropLegacy
  <2>2. UNCHANGED <<now, pointer, dir, retired, coll, born, gen, task, reads>>
    BY <1>3 DEF DropLegacy, locals
  <2>3. FreshInv' /\ \A s \in Searchers : SearchInv(s)'
    BY <2>2, FreshFrame, SearchFrame DEF reads
  <2>4. WorkerInv(w)'
    BY <2>1, <2>2
    DEF WorkerInv, StagingInv, SwapInv, PublishedInv, CleanInv, WipeInv,
        CleanSteps, Intact, Complete
  <2> QED
    BY <2>3, <2>4 DEF StepKeeps
<1> QED
  BY <1>1, <1>2, <1>3

-----------------------------------------------------------------------------
(* Cleanup *)

\* Where a cleanup ends, the build's generation is still the active one.
LEMMA AfterCleanKeeps ==
  ASSUME IInv, NEW w \in Workers, pc[w] \in CleanSteps,
         pc' = [pc EXCEPT ![w] = AfterClean(w)],
         UNCHANGED <<pointer, gen, task>>,
         Intact(pointer.cur) => Intact(pointer.cur)'
  PROVE  WorkerInv(w)'
<1> USE DEF IInv, TypeOK, StagingSteps, CleanSteps
<1>1. pc'[w] = AfterClean(w)
  OBVIOUS
<1>2. CASE AfterClean(w) = "extract"
  BY <1>1, <1>2 DEF WorkerInv, StagingInv, SwapInv, PublishedInv, CleanInv, WipeInv
<1>3. CASE AfterClean(w) = "ok"
  <2>1. task[w] = "build" => gen[w] # None
    BY <1>3, AfterCleanSteps
  <2>2. PublishedInv(w)'
    BY <1>1, <1>3, <2>1 DEF WorkerInv, PublishedInv
  <2> QED
    BY <1>1, <1>3, <2>2 DEF WorkerInv, StagingInv, SwapInv, CleanInv, WipeInv
<1> QED
  BY <1>2, <1>3, AfterCleanSteps

\* Collections go only where no directory is complete: no active generation
\* and no generation a search can still use is among them.
LEMMA DropKeeps ==
  ASSUME IInv, NEW G \in SUBSET Gens,
         \A g \in G : dir[g] # "complete",
         \A g \in Gens : coll'[g] = coll[g] \/ (g \in G /\ coll'[g] = "absent"),
         UNCHANGED <<now, pointer, dir, retired, born, gen, reads>>
  PROVE  /\ FreshInv'
         /\ \A s \in Searchers : SearchInv(s)'
         /\ Intact(pointer.cur) => Intact(pointer.cur)'
<1> USE DEF IInv, TypeOK
<1>1. FreshInv'
  BY DEF FreshInv, Used, Kept, reads
<1>2. Intact(pointer.cur) => Intact(pointer.cur)'
  BY DEF Intact, Complete
<1>3. \A s \in Searchers : SearchInv(s)'
  BY SearchShrinks DEF Intact, Complete, reads
<1> QED
  BY <1>1, <1>2, <1>3

\* The steps of a cleanup that remove nothing old, and the collections of what it removed.
LEMMA CleanupEndKeeps ==
  ASSUME IInv, NEW w \in Workers,
         CleanupRefused(w) \/ RmtreeRaises(w) \/ SweepDone(w) \/ DropRemoved(w)
         \/ ListingFails(w) \/ DropAbandoned(w)
  PROVE  StepKeeps(w)
<1> USE DEF IInv, TypeOK, Goto, StagingSteps, CleanSteps
<1>1. ASSUME pc[w] \in CleanSteps, pc' = [pc EXCEPT ![w] = AfterClean(w)],
             UNCHANGED <<now, store, task, locals, reads>>
      PROVE  StepKeeps(w)
  <2>1. FreshInv' /\ \A s \in Searchers : SearchInv(s)'
    BY <1>1, FreshFrame, SearchFrame DEF store, reads, locals
  <2>2. WorkerInv(w)'
    BY <1>1, AfterCleanKeeps DEF store, locals, Intact, Complete
  <2> QED
    BY <2>1, <2>2 DEF StepKeeps
<1>2. CASE CleanupRefused(w)
  BY <1>1, <1>2 DEF CleanupRefused
<1>3. CASE RmtreeRaises(w)
  BY <1>1, <1>3 DEF RmtreeRaises
<1>4. CASE ListingFails(w)
  BY <1>1, <1>4 DEF ListingFails
<1>5. CASE SweepDone(w)
  <2>1. pc[w] = "sweep" /\ pc' = [pc EXCEPT ![w] = "drop"]
    BY <1>5 DEF SweepDone
  <2>2. UNCHANGED <<now, store, task, locals, reads>>
    BY <1>5 DEF SweepDone
  <2>3. FreshInv' /\ \A s \in Searchers : SearchInv(s)'
    BY <2>2, FreshFrame, SearchFrame DEF store, reads, locals
  <2>4. WorkerInv(w)'
    BY <2>1, <2>2
    DEF WorkerInv, StagingInv, SwapInv, PublishedInv, CleanInv, WipeInv, store, locals,
        Intact, Complete
  <2> QED
    BY <2>3, <2>4 DEF StepKeeps
<1>6. CASE DropRemoved(w)
  <2>1. pc[w] = "drop" /\ pc' = [pc EXCEPT ![w] = "abandon"]
    BY <1>6 DEF DropRemoved
  <2>2. UNCHANGED <<now, pointer, dir, retired, born, gen, task, reads>>
    BY <1>6 DEF DropRemoved, locals
  <2>3. PICK survivors \in SUBSET {g \in removed[w] : coll[g] # "absent"} :
           coll' = [g \in Gens |->
                      IF g \in removed[w] \ survivors THEN "absent" ELSE coll[g]]
    BY <1>6 DEF DropRemoved, DropCollections
  <2>4. \A g \in Gens : \/ coll'[g] = coll[g]
                        \/ g \in removed[w] /\ coll'[g] = "absent"
    BY <2>3
  <2>5. removed[w] \in SUBSET Gens /\ \A g \in removed[w] : dir[g] # "complete"
    BY <2>1 DEF WorkerInv, CleanInv
  <2>6. /\ FreshInv' /\ \A s \in Searchers : SearchInv(s)'
        /\ Intact(pointer.cur) => Intact(pointer.cur)'
    BY <2>2, <2>4, <2>5, DropKeeps
  <2>7. PublishedInv(w)'
    BY <2>1, <2>2, <2>6 DEF WorkerInv, PublishedInv
  <2> QED
    BY <2>1, <2>6, <2>7
    DEF StepKeeps, WorkerInv, StagingInv, SwapInv, CleanInv, WipeInv
<1>7. CASE DropAbandoned(w)
  <2>1. pc[w] = "abandon" /\ pc' = [pc EXCEPT ![w] = AfterClean(w)]
    BY <1>7 DEF DropAbandoned
  <2>2. UNCHANGED <<now, pointer, dir, retired, born, gen, task, reads>>
    BY <1>7 DEF DropAbandoned, locals
  <2>3. PICK survivors \in SUBSET Abandoned :
           coll' = [g \in Gens |->
                      IF g \in Abandoned \ survivors THEN "absent" ELSE coll[g]]
    BY <1>7 DEF DropAbandoned
  <2>4. \A g \in Gens : \/ coll'[g] = coll[g]
                        \/ g \in Abandoned /\ coll'[g] = "absent"
    BY <2>3
  <2>5. Abandoned \in SUBSET Gens /\ \A g \in Abandoned : dir[g] # "complete"
    BY DEF Abandoned
  <2>6. /\ FreshInv' /\ \A s \in Searchers : SearchInv(s)'
        /\ Intact(pointer.cur) => Intact(pointer.cur)'
    BY <2>2, <2>4, <2>5, DropKeeps
  <2>7. WorkerInv(w)'
    BY <2>1, <2>2, <2>6, AfterCleanKeeps
  <2> QED
    BY <2>6, <2>7 DEF StepKeeps
<1> QED
  BY <1>2, <1>3, <1>4, <1>5, <1>6, <1>7

\* The directories and collections that a cleanup removes.
LEMMA SweepKeepsInv ==
  ASSUME IInv, NEW w \in Workers,
         \/ CleanupStart(w)
         \/ \E g \in Gens : \/ SweepStamps(w, g) \/ SweepKeeps(w, g)
                            \/ SweepRemoves(w, g) \/ RmtreeDone(w, g)
  PROVE  StepKeeps(w)
<1> USE BoundsAssumption DEF IInv, TypeOK, Goto, StagingSteps, CleanSteps, Gens, None, Never, Times
<1>1. CASE CleanupStart(w)
  <2>1. /\ pc[w] = "clean" /\ pc' = [pc EXCEPT ![w] = "sweep"]
        /\ cleanAt'[w] = now /\ todo'[w] = Candidates /\ removed'[w] = {}
    BY <1>1 DEF CleanupStart
  <2>2. UNCHANGED <<now, store, task, gen, reads>>
    BY <1>1 DEF CleanupStart
  <2>3. FreshInv' /\ \A s \in Searchers : SearchInv(s)'
    BY <2>2, FreshFrame, SearchFrame DEF store, reads
  <2>4. Candidates \subseteq Used \ Kept
    BY DEF Candidates, FreshInv
  <2>5. CleanInv(w)'
    BY <2>1, <2>2, <2>4 DEF CleanInv, Used, Kept, store
  <2>6. PublishedInv(w)'
    BY <2>1, <2>2 DEF WorkerInv, PublishedInv, Intact, Complete, store
  <2> QED
    BY <2>1, <2>3, <2>5, <2>6 DEF StepKeeps, WorkerInv, StagingInv, SwapInv, WipeInv
<1>2. ASSUME NEW g \in Gens, SweepStamps(w, g) PROVE StepKeeps(w)
  <2>1. /\ pc[w] = "sweep" /\ pc' = pc /\ Complete(g) /\ retired[g] = Never
        /\ retired' = [retired EXCEPT ![g] = now]
        /\ todo'[w] = todo[w] \ {g}
    BY <1>2 DEF SweepStamps
  <2>2. UNCHANGED <<now, pointer, dir, coll, born, task, gen, cleanAt, removed, reads>>
    BY <1>2 DEF SweepStamps
  <2>3. FreshInv'
    BY <2>2, FreshFrame DEF reads
  <2>4. \A s \in Searchers : SearchInv(s)'
    BY <2>1, <2>2 DEF SearchInv, Intact, Complete, reads
  <2>5. CleanInv(w)'
    BY <2>1, <2>2 DEF WorkerInv, CleanInv, Used, Kept
  <2>6. PublishedInv(w)'
    BY <2>1, <2>2 DEF WorkerInv, PublishedInv, Intact, Complete
  <2> QED
    BY <2>1, <2>3, <2>4, <2>5, <2>6 DEF StepKeeps, WorkerInv, StagingInv, SwapInv, WipeInv
<1>3. ASSUME NEW g \in Gens, SweepKeeps(w, g) PROVE StepKeeps(w)
  <2>1. /\ pc[w] = "sweep" /\ pc' = pc /\ todo'[w] = todo[w] \ {g}
    BY <1>3 DEF SweepKeeps
  <2>2. UNCHANGED <<now, store, task, gen, cleanAt, removed, reads>>
    BY <1>3 DEF SweepKeeps
  <2>3. FreshInv' /\ \A s \in Searchers : SearchInv(s)'
    BY <2>2, FreshFrame, SearchFrame DEF store, reads
  <2>4. CleanInv(w)'
    BY <2>1, <2>2 DEF WorkerInv, CleanInv, Used, Kept, store
  <2>5. PublishedInv(w)'
    BY <2>1, <2>2 DEF WorkerInv, PublishedInv, Intact, Complete, store
  <2> QED
    BY <2>1, <2>3, <2>4, <2>5 DEF StepKeeps, WorkerInv, StagingInv, SwapInv, WipeInv
<1>4. ASSUME NEW g \in Gens, SweepRemoves(w, g) PROVE StepKeeps(w)
  <2>1. /\ pc[w] = "sweep" /\ pc' = [pc EXCEPT ![w] = "rmtree"] /\ Newest(w, g)
        /\ dir' = [dir EXCEPT ![g] = "partial"]
        /\ removed'[w] \subseteq removed[w] \cup {g}
    BY <1>4 DEF SweepRemoves
  <2>2. UNCHANGED <<now, pointer, retired, coll, born, task, gen, todo, cleanAt, reads>>
    BY <1>4 DEF SweepRemoves
  <2>3. g \in Used \ Kept
    BY <2>1 DEF WorkerInv, CleanInv, Newest
  <2>4. FreshInv'
    BY <2>1, <2>2, <2>3 DEF FreshInv, Used, Kept, reads
  <2>5. \A s \in Searchers : SearchInv(s)'
    BY <2>1, <2>2, SearchShrinks DEF Intact, Complete, reads
  <2>6. CleanInv(w)'
    <3>1. todo'[w] \subseteq (Used \ Kept)' /\ cleanAt'[w] <= now'
      BY <2>1, <2>2 DEF WorkerInv, CleanInv, Used, Kept
    <3>2. \A h \in removed'[w] : dir'[h] # "complete"
      BY <2>1 DEF WorkerInv, CleanInv
    <3>3. ASSUME NEW h \in Gens, Newest(w, h)' PROVE dir'[h] # "complete"
      <4>1. h = g
        BY <2>1, <2>2, <3>3 DEF Newest
      <4> QED
        BY <2>1, <4>1
    <3> QED
      BY <3>1, <3>2, <3>3 DEF CleanInv
  <2>7. PublishedInv(w)'
    BY <2>1, <2>2, <2>3 DEF WorkerInv, PublishedInv, Intact, Complete, Kept
  <2> QED
    BY <2>1, <2>4, <2>5, <2>6, <2>7 DEF StepKeeps, WorkerInv, StagingInv, SwapInv, WipeInv
<1>5. ASSUME NEW g \in Gens, RmtreeDone(w, g) PROVE StepKeeps(w)
  <2>1. /\ pc[w] = "rmtree" /\ pc' = [pc EXCEPT ![w] = "sweep"] /\ Newest(w, g)
        /\ dir' = [dir EXCEPT ![g] = "none"]
        /\ retired' = [retired EXCEPT ![g] = Never]
        /\ todo'[w] = todo[w] \ {g}
    BY <1>5 DEF RmtreeDone
  <2>2. UNCHANGED <<now, pointer, coll, born, task, gen, cleanAt, removed, reads>>
    BY <1>5 DEF RmtreeDone
  <2>3. g \in Used \ Kept
    BY <2>1 DEF WorkerInv, CleanInv, Newest
  <2>4. FreshInv'
    BY <2>1, <2>2, <2>3 DEF FreshInv, Used, Kept, reads
  <2>5. \A s \in Searchers : SearchInv(s)'
    BY <2>1, <2>2, SearchShrinks DEF Intact, Complete, reads
  <2>6. CleanInv(w)'
    BY <2>1, <2>2 DEF WorkerInv, CleanInv, Used, Kept
  <2>7. PublishedInv(w)'
    BY <2>1, <2>2, <2>3 DEF WorkerInv, PublishedInv, Intact, Complete, Kept
  <2> QED
    BY <2>1, <2>4, <2>5, <2>6, <2>7 DEF StepKeeps, WorkerInv, StagingInv, SwapInv, WipeInv
<1> QED
  BY <1>1, <1>2, <1>3, <1>4, <1>5

-----------------------------------------------------------------------------
(* Delete *)

\* Delete removes the pointer and everything else.
LEMMA DeleteKeeps ==
  ASSUME IInv, NEW w \in Workers, DeleteStep(w)
  PROVE  StepKeeps(w)
<1> USE DEF IInv, TypeOK, Goto, StagingSteps, CleanSteps, DeleteSteps
<1>1. CASE PurgeCollections(w)
  <2>1. PICK left \in [Gens -> {"absent", "partial", "full"}],
             missed \in SUBSET Unrecognised, legacyLeft \in {FALSE, legacyColl},
             listed \in BOOLEAN :
           LET clean == Purged(left, missed, legacyLeft, listed)
           IN /\ \A g \in Gens :
                   /\ coll[g] = "absent" => left[g] = "absent"
                   /\ left[g] = "full" => coll[g] = "full"
              /\ coll' = left
              /\ legacyColl' = legacyLeft
              /\ Charge(~clean)
              /\ Goto(w, IF clean THEN "wipe" ELSE "failed")
    BY <1>1, Zenon DEF PurgeCollections
  <2>2. UNCHANGED <<now, pointer, dir, retired, born, locals, reads>>
    BY <1>1, Zenon DEF PurgeCollections
  <2>3. gen' = gen
    BY <2>2 DEF locals
  <2>4. FreshInv'
    <3>1. coll' = left /\ \A g \in Gens : coll[g] = "absent" => coll'[g] = "absent"
      BY <2>1
    <3> QED
      BY <3>1, <2>2, <2>3 DEF FreshInv, Used, Kept, reads
  <2>5. \A s \in Searchers : SearchInv(s)'
    BY <2>1, <2>2, SearchShrinks DEF Intact, Complete, reads
  <2>6. WorkerInv(w)'
    <3>1. CASE Purged(left, missed, legacyLeft, listed)
      <4>1. pc' = [pc EXCEPT ![w] = "wipe"]
        BY <2>1, <3>1, Zenon
      <4>2. \A g \in Gens : coll'[g] # "full"
        BY <2>1, <3>1 DEF Purged, Unrecognised
      <4> QED
        BY <4>1, <4>2 DEF WorkerInv, StagingInv, SwapInv, PublishedInv, CleanInv, WipeInv
    <3>2. CASE ~Purged(left, missed, legacyLeft, listed)
      <4>1. pc' = [pc EXCEPT ![w] = "failed"]
        BY <2>1, <3>2, Zenon
      <4> QED
        BY <4>1 DEF WorkerInv, StagingInv, SwapInv, PublishedInv, CleanInv, WipeInv
    <3> QED
      BY <3>1, <3>2
  <2> QED
    BY <2>4, <2>5, <2>6 DEF StepKeeps
<1>2. ASSUME pc[w] = "wipe", pc' = [pc EXCEPT ![w] = "ok"],
             pointer' \in {NoPointer, pointer},
             \A g \in Gens : dir[g] = "none" => dir'[g] = "none",
             UNCHANGED <<now, coll, born, gen, task, reads>>
      PROVE  StepKeeps(w)
  <2>1. task[w] = "delete" /\ \A g \in Gens : coll[g] # "full"
    BY <1>2 DEF LockInv, WorkerInv, WipeInv
  <2>2. FreshInv'
    BY <1>2 DEF FreshInv, Used, Kept, NoPointer, reads, Gens, None
  <2>3. \A s \in Searchers : SearchInv(s)'
    BY <1>2, <2>1 DEF SearchInv, Intact, Complete, reads
  <2>4. WorkerInv(w)'
    BY <1>2, <2>1 DEF WorkerInv, StagingInv, SwapInv, PublishedInv, CleanInv, WipeInv
  <2> QED
    BY <2>2, <2>3, <2>4 DEF StepKeeps
<1>3. CASE WipeDirectory(w)
  BY <1>2, <1>3 DEF WipeDirectory, locals
<1>4. CASE WipePartly(w)
  <2>1. \A g \in Gens : dir[g] = "none" => dir'[g] = "none"
    BY <1>4 DEF WipePartly
  <2> QED
    BY <1>2, <1>4, <2>1 DEF WipePartly, locals
<1> QED
  BY <1>1, <1>3, <1>4 DEF DeleteStep

-----------------------------------------------------------------------------
(* The lock, searches and time *)

\* Every step of a worker inside.
LEMMA InsideKeeps ==
  ASSUME IInv, NEW w \in Workers, BuildStep(w) \/ CleanupStep(w) \/ DeleteStep(w)
  PROVE  StepKeeps(w)
  BY EarlyBuildKeeps, StagingKeeps, PublishKeeps, CleanupEndKeeps, SweepKeepsInv,
     DeleteKeeps DEF BuildStep, CleanupStep

\* The lock is taken and released, by the code or by the kernel.
LEMMA LockMoveKeeps ==
  ASSUME IInv, NEW w \in Workers,
         (\E op \in Ops : Acquire(w, op)) \/ Release(w) \/ Crash(w)
  PROVE  /\ StepKeeps(w)
         /\ \A v \in Workers \ {w} : pc'[v] = pc[v]
<1> USE OpsAssumption DEF IInv, TypeOK, Goto, StagingSteps, CleanSteps
<1>1. ASSUME NEW op \in Ops, Acquire(w, op) PROVE StepKeeps(w)
  <2>1. /\ pc[w] = "idle" /\ pc'[w] \in {"load", "clean", "purge"}
        /\ pc'[w] = "clean" => task'[w] = "recover"
    BY <1>1 DEF Acquire, AllOps
  <2>2. UNCHANGED <<now, store, locals, reads>>
    BY <1>1 DEF Acquire
  <2>3. FreshInv' /\ \A s \in Searchers : SearchInv(s)'
    BY <2>2, FreshFrame, SearchFrame DEF store, reads, locals
  <2>4. WorkerInv(w)'
    BY <2>1 DEF WorkerInv, StagingInv, SwapInv, PublishedInv, CleanInv, WipeInv
  <2> QED
    BY <2>3, <2>4 DEF StepKeeps
<1>2. ASSUME Release(w) \/ Crash(w) PROVE StepKeeps(w)
  <2>1. pc' = [pc EXCEPT ![w] = "idle"] /\ gen' = [gen EXCEPT ![w] = None]
    BY <1>2 DEF Release, Crash, Leave, ForgetLocals
  <2>2. UNCHANGED <<now, store, reads>>
    BY <1>2 DEF Release, Crash
  <2>3. FreshInv'
    BY <2>1, <2>2 DEF FreshInv, Used, Kept, store, reads, Gens, None
  <2>4. \A s \in Searchers : SearchInv(s)'
    BY <2>2, SearchFrame DEF store, reads
  <2>5. WorkerInv(w)'
    BY <2>1 DEF WorkerInv, StagingInv, SwapInv, PublishedInv, CleanInv, WipeInv
  <2> QED
    BY <2>3, <2>4, <2>5 DEF StepKeeps
<1>3. \A v \in Workers \ {w} : pc'[v] = pc[v]
  <2>1. CASE \E op \in Ops : Acquire(w, op)
    <3>1. \E step : pc' = [pc EXCEPT ![w] = step]
      BY <2>1, Zenon DEF Acquire
    <3> QED
      BY <3>1
  <2>2. CASE Release(w) \/ Crash(w)
    BY <2>2 DEF Release, Crash, Leave
  <2> QED
    BY <2>1, <2>2
<1> QED
  BY <1>1, <1>2, <1>3

\* A new search gets a kept generation: never one that is being staged.
LEMMA SearchKeeps ==
  ASSUME IInv, NEW s \in Searchers, SearchStep(s)
  PROVE  /\ FreshInv'
         /\ \A w \in Workers : WorkerInv(w)'
         /\ \A t \in Searchers : SearchInv(t)'
<1> USE BoundsAssumption DEF IInv, TypeOK, Gens, None, Never, Times, MaybeGen
<1>1. UNCHANGED <<now, store, pc, task, gen, old, cleanAt, todo, removed>>
  BY DEF SearchStep, SearchResolves, SearchResolvesLegacy, SearchLoadsGraph,
     SearchEnds, workers, locals
<1>2. \A t \in Searchers : held'[t] \in {held[t], None} \cup ({pointer.cur} \cap Gens)
  BY DEF SearchStep, SearchResolves, SearchResolvesLegacy, SearchLoadsGraph,
     SearchEnds, Complete
<1>3. FreshInv'
  BY <1>1, <1>2 DEF FreshInv, Used, Kept, store
<1>4. ASSUME NEW w \in Workers PROVE WorkerInv(w)'
  <2>1. StagingInv(w)'
    BY <1>1, <1>2 DEF WorkerInv, StagingInv, StagingSteps, Used, Kept, store
  <2>2. (SwapInv(w) /\ PublishedInv(w) /\ CleanInv(w) /\ WipeInv(w))'
    BY <1>1 DEF WorkerInv, SwapInv, PublishedInv, CleanInv, WipeInv, CleanSteps,
       Intact, Complete, Newest, Used, Kept, store
  <2> QED
    BY <2>1, <2>2 DEF WorkerInv
<1>5. ASSUME NEW t \in Searchers PROVE SearchInv(t)'
  <2>1. CASE SearchResolves(s)
    BY <1>1, <2>1 DEF SearchResolves, SearchInv, Intact, Complete, store
  <2>2. CASE SearchResolvesLegacy(s)
    BY <1>1, <2>2 DEF SearchResolvesLegacy, SearchInv, Intact, Complete, store
  <2>3. CASE SearchLoadsGraph(s)
    BY <1>1, <2>3 DEF SearchLoadsGraph, SearchInv, Intact, Complete, store
  <2>4. CASE SearchEnds(s)
    BY <1>1, <2>4 DEF SearchEnds, SearchInv, Intact, Complete, store
  <2> QED
    BY <2>1, <2>2, <2>3, <2>4 DEF SearchStep
<1> QED
  BY <1>3, <1>4, <1>5

\* Time passes.
LEMMA TickKeeps ==
  ASSUME IInv, Tick
  PROVE  /\ FreshInv'
         /\ \A w \in Workers : WorkerInv(w)'
         /\ \A s \in Searchers : SearchInv(s)'
<1> USE BoundsAssumption DEF IInv, TypeOK, Gens, None, Never, Times, MaybeGen
<1>1. now' = now + 1 /\ UNCHANGED <<store, workers, reads>>
  BY DEF Tick
<1>2. FreshInv'
  BY <1>1, FreshFrame DEF store, workers, locals, reads
<1>3. ASSUME NEW w \in Workers PROVE WorkerInv(w)'
  <2>1. SwapInv(w)'
    BY <1>1 DEF WorkerInv, SwapInv, Tick, Complete, store, workers, locals
  <2>2. (StagingInv(w) /\ PublishedInv(w) /\ WipeInv(w))'
    BY <1>1 DEF WorkerInv, StagingInv, PublishedInv, WipeInv, StagingSteps, CleanSteps,
       Intact, Complete, Used, Kept, store, workers, locals, reads
  <2>3. CleanInv(w)'
    <3>1. UNCHANGED <<pc, todo, removed, cleanAt, Used, Kept, dir>>
      BY <1>1 DEF Used, Kept, store, workers, locals
    <3>2. \A g \in Gens : Newest(w, g)' <=> Newest(w, g)
      BY <1>1 DEF Newest, Used, Kept, store, workers, locals
    <3>3. cleanAt[w] <= now => cleanAt[w] <= now + 1
      OBVIOUS
    <3> QED
      BY <1>1, <3>1, <3>2, <3>3 DEF WorkerInv, CleanInv
  <2> QED
    BY <2>1, <2>2, <2>3 DEF WorkerInv
<1>4. ASSUME NEW s \in Searchers PROVE SearchInv(s)'
  BY <1>1 DEF Tick, SearchInv, Intact, Complete, store, reads
<1> QED
  BY <1>2, <1>3, <1>4

-----------------------------------------------------------------------------
(* The invariant *)

\* The invariant holds at first.
LEMMA InvInit == Init => IInv
<1> SUFFICES ASSUME Init PROVE IInv
  OBVIOUS
<1>1. TypeOK /\ LockInv
  BY TypeInit, LockInit
<1>2. FreshInv
  BY DEF Init, FreshInv, Kept, Used, NoPointer, Gens, None
<1>3. IdleInv /\ \A w \in Workers : WorkerInv(w)
  BY IdleWorker DEF Init, IdleInv
<1>4. \A s \in Searchers : SearchInv(s)
  BY DEF Init, SearchInv
<1> QED
  BY <1>1, <1>2, <1>3, <1>4 DEF IInv

\* Only StartEmbed gives a worker a generation, and only Leave takes it away.
LEMMA GenMoves ==
  ASSUME IInv, NEW w \in Workers, BuildStep(w) \/ CleanupStep(w) \/ DeleteStep(w)
  PROVE  /\ \A v \in Workers \ {w} : gen'[v] = gen[v]
         /\ pc'[w] \in {"idle", "load", "extract"} => gen'[w] = None
<1> USE DEF IInv, TypeOK, Goto
<1>1. CASE StartEmbed(w)
  <2>1. PICK g \in Gens : gen' = [gen EXCEPT ![w] = g]
    BY <1>1 DEF StartEmbed
  <2>2. pc' = [pc EXCEPT ![w] = "embed"]
    BY <1>1 DEF StartEmbed
  <2> QED
    BY <2>1, <2>2
<1>2. ASSUME BuildStep(w), ~StartEmbed(w)
      PROVE  gen' = gen /\ pc'[w] \notin {"idle", "load", "extract"}
  <2>1. CASE SwapPointer(w)
    <3>1. pc' \in {[pc EXCEPT ![w] = "legacy"], [pc EXCEPT ![w] = "clean"]}
      BY <2>1, Zenon DEF SwapPointer
    <3> QED
      BY <2>1, <3>1 DEF SwapPointer, locals
  <2>2. CASE UpToDate(w) \/ BuildRaises(w) \/ FinishEmbed(w) \/ WriteFiles(w)
    <3>1. UNCHANGED locals
      BY <2>2 DEF UpToDate, BuildRaises, FinishEmbed, WriteFiles
    <3>2. pc' \in {[pc EXCEPT ![w] = "ok"], [pc EXCEPT ![w] = "failed"],
                   [pc EXCEPT ![w] = "write"], [pc EXCEPT ![w] = "seal"]}
      BY <2>2, Zenon DEF UpToDate, BuildRaises, FinishEmbed, WriteFiles
    <3> QED
      BY <3>1, <3>2 DEF locals
  <2>3. CASE Load(w)
    <3>1. gen' = gen /\ pc' = [pc EXCEPT ![w] = "clean"]
      BY <2>3 DEF Load
    <3> QED
      BY <3>1
  <2>4. CASE WriteMetadata(w) \/ StampRetired(w) \/ DropLegacy(w) \/ SaveRaises(w)
    <3>1. gen' = gen
      BY <2>4 DEF WriteMetadata, StampRetired, DropLegacy, SaveRaises, locals
    <3>2. pc' \in {[pc EXCEPT ![w] = "stamp"], [pc EXCEPT ![w] = "swap"],
                   [pc EXCEPT ![w] = "clean"], [pc EXCEPT ![w] = "abort"]}
      BY <2>4, Zenon DEF WriteMetadata, StampRetired, DropLegacy, SaveRaises
    <3> QED
      BY <3>1, <3>2
  <2>5. CASE AbortDirectory(w) \/ AbortCollection(w)
    BY <2>5 DEF AbortDirectory, AbortCollection, locals
  <2> QED
    BY <1>2, <2>1, <2>2, <2>4, <2>5, <2>3 DEF BuildStep
<1>3. ASSUME CleanupStep(w)
      PROVE  /\ gen' = gen
             /\ pc'[w] \in {"idle", "load", "extract"} => AfterClean(w) = "extract"
  <2>1. CASE CleanupRefused(w) \/ RmtreeRaises(w) \/ ListingFails(w) \/ DropAbandoned(w)
    <3>1. pc' = [pc EXCEPT ![w] = AfterClean(w)]
      BY <2>1 DEF CleanupRefused, RmtreeRaises, ListingFails, DropAbandoned
    <3>2. UNCHANGED locals
      BY <2>1 DEF CleanupRefused, RmtreeRaises, ListingFails, DropAbandoned
    <3> QED
      BY <3>1, <3>2, AfterCleanSteps DEF locals
  <2>2. CASE CleanupStart(w) \/ SweepDone(w) \/ DropRemoved(w)
    BY <2>2 DEF CleanupStart, SweepDone, DropRemoved, locals
  <2>3. ASSUME NEW g \in Gens, \/ SweepStamps(w, g) \/ SweepKeeps(w, g)
                                \/ SweepRemoves(w, g) \/ RmtreeDone(w, g)
        PROVE  gen' = gen /\ pc'[w] \notin {"idle", "load", "extract"}
    BY <2>3 DEF SweepStamps, SweepKeeps, SweepRemoves, RmtreeDone
  <2> QED
    BY <1>3, <2>1, <2>2, <2>3 DEF CleanupStep
<1>4. ASSUME DeleteStep(w)
      PROVE  gen' = gen /\ pc'[w] \notin {"idle", "load", "extract"}
  <2>1. UNCHANGED locals
    BY <1>4 DEF DeleteStep, PurgeCollections, WipeDirectory, WipePartly
  <2>2. pc' \in {[pc EXCEPT ![w] = "wipe"], [pc EXCEPT ![w] = "failed"],
                 [pc EXCEPT ![w] = "ok"]}
    BY <1>4, Zenon DEF DeleteStep, PurgeCollections, WipeDirectory, WipePartly
  <2> QED
    BY <2>1, <2>2 DEF locals
<1> QED
  BY <1>1, <1>2, <1>3, <1>4, AfterCleanSteps

\* An idle worker has nothing under way.
LEMMA IdleStep == IInv /\ [Next]_vars => IdleInv'
<1> SUFFICES ASSUME IInv, [Next]_vars PROVE IdleInv'
  OBVIOUS
<1> USE OpsAssumption DEF IInv, TypeOK, IdleInv, Goto
<1>1. ASSUME NEW w \in Workers, NEW op \in Ops, Acquire(w, op) PROVE IdleInv'
  <2>1. gen' = gen /\ pc[w] = "idle" /\ \A v \in Workers \ {w} : pc'[v] = pc[v]
    BY <1>1, LockMoveKeeps DEF Acquire, locals
  <2> QED
    BY <2>1
<1>2. ASSUME NEW w \in Workers, Release(w) \/ Crash(w) PROVE IdleInv'
  BY <1>2 DEF Release, Crash, Leave, ForgetLocals
<1>3. ASSUME NEW w \in Workers, BuildStep(w) \/ CleanupStep(w) \/ DeleteStep(w)
      PROVE  IdleInv'
  BY <1>3, GenMoves, StepsInside
<1>4. ASSUME NEW s \in Searchers, SearchStep(s) PROVE IdleInv'
  BY <1>4 DEF SearchStep, SearchResolves, SearchResolvesLegacy, SearchLoadsGraph,
     SearchEnds, workers, locals
<1>5. CASE Tick \/ UNCHANGED vars
  BY <1>5 DEF Tick, vars, workers, locals
<1> QED
  BY <1>1, <1>2, <1>3, <1>4, <1>5 DEF Next, WorkerStep

\* Every action keeps the invariant.
LEMMA InvStep == IInv /\ [Next]_vars => IInv'
<1> SUFFICES ASSUME IInv, [Next]_vars PROVE IInv'
  OBVIOUS
<1>1. TypeOK' /\ LockInv' /\ IdleInv'
  BY TypeStep, LockStep, IdleStep DEF IInv
<1> DEFINE Parts == /\ FreshInv'
                    /\ \A w \in Workers : WorkerInv(w)'
                    /\ \A s \in Searchers : SearchInv(s)'
<1>2. ASSUME NEW w \in Workers, NEW op \in Ops, Acquire(w, op) PROVE Parts
  <2>1. StepKeeps(w) /\ \A v \in Workers \ {w} : pc'[v] = pc[v]
    BY <1>2, LockMoveKeeps
  <2>2. lock = NoWorker
    BY <1>2 DEF Acquire
  <2>3. ASSUME NEW v \in Workers \ {w} PROVE pc'[v] = "idle"
    BY <2>1, <2>2, WorkersAssumption DEF IInv, LockInv, Inside
  <2>4. \A v \in Workers \ {w} : WorkerInv(v)'
    BY <2>3 DEF WorkerInv, StagingInv, SwapInv, PublishedInv, CleanInv, WipeInv,
       StagingSteps, CleanSteps
  <2> QED
    BY <2>1, <2>4 DEF StepKeeps
<1>3. ASSUME NEW w \in Workers, Inside(w), StepKeeps(w),
             \A v \in Workers \ {w} : pc'[v] = pc[v]
      PROVE  Parts
  BY <1>3, WorkerFrame DEF IInv, StepKeeps
<1>4. ASSUME NEW w \in Workers, Release(w) \/ Crash(w) PROVE Parts
  <2>1. Inside(w)
    BY <1>4 DEF Release, Crash, Inside
  <2> QED
    BY <1>3, <1>4, <2>1, LockMoveKeeps
<1>5. ASSUME NEW w \in Workers, BuildStep(w) \/ CleanupStep(w) \/ DeleteStep(w)
      PROVE  Parts
  <2>1. Inside(w) /\ \A v \in Workers \ {w} : pc'[v] = pc[v]
    BY <1>5, StepsInside DEF IInv
  <2> QED
    BY <1>3, <1>5, <2>1, InsideKeeps
<1>6. ASSUME NEW s \in Searchers, SearchStep(s) PROVE Parts
  BY <1>6, SearchKeeps
<1>7. CASE Tick
  BY <1>7, TickKeeps, <1>1 DEF IInv
<1>8. CASE UNCHANGED vars
  <2>1. FreshInv' /\ \A s \in Searchers : SearchInv(s)'
    BY <1>8, FreshFrame, SearchFrame DEF IInv, vars, store, workers, locals, reads
  <2>2. \A w \in Workers : WorkerInv(w)'
    BY <1>8 DEF IInv, WorkerInv, StagingInv, SwapInv, PublishedInv, CleanInv, WipeInv,
       Used, Kept, Newest, Intact, Complete, vars, store, workers, locals, reads
  <2> QED
    BY <1>1, <2>1, <2>2 DEF IInv
<1> QED
  BY <1>1, <1>2, <1>4, <1>5, <1>6, <1>7, <1>8 DEF Next, WorkerStep, IInv

\* The strengthening of every safety property below.
THEOREM Inductive == Spec => []IInv
  BY InvInit, InvStep, PTL DEF Spec

-----------------------------------------------------------------------------
(* The properties *)

\* A build that reports success has left an index that answers searches.
THEOREM SuccessServes == Spec => []SuccessMeansServing
<1>1. IInv => SuccessMeansServing
  BY DEF IInv, WorkerInv, PublishedInv, SuccessMeansServing
<1> QED
  BY <1>1, Inductive, PTL

\* Whatever breaks a whole generation is a delete, the build that stages it, or
\* a cleanup that found it retired for longer than the grace period.
LEMMA Damage ==
  ASSUME IInv, [Next]_vars, NEW g \in Gens, Intact(g), ~Intact(g)'
  PROVE  \/ Deleting
         \/ \E w \in Workers : pc[w] \in StagingSteps /\ gen[w] = g
         \/ \E w \in Workers : /\ pc[w] = "sweep" /\ g \in todo[w]
                               /\ Expired(w, g)
<1> DEFINE Goal == \/ Deleting
                   \/ \E w \in Workers : pc[w] \in StagingSteps /\ gen[w] = g
                   \/ \E w \in Workers : /\ pc[w] = "sweep" /\ g \in todo[w]
                                         /\ Expired(w, g)
<1> USE DEF IInv, TypeOK
<1>1. \/ dir[g] = "complete" /\ dir'[g] # "complete"
      \/ coll[g] = "full" /\ coll'[g] # "full"
  BY DEF Intact, Complete
<1>2. dir[g] = "complete" /\ coll[g] = "full"
  BY DEF Intact, Complete
<1>3. ASSUME NEW w \in Workers, BuildStep(w) PROVE Goal
  <2>1. CASE StartEmbed(w)
    <3>1. PICK h \in Gens : /\ \A f \in Gens : f < h <=> f \in Used
                           /\ coll' = [coll EXCEPT ![h] = "partial"]
      BY <2>1 DEF StartEmbed
    <3>2. h \notin Used
      BY <3>1 DEF Gens
    <3>3. h # g
      BY <1>2, <3>2 DEF FreshInv
    <3> QED
      BY <1>1, <2>1, <3>1, <3>3 DEF StartEmbed
  <2>2. CASE FinishEmbed(w) \/ WriteFiles(w) \/ WriteMetadata(w)
    <3>1. /\ pc[w] \in StagingSteps
          /\ \A h \in Gens \ {gen[w]} : dir'[h] = dir[h] /\ coll'[h] = coll[h]
      BY <2>2 DEF FinishEmbed, WriteFiles, WriteMetadata, StagingSteps
    <3> QED
      BY <1>1, <3>1
  <2>3. CASE AbortDirectory(w)
    <3>1. pc[w] \in StagingSteps /\ coll' = coll
      BY <2>3 DEF AbortDirectory, StagingSteps
    <3>2. PICK left \in {"none", "partial"} : dir' = [dir EXCEPT ![gen[w]] = left]
      BY <2>3 DEF AbortDirectory
    <3> QED
      BY <1>1, <3>1, <3>2
  <2>4. CASE AbortCollection(w)
    <3>1. pc[w] \in StagingSteps /\ dir' = dir
      BY <2>4 DEF AbortCollection, StagingSteps
    <3>2. PICK survivors \in SUBSET {h \in {gen[w]} : coll[h] # "absent"} :
             coll' = [h \in Gens |-> IF h \in {gen[w]} \ survivors THEN "absent" ELSE coll[h]]
      BY <2>4 DEF AbortCollection, DropCollections
    <3> QED
      BY <1>1, <3>1, <3>2
  <2>5. ASSUME UNCHANGED <<dir, coll>> PROVE FALSE
    BY <1>1, <2>5
  <2>6. CASE UpToDate(w) \/ Load(w) \/ BuildRaises(w)
    BY <2>5, <2>6 DEF UpToDate, Load, BuildRaises, store
  <2>7. CASE StampRetired(w) \/ SwapPointer(w) \/ DropLegacy(w) \/ SaveRaises(w)
    BY <2>5, <2>7 DEF StampRetired, SwapPointer, DropLegacy, SaveRaises, store
  <2> QED
    BY <1>3, <2>1, <2>2, <2>3, <2>4, <2>6, <2>7 DEF BuildStep
<1>4. ASSUME NEW w \in Workers, CleanupStep(w) PROVE Goal
  <2>1. ASSUME UNCHANGED <<dir, coll>> PROVE FALSE
    BY <1>1, <2>1
  <2>2. CASE CleanupRefused(w) \/ CleanupStart(w) \/ RmtreeRaises(w) \/ SweepDone(w)
             \/ ListingFails(w)
    BY <2>1, <2>2 DEF CleanupRefused, CleanupStart, RmtreeRaises, SweepDone, ListingFails, store
  <2>3. ASSUME NEW h \in Gens, SweepStamps(w, h) \/ SweepKeeps(w, h) PROVE Goal
    BY <2>1, <2>3 DEF SweepStamps, SweepKeeps, store
  <2>4. ASSUME NEW h \in Gens, SweepRemoves(w, h) PROVE Goal
    <3>1. /\ pc[w] = "sweep" /\ h \in todo[w] /\ (~Complete(h) \/ Expired(w, h))
          /\ dir' = [dir EXCEPT ![h] = "partial"] /\ coll' = coll
      BY <2>4 DEF SweepRemoves, Newest
    <3>2. h = g
      BY <1>1, <3>1
    <3>3. Expired(w, g)
      BY <1>2, <3>1, <3>2 DEF Complete, Expired
    <3> QED
      BY <3>1, <3>2, <3>3, Zenon
  <2>5. ASSUME NEW h \in Gens, RmtreeDone(w, h) PROVE Goal
    <3>1. /\ pc[w] = "rmtree" /\ Newest(w, h)
          /\ dir' = [dir EXCEPT ![h] = "none"] /\ coll' = coll
      BY <2>5 DEF RmtreeDone
    <3> QED
      BY <1>1, <3>1 DEF WorkerInv, CleanInv
  <2>6. CASE DropRemoved(w)
    <3>1. pc[w] = "drop" /\ dir' = dir
      BY <2>6 DEF DropRemoved
    <3>2. PICK survivors \in SUBSET {h \in removed[w] : coll[h] # "absent"} :
             coll' = [h \in Gens |-> IF h \in removed[w] \ survivors THEN "absent" ELSE coll[h]]
      BY <2>6 DEF DropRemoved, DropCollections
    <3>3. g \notin removed[w]
      BY <1>2, <3>1 DEF WorkerInv, CleanInv
    <3> QED
      BY <1>1, <3>1, <3>2, <3>3
  <2>7. CASE DropAbandoned(w)
    <3>1. dir' = dir
      BY <2>7 DEF DropAbandoned
    <3>2. PICK survivors \in SUBSET Abandoned :
             coll' = [h \in Gens |->
                        IF h \in Abandoned \ survivors THEN "absent" ELSE coll[h]]
      BY <2>7 DEF DropAbandoned
    <3>3. g \notin Abandoned
      BY <1>2 DEF Abandoned
    <3> QED
      BY <1>1, <3>1, <3>2, <3>3
  <2> QED
    BY <1>4, <2>2, <2>3, <2>4, <2>5, <2>6, <2>7 DEF CleanupStep
<1>5. ASSUME NEW w \in Workers, DeleteStep(w) PROVE Goal
  <2>1. pc[w] \in DeleteSteps
    BY <1>5 DEF DeleteStep, PurgeCollections, WipeDirectory, WipePartly, DeleteSteps
  <2> QED
    BY <2>1 DEF Deleting, Inside, LockInv, DeleteSteps
<1>6. ASSUME UNCHANGED <<dir, coll>> PROVE FALSE
  BY <1>1, <1>6
<1>7. ASSUME NEW w \in Workers,
             (\E op \in Ops : Acquire(w, op)) \/ Release(w) \/ Crash(w)
      PROVE  FALSE
  BY <1>6, <1>7 DEF Acquire, Release, Crash, store
<1>8. CASE (\E s \in Searchers : SearchStep(s)) \/ Tick \/ UNCHANGED vars
  BY <1>6, <1>8 DEF SearchStep, SearchResolves, SearchResolvesLegacy, SearchLoadsGraph,
     SearchEnds, Tick, vars, store
<1> QED
  BY <1>3, <1>4, <1>5, <1>7, <1>8 DEF Next, WorkerStep

\* No crash, failed build, cleanup or recovery damages the current or the
\* previous generation.
THEOREM KeptSurvive == Spec => KeptGenerationsSurvive
<1>1. IInv /\ [Next]_vars =>
        \A g \in Gens : g \in Kept /\ Intact(g) /\ ~Intact(g)' => Deleting
  <2> SUFFICES ASSUME IInv, [Next]_vars, NEW g \in Gens, g \in Kept, Intact(g), ~Intact(g)'
               PROVE  Deleting
    OBVIOUS
  <2>1. \A w \in Workers : pc[w] \in StagingSteps => gen[w] # g
    BY DEF IInv, WorkerInv, StagingInv
  <2>2. \A w \in Workers : pc[w] = "sweep" => g \notin todo[w]
    BY DEF IInv, WorkerInv, CleanInv
  <2> QED
    BY <2>1, <2>2, Damage
<1> QED
  BY <1>1, Inductive, PTL DEF Spec, KeptGenerationsSurvive

\* With a grace period longer than the longest search and the longest pause
\* inside a publish, a cleanup finds nothing expired that is still read.
LEMMA ReadIsNotExpired ==
  ASSUME SearchBound + StallBound < Grace, IInv,
         NEW s \in Searchers, held[s] \in Gens, Intact(held[s]),
         NEW w \in Workers, pc[w] = "sweep", held[s] \in todo[w]
  PROVE  ~Expired(w, held[s])
<1>1. cleanAt[w] <= now /\ held[s] # pointer.cur
  BY DEF IInv, WorkerInv, CleanInv, Kept
<1>2. /\ retired[held[s]] # Never /\ started[s] <= retired[held[s]] + StallBound
      /\ now <= started[s] + SearchBound
  BY <1>1 DEF IInv, SearchInv, Gens, None
<1>3. /\ retired[held[s]] \in Nat /\ started[s] \in Nat
      /\ now \in Nat /\ cleanAt[w] \in Nat
  BY DEF IInv, TypeOK, Times, Never
<1> QED
  BY <1>1, <1>2, <1>3, BoundsAssumption DEF Expired

\* No search loses what it resolved, if the grace period is long enough.
THEOREM SearchesKeep ==
  ASSUME SearchBound + StallBound < Grace
  PROVE  Spec => SearchesKeepTheirGeneration
<1>1. IInv /\ [Next]_vars =>
        \A s \in Searchers, g \in Gens :
           held[s] = g /\ Intact(g) /\ ~Intact(g)' => Deleting
  <2> SUFFICES ASSUME IInv, [Next]_vars, NEW s \in Searchers, NEW g \in Gens,
                      held[s] = g, Intact(g), ~Intact(g)'
               PROVE  Deleting
    OBVIOUS
  <2>1. \A w \in Workers : pc[w] \in StagingSteps => gen[w] # g
    BY DEF IInv, WorkerInv, StagingInv
  <2>2. ASSUME NEW w \in Workers, pc[w] = "sweep", g \in todo[w], Expired(w, g)
        PROVE  FALSE
    BY <2>2, ReadIsNotExpired
  <2> QED
    BY <2>1, <2>2, Damage
<1> QED
  BY <1>1, Inductive, PTL DEF Spec, SearchesKeepTheirGeneration

\* The pointer moves only to a newer, whole generation and remembers the one it
\* replaces; only a delete takes it away.
THEOREM PointerForward == Spec => PointerMovesForward
<1> DEFINE Moves == \/ Deleting /\ pointer' = NoPointer
                    \/ /\ Intact(pointer.cur)'
                       /\ pointer'.cur > pointer.cur
                       /\ pointer'.prev = IF Complete(pointer.cur) THEN pointer.cur ELSE None
<1>1. ASSUME IInv, NEW w \in Workers, SwapPointer(w) PROVE Moves
  <2> USE DEF IInv, TypeOK, StagingSteps
  <2>1. /\ pc[w] = "swap" /\ pointer' = [cur |-> gen[w], prev |-> old[w]]
        /\ UNCHANGED <<dir, coll>>
    BY <1>1 DEF SwapPointer
  <2>2. /\ gen[w] \in Gens \ Kept /\ \A g \in Used : g <= gen[w]
        /\ coll[gen[w]] = "full" /\ dir[gen[w]] = "complete"
    BY <1>1, <2>1 DEF WorkerInv, StagingInv
  <2>3. old[w] = IF Complete(pointer.cur) THEN pointer.cur ELSE None
    BY <1>1, <2>1 DEF WorkerInv, SwapInv
  <2>4. Intact(pointer.cur)'
    BY <2>1, <2>2 DEF Intact, Complete
  <2>5. pointer'.cur > pointer.cur
    <3>1. CASE pointer.cur = None
      BY <2>1, <2>2, <3>1 DEF Gens, None
    <3>2. CASE pointer.cur \in Gens
      <4>1. pointer.cur \in Used
        BY <1>1, <3>2 DEF FreshInv, Kept
      <4>2. pointer.cur # gen[w]
        BY <2>2 DEF Kept
      <4> QED
        BY <2>1, <2>2, <3>2, <4>1, <4>2 DEF Gens
    <3> QED
      BY <1>1, <3>1, <3>2 DEF MaybeGen
  <2> QED
    BY <2>1, <2>4, <2>5, <2>3
<1>2. ASSUME IInv, NEW w \in Workers, DeleteStep(w), pointer' # pointer PROVE Moves
  <2>1. pc[w] \in DeleteSteps /\ pointer' = NoPointer
    BY <1>2 DEF DeleteStep, PurgeCollections, WipeDirectory, WipePartly, DeleteSteps
  <2> QED
    BY <1>2, <2>1 DEF IInv, LockInv, Deleting, Inside, DeleteSteps
<1>3. IInv /\ [Next]_vars => (pointer' # pointer => Moves)
  <2> SUFFICES ASSUME IInv, [Next]_vars, pointer' # pointer PROVE Moves
    OBVIOUS
  <2>1. ASSUME NEW w \in Workers, BuildStep(w) PROVE Moves
    <3>1. SwapPointer(w)
      BY <2>1 DEF BuildStep, UpToDate, Load, BuildRaises, StartEmbed, FinishEmbed, WriteFiles,
         WriteMetadata, StampRetired, DropLegacy, SaveRaises, AbortDirectory,
         AbortCollection, store
    <3> QED
      BY <1>1, <3>1
  <2>2. ASSUME NEW w \in Workers, CleanupStep(w) PROVE FALSE
    BY <2>2 DEF CleanupStep, CleanupRefused, CleanupStart, SweepStamps, SweepKeeps,
       SweepRemoves, RmtreeDone, RmtreeRaises, SweepDone, DropRemoved, ListingFails,
       DropAbandoned, store
  <2>3. ASSUME NEW w \in Workers,
               (\E op \in Ops : Acquire(w, op)) \/ Release(w) \/ Crash(w)
        PROVE  FALSE
    BY <2>3 DEF Acquire, Release, Crash, store
  <2>4. CASE (\E s \in Searchers : SearchStep(s)) \/ Tick \/ UNCHANGED vars
    BY <2>4 DEF SearchStep, SearchResolves, SearchResolvesLegacy, SearchLoadsGraph,
       SearchEnds, Tick, vars, store
  <2> QED
    BY <1>2, <2>1, <2>2, <2>3, <2>4 DEF Next, WorkerStep
<1> QED
  BY <1>3, Inductive, PTL DEF Spec, PointerMovesForward

\* A step of ServedIndex, or none.
AbstractStep == [Served!Next]_(Served!vars)

-----------------------------------------------------------------------------
(* Abstract steps *)

\* What the abstract index depends on.
LEMMA MapFrame ==
  ASSUME UNCHANGED <<pointer, held>>, \A g \in Gens : Intact(g)' <=> Intact(g)
  PROVE  UNCHANGED <<Whole, Published, Reading>>
<1>1. \A g : Intact(g)' <=> Intact(g)
  BY DEF Intact, Complete
<1> QED
  BY <1>1 DEF Whole, Published, Reading

\* A step that changes nothing of the abstract index.
LEMMA Stutters ==
  ASSUME UNCHANGED <<Whole, Published, Reading>>, Deleting' <=> Deleting
  PROVE  AbstractStep
<1>1. UNCHANGED Deleting
  BY DEF Deleting
<1> QED
  BY <1>1 DEF AbstractStep, Served!vars

\* A step that begins or ends a delete.
LEMMA Announces ==
  ASSUME UNCHANGED <<Whole, Published, Reading>>, Deleting' <=> ~Deleting
  PROVE  AbstractStep
<1>1. Deleting' = ~Deleting
  BY DEF Deleting
<1> QED
  BY <1>1 DEF AbstractStep, Served!Next, Served!Announce

\* One generation that nobody is sent to and nobody reads comes or goes.
LEMMA OneChanges ==
  ASSUME TypeOK, NEW g \in Gens, g # pointer.cur,
         \A s \in Searchers : held[s] # g,
         \A h \in Gens \ {g} : Intact(h)' <=> Intact(h),
         UNCHANGED <<pointer, held>>, Deleting' <=> Deleting
  PROVE  AbstractStep
<1>1. UNCHANGED Deleting
  BY DEF Deleting
<1>2. UNCHANGED <<Published, Reading>>
  <2>1. Intact(pointer.cur)' <=> Intact(pointer.cur)
    BY DEF Intact, Complete
  <2>2. \A s \in Searchers : Intact(held[s])' <=> Intact(held[s])
    BY DEF Intact, Complete
  <2> QED
    BY <2>1, <2>2 DEF Published, Reading
<1>3. CASE Intact(g)' <=> Intact(g)
  BY <1>3, MapFrame, Stutters
<1>4. CASE ~Intact(g) /\ Intact(g)'
  <2>1. g \notin Whole /\ Whole' = Whole \cup {g}
    BY <1>4 DEF Whole
  <2> QED
    BY <1>1, <1>2, <2>1 DEF AbstractStep, Served!Next, Served!Prepare
<1>5. CASE Intact(g) /\ ~Intact(g)'
  <2>1. g \in Whole /\ Whole' = Whole \ {g}
    BY <1>5 DEF Whole
  <2>2. g # Published /\ \A s \in Searchers : Reading[s] # g
    BY DEF Published, Reading, Gens, None
  <2> QED
    BY <1>1, <1>2, <2>1, <2>2 DEF AbstractStep, Served!Next, Served!Discard
<1> QED
  BY <1>3, <1>4, <1>5

-----------------------------------------------------------------------------
(* The steps *)

\* Whether the index is being deleted is known from the worker inside.
LEMMA DeletingIs ==
  ASSUME TypeOK, LockInv, NEW w \in Workers, Inside(w)
  PROVE  Deleting <=> task[w] = "delete"
  BY OthersIdle DEF Deleting, Inside

\* Build and cleanup steps leave the deletes alone.
LEMMA SameDeleting ==
  ASSUME IInv, [Next]_vars, NEW w \in Workers,
         BuildStep(w) \/ CleanupStep(w) \/ DeleteStep(w)
  PROVE  Deleting' <=> Deleting
<1>1. /\ Inside(w) /\ UNCHANGED task /\ pc'[w] # "idle"
      /\ \A v \in Workers \ {w} : pc'[v] = pc[v]
  BY StepsInside DEF IInv
<1>2. \A v \in Workers \ {w} : pc[v] = "idle"
  BY <1>1, OthersIdle DEF IInv
<1> QED
  BY <1>1, <1>2 DEF Deleting, Inside

\* Build steps.
LEMMA BuildMaps ==
  ASSUME IInv, [Next]_vars, NEW w \in Workers, BuildStep(w)
  PROVE  AbstractStep
<1> USE DEF IInv, TypeOK
<1>1. Deleting' <=> Deleting
  BY SameDeleting
<1>2. ASSUME UNCHANGED <<pointer, dir, coll, held>> PROVE AbstractStep
  BY <1>1, <1>2, MapFrame, Stutters DEF Intact, Complete
<1>3. CASE UpToDate(w) \/ Load(w) \/ BuildRaises(w)
  BY <1>2, <1>3 DEF UpToDate, Load, BuildRaises, store, reads
<1>4. CASE StampRetired(w) \/ DropLegacy(w) \/ SaveRaises(w)
  BY <1>2, <1>4 DEF StampRetired, DropLegacy, SaveRaises, store, reads
<1>5. CASE StartEmbed(w)
  <2>1. PICK h \in Gens : /\ \A f \in Gens : f < h <=> f \in Used
                         /\ coll' = [coll EXCEPT ![h] = "partial"]
    BY <1>5 DEF StartEmbed
  <2>2. h \notin Used
    BY <2>1 DEF Gens
  <2>3. dir[h] = "none"
    BY <2>2 DEF FreshInv
  <2>4. UNCHANGED <<pointer, dir, held>>
    BY <1>5 DEF StartEmbed, reads
  <2> QED
    BY <1>1, <2>1, <2>3, <2>4, MapFrame, Stutters DEF Intact, Complete
<1>6. ASSUME pc[w] \in StagingSteps, UNCHANGED <<pointer, held>>,
             \A h \in Gens \ {gen[w]} : dir'[h] = dir[h] /\ coll'[h] = coll[h]
      PROVE  AbstractStep
  <2>1. gen[w] \in Gens /\ gen[w] # pointer.cur /\ \A s \in Searchers : held[s] # gen[w]
    BY <1>6 DEF WorkerInv, StagingInv, Kept
  <2> QED
    BY <1>1, <1>6, <2>1, OneChanges DEF Intact, Complete
<1>7. CASE FinishEmbed(w) \/ WriteFiles(w) \/ WriteMetadata(w)
  <2>1. /\ pc[w] \in StagingSteps /\ UNCHANGED <<pointer, held>>
        /\ \A h \in Gens \ {gen[w]} : dir'[h] = dir[h] /\ coll'[h] = coll[h]
    BY <1>7 DEF FinishEmbed, WriteFiles, WriteMetadata, StagingSteps, reads
  <2> QED
    BY <1>6, <2>1
<1>8. CASE AbortDirectory(w)
  <2>1. pc[w] \in StagingSteps /\ UNCHANGED <<pointer, coll, held>>
    BY <1>8 DEF AbortDirectory, StagingSteps, reads
  <2>2. PICK left \in {"none", "partial"} : dir' = [dir EXCEPT ![gen[w]] = left]
    BY <1>8 DEF AbortDirectory
  <2> QED
    BY <1>6, <2>1, <2>2
<1>9. CASE AbortCollection(w)
  <2>1. pc[w] \in StagingSteps /\ UNCHANGED <<pointer, dir, held>>
    BY <1>9 DEF AbortCollection, StagingSteps, reads
  <2>2. PICK survivors \in SUBSET {h \in {gen[w]} : coll[h] # "absent"} :
           coll' = [h \in Gens |-> IF h \in {gen[w]} \ survivors THEN "absent" ELSE coll[h]]
    BY <1>9 DEF AbortCollection, DropCollections
  <2> QED
    BY <1>6, <2>1, <2>2
<1>10. CASE SwapPointer(w)
  <2>1. /\ pc[w] = "swap" /\ pointer' = [cur |-> gen[w], prev |-> old[w]]
        /\ UNCHANGED <<dir, coll, held>>
    BY <1>10 DEF SwapPointer, reads
  <2>2. /\ gen[w] \in Gens /\ \A g \in Used : g <= gen[w]
        /\ gen[w] # pointer.cur /\ coll[gen[w]] = "full" /\ dir[gen[w]] = "complete"
    BY <2>1 DEF WorkerInv, StagingInv, StagingSteps, Kept
  <2>3. UNCHANGED <<Whole, Reading>>
    BY <2>1 DEF Whole, Reading, Intact, Complete
  <2>4. gen[w] \in Whole /\ Published' = gen[w]
    BY <2>1, <2>2 DEF Whole, Published, Intact, Complete
  <2>5. Published # None => gen[w] > Published
    <3> SUFFICES ASSUME Intact(pointer.cur) PROVE gen[w] > pointer.cur
      BY DEF Published
    <3>1. pointer.cur \in Used
      BY DEF FreshInv, Kept, Intact, Complete
    <3> QED
      BY <2>2, <3>1 DEF Gens, Used
  <2>6. UNCHANGED Deleting
    BY <1>1 DEF Deleting
  <2> QED
    BY <2>2, <2>3, <2>4, <2>5, <2>6 DEF AbstractStep, Served!Next, Served!Publish
<1> QED
  BY <1>3, <1>4, <1>5, <1>7, <1>8, <1>9, <1>10 DEF BuildStep

\* Cleanup steps.
LEMMA CleanupMaps ==
  ASSUME SearchBound + StallBound < Grace,
         IInv, [Next]_vars, NEW w \in Workers, CleanupStep(w)
  PROVE  AbstractStep
<1> USE DEF IInv, TypeOK
<1>1. Deleting' <=> Deleting
  BY SameDeleting
<1>2. ASSUME UNCHANGED <<pointer, dir, coll, held>> PROVE AbstractStep
  BY <1>1, <1>2, MapFrame, Stutters DEF Intact, Complete
<1>3. CASE CleanupRefused(w) \/ CleanupStart(w) \/ RmtreeRaises(w) \/ SweepDone(w)
           \/ ListingFails(w)
  BY <1>2, <1>3 DEF CleanupRefused, CleanupStart, RmtreeRaises, SweepDone, ListingFails,
     store, reads
<1>4. ASSUME NEW g \in Gens, SweepStamps(w, g) \/ SweepKeeps(w, g) PROVE AbstractStep
  BY <1>2, <1>4 DEF SweepStamps, SweepKeeps, store, reads
<1>5. ASSUME NEW g \in Gens, SweepRemoves(w, g) PROVE AbstractStep
  <2>1. /\ pc[w] = "sweep" /\ g \in todo[w] /\ (~Complete(g) \/ Expired(w, g))
        /\ dir' = [dir EXCEPT ![g] = "partial"] /\ UNCHANGED <<pointer, coll, held>>
    BY <1>5 DEF SweepRemoves, Newest, reads
  <2>2. CASE Intact(g)
    <3>1. g # pointer.cur
      BY <2>1 DEF WorkerInv, CleanInv, Kept
    <3>2. \A s \in Searchers : held[s] # g
      BY <2>1, <2>2, ReadIsNotExpired DEF Intact
    <3> QED
      BY <1>1, <2>1, <3>1, <3>2, OneChanges DEF Intact, Complete
  <2>3. CASE ~Intact(g)
    BY <1>1, <2>1, <2>3, MapFrame, Stutters DEF Intact, Complete
  <2> QED
    BY <2>2, <2>3
<1>6. ASSUME UNCHANGED <<pointer, held>>,
             \A g \in Gens : \/ dir'[g] = dir[g] /\ coll'[g] = coll[g]
                             \/ dir[g] # "complete" /\ dir'[g] # "complete"
      PROVE  AbstractStep
  BY <1>1, <1>6, MapFrame, Stutters DEF Intact, Complete
<1>7. ASSUME NEW g \in Gens, RmtreeDone(w, g) PROVE AbstractStep
  <2>1. /\ pc[w] = "rmtree" /\ Newest(w, g) /\ UNCHANGED <<pointer, coll, held>>
        /\ dir' = [dir EXCEPT ![g] = "none"]
    BY <1>7 DEF RmtreeDone, reads
  <2>2. dir[g] # "complete"
    BY <2>1 DEF WorkerInv, CleanInv
  <2>3. \A h \in Gens : \/ dir'[h] = dir[h] /\ coll'[h] = coll[h]
                        \/ dir[h] # "complete" /\ dir'[h] # "complete"
    BY <2>1, <2>2
  <2> QED
    BY <1>6, <2>1, <2>3
<1>8. CASE DropRemoved(w)
  <2>1. pc[w] = "drop" /\ UNCHANGED <<pointer, dir, held>>
    BY <1>8 DEF DropRemoved, reads
  <2>2. PICK survivors \in SUBSET {h \in removed[w] : coll[h] # "absent"} :
           coll' = [h \in Gens |-> IF h \in removed[w] \ survivors THEN "absent" ELSE coll[h]]
    BY <1>8 DEF DropRemoved, DropCollections
  <2>3. \A g \in removed[w] : dir[g] # "complete"
    BY <2>1 DEF WorkerInv, CleanInv
  <2>4. \A h \in Gens : \/ dir'[h] = dir[h] /\ coll'[h] = coll[h]
                        \/ dir[h] # "complete" /\ dir'[h] # "complete"
    BY <2>1, <2>2, <2>3
  <2> QED
    BY <1>6, <2>1, <2>4
<1>9. CASE DropAbandoned(w)
  <2>1. UNCHANGED <<pointer, dir, held>>
    BY <1>9 DEF DropAbandoned, reads
  <2>2. PICK survivors \in SUBSET Abandoned :
           coll' = [h \in Gens |->
                      IF h \in Abandoned \ survivors THEN "absent" ELSE coll[h]]
    BY <1>9 DEF DropAbandoned
  <2>3. \A g \in Abandoned : dir[g] # "complete"
    BY DEF Abandoned
  <2>4. \A h \in Gens : \/ dir'[h] = dir[h] /\ coll'[h] = coll[h]
                        \/ dir[h] # "complete" /\ dir'[h] # "complete"
    BY <2>1, <2>2, <2>3
  <2> QED
    BY <1>6, <2>1, <2>4
<1> QED
  BY <1>3, <1>4, <1>5, <1>7, <1>8, <1>9 DEF CleanupStep

\* What a delete leaves whole was whole before; the rest is destroyed.
LEMMA Destroys ==
  ASSUME TypeOK, Deleting, Deleting',
         \A g \in Gens : Intact(g)' => Intact(g),
         pointer' \in {NoPointer, pointer}, held' = held
  PROVE  AbstractStep
<1> DEFINE G == Whole \ Whole'
<1>1. UNCHANGED Deleting /\ Deleting = TRUE
  BY DEF Deleting
<1>2. Whole' = Whole \ G
  BY DEF Whole
<1>3. Published' \in {None, IF Published \in G THEN None ELSE Published}
  <2>1. CASE pointer' = NoPointer
    BY <2>1 DEF Published, NoPointer, Intact, Complete, Gens, None
  <2>2. CASE pointer' = pointer
    BY <2>2 DEF Published, Whole, Intact, Complete, Gens, None
  <2> QED
    BY <2>1, <2>2
<1>4. Reading' = [s \in Searchers |-> IF Reading[s] \in G THEN None ELSE Reading[s]]
  <2>1. ASSUME NEW s \in Searchers
        PROVE  (IF Intact(held[s])' THEN held[s] ELSE None)
                 = IF Reading[s] \in G THEN None ELSE Reading[s]
    BY DEF Reading, Whole, Intact, Complete, Gens, None
  <2> QED
    BY <2>1 DEF Reading
<1>5. G \in SUBSET Whole
  OBVIOUS
<1> QED
  BY <1>1, <1>2, <1>3, <1>4, <1>5 DEF AbstractStep, Served!Next, Served!Destroy

\* Delete steps.
LEMMA DeleteMaps ==
  ASSUME IInv, [Next]_vars, NEW w \in Workers, DeleteStep(w)
  PROVE  AbstractStep
<1> USE DEF IInv, TypeOK
<1>1. Deleting /\ Deleting'
  <2>1. pc[w] \in DeleteSteps
    BY DEF DeleteStep, PurgeCollections, WipeDirectory, WipePartly, DeleteSteps
  <2>2. Deleting
    BY <2>1 DEF LockInv, Deleting, Inside, DeleteSteps
  <2> QED
    BY <2>2, SameDeleting
<1>2. CASE PurgeCollections(w)
  <2>1. PICK left \in [Gens -> {"absent", "partial", "full"}],
             missed \in SUBSET Unrecognised, legacyLeft \in {FALSE, legacyColl},
             listed \in BOOLEAN :
           LET clean == Purged(left, missed, legacyLeft, listed)
           IN /\ \A g \in Gens :
                   /\ coll[g] = "absent" => left[g] = "absent"
                   /\ left[g] = "full" => coll[g] = "full"
              /\ coll' = left
              /\ legacyColl' = legacyLeft
              /\ Charge(~clean)
              /\ Goto(w, IF clean THEN "wipe" ELSE "failed")
    BY <1>2, Zenon DEF PurgeCollections
  <2>2. \A g \in Gens : coll'[g] = "full" => coll[g] = "full"
    BY <2>1
  <2>3. UNCHANGED <<pointer, dir, reads>>
    BY <1>2, Zenon DEF PurgeCollections
  <2> QED
    BY <1>1, <2>2, <2>3, Destroys DEF Intact, Complete, reads
<1>3. CASE WipeDirectory(w) \/ WipePartly(w)
  <2>1. /\ pc[w] = "wipe" /\ pointer' \in {NoPointer, pointer}
        /\ UNCHANGED <<coll, held>>
    BY <1>3 DEF WipeDirectory, WipePartly, reads
  <2>2. \A g \in Gens : coll[g] # "full"
    BY <2>1 DEF WorkerInv, WipeInv
  <2> QED
    BY <1>1, <2>1, <2>2, Destroys DEF Intact, Complete
<1> QED
  BY <1>2, <1>3 DEF DeleteStep

\* Taking and leaving the lock announces a delete or changes nothing.
LEMMA LockMaps ==
  ASSUME IInv, [Next]_vars, NEW w \in Workers,
         (\E op \in Ops : Acquire(w, op)) \/ Release(w) \/ Crash(w)
  PROVE  AbstractStep
<1> USE DEF IInv, TypeOK
<1>1. UNCHANGED <<Whole, Published, Reading>>
  <2>1. UNCHANGED <<pointer, dir, coll, held>>
    BY DEF Acquire, Release, Crash, store, reads
  <2> QED
    BY <2>1, MapFrame DEF Intact, Complete
<1>2. (Deleting' <=> Deleting) \/ (Deleting' <=> ~Deleting)
  OBVIOUS
<1> QED
  BY <1>1, <1>2, Stutters, Announces

\* Search steps.
LEMMA SearchMaps ==
  ASSUME IInv, [Next]_vars, NEW s \in Searchers, SearchStep(s)
  PROVE  AbstractStep
<1> USE DEF IInv, TypeOK
<1>1. UNCHANGED <<pointer, dir, coll, pc, task>>
  BY DEF SearchStep, SearchResolves, SearchResolvesLegacy, SearchLoadsGraph, SearchEnds,
     store, workers
<1>2. UNCHANGED <<Whole, Published, Deleting>>
  BY <1>1 DEF Whole, Published, Deleting, Inside, Intact, Complete
<1>3. CASE SearchLoadsGraph(s) \/ SearchResolvesLegacy(s)
  <2>1. held' = held
    BY <1>3 DEF SearchLoadsGraph, SearchResolvesLegacy
  <2> QED
    BY <1>1, <1>2, <2>1, MapFrame, Stutters DEF Intact, Complete
<1>4. CASE SearchResolves(s)
  <2>1. /\ Complete(pointer.cur) /\ held' = [held EXCEPT ![s] = pointer.cur]
        /\ mode[s] = "idle"
    BY <1>4 DEF SearchResolves
  <2>2. Reading[s] = None /\ Reading \in [Searchers -> Gens \cup {None}]
    BY <2>1 DEF SearchInv, Reading, Intact, Complete, Gens, None
  <2>3. Reading' = [Reading EXCEPT ![s] = Published]
    BY <1>1, <2>1 DEF Reading, Published, Intact, Complete
  <2>4. CASE Published = None
    <3>1. Reading' = Reading
      BY <2>2, <2>3, <2>4
    <3> QED
      BY <1>2, <3>1, Stutters
  <2>5. CASE Published # None
    BY <1>2, <2>2, <2>3, <2>5 DEF AbstractStep, Served!Next, Served!Open
  <2> QED
    BY <2>4, <2>5
<1>5. CASE SearchEnds(s)
  <2>1. held' = [held EXCEPT ![s] = None]
    BY <1>5 DEF SearchEnds
  <2>2. Reading' = [Reading EXCEPT ![s] = None]
    BY <1>1, <2>1 DEF Reading, Intact, Complete, Gens, None
  <2> QED
    BY <1>2, <2>2 DEF AbstractStep, Served!Next, Served!Close
<1> QED
  BY <1>3, <1>4, <1>5 DEF SearchStep

-----------------------------------------------------------------------------
(* The refinement *)

\* The initial states.
LEMMA InitMaps == Init => Served!Init
<1> SUFFICES ASSUME Init PROVE Served!Init
  OBVIOUS
<1>1. \A g : ~Intact(g)
  BY DEF Init, Intact, Complete
<1>2. Whole = {} /\ Published = None /\ Reading = [r \in Searchers |-> None]
  BY <1>1 DEF Whole, Published, Reading
<1>3. Deleting = FALSE
  BY DEF Init, Deleting, Inside
<1> QED
  BY <1>2, <1>3 DEF Served!Init

\* With a grace period longer than the longest search and the longest pause
\* inside a publish, every behaviour of the store is one of ServedIndex.
THEOREM Refines ==
  ASSUME SearchBound + StallBound < Grace
  PROVE  Spec => ImplementsServedIndex
<1>1. IInv /\ [Next]_vars => AbstractStep
  <2> SUFFICES ASSUME IInv, [Next]_vars PROVE AbstractStep
    OBVIOUS
  <2>1. CASE Tick \/ UNCHANGED vars
    <3>1. UNCHANGED <<pointer, dir, coll, held, pc, task>>
      BY <2>1 DEF Tick, vars, store, workers, reads
    <3> QED
      BY <3>1, MapFrame, Stutters DEF Intact, Complete, Deleting, Inside
  <2> QED
    BY <2>1, BuildMaps, CleanupMaps, DeleteMaps, LockMaps, SearchMaps DEF Next, WorkerStep
<1> QED
  BY <1>1, InitMaps, Inductive, PTL
  DEF Spec, ImplementsServedIndex, Served!Spec, AbstractStep
=============================================================================
