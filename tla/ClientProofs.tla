---------------------------- MODULE ClientProofs ----------------------------
(***************************************************************************)
(* Proofs about the command line: BuildClient and Daemon, for all clients, *)
(* sessions, pids and bounds.                                              *)
(*                                                                         *)
(* ClientInv ties the job table, the thread and the callbacks of the loop  *)
(* to the one build that is under way: queued, in its thread, or ended with*)
(* its result as the last callback.  The table can only say what the build *)
(* came to, and so can a client.                                           *)
(*                                                                         *)
(* DaemonInv says nothing once commands overlap.  While they come one at a *)
(* time, the session at work knows everything: a daemon that runs is the   *)
(* one it has just started or the one in the pid file, and none runs where *)
(* a step takes it that the daemon is gone.                                *)
(***************************************************************************)
EXTENDS BuildClient, Daemon, TLAPS, SequenceTheorems

-----------------------------------------------------------------------------
(* BuildClient                                                             *)

\* What becomes of builds, the callbacks, the job, and what clients know.
Fates == {"under way", "published", "failed", "lost"}
Callbacks == [kind : {"progress", "published", "failed"}, at : Nat]
Jobs == [id : Nat, status : {"none", "queued", "running", "succeeded", "failed"}, progress : Nat,
         old : BOOLEAN]

Reports == [pc : {"idle", "polling", "succeeded", "failed", "disappeared", "raised", "conflict",
                  "unreachable"}, id : Nat, told : Nat]

ClientTypeOK ==
    /\ job \in Jobs /\ inFlight \in {"none", "building", "invalidating"}
    /\ thread \in [id : Nat, at : Nat] /\ queue \in Seq(Callbacks)
    /\ fate \in Seq(Fates)
    /\ client \in [Clients -> Reports] /\ up \in BOOLEAN /\ faults \in Nat

\* The newest build.
Current == Len(fate)
OnlyProgress(n) == \A i \in 1..n : queue[i].kind = "progress"

\* The build that goes on: before its thread, in it, and after it.
Queued ==
    job.status = "queued" /\ thread = NoThread /\ queue = <<>> /\ fate[Current] = "under way"
InThread ==
    /\ job.status = "running" /\ thread.id = Current /\ fate[Current] = "under way"
    /\ OnlyProgress(Len(queue))
Ended ==
    /\ job.status = "running" /\ thread = NoThread /\ queue # <<>>
    /\ OnlyProgress(Len(queue) - 1)
    /\ queue[Len(queue)].kind = fate[Current] /\ fate[Current] \in {"published", "failed"}
BuildingOK ==
    /\ Current > 0 /\ job.id = Current
    /\ Queued \/ InThread \/ Ended

Outcome(j) == IF j.status = "succeeded" THEN "published" ELSE "failed"
\* No build goes on: the job has the outcome of the newest one.
RestingOK ==
    /\ thread = NoThread /\ queue = <<>>
    /\ job = NoJob \/ (Terminal(job) /\ job.id = Current /\ Current > 0 /\ fate[Current] = Outcome(job))
    /\ \A n \in DOMAIN fate : fate[n] # "under way"

TableOK == IF inFlight = "building" THEN BuildingOK ELSE RestingOK

\* Builds but the newest have ended.
EarlierEnded == \A n \in DOMAIN fate : n < Current => fate[n] # "under way"

\* What client me says is true of a build no older than its own.
ReportOK(me) ==
    /\ me.pc \in {"polling", "disappeared"} => me.id \in DOMAIN fate
    /\ me.id <= Current
    /\ me.pc = "succeeded" => me.told \in DOMAIN fate /\ me.told >= me.id /\ fate[me.told] = "published"
    /\ me.pc = "failed" => me.told \in DOMAIN fate /\ me.told >= me.id /\ fate[me.told] = "failed"
    /\ me.pc = "disappeared" => fate[me.id] # "under way"

\* The invariant of the service and its clients.
ClientInv ==
    /\ ClientTypeOK
    /\ TableOK
    /\ EarlierEnded
    /\ \A c \in Clients : ReportOK(client[c])

\* A queue without its first element, and one with a new last element.
LEMMA Dequeue ==
    ASSUME NEW S, NEW q \in Seq(S), Len(q) > 0,
           NEW r, r = SubSeq(q, 1, 1 - 1) \o SubSeq(q, 1 + 1, Len(q))
    PROVE  /\ r \in Seq(S) /\ Len(r) = Len(q) - 1
           /\ \A k \in 1..Len(r) : r[k] = q[k + 1]
<1>1. SubSeq(q, 1, 1 - 1) = <<>>
  OBVIOUS
<1> DEFINE n == Len(q)
<1>a. n \in Nat /\ n > 0 /\ \A k \in 1..n : q[k] \in S
  OBVIOUS
<1> HIDE DEF n
<1>b. /\ SubSeq(q, 2, n) \in Seq(S)
      /\ Len(SubSeq(q, 2, n)) = IF 2 <= n THEN n - 2 + 1 ELSE 0
      /\ \A i \in 1..(n - 2 + 1) : SubSeq(q, 2, n)[i] = q[2 + i - 1]
  <2>1. 2 \in Int /\ n \in Int /\ \A k \in 2..n : q[k] \in S
    BY <1>a
  <2> QED  BY <2>1, SubSeqProperties
<1>2. SubSeq(q, 2, n) \in Seq(S) /\ Len(SubSeq(q, 2, n)) = n - 1
      /\ \A k \in 1..(n - 1) : SubSeq(q, 2, n)[k] = q[k + 1]
  BY <1>a, <1>b
<1> DEFINE t == SubSeq(q, 2, n)
<1>3. r = <<>> \o t
  BY <1>1 DEF n
<1> HIDE DEF t
<1>4. t \in Seq(S) /\ Len(t) = Len(q) - 1 /\ \A k \in 1..(Len(q) - 1) : t[k] = q[k + 1]
  BY <1>2 DEF t, n
<1>5. <<>> \o t = t
  BY <1>4, ConcatEmptySeq
<1> QED  BY <1>3, <1>4, <1>5

\* A function from 1..n is a sequence.
LEMMA FunctionIsSeq ==
    ASSUME NEW S, NEW n \in Nat, NEW g \in [1..n -> S]
    PROVE  g \in Seq(S) /\ Len(g) = n
<1>1. g \in Seq(S)
  BY SeqDef
<1>2. DOMAIN g = 1..n /\ DOMAIN g = 1..Len(g) /\ Len(g) \in Nat
  BY <1>1, LenProperties
<1> QED  BY <1>1, <1>2

\* A sequence with a new last element.
LEMMA Enqueue ==
    ASSUME NEW S, NEW q \in Seq(S), NEW e \in S, NEW r, r = Append(q, e)
    PROVE  /\ r \in Seq(S) /\ Len(r) = Len(q) + 1 /\ r[Len(r)] = e
           /\ \A k \in 1..Len(q) : r[k] = q[k]
  OBVIOUS

\* The builds that ended keep their fate, and new ones come after them.
FatesStand ==
    /\ Len(fate') >= Len(fate)
    /\ \A n \in 1..Len(fate) : fate[n] # "under way" => fate'[n] = fate[n]

\* A report that was true stays true, since fates stand.
LEMMA Unaltered ==
    ASSUME ClientTypeOK, ClientTypeOK', FatesStand, NEW me \in Reports, ReportOK(me)
    PROVE  ReportOK(me)'
<1>1. Len(fate) \in Nat /\ Len(fate') \in Nat /\ DOMAIN fate = 1..Len(fate)
      /\ DOMAIN fate' = 1..Len(fate') /\ me.id \in Nat /\ me.told \in Nat
  BY DEF ClientTypeOK, Reports
<1>a. Len(fate') >= Len(fate)
  BY DEF FatesStand
<1>2. Len(fate') >= Len(fate) /\ \A n \in DOMAIN fate : n \in DOMAIN fate'
  <2> DEFINE a == Len(fate)
             b == Len(fate')
  <2>1. a \in Nat /\ b \in Nat /\ b >= a /\ DOMAIN fate = 1..a /\ DOMAIN fate' = 1..b
    BY <1>1, <1>a
  <2> HIDE DEF a, b
  <2>2. 1..a \subseteq 1..b
    BY <2>1
  <2> QED  BY <2>1, <2>2, <1>a
<1>3. \A n \in DOMAIN fate : fate[n] # "under way" => fate'[n] = fate[n]
  BY <1>1 DEF FatesStand
<1>4. (me.id <= Current)'
  <2> DEFINE a == Len(fate)
             b == Len(fate')
  <2>1. a \in Nat /\ b \in Nat /\ b >= a /\ me.id <= a
    BY <1>1, <1>a DEF ReportOK, Current
  <2> HIDE DEF a, b
  <2>2. me.id <= b
    BY <1>1, <2>1
  <2> QED  BY <2>2 DEF b, Current
<1>5. me.pc \in {"polling", "disappeared"} => me.id \in DOMAIN fate'
  BY <1>2 DEF ReportOK
<1>6. me.pc = "succeeded" => me.told \in DOMAIN fate' /\ me.told >= me.id /\ fate'[me.told] = "published"
  BY <1>2, <1>3 DEF ReportOK
<1>7. me.pc = "failed" => me.told \in DOMAIN fate' /\ me.told >= me.id /\ fate'[me.told] = "failed"
  BY <1>2, <1>3 DEF ReportOK
<1>8. me.pc = "disappeared" => fate'[me.id] # "under way"
  BY <1>2, <1>3 DEF ReportOK
<1> QED  BY <1>4, <1>5, <1>6, <1>7, <1>8 DEF ReportOK

\* Fates that do not change stand.
LEMMA Same ==
    ASSUME ClientTypeOK, fate' = fate
    PROVE  FatesStand
  BY DEF FatesStand, ClientTypeOK

\* The build that goes on is the same when none of its parts changes.
LEMMA SameBuild ==
    ASSUME TableOK, EarlierEnded, UNCHANGED <<job, inFlight, thread, queue, fate>>
    PROVE  TableOK' /\ EarlierEnded'
  BY DEF TableOK, EarlierEnded, BuildingOK, RestingOK, Queued, InThread, Ended, OnlyProgress, Outcome,
         Terminal, Current, NoJob

\* A step of the service leaves every report true.
LEMMA Reporting ==
    ASSUME ClientTypeOK, ClientTypeOK', FatesStand, UNCHANGED client,
           \A c \in Clients : ReportOK(client[c])
    PROVE  \A c \in Clients : ReportOK(client[c])'
<1> TAKE c \in Clients
<1>1. PICK me \in Reports : me = client[c] /\ ReportOK(me) /\ client'[c] = me
  BY DEF ClientTypeOK
<1>2. ReportOK(me)'
  BY <1>1, Unaltered
<1> QED  BY <1>1, <1>2 DEF ReportOK

\* A step of one client leaves the reports of others true.
LEMMA OneReports ==
    ASSUME ClientTypeOK, ClientTypeOK', FatesStand, NEW d \in Clients, NEW now \in Reports,
           \A c \in Clients \ {d} : client'[c] = client[c], client'[d] = now, ReportOK(now)',
           \A c \in Clients : ReportOK(client[c])
    PROVE  \A c \in Clients : ReportOK(client[c])'
<1> TAKE c \in Clients
<1>1. CASE c = d
  BY <1>1 DEF ReportOK
<1>2. CASE c # d
  <2>1. PICK me \in Reports : me = client[c] /\ ReportOK(me) /\ client'[c] = me
    BY <1>2 DEF ClientTypeOK
  <2>2. ReportOK(me)'
    BY <2>1, Unaltered
  <2> QED  BY <2>1, <2>2 DEF ReportOK
<1> QED  BY <1>1, <1>2

\* At first there is no build and no report.
LEMMA Begins == ClientInit => ClientInv
<1> SUFFICES ASSUME ClientInit PROVE ClientInv
  OBVIOUS
<1>1. ClientTypeOK
  BY DEF ClientInit, ClientTypeOK, Jobs, NoJob, NoThread, AtRest, Reports
<1>2. TableOK /\ EarlierEnded
  BY DEF ClientInit, TableOK, EarlierEnded, RestingOK, Current
<1>3. \A c \in Clients : ReportOK(client[c])
  <2> TAKE c \in Clients
  <2>1. client[c] = AtRest /\ AtRest.pc = "idle" /\ AtRest.id = 0 /\ Current = 0
    BY DEF ClientInit, AtRest, Current
  <2> QED  BY <2>1 DEF ReportOK
<1> QED  BY <1>1, <1>2, <1>3 DEF ClientInv

\* The queued build gets its thread.
LEMMA RunBuildStep ==
    ASSUME ClientInv, RunBuild
    PROVE  ClientInv'
<1> DEFINE j == [job EXCEPT !.status = "running"]
           t == [id |-> job.id, at |-> 0]
<1>1. job \in Jobs /\ job' = j /\ thread' = t
  BY DEF ClientInv, ClientTypeOK, RunBuild
<1>2. j \in Jobs /\ j.status = "running" /\ j.id = job.id
  BY <1>1 DEF Jobs
<1>3. t \in [id : Nat, at : Nat] /\ t.id = job.id
  BY <1>1 DEF Jobs
<1> HIDE DEF j, t
<1>4. ClientTypeOK'
  BY <1>1, <1>2, <1>3 DEF ClientInv, ClientTypeOK, RunBuild
<1>5. Queued /\ job.id = Current /\ Current > 0
  BY DEF ClientInv, TableOK, BuildingOK, RunBuild, InThread, Ended
<1>6. InThread'
  <2>1. queue' = <<>> /\ Len(<<>>) = 0 /\ fate' = fate
    BY <1>5 DEF Queued, RunBuild
  <2>2. OnlyProgress(Len(queue))'
    BY <2>1 DEF OnlyProgress
  <2>3. job'.status = "running" /\ thread'.id = Current' /\ fate'[Current'] = "under way"
    BY <1>1, <1>2, <1>3, <1>5, <2>1 DEF Queued, Current
  <2> QED  BY <2>2, <2>3 DEF InThread
<1>7. TableOK'
  BY <1>1, <1>2, <1>5, <1>6 DEF TableOK, BuildingOK, RunBuild, Current
<1>8. EarlierEnded'
  BY DEF ClientInv, EarlierEnded, RunBuild, Current
<1>9. \A c \in Clients : ReportOK(client[c])'
  BY <1>4, Same, Reporting DEF ClientInv, RunBuild
<1> QED  BY <1>4, <1>7, <1>8, <1>9 DEF ClientInv

\* The thread reports progress: one more callback.
LEMMA OnProgressStep ==
    ASSUME ClientInv, OnProgress
    PROVE  ClientInv'
<1> DEFINE t == [thread EXCEPT !.at = @ + 1]
           e == [kind |-> "progress", at |-> thread.at]
<1>1. thread \in [id : Nat, at : Nat] /\ thread' = t /\ queue' = Append(queue, e) /\ queue \in Seq(Callbacks)
  BY DEF ClientInv, ClientTypeOK, OnProgress
<1>2. t \in [id : Nat, at : Nat] /\ t.id = thread.id
  BY <1>1
<1>3. e \in Callbacks /\ e.kind = "progress"
  BY <1>1 DEF Callbacks
<1> HIDE DEF t, e
<1>a. queue' \in Seq(Callbacks) /\ Len(queue') = Len(queue) + 1 /\ queue'[Len(queue')] = e
      /\ \A k \in 1..Len(queue) : queue'[k] = queue[k]
  BY <1>1, <1>3, Enqueue
<1>4. ClientTypeOK'
  BY <1>1, <1>2, <1>a DEF ClientInv, ClientTypeOK, OnProgress
<1>5. inFlight = "building" /\ InThread /\ job.id = Current /\ Current > 0
  BY DEF ClientInv, TableOK, BuildingOK, RestingOK, OnProgress, Queued, Ended
<1>b. Len(queue) \in Nat
  BY <1>1
<1>c. OnlyProgress(Len(queue))'
  <2>1. \A k \in 1..Len(queue) : queue[k].kind = "progress"
    BY <1>5 DEF InThread, OnlyProgress
  <2> SUFFICES ASSUME NEW k \in 1..Len(queue') PROVE queue'[k].kind = "progress"
    BY DEF OnlyProgress
  <2>2. k = Len(queue') \/ k \in 1..Len(queue)
    BY <1>a, <1>b
  <2> QED  BY <2>1, <2>2, <1>a, <1>3
<1>6. InThread'
  BY <1>1, <1>2, <1>5, <1>c DEF InThread, OnProgress, Current
<1>7. TableOK'
  BY <1>5, <1>6 DEF TableOK, BuildingOK, OnProgress, Current
<1>8. EarlierEnded'
  BY DEF ClientInv, EarlierEnded, OnProgress, Current
<1>9. \A c \in Clients : ReportOK(client[c])'
  BY <1>4, Same, Reporting DEF ClientInv, OnProgress
<1> QED  BY <1>4, <1>7, <1>8, <1>9 DEF ClientInv

\* The build publishes or raises: its result is the last callback.
LEMMA BuildEndsStep ==
    ASSUME ClientInv, NEW r \in {"published", "failed"}, BuildEnds(r)
    PROVE  ClientInv'
<1> DEFINE e == [kind |-> r, at |-> MaxProgress]
<1>1. queue' = Append(queue, e) /\ queue \in Seq(Callbacks) /\ fate \in Seq(Fates)
      /\ thread' = NoThread /\ fate' = [fate EXCEPT ![thread.id] = r]
  BY DEF ClientInv, ClientTypeOK, BuildEnds
<1>3. e \in Callbacks /\ e.kind = r
  BY ClientAssumption DEF Callbacks
<1> HIDE DEF e
<1>a. queue' \in Seq(Callbacks) /\ Len(queue') = Len(queue) + 1 /\ queue'[Len(queue')] = e
      /\ \A k \in 1..Len(queue) : queue'[k] = queue[k]
  BY <1>1, <1>3, Enqueue
<1>5. inFlight = "building" /\ InThread /\ job.id = Current /\ Current > 0
  BY DEF ClientInv, TableOK, BuildingOK, RestingOK, BuildEnds, Queued, Ended
<1>d. Current \in Nat /\ DOMAIN fate = 1..Current
  BY <1>1 DEF Current
<1>e. /\ fate' \in Seq(Fates) /\ Len(fate') = Len(fate) /\ fate'[Current] = r
      /\ \A n \in 1..Current : n # Current => fate'[n] = fate[n]
  <2>1. thread.id = Current /\ r \in Fates
    BY <1>5 DEF InThread, Fates
  <2>2. fate' = [fate EXCEPT ![Current] = r]
    BY <1>1, <2>1
  <2> DEFINE n == Current
  <2>4. n \in Nat /\ n > 0 /\ n = Len(fate)
    BY <1>5, <1>d DEF Current
  <2> HIDE DEF n
  <2>3. fate' \in Seq(Fates) /\ Len(fate') = Len(fate) /\ fate'[n] = r
        /\ \A k \in 1..n : k # n => fate'[k] = fate[k]
    BY <1>1, <2>1, <2>2, <2>4 DEF n
  <2> QED  BY <2>3 DEF n
<1>4. ClientTypeOK'
  BY <1>1, <1>e, <1>a DEF ClientInv, ClientTypeOK, BuildEnds, NoThread
<1>b. Len(queue) \in Nat
  BY <1>1
<1>c. OnlyProgress(Len(queue) - 1)' /\ queue' # <<>>
  <2>1. \A k \in 1..Len(queue) : queue[k].kind = "progress"
    BY <1>5 DEF InThread, OnlyProgress
  <2>2. Len(queue') - 1 = Len(queue) /\ Len(queue') # 0
    BY <1>a, <1>b
  <2>3. OnlyProgress(Len(queue) - 1)'
    BY <2>1, <2>2, <1>a DEF OnlyProgress
  <2> QED  BY <2>2, <2>3
<1>f. Current' = Current
  BY <1>e DEF Current
<1>6. Ended'
  BY <1>1, <1>3, <1>5, <1>c, <1>a, <1>e, <1>f DEF InThread, Ended, BuildEnds
<1>7. TableOK'
  BY <1>5, <1>6, <1>f DEF TableOK, BuildingOK, BuildEnds
<1>8. EarlierEnded'
  <2>1. DOMAIN fate' = 1..Current
    BY <1>e, <1>d DEF Current
  <2>2. \A n \in 1..Current : n < Current => fate[n] # "under way"
    BY <1>d DEF ClientInv, EarlierEnded
  <2>3. \A n \in 1..Current : n < Current => fate'[n] # "under way"
    BY <2>2, <1>d, <1>e
  <2> QED  BY <2>1, <2>3, <1>f DEF EarlierEnded
<1>g. FatesStand
  <2>1. Len(fate) = Current /\ Len(fate') = Current /\ fate[Current] = "under way"
    BY <1>5, <1>e DEF InThread, Current
  <2> DEFINE a == Len(fate)
             b == Len(fate')
  <2>4. a \in Nat /\ b = a
    BY <1>d, <1>e DEF Current
  <2> HIDE DEF a, b
  <2>5. b >= a
    BY <2>4
  <2>2. Len(fate') >= Len(fate)
    BY <2>5 DEF a, b
  <2>3. \A n \in 1..Current : fate[n] # "under way" => fate'[n] = fate[n]
    BY <2>1, <1>e
  <2> QED  BY <2>1, <2>2, <2>3 DEF FatesStand
<1>9. \A c \in Clients : ReportOK(client[c])'
  BY <1>4, <1>g, Reporting DEF ClientInv, BuildEnds
<1> QED  BY <1>4, <1>7, <1>8, <1>9 DEF ClientInv

\* The loop runs the next callback: progress, or the result the job ends with.
LEMMA LoopStepStep ==
    ASSUME ClientInv, LoopStep
    PROVE  ClientInv'
<1>1. /\ queue \in Seq(Callbacks) /\ 1 \in NextCallback
      /\ job' = Resolved(queue[1])
      /\ inFlight' = CASE queue[1].kind = "published" -> "invalidating"
                       [] queue[1].kind = "failed" -> "none"
                       [] OTHER -> inFlight
      /\ queue' = SubSeq(queue, 1, 1 - 1) \o SubSeq(queue, 1 + 1, Len(queue))
      /\ UNCHANGED <<up, thread, fate, client, faults>>
  BY DEF LoopStep, NextCallback, ClientInv, ClientTypeOK
<1> DEFINE n == Len(queue)
<1>2. n \in Nat /\ n > 0 /\ 1 \in 1..n /\ n \in 1..n
  BY <1>1 DEF NextCallback
<1>3. queue' \in Seq(Callbacks) /\ Len(queue') = n - 1 /\ \A k \in 1..Len(queue') : queue'[k] = queue[k + 1]
  BY <1>1, <1>2, Dequeue
<1> HIDE DEF n
<1>4. queue[1] \in Callbacks
  BY <1>1, <1>2 DEF n
<1>5. /\ inFlight = "building" /\ job.status = "running" /\ job.id = Current /\ Current > 0
      /\ InThread \/ Ended
  <2>1. queue # <<>>
    BY <1>2 DEF n
  <2> QED  BY <2>1 DEF ClientInv, TableOK, BuildingOK, RestingOK, Queued, InThread, Ended
<1>6. job \in Jobs /\ job # NoJob
  BY <1>5 DEF ClientInv, ClientTypeOK, NoJob
<1>f. Current \in Nat /\ Current' = Current
  BY <1>1 DEF Current, ClientInv, ClientTypeOK
<1>e. EarlierEnded'
  BY <1>1 DEF ClientInv, EarlierEnded, Current
<1>p. CASE queue[1].kind = "progress"
  <2> DEFINE j == [job EXCEPT !.progress = queue[1].at]
  <2>1. job' = j /\ inFlight' = inFlight
    BY <1>p, <1>1, <1>6 DEF Resolved
  <2>2. j \in Jobs /\ j.status = job.status /\ j.id = job.id
    BY <1>4, <1>6 DEF Jobs, Callbacks
  <2> HIDE DEF j
  <2>3. ClientTypeOK'
    BY <1>1, <1>3, <2>1, <2>2 DEF ClientInv, ClientTypeOK
  <2>4. ASSUME InThread PROVE InThread'
    <3>1. \A k \in 1..n : queue[k].kind = "progress"
      BY <2>4 DEF InThread, OnlyProgress, n
    <3>2. OnlyProgress(Len(queue))'
      BY <3>1, <1>2, <1>3 DEF OnlyProgress
    <3> QED  BY <3>2, <2>1, <2>2, <2>4, <1>1, <1>f DEF InThread
  <2>5. ASSUME Ended PROVE Ended'
    <3>1. /\ \A k \in 1..(n - 1) : queue[k].kind = "progress"
          /\ queue[n].kind \in {"published", "failed"}
      BY <2>5 DEF Ended, OnlyProgress, n
    <3>2. n # 1
      BY <3>1, <1>p
    <3> DEFINE m == Len(queue')
    <3>3. m \in Nat /\ m > 0 /\ m = n - 1
      BY <3>2, <1>2, <1>3
    <3>4. queue'[m] = queue[n]
      BY <3>3, <1>2, <1>3
    <3>5. \A k \in 1..(m - 1) : queue'[k].kind = "progress"
      BY <3>1, <3>3, <1>2, <1>3
    <3>6. OnlyProgress(Len(queue) - 1)' /\ queue' # <<>>
      BY <3>3, <3>5 DEF OnlyProgress
    <3> QED  BY <3>4, <3>6, <2>1, <2>2, <2>5, <1>1, <1>f DEF Ended, n
  <2>6. TableOK'
    BY <1>5, <2>1, <2>2, <2>4, <2>5, <1>f DEF TableOK, BuildingOK
  <2>7. \A c \in Clients : ReportOK(client[c])'
    BY <1>1, <2>3, Same, Reporting DEF ClientInv
  <2> QED  BY <2>3, <2>6, <2>7, <1>e DEF ClientInv
<1>r. CASE queue[1].kind \in {"published", "failed"}
  <2>1. Ended /\ n = 1
    <3>1. ~InThread
      BY <1>r, <1>2 DEF InThread, OnlyProgress, n
    <3>2. Ended
      BY <3>1, <1>5
    <3>3. \A k \in 1..(n - 1) : queue[k].kind = "progress"
      BY <3>2 DEF Ended, OnlyProgress, n
    <3> QED  BY <3>2, <3>3, <1>r, <1>2
  <2>2. queue[1].kind = fate[Current] /\ thread = NoThread
    BY <2>1 DEF Ended, n
  <2>3. queue' = <<>>
    BY <2>1, <1>3
  <2>4. /\ job' \in Jobs /\ job'.id = job.id
        /\ job'.status = IF queue[1].kind = "published" THEN "succeeded" ELSE "failed"
        /\ inFlight' = IF queue[1].kind = "published" THEN "invalidating" ELSE "none"
    <3>1. CASE queue[1].kind = "published"
      <4> DEFINE j == [job EXCEPT !.status = "succeeded", !.progress = queue[1].at]
      <4>1. job' = j /\ inFlight' = "invalidating"
        BY <3>1, <1>1 DEF Resolved
      <4>2. j \in Jobs /\ j.status = "succeeded" /\ j.id = job.id
        BY <1>4, <1>6 DEF Jobs, Callbacks
      <4> QED  BY <4>1, <4>2, <3>1
    <3>2. CASE queue[1].kind = "failed"
      <4> DEFINE j == [job EXCEPT !.status = "failed"]
      <4>1. job' = j /\ inFlight' = "none"
        BY <3>2, <1>1 DEF Resolved
      <4>2. j \in Jobs /\ j.status = "failed" /\ j.id = job.id
        BY <1>4, <1>6 DEF Jobs, Callbacks
      <4> QED  BY <4>1, <4>2, <3>2
    <3> QED  BY <3>1, <3>2, <1>r
  <2>5. ClientTypeOK'
    BY <1>1, <1>3, <2>4 DEF ClientInv, ClientTypeOK
  <2>6. \A k \in DOMAIN fate : fate[k] # "under way"
    <3>1. fate \in Seq(Fates)
      BY DEF ClientInv, ClientTypeOK
    <3>2. DOMAIN fate = 1..Current
      BY <3>1 DEF Current
    <3>3. fate[Current] # "under way"
      BY <2>2, <1>r
    <3> TAKE k \in DOMAIN fate
    <3>4. k = Current \/ k < Current
      BY <3>2, <1>f
    <3> QED  BY <3>3, <3>4 DEF ClientInv, EarlierEnded
  <2>7. RestingOK'
    BY <1>1, <1>5, <1>f, <1>r, <2>2, <2>3, <2>4, <2>6 DEF RestingOK, Terminal, Outcome
  <2>8. TableOK'
    BY <2>4, <2>7 DEF TableOK
  <2>9. \A c \in Clients : ReportOK(client[c])'
    BY <1>1, <2>5, Same, Reporting DEF ClientInv
  <2> QED  BY <2>5, <2>8, <2>9, <1>e DEF ClientInv
<1> QED  BY <1>p, <1>r, <1>4 DEF Callbacks

\* The task leaves the in-flight set after the result.
LEMMA DiscardStep ==
    ASSUME ClientInv, Discard
    PROVE  ClientInv'
<1>1. ClientTypeOK'
  BY DEF ClientInv, ClientTypeOK, Discard
<1>2. RestingOK
  BY DEF ClientInv, TableOK, Discard
<1>3. TableOK' /\ EarlierEnded'
  BY <1>2 DEF ClientInv, TableOK, EarlierEnded, Discard, RestingOK, Terminal, Outcome, Current
<1>4. \A c \in Clients : ReportOK(client[c])'
  BY <1>1, Same, Reporting DEF ClientInv, Discard
<1> QED  BY <1>1, <1>3, <1>4 DEF ClientInv

\* A finished job is evicted when it is old.
LEMMA ExpireStep ==
    ASSUME ClientInv, Expire
    PROVE  ClientInv'
<1> DEFINE j == [job EXCEPT !.old = TRUE]
<1>1. job \in Jobs /\ job' = j
  BY DEF ClientInv, ClientTypeOK, Expire
<1>2. j \in Jobs /\ j.id = job.id /\ j.status = job.status
  BY <1>1 DEF Jobs
<1> HIDE DEF j
<1>3. ClientTypeOK'
  BY <1>1, <1>2 DEF ClientInv, ClientTypeOK, Expire
<1>4. inFlight # "building"
  BY DEF ClientInv, TableOK, BuildingOK, Queued, InThread, Ended, Expire, Terminal
<1>5. RestingOK /\ job # NoJob
  BY <1>4 DEF ClientInv, TableOK, Expire, Terminal, NoJob
<1>6. TableOK' /\ EarlierEnded'
  BY <1>1, <1>2, <1>4, <1>5
  DEF ClientInv, TableOK, EarlierEnded, Expire, RestingOK, Terminal, Outcome, Current
<1>7. \A c \in Clients : ReportOK(client[c])'
  BY <1>3, Same, Reporting DEF ClientInv, Expire
<1> QED  BY <1>3, <1>6, <1>7 DEF ClientInv

\* The service dies with its table, and the build with it.
LEMMA CrashStep ==
    ASSUME ClientInv, Crash
    PROVE  ClientInv'
<1> DEFINE f == [n \in DOMAIN fate |-> IF fate[n] = "under way" THEN "lost" ELSE fate[n]]
           a == Len(fate)
<1>a. fate \in Seq(Fates)
  BY DEF ClientInv, ClientTypeOK
<1>b. a \in Nat /\ DOMAIN fate = 1..a /\ Len(fate) = a
  BY <1>a
<1>c. fate' = f
  BY DEF Crash
<1> HIDE DEF a
<1>1. fate \in Seq(Fates) /\ fate' = f /\ a \in Nat /\ DOMAIN fate = 1..a /\ Len(fate) = a
  BY <1>a, <1>b, <1>c
<1>2. f \in Seq(Fates) /\ Len(f) = a
  <2>1. \A n \in 1..a : fate[n] \in Fates /\ "lost" \in Fates
    <3>1. \A n \in 1..a : fate[n] \in Fates
      BY <1>1, LenProperties
    <3> QED  BY <3>1 DEF Fates
  <2>2. f \in [1..a -> Fates]
    BY <2>1, <1>1
  <2> QED  BY <2>2, <1>1, FunctionIsSeq
<1>3. \A n \in 1..a : f[n] # "under way" /\ (fate[n] # "under way" => f[n] = fate[n])
  BY <1>1
<1> HIDE DEF f
<1>4. ClientTypeOK'
  <2>1. fate' \in Seq(Fates)
    BY <1>1, <1>2
  <2>2. NoJob \in Jobs /\ NoThread \in [id : Nat, at : Nat] /\ <<>> \in Seq(Callbacks)
    BY DEF Jobs, NoJob, NoThread
  <2>3. /\ job' = NoJob /\ inFlight' = "none" /\ thread' = NoThread /\ queue' = <<>> /\ up' = FALSE
        /\ client' = client /\ faults' = faults + 1
    BY DEF Crash, Fault
  <2>4. client \in [Clients -> Reports] /\ faults \in Nat
    BY DEF ClientInv, ClientTypeOK
  <2>5. faults' \in Nat
    BY <2>3, <2>4
  <2> QED  BY <2>1, <2>2, <2>3, <2>4, <2>5 DEF ClientTypeOK
<1>5. DOMAIN fate' = 1..a
  BY <1>1, <1>2
<1>6. RestingOK' /\ EarlierEnded' /\ inFlight' # "building"
  BY <1>1, <1>3, <1>5 DEF Crash, RestingOK, EarlierEnded
<1>7. TableOK'
  BY <1>6 DEF TableOK
<1>8. FatesStand
  <2>1. Len(fate') = Len(fate) /\ Len(fate) \in Nat
    BY <1>1, <1>2
  <2>2. Len(fate') >= Len(fate)
    <3> DEFINE b == Len(fate')
    <3>1. a \in Nat /\ b = a
      BY <1>1, <1>2
    <3> HIDE DEF b
    <3>2. b >= a
      BY <3>1
    <3> QED  BY <3>2, <1>1 DEF b
  <2>3. \A n \in 1..Len(fate) : fate[n] # "under way" => fate'[n] = fate[n]
    BY <1>1, <1>3
  <2> QED  BY <2>2, <2>3 DEF FatesStand
<1>9. \A c \in Clients : ReportOK(client[c])'
  BY <1>4, <1>8, Reporting DEF ClientInv, Crash
<1> QED  BY <1>4, <1>6, <1>7, <1>9 DEF ClientInv

\* It comes back with an empty table.
LEMMA RestartStep ==
    ASSUME ClientInv, Restart
    PROVE  ClientInv'
<1>1. ClientTypeOK'
  BY DEF ClientInv, ClientTypeOK, Restart
<1>2. TableOK' /\ EarlierEnded'
  BY SameBuild DEF ClientInv, Restart
<1>3. \A c \in Clients : ReportOK(client[c])'
  BY <1>1, Same, Reporting DEF ClientInv, Restart
<1> QED  BY <1>1, <1>2, <1>3 DEF ClientInv

\* A POST makes a new build, the newest, when none goes on.
LEMMA AcceptedStep ==
    ASSUME ClientInv, NEW c \in Clients, NEW answered \in BOOLEAN, Accepted(c, answered)
    PROVE  ClientInv'
<1>n. fate \in Seq(Fates) /\ client \in [Clients -> Reports]
  BY DEF ClientInv, ClientTypeOK
<1>m. PICK a \in Nat : a = Len(fate)
  BY <1>n
<1> DEFINE j == [NoJob EXCEPT !.id = a + 1, !.status = "queued"]
           told == [pc |-> IF answered THEN "polling" ELSE "unreachable", id |-> a + 1, told |-> 0]
<1>1. fate \in Seq(Fates) /\ client \in [Clients -> Reports] /\ Len(fate) = a
  BY <1>n, <1>m
<1>2. a \in Nat /\ DOMAIN fate = 1..a
  BY <1>1
<1>3. /\ fate' = Append(fate, "under way") /\ job' = j /\ inFlight' = "building"
      /\ client' = [client EXCEPT ![c] = told] /\ UNCHANGED <<up, thread, queue>>
      /\ inFlight = "none"
  BY <1>1 DEF Accepted
<1>a. a + 1 \in Nat
  BY <1>2
<1>4. j \in Jobs /\ j.id = a + 1 /\ j.status = "queued"
  BY <1>a DEF Jobs, NoJob
<1>b. told \in Reports /\ told.id = a + 1 /\ told.pc \in {"polling", "unreachable"}
  BY <1>a DEF Reports
<1> HIDE DEF j, told
<1>5. PICK now \in Reports : now = told /\ now.id = a + 1 /\ now.pc \in {"polling", "unreachable"}
  BY <1>b
<1>6. /\ fate' \in Seq(Fates) /\ Len(fate') = a + 1 /\ fate'[a + 1] = "under way"
      /\ \A n \in 1..a : fate'[n] = fate[n]
  <2>1. "under way" \in Fates
    BY DEF Fates
  <2>2. PICK e \in Fates : e = "under way"
    BY <2>1
  <2>a. fate' = Append(fate, e)
    BY <1>3, <2>2
  <2>3. /\ fate' \in Seq(Fates) /\ Len(fate') = Len(fate) + 1 /\ fate'[Len(fate')] = e
        /\ \A n \in 1..Len(fate) : fate'[n] = fate[n]
    BY <1>1, <2>a, Enqueue
  <2> QED  BY <2>2, <2>3, <1>1
<1>7. ClientTypeOK'
  <2>1. faults' \in Nat
    <3>1. faults \in Nat /\ (faults' = faults \/ faults' = faults + 1)
      BY DEF ClientInv, ClientTypeOK, Accepted, Fault
    <3> QED  BY <3>1
  <2> QED  BY <1>1, <1>3, <1>4, <1>5, <1>6, <2>1 DEF ClientInv, ClientTypeOK
<1>8. RestingOK
  BY <1>3 DEF ClientInv, TableOK
<1>9. Current' = a + 1 /\ DOMAIN fate' = 1..(a + 1)
  BY <1>6, LenProperties DEF Current
<1>10. TableOK'
  <2>1. job'.id = Current' /\ job'.status = "queued" /\ Current' > 0
    <3>a. a + 1 > 0
      OBVIOUS
    <3>1. job' = j /\ a + 1 > 0
      BY <3>a, <1>3
    <3>2. j.id = Current' /\ Current' > 0
      BY <3>1, <1>4, <1>9
    <3> QED  BY <3>1, <3>2, <1>4
  <2>2. fate'[Current'] = "under way"
    BY <1>6, <1>9
  <2>3. thread' = NoThread /\ queue' = <<>>
    BY <1>3, <1>8 DEF RestingOK
  <2>4. Queued'
    BY <2>1, <2>2, <2>3 DEF Queued
  <2>5. BuildingOK'
    BY <2>1, <2>4 DEF BuildingOK
  <2> QED  BY <2>5, <1>3 DEF TableOK
<1>11. EarlierEnded'
  <2>1. \A n \in 1..a : fate'[n] # "under way"
    BY <1>2, <1>6, <1>8 DEF RestingOK
  <2>2. ASSUME NEW n \in DOMAIN fate', n < Current' PROVE fate'[n] # "under way"
    <3>1. n \in 1..(a + 1) /\ n < a + 1
      BY <1>9, <2>2
    <3>2. n \in 1..a
      BY <3>1
    <3> QED  BY <3>2, <2>1
  <2> QED  BY <2>2 DEF EarlierEnded
<1>12. FatesStand
  <2>1. Len(fate) = a /\ Len(fate') = a + 1
    BY <1>1, <1>6
  <2>2. Len(fate') >= Len(fate)
    BY <2>1, <1>2
  <2> QED  BY <2>1, <2>2, <1>6 DEF FatesStand
<1>13. ReportOK(now)'
  <2>1. now.id <= Current' /\ now.id \in DOMAIN fate'
    <3>1. now.id = a + 1 /\ a + 1 \in 1..(a + 1) /\ a + 1 <= a + 1
      BY <1>2, <1>5
    <3> QED  BY <3>1, <1>9
  <2> QED  BY <2>1, <1>5 DEF ReportOK
<1>14. client'[c] = now /\ \A d \in Clients \ {c} : client'[d] = client[d]
  BY <1>1, <1>3, <1>5
<1>15. \A d \in Clients : ReportOK(client[d])'
  BY <1>5, <1>7, <1>12, <1>13, <1>14, OneReports DEF ClientInv
<1> QED  BY <1>7, <1>10, <1>11, <1>15 DEF ClientInv

\* A client that ends without news of a build.
LEMMA OnlyPc ==
    ASSUME ClientInv, NEW c \in Clients,
           NEW pc \in {"raised", "conflict", "unreachable"}, Goes(c, pc),
           UNCHANGED <<up, job, inFlight, thread, queue, fate>>, faults' \in Nat
    PROVE  ClientInv'
<1> DEFINE said == [client[c] EXCEPT !.pc = pc]
<1>1. client \in [Clients -> Reports] /\ client' = [client EXCEPT ![c] = said]
  BY DEF ClientInv, ClientTypeOK, Goes
<1>2. client[c] \in Reports /\ ReportOK(client[c])
  BY <1>1 DEF ClientInv
<1>a. said \in Reports /\ said.pc = pc /\ said.id = client[c].id
  BY <1>2 DEF Reports
<1> HIDE DEF said
<1>3. PICK now \in Reports : now = said /\ now.pc = pc /\ now.id = client[c].id
  BY <1>a
<1>4. ClientTypeOK'
  BY <1>1, <1>3 DEF ClientInv, ClientTypeOK
<1>5. ReportOK(now)'
  BY <1>2, <1>3 DEF ReportOK, Current
<1>6. client'[c] = now /\ \A d \in Clients \ {c} : client'[d] = client[d]
  BY <1>1, <1>3
<1>7. \A d \in Clients : ReportOK(client[d])'
  BY <1>3, <1>4, <1>5, <1>6, Same, OneReports DEF ClientInv
<1>8. TableOK' /\ EarlierEnded'
  BY SameBuild DEF ClientInv
<1> QED  BY <1>4, <1>7, <1>8 DEF ClientInv

\* A POST that finds a build under way, or no service.
LEMMA RefusedStep ==
    ASSUME ClientInv, NEW c \in Clients, Refused(c)
    PROVE  ClientInv'
<1>1. faults' \in Nat
  BY DEF ClientInv, ClientTypeOK, Refused
<1> QED  BY <1>1, OnlyPc DEF Refused

\* A poll that finds no service, or whose answer is lost.
LEMMA PollRaisesStep ==
    ASSUME ClientInv, NEW c \in Clients, PollRaises(c)
    PROVE  ClientInv'
<1>1. faults' \in Nat
  BY DEF ClientInv, ClientTypeOK, PollRaises, Fault
<1> QED  BY <1>1, OnlyPc DEF PollRaises

\* The user starts over.
LEMMA LeaveStep ==
    ASSUME ClientInv, NEW c \in Clients, Leave(c)
    PROVE  ClientInv'
<1>1. client \in [Clients -> Reports] /\ client' = [client EXCEPT ![c] = AtRest]
  BY DEF ClientInv, ClientTypeOK, Leave
<1>3. AtRest \in Reports /\ AtRest.pc = "idle" /\ AtRest.id = 0
  BY DEF Reports, AtRest
<1>4. ClientTypeOK'
  BY <1>1, <1>3 DEF ClientInv, ClientTypeOK, Leave
<1>5. ReportOK(AtRest)'
  <2>1. Current' \in Nat
    BY <1>4 DEF ClientTypeOK, Current
  <2> QED  BY <2>1, <1>3 DEF ReportOK
<1>6. client'[c] = AtRest /\ \A d \in Clients \ {c} : client'[d] = client[d]
  BY <1>1
<1>7. \A d \in Clients : ReportOK(client[d])'
  BY <1>3, <1>4, <1>5, <1>6, Same, OneReports DEF ClientInv, Leave
<1>8. TableOK' /\ EarlierEnded'
  BY SameBuild DEF ClientInv, Leave
<1> QED  BY <1>4, <1>7, <1>8 DEF ClientInv

\* A poll reports what the table says of its slug: its own build or a newer one.
LEMMA PollStep ==
    ASSUME ClientInv, NEW c \in Clients, Poll(c)
    PROVE  ClientInv'
<1> DEFINE next == CASE job' = NoJob -> "disappeared"
                     [] job' # NoJob /\ Terminal(job') -> job'.status
                     [] OTHER -> "polling"
           said == [client[c] EXCEPT !.pc = next, !.told = job'.id]
<1>1. client \in [Clients -> Reports] /\ client' = [client EXCEPT ![c] = said]
      /\ job' = EvictCompletedJobs /\ UNCHANGED <<up, inFlight, thread, queue, fate, faults>>
      /\ client[c].pc = "polling" /\ job \in Jobs /\ fate \in Seq(Fates)
  BY DEF ClientInv, ClientTypeOK, Poll, At
<1>2. client[c] \in Reports /\ ReportOK(client[c])
  BY <1>1 DEF ClientInv
<1>3. job' \in Jobs /\ (job' = job \/ (job' = NoJob /\ Terminal(job)))
  BY <1>1 DEF EvictCompletedJobs, Jobs, NoJob
<1>4. next \in {"disappeared", "succeeded", "failed", "polling"}
  BY DEF Terminal
<1>a. said \in Reports /\ said.pc = next /\ said.id = client[c].id /\ said.told = job'.id
  BY <1>2, <1>3, <1>4 DEF Reports, Jobs
<1> HIDE DEF said
<1>5. PICK now \in Reports : /\ now = said /\ now.pc = next /\ now.id = client[c].id
                            /\ now.told = job'.id
  BY <1>a
<1>6. Current \in Nat /\ DOMAIN fate = 1..Current /\ Current' = Current
  BY <1>1 DEF Current
<1>7. now.id <= Current /\ now.id \in DOMAIN fate /\ now.id \in Nat
  BY <1>1, <1>2, <1>5 DEF ReportOK, Reports
<1>8. ASSUME inFlight = "building"
      PROVE  job' = job /\ ~Terminal(job) /\ job # NoJob
  <2>1. job.status \in {"queued", "running"}
    BY <1>8 DEF ClientInv, TableOK, BuildingOK, Queued, InThread, Ended
  <2>2. ~Terminal(job)
    BY <2>1 DEF Terminal
  <2> QED  BY <2>1, <2>2, <1>3 DEF NoJob
<1>9. ASSUME inFlight # "building"
      PROVE  RestingOK /\ \A n \in DOMAIN fate : fate[n] # "under way"
  BY <1>9 DEF ClientInv, TableOK, RestingOK
<1>10. ReportOK(now)'
  <2>1. CASE inFlight = "building"
    <3>1. next = "polling"
      BY <1>8, <2>1
    <3> QED  BY <3>1, <1>5, <1>6, <1>7, <1>1 DEF ReportOK
  <2>2. CASE inFlight # "building"
    <3>1. CASE job' = NoJob
      <4>1. next = "disappeared"
        BY <3>1
      <4> QED  BY <4>1, <1>5, <1>6, <1>7, <1>1, <1>9, <2>2 DEF ReportOK
    <3>2. CASE job' # NoJob
      <4>1. job' = job /\ Terminal(job) /\ job.id = Current /\ Current > 0 /\ fate[Current] = Outcome(job)
        BY <1>3, <1>9, <2>2, <3>2 DEF RestingOK
      <4>2. next = job.status /\ job.status \in {"succeeded", "failed"}
        BY <4>1, <3>2 DEF Terminal
      <4>3. now.told = Current /\ now.told \in DOMAIN fate /\ now.told >= now.id
        BY <4>1, <1>5, <1>6, <1>7
      <4> QED  BY <4>1, <4>2, <4>3, <1>5, <1>6, <1>7, <1>1 DEF ReportOK, Outcome
    <3> QED  BY <3>1, <3>2
  <2> QED  BY <2>1, <2>2
<1> HIDE DEF next
<1>11. ClientTypeOK'
  BY <1>1, <1>3, <1>5 DEF ClientInv, ClientTypeOK
<1>12. client'[c] = now /\ \A d \in Clients \ {c} : client'[d] = client[d]
  BY <1>1, <1>5
<1>13. \A d \in Clients : ReportOK(client[d])'
  <2>1. FatesStand
    BY <1>1, Same DEF ClientInv
  <2> QED  BY <2>1, <1>10, <1>11, <1>12, OneReports DEF ClientInv
<1>14. TableOK'
  <2>1. CASE inFlight = "building"
    BY <2>1, <1>1, <1>8, SameBuild DEF ClientInv
  <2>2. CASE inFlight # "building"
    <3>1. RestingOK'
      BY <1>1, <1>3, <1>6, <1>9, <2>2 DEF RestingOK
    <3> QED  BY <3>1, <2>2, <1>1 DEF TableOK
  <2> QED  BY <2>1, <2>2
<1>15. EarlierEnded'
  BY <1>1, <1>6 DEF ClientInv, EarlierEnded
<1> QED  BY <1>11, <1>13, <1>14, <1>15 DEF ClientInv

\* Nothing changes when nothing happens.
LEMMA ClientStutters ==
    ASSUME ClientInv, UNCHANGED ClientVars
    PROVE  ClientInv'
<1>1. ClientTypeOK'
  BY DEF ClientInv, ClientTypeOK, ClientVars
<1>2. TableOK' /\ EarlierEnded'
  BY SameBuild DEF ClientInv, ClientVars
<1>3. \A c \in Clients : ReportOK(client[c])'
  BY <1>1, Same, Reporting DEF ClientInv, ClientVars
<1> QED  BY <1>1, <1>2, <1>3 DEF ClientInv

\* In every reachable state, service and clients agree: ClientInv.
THEOREM ClientInvariant == ClientSpec => []ClientInv
<1>1. ClientInv /\ [ClientNext]_ClientVars => ClientInv'
  BY RunBuildStep, OnProgressStep, BuildEndsStep, LoopStepStep, DiscardStep, ExpireStep, CrashStep,
     RestartStep, AcceptedStep, RefusedStep, PollRaisesStep, LeaveStep, PollStep, ClientStutters
  DEF ClientNext, ServiceSteps
<1> QED  BY <1>1, Begins, PTL DEF ClientSpec

\* A client reports success or failure only of a build of its slug, its own or one
\* after it, that came to that; for any number of clients, crashes and lost answers.
THEOREM ReportsTrue == ClientSpec => []ReportsAreTrue
<1>1. ClientInv => ReportsAreTrue
  BY DEF ClientInv, ReportOK, ReportsAreTrue, At
<1> QED  BY <1>1, ClientInvariant, PTL

\* A job that has ended keeps its outcome, whatever callbacks are late.
THEOREM Outcomes == ClientSpec => TerminalJobsStand
<1> DEFINE Stands == Terminal(job) /\ job'.id = job.id =>
                        job'.status = job.status /\ job'.progress = job.progress
<1>1. ASSUME ClientInv, ClientNext, Terminal(job), job'.id = job.id
      PROVE  job'.status = job.status /\ job'.progress = job.progress
  <2>1. inFlight # "building" /\ RestingOK
    BY <1>1 DEF ClientInv, TableOK, BuildingOK, Queued, InThread, Ended, Terminal
  <2>2. queue = <<>> /\ thread = NoThread /\ job \in Jobs /\ job # NoJob /\ job.id = Current /\ Current > 0
    <3>1. job \in Jobs
      BY <1>1 DEF ClientInv, ClientTypeOK
    <3>2. job # NoJob
      BY <1>1 DEF Terminal, NoJob
    <3> QED  BY <3>1, <3>2, <2>1 DEF RestingOK
  <2>3. ~RunBuild /\ ~LoopStep /\ job' # NoJob
    BY <1>1, <2>1, <2>2 DEF RunBuild, LoopStep, NextCallback, NoJob
  <2>4. CASE Expire
    BY <2>2, <2>4 DEF Expire, Jobs
  <2>5. ASSUME NEW c \in Clients, NEW answered \in BOOLEAN, Accepted(c, answered)
        PROVE  FALSE
    <3>1. Current \in Nat
      BY <1>1 DEF ClientInv, ClientTypeOK, Current
    <3>2. job'.id = Current + 1
      BY <2>5 DEF Accepted, NoJob, Current
    <3> QED  BY <3>1, <3>2, <2>2, <1>1
  <2>6. CASE job' = job
    BY <2>6
  <2> QED  BY <1>1, <2>3, <2>4, <2>5, <2>6
           DEF ClientNext, ServiceSteps, OnProgress, BuildEnds, Discard, Crash, Restart, Poll,
               EvictCompletedJobs, PollRaises, Leave, Refused
<1>2. ClientInv /\ [ClientNext]_ClientVars => [Stands]_ClientVars
  BY <1>1
<1> QED  BY <1>2, ClientInvariant, PTL DEF ClientSpec, TerminalJobsStand

-----------------------------------------------------------------------------
(* Daemon                                                                  *)

\* What pids are taken by, and what sessions know.
Processes == [kind : {"free", "stranger", "daemon"}, alive : BOOLEAN, parent : Sessions \union {Nobody}]
Places == {"idle", "over", "mode", "save", "dispatch", "resolve", "compose", "repos", "start", "spawn",
           "open", "write", "ready", "stop", "clean", "rmtree", "wait", "exit", "stale", "unlink",
           "killed"}
Words == {"nothing", "mode set", "docker", "raised", "already running", "started", "cleaned",
          "did not stop", "not running", "stopped"}
Knowledge == [pc : Places, cmd : {"none", "mode", "start", "stop", "clean"}, mode : Modes,
              proc : Pids \union {NoPid}, exited : BOOLEAN, pid : Pids \union {NoPid}, said : Words]
Work == {w \in Knowledge : /\ w.pc = "dispatch" => w.cmd \in {"start", "stop", "clean"}
                           /\ w.pc = "resolve" => w.cmd \in {"start", "stop"}}

DaemonTypeOK ==
    /\ os \in [Pids -> Processes] /\ pidFile \in Pids \union {NoPid} /\ mode \in Modes
    /\ session \in [Sessions -> Work] /\ orderly \in BOOLEAN /\ started \in Nat /\ events \in Nat

\* A daemon runs already that the pid file does not name yet.
Starting == {"open", "write"}
\* A stop or clean that has to do with a daemon it did not start.
Stopping == {"exit", "killed", "stale", "unlink"}
\* No daemon runs at these steps.
Cleared == {"spawn", "save", "unlink", "stale", "killed", "rmtree"}

\* What the session w at work knows of the daemons, the pid file and the mode.
WorkOK(w, daemons, file, m) ==
    /\ w.pc \in Starting => daemons \subseteq {w.proc}
    /\ w.pc \notin Starting => daemons \subseteq {file} /\ w.proc \in {NoPid, file}
    /\ w.pc \in Cleared => daemons = {}
    /\ w.pc \in {"start", "spawn", "open", "write"} => m = "daemon"
    /\ w.pc = "exit" => w.pid = file
    /\ w.pc \in Stopping => w.proc = NoPid
    /\ w.pc = "wait" => w.proc # NoPid
    /\ w.pc = "repos" => w.mode = m
    /\ w.exited => w.proc \notin daemons

AtMostOneWorks == \A s \in Sessions : session[s] # Ready => Alone(s)
\* What holds while commands come one at a time.
OrderlyOK ==
    /\ AtMostOneWorks
    /\ Daemons # {} => mode = "daemon" /\ Sessions # {}
    /\ \A s \in Sessions : Alone(s) => WorkOK(session[s], Daemons, pidFile, mode)

\* The invariant of the daemon's manager.
DaemonInv == DaemonTypeOK /\ (orderly => OrderlyOK)

\* One session goes to pc, and changes nothing else of what it knows.
GoesTo(s, pc) ==
    /\ session' \in [Sessions -> Work] /\ session'[s].pc = pc
    /\ session'[s].cmd = session[s].cmd /\ session'[s].mode = session[s].mode
    /\ session'[s].proc = session[s].proc /\ session'[s].exited = session[s].exited
    /\ session'[s].pid = session[s].pid
    /\ \A t \in Sessions \ {s} : session'[t] = session[t]

\* A step that only proceeds.
LEMMA Proceeding ==
    ASSUME DaemonTypeOK, NEW s \in Sessions, NEW pc \in Places \ {"dispatch", "resolve"}, Proceeds(s, pc)
    PROVE  GoesTo(s, pc)
<1> DEFINE w == [session[s] EXCEPT !.pc = pc]
<1>1. session \in [Sessions -> Work] /\ session[s] \in Work /\ session' = [session EXCEPT ![s] = w]
  BY DEF DaemonTypeOK, Proceeds
<1>2. /\ w \in Work /\ w.pc = pc /\ w.cmd = session[s].cmd /\ w.mode = session[s].mode
      /\ w.proc = session[s].proc /\ w.exited = session[s].exited /\ w.pid = session[s].pid
  BY <1>1 DEF Work, Knowledge
<1> HIDE DEF w
<1> QED  BY <1>1, <1>2 DEF GoesTo

\* A command that ends with a word.
LEMMA Saying ==
    ASSUME DaemonTypeOK, NEW s \in Sessions, NEW word \in Words, Says(s, word)
    PROVE  GoesTo(s, "over")
<1> DEFINE w == [session[s] EXCEPT !.pc = "over", !.said = word]
<1>1. session \in [Sessions -> Work] /\ session[s] \in Work /\ session' = [session EXCEPT ![s] = w]
  BY DEF DaemonTypeOK, Says
<1>2. /\ w \in Work /\ w.pc = "over" /\ w.cmd = session[s].cmd /\ w.mode = session[s].mode
      /\ w.proc = session[s].proc /\ w.exited = session[s].exited /\ w.pid = session[s].pid
  <2>1. session[s] \in Knowledge /\ "over" \in Places
    BY <1>1 DEF Work, Places
  <2>2. /\ w \in Knowledge /\ w.pc = "over" /\ w.cmd = session[s].cmd /\ w.mode = session[s].mode
        /\ w.proc = session[s].proc /\ w.exited = session[s].exited /\ w.pid = session[s].pid
    BY <2>1 DEF Knowledge
  <2> QED  BY <2>2 DEF Work
<1> HIDE DEF w
<1> QED  BY <1>1, <1>2 DEF GoesTo

\* The daemons are the same while the processes are.
LEMMA SameDaemons ==
    ASSUME os' = os
    PROVE  Daemons' = Daemons
  BY DEF Daemons, Running, Exists

\* A process that ends is no daemon any more; the others are.
LEMMA Stopped ==
    ASSUME DaemonTypeOK, NEW p \in Pids, os' = [os EXCEPT ![p] = Unused] \/ os' = Dead(p, os)
    PROVE  os' \in [Pids -> Processes] /\ Daemons' = Daemons \ {p}
<1> DEFINE u == IF os[p].parent = Nobody THEN Unused ELSE [os[p] EXCEPT !.alive = FALSE]
<1>1. os \in [Pids -> Processes] /\ os[p] \in Processes
  BY DEF DaemonTypeOK
<1>2. Unused \in Processes /\ Unused.alive = FALSE
  BY DEF Unused, Processes
<1>3. u \in Processes /\ u.alive = FALSE
  BY <1>1, <1>2 DEF Processes
<1>4. os' = [os EXCEPT ![p] = Unused] \/ os' = [os EXCEPT ![p] = u]
  BY DEF Dead
<1> HIDE DEF u
<1>5. os' \in [Pids -> Processes] /\ os'[p].alive = FALSE /\ \A r \in Pids : r # p => os'[r] = os[r]
  BY <1>1, <1>2, <1>3, <1>4
<1> QED  BY <1>5 DEF Daemons, Running, Exists

\* The end of a session kills no daemon.
LEMMA Adopted ==
    ASSUME DaemonTypeOK, NEW s \in Sessions, os' = Orphaned(s)
    PROVE  os' \in [Pids -> Processes] /\ Daemons' = Daemons
<1>1. ASSUME NEW p \in Pids
      PROVE  /\ os'[p] \in Processes
             /\ ~os[p].alive => ~os'[p].alive
             /\ os[p].alive => os'[p].alive /\ os'[p].kind = os[p].kind
  <2>1. os[p] \in Processes
    BY DEF DaemonTypeOK
  <2>2. CASE os[p].parent = s /\ os[p].alive
    <3>1. os'[p] = [os[p] EXCEPT !.parent = Nobody]
      BY <2>2 DEF Orphaned
    <3>2. os'[p] \in Processes /\ os'[p].kind = os[p].kind /\ os'[p].alive = os[p].alive
      BY <2>1, <3>1 DEF Processes
    <3> QED  BY <2>2, <3>2
  <2>3. CASE os[p].parent = s /\ ~os[p].alive
    <3>1. os'[p] = Unused
      BY <2>3 DEF Orphaned
    <3>2. os'[p] \in Processes /\ ~os'[p].alive
      BY <3>1 DEF Processes, Unused
    <3> QED  BY <2>3, <3>2
  <2>4. CASE os[p].parent # s
    <3>1. os'[p] = os[p]
      BY <2>4 DEF Orphaned
    <3> QED  BY <2>1, <3>1
  <2>5. os[p].alive \in BOOLEAN
    BY <2>1 DEF Processes
  <2> QED  BY <2>2, <2>3, <2>4, <2>5
<1>2. os' = [p \in Pids |-> os'[p]]
  BY DEF Orphaned
<1> QED  BY <1>1, <1>2 DEF Daemons, Running, Exists

\* A session that is at work is the only one.
LEMMA AtWork ==
    ASSUME DaemonTypeOK, OrderlyOK, NEW s \in Sessions, ~IsAt(s, "idle")
    PROVE  Alone(s) /\ WorkOK(session[s], Daemons, pidFile, mode)
<1>1. session[s] # Ready
  BY DEF IsAt, Ready
<1> QED  BY <1>1 DEF OrderlyOK, AtMostOneWorks

\* What the only session at work has to keep.
LEMMA OneMoves ==
    ASSUME NEW s \in Sessions, Alone(s), \A t \in Sessions \ {s} : session'[t] = session[t],
           WorkOK(session[s], Daemons, pidFile, mode)',
           Daemons' # {} => mode' = "daemon"
    PROVE  OrderlyOK'
<1>1. \A t \in Sessions \ {s} : session'[t] = Ready
  BY DEF Alone
<1>2. AtMostOneWorks'
  BY <1>1 DEF AtMostOneWorks, Alone
<1>3. ASSUME NEW t \in Sessions, Alone(t)'
      PROVE  WorkOK(session[t], Daemons, pidFile, mode)'
  <2>1. CASE t = s
    BY <2>1
  <2>2. CASE t # s
    <3>1. session'[s] = Ready /\ session'[t] = Ready
      BY <1>1, <1>3, <2>2 DEF Alone
    <3> QED  BY <3>1
  <2> QED  BY <2>1, <2>2
<1> QED  BY <1>2, <1>3 DEF OrderlyOK

\* No daemon runs at first.
LEMMA DaemonBegins == DaemonInit => DaemonInv
<1> SUFFICES ASSUME DaemonInit PROVE DaemonInv
  OBVIOUS
<1>1. Unused \in Processes /\ Ready \in Work
  BY DEF Unused, Processes, Ready, Work, Knowledge, Places, Modes, Words
<1>2. DaemonTypeOK
  BY <1>1 DEF DaemonInit, DaemonTypeOK, Modes
<1>3. Daemons = {}
  BY DEF DaemonInit, Daemons, Running, Exists, Unused
<1>4. \A s \in Sessions : WorkOK(session[s], Daemons, pidFile, mode)
  BY <1>3 DEF DaemonInit, WorkOK, Ready, Starting, Cleared, Stopping
<1>5. OrderlyOK
  BY <1>3, <1>4 DEF DaemonInit, OrderlyOK, AtMostOneWorks
<1> QED  BY <1>2, <1>5 DEF DaemonInv

\* A handler that only takes its session elsewhere.
LEMMA Moving ==
    ASSUME DaemonInv, NEW s \in Sessions, ~IsAt(s, "idle"), NEW pc \in Places, GoesTo(s, pc),
           UNCHANGED <<os, pidFile, mode, orderly, started, events>>,
           pc \notin Starting, session[s].pc \notin Starting, pc # "exit",
           pc = "wait" => session[s].proc # NoPid,
           orderly /\ WorkOK(session[s], Daemons, pidFile, mode) =>
               /\ pc \in Cleared => Daemons = {}
               /\ pc \in Stopping => session[s].proc = NoPid
               /\ pc \in {"start", "spawn"} => mode = "daemon"
               /\ pc = "repos" => session[s].mode = mode
    PROVE  DaemonInv'
<1>1. DaemonTypeOK /\ DaemonTypeOK'
  BY DEF DaemonInv, DaemonTypeOK, GoesTo
<1>2. ASSUME orderly'
      PROVE  OrderlyOK'
  <2>1. orderly /\ OrderlyOK /\ Daemons' = Daemons
    BY <1>2, SameDaemons DEF DaemonInv
  <2>2. Alone(s) /\ WorkOK(session[s], Daemons, pidFile, mode)
    BY <1>1, <2>1, AtWork
  <2>3. WorkOK(session[s], Daemons, pidFile, mode)'
    BY <2>1, <2>2 DEF WorkOK, GoesTo, Starting
  <2>4. Daemons' # {} => mode' = "daemon"
    BY <2>1 DEF OrderlyOK
  <2> QED  BY <2>2, <2>3, <2>4, OneMoves DEF GoesTo
<1> QED  BY <1>1, <1>2 DEF DaemonInv

\* The backend reads the mode once more.
LEMMA ResolveStep ==
    ASSUME DaemonInv, NEW s \in Sessions, Resolve(s)
    PROVE  DaemonInv'
<1>1. session[s] \in Work /\ session[s].pc = "resolve" /\ DaemonTypeOK
  BY DEF DaemonInv, DaemonTypeOK, Resolve, IsAt
<1>2. CASE mode = "daemon"
  <2>1. PICK pc \in {"start", "stop"} : pc = session[s].cmd
    BY <1>1 DEF Work
  <2>2. GoesTo(s, pc) /\ pc \in Places
    BY <1>1, <1>2, <2>1, Proceeding DEF Resolve, Places
  <2> QED  BY <1>1, <1>2, <2>2, Moving DEF Resolve, IsAt, Starting, Cleared, Stopping
<1>3. CASE mode # "daemon"
  <2>1. GoesTo(s, "over") /\ "over" \in Places
    BY <1>1, <1>3, Saying DEF Resolve, Words, Places
  <2> QED  BY <1>1, <2>1, Moving DEF Resolve, IsAt, Starting, Cleared, Stopping
<1> QED  BY <1>2, <1>3

\* docker compose is none of the daemon's business.
LEMMA ComposeStep ==
    ASSUME DaemonInv, NEW s \in Sessions, Compose(s)
    PROVE  DaemonInv'
<1>1. session[s].pc = "compose" /\ DaemonTypeOK
  BY DEF DaemonInv, Compose, IsAt
<1>2. GoesTo(s, "over") /\ "over" \in Places
  BY <1>1, Saying DEF Compose, Words, Places
<1> QED  BY <1>1, <1>2, Moving DEF Compose, IsAt, Starting, Cleared, Stopping

\* clean deletes the repositories through whatever answers.
LEMMA RemoveReposStep ==
    ASSUME DaemonInv, NEW s \in Sessions, RemoveRepos(s)
    PROVE  DaemonInv'
<1>1. session[s].pc = "repos" /\ DaemonTypeOK
  BY DEF DaemonInv, RemoveRepos, IsAt
<1>2. CASE Says(s, "raised")
  <2>1. GoesTo(s, "over") /\ "over" \in Places
    BY <1>1, <1>2, Saying DEF Words, Places
  <2> QED  BY <1>1, <2>1, Moving DEF RemoveRepos, IsAt, Starting, Cleared, Stopping
<1>3. CASE session[s].mode = "daemon" /\ Proceeds(s, "clean")
  <2>1. GoesTo(s, "clean") /\ "clean" \in Places
    BY <1>1, <1>3, Proceeding DEF Places
  <2> QED  BY <1>1, <2>1, Moving DEF RemoveRepos, IsAt, Starting, Cleared, Stopping
<1>4. CASE session[s].mode # "daemon" /\ Proceeds(s, "rmtree")
  <2>1. GoesTo(s, "rmtree") /\ "rmtree" \in Places
    BY <1>1, <1>4, Proceeding DEF Places
  <2>2. orderly /\ WorkOK(session[s], Daemons, pidFile, mode) => Daemons = {}
    BY <1>1, <1>4 DEF WorkOK, DaemonInv, OrderlyOK
  <2> QED  BY <1>1, <2>1, <2>2, Moving DEF RemoveRepos, IsAt, Starting, Stopping
<1> QED  BY <1>2, <1>3, <1>4 DEF RemoveRepos

\* A daemon that could not be started is not there.
LEMMA PopenFailsStep ==
    ASSUME DaemonInv, NEW s \in Sessions, PopenFails(s)
    PROVE  DaemonInv'
<1>1. session[s].pc = "spawn" /\ DaemonTypeOK
  BY DEF DaemonInv, PopenFails, IsAt
<1>2. GoesTo(s, "over") /\ "over" \in Places
  BY <1>1, Saying DEF PopenFails, Words, Places
<1> QED  BY <1>1, <1>2, Moving DEF PopenFails, IsAt, Starting, Cleared, Stopping

\* Waiting for the daemon to answer changes nothing.
LEMMA WaitForReadyStep ==
    ASSUME DaemonInv, NEW s \in Sessions, WaitForReady(s)
    PROVE  DaemonInv'
<1>1. session[s].pc = "ready" /\ DaemonTypeOK
  BY DEF DaemonInv, WaitForReady, IsAt
<1>2. GoesTo(s, "over") /\ "over" \in Places
  BY <1>1, Saying DEF WaitForReady, Words, Places
<1> QED  BY <1>1, <1>2, Moving DEF WaitForReady, IsAt, Starting, Cleared, Stopping

\* clean removes the data once no daemon runs.
LEMMA RmtreeStep ==
    ASSUME DaemonInv, NEW s \in Sessions, Rmtree(s)
    PROVE  DaemonInv'
<1>1. session[s].pc = "rmtree" /\ DaemonTypeOK
  BY DEF DaemonInv, Rmtree, IsAt
<1>2. GoesTo(s, "over") /\ "over" \in Places
  BY <1>1, Saying DEF Rmtree, Words, Places
<1> QED  BY <1>1, <1>2, Moving DEF Rmtree, IsAt, Starting, Cleared, Stopping

\* A stop of the child this process has started.
LEMMA StopTrackedStep ==
    ASSUME DaemonInv, NEW s \in Sessions, StopTracked(s)
    PROVE  DaemonInv'
<1>1. session[s].pc = "stop" /\ DaemonTypeOK
  BY DEF DaemonInv, StopTracked, IsAt
<1>2. GoesTo(s, "wait") /\ "wait" \in Places
  BY <1>1, Proceeding DEF StopTracked, Places
<1> QED  BY <1>1, <1>2, Moving DEF StopTracked, IsAt, Starting, Cleared, Stopping

\* The process stopped by its pid is gone.
LEMMA SeesExitStep ==
    ASSUME DaemonInv, NEW s \in Sessions, SeesExit(s)
    PROVE  DaemonInv'
<1>1. session[s].pc \in {"exit", "killed"} /\ DaemonTypeOK
  BY DEF DaemonInv, SeesExit, IsAt
<1>2. GoesTo(s, "unlink") /\ "unlink" \in Places
  BY <1>1, Proceeding DEF SeesExit, Places
<1>3. WorkOK(session[s], Daemons, pidFile, mode) => Daemons = {} /\ session[s].proc = NoPid
  BY <1>1 DEF SeesExit, WorkOK, Starting, Cleared, Stopping, Daemons, Running
<1> QED  BY <1>1, <1>2, <1>3, Moving DEF SeesExit, IsAt, Starting, Stopping

\* The process stopped by its pid stays beyond the wait.
LEMMA TimesOutStep ==
    ASSUME DaemonInv, NEW s \in Sessions, TimesOut(s)
    PROVE  DaemonInv'
<1>1. session[s].pc = "killed" /\ DaemonTypeOK
  BY DEF DaemonInv, TimesOut, IsAt
<1>2. GoesTo(s, "over") /\ "over" \in Places
  BY <1>1, Saying DEF TimesOut, Words, Places
<1> QED  BY <1>1, <1>2, Moving DEF TimesOut, IsAt, Starting, Cleared, Stopping

\* What happens outside of sessions and only takes daemons away.
LEMMA Resting ==
    ASSUME DaemonInv, DaemonTypeOK', UNCHANGED <<pidFile, mode, session>>, Daemons' \subseteq Daemons,
           orderly' => orderly
    PROVE  DaemonInv'
<1>1. ASSUME orderly'
      PROVE  OrderlyOK'
  <2>1. OrderlyOK
    BY <1>1 DEF DaemonInv
  <2>2. AtMostOneWorks'
    BY <2>1 DEF OrderlyOK, AtMostOneWorks, Alone
  <2>3. ASSUME NEW s \in Sessions, Alone(s)'
        PROVE  WorkOK(session[s], Daemons, pidFile, mode)'
    <3>1. WorkOK(session[s], Daemons, pidFile, mode)
      BY <2>1, <2>3 DEF OrderlyOK, Alone
    <3> QED  BY <3>1 DEF WorkOK
  <2>4. Daemons' # {} => mode' = "daemon" /\ Sessions # {}
    BY <2>1 DEF OrderlyOK
  <2> QED  BY <2>2, <2>3, <2>4 DEF OrderlyOK
<1> QED  BY <1>1 DEF DaemonInv

\* A daemon dies by itself.
LEMMA DaemonDiesStep ==
    ASSUME DaemonInv, NEW p \in Pids, DaemonDies(p)
    PROVE  DaemonInv'
<1>1. os' \in [Pids -> Processes] /\ Daemons' = Daemons \ {p}
  BY Stopped DEF DaemonInv, DaemonDies
<1>2. DaemonTypeOK'
  BY <1>1 DEF DaemonInv, DaemonTypeOK, DaemonDies, Event
<1> QED  BY <1>1, <1>2, Resting DEF DaemonDies

\* Another process takes a free pid.
LEMMA StrangerComesStep ==
    ASSUME DaemonInv, NEW p \in Pids, StrangerComes(p)
    PROVE  DaemonInv'
<1> DEFINE x == [kind |-> "stranger", alive |-> TRUE, parent |-> Nobody]
<1>1. os \in [Pids -> Processes] /\ os' = [os EXCEPT ![p] = x]
  BY DEF DaemonInv, DaemonTypeOK, StrangerComes
<1>2. x \in Processes /\ x.kind = "stranger"
  BY DEF Processes
<1> HIDE DEF x
<1>3. os' \in [Pids -> Processes] /\ os'[p].kind = "stranger" /\ \A r \in Pids : r # p => os'[r] = os[r]
  BY <1>1, <1>2
<1>4. Daemons' \subseteq Daemons
  BY <1>3 DEF Daemons, Running, Exists
<1>5. (orderly' => orderly) /\ orderly' \in BOOLEAN
  BY DEF StrangerComes, DaemonInv, DaemonTypeOK
<1>6. DaemonTypeOK'
  BY <1>3, <1>5 DEF DaemonInv, DaemonTypeOK, StrangerComes, Event
<1> QED  BY <1>4, <1>5, <1>6, Resting DEF StrangerComes

\* A process obeys the signal.
LEMMA ObeysStep ==
    ASSUME DaemonInv, NEW s \in Sessions, Obeys(s)
    PROVE  DaemonInv'
<1>1. session[s].pid \in Pids /\ os' = Dead(session[s].pid, os)
  BY DEF Obeys, Running, Exists
<1>2. os' \in [Pids -> Processes] /\ Daemons' = Daemons \ {session[s].pid}
  BY <1>1, Stopped DEF DaemonInv
<1>3. DaemonTypeOK'
  BY <1>2 DEF DaemonInv, DaemonTypeOK, Obeys
<1> QED  BY <1>2, <1>3, Resting DEF Obeys

\* What a handler of one session has to show when it changes more than where the
\* session is.
LEMMA Working ==
    ASSUME DaemonInv, NEW s \in Sessions, DaemonTypeOK',
           \A t \in Sessions \ {s} : session'[t] = session[t],
           orderly' => orderly /\ (~IsAt(s, "idle") \/ Alone(s)),
           orderly' /\ OrderlyOK /\ WorkOK(session[s], Daemons, pidFile, mode) =>
               WorkOK(session[s], Daemons, pidFile, mode)' /\ (Daemons' # {} => mode' = "daemon")
    PROVE  DaemonInv'
<1>1. ASSUME orderly'
      PROVE  OrderlyOK'
  <2>1. orderly /\ OrderlyOK /\ DaemonTypeOK
    BY <1>1 DEF DaemonInv
  <2>2. Alone(s) /\ WorkOK(session[s], Daemons, pidFile, mode)
    BY <1>1, <2>1, AtWork DEF OrderlyOK
  <2> QED  BY <1>1, <2>1, <2>2, OneMoves
<1> QED  BY <1>1 DEF DaemonInv

\* A session dies, and its children are nobody's.
LEMMA SessionDiesStep ==
    ASSUME DaemonInv, NEW s \in Sessions, SessionDies(s)
    PROVE  DaemonInv'
<1>1. session \in [Sessions -> Work] /\ session' = [session EXCEPT ![s] = Ready] /\ Ready \in Work
  BY DEF DaemonInv, DaemonTypeOK, SessionDies, Ready, Work, Knowledge, Places, Modes, Words
<1>2. /\ session' \in [Sessions -> Work] /\ session'[s] = Ready
      /\ \A t \in Sessions \ {s} : session'[t] = session[t]
  BY <1>1
<1>3. os' \in [Pids -> Processes] /\ Daemons' = Daemons
  BY Adopted DEF DaemonInv, SessionDies
<1>4. DaemonTypeOK'
  BY <1>2, <1>3 DEF DaemonInv, DaemonTypeOK, SessionDies, Event
<1>5. orderly' => orderly /\ session[s].pc \in {"idle", "over"} /\ session[s] # Ready
  BY DEF SessionDies
<1>6. orderly' => orderly /\ (~IsAt(s, "idle") \/ Alone(s))
  BY <1>5 DEF DaemonInv, OrderlyOK, AtMostOneWorks
<1>7. orderly' /\ OrderlyOK /\ WorkOK(session[s], Daemons, pidFile, mode) =>
         WorkOK(session[s], Daemons, pidFile, mode)' /\ (Daemons' # {} => mode' = "daemon")
  BY <1>2, <1>3, <1>5 DEF SessionDies, WorkOK, Ready, Starting, Cleared, Stopping, OrderlyOK
<1> QED  BY <1>2, <1>4, <1>6, <1>7, Working

\* A command ends, and its process with it unless it is lasting.
LEMMA ExitStep ==
    ASSUME DaemonInv, NEW s \in Sessions, Exit(s)
    PROVE  DaemonInv'
<1>1. /\ session \in [Sessions -> Work] /\ session[s].pc = "over" /\ session[s] \in Work
      /\ DaemonTypeOK /\ Ready \in Work
  BY DEF DaemonInv, DaemonTypeOK, Exit, IsAt, Ready, Work, Knowledge, Places, Modes, Words
<1> DEFINE w == IF s \in Lasting THEN [Ready EXCEPT !.proc = session[s].proc, !.exited = session[s].exited]
                ELSE Ready
<1>2. /\ w \in Work /\ w.pc = "idle" /\ w.proc \in {NoPid, session[s].proc}
      /\ w.exited => w.proc = session[s].proc /\ session[s].exited
  <2>1. session[s].proc \in Pids \union {NoPid} /\ session[s].exited \in BOOLEAN
    BY <1>1 DEF Work, Knowledge
  <2>2. CASE s \in Lasting
    <3>1. w = [Ready EXCEPT !.proc = session[s].proc, !.exited = session[s].exited]
      BY <2>2
    <3> HIDE DEF w
    <3>2. w \in Knowledge /\ w.pc = "idle" /\ w.proc = session[s].proc /\ w.exited = session[s].exited
      BY <1>1, <2>1, <3>1 DEF Ready, Work, Knowledge
    <3> QED  BY <3>2 DEF Work
  <2>3. CASE s \notin Lasting
    BY <1>1, <2>3 DEF Ready
  <2> QED  BY <2>2, <2>3
<1>3. session' = [session EXCEPT ![s] = w]
  BY DEF Exit
<1> HIDE DEF w
<1>4. /\ session' \in [Sessions -> Work] /\ session'[s] = w
      /\ \A t \in Sessions \ {s} : session'[t] = session[t]
  BY <1>1, <1>2, <1>3
<1>5. os' \in [Pids -> Processes] /\ Daemons' = Daemons
  BY <1>1, Adopted, SameDaemons DEF Exit, DaemonTypeOK
<1>6. DaemonTypeOK'
  BY <1>4, <1>5 DEF DaemonInv, DaemonTypeOK, Exit
<1>7. orderly' => orderly /\ (~IsAt(s, "idle") \/ Alone(s))
  BY <1>1 DEF Exit, IsAt
<1>8. WorkOK(session[s], Daemons, pidFile, mode) => WorkOK(session[s], Daemons, pidFile, mode)'
  BY <1>1, <1>2, <1>4, <1>5 DEF Exit, WorkOK, Starting, Cleared, Stopping
<1>9. OrderlyOK => (Daemons' # {} => mode' = "daemon")
  BY <1>5 DEF Exit, OrderlyOK
<1> QED  BY <1>4, <1>6, <1>7, <1>8, <1>9, Working

\* A command begins; two at once are not orderly.
LEMMA CommandStep ==
    ASSUME DaemonInv, NEW s \in Sessions, NEW cmd \in {"mode", "start", "stop", "clean"}, Command(s, cmd)
    PROVE  DaemonInv'
<1> DEFINE next == IF s \in Lasting \/ cmd = "mode" THEN cmd ELSE "dispatch"
           w == [session[s] EXCEPT !.pc = next, !.cmd = cmd, !.pid = NoPid]
<1>1. /\ session \in [Sessions -> Work] /\ session[s].pc = "idle" /\ session[s] \in Work
      /\ DaemonTypeOK /\ session' = [session EXCEPT ![s] = w]
  BY DEF DaemonInv, DaemonTypeOK, Command, IsAt
<1>2. /\ next \in {"mode", "start", "stop", "dispatch"}
      /\ next = "dispatch" => cmd \in {"start", "stop", "clean"}
      /\ next = "start" => s \in Lasting
  BY DEF Command, Commands
<1>3. next \in Places /\ next # "resolve"
  BY <1>2 DEF Places
<1> HIDE DEF next
<1>4. w \in Knowledge /\ w.pc = next /\ w.cmd = cmd /\ w.proc = session[s].proc /\ w.exited = session[s].exited
  BY <1>1, <1>3 DEF Work, Knowledge
<1>5. w \in Work
  BY <1>2, <1>3, <1>4 DEF Work
<1> HIDE DEF w
<1>6. /\ session' \in [Sessions -> Work] /\ session'[s] = w
      /\ \A t \in Sessions \ {s} : session'[t] = session[t]
  BY <1>1, <1>5
<1>7. DaemonTypeOK'
  BY <1>6 DEF DaemonInv, DaemonTypeOK, Command
<1>8. Daemons' = Daemons
  BY SameDaemons DEF Command
<1>9. orderly' => orderly /\ Alone(s) /\ (s \in Lasting => mode = "daemon")
  BY DEF Command
<1>10. orderly' /\ WorkOK(session[s], Daemons, pidFile, mode) => WorkOK(session[s], Daemons, pidFile, mode)'
  BY <1>1, <1>2, <1>4, <1>6, <1>8, <1>9 DEF Command, WorkOK, Starting, Cleared, Stopping
<1>11. OrderlyOK => (Daemons' # {} => mode' = "daemon")
  BY <1>8 DEF Command, OrderlyOK
<1> QED  BY <1>6, <1>7, <1>9, <1>10, <1>11, Working

\* mode truncates the configuration before it writes it.
LEMMA OpenConfigStep ==
    ASSUME DaemonInv, NEW s \in Sessions, OpenConfig(s)
    PROVE  DaemonInv'
<1>1. DaemonTypeOK /\ session[s].pc = "mode" /\ mode' = "docker" /\ UNCHANGED <<os, pidFile>>
  BY DEF DaemonInv, OpenConfig, IsAt
<1>2. GoesTo(s, "save")
  BY <1>1, Proceeding DEF OpenConfig, Places
<1>3. DaemonTypeOK'
  BY <1>1, <1>2 DEF GoesTo, DaemonTypeOK, OpenConfig, Modes
<1>4. Daemons' = Daemons /\ (orderly' => orderly /\ Daemons = {} /\ ~IsAt(s, "idle"))
  BY <1>1, SameDaemons DEF OpenConfig, IsAt
<1>5. orderly' /\ WorkOK(session[s], Daemons, pidFile, mode) => WorkOK(session[s], Daemons, pidFile, mode)'
  BY <1>1, <1>2, <1>4 DEF GoesTo, WorkOK, Starting, Cleared, Stopping
<1> QED  BY <1>2, <1>3, <1>4, <1>5, Working DEF GoesTo

\* A new mode; not orderly while a daemon runs.
LEMMA WriteConfigStep ==
    ASSUME DaemonInv, NEW s \in Sessions, NEW m \in Modes, WriteConfig(s, m)
    PROVE  DaemonInv'
<1>1. DaemonTypeOK /\ session[s].pc = "save" /\ mode' = m /\ UNCHANGED <<os, pidFile, orderly>>
  BY DEF DaemonInv, WriteConfig, IsAt
<1>2. GoesTo(s, "over")
  BY <1>1, Saying DEF WriteConfig, Words
<1>3. DaemonTypeOK'
  BY <1>1, <1>2 DEF GoesTo, DaemonTypeOK, WriteConfig
<1>4. Daemons' = Daemons /\ (orderly' => orderly /\ ~IsAt(s, "idle"))
  BY <1>1, SameDaemons DEF IsAt
<1>5. WorkOK(session[s], Daemons, pidFile, mode) =>
         WorkOK(session[s], Daemons, pidFile, mode)' /\ Daemons' = {}
  BY <1>1, <1>2, <1>4 DEF GoesTo, WorkOK, Starting, Cleared, Stopping
<1> QED  BY <1>2, <1>3, <1>4, <1>5, Working DEF GoesTo

\* A command goes where the mode it reads takes it.
LEMMA DispatchStep ==
    ASSUME DaemonInv, NEW s \in Sessions, Dispatch(s)
    PROVE  DaemonInv'
<1> DEFINE next == IF session[s].cmd = "clean" THEN IF mode = "remote" THEN "rmtree" ELSE "repos"
                   ELSE CASE mode = "docker" -> "compose"
                          [] mode = "daemon" -> "resolve"
                          [] mode = "remote" -> "over"
           w == [session[s] EXCEPT !.mode = mode, !.pc = next]
<1>a. session' = [session EXCEPT ![s].mode = mode, ![s].pc = next]
  BY DEF Dispatch
<1>b. /\ session \in [Sessions -> Work] /\ session[s].pc = "dispatch" /\ session[s] \in Work /\ mode \in Modes
      /\ DaemonTypeOK
  BY DEF DaemonInv, DaemonTypeOK, Dispatch, IsAt
<1>2. session[s].cmd \in {"start", "stop", "clean"}
  BY <1>b DEF Work
<1>3. /\ next \in {"rmtree", "repos", "compose", "resolve", "over"}
      /\ next = "resolve" => session[s].cmd \in {"start", "stop"}
      /\ next = "rmtree" => mode = "remote"
  <2>1. CASE session[s].cmd = "clean"
    <3>1. next = IF mode = "remote" THEN "rmtree" ELSE "repos"
      BY <2>1
    <3> HIDE DEF next
    <3> QED  BY <3>1, <2>1
  <2>2. CASE session[s].cmd # "clean"
    <3>1. next = CASE mode = "docker" -> "compose" [] mode = "daemon" -> "resolve" [] mode = "remote" -> "over"
      BY <2>2
    <3>2. mode \in {"docker", "remote", "daemon"}
      BY <1>b DEF Modes
    <3>3. next \in {"compose", "resolve", "over"}
      BY <3>1, <3>2
    <3> QED  BY <3>3, <2>2, <1>2
  <2> QED  BY <2>1, <2>2
<1> HIDE DEF next
<1>1. /\ session \in [Sessions -> Work] /\ session[s].pc = "dispatch" /\ session[s] \in Work /\ mode \in Modes
      /\ DaemonTypeOK /\ session' = [session EXCEPT ![s] = w]
  BY <1>a, <1>b
<1>4. next \in Places /\ next # "dispatch"
  BY <1>3 DEF Places
<1>5. /\ w \in Knowledge /\ w.pc = next /\ w.mode = mode /\ w.cmd = session[s].cmd
      /\ w.proc = session[s].proc /\ w.exited = session[s].exited
  BY <1>1, <1>4 DEF Work, Knowledge
<1>6. w \in Work
  BY <1>3, <1>4, <1>5 DEF Work
<1> HIDE DEF w
<1>7. /\ session' \in [Sessions -> Work] /\ session'[s] = w
      /\ \A t \in Sessions \ {s} : session'[t] = session[t]
  BY <1>1, <1>6
<1>8. DaemonTypeOK'
  BY <1>1, <1>7 DEF DaemonTypeOK, Dispatch
<1>9. Daemons' = Daemons /\ (orderly' => orderly /\ ~IsAt(s, "idle"))
  BY <1>1, SameDaemons DEF Dispatch, IsAt
<1>10. OrderlyOK /\ WorkOK(session[s], Daemons, pidFile, mode) =>
         WorkOK(session[s], Daemons, pidFile, mode)' /\ (Daemons' # {} => mode' = "daemon")
  BY <1>1, <1>3, <1>5, <1>7, <1>9 DEF Dispatch, WorkOK, Starting, Cleared, Stopping, OrderlyOK
<1> QED  BY <1>7, <1>8, <1>9, <1>10, Working

\* The pid file is truncated before the pid is written.
LEMMA OpenPidFileStep ==
    ASSUME DaemonInv, NEW s \in Sessions, OpenPidFile(s)
    PROVE  DaemonInv'
<1>1. DaemonTypeOK /\ session[s].pc = "open" /\ pidFile' = NoPid /\ UNCHANGED <<os, mode, orderly>>
  BY DEF DaemonInv, OpenPidFile, IsAt
<1>2. GoesTo(s, "write")
  BY <1>1, Proceeding DEF OpenPidFile, Places
<1>3. DaemonTypeOK'
  BY <1>1, <1>2 DEF GoesTo, DaemonTypeOK, OpenPidFile
<1>4. Daemons' = Daemons /\ (orderly' => orderly /\ ~IsAt(s, "idle"))
  BY <1>1, SameDaemons DEF IsAt
<1>5. OrderlyOK /\ WorkOK(session[s], Daemons, pidFile, mode) =>
         WorkOK(session[s], Daemons, pidFile, mode)' /\ (Daemons' # {} => mode' = "daemon")
  BY <1>1, <1>2, <1>4 DEF GoesTo, WorkOK, Starting, Cleared, Stopping, OrderlyOK
<1> QED  BY <1>2, <1>3, <1>4, <1>5, Working DEF GoesTo

\* The pid file names the daemon started.
LEMMA WritePidStep ==
    ASSUME DaemonInv, NEW s \in Sessions, WritePid(s)
    PROVE  DaemonInv'
<1>1. DaemonTypeOK /\ session[s].pc = "write" /\ pidFile' = session[s].proc /\ UNCHANGED <<os, mode, orderly>>
  BY DEF DaemonInv, WritePid, IsAt
<1>2. GoesTo(s, "ready") \/ GoesTo(s, "over")
  BY <1>1, Proceeding, Saying DEF WritePid, Places, Words
<1>3. session[s].proc \in Pids \union {NoPid}
  BY <1>1 DEF DaemonTypeOK, Work, Knowledge
<1>4. DaemonTypeOK'
  BY <1>1, <1>2, <1>3 DEF GoesTo, DaemonTypeOK, WritePid
<1>5. Daemons' = Daemons /\ (orderly' => orderly /\ ~IsAt(s, "idle"))
  BY <1>1, SameDaemons DEF IsAt
<1>6. OrderlyOK /\ WorkOK(session[s], Daemons, pidFile, mode) =>
         WorkOK(session[s], Daemons, pidFile, mode)' /\ (Daemons' # {} => mode' = "daemon")
  BY <1>1, <1>2, <1>5 DEF GoesTo, WorkOK, Starting, Cleared, Stopping, OrderlyOK
<1> QED  BY <1>2, <1>4, <1>5, <1>6, Working DEF GoesTo

\* poll() takes a dead child away, and tells whether a process is there.
LEMMA Polling ==
    ASSUME DaemonInv, NEW s \in Sessions, NEW pc \in {"over", "spawn", "stop", "rmtree"},
           NEW word \in Words, Polls(s, pc, word)
    PROVE  /\ DaemonTypeOK' /\ Daemons' = Daemons /\ session'[s].pc = pc
           /\ session'[s].proc = session[s].proc /\ session'[s].pid = session[s].pid
           /\ session'[s].exited \in BOOLEAN
           /\ session'[s].exited => session[s].exited \/ session'[s].proc \notin Daemons'
           /\ \A t \in Sessions \ {s} : session'[t] = session[t]
           /\ UNCHANGED <<pidFile, mode, orderly>>
<1> DEFINE gone == Child(s) /\ ~os[session[s].proc].alive
           w == [session[s] EXCEPT !.pc = pc, !.said = word, !.exited = @ \/ gone]
<1>1. /\ session \in [Sessions -> Work] /\ session[s] \in Work /\ DaemonTypeOK
      /\ session' = [session EXCEPT ![s] = w] /\ os \in [Pids -> Processes]
  BY DEF DaemonInv, DaemonTypeOK, Polls
<1>2. session[s].proc \in Pids \union {NoPid} /\ session[s].exited \in BOOLEAN
  BY <1>1 DEF Work, Knowledge
<1>3. gone \in BOOLEAN
  BY DEF Child
<1>4. gone => session[s].proc \in Pids /\ session[s].proc \notin Daemons
  BY <1>2 DEF Child, Daemons, Running
<1>5. os' = IF gone THEN [os EXCEPT ![session[s].proc] = Unused] ELSE os
  BY DEF Polls, Reaped
<1> HIDE DEF gone
<1>6. os' \in [Pids -> Processes] /\ Daemons' = Daemons
  <2>1. CASE gone
    <3>1. os' = [os EXCEPT ![session[s].proc] = Unused] /\ session[s].proc \in Pids
      BY <2>1, <1>4, <1>5
    <3>2. os' \in [Pids -> Processes] /\ Daemons' = Daemons \ {session[s].proc}
      BY <3>1, <1>1, Stopped
    <3> QED  BY <3>2, <1>4, <2>1
  <2>2. CASE ~gone
    BY <2>2, <1>1, <1>5, SameDaemons
  <2> QED  BY <2>1, <2>2
<1>a. (session[s].exited \/ gone) \in BOOLEAN
  OBVIOUS
<1>b. PICK e \in BOOLEAN : e = (session[s].exited \/ gone)
  BY <1>a
<1>c. w = [session[s] EXCEPT !.pc = pc, !.said = word, !.exited = e]
  BY <1>b
<1> HIDE DEF w
<1>7. /\ w \in Knowledge /\ w.pc = pc /\ w.proc = session[s].proc /\ w.pid = session[s].pid /\ w.exited = e
  <2>1. pc \in Places /\ session[s] \in Knowledge
    BY <1>1 DEF Work, Places
  <2> QED  BY <2>1, <1>c DEF Knowledge
<1>8. w \in Work
  BY <1>7 DEF Work
<1>9. /\ session' \in [Sessions -> Work] /\ session'[s] = w
      /\ \A t \in Sessions \ {s} : session'[t] = session[t]
  BY <1>1, <1>8
<1>10. DaemonTypeOK'
  BY <1>1, <1>6, <1>9 DEF DaemonTypeOK, Polls
<1>11. session'[s].exited => session[s].exited \/ session'[s].proc \notin Daemons'
  BY <1>4, <1>6, <1>7, <1>9, <1>b
<1> QED  BY <1>6, <1>7, <1>9, <1>10, <1>11 DEF Polls

\* A manager that finds nothing running is right.
LEMMA NothingRuns ==
    ASSUME DaemonTypeOK, NEW s \in Sessions, WorkOK(session[s], Daemons, pidFile, mode),
           session[s].pc \notin Starting, ~IsRunning(s)
    PROVE  Daemons = {}
<1>1. Daemons \subseteq {pidFile} /\ session[s].proc \in {NoPid, pidFile}
      /\ (session[s].exited => session[s].proc \notin Daemons)
  BY DEF WorkOK
<1>2. pidFile \notin Daemons
  <2>1. CASE session[s].proc = NoPid
    BY <2>1 DEF IsRunning, Daemons, Running
  <2>2. CASE session[s].proc # NoPid /\ session[s].exited
    BY <2>2, <1>1
  <2>3. CASE session[s].proc # NoPid /\ ~session[s].exited
    BY <2>3, <1>1 DEF IsRunning, Child, Daemons, Running
  <2> QED  BY <2>1, <2>2, <2>3
<1> QED  BY <1>1, <1>2

\* start starts nothing while a daemon runs.
LEMMA StartChecksStep ==
    ASSUME DaemonInv, NEW s \in Sessions, StartChecks(s)
    PROVE  DaemonInv'
<1>1. session[s].pc = "start" /\ DaemonTypeOK /\ ~IsAt(s, "idle")
  BY DEF DaemonInv, StartChecks, IsAt
<1>2. PICK pc \in {"over", "spawn"}, word \in Words :
          Polls(s, pc, word) /\ (pc = "spawn" => ~IsRunning(s))
  BY DEF StartChecks, Words
<1>3. /\ DaemonTypeOK' /\ Daemons' = Daemons /\ session'[s].pc = pc
      /\ session'[s].proc = session[s].proc
      /\ session'[s].exited => session[s].exited \/ session'[s].proc \notin Daemons'
      /\ \A t \in Sessions \ {s} : session'[t] = session[t]
      /\ UNCHANGED <<pidFile, mode, orderly>>
  BY <1>2, Polling
<1>4. WorkOK(session[s], Daemons, pidFile, mode) => (pc = "spawn" => Daemons = {})
  BY <1>1, <1>2, NothingRuns DEF Starting
<1>5. WorkOK(session[s], Daemons, pidFile, mode) => WorkOK(session[s], Daemons, pidFile, mode)'
  BY <1>1, <1>2, <1>3, <1>4 DEF WorkOK, Starting, Cleared, Stopping
<1>6. OrderlyOK => (Daemons' # {} => mode' = "daemon")
  BY <1>3 DEF OrderlyOK
<1> QED  BY <1>1, <1>3, <1>5, <1>6, Working

\* clean stops a daemon that runs.
LEMMA CleanChecksStep ==
    ASSUME DaemonInv, NEW s \in Sessions, CleanChecks(s)
    PROVE  DaemonInv'
<1>1. session[s].pc = "clean" /\ DaemonTypeOK /\ ~IsAt(s, "idle")
  BY DEF DaemonInv, CleanChecks, IsAt
<1>2. PICK pc \in {"stop", "rmtree"}, word \in Words :
          Polls(s, pc, word) /\ (pc = "rmtree" => ~IsRunning(s))
  BY DEF CleanChecks, Words
<1>3. /\ DaemonTypeOK' /\ Daemons' = Daemons /\ session'[s].pc = pc
      /\ session'[s].proc = session[s].proc
      /\ session'[s].exited => session[s].exited \/ session'[s].proc \notin Daemons'
      /\ \A t \in Sessions \ {s} : session'[t] = session[t]
      /\ UNCHANGED <<pidFile, mode, orderly>>
  BY <1>2, Polling
<1>4. WorkOK(session[s], Daemons, pidFile, mode) => (pc = "rmtree" => Daemons = {})
  BY <1>1, <1>2, NothingRuns DEF Starting
<1>5. WorkOK(session[s], Daemons, pidFile, mode) => WorkOK(session[s], Daemons, pidFile, mode)'
  BY <1>1, <1>2, <1>3, <1>4 DEF WorkOK, Starting, Cleared, Stopping
<1>6. OrderlyOK => (Daemons' # {} => mode' = "daemon")
  BY <1>3 DEF OrderlyOK
<1> QED  BY <1>1, <1>3, <1>5, <1>6, Working

\* A daemon is started when there was none.
LEMMA PopenStep ==
    ASSUME DaemonInv, NEW s \in Sessions, NEW p \in Pids, Popen(s, p)
    PROVE  DaemonInv'
<1> DEFINE x == [kind |-> "daemon", alive |-> TRUE, parent |-> s]
           w == [session[s] EXCEPT !.pc = "open", !.proc = p, !.exited = FALSE]
<1>1. /\ session \in [Sessions -> Work] /\ session[s] \in Work /\ DaemonTypeOK
      /\ session' = [session EXCEPT ![s] = w] /\ os \in [Pids -> Processes]
      /\ os' = [os EXCEPT ![p] = x] /\ session[s].pc = "spawn"
      /\ UNCHANGED <<pidFile, mode, orderly>>
  BY DEF DaemonInv, DaemonTypeOK, Popen, IsAt
<1>2. x \in Processes
  BY DEF Processes
<1>3. w \in Knowledge /\ w.pc = "open" /\ w.proc = p /\ w.exited = FALSE
  <2>1. session[s] \in Knowledge /\ "open" \in Places
    BY <1>1 DEF Work, Places
  <2> QED  BY <2>1 DEF Knowledge
<1>4. w \in Work
  BY <1>3 DEF Work
<1> HIDE DEF x, w
<1>5. /\ session' \in [Sessions -> Work] /\ session'[s] = w
      /\ \A t \in Sessions \ {s} : session'[t] = session[t]
  BY <1>1, <1>4
<1>6. os' \in [Pids -> Processes] /\ \A r \in Pids : r # p => os'[r] = os[r]
  BY <1>1, <1>2
<1>7. Daemons' \subseteq Daemons \union {p}
  BY <1>6 DEF Daemons, Running, Exists
<1>8. DaemonTypeOK'
  BY <1>5, <1>6 DEF DaemonInv, DaemonTypeOK, Popen
<1>9. ~IsAt(s, "idle")
  BY <1>1 DEF IsAt
<1>10. WorkOK(session[s], Daemons, pidFile, mode) =>
          WorkOK(session[s], Daemons, pidFile, mode)' /\ mode' = "daemon"
  BY <1>1, <1>3, <1>5, <1>7 DEF WorkOK, Starting, Cleared, Stopping
<1> QED  BY <1>1, <1>5, <1>8, <1>9, <1>10, Working

\* The child ends, killed if need be, and is waited for.
LEMMA WaitTrackedStep ==
    ASSUME DaemonInv, NEW s \in Sessions, WaitTracked(s)
    PROVE  DaemonInv'
<1> DEFINE w == [session[s] EXCEPT !.proc = NoPid, !.exited = FALSE, !.pc = "unlink"]
<1>1. /\ session \in [Sessions -> Work] /\ session[s] \in Work /\ DaemonTypeOK
      /\ session' = [session EXCEPT ![s] = w] /\ os \in [Pids -> Processes]
      /\ os' = IF Child(s) THEN [os EXCEPT ![session[s].proc] = Unused] ELSE os
      /\ session[s].pc = "wait" /\ UNCHANGED <<pidFile, mode, orderly>>
  BY DEF DaemonInv, DaemonTypeOK, WaitTracked, IsAt
<1>2. session[s].proc \in Pids \union {NoPid}
  BY <1>1 DEF Work, Knowledge
<1>3. w \in Knowledge /\ w.pc = "unlink" /\ w.proc = NoPid /\ w.exited = FALSE
  <2>1. session[s] \in Knowledge /\ "unlink" \in Places
    BY <1>1 DEF Work, Places
  <2> QED  BY <2>1 DEF Knowledge
<1>4. w \in Work
  BY <1>3 DEF Work
<1> HIDE DEF w
<1>5. /\ session' \in [Sessions -> Work] /\ session'[s] = w
      /\ \A t \in Sessions \ {s} : session'[t] = session[t]
  BY <1>1, <1>4
<1>6. os' \in [Pids -> Processes] /\ Daemons' \subseteq Daemons
      /\ (Child(s) => session[s].proc \notin Daemons')
  <2>1. CASE Child(s)
    <3>1. session[s].proc \in Pids /\ os' = [os EXCEPT ![session[s].proc] = Unused]
      BY <2>1, <1>1, <1>2 DEF Child
    <3>2. os' \in [Pids -> Processes] /\ Daemons' = Daemons \ {session[s].proc}
      BY <3>1, <1>1, Stopped
    <3> QED  BY <3>2
  <2>2. CASE ~Child(s)
    BY <2>2, <1>1, SameDaemons
  <2> QED  BY <2>1, <2>2
<1>7. DaemonTypeOK'
  BY <1>5, <1>6 DEF DaemonInv, DaemonTypeOK, WaitTracked
<1>8. ~IsAt(s, "idle")
  BY <1>1 DEF IsAt
<1>9. WorkOK(session[s], Daemons, pidFile, mode) =>
          WorkOK(session[s], Daemons, pidFile, mode)' /\ Daemons' = {}
  <2> SUFFICES ASSUME WorkOK(session[s], Daemons, pidFile, mode)
               PROVE  WorkOK(session[s], Daemons, pidFile, mode)' /\ Daemons' = {}
    OBVIOUS
  <2>1. session[s].proc = pidFile /\ Daemons \subseteq {pidFile} /\ session[s].proc # NoPid
        /\ (session[s].exited => session[s].proc \notin Daemons)
    BY <1>1 DEF WorkOK, Starting
  <2>2. Daemons' = {}
    BY <2>1, <1>6 DEF Child
  <2> QED  BY <2>2, <1>1, <1>3, <1>5 DEF WorkOK, Starting, Cleared, Stopping
<1> QED  BY <1>1, <1>5, <1>7, <1>8, <1>9, Working

\* A stop of a daemon another process has started signals the pid of the file.
LEMMA StopByPidStep ==
    ASSUME DaemonInv, NEW s \in Sessions, StopByPid(s)
    PROVE  DaemonInv'
<1>1. /\ session \in [Sessions -> Work] /\ session[s] \in Work /\ DaemonTypeOK
      /\ session[s].pc = "stop" /\ session[s].proc = NoPid
      /\ UNCHANGED <<os, pidFile, mode, orderly>> /\ pidFile \in Pids \union {NoPid}
  BY DEF DaemonInv, DaemonTypeOK, StopByPid, IsAt
<1>2. session[s] \in Knowledge
  BY <1>1 DEF Work
<1>3. /\ session' \in [Sessions -> Work] /\ session'[s].proc = NoPid
      /\ session'[s].exited = session[s].exited
      /\ session'[s].pc \in {"over", "rmtree", "exit", "stale"}
      /\ session'[s].pc \in {"rmtree", "stale"} => ~Exists(pidFile)
      /\ session'[s].pc = "exit" => session'[s].pid = pidFile
      /\ \A t \in Sessions \ {s} : session'[t] = session[t]
  <2>n. NoPid \notin Pids
    BY DaemonAssumption DEF NoPid
  <2>1. CASE pidFile = NoPid
    <3> DEFINE w == [session[s] EXCEPT !.pc = After(s), !.said = "not running"]
    <3>1. session' = [session EXCEPT ![s] = w]
      BY <2>1, <2>n DEF StopByPid, Exists
    <3>2. After(s) \in {"over", "rmtree"} /\ {"over", "rmtree"} \subseteq Places /\ "not running" \in Words
      BY DEF After, Places, Words
    <3>3. /\ w \in Knowledge /\ w.pc = After(s) /\ w.proc = session[s].proc
          /\ w.exited = session[s].exited /\ w.pid = session[s].pid
      BY <1>2, <3>2 DEF Knowledge
    <3>4. w \in Work
      BY <3>2, <3>3 DEF Work
    <3> HIDE DEF w
    <3> QED  BY <1>1, <2>1, <2>n, <3>1, <3>2, <3>3, <3>4 DEF Exists
  <2>2. CASE Exists(pidFile)
    <3> DEFINE w == [session[s] EXCEPT !.pid = pidFile, !.pc = "exit"]
    <3>1. session' = [session EXCEPT ![s] = w]
      BY <2>2, <2>n DEF StopByPid, Exists
    <3>2. /\ w \in Knowledge /\ w.pc = "exit" /\ w.proc = session[s].proc
          /\ w.exited = session[s].exited /\ w.pid = pidFile
      <4>1. "exit" \in Places
        BY DEF Places
      <4> QED  BY <1>1, <1>2, <4>1 DEF Knowledge
    <3>3. w \in Work
      BY <3>2 DEF Work
    <3> HIDE DEF w
    <3> QED  BY <1>1, <3>1, <3>2, <3>3
  <2>3. CASE pidFile # NoPid /\ ~Exists(pidFile)
    <3> DEFINE w == [session[s] EXCEPT !.pid = pidFile, !.pc = "stale"]
    <3>1. session' = [session EXCEPT ![s] = w]
      BY <2>3, <2>n DEF StopByPid, Exists
    <3>2. /\ w \in Knowledge /\ w.pc = "stale" /\ w.proc = session[s].proc
          /\ w.exited = session[s].exited /\ w.pid = pidFile
      <4>1. "stale" \in Places
        BY DEF Places
      <4> QED  BY <1>1, <1>2, <4>1 DEF Knowledge
    <3>3. w \in Work
      BY <3>2 DEF Work
    <3> HIDE DEF w
    <3> QED  BY <1>1, <2>3, <3>1, <3>2, <3>3
  <2> QED  BY <2>1, <2>2, <2>3
<1>4. DaemonTypeOK'
  BY <1>1, <1>3 DEF DaemonTypeOK, StopByPid
<1>5. Daemons' = Daemons /\ ~IsAt(s, "idle")
  BY <1>1, SameDaemons DEF IsAt
<1>6. WorkOK(session[s], Daemons, pidFile, mode) => WorkOK(session[s], Daemons, pidFile, mode)'
  <2> SUFFICES ASSUME WorkOK(session[s], Daemons, pidFile, mode)
               PROVE  WorkOK(session[s], Daemons, pidFile, mode)'
    OBVIOUS
  <2>1. Daemons \subseteq {pidFile} /\ (session[s].exited => session[s].proc \notin Daemons)
    BY <1>1 DEF WorkOK, Starting
  <2>2. ~Exists(pidFile) => Daemons = {}
    BY <2>1 DEF Daemons, Running
  <2> QED  BY <2>1, <2>2, <1>1, <1>3, <1>5 DEF WorkOK, Starting, Cleared, Stopping
<1>7. OrderlyOK => (Daemons' # {} => mode' = "daemon")
  BY <1>1, <1>5 DEF OrderlyOK
<1> QED  BY <1>1, <1>3, <1>4, <1>5, <1>6, <1>7, Working

\* A process that did not obey the signal in time is killed.
LEMMA KillsStep ==
    ASSUME DaemonInv, NEW s \in Sessions, Kills(s)
    PROVE  DaemonInv'
<1>1. /\ session[s].pc = "exit" /\ session[s].pid \in Pids /\ DaemonTypeOK
      /\ os' = IF Running(session[s].pid) THEN Dead(session[s].pid, os) ELSE os
      /\ UNCHANGED <<pidFile, mode, orderly>>
  BY DEF DaemonInv, Kills, Exists, IsAt
<1>2. GoesTo(s, "killed")
  BY <1>1, Proceeding DEF Kills, Places
<1>3. os' \in [Pids -> Processes] /\ Daemons' = Daemons \ {session[s].pid}
  <2>1. CASE Running(session[s].pid)
    BY <2>1, <1>1, Stopped
  <2>2. CASE ~Running(session[s].pid)
    <3>1. os' = os /\ session[s].pid \notin Daemons
      BY <2>2, <1>1 DEF Daemons
    <3> QED  BY <3>1, <1>1, SameDaemons DEF DaemonTypeOK
  <2> QED  BY <2>1, <2>2
<1>4. DaemonTypeOK'
  BY <1>2, <1>3 DEF DaemonInv, DaemonTypeOK, Kills, GoesTo
<1>5. ~IsAt(s, "idle")
  BY <1>1 DEF IsAt
<1>6. WorkOK(session[s], Daemons, pidFile, mode) =>
          WorkOK(session[s], Daemons, pidFile, mode)' /\ Daemons' = {}
  BY <1>1, <1>2, <1>3 DEF GoesTo, WorkOK, Starting, Cleared, Stopping
<1> QED  BY <1>1, <1>2, <1>4, <1>5, <1>6, Working DEF GoesTo

\* The pid file goes once the daemon has.
LEMMA RemovePidFileStep ==
    ASSUME DaemonInv, NEW s \in Sessions, RemovePidFile(s)
    PROVE  DaemonInv'
<1> DEFINE word == IF IsAt(s, "stale") THEN "not running" ELSE "stopped"
           w == [session[s] EXCEPT !.pc = After(s), !.said = word]
<1>1. /\ session \in [Sessions -> Work] /\ session[s] \in Work /\ DaemonTypeOK
      /\ session' = [session EXCEPT ![s] = w] /\ session[s].pc \in {"unlink", "stale"}
      /\ pidFile' = NoPid /\ UNCHANGED <<os, mode, orderly>>
  BY DEF DaemonInv, DaemonTypeOK, RemovePidFile, IsAt
<1>2. After(s) \in {"over", "rmtree"} /\ {"over", "rmtree"} \subseteq Places /\ word \in Words
  BY DEF After, Places, Words
<1> HIDE DEF word
<1>3. /\ w \in Knowledge /\ w.pc = After(s) /\ w.proc = session[s].proc
      /\ w.exited = session[s].exited
  <2>1. session[s] \in Knowledge
    BY <1>1 DEF Work
  <2> QED  BY <2>1, <1>2 DEF Knowledge
<1>4. w \in Work
  BY <1>2, <1>3 DEF Work
<1> HIDE DEF w
<1>5. /\ session' \in [Sessions -> Work] /\ session'[s] = w
      /\ \A t \in Sessions \ {s} : session'[t] = session[t]
  BY <1>1, <1>4
<1>6. DaemonTypeOK'
  BY <1>1, <1>5 DEF DaemonTypeOK, RemovePidFile
<1>7. Daemons' = Daemons /\ ~IsAt(s, "idle")
  BY <1>1, SameDaemons DEF IsAt
<1>8. WorkOK(session[s], Daemons, pidFile, mode) =>
          WorkOK(session[s], Daemons, pidFile, mode)' /\ Daemons' = {}
  BY <1>1, <1>2, <1>3, <1>5, <1>7 DEF WorkOK, Starting, Cleared, Stopping
<1> QED  BY <1>1, <1>5, <1>6, <1>7, <1>8, Working

\* Nothing changes when nothing happens.
LEMMA DaemonStutters ==
    ASSUME DaemonInv, UNCHANGED DaemonVars
    PROVE  DaemonInv'
<1>1. DaemonTypeOK'
  BY DEF DaemonInv, DaemonTypeOK, DaemonVars
<1> QED  BY <1>1, SameDaemons, Resting DEF DaemonVars

\* In every reachable state DaemonInv holds, for any number of sessions and pids.
THEOREM DaemonInvariant == DaemonSpec => []DaemonInv
<1>1. ASSUME DaemonInv, DaemonNext
      PROVE  DaemonInv'
  <2>1. CASE \E p \in Pids : DaemonDies(p) \/ StrangerComes(p)
    BY <1>1, <2>1, DaemonDiesStep, StrangerComesStep
  <2>2. ASSUME NEW s \in Sessions,
               \/ SessionDies(s) \/ Exit(s)
               \/ (\E cmd \in {"mode", "start", "stop", "clean"} : Command(s, cmd))
               \/ OpenConfig(s) \/ (\E m \in Modes : WriteConfig(s, m))
               \/ Dispatch(s) \/ Resolve(s) \/ Compose(s) \/ RemoveRepos(s)
        PROVE  DaemonInv'
    BY <1>1, <2>2, SessionDiesStep, ExitStep, CommandStep, OpenConfigStep, WriteConfigStep,
       DispatchStep, ResolveStep, ComposeStep, RemoveReposStep
  <2>3. ASSUME NEW s \in Sessions,
               \/ StartChecks(s) \/ (\E p \in Pids : Popen(s, p)) \/ PopenFails(s)
               \/ OpenPidFile(s) \/ WritePid(s) \/ WaitForReady(s)
               \/ CleanChecks(s) \/ Rmtree(s)
        PROVE  DaemonInv'
    BY <1>1, <2>3, StartChecksStep, PopenStep, PopenFailsStep, OpenPidFileStep, WritePidStep,
       WaitForReadyStep, CleanChecksStep, RmtreeStep
  <2>4. ASSUME NEW s \in Sessions,
               \/ StopTracked(s) \/ WaitTracked(s) \/ StopByPid(s)
               \/ Obeys(s) \/ SeesExit(s) \/ Kills(s) \/ TimesOut(s) \/ RemovePidFile(s)
        PROVE  DaemonInv'
    BY <1>1, <2>4, StopTrackedStep, WaitTrackedStep, StopByPidStep, ObeysStep, SeesExitStep,
       KillsStep, TimesOutStep, RemovePidFileStep
  <2> QED  BY <1>1, <2>1, <2>2, <2>3, <2>4 DEF DaemonNext
<1> QED  BY <1>1, DaemonBegins, DaemonStutters, PTL DEF DaemonSpec

\* While commands come one at a time, a daemon that runs when they are done is the one
\* the pid file names: none is out of the reach of stop.
THEOREM Named == DaemonSpec => []DaemonIsNamed
<1>1. ASSUME DaemonInv, orderly, \A s \in Sessions : session[s].pc \in {"idle", "over"}
      PROVE  Daemons \subseteq {pidFile}
  <2>1. OrderlyOK
    BY <1>1 DEF DaemonInv
  <2>2. CASE Sessions = {}
    BY <2>1, <2>2 DEF OrderlyOK
  <2>3. ASSUME NEW s \in Sessions PROVE Daemons \subseteq {pidFile}
    <3>1. PICK t \in Sessions : Alone(t)
      BY <2>1 DEF OrderlyOK, AtMostOneWorks, Alone
    <3>2. WorkOK(session[t], Daemons, pidFile, mode)
      BY <2>1, <3>1 DEF OrderlyOK
    <3> QED  BY <1>1, <3>2 DEF WorkOK, Starting
  <2> QED  BY <2>2, <2>3
<1>2. DaemonInv => DaemonIsNamed
  BY <1>1 DEF DaemonIsNamed
<1> QED  BY <1>2, DaemonInvariant, PTL

\* While commands come one at a time, whoever removes the pid file or the data does so
\* after the daemon is gone.
THEOREM Gone == DaemonSpec => []StoppedMeansGone
<1>1. ASSUME DaemonInv, orderly, NEW s \in Sessions, session[s].pc \in {"unlink", "rmtree"}
      PROVE  Daemons = {}
  <2>1. OrderlyOK /\ DaemonTypeOK /\ ~IsAt(s, "idle")
    BY <1>1 DEF DaemonInv, IsAt
  <2>2. WorkOK(session[s], Daemons, pidFile, mode)
    BY <2>1, AtWork
  <2> QED  BY <1>1, <2>2 DEF WorkOK, Cleared, Stopping
<1>2. DaemonInv => StoppedMeansGone
  BY <1>1 DEF StoppedMeansGone
<1> QED  BY <1>2, DaemonInvariant, PTL
=============================================================================
