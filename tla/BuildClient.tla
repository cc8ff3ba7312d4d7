----------------------------- MODULE BuildClient -----------------------------
(***************************************************************************)
(* Client.add_to_index against POST and GET of /v1/build: the client posts *)
(* and polls; the service answers from a table that holds the last build   *)
(* of the repository, forgets it some time after its end, and all of it    *)
(* when it dies.  The build runs in a thread: its progress and its result  *)
(* reach the table through the queue of the event loop.                    *)
(***************************************************************************)
EXTENDS Naturals, Sequences

CONSTANTS
    Clients,      \* processes that add or rebuild the repository
    MaxBuilds,    \* bound: builds, each known by its number
    MaxProgress,  \* bound: progress reports of a build; the last percentage
    MaxFaults     \* bound: deaths of the service, lost answers

ASSUME ClientAssumption == MaxBuilds \in Nat /\ MaxProgress \in Nat /\ MaxFaults \in Nat

VARIABLES
    up,        \* the service answers
    job,       \* build_jobs[slug], or NoJob
    inFlight,  \* the task of the slug: none, building, or after its result
    thread,    \* the build in its thread: its number and what it reported
    queue,     \* callbacks of the event loop
    fate,      \* what became of each build that was accepted
    client,    \* each client: where it is, its build, the build it was told of
    faults

ClientVars == <<up, job, inFlight, thread, queue, fate, client, faults>>

NoJob == [id |-> 0, status |-> "none", progress |-> 0, old |-> FALSE]
NoThread == [id |-> 0, at |-> 0]
AtRest == [pc |-> "idle", id |-> 0, told |-> 0]

ClientInit ==
    /\ up = TRUE /\ job = NoJob /\ inFlight = "none" /\ thread = NoThread /\ queue = <<>>
    /\ fate = <<>> /\ client = [c \in Clients |-> AtRest] /\ faults = 0

Terminal(j) == j.status \in {"succeeded", "failed"}
Fault == faults < MaxFaults /\ faults' = faults + 1

-----------------------------------------------------------------------------
(* The service.                                                            *)

RunBuild ==
    /\ inFlight = "building" /\ job.status = "queued"
    /\ job' = [job EXCEPT !.status = "running"]
    /\ thread' = [id |-> job.id, at |-> 0]
    /\ UNCHANGED <<up, inFlight, queue, fate, client, faults>>

OnProgress ==
    /\ thread # NoThread /\ thread.at < MaxProgress
    /\ thread' = [thread EXCEPT !.at = @ + 1]
    /\ queue' = Append(queue, [kind |-> "progress", at |-> thread.at])
    /\ UNCHANGED <<up, job, inFlight, fate, client, faults>>

\* The build has published its generation, or has raised.
BuildEnds(result) ==
    /\ thread # NoThread
    /\ fate' = [fate EXCEPT ![thread.id] = result]
    /\ thread' = NoThread
    /\ queue' = Append(queue, [kind |-> result, at |-> MaxProgress])
    /\ UNCHANGED <<up, job, inFlight, client, faults>>

\* Mutant: the result does not wait for the callbacks before it.
NextCallbackAny == 1..Len(queue)
NextCallback == {i \in 1..Len(queue) : i = 1}
\* Mutant: an exception does not reach the job.
ResolvedSuccess(callback) ==
    CASE callback.kind = "published" -> [job EXCEPT !.status = "succeeded", !.progress = callback.at]
      [] callback.kind = "progress" /\ job # NoJob -> [job EXCEPT !.progress = callback.at]
      [] OTHER -> job
Resolved(callback) ==
    CASE callback.kind = "published" -> [job EXCEPT !.status = "succeeded", !.progress = callback.at]
      [] callback.kind = "failed" -> [job EXCEPT !.status = "failed"]
      [] callback.kind = "progress" /\ job # NoJob -> [job EXCEPT !.progress = callback.at]
      [] OTHER -> job
LoopStep ==
    \E i \in NextCallback :
        /\ job' = Resolved(queue[i])
        /\ inFlight' = CASE queue[i].kind = "published" -> "invalidating"
                         [] queue[i].kind = "failed" -> "none"
                         [] OTHER -> inFlight
        /\ queue' = SubSeq(queue, 1, i - 1) \o SubSeq(queue, i + 1, Len(queue))
        /\ UNCHANGED <<up, thread, fate, client, faults>>

\* The searches of the slug are invalidated; the build leaves the set.
Discard ==
    /\ inFlight = "invalidating" /\ inFlight' = "none"
    /\ UNCHANGED <<up, job, thread, queue, fate, client, faults>>

\* job_ttl has passed since the end of the build.
Expire ==
    /\ Terminal(job) /\ ~job.old /\ job' = [job EXCEPT !.old = TRUE]
    /\ UNCHANGED <<up, inFlight, thread, queue, fate, client, faults>>

Crash ==
    /\ up /\ Fault /\ up' = FALSE
    /\ fate' = [n \in DOMAIN fate |-> IF fate[n] = "under way" THEN "lost" ELSE fate[n]]
    /\ job' = NoJob /\ inFlight' = "none" /\ thread' = NoThread /\ queue' = <<>>
    /\ UNCHANGED client
Restart ==
    /\ ~up /\ up' = TRUE
    /\ UNCHANGED <<job, inFlight, thread, queue, fate, client, faults>>

-----------------------------------------------------------------------------
(* A client.                                                               *)

At(c, pc) == client[c].pc = pc
Goes(c, pc) == client' = [client EXCEPT ![c].pc = pc]

\* The POST is accepted; its answer may be lost, or come after 30 seconds.
Accepted(c, answered) ==
    LET n == Len(fate) + 1
    IN /\ At(c, "idle") /\ up /\ inFlight = "none" /\ n <= MaxBuilds
       /\ inFlight' = "building" /\ fate' = Append(fate, "under way")
       /\ job' = [NoJob EXCEPT !.id = n, !.status = "queued"]
       /\ client' = [client EXCEPT ![c] = [pc |-> IF answered THEN "polling" ELSE "unreachable",
                                           id |-> n, told |-> 0]]
       /\ (answered /\ UNCHANGED faults) \/ (~answered /\ Fault)
       /\ UNCHANGED <<up, thread, queue>>
Refused(c) ==
    /\ At(c, "idle")
    /\ \/ up /\ inFlight # "none" /\ Goes(c, "conflict")
       \/ ~up /\ Goes(c, "unreachable")
    /\ UNCHANGED <<up, job, inFlight, thread, queue, fate, faults>>

\* Mutant: a job that has not completed is taken for an expired one.
EvictCompletedJobsOpen == IF ~Terminal(job) \/ job.old THEN NoJob ELSE job
EvictCompletedJobs == IF Terminal(job) /\ job.old THEN NoJob ELSE job
Poll(c) ==
    /\ At(c, "polling") /\ up
    /\ job' = EvictCompletedJobs
    /\ client' = [client EXCEPT
          ![c].pc = CASE job' = NoJob -> "disappeared"
                      [] job' # NoJob /\ Terminal(job') -> job'.status
                      [] OTHER -> "polling",
          ![c].told = job'.id]
    /\ UNCHANGED <<up, inFlight, thread, queue, fate, faults>>

\* No answer in ten seconds, or no service: the exception is not caught.
PollRaises(c) ==
    /\ At(c, "polling")
    /\ (~up /\ UNCHANGED faults) \/ (up /\ Fault)
    /\ Goes(c, "raised")
    /\ UNCHANGED <<up, job, inFlight, thread, queue, fate>>

\* The user starts over, or interrupts the wait: the build goes on.
Leave(c) ==
    /\ ~At(c, "idle") /\ client' = [client EXCEPT ![c] = AtRest]
    /\ UNCHANGED <<up, job, inFlight, thread, queue, fate, faults>>

ServiceSteps ==
    RunBuild \/ OnProgress \/ LoopStep \/ Discard \/ (\E r \in {"published", "failed"} : BuildEnds(r))

ClientNext ==
    \/ ServiceSteps \/ Expire \/ Crash \/ Restart
    \/ \E c \in Clients :
          \/ Poll(c) \/ PollRaises(c) \/ Leave(c) \/ Refused(c)
          \/ \E answered \in BOOLEAN : Accepted(c, answered)

\* Threads and the event loop run; a dead service is started again; a client polls.
ClientFairness ==
    /\ WF_ClientVars(ServiceSteps) /\ WF_ClientVars(Restart)
    /\ \A c \in Clients : WF_ClientVars(Poll(c) \/ PollRaises(c))

ClientSpec == ClientInit /\ [][ClientNext]_ClientVars /\ ClientFairness

-----------------------------------------------------------------------------
(* What a client reports is true of a build no older than its own: success *)
(* of one that has published, failure of one that has failed.  A build     *)
(* disappears only when it has ended, or has died with the service: never  *)
(* while it goes on.                                                       *)
ReportsAreTrue ==
    \A c \in Clients :
        LET me == client[c]
        IN /\ At(c, "succeeded") => me.told >= me.id /\ fate[me.told] = "published"
           /\ At(c, "failed") => me.told >= me.id /\ fate[me.told] = "failed"
           /\ At(c, "disappeared") => fate[me.id] # "under way"

(* The outcome of a build stands until its job is forgotten or replaced:   *)
(* no progress report that was under way when it ended comes after it.     *)
TerminalJobsStand ==
    [][Terminal(job) /\ job'.id = job.id =>
          job'.status = job.status /\ job'.progress = job.progress]_ClientVars

(* Every client gets an answer, whatever dies, and however many other      *)
(* builds of the repository take the place of its own.                     *)
PollingEnds == \A c \in Clients : At(c, "polling") ~> ~At(c, "polling")
=============================================================================
