-------------------------------- MODULE Daemon --------------------------------
(***************************************************************************)
(* DaemonManager: codeknow-api as a local process, found again by its pid  *)
(* file.  Every command is a process of its own with a manager of its own; *)
(* one that goes on after start() keeps the child and stops it without the *)
(* file.  The system gives a free pid to anybody, and keeps that of a dead *)
(* child until its parent has waited for it or is gone.  What a command    *)
(* does depends on the mode in the configuration file, which another       *)
(* command may be writing.                                                 *)
(***************************************************************************)
EXTENDS Naturals, FiniteSets

CONSTANTS
    Sessions,  \* processes that use a manager
    Lasting,   \* those of them that go on after a command
    Pids,      \* the system's pids: positive numbers
    MaxOps,    \* bound: commands
    MaxEvents  \* bound: daemons that die, strangers that come, sessions that die

ASSUME DaemonAssumption ==
    /\ Lasting \subseteq Sessions /\ Pids \subseteq Nat \ {0}
    /\ MaxOps \in Nat /\ MaxEvents \in Nat

NoPid == 0
Nobody == "nobody"

Modes == {"docker", "remote", "daemon"}

VARIABLES
    os,       \* per pid: what runs under it, its state and its parent
    pidFile,  \* the pid in the pid file, or NoPid: no file, or an empty one
    mode,     \* the mode load_config finds
    session,  \* per session: where it is, its command, the mode it read, _proc and
              \* whether that has an exit code, the pid it read
    orderly,  \* commands came one at a time, none died half way, and the mode was
              \* only changed while no daemon ran
    started, events

DaemonVars == <<os, pidFile, mode, session, orderly, started, events>>

Unused == [kind |-> "free", alive |-> FALSE, parent |-> Nobody]
Ready == [pc |-> "idle", cmd |-> "none", mode |-> "docker", proc |-> NoPid, exited |-> FALSE,
          pid |-> NoPid, said |-> "nothing"]
DaemonInit ==
    /\ os = [p \in Pids |-> Unused] /\ pidFile = NoPid
    /\ mode \in {"docker", "daemon"}
    /\ session = [s \in Sessions |-> Ready]
    /\ orderly = TRUE /\ started = 0 /\ events = 0

IsAt(s, pc) == session[s].pc = pc
Proceeds(s, pc) == session' = [session EXCEPT ![s].pc = pc]
Says(s, word) == session' = [session EXCEPT ![s].pc = "over", ![s].said = word]
Exists(p) == p \in Pids /\ os[p].kind # "free"
Running(p) == Exists(p) /\ os[p].alive
Daemons == {p \in Pids : Running(p) /\ os[p].kind = "daemon"}

\* A dead child stays while its parent does.
Dead(p, table) == [table EXCEPT ![p] = IF @.parent = Nobody THEN Unused ELSE [@ EXCEPT !.alive = FALSE]]

-----------------------------------------------------------------------------
(* The system.                                                             *)

Event == events < MaxEvents /\ events' = events + 1

\* The daemon crashes, or cannot have its port.
DaemonDies(p) ==
    /\ Running(p) /\ os[p].kind = "daemon" /\ Event
    /\ os' = Dead(p, os)
    /\ UNCHANGED <<pidFile, mode, session, orderly, started>>
StrangerComes(p) ==
    /\ ~Exists(p) /\ Event
    /\ os' = [os EXCEPT ![p] = [kind |-> "stranger", alive |-> TRUE, parent |-> Nobody]]
    /\ UNCHANGED <<pidFile, mode, session, orderly, started>>

\* The children of a process that ends are nobody's.
Orphaned(s) == [p \in Pids |-> CASE os[p].parent = s /\ os[p].alive -> [os[p] EXCEPT !.parent = Nobody]
                                 [] os[p].parent = s /\ ~os[p].alive -> Unused
                                 [] OTHER -> os[p]]
SessionDies(s) ==
    /\ session[s] # Ready /\ Event
    /\ os' = Orphaned(s) /\ session' = [session EXCEPT ![s] = Ready]
    /\ orderly' = (orderly /\ session[s].pc \in {"idle", "over"})
    /\ UNCHANGED <<pidFile, mode, started>>
Exit(s) ==
    /\ IsAt(s, "over")
    /\ IF s \in Lasting
       THEN session' = [session EXCEPT ![s] = [Ready EXCEPT !.proc = session[s].proc,
                                                           !.exited = session[s].exited]]
            /\ UNCHANGED os
       ELSE session' = [session EXCEPT ![s] = Ready] /\ os' = Orphaned(s)
    /\ UNCHANGED <<pidFile, mode, orderly, started, events>>

-----------------------------------------------------------------------------
(* server mode|start|stop and clean: what the mode makes of them.          *)

Commands(s) == IF s \in Lasting THEN {"start", "stop"} ELSE {"mode", "start", "stop", "clean"}

\* Others are at rest, and none of them keeps a child.
Alone(s) == \A t \in Sessions \ {s} : session[t] = Ready
\* A client that goes on was made in mode daemon and does not look again.
Command(s, cmd) ==
    /\ IsAt(s, "idle") /\ started < MaxOps /\ started' = started + 1 /\ cmd \in Commands(s)
    /\ session' = [session EXCEPT ![s].pc = IF s \in Lasting \/ cmd = "mode" THEN cmd ELSE "dispatch",
                                  ![s].cmd = cmd, ![s].pid = NoPid]
    /\ orderly' = (orderly /\ Alone(s) /\ (s \in Lasting => mode = "daemon"))
    /\ UNCHANGED <<os, pidFile, mode, events>>

\* save_config: the file is empty before it is written, and empty means docker.
OpenConfig(s) ==
    /\ IsAt(s, "mode") /\ mode' = "docker" /\ Proceeds(s, "save")
    /\ orderly' = (orderly /\ Daemons = {})
    /\ UNCHANGED <<os, pidFile, started, events>>
WriteConfig(s, m) ==
    /\ IsAt(s, "save") /\ mode' = m /\ Says(s, "mode set")
    /\ UNCHANGED <<os, pidFile, orderly, started, events>>

\* get_backend, or the Client of clean.
Dispatch(s) ==
    /\ IsAt(s, "dispatch")
    /\ session' = [session EXCEPT ![s].mode = mode,
            ![s].pc = IF session[s].cmd = "clean" THEN IF mode = "remote" THEN "rmtree" ELSE "repos"
                      ELSE CASE mode = "docker" -> "compose"
                             [] mode = "daemon" -> "resolve"
                             [] mode = "remote" -> "over"]
    /\ UNCHANGED <<os, pidFile, mode, orderly, started, events>>
\* DaemonBackend._manager reads the configuration once more.
Resolve(s) ==
    /\ IsAt(s, "resolve")
    /\ IF mode = "daemon" THEN Proceeds(s, session[s].cmd) ELSE Says(s, "raised")
    /\ UNCHANGED <<os, pidFile, mode, orderly, started, events>>
Compose(s) ==
    /\ IsAt(s, "compose")
    /\ Says(s, "docker") \/ Says(s, "raised")
    /\ UNCHANGED <<os, pidFile, mode, orderly, started, events>>
\* clean deletes the repositories through whatever answers; an answer that
\* is not expected ends it.
RemoveRepos(s) ==
    /\ IsAt(s, "repos")
    /\ \/ Proceeds(s, IF session[s].mode = "daemon" THEN "clean" ELSE "rmtree")
       \/ Says(s, "raised")
    /\ UNCHANGED <<os, pidFile, mode, orderly, started, events>>

-----------------------------------------------------------------------------
(* start().                                                                *)

\* poll() waits for a dead child; without one any process under the pid counts.
Child(s) == session[s].proc # NoPid /\ ~session[s].exited
IsRunning(s) ==
    IF session[s].proc # NoPid THEN Child(s) /\ os[session[s].proc].alive ELSE Exists(pidFile)
Reaped(s) ==
    IF Child(s) /\ ~os[session[s].proc].alive THEN [os EXCEPT ![session[s].proc] = Unused] ELSE os
Polls(s, next, said) ==
    /\ os' = Reaped(s)
    /\ session' = [session EXCEPT ![s].pc = next, ![s].said = said,
                                  ![s].exited = @ \/ (Child(s) /\ ~os[session[s].proc].alive)]
    /\ UNCHANGED <<pidFile, mode, orderly, started, events>>

\* Mutant: only a child of this session is looked for.
StartChecksChild(s) ==
    /\ IsAt(s, "start")
    /\ IF Child(s) /\ os[session[s].proc].alive THEN Polls(s, "over", "already running")
       ELSE Polls(s, "spawn", "nothing")
StartChecks(s) ==
    /\ IsAt(s, "start")
    /\ IF IsRunning(s) THEN Polls(s, "over", "already running") ELSE Polls(s, "spawn", "nothing")
Popen(s, p) ==
    /\ IsAt(s, "spawn") /\ ~Exists(p)
    /\ os' = [os EXCEPT ![p] = [kind |-> "daemon", alive |-> TRUE, parent |-> s]]
    /\ session' = [session EXCEPT ![s].pc = "open", ![s].proc = p, ![s].exited = FALSE]
    /\ UNCHANGED <<pidFile, mode, orderly, started, events>>
\* No such program, or no process for it.
PopenFails(s) ==
    /\ IsAt(s, "spawn") /\ Says(s, "raised")
    /\ UNCHANGED <<os, pidFile, mode, orderly, started, events>>
OpenPidFile(s) ==
    /\ IsAt(s, "open") /\ pidFile' = NoPid /\ Proceeds(s, "write")
    /\ UNCHANGED <<os, mode, orderly, started, events>>
WritePid(s) ==
    /\ IsAt(s, "write") /\ pidFile' = session[s].proc
    /\ IF s \in Lasting THEN Proceeds(s, "ready") ELSE Says(s, "started")
    /\ UNCHANGED <<os, mode, orderly, started, events>>
\* Client._wait_for_ready: the daemon is kept when it does not answer in time.
WaitForReady(s) ==
    /\ IsAt(s, "ready")
    /\ Says(s, "raised") \/ (Running(session[s].proc) /\ Says(s, "started"))
    /\ UNCHANGED <<os, pidFile, mode, orderly, started, events>>

-----------------------------------------------------------------------------
(* stop(), and clean, which stops the daemon before it removes its files.  *)

After(s) == IF session[s].cmd = "clean" THEN "rmtree" ELSE "over"
CleanChecks(s) ==
    /\ IsAt(s, "clean")
    /\ Polls(s, IF IsRunning(s) THEN "stop" ELSE "rmtree", "nothing")
Rmtree(s) ==
    /\ IsAt(s, "rmtree") /\ Says(s, "cleaned")
    /\ UNCHANGED <<os, pidFile, mode, orderly, started, events>>

\* terminate() sends nothing to a child that has an exit code.
StopTracked(s) ==
    /\ IsAt(s, "stop") /\ session[s].proc # NoPid /\ Proceeds(s, "wait")
    /\ UNCHANGED <<os, pidFile, mode, orderly, started, events>>

\* It ends in time, or is killed, or was dead; wait() takes it away.
WaitTracked(s) ==
    /\ IsAt(s, "wait")
    /\ os' = IF Child(s) THEN [os EXCEPT ![session[s].proc] = Unused] ELSE os
    /\ session' = [session EXCEPT ![s].proc = NoPid, ![s].exited = FALSE, ![s].pc = "unlink"]
    /\ UNCHANGED <<pidFile, mode, orderly, started, events>>

StopByPid(s) ==
    LET p == pidFile
    IN /\ IsAt(s, "stop") /\ session[s].proc = NoPid
       /\ CASE p = NoPid -> session' = [session EXCEPT ![s].pc = After(s),
                                                       ![s].said = "not running"]
            [] Exists(p) -> session' = [session EXCEPT ![s].pid = p, ![s].pc = "exit"]
            [] OTHER -> session' = [session EXCEPT ![s].pid = p, ![s].pc = "stale"]
       /\ UNCHANGED <<os, pidFile, mode, orderly, started, events>>

\* The process obeys SIGTERM; one that does not is killed after the timeout.
Obeys(s) ==
    /\ IsAt(s, "exit") /\ Running(session[s].pid)
    /\ os' = Dead(session[s].pid, os)
    /\ UNCHANGED <<pidFile, mode, session, orderly, started, events>>
\* Mutant: the process is not looked at again after the signal.
SeesExitAtOnce(s) ==
    /\ IsAt(s, "exit") \/ IsAt(s, "killed")
    /\ Proceeds(s, "unlink")
    /\ UNCHANGED <<os, pidFile, mode, orderly, started, events>>
SeesExit(s) ==
    /\ IsAt(s, "exit") \/ IsAt(s, "killed")
    /\ ~Exists(session[s].pid)
    /\ Proceeds(s, "unlink")
    /\ UNCHANGED <<os, pidFile, mode, orderly, started, events>>
Kills(s) ==
    LET p == session[s].pid
    IN /\ IsAt(s, "exit") /\ Exists(p)
       /\ os' = IF Running(p) THEN Dead(p, os) ELSE os
       /\ Proceeds(s, "killed")
       /\ UNCHANGED <<pidFile, mode, orderly, started, events>>
\* A dead child of a session that has not waited for it still counts as alive.
TimesOut(s) ==
    /\ IsAt(s, "killed") /\ Exists(session[s].pid)
    /\ Says(s, "did not stop")
    /\ UNCHANGED <<os, pidFile, mode, orderly, started, events>>

RemovePidFile(s) ==
    /\ IsAt(s, "unlink") \/ IsAt(s, "stale")
    /\ pidFile' = NoPid
    /\ session' = [session EXCEPT ![s].pc = After(s),
                                  ![s].said = IF IsAt(s, "stale") THEN "not running" ELSE "stopped"]
    /\ UNCHANGED <<os, mode, orderly, started, events>>

DaemonNext ==
    \/ \E p \in Pids : DaemonDies(p) \/ StrangerComes(p)
    \/ \E s \in Sessions :
          \/ SessionDies(s) \/ Exit(s)
          \/ (\E cmd \in {"mode", "start", "stop", "clean"} : Command(s, cmd))
          \/ OpenConfig(s) \/ (\E m \in Modes : WriteConfig(s, m))
          \/ Dispatch(s) \/ Resolve(s) \/ Compose(s) \/ RemoveRepos(s)
          \/ StartChecks(s) \/ (\E p \in Pids : Popen(s, p)) \/ PopenFails(s)
          \/ OpenPidFile(s) \/ WritePid(s) \/ WaitForReady(s)
          \/ CleanChecks(s) \/ Rmtree(s)
          \/ StopTracked(s) \/ WaitTracked(s) \/ StopByPid(s)
          \/ Obeys(s) \/ SeesExit(s) \/ Kills(s) \/ TimesOut(s) \/ RemovePidFile(s)

DaemonSpec == DaemonInit /\ [][DaemonNext]_DaemonVars

-----------------------------------------------------------------------------
(* As long as commands come one at a time and none is killed half way, the *)
(* pid file names the daemon that runs, however daemons died, pids were    *)
(* given again and stops failed before.                                    *)
DaemonIsNamed ==
    orderly /\ (\A s \in Sessions : session[s].pc \in {"idle", "over"}) => Daemons \subseteq {pidFile}

(* Then nothing is left running either when a stop has seen the process go *)
(* and when clean removes the files the daemon uses.                       *)
StoppedMeansGone ==
    orderly /\ (\E s \in Sessions : session[s].pc \in {"unlink", "rmtree"}) => Daemons = {}

(* The daemon that runs is the one of the pid file: it can be stopped.     *)
DaemonCanBeStopped == (\A s \in Sessions : IsAt(s, "idle")) => Daemons \subseteq {pidFile}
=============================================================================
