------------------------------ MODULE MCClients -----------------------------
(***************************************************************************)
(* Three that wait for another process: clients that build through a       *)
(* service, the commands that start and stop it, and the batch that asks   *)
(* the embedding provider.  Each behaviour is of one of them; the          *)
(* variables of the others stay as they are, and none of their steps is    *)
(* enabled.  A service that is stopped is, to its clients, one that died.  *)
(***************************************************************************)
EXTENDS BuildClient, Daemon, EmbedRetry

VARIABLE part  \* the one that is looked at

vars == <<part, ClientVars, DaemonVars, EmbedVars>>

EmbedIdle == /\ texts = <<>> /\ perText = FALSE /\ skip = FALSE /\ pending = <<>>
             /\ attempts = 0 /\ embedded = {} /\ skipped = {} /\ failed = FALSE

Init ==
    \/ part = "client" /\ ClientInit /\ DaemonInit /\ EmbedIdle
    \/ part = "daemon" /\ ClientInit /\ DaemonInit /\ EmbedIdle
    \/ part = "embed" /\ ClientInit /\ DaemonInit /\ mode = "daemon" /\ EmbedInit

\* All builds and faults, or all commands, are used up: nothing need happen any more.
Over == \/ part = "client" /\ Len(fate) = MaxBuilds /\ faults = MaxFaults
        \/ part = "daemon" /\ started = MaxOps /\ \A s \in Sessions : IsAt(s, "idle")

Next ==
    \/ part = "client" /\ ClientNext /\ UNCHANGED <<part, DaemonVars, EmbedVars>>
    \/ part = "daemon" /\ DaemonNext /\ UNCHANGED <<part, ClientVars, EmbedVars>>
    \/ part = "embed" /\ EmbedNext /\ UNCHANGED <<part, ClientVars, DaemonVars>>
    \/ Over /\ UNCHANGED vars

Spec == Init /\ [][Next]_vars /\ ClientFairness /\ EmbedFairness

-----------------------------------------------------------------------------
\* Texts that fit, that fit when halved twice and that do not, and one with a tie between
\* the line ends nearest to its middle.
MCTexts == {<<1>>, <<7>>, <<9>>, <<1, 1, 4, 2>>}
=============================================================================
