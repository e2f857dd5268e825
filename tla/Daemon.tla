------------------------------- MODULE Daemon -------------------------------
(***************************************************************************)
(* What the daemon keeps beyond one request, checked side by side: the     *)
(* idle timer and the drain (IdleDrain), and the Codex credential source   *)
(* (CodexAuth).  They share no state: a request holds the timer before it  *)
(* asks for a credential and lets go of it after its answer, and the       *)
(* source never looks at the timer.  So one of the two, the one in focus,  *)
(* takes its steps while the other is at rest.                             *)
(***************************************************************************)
EXTENDS CodexAuth, IdleDrain

VARIABLE focus

daemonVars == <<focus, vars, idleVars>>

\* A daemon that has exited, with nobody connected.
DrainAtRest ==
    /\ main = "exited" /\ started = TRUE /\ stopped = TRUE /\ fired = FALSE
    /\ inflight = 0 /\ age = 0 /\ due = Off /\ cbPending = FALSE /\ ctxDone = TRUE
    /\ rq = [r \in All |-> "away"]

DaemonInit ==
    /\ focus \in {"drain", "auth"}
    /\ IF focus = "drain" THEN IdleInit ELSE DrainAtRest
    /\ Init

DaemonNext ==
    \/ focus = "drain" /\ IdleNext /\ UNCHANGED <<focus, vars>>
    \/ focus = "auth" /\ Next /\ UNCHANGED <<focus, idleVars>>

DaemonSpec == DaemonInit /\ [][DaemonNext]_daemonVars /\ Fairness /\ IdleFairness
=============================================================================
