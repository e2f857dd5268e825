----------------------------- MODULE IdleDrain -----------------------------
(***************************************************************************)
(* The life of one daemon: the idle timer (internal/idle), the middleware  *)
(* that holds it open for each request (server.withActivity), the drain    *)
(* (server.DrainAll) and launchd, which owns the listening socket and      *)
(* starts the daemon again when a connection arrives.                      *)
(*                                                                         *)
(* Time is kept as ages, never as a clock: `age` is now - t.last, `due` is *)
(* what the runtime timer still has to run.  Neither needs to exceed the   *)
(* timeout, because the code only asks whether elapsed < timeout.          *)
(***************************************************************************)
EXTENDS Integers, FiniteSets

CONSTANTS
    Requests,   \* client requests that count as activity
    Polls,      \* /healthz requests, exempt from activity
    Timeout     \* cfg.Idle.Timeout, in ticks

ASSUME TimeoutAssumption == Timeout \in Nat \ {0}
ASSUME RequestsAssumption ==
    IsFiniteSet(Requests) /\ IsFiniteSet(Polls) /\ Requests \cap Polls = {}

VARIABLES
    main,       \* run(): "boot", "serving", "draining", "exited"
    started, stopped, fired, inflight,   \* idle.Timer, same names
    age,        \* now - t.last, capped at Timeout
    due,        \* ticks left on the runtime timer; Off when not armed
    cbPending,  \* expire has set fired and not yet run onIdle
    ctxDone,    \* the context DrainAll selects on is cancelled
    rq          \* where each request is

timerVars == <<started, stopped, fired, inflight, age, due, cbPending>>
idleVars == <<main, timerVars, ctxDone, rq>>

Off == -1
All == Requests \cup Polls

(***************************************************************************)
(* A request is "away" (none outstanding), "backlog" (connected, sitting   *)
(* in the socket launchd holds), "accepted" (on a connection of this       *)
(* process, not yet through the middleware), "held" (Hold taken, Fired not *)
(* yet read), "served" (inside the next handler), "refused" (answering the *)
(* 503), or "cut" (its connection was closed under it).                    *)
(***************************************************************************)
Holding == {"held", "served", "refused"}
Live == {"accepted", "held", "served", "refused"}
Stages == {"away", "backlog", "cut"} \cup Live

\* Every variable of the timer, the drain and the requests has its type, and the
\* time left on the runtime timer never exceeds cfg.Idle.Timeout.
IdleTypes ==
    /\ main \in {"boot", "serving", "draining", "exited"}
    /\ started \in BOOLEAN /\ stopped \in BOOLEAN /\ fired \in BOOLEAN
    /\ inflight \in Nat
    /\ age \in 0..Timeout
    /\ due \in -1..Timeout
    /\ cbPending \in BOOLEAN
    /\ ctxDone \in BOOLEAN
    /\ rq \in [All -> Stages]

IdleInit ==
    /\ main = "boot"
    /\ started = FALSE /\ stopped = FALSE /\ fired = FALSE
    /\ inflight = 0 /\ age = 0 /\ due = Off
    /\ cbPending = FALSE /\ ctxDone = FALSE
    /\ rq = [r \in All |-> "away"]

-----------------------------------------------------------------------------
(* The timer *)

\* Timer.Start, called by run() just before ServeAll.
Start ==
    /\ main = "boot"
    /\ ~started /\ ~stopped
    /\ started' = TRUE
    /\ age' = 0
    /\ due' = Timeout
    /\ main' = "serving"
    /\ UNCHANGED <<stopped, fired, inflight, cbPending, ctxDone, rq>>

\* A tick of the clock.
Tick ==
    /\ main # "exited"
    /\ age < Timeout \/ due > 0
    /\ age' = IF age < Timeout THEN age + 1 ELSE age
    /\ due' = IF due > 0 THEN due - 1 ELSE due
    /\ UNCHANGED <<main, started, stopped, fired, inflight, cbPending, ctxDone, rq>>

\* What Timer.Hold does under the lock.
Hold == inflight' = inflight + 1 /\ age' = 0

\* What the release func does under the lock.
Release == inflight' = (IF inflight > 0 THEN inflight - 1 ELSE inflight) /\ age' = 0

\* Timer.expire, up to the unlock: the runtime timer has run out, so the
\* goroutine decides, under the lock, to re-arm or to fire.
Expire ==
    /\ main # "exited"
    /\ due = 0
    /\ IF stopped \/ fired
       THEN due' = Off /\ UNCHANGED <<fired, cbPending>>
       ELSE IF inflight > 0
       THEN due' = Timeout /\ UNCHANGED <<fired, cbPending>>
       ELSE IF age < Timeout
       THEN due' = Timeout - age /\ UNCHANGED <<fired, cbPending>>
       ELSE due' = Off /\ fired' = TRUE /\ cbPending' = TRUE
    /\ UNCHANGED <<main, started, stopped, inflight, age, ctxDone, rq>>

\* The callback after the unlock: main's onIdle cancels the context.
OnIdle ==
    /\ main # "exited"
    /\ cbPending
    /\ cbPending' = FALSE
    /\ ctxDone' = TRUE
    /\ UNCHANGED <<main, started, stopped, fired, inflight, age, due, rq>>

-----------------------------------------------------------------------------
(* Requests *)

\* A client connects; launchd's socket takes the connection whether or not a
\* daemon is running.
Connect(r) ==
    /\ rq[r] \in {"away", "cut"}
    /\ rq' = [rq EXCEPT ![r] = "backlog"]
    /\ UNCHANGED <<main, timerVars, ctxDone>>

\* http.Server accepts while its listeners are open.
Accept(r) ==
    /\ main = "serving"
    /\ rq[r] = "backlog"
    /\ rq' = [rq EXCEPT ![r] = "accepted"]
    /\ UNCHANGED <<main, timerVars, ctxDone>>

\* Mutant: polls are not exempt.
ActivityEnter_NoExemption(r) ==
    /\ main # "exited"
    /\ rq[r] = "accepted"
    /\ rq' = [rq EXCEPT ![r] = "held"] /\ Hold
    /\ UNCHANGED <<main, started, stopped, fired, due, cbPending, ctxDone>>

\* withActivity: a poll is exempt and goes straight to the next handler, any
\* other request takes a hold first.
ActivityEnter(r) ==
    /\ main # "exited"
    /\ rq[r] = "accepted"
    /\ IF r \in Polls
       THEN rq' = [rq EXCEPT ![r] = "served"] /\ UNCHANGED <<inflight, age>>
       ELSE rq' = [rq EXCEPT ![r] = "held"] /\ Hold
    /\ UNCHANGED <<main, started, stopped, fired, due, cbPending, ctxDone>>

\* Mutant: the fired flag is read before the hold is taken, so the check no
\* longer sees an expiry that came between the two.
ActivityCheck_BeforeHold(r) ==
    /\ main # "exited"
    /\ rq[r] = "held"
    /\ rq' = [rq EXCEPT ![r] = "served"]
    /\ UNCHANGED <<main, timerVars, ctxDone>>

\* withActivity, after the hold: refuse when the timer has fired.
ActivityCheck(r) ==
    /\ main # "exited"
    /\ rq[r] = "held"
    /\ rq' = [rq EXCEPT ![r] = IF fired THEN "refused" ELSE "served"]
    /\ UNCHANGED <<main, timerVars, ctxDone>>

\* The handler returns and the deferred release runs.
Finish(r) ==
    /\ main # "exited"
    /\ rq[r] \in {"served", "refused"}
    /\ rq' = [rq EXCEPT ![r] = "away"]
    /\ IF r \in Polls THEN UNCHANGED <<inflight, age>> ELSE Release
    /\ UNCHANGED <<main, started, stopped, fired, due, cbPending, ctxDone>>

-----------------------------------------------------------------------------
(* DrainAll, signals and launchd *)

\* SIGINT or SIGTERM cancels the same context.
Signal ==
    /\ main = "serving"
    /\ ~ctxDone
    /\ ctxDone' = TRUE
    /\ UNCHANGED <<main, timerVars, rq>>

\* DrainAll leaves its select and calls Shutdown, which closes every listener.
BeginDrain ==
    /\ main = "serving"
    /\ main' = "draining"
    /\ UNCHANGED <<timerVars, ctxDone, rq>>

ContextDone == ctxDone /\ BeginDrain
ListenerStops == ~ctxDone /\ BeginDrain

\* What the process leaves behind: timer.Stop is deferred in run(), and every
\* connection still open is closed.
Exit ==
    /\ main' = "exited"
    /\ stopped' = TRUE
    /\ due' = Off
    /\ rq' = [r \in All |-> IF rq[r] \in Live THEN "cut" ELSE rq[r]]
    /\ UNCHANGED <<started, fired, inflight, age, cbPending, ctxDone>>

\* Shutdown returns once no connection is active.
DrainDone ==
    /\ main = "draining"
    /\ \A r \in All : rq[r] \notin Live
    /\ Exit

\* Mutant: Shutdown waits with no grace deadline.
DrainForced_NoGrace == FALSE /\ DrainDone

\* The grace runs out: Shutdown returns an error and hs.Close cuts the rest.
DrainForced ==
    /\ main = "draining"
    /\ \E r \in All : rq[r] \in Live
    /\ Exit

\* launchd starts the daemon again for a connection waiting on its socket.
Activate ==
    /\ main = "exited"
    /\ \E r \in All : rq[r] = "backlog"
    /\ main' = "boot"
    /\ started' = FALSE /\ stopped' = FALSE /\ fired' = FALSE
    /\ inflight' = 0 /\ age' = 0 /\ due' = Off
    /\ cbPending' = FALSE /\ ctxDone' = FALSE
    /\ UNCHANGED rq

IdleNext ==
    \/ Start \/ Tick \/ Expire \/ OnIdle
    \/ Signal \/ ContextDone \/ ListenerStops \/ DrainDone \/ DrainForced \/ Activate
    \/ \E r \in All :
          Connect(r) \/ Accept(r) \/ ActivityEnter(r) \/ ActivityCheck(r) \/ Finish(r)

(***************************************************************************)
(* Fairness: the clock advances, the Go runtime runs a timer goroutine and *)
(* the callback it owes, DrainAll's select sees a cancelled context, the   *)
(* grace context expires, launchd activates.  The HTTP stack takes each    *)
(* request through accept and the middleware.  A handler need not return   *)
(* and nobody need connect, so Finish and Connect carry no fairness.       *)
(***************************************************************************)
IdleFairness ==
    /\ WF_idleVars(Start) /\ WF_idleVars(Tick) /\ WF_idleVars(Expire) /\ WF_idleVars(OnIdle)
    /\ WF_idleVars(ContextDone) /\ WF_idleVars(DrainDone \/ DrainForced)
    /\ WF_idleVars(Activate)
    /\ \A r \in All :
          SF_idleVars(Accept(r)) /\ WF_idleVars(ActivityEnter(r)) /\ WF_idleVars(ActivityCheck(r))

IdleSpec == IdleInit /\ [][IdleNext]_idleVars /\ IdleFairness

-----------------------------------------------------------------------------
(* Properties *)

\* The comment on withActivity: "a hold taken first stops the timer firing at
\* all, and a hold taken second sees the fired flag. There is no third case."
\* Once the timer has fired, no counted request is inside its handler, so an
\* idle exit never truncates an answer, whatever the drain grace is.
NoThirdCase == fired => \A r \in Requests : rq[r] # "served"

InMiddleware == {r \in Requests : rq[r] \in Holding}

\* Hold and release stay paired over every path of withActivity, the refusal
\* included: inflight is the number of counted requests inside it.
HoldsBalanced == main # "exited" => inflight = Cardinality(InMiddleware)

\* The purpose of the idle timeout: when clients go quiet for good the daemon
\* exits, although a monitor keeps polling /healthz.
QuietExits ==
    (<>[](\A r \in Requests : rq[r] \in {"away", "cut"})) => []<>(main = "exited")

\* A connection that lands in launchd's socket at any moment, the gap between
\* the expiry and the exit included, is never left unanswered by a daemon that
\* has stopped accepting: it is served, refused with the retryable 503, or cut.
ConnectionsSettle ==
    \A r \in All : rq[r] = "backlog" ~> rq[r] \in {"served", "refused", "cut"}
=============================================================================
