------------------------------ MODULE Webhooks ------------------------------
(***************************************************************************)
(* The webhook dispatcher (notify/notify.go): one goroutine per notice and  *)
(* target, retries with a fixed ladder of delays, failures logged at most    *)
(* once per host and window, and a shutdown that cancels what is running    *)
(* and waits a limited time for it.                                         *)
(*                                                                         *)
(* A notice stands for its delivery to one target.  How a request is built  *)
(* and signed for each transport (adapter.go) decides nothing here.  The    *)
(* delays of the ladder take time that is not modelled; the clock serves    *)
(* the log window only.                                                     *)
(***************************************************************************)
EXTENDS Naturals

CONSTANTS
    Notices,       \* deliveries: X-Webhook-IDs
    Host,          \* the host of each delivery's address
    Backoffs,      \* Len(backoffSchedule)
    LogWindow,     \* failureLogWindow
    HooksMaxTime   \* bound on the clock

ASSUME HooksAssumption ==
    Backoffs \in Nat /\ LogWindow \in Nat /\ HooksMaxTime \in Nat

VARIABLES
    delivery,  \* [pc, attempt] per notice
    lastFail,  \* d.lastFail: per host, or NoTime
    cancelled, \* d.ctx is done
    closing,   \* where Shutdown is: "no", "waiting", "drained", "timedout"
    clock,
    received,  \* history: notices a receiver has seen, when it had been cancelled or not
    lastLine,  \* history: time of the last line about the host
    swallowed  \* history: [host, time] of failures without a line

hooksVars == <<delivery, lastFail, cancelled, closing, clock, received, lastLine, swallowed>>

Hosts == {Host[n] : n \in Notices}
NoTime == HooksMaxTime + 1
Over == {"delivered", "gaveup", "dropped"}
Running(n) == delivery[n].pc \in {"send", "sleep"}

WebhooksTypeOK ==
    /\ delivery \in [Notices -> [pc : {"new", "send", "sleep"} \cup Over, attempt : 0..Backoffs]]
    /\ lastFail \in [Hosts -> 0..NoTime] /\ lastLine \in [Hosts -> 0..NoTime]
    /\ cancelled \in BOOLEAN
    /\ closing \in {"no", "waiting", "drained", "timedout"}
    /\ clock \in 0..HooksMaxTime
    /\ received \subseteq [n : Notices, late : BOOLEAN]
    /\ swallowed \subseteq [host : Hosts, line : 0..NoTime, at : 0..HooksMaxTime]

WebhooksInit ==
    /\ delivery = [n \in Notices |-> [pc |-> "new", attempt |-> 0]]
    /\ lastFail = [h \in Hosts |-> NoTime] /\ lastLine = [h \in Hosts |-> NoTime]
    /\ cancelled = FALSE /\ closing = "no" /\ clock = 0
    /\ received = {} /\ swallowed = {}

logVars == <<lastFail, lastLine, swallowed>>

----------------------------------------------------------------------------
\* notifyRole and Dispatch: also while the dispatcher shuts down, by a handler that
\* is still running.
Dispatch(n) ==
    /\ delivery[n].pc = "new"
    /\ delivery' = [delivery EXCEPT ![n].pc = "send"]
    /\ UNCHANGED <<cancelled, closing, clock, received, logVars>>

\* Mutated form: the request is begun although the context is cancelled.
ReachesIgnoringCancel(n) ==
    received' = received \cup {[n |-> n, late |-> closing = "drained"]}

\* send: with a cancelled context the request is not begun.  The receiver may have
\* got the request although the sender sees an error.
Reaches(n) == ~cancelled /\ ReachesIgnoringCancel(n)

SendOK(n) ==
    /\ delivery[n].pc = "send"
    /\ Reaches(n)
    /\ delivery' = [delivery EXCEPT ![n].pc = "delivered"]
    /\ UNCHANGED <<cancelled, closing, clock, logVars>>

\* logFailure: one line per host and window.
LogFailure(h) ==
    LET muted == lastFail[h] # NoTime /\ clock - lastFail[h] < LogWindow
    IN  IF muted THEN /\ swallowed' = swallowed \cup
                             {[host |-> h, line |-> lastLine[h], at |-> clock]}
                      /\ UNCHANGED <<lastFail, lastLine>>
        ELSE /\ lastFail' = [lastFail EXCEPT ![h] = clock]
             /\ lastLine' = [lastLine EXCEPT ![h] = clock]
             /\ UNCHANGED swallowed

\* deliver: after a failed attempt the ladder is climbed, and at its end given up.
SendFails(n) ==
    /\ delivery[n].pc = "send"
    /\ Reaches(n) \/ UNCHANGED received
    /\ IF delivery[n].attempt = Backoffs
       THEN delivery' = [delivery EXCEPT ![n].pc = "gaveup"] /\ LogFailure(Host[n])
       ELSE delivery' = [delivery EXCEPT ![n].pc = "sleep"] /\ UNCHANGED logVars
    /\ UNCHANGED <<cancelled, closing, clock>>

\* sleepCtx ends early, and the notice is dropped, when the dispatcher is shut down.
Sleep(n) ==
    /\ delivery[n].pc = "sleep"
    /\ delivery' = [delivery EXCEPT ![n] =
          IF cancelled THEN [@ EXCEPT !.pc = "dropped"]
          ELSE [pc |-> "send", attempt |-> @.attempt + 1]]
    /\ UNCHANGED <<cancelled, closing, clock, received, logVars>>

----------------------------------------------------------------------------
ShutdownBegins ==
    /\ closing = "no"
    /\ closing' = "waiting" /\ cancelled' = TRUE
    /\ UNCHANGED <<delivery, clock, received, logVars>>

\* wg.Wait against the timer.
ShutdownWaits ==
    /\ closing = "waiting"
    /\ \/ closing' = "drained" /\ \A n \in Notices : ~Running(n)
       \/ closing' = "timedout"
    /\ UNCHANGED <<delivery, cancelled, clock, received, logVars>>

ClockTicks ==
    /\ clock < HooksMaxTime /\ clock' = clock + 1
    /\ UNCHANGED <<delivery, cancelled, closing, received, logVars>>

Deliver(n) == SendOK(n) \/ SendFails(n) \/ Sleep(n)

WebhooksNext ==
    \/ \E n \in Notices : Dispatch(n) \/ Deliver(n)
    \/ ShutdownBegins \/ ShutdownWaits \/ ClockTicks

\* Requests and waits end: the HTTP client has a timeout, the delays are finite.
WebhooksFair == \A n \in Notices : WF_hooksVars(Deliver(n))

WebhooksSpec == WebhooksInit /\ [][WebhooksNext]_hooksVars /\ WebhooksFair

----------------------------------------------------------------------------
\* A failure is left out of the log only when a line about the same host is at
\* most LogWindow old: a receiver that keeps failing keeps being reported.
FailuresReported ==
    \A s \in swallowed : s.line # NoTime /\ s.at - s.line < LogWindow

\* Once Shutdown has seen every delivery end, no receiver hears from this process,
\* whatever handlers still dispatch.
QuietAfterShutdown == \A r \in received : ~r.late

\* Every notice that is dispatched is delivered, given up or dropped: no goroutine
\* climbs the ladder for ever.
DeliveriesEnd == \A n \in Notices : Running(n) ~> delivery[n].pc \in Over

\* What the dispatcher promises together: failures are reported, deliveries end, and
\* nothing is sent after shutdown.
HooksSound == [](WebhooksTypeOK /\ FailuresReported /\ QuietAfterShutdown) /\ DeliveriesEnd

=============================================================================
