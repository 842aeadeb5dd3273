--------------------------- MODULE HealthMonitor ---------------------------
(***************************************************************************)
(* The self-healing maintenance monitor (health/monitor.go) with the probe, *)
(* the cleanup and the notifier the server gives it (server/maintenance.go). *)
(*                                                                         *)
(* One goroutine runs tick; the database and the disk change under it       *)
(* between any two of its calls.  Every critical section of Monitor.mu is   *)
(* one step.  Requests read the state through InMaintenance and Snapshot;   *)
(* they are in module Requests.                                             *)
(*                                                                         *)
(* The counter of attempts is only reported, never compared except with    *)
(* MaxAttempts, so it stops at AttemptCap.  Times are left out.             *)
(***************************************************************************)
EXTENDS Naturals

CONSTANTS
    MonitorConfigs,  \* the configurations the server may start with
    AttemptCap       \* bound on the reported number of attempts

ASSUME MonitorAssumption ==
    /\ MonitorConfigs \subseteq [selfHealing : BOOLEAN, maxAttempts : Nat,
                                 onEnter : BOOLEAN, onExit : BOOLEAN]
    /\ AttemptCap \in Nat \ {0}

VARIABLES
    monitor,   \* Monitor: state, reason, attempts
    mcfg,      \* the fields of Monitor that New copies from the configuration
    tick,      \* locals of tick and the call it is about to make
    world,     \* what criticalCheck observes: database, disk, removable files
    notices    \* the notifications sent: the last one, and whether one repeated

monitorVars == <<monitor, mcfg, tick, world, notices>>

Reasons == {"database_connection", "file_write"}

World == [db : BOOLEAN, disk : BOOLEAN, junk : BOOLEAN]

TickIdle == [pc |-> "idle", state |-> "starting", reason |-> "none", ok |-> FALSE]

MonitorTypeOK ==
    /\ monitor \in [state : {"starting", "normal", "maintenance"},
                    reason : Reasons \cup {"none"}, attempts : 0..AttemptCap]
    /\ mcfg \in MonitorConfigs
    /\ tick \in [pc : {"idle", "clean", "ping", "disk", "decide", "leave", "notify"},
                 state : {"starting", "normal", "maintenance"},
                 reason : Reasons \cup {"none"}, ok : BOOLEAN]
    /\ world \in World
    /\ notices \in [last : {"none", "enter", "exit"}, repeated : BOOLEAN]

InMaintenance == monitor.state = "maintenance"

----------------------------------------------------------------------------
\* health.New: the monitor starts in StateStarting.
MonitorInit ==
    /\ mcfg \in MonitorConfigs
    /\ monitor = [state |-> "starting", reason |-> "none", attempts |-> 0]
    /\ tick = TickIdle
    /\ world \in World
    /\ notices = [last |-> "none", repeated |-> FALSE]

\* tick: the copy of state and reason; a fault of the disk is cleaned up first.
TickBegin ==
    /\ tick.pc = "idle"
    /\ tick' = [pc |-> IF InMaintenance /\ monitor.reason = "file_write"
                       THEN "clean" ELSE "ping",
                state |-> monitor.state, reason |-> "none", ok |-> FALSE]
    /\ UNCHANGED <<monitor, mcfg, world, notices>>

\* maintenanceCleanup: old backups and logs are removed.  Only what can be
\* removed frees space, and the removals may all fail.
MaintenanceCleanup ==
    /\ tick.pc = "clean"
    /\ tick' = [tick EXCEPT !.pc = "ping"]
    /\ \/ world.junk /\ world' = [world EXCEPT !.disk = TRUE, !.junk = FALSE]
       \/ UNCHANGED world
    /\ UNCHANGED <<monitor, mcfg, notices>>

\* criticalCheck: db.Ping, then checkDisk only when the ping succeeded.
CriticalPing ==
    /\ tick.pc = "ping"
    /\ tick' = IF world.db
               THEN [tick EXCEPT !.pc = "disk"]
               ELSE [tick EXCEPT !.pc = "decide", !.reason = "database_connection"]
    /\ UNCHANGED <<monitor, mcfg, world, notices>>

CriticalDisk ==
    /\ tick.pc = "disk"
    /\ tick' = [tick EXCEPT !.pc = "decide", !.ok = world.disk,
                            !.reason = IF world.disk THEN "none" ELSE "file_write"]
    /\ UNCHANGED <<monitor, mcfg, world, notices>>

Capped == mcfg.maxAttempts > 0 /\ monitor.attempts >= mcfg.maxAttempts

\* Mutated form: healing stops at MaxAttempts.
HealGivesUpBuggy ==
    /\ tick.pc = "decide" /\ tick.state = "maintenance"
    /\ IF mcfg.selfHealing /\ ~Capped
       THEN /\ monitor' = [monitor EXCEPT !.attempts =
                             IF @ < AttemptCap THEN @ + 1 ELSE @]
            /\ tick' = [tick EXCEPT !.pc = IF tick.ok THEN "leave" ELSE "idle"]
       ELSE UNCHANGED monitor /\ tick' = [tick EXCEPT !.pc = "idle"]
    /\ UNCHANGED <<mcfg, world, notices>>

\* The switch at the end of tick while healing: without self-healing nothing
\* happens; otherwise the attempt is counted and a passing check leads to Exit.
TickHeal ==
    /\ tick.pc = "decide" /\ tick.state = "maintenance"
    /\ IF mcfg.selfHealing
       THEN /\ monitor' = [monitor EXCEPT !.attempts =
                             IF Capped \/ @ = AttemptCap THEN @ ELSE @ + 1]
            /\ tick' = [tick EXCEPT !.pc = IF tick.ok THEN "leave" ELSE "idle"]
       ELSE UNCHANGED monitor /\ tick' = [tick EXCEPT !.pc = "idle"]
    /\ UNCHANGED <<mcfg, world, notices>>

\* Monitor.Exit, called in maintenance; reason and message are cleared before
\* the snapshot for the notifier is taken.
MonitorExit ==
    /\ tick.pc = "leave"
    /\ monitor' = [monitor EXCEPT !.state = "normal", !.reason = "none"]
    /\ tick' = [tick EXCEPT !.pc = IF mcfg.onExit THEN "notify" ELSE "idle"]
    /\ UNCHANGED <<mcfg, world, notices>>

\* The default case of the switch: a passing check ends StateStarting, a
\* failing one is Monitor.Enter.
TickWatch ==
    /\ tick.pc = "decide" /\ tick.state # "maintenance"
    /\ IF tick.ok
       THEN /\ monitor' = [monitor EXCEPT !.state = IF @ = "starting" THEN "normal" ELSE @]
            /\ tick' = [tick EXCEPT !.pc = "idle"]
       ELSE /\ monitor' = [state |-> "maintenance", reason |-> tick.reason, attempts |-> 0]
            /\ tick' = [tick EXCEPT !.pc = IF mcfg.onEnter THEN "notify" ELSE "idle"]
    /\ UNCHANGED <<mcfg, world, notices>>

\* maintenanceNotify, after the lock is released.
MaintenanceNotify ==
    LET event == IF tick.state = "maintenance" THEN "exit" ELSE "enter" IN
    /\ tick.pc = "notify"
    /\ notices' = [last |-> event,
                   repeated |-> notices.repeated \/ notices.last = event]
    /\ tick' = [tick EXCEPT !.pc = "idle"]
    /\ UNCHANGED <<monitor, mcfg, world>>

\* The database and the disk fail and recover on their own (external).
WorldChanges ==
    /\ world' \in World /\ world' # world
    /\ UNCHANGED <<monitor, mcfg, tick, notices>>

TickStep ==
    \/ TickBegin \/ MaintenanceCleanup \/ CriticalPing \/ CriticalDisk
    \/ TickHeal \/ MonitorExit \/ TickWatch \/ MaintenanceNotify

MonitorNext == TickStep \/ WorldChanges

\* The ticker fires every RetryInterval for as long as the server runs, so the
\* loop keeps going round; nothing is assumed about faults.
MonitorSpec == MonitorInit /\ [][MonitorNext]_monitorVars /\ WF_monitorVars(TickStep)

----------------------------------------------------------------------------
\* Once database and disk stay good, the server stays in normal operation,
\* whatever reason maintenance was entered for and however many attempts were
\* made (self-healing enabled): reaching MaxAttempts only stops the counting.
Recovers ==
    mcfg.selfHealing => (<>[](world.db /\ world.disk) => <>[](monitor.state = "normal"))

\* A fault that stays leads to maintenance, from StateStarting as well.
FaultNoticed == <>[](~world.db) => <>[]InMaintenance

\* With both notifications on, the operator hears of every entry once and of
\* every exit once (Enter and Exit are idempotent and fire after the state
\* changed): the two kinds of message alternate.
NoticesAlternate == (mcfg.onEnter /\ mcfg.onExit) => ~notices.repeated

\* What the monitor promises together: it recovers, it notices, and its messages
\* alternate.
MonitorSound == [](MonitorTypeOK /\ NoticesAlternate) /\ Recovers /\ FaultNoticed

=============================================================================
