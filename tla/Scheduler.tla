------------------------------ MODULE Scheduler ------------------------------
(***************************************************************************)
(* The built-in task scheduler: its in-memory task table, the table        *)
(* scheduler_tasks, the loop goroutine, the goroutines that execute tasks, *)
(* the operator's API, and the process around it (start, shutdown, crash). *)
(*                                                                         *)
(* s.mu makes every critical section one step.  tick marks the due tasks   *)
(* as running under the lock and adds them to the wait group one by one    *)
(* after releasing it; `picked' holds the tasks in between.  A slot is a   *)
(* goroutine inside execute, counted by s.wg.                              *)
(***************************************************************************)
EXTENDS Naturals, FiniteSets

CONSTANTS
    Tasks,              \* the registered tasks
    Registered,         \* those registered with enabled = true
    RetryOnFail,        \* those with a retry policy
    RetryBase,          \* retryBase
    RetryMax,           \* retryMax
    Window,             \* catchUpWindow
    ScheduleNext(_, _), \* schedule.Next: the first activation of a task after a time
    MaxGap,             \* no schedule leaves a longer gap between two activations
    Slots,              \* goroutines that may be inside execute at once
    Faults,             \* TRUE: a database call may fail; its error is ignored
    Api,                \* what the operator does: subset of {"run", "enable", "disable"}
    MaxTime             \* bound on the clock

ASSUME SchedulerNumbers == /\ RetryBase \in Nat /\ RetryMax \in Nat /\ Window \in Nat
                           /\ MaxGap \in Nat /\ MaxTime \in Nat \ {0} /\ Faults \in BOOLEAN
ASSUME SchedulerTasks == Tasks # {} /\ Registered \subseteq Tasks /\ RetryOnFail \subseteq Tasks
ASSUME ScheduleAdvances ==
    \A t \in Tasks : \A x \in 0 .. MaxTime :
        /\ ScheduleNext(t, x) \in Nat
        /\ x < ScheduleNext(t, x) /\ ScheduleNext(t, x) <= x + MaxGap

\* retryBase << attempt, and the longest wait a task can be given.
Backoff(a) == RetryBase * 2 ^ a
MaxDelay   == IF RetryMax # 0 /\ MaxGap < Backoff(RetryMax - 1)
              THEN Backoff(RetryMax - 1) ELSE MaxGap

\* The backoffs in use are far from the limits of a time.Duration and grow.
ASSUME BackoffGrows == /\ MaxDelay \in Nat /\ MaxGap <= MaxDelay
                       /\ \A a \in 0 .. RetryMax - 1 :
                             Backoff(a) \in Nat /\ Backoff(a) <= MaxDelay

VARIABLES
    mode,       \* life of the process: down, starting, on, draining, drained, timedOut
    loop,       \* the loop goroutine is alive
    mem,        \* s.tasks
    db,         \* the rows of scheduler_tasks
    picked,     \* marked running by tick or runMissed, not yet in the wait group
    slot,       \* the goroutines inside execute
    now         \* wall clock; 0 is the zero time

vars == <<mode, loop, mem, db, picked, slot, now>>

Statuses == {"pending", "success", "failed", "interrupted"}
Entry    == [enabled : BOOLEAN, lastRun : Nat, status : Statuses, nextRun : Nat,
             running : BOOLEAN, attempt : Nat]
TaskRow  == [stored : BOOLEAN, lastRun : Nat, status : Statuses, nextRun : Nat,
             enabled : BOOLEAN]
Modes    == {"down", "starting", "on", "draining", "drained", "timedOut"}
Phases   == {"free", "exec", "notify"}
SomeTask == CHOOSE t \in Tasks : TRUE
Free     == [task |-> SomeTask, phase |-> "free", start |-> 0]

TypeOK ==
    /\ mode \in Modes
    /\ loop \in BOOLEAN
    /\ mem \in [Tasks -> Entry]
    /\ db \in [Tasks -> TaskRow]
    /\ picked \subseteq Tasks
    /\ slot \in [Slots -> [task : Tasks, phase : Phases, start : 0 .. MaxTime]]
    /\ now \in 1 .. MaxTime

Busy(w)      == slot[w].phase # "free"
Executing(t) == {w \in Slots : Busy(w) /\ slot[w].task = t}

-----------------------------------------------------------------------------
(***************************************************************************)
(* The database.  Calls whose error is ignored leave the row unchanged.    *)
(***************************************************************************)
\* Mutated form: the upsert overwrites every column.
UpsertOverwrites(d, e) ==
    [stored |-> TRUE, lastRun |-> e.lastRun, status |-> e.status,
     nextRun |-> e.nextRun, enabled |-> e.enabled]

\* INSERT ... ON CONFLICT DO UPDATE: COALESCE keeps what the row already has.
Upsert(d, e) ==
    IF d.stored
    THEN [d EXCEPT !.lastRun = IF @ # 0 THEN @ ELSE e.lastRun,
                   !.nextRun = IF @ # 0 THEN @ ELSE e.nextRun,
                   !.enabled = e.enabled]
    ELSE [stored |-> TRUE, lastRun |-> e.lastRun, status |-> e.status,
          nextRun |-> e.nextRun, enabled |-> e.enabled]

\* UPDATE ... WHERE task_id = ?
UpdateTaskRun(d, e) ==
    IF d.stored THEN [d EXCEPT !.lastRun = e.lastRun, !.status = e.status,
                               !.nextRun = e.nextRun]
    ELSE d

\* The deferred db.Close runs some time after Stop has returned.
Lossy == Faults \/ mode \in {"drained", "timedOut"}
Save(t, d) == db' = [db EXCEPT ![t] = d] \/ (Lossy /\ UNCHANGED db)

-----------------------------------------------------------------------------
(***************************************************************************)
(* Start: loadState, then runMissed; main calls it once, before the        *)
(* server accepts requests.                                                *)
(***************************************************************************)
\* A task as Register leaves it.
Register(t) ==
    [enabled |-> t \in Registered, lastRun |-> 0, status |-> "pending",
     nextRun |-> 0, running |-> FALSE, attempt |-> 0]

\* loadState for one task; `seen' are the tasks whose rows ListSchedulerTasks returned.
LoadState(t, seen) ==
    IF t \in seen /\ db[t].stored
    THEN [Register(t) EXCEPT
             !.lastRun = db[t].lastRun, !.status = db[t].status,
             !.nextRun = ScheduleNext(t, IF db[t].lastRun # 0 THEN db[t].lastRun ELSE now)]
    ELSE [Register(t) EXCEPT !.nextRun = ScheduleNext(t, now)]

\* runMissed's test: due after the cutoff and before now.
Missed(e) == /\ e.enabled /\ e.nextRun # 0
             /\ now < e.nextRun + Window /\ e.nextRun < now

\* A loop of database calls, some of which may fail.
Reached(ts) == {ts} \cup (IF Faults THEN SUBSET ts ELSE {})

Start ==
    /\ mode = "down"
    /\ mode' = "starting"
    /\ \E seen \in Reached(Tasks) :
         LET loaded == [t \in Tasks |-> LoadState(t, seen)]
             missed == {t \in Tasks : Missed(loaded[t])}
         IN  /\ mem' = [t \in Tasks |-> [loaded[t] EXCEPT !.running = t \in missed]]
             /\ picked' = missed
             /\ \E kept \in Reached(Tasks) :
                  db' = [t \in Tasks |-> IF t \in kept THEN Upsert(db[t], loaded[t])
                                         ELSE db[t]]
    /\ UNCHANGED <<loop, slot, now>>

\* runMissed has spawned everything; the loop starts and the server accepts requests.
Started ==
    /\ mode = "starting" /\ picked = {}
    /\ mode' = "on" /\ loop' = TRUE
    /\ UNCHANGED <<mem, db, picked, slot, now>>

-----------------------------------------------------------------------------
(***************************************************************************)
(* The loop.                                                               *)
(***************************************************************************)
\* Mutated form: tick forgets the running flag.
DueEvenIfRunning(e) == e.enabled /\ e.nextRun # 0 /\ e.nextRun < now

Due(e) == e.enabled /\ ~e.running /\ e.nextRun # 0 /\ e.nextRun < now

\* One tick up to mu.Unlock.  When stop is closed and the ticker has fired, select
\* may still choose the tick.
Tick ==
    /\ loop /\ picked = {}
    /\ LET due == {t \in Tasks : Due(mem[t])} IN
         /\ due # {}
         /\ picked' = due
         /\ mem' = [t \in Tasks |-> [mem[t] EXCEPT !.running = @ \/ t \in due]]
    /\ UNCHANGED <<mode, loop, db, slot, now>>

LoopExit ==
    /\ loop /\ picked = {} /\ mode \notin {"starting", "on"}
    /\ loop' = FALSE
    /\ UNCHANGED <<mode, mem, db, picked, slot, now>>

\* A goroutine enters execute for task t.
Enter(w, t) ==
    /\ ~Busy(w)
    /\ slot' = [slot EXCEPT ![w] = [task |-> t, phase |-> "exec", start |-> now]]

\* wg.Add(1) and go func for one of the picked tasks.
Spawn(w) ==
    \E t \in picked :
        /\ Enter(w, t)
        /\ picked' = picked \ {t}
        /\ UNCHANGED <<mode, loop, mem, db, now>>

-----------------------------------------------------------------------------
(***************************************************************************)
(* Executing a task.                                                       *)
(***************************************************************************)
\* Mutated form: the retry counter has no limit.
BackoffUnlimited(t, e) ==
    [e EXCEPT !.nextRun = now + Backoff(e.attempt), !.attempt = e.attempt + 1]

\* The next run after a failure: base x 2^attempt while attempts are left.
AfterFailure(t, e) ==
    IF t \in RetryOnFail /\ e.attempt < RetryMax
    THEN [e EXCEPT !.nextRun = now + Backoff(e.attempt), !.attempt = e.attempt + 1]
    ELSE [e EXCEPT !.nextRun = ScheduleNext(t, now), !.attempt = 0]

\* Mutated form: after a success the next run is left as it was.
AfterSuccessUnmoved(t, e) == [e EXCEPT !.attempt = 0]

AfterSuccess(t, e) == [e EXCEPT !.nextRun = ScheduleNext(t, now), !.attempt = 0]

\* execute from the return of fn to its mu.Unlock: outcome, next run, UpdateTaskRun.
Finish(w) ==
    LET t == slot[w].task
        e == [mem[t] EXCEPT !.lastRun = slot[w].start]
    IN  /\ slot[w].phase = "exec"
        /\ \E done \in { AfterSuccess(t, [e EXCEPT !.status = "success"]),
                         AfterFailure(t, [e EXCEPT !.status = "failed"]) } :
             /\ mem' = [mem EXCEPT ![t] = done]
             /\ Save(t, UpdateTaskRun(db[t], done))
        /\ slot' = [slot EXCEPT ![w].phase = "notify"]
        /\ UNCHANGED <<mode, loop, picked, now>>

\* Mutated form: the goroutine returns without clearing the flag.
ReleaseKeepsFlag(w) ==
    /\ slot[w].phase = "notify"
    /\ slot' = [slot EXCEPT ![w] = Free]
    /\ UNCHANGED <<mode, loop, mem, db, picked, now>>

\* The notifier has returned: running = false, wg.Done.
Release(w) ==
    /\ slot[w].phase = "notify"
    /\ mem' = [mem EXCEPT ![slot[w].task].running = FALSE]
    /\ slot' = [slot EXCEPT ![w] = Free]
    /\ UNCHANGED <<mode, loop, db, picked, now>>

-----------------------------------------------------------------------------
(***************************************************************************)
(* The operator's API, while the server runs.                              *)
(***************************************************************************)
\* Mutated form: RunNow does not look at the running flag.
RunNowAlways(w) ==
    \E t \in Tasks :
        /\ mode = "on" /\ "run" \in Api
        /\ Enter(w, t)
        /\ mem' = [mem EXCEPT ![t].running = TRUE]
        /\ UNCHANGED <<mode, loop, db, picked, now>>

\* RunNow refuses a task that is already running.
RunNow(w) ==
    \E t \in Tasks :
        /\ mode = "on" /\ "run" \in Api
        /\ ~mem[t].running
        /\ Enter(w, t)
        /\ mem' = [mem EXCEPT ![t].running = TRUE]
        /\ UNCHANGED <<mode, loop, db, picked, now>>

\* persistState is called with the lock held.
SetEnabled(t, e) ==
    /\ mode = "on"
    /\ mem' = [mem EXCEPT ![t] = e]
    /\ Save(t, Upsert(db[t], e))
    /\ UNCHANGED <<mode, loop, picked, slot, now>>

EnableTask(t)  == /\ "enable" \in Api
                  /\ SetEnabled(t, [mem[t] EXCEPT !.enabled = TRUE,
                                                  !.nextRun = ScheduleNext(t, now)])
DisableTask(t) == /\ "disable" \in Api
                  /\ SetEnabled(t, [mem[t] EXCEPT !.enabled = FALSE])

-----------------------------------------------------------------------------
(***************************************************************************)
(* Stop, the end of the process, crashes and time.                         *)
(***************************************************************************)
Stop ==
    /\ mode = "on"
    /\ mode' = "draining"
    /\ UNCHANGED <<loop, mem, db, picked, slot, now>>

\* wg.Wait returned.
StopDrained ==
    /\ mode = "draining" /\ \A w \in Slots : ~Busy(w)
    /\ mode' = "drained"
    /\ UNCHANGED <<loop, mem, db, picked, slot, now>>

\* Mutated form: there is no timeout, Stop waits for every task.
StopWaits ==
    /\ mode = "draining" /\ \A w \in Slots : ~Busy(w)
    /\ mode' = "timedOut"
    /\ UNCHANGED <<loop, mem, db, picked, slot, now>>

\* shutdownDrainTimeout passed: markInterrupted.
StopTimeout ==
    LET marked == {t \in Tasks : mem[t].running}
        hit(t) == [mem[t] EXCEPT !.status = "interrupted", !.nextRun = now]
    IN  /\ mode = "draining"
        /\ mode' = "timedOut"
        /\ mem' = [t \in Tasks |-> IF t \in marked THEN hit(t) ELSE mem[t]]
        /\ \E kept \in Reached(marked) :
             db' = [t \in Tasks |-> IF t \in kept THEN Upsert(db[t], hit(t)) ELSE db[t]]
        /\ UNCHANGED <<loop, picked, slot, now>>

\* The process ends, with every goroutine in it.
ProcessEnds ==
    /\ mode' = "down" /\ loop' = FALSE /\ picked' = {}
    /\ slot' = [w \in Slots |-> Free]
    /\ mem' = [t \in Tasks |-> Register(t)]
    /\ UNCHANGED <<db, now>>

Exit  == mode \in {"drained", "timedOut"} /\ ProcessEnds
Crash == mode \in {"starting", "on", "draining"} /\ ProcessEnds

Clock ==
    /\ now < MaxTime
    /\ now' = now + 1
    /\ UNCHANGED <<mode, loop, mem, db, picked, slot>>

-----------------------------------------------------------------------------
Init ==
    /\ mode = "down" /\ loop = FALSE /\ picked = {}
    /\ mem = [t \in Tasks |-> Register(t)]
    /\ db = [t \in Tasks |-> [stored |-> FALSE, lastRun |-> 0, status |-> "pending",
                              nextRun |-> 0, enabled |-> FALSE]]
    /\ slot = [w \in Slots |-> Free]
    /\ now = 1

Next ==
    \/ Start \/ Started \/ Tick \/ LoopExit
    \/ \E w \in Slots : Spawn(w) \/ Finish(w) \/ Release(w) \/ RunNow(w)
    \/ \E t \in Tasks : EnableTask(t) \/ DisableTask(t)
    \/ Stop \/ StopDrained \/ StopTimeout \/ Exit \/ Crash \/ Clock

Spec == Init /\ [][Next]_vars

\* The goroutines of the scheduler run and the shutdown timer fires; nothing is
\* said about the task functions.
Fairness ==
    /\ WF_vars(Started) /\ WF_vars(Tick)
    /\ WF_vars(StopDrained) /\ WF_vars(StopTimeout)
    /\ WF_vars(\E w \in Slots : Spawn(w))
    /\ \A w \in Slots : WF_vars(Release(w))

FairSpec == Spec /\ Fairness

\* Every task function returns.
TasksReturn == \A w \in Slots : WF_vars(Finish(w))

-----------------------------------------------------------------------------
(***************************************************************************)
(* Properties.                                                             *)
(***************************************************************************)
\* A task never executes twice at the same time, whichever of the loop, catch-up
\* and RunNow start it (the running flag is set under s.mu and cleared on return).
NoOverlap == \A t \in Tasks : Cardinality(Executing(t)) <= 1

\* The running flag is exact: it is set for the tasks picked or executing and for
\* no other, so no task is locked out of its schedule by a leftover flag.
RunningExact ==
    \A t \in Tasks : mem[t].running <=> (t \in picked \/ Executing(t) # {})

\* A task's next run is never further away than its schedule's longest gap or its
\* longest backoff: retries cannot push a task out for good (execute).
NextRunHorizon == \A t \in Tasks : mem[t].nextRun <= now + MaxDelay

\* The database never forgets a completed run: no restart, failed load, upsert or
\* interrupted shutdown moves last_run back (the COALESCE of UpsertSchedulerTask).
LastRunKept == [][\A t \in Tasks : db[t].lastRun <= db'[t].lastRun]_vars

\* A due task that is left enabled is executed and gets a later next run, unless the
\* scheduler stops (loop, tick, execute).
DueRuns ==
    TasksReturn =>
        \A t \in Tasks :
            (mode = "on" /\ Due(mem[t])) ~>
                (mode # "on" \/ ~mem[t].enabled \/ (~mem[t].running /\ mem[t].nextRun >= now))

\* Stop returns even when a task function never does (shutdownDrainTimeout).
StopReturns == mode = "draining" ~> mode # "draining"

-----------------------------------------------------------------------------
(***************************************************************************)
(* The inductive invariant.                                                *)
(***************************************************************************)
SlotsDistinct == \A v, w \in Slots : Busy(v) /\ Busy(w) /\ slot[v].task = slot[w].task => v = w
PickedWaits   == \A w \in Slots : Busy(w) => slot[w].task \notin picked
DownIsQuiet   == mode = "down" => ~loop /\ picked = {} /\ \A w \in Slots : ~Busy(w)

\* No clock reading is later than now, and an execution is younger than the runs
\* already recorded for its task.
TimesOK ==
    /\ \A t \in Tasks : mem[t].lastRun <= now /\ db[t].lastRun <= now
    /\ \A t \in Tasks : ~db[t].stored => db[t].lastRun = 0
    /\ \A w \in Slots : /\ slot[w].start <= now
                        /\ slot[w].phase = "exec" =>
                              /\ mem[slot[w].task].lastRun <= slot[w].start
                              /\ db[slot[w].task].lastRun <= slot[w].start

IInv == TypeOK /\ RunningExact /\ SlotsDistinct /\ PickedWaits /\ DownIsQuiet
        /\ TimesOK /\ NextRunHorizon
=============================================================================
