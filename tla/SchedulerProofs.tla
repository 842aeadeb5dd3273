--------------------------- MODULE SchedulerProofs ---------------------------
(* Safety of the task scheduler, proved for any tasks, schedules and bounds.  *)
EXTENDS Scheduler, FiniteSetTheorems, TLAPS

LEMMA SomeTaskIsTask == SomeTask \in Tasks
  BY SchedulerTasks DEF SomeTask

\* What a free slot, a fresh task and the next activation look like.
LEMMA FreeType == MaxTime \in Nat /\ Free \in [task : Tasks, phase : Phases, start : 0 .. MaxTime]
  BY SomeTaskIsTask, SchedulerNumbers DEF Free, Phases

LEMMA RegisterType == \A t \in Tasks : Register(t) \in Entry
  BY DEF Register, Entry, Statuses

LEMMA NextActivation ==
  \A t \in Tasks : \A x, y \in Nat :
     x <= y /\ y <= MaxTime =>
        ScheduleNext(t, x) \in Nat /\ ScheduleNext(t, x) <= y + MaxDelay
  <1> SUFFICES ASSUME NEW t \in Tasks, NEW x \in Nat, NEW y \in Nat, x <= y, y <= MaxTime
               PROVE  ScheduleNext(t, x) \in Nat /\ ScheduleNext(t, x) <= y + MaxDelay
    OBVIOUS
  <1>1. x \in 0 .. MaxTime
    BY SchedulerNumbers
  <1>2. /\ ScheduleNext(t, x) \in Nat
        /\ ScheduleNext(t, x) <= x + MaxGap
    BY <1>1, ScheduleAdvances
  <1> QED
    BY <1>2, SchedulerNumbers, BackoffGrows

LEMMA BackoffType ==
  \A a \in Nat : a < RetryMax => Backoff(a) \in Nat /\ Backoff(a) <= MaxDelay
  <1> SUFFICES ASSUME NEW a \in Nat, a < RetryMax
               PROVE  Backoff(a) \in Nat /\ Backoff(a) <= MaxDelay
    OBVIOUS
  <1>1. a \in 0 .. RetryMax - 1
    BY SchedulerNumbers
  <1> QED
    BY <1>1, BackoffGrows

\* A row written by the upsert or by UpdateTaskRun is a row.
LEMMA UpsertType ==
  \A d \in TaskRow : \A e \in Entry :
     /\ Upsert(d, e) \in TaskRow /\ Upsert(d, e).stored
     /\ (d.stored \/ d.lastRun = 0) => d.lastRun <= Upsert(d, e).lastRun
     /\ Upsert(d, e).lastRun \in {d.lastRun, e.lastRun}
  <1> SUFFICES ASSUME NEW d \in TaskRow, NEW e \in Entry
               PROVE  /\ Upsert(d, e) \in TaskRow /\ Upsert(d, e).stored
                      /\ (d.stored \/ d.lastRun = 0) => d.lastRun <= Upsert(d, e).lastRun
                      /\ Upsert(d, e).lastRun \in {d.lastRun, e.lastRun}
    OBVIOUS
  <1>1. CASE ~d.stored
    BY <1>1 DEF Upsert, TaskRow, Entry
  <1>2. CASE d.stored
    <2> DEFINE run  == IF d.lastRun # 0 THEN d.lastRun ELSE e.lastRun
               next == IF d.nextRun # 0 THEN d.nextRun ELSE e.nextRun
    <2>1. run \in Nat /\ next \in Nat /\ d.lastRun <= run /\ run \in {d.lastRun, e.lastRun}
      BY DEF TaskRow, Entry
    <2>2. e.enabled \in BOOLEAN
      BY DEF Entry
    <2>3. Upsert(d, e) = [d EXCEPT !.lastRun = run, !.nextRun = next, !.enabled = e.enabled]
      BY <1>2 DEF Upsert
    <2> HIDE DEF run, next
    <2> QED
      BY <1>2, <2>1, <2>2, <2>3 DEF TaskRow
  <1> QED
    BY <1>1, <1>2

LEMMA UpdateType ==
  \A d \in TaskRow : \A e \in Entry :
     /\ UpdateTaskRun(d, e) \in TaskRow /\ UpdateTaskRun(d, e).stored = d.stored
     /\ UpdateTaskRun(d, e).lastRun \in {d.lastRun, e.lastRun}
     /\ d.lastRun <= e.lastRun => d.lastRun <= UpdateTaskRun(d, e).lastRun
     /\ ~d.stored => UpdateTaskRun(d, e).lastRun = d.lastRun
  <1> SUFFICES ASSUME NEW d \in TaskRow, NEW e \in Entry
               PROVE  /\ UpdateTaskRun(d, e) \in TaskRow
                      /\ UpdateTaskRun(d, e).stored = d.stored
                      /\ UpdateTaskRun(d, e).lastRun \in {d.lastRun, e.lastRun}
                      /\ d.lastRun <= e.lastRun => d.lastRun <= UpdateTaskRun(d, e).lastRun
                      /\ ~d.stored => UpdateTaskRun(d, e).lastRun = d.lastRun
    OBVIOUS
  <1>1. CASE ~d.stored
    BY <1>1 DEF UpdateTaskRun, TaskRow, Entry
  <1>2. CASE d.stored
    <2>1. e.lastRun \in Nat /\ e.nextRun \in Nat /\ e.status \in Statuses
      BY DEF Entry
    <2>2. UpdateTaskRun(d, e)
             = [d EXCEPT !.lastRun = e.lastRun, !.status = e.status, !.nextRun = e.nextRun]
      BY <1>2 DEF UpdateTaskRun
    <2> QED
      BY <1>2, <2>1, <2>2 DEF TaskRow
  <1> QED
    BY <1>1, <1>2

\* What loadState makes of a task, from whatever rows it read.
LEMMA LoadType ==
  ASSUME TypeOK, TimesOK, NEW t \in Tasks, NEW seen
  PROVE  /\ LoadState(t, seen) \in Entry
         /\ LoadState(t, seen).lastRun <= now
         /\ LoadState(t, seen).lastRun \in {0, db[t].lastRun}
         /\ LoadState(t, seen).nextRun <= now + MaxDelay
  <1>1. /\ now \in Nat /\ now <= MaxTime /\ MaxTime \in Nat /\ db[t] \in TaskRow
        /\ db[t].lastRun <= now
    BY SchedulerNumbers DEF TypeOK, TimesOK
  <1>2. Register(t) \in Entry /\ Register(t).lastRun = 0
    BY RegisterType DEF Register
  <1>3. /\ ScheduleNext(t, now) \in Nat /\ ScheduleNext(t, now) <= now + MaxDelay
        /\ ScheduleNext(t, db[t].lastRun) \in Nat
        /\ ScheduleNext(t, db[t].lastRun) <= now + MaxDelay
    BY <1>1, NextActivation DEF TaskRow
  <1>4. CASE t \in seen /\ db[t].stored
    BY <1>1, <1>2, <1>3, <1>4 DEF LoadState, Entry, TaskRow
  <1>5. CASE ~(t \in seen /\ db[t].stored)
    BY <1>1, <1>2, <1>3, <1>5 DEF LoadState, Entry, TaskRow
  <1> QED
    BY <1>4, <1>5

\* The next run of a task whose function has just returned.
LEMMA AfterType ==
  ASSUME TypeOK, NEW t \in Tasks, NEW e \in Entry
  PROVE  \A d \in {AfterSuccess(t, e), AfterFailure(t, e)} :
           /\ d \in Entry /\ d.lastRun = e.lastRun /\ d.running = e.running
           /\ d.nextRun <= now + MaxDelay
  <1>1. now \in Nat /\ now <= MaxTime /\ MaxDelay \in Nat
    BY SchedulerNumbers, BackoffGrows DEF TypeOK
  <1>2. ScheduleNext(t, now) \in Nat /\ ScheduleNext(t, now) <= now + MaxDelay
    BY <1>1, NextActivation
  <1>3. e.attempt \in Nat
    BY DEF Entry
  <1>4. e.attempt < RetryMax =>
           Backoff(e.attempt) \in Nat /\ Backoff(e.attempt) <= MaxDelay
    BY <1>3, BackoffType
  <1> DEFINE New(n, a) == [e EXCEPT !.nextRun = n, !.attempt = a]
             Good(d)   == /\ d \in Entry /\ d.lastRun = e.lastRun /\ d.running = e.running
                          /\ d.nextRun <= now + MaxDelay
  <1>5. \A n, a \in Nat : n <= now + MaxDelay => Good(New(n, a))
    BY DEF Entry
  <1>6. AfterSuccess(t, e) = New(ScheduleNext(t, now), 0)
    BY DEF AfterSuccess
  <1>7. \/ AfterFailure(t, e) = New(now + Backoff(e.attempt), e.attempt + 1) /\ e.attempt < RetryMax
        \/ AfterFailure(t, e) = New(ScheduleNext(t, now), 0)
    BY DEF AfterFailure
  <1>8. e.attempt < RetryMax => /\ now + Backoff(e.attempt) \in Nat
                                /\ now + Backoff(e.attempt) <= now + MaxDelay
                                /\ e.attempt + 1 \in Nat
    BY <1>1, <1>3, <1>4
  <1>9. 0 \in Nat
    OBVIOUS
  <1>10. Good(New(ScheduleNext(t, now), 0))
    <2> HIDE DEF New, Good
    <2> QED BY <1>2, <1>5, <1>9
  <1>11. e.attempt < RetryMax => Good(New(now + Backoff(e.attempt), e.attempt + 1))
    <2> HIDE DEF New, Good
    <2> QED BY <1>5, <1>8
  <1>12. Good(AfterSuccess(t, e)) /\ Good(AfterFailure(t, e))
    <2> HIDE DEF New, Good
    <2> QED BY <1>6, <1>7, <1>10, <1>11
  <1> QED
    BY <1>12

-----------------------------------------------------------------------------
\* The initial state satisfies the inductive invariant.
LEMMA InitInv == Init => IInv
  <1> SUFFICES ASSUME Init PROVE IInv
    OBVIOUS
  <1>1. TypeOK
    <2>1. mem \in [Tasks -> Entry] /\ slot \in [Slots -> [task : Tasks, phase : Phases, start : 0 .. MaxTime]]
      BY FreeType, RegisterType DEF Init
    <2>2. db \in [Tasks -> TaskRow] /\ now \in 1 .. MaxTime
      BY SchedulerNumbers DEF Init, TaskRow, Statuses
    <2> QED
      BY <2>1, <2>2 DEF Init, TypeOK, Modes
  <1>2. \A w \in Slots : slot[w] = Free /\ ~Busy(w) /\ slot[w].start = 0 /\ slot[w].phase # "exec"
    BY DEF Init, Busy, Free
  <1>3. RunningExact /\ SlotsDistinct /\ PickedWaits /\ DownIsQuiet
    BY <1>2 DEF Init, RunningExact, SlotsDistinct, PickedWaits, DownIsQuiet, Executing, Register
  <1>4. TimesOK /\ NextRunHorizon
    BY <1>2, BackoffGrows DEF Init, TimesOK, NextRunHorizon, Register
  <1> QED
    BY <1>1, <1>3, <1>4 DEF IInv

-----------------------------------------------------------------------------
(* What the actions that rewrite task entries and rows do to them.            *)

\* A row after an action: still a row, its last_run not earlier than before and
\* not later than now.
RowStep(t) == /\ db'[t] \in TaskRow
              /\ db[t].lastRun <= db'[t].lastRun /\ db'[t].lastRun <= now
              /\ ~db'[t].stored => db'[t].lastRun = 0

\* An entry after an action: still an entry, its times within bounds.
EntryStep(t) == /\ mem'[t] \in Entry
                /\ mem'[t].lastRun <= now /\ mem'[t].nextRun <= now + MaxDelay

Tables == mem' = [t \in Tasks |-> mem'[t]] /\ db' = [t \in Tasks |-> db'[t]]

LEMMA StartFacts ==
  ASSUME TypeOK, TimesOK, Start
  PROVE  /\ Tables /\ picked' \subseteq Tasks
         /\ \A t \in Tasks : RowStep(t) /\ EntryStep(t) /\ (mem'[t].running <=> t \in picked')
  <1>1. PICK seen \in Reached(Tasks) :
          LET loaded == [t \in Tasks |-> LoadState(t, seen)]
              missed == {t \in Tasks : Missed(loaded[t])}
          IN  /\ mem' = [t \in Tasks |-> [loaded[t] EXCEPT !.running = t \in missed]]
              /\ picked' = missed
              /\ \E kept \in Reached(Tasks) :
                   db' = [t \in Tasks |-> IF t \in kept THEN Upsert(db[t], loaded[t])
                                          ELSE db[t]]
    BY Zenon DEF Start
  <1>a. PICK kept \in Reached(Tasks) :
          db' = [t \in Tasks |-> IF t \in kept
                                 THEN Upsert(db[t], [u \in Tasks |-> LoadState(u, seen)][t])
                                 ELSE db[t]]
    BY <1>1
  <1> DEFINE missed == {t \in Tasks : Missed(LoadState(t, seen))}
  <1>2. /\ mem' = [t \in Tasks |-> [LoadState(t, seen) EXCEPT !.running = t \in missed]]
        /\ picked' = missed
        /\ db' = [t \in Tasks |-> IF t \in kept THEN Upsert(db[t], LoadState(t, seen)) ELSE db[t]]
    BY <1>1, <1>a
  <1>3. picked' \subseteq Tasks
    BY <1>2
  <1> HIDE DEF missed
  <1>4. Tables
    BY <1>2 DEF Tables
  <1>5. ASSUME NEW t \in Tasks
        PROVE  RowStep(t) /\ EntryStep(t) /\ (mem'[t].running <=> t \in picked')
    <2>1. /\ LoadState(t, seen) \in Entry
          /\ LoadState(t, seen).lastRun <= now
          /\ LoadState(t, seen).lastRun \in {0, db[t].lastRun}
          /\ LoadState(t, seen).nextRun <= now + MaxDelay
      BY LoadType
    <2>2. /\ db[t] \in TaskRow /\ db[t].lastRun \in Nat /\ db[t].lastRun <= now /\ now \in Nat
          /\ ~db[t].stored => db[t].lastRun = 0
      BY DEF TypeOK, TimesOK, TaskRow
    <2>3. db'[t] \in {Upsert(db[t], LoadState(t, seen)), db[t]}
      BY <1>2
    <2>4. RowStep(t)
      BY <2>1, <2>2, <2>3, UpsertType DEF RowStep, TaskRow
    <2>5. mem'[t] = [LoadState(t, seen) EXCEPT !.running = t \in missed]
      BY <1>2
    <2>6. EntryStep(t) /\ (mem'[t].running <=> t \in missed)
      <3>1. CASE t \in missed
        <4>1. mem'[t] = [LoadState(t, seen) EXCEPT !.running = TRUE]
          BY <2>5, <3>1
        <4> QED
          BY <2>1, <3>1, <4>1 DEF EntryStep, Entry
      <3>2. CASE t \notin missed
        <4>1. mem'[t] = [LoadState(t, seen) EXCEPT !.running = FALSE]
          <5>1. (t \in missed) = FALSE
            BY <3>2
          <5> QED
            BY <2>5, <5>1, Zenon
        <4> QED
          BY <2>1, <3>2, <4>1 DEF EntryStep, Entry
      <3> QED
        BY <3>1, <3>2
    <2> QED
      BY <1>2, <2>4, <2>6
  <1> QED
    BY <1>3, <1>4, <1>5

LEMMA FinishFacts ==
  ASSUME TypeOK, TimesOK, NEW w \in Slots, Finish(w)
  PROVE  /\ Tables /\ \A t \in Tasks : RowStep(t)
         /\ \A t \in Tasks : mem'[t].running = mem[t].running
         /\ \A t \in Tasks \ {slot[w].task} : mem'[t] = mem[t] /\ db'[t] = db[t]
         /\ EntryStep(slot[w].task)
  <1> DEFINE u == slot[w].task
             e == [mem[u] EXCEPT !.lastRun = slot[w].start]
             ok  == [e EXCEPT !.status = "success"]
             bad == [e EXCEPT !.status = "failed"]
  <1>1. PICK done \in {AfterSuccess(u, ok), AfterFailure(u, bad)} :
          /\ mem' = [mem EXCEPT ![u] = done]
          /\ Save(u, UpdateTaskRun(db[u], done))
    BY DEF Finish
  <1>2. /\ u \in Tasks /\ slot[w].start \in Nat /\ slot[w].start <= now /\ now \in Nat
        /\ db[u].lastRun <= slot[w].start
        /\ mem \in [Tasks -> Entry] /\ db \in [Tasks -> TaskRow]
    BY DEF Finish, TypeOK, TimesOK
  <1>3. /\ ok \in Entry /\ ok.lastRun = slot[w].start /\ ok.running = mem[u].running
        /\ bad \in Entry /\ bad.lastRun = slot[w].start /\ bad.running = mem[u].running
    BY <1>2 DEF Entry, Statuses
  <1>4. /\ done \in Entry /\ done.lastRun = slot[w].start /\ done.running = mem[u].running
        /\ done.nextRun <= now + MaxDelay
    <2> HIDE DEF u, ok, bad
    <2>1. CASE done = AfterSuccess(u, ok)
      BY <1>2, <1>3, <2>1, AfterType
    <2>2. CASE done = AfterFailure(u, bad)
      BY <1>2, <1>3, <2>2, AfterType
    <2> QED
      BY <1>1, <2>1, <2>2
  <1>5. /\ db' = [t \in Tasks |-> db'[t]] /\ mem' = [t \in Tasks |-> mem'[t]]
        /\ db'[u] \in {db[u], UpdateTaskRun(db[u], done)}
        /\ \A t \in Tasks \ {u} : mem'[t] = mem[t] /\ db'[t] = db[t]
        /\ mem'[u] = done
    BY <1>1, <1>2 DEF Save
  <1>6. RowStep(u)
    <2> HIDE DEF u
    <2>1. /\ db[u] \in TaskRow /\ db[u].lastRun \in Nat
          /\ ~db[u].stored => db[u].lastRun = 0
      BY <1>2 DEF TaskRow, TimesOK
    <2>2. CASE db'[u] = db[u]
      BY <1>2, <2>1, <2>2 DEF RowStep
    <2>3. CASE db'[u] = UpdateTaskRun(db[u], done)
      <3> DEFINE new == UpdateTaskRun(db[u], done)
      <3>1. /\ new \in TaskRow /\ new.stored = db[u].stored
            /\ new.lastRun \in {db[u].lastRun, done.lastRun}
            /\ db[u].lastRun <= done.lastRun => db[u].lastRun <= new.lastRun
            /\ ~db[u].stored => new.lastRun = db[u].lastRun
        BY <1>4, <2>1, UpdateType
      <3> HIDE DEF new
      <3>2. db[u].lastRun <= done.lastRun /\ done.lastRun <= now /\ db[u].lastRun <= now
        BY <1>2, <1>4, <2>1
      <3>3. db'[u] = new
        BY <2>3 DEF new
      <3> QED
        BY <2>1, <3>1, <3>2, <3>3 DEF RowStep
    <2> QED
      BY <1>5, <2>2, <2>3
  <1>7. \A t \in Tasks \ {u} : RowStep(t)
    BY <1>2, <1>5 DEF RowStep, TaskRow, TimesOK
  <1>8. EntryStep(u)
    BY <1>2, <1>4, <1>5 DEF EntryStep
  <1>9. \A t \in Tasks : mem'[t].running = mem[t].running
    BY <1>4, <1>5
  <1> QED
    BY <1>5, <1>6, <1>7, <1>8, <1>9 DEF Tables

LEMMA SetEnabledFacts ==
  ASSUME TypeOK, TimesOK, NextRunHorizon, NEW t \in Tasks, EnableTask(t) \/ DisableTask(t)
  PROVE  /\ Tables /\ \A s \in Tasks : RowStep(s) /\ EntryStep(s)
         /\ \A s \in Tasks : /\ mem'[s].running = mem[s].running
                             /\ mem'[s].lastRun = mem[s].lastRun
                             /\ db'[s].lastRun \in {db[s].lastRun, mem[s].lastRun}
         /\ UNCHANGED <<mode, loop, picked, slot, now>>
  <1>1. PICK e : /\ SetEnabled(t, e)
                 /\ e \in { [mem[t] EXCEPT !.enabled = TRUE, !.nextRun = ScheduleNext(t, now)],
                            [mem[t] EXCEPT !.enabled = FALSE] }
    BY DEF EnableTask, DisableTask
  <1>2. /\ mem \in [Tasks -> Entry] /\ db \in [Tasks -> TaskRow]
        /\ now \in Nat /\ now <= MaxTime /\ MaxDelay \in Nat
    BY SchedulerNumbers, BackoffGrows DEF TypeOK
  <1>3. ScheduleNext(t, now) \in Nat /\ ScheduleNext(t, now) <= now + MaxDelay
    BY <1>2, NextActivation
  <1>4. /\ e \in Entry /\ e.running = mem[t].running /\ e.lastRun = mem[t].lastRun
        /\ e.nextRun <= now + MaxDelay
    BY <1>1, <1>2, <1>3 DEF Entry, NextRunHorizon
  <1>5. /\ Tables
        /\ db'[t] \in {db[t], Upsert(db[t], e)} /\ mem'[t] = e
        /\ \A s \in Tasks \ {t} : mem'[s] = mem[s] /\ db'[s] = db[s]
    BY <1>1, <1>2 DEF SetEnabled, Save, Tables
  <1>6. RowStep(t) /\ db'[t].lastRun \in {db[t].lastRun, mem[t].lastRun}
    BY <1>2, <1>4, <1>5, UpsertType DEF RowStep, TaskRow, Entry, TimesOK
  <1>7. \A s \in Tasks \ {t} : RowStep(s) /\ EntryStep(s)
    BY <1>2, <1>5 DEF RowStep, EntryStep, TaskRow, Entry, TimesOK, NextRunHorizon
  <1>8. EntryStep(t)
    BY <1>2, <1>4, <1>5 DEF EntryStep, TimesOK
  <1>9. UNCHANGED <<mode, loop, picked, slot, now>>
    BY <1>1 DEF SetEnabled
  <1> QED
    BY <1>4, <1>5, <1>6, <1>7, <1>8, <1>9

LEMMA TimeoutFacts ==
  ASSUME TypeOK, TimesOK, NextRunHorizon, StopTimeout
  PROVE  /\ Tables /\ \A s \in Tasks : RowStep(s) /\ EntryStep(s)
         /\ \A s \in Tasks : /\ mem'[s].running = mem[s].running
                             /\ mem'[s].lastRun = mem[s].lastRun
                             /\ db'[s].lastRun \in {db[s].lastRun, mem[s].lastRun}
  <1> DEFINE hit(t) == [mem[t] EXCEPT !.status = "interrupted", !.nextRun = now]
             marked == {t \in Tasks : mem[t].running}
  <1>1. /\ mem \in [Tasks -> Entry] /\ db \in [Tasks -> TaskRow]
        /\ now \in Nat /\ MaxDelay \in Nat
    BY BackoffGrows DEF TypeOK
  <1>2. PICK kept \in Reached(marked) :
          /\ mem' = [t \in Tasks |-> IF t \in marked THEN hit(t) ELSE mem[t]]
          /\ db' = [t \in Tasks |-> IF t \in kept THEN Upsert(db[t], hit(t)) ELSE db[t]]
    BY DEF StopTimeout
  <1>4. \A t \in Tasks : /\ hit(t) \in Entry /\ hit(t).running = mem[t].running
                         /\ hit(t).lastRun = mem[t].lastRun /\ hit(t).nextRun = now
    BY <1>1 DEF Entry, Statuses
  <1> HIDE DEF hit, marked
  <1>5. Tables
    BY <1>2 DEF Tables
  <1>6. ASSUME NEW s \in Tasks
        PROVE  /\ RowStep(s) /\ EntryStep(s)
               /\ mem'[s].running = mem[s].running /\ mem'[s].lastRun = mem[s].lastRun
               /\ db'[s].lastRun \in {db[s].lastRun, mem[s].lastRun}
    <2>1. mem'[s] \in {mem[s], hit(s)} /\ db'[s] \in {db[s], Upsert(db[s], hit(s))}
      BY <1>2
    <2>2. RowStep(s) /\ db'[s].lastRun \in {db[s].lastRun, mem[s].lastRun}
      BY <1>1, <1>4, <2>1, UpsertType DEF RowStep, TaskRow, Entry, TimesOK
    <2>3. EntryStep(s) /\ mem'[s].running = mem[s].running /\ mem'[s].lastRun = mem[s].lastRun
      BY <1>1, <1>4, <2>1 DEF EntryStep, Entry, TimesOK, NextRunHorizon
    <2> QED
      BY <2>2, <2>3
  <1> QED
    BY <1>5, <1>6

-----------------------------------------------------------------------------
(* Every step preserves the inductive invariant, part by part.                *)

\* The actions that change neither the tables nor the slots.
Quiet == Started \/ LoopExit \/ Stop \/ StopDrained \/ Clock

\* Type correctness.
LEMMA TypeStep == ASSUME IInv, [Next]_vars PROVE TypeOK'
  <1> USE DEF IInv
  <1>1. CASE Start
    <2>1. mem' \in [Tasks -> Entry] /\ db' \in [Tasks -> TaskRow] /\ picked' \subseteq Tasks
      BY <1>1, StartFacts DEF Tables, RowStep, EntryStep
    <2> QED
      BY <1>1, <2>1 DEF Start, TypeOK, Modes
  <1>2. CASE Quiet
    <2>1. CASE Clock
      BY <2>1, SchedulerNumbers DEF Clock, TypeOK
    <2>2. CASE Started \/ LoopExit \/ Stop \/ StopDrained
      BY <2>2 DEF Started, LoopExit, Stop, StopDrained, TypeOK, Modes
    <2> QED
      BY <1>2, <2>1, <2>2 DEF Quiet
  <1>3. CASE Tick
    <2>1. PICK due \in SUBSET Tasks :
            /\ picked' = due
            /\ mem' = [t \in Tasks |-> [mem[t] EXCEPT !.running = @ \/ t \in due]]
      BY <1>3 DEF Tick
    <2>2. mem' \in [Tasks -> Entry]
      <3>0. mem \in [Tasks -> Entry]
        BY DEF TypeOK
      <3>1. \A t \in Tasks : [mem[t] EXCEPT !.running = TRUE] \in Entry /\ mem[t] \in Entry
        <4>1. \A e \in Entry : [e EXCEPT !.running = TRUE] \in Entry
          BY DEF Entry
        <4> QED
          BY <3>0, <4>1
      <3>2. ASSUME NEW t \in Tasks
            PROVE  mem'[t] \in {[mem[t] EXCEPT !.running = TRUE],
                                [mem[t] EXCEPT !.running = mem[t].running]}
        <4>1. CASE t \in due
          BY <2>1, <4>1
        <4>2. CASE t \notin due
          <5>1. mem[t].running \in BOOLEAN
            BY DEF TypeOK, Entry
          <5>2. (mem[t].running \/ t \in due) = mem[t].running
            BY <4>2, <5>1
          <5>3. mem'[t] = [mem[t] EXCEPT !.running = mem[t].running \/ t \in due]
            BY <2>1
          <5> QED
            BY <5>2, <5>3, Zenon
        <4> QED
          BY <4>1, <4>2
      <3>3. \A t \in Tasks : [mem[t] EXCEPT !.running = mem[t].running] = mem[t]
        BY DEF TypeOK, Entry
      <3> QED
        BY <2>1, <3>1, <3>2, <3>3
    <2> QED
      BY <1>3, <2>1, <2>2 DEF Tick, TypeOK
  <1>4. ASSUME NEW w \in Slots, Spawn(w) PROVE TypeOK'
    BY <1>4, SchedulerNumbers DEF Spawn, Enter, TypeOK, Phases
  <1>5. ASSUME NEW w \in Slots, Finish(w) PROVE TypeOK'
    <2>1. mem' \in [Tasks -> Entry] /\ db' \in [Tasks -> TaskRow]
      BY <1>5, FinishFacts DEF TypeOK, Tables, RowStep, EntryStep
    <2> QED
      BY <1>5, <2>1 DEF Finish, TypeOK, Phases
  <1>6. ASSUME NEW w \in Slots, Release(w) PROVE TypeOK'
    <2>1. mem' \in [Tasks -> Entry]
      BY <1>6 DEF Release, TypeOK, Entry
    <2>2. slot' \in [Slots -> [task : Tasks, phase : Phases, start : 0 .. MaxTime]]
      BY <1>6, FreeType DEF Release, TypeOK
    <2> QED
      BY <1>6, <2>1, <2>2 DEF Release, TypeOK
  <1>7. ASSUME NEW w \in Slots, RunNow(w) PROVE TypeOK'
    <2>1. PICK t \in Tasks : Enter(w, t) /\ mem' = [mem EXCEPT ![t].running = TRUE]
      BY <1>7 DEF RunNow
    <2>2. mem' \in [Tasks -> Entry]
      BY <2>1 DEF TypeOK, Entry
    <2>3. slot' \in [Slots -> [task : Tasks, phase : Phases, start : 0 .. MaxTime]]
      BY <2>1, SchedulerNumbers DEF Enter, TypeOK, Phases
    <2> QED
      BY <1>7, <2>2, <2>3 DEF RunNow, TypeOK
  <1>8. ASSUME NEW t \in Tasks, EnableTask(t) \/ DisableTask(t) PROVE TypeOK'
    <2>1. mem' \in [Tasks -> Entry] /\ db' \in [Tasks -> TaskRow]
      BY <1>8, SetEnabledFacts DEF Tables, RowStep, EntryStep
    <2> QED
      BY <1>8, <2>1, SetEnabledFacts DEF TypeOK
  <1>9. CASE StopTimeout
    <2>1. mem' \in [Tasks -> Entry] /\ db' \in [Tasks -> TaskRow]
      BY <1>9, TimeoutFacts DEF Tables, RowStep, EntryStep
    <2> QED
      BY <1>9, <2>1 DEF StopTimeout, TypeOK, Modes
  <1>10. CASE Exit \/ Crash
    <2>1. /\ slot' \in [Slots -> [task : Tasks, phase : Phases, start : 0 .. MaxTime]]
          /\ mem' \in [Tasks -> Entry]
      BY <1>10, FreeType, RegisterType DEF Exit, Crash, ProcessEnds
    <2> QED
      BY <1>10, <2>1 DEF Exit, Crash, ProcessEnds, TypeOK, Modes
  <1>11. CASE UNCHANGED vars
    BY <1>11 DEF vars, TypeOK
  <1> QED
    BY <1>1, <1>2, <1>3, <1>4, <1>5, <1>6, <1>7, <1>8, <1>9, <1>10, <1>11 DEF Next, Quiet

\* The running flags, the picked tasks and the slots agree.
Control == RunningExact /\ SlotsDistinct /\ PickedWaits /\ DownIsQuiet

LEMMA ControlFrame ==
  ASSUME Control, UNCHANGED <<picked, slot>>, mode' # "down" \/ (UNCHANGED mode /\ (loop' => loop)),
         \A t \in Tasks : mem'[t].running <=> mem[t].running
  PROVE  Control'
  BY DEF Control, RunningExact, SlotsDistinct, PickedWaits, DownIsQuiet, Executing, Busy

LEMMA ControlStep == ASSUME IInv, [Next]_vars PROVE Control'
  <1> USE DEF IInv
  <1>a. Control
    BY DEF Control
  <1>b. mem \in [Tasks -> Entry] /\ slot \in [Slots -> [task : Tasks, phase : Phases, start : 0 .. MaxTime]]
    BY DEF TypeOK
  <1>1. CASE Start
    BY <1>1, StartFacts
       DEF Start, Control, RunningExact, SlotsDistinct, PickedWaits, DownIsQuiet, Executing, Busy
  <1>2. CASE Quiet
    BY <1>a, <1>2, ControlFrame DEF Quiet, Started, LoopExit, Stop, StopDrained, Clock
  <1>3. CASE Tick
    <2>1. PICK due \in SUBSET Tasks :
            /\ \A t \in due : ~mem[t].running
            /\ picked' = due
            /\ mem' = [t \in Tasks |-> [mem[t] EXCEPT !.running = @ \/ t \in due]]
      BY <1>3 DEF Tick, Due
    <2>2. \A t \in Tasks : mem'[t].running <=> (mem[t].running \/ t \in due)
      BY <1>b, <2>1 DEF Entry
    <2>3. picked = {} /\ UNCHANGED <<mode, slot>> /\ mode # "down"
      BY <1>3 DEF Tick, DownIsQuiet
    <2> QED
      BY <2>1, <2>2, <2>3
         DEF Control, RunningExact, SlotsDistinct, PickedWaits, DownIsQuiet, Executing, Busy
  <1>4. ASSUME NEW w \in Slots, Spawn(w) PROVE Control'
    BY <1>4, <1>b DEF Spawn, Enter, Control, RunningExact, SlotsDistinct, PickedWaits, DownIsQuiet, Executing, Busy
  <1>5. ASSUME NEW w \in Slots, Finish(w) PROVE Control'
    <2>1. \A t \in Tasks : mem'[t].running = mem[t].running
      BY <1>5, FinishFacts
    <2>2. /\ \A v \in Slots : slot'[v].task = slot[v].task /\ (slot'[v].phase # "free" <=> slot[v].phase # "free")
          /\ UNCHANGED <<mode, loop, picked>>
      BY <1>5, <1>b DEF Finish
    <2> QED
      BY <2>1, <2>2
       DEF Control, RunningExact, SlotsDistinct, PickedWaits, DownIsQuiet, Executing, Busy
  <1>6. ASSUME NEW w \in Slots, Release(w) PROVE Control'
    BY <1>6, <1>b DEF Release, Free, Control, RunningExact, SlotsDistinct, PickedWaits,
                     DownIsQuiet, Executing, Busy, Entry
  <1>7. ASSUME NEW w \in Slots, RunNow(w) PROVE Control'
    BY <1>7, <1>b DEF RunNow, Enter, Control, RunningExact, SlotsDistinct, PickedWaits,
                     DownIsQuiet, Executing, Busy, Entry
  <1>8. ASSUME NEW t \in Tasks, EnableTask(t) \/ DisableTask(t) PROVE Control'
    BY <1>8, <1>a, SetEnabledFacts, ControlFrame
  <1>9. CASE StopTimeout
    BY <1>9, <1>a, TimeoutFacts, ControlFrame DEF StopTimeout
  <1>10. CASE Exit \/ Crash
    BY <1>10 DEF Exit, Crash, ProcessEnds, Free, Register, Control, RunningExact, SlotsDistinct,
                 PickedWaits, DownIsQuiet, Executing, Busy
  <1>11. CASE UNCHANGED vars
    BY <1>11, <1>a, ControlFrame DEF vars
  <1> QED
    BY <1>1, <1>2, <1>3, <1>4, <1>5, <1>6, <1>7, <1>8, <1>9, <1>10, <1>11 DEF Next, Quiet

\* Clock readings stay ordered, and no next run moves beyond the horizon.
LEMMA TimesStep == ASSUME IInv, [Next]_vars PROVE TimesOK' /\ NextRunHorizon'
  <1> USE DEF IInv
  <1>a. /\ mem \in [Tasks -> Entry] /\ db \in [Tasks -> TaskRow] /\ now \in Nat /\ MaxDelay \in Nat
        /\ slot \in [Slots -> [task : Tasks, phase : Phases, start : 0 .. MaxTime]]
        /\ MaxTime \in Nat
    BY BackoffGrows, SchedulerNumbers DEF TypeOK
  <1>1. CASE Start
    <2>1. \A w \in Slots : slot'[w].start <= now' /\ slot'[w].phase # "exec"
      BY <1>1 DEF Start, DownIsQuiet, Busy, TimesOK
    <2>2. \A t \in Tasks : RowStep(t) /\ EntryStep(t)
      BY <1>1, StartFacts
    <2> QED
      BY <1>1, <2>1, <2>2 DEF Start, TimesOK, NextRunHorizon, RowStep, EntryStep
  <1>2. CASE Quiet
    <2>1. UNCHANGED <<mem, db, slot>> /\ now' \in Nat /\ now <= now'
      BY <1>2, <1>a DEF Quiet, Started, LoopExit, Stop, StopDrained, Clock
    <2> QED
      BY <2>1, <1>a DEF TimesOK, NextRunHorizon, Entry, TaskRow
  <1>3. CASE Tick
    <2>1. /\ UNCHANGED <<db, slot, now>>
          /\ \A t \in Tasks : mem'[t].lastRun = mem[t].lastRun /\ mem'[t].nextRun = mem[t].nextRun
      BY <1>3, <1>a DEF Tick, Entry
    <2> QED
      BY <2>1, <1>a DEF TimesOK, NextRunHorizon
  <1>4. ASSUME NEW w \in Slots, Spawn(w) \/ RunNow(w) PROVE TimesOK' /\ NextRunHorizon'
    <2>1. /\ UNCHANGED <<db, now>> /\ \E t \in Tasks : Enter(w, t)
          /\ \A t \in Tasks : mem'[t].lastRun = mem[t].lastRun /\ mem'[t].nextRun = mem[t].nextRun
      <3>1. CASE Spawn(w)
        BY <3>1 DEF Spawn, TypeOK
      <3>2. CASE RunNow(w)
        <4>1. PICK t \in Tasks : Enter(w, t) /\ mem' = [mem EXCEPT ![t].running = TRUE]
          BY <3>2 DEF RunNow
        <4> QED
          BY <1>a, <3>2, <4>1 DEF RunNow, Entry
      <3> QED
        BY <1>4, <3>1, <3>2
    <2> QED
      BY <2>1, <1>a DEF Enter, TimesOK, NextRunHorizon
  <1>5. ASSUME NEW w \in Slots, Finish(w) PROVE TimesOK' /\ NextRunHorizon'
    <2>1. \A t \in Tasks : RowStep(t) /\ EntryStep(t)
      BY <1>5, <1>a, FinishFacts DEF EntryStep, TimesOK, NextRunHorizon
    <2>2. /\ UNCHANGED now
          /\ \A v \in Slots : /\ slot'[v].start = slot[v].start
                              /\ slot'[v].task = slot[v].task
                              /\ slot'[v].phase = "exec" =>
                                   slot[v].phase = "exec" /\ slot[v].task # slot[w].task
      BY <1>5, <1>a DEF Finish, SlotsDistinct, Busy
    <2>3. \A t \in Tasks \ {slot[w].task} : mem'[t] = mem[t] /\ db'[t] = db[t]
      BY <1>5, FinishFacts
    <2> QED
      BY <1>a, <2>1, <2>2, <2>3 DEF TimesOK, NextRunHorizon, RowStep, EntryStep
  <1>6. ASSUME NEW w \in Slots, Release(w) PROVE TimesOK' /\ NextRunHorizon'
    <2>1. /\ UNCHANGED <<db, now>>
          /\ \A t \in Tasks : mem'[t].lastRun = mem[t].lastRun /\ mem'[t].nextRun = mem[t].nextRun
          /\ \A v \in Slots : slot'[v] = slot[v] \/ (slot'[v].start = 0 /\ slot'[v].phase = "free")
      BY <1>6, <1>a DEF Release, Entry, Free
    <2> QED
      BY <2>1, <1>a DEF TimesOK, NextRunHorizon
  <1>7. CASE StopTimeout \/ \E t \in Tasks : EnableTask(t) \/ DisableTask(t)
    <2>1. /\ UNCHANGED <<slot, now>>
          /\ \A t \in Tasks : RowStep(t) /\ EntryStep(t)
          /\ \A t \in Tasks : mem'[t].lastRun = mem[t].lastRun
                              /\ db'[t].lastRun \in {db[t].lastRun, mem[t].lastRun}
      BY <1>7, TimeoutFacts, SetEnabledFacts DEF StopTimeout
    <2> QED
      BY <2>1, <1>a DEF TimesOK, NextRunHorizon, RowStep, EntryStep
  <1>8. CASE Exit \/ Crash
    BY <1>8, <1>a DEF Exit, Crash, ProcessEnds, Free, Register, TimesOK, NextRunHorizon
  <1>9. CASE UNCHANGED vars
    BY <1>9 DEF vars, TimesOK, NextRunHorizon
  <1> QED
    BY <1>1, <1>2, <1>3, <1>4, <1>5, <1>6, <1>7, <1>8, <1>9 DEF Next, Quiet

\* No step moves a recorded last_run back.
LEMMA LastRunStep ==
  ASSUME IInv, [Next]_vars
  PROVE  \A t \in Tasks : db[t].lastRun <= db'[t].lastRun
  <1> USE DEF IInv
  <1>1. \A t \in Tasks : db[t].lastRun \in Nat
    BY DEF TypeOK, TaskRow
  <1>2. CASE Start
    BY <1>2, StartFacts DEF RowStep
  <1>3. ASSUME NEW w \in Slots, Finish(w) PROVE \A t \in Tasks : RowStep(t)
    BY <1>3, FinishFacts
  <1>4. CASE StopTimeout \/ \E t \in Tasks : EnableTask(t) \/ DisableTask(t)
    BY <1>4, TimeoutFacts, SetEnabledFacts DEF RowStep
  <1>5. CASE UNCHANGED db
    BY <1>1, <1>5
  <1>6. Start \/ (\E w \in Slots : Finish(w)) \/ StopTimeout
        \/ (\E t \in Tasks : EnableTask(t) \/ DisableTask(t)) \/ UNCHANGED db
    BY DEF Next, Started, Tick, LoopExit, Spawn, Release, RunNow, Stop, StopDrained, Exit, Crash,
           ProcessEnds, Clock, vars
  <1> QED
    BY <1>2, <1>3, <1>4, <1>5, <1>6 DEF RowStep

-----------------------------------------------------------------------------
(* The theorems.                                                              *)

\* The inductive invariant holds in every reachable state.
THEOREM Invariance == Spec => []IInv
  <1>1. IInv /\ [Next]_vars => IInv'
    BY TypeStep, ControlStep, TimesStep DEF IInv, Control
  <1> QED
    BY <1>1, InitInv, PTL DEF Spec

\* Type correctness of the task table, its rows and the goroutines (scheduler.go).
THEOREM TypeCorrect == Spec => []TypeOK
  BY Invariance, PTL DEF IInv

\* The scheduler never runs one task twice at a time, for any number of goroutines,
\* any schedules, any API calls, crashes and failing database calls.
THEOREM NeverOverlaps == Spec => []NoOverlap
  <1>1. IInv => NoOverlap
    <2> SUFFICES ASSUME IInv, NEW t \in Tasks PROVE Cardinality(Executing(t)) <= 1
      BY DEF NoOverlap
    <2>1. \A v, w \in Executing(t) : v = w
      BY DEF IInv, SlotsDistinct, Executing
    <2>2. CASE Executing(t) = {}
      BY <2>2, FS_EmptySet
    <2>3. CASE Executing(t) # {}
      <3>1. PICK w : Executing(t) = {w}
        BY <2>1, <2>3
      <3>2. Cardinality({w}) = 1
        BY FS_Singleton, Zenon
      <3> QED
        BY <3>1, <3>2
    <2> QED
      BY <2>2, <2>3
  <1> QED
    BY <1>1, Invariance, PTL

\* A running flag is never left over: it is set exactly for the tasks being started
\* or executed, so RunNow and tick refuse a task only while it really runs.
THEOREM FlagIsExact == Spec => []RunningExact
  BY Invariance, PTL DEF IInv

\* Whatever fails and however often, a task's next run stays within one schedule gap
\* or the longest backoff.
THEOREM HorizonBounded == Spec => []NextRunHorizon
  BY Invariance, PTL DEF IInv

\* The database never forgets a completed run.
THEOREM LastRunNeverLost == Spec => LastRunKept
  <1>1. IInv /\ [Next]_vars => [\A t \in Tasks : db[t].lastRun <= db'[t].lastRun]_vars
    BY LastRunStep
  <1> QED
    BY <1>1, Invariance, PTL DEF Spec, LastRunKept
=============================================================================
