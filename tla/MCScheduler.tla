----------------------------- MODULE MCScheduler -----------------------------
(* Schedules for small instances of the scheduler: one task fires at every    *)
(* even time (a cron expression), the others an interval after the last run.  *)
EXTENDS Scheduler, TLC

CONSTANT CronTask

MCScheduleNext(t, x) == IF t = CronTask THEN 2 * (x \div 2 + 1) ELSE x + 1
=============================================================================
