-------------------------------- MODULE Cron --------------------------------
(***************************************************************************)
(* Cron expressions (scheduler/cron.go): what a parsed expression matches   *)
(* and how cronExpr.Next searches for its next activation.  The search is  *)
(* a loop that moves `next' forward, by month, by day, by hour or by        *)
(* minute, until everything matches; each iteration is a step here.        *)
(*                                                                         *)
(* An instant is a number of minutes.  The calendar is a constant: its days *)
(* with their month, day of the month, day of the week and the local hours  *)
(* that pass in them, so that a day on which the clocks change is a day     *)
(* with an hour more or less.  It is as small as the questions allow; the   *)
(* code's 60 minutes, 24 hours, 7 weekdays and 12 months are parameters.    *)
(***************************************************************************)
EXTENDS Naturals, Sequences, FiniteSetsExt

CONSTANTS
    Minutes,    \* minutes of an hour
    Hours,      \* hours of a day on which the clocks do not change
    Months,     \* months of a year
    Weekdays,   \* days of a week
    Calendar,   \* the days: [month, dom, dow, hours], hours the local hours in order
    CronLimit,  \* how far Next looks ahead: four years
    CronExprs   \* the expressions in use

----------------------------------------------------------------------------
\* The calendar: instants and their local fields, as package time gives them.

Elapsed(day) == Minutes * Len(day.hours)
MidnightOf == [d \in 1 .. Len(Calendar) + 1 |->
                  FoldSet(LAMBDA e, sum : sum + Elapsed(Calendar[e]), 0, 1 .. d - 1)]
Horizon     == MidnightOf[Len(Calendar) + 1]
Instants    == 0 .. Horizon - 1
DayIndex    == [i \in Instants |-> CHOOSE d \in DOMAIN Calendar :
                                      MidnightOf[d] <= i /\ i < MidnightOf[d + 1]]
DayOf(i)    == Calendar[DayIndex[i]]
Midnight(i) == MidnightOf[DayIndex[i]]
Hour(i)     == DayOf(i).hours[(i - Midnight(i)) \div Minutes + 1]
Minute(i)   == (i - Midnight(i)) % Minutes

\* time.Date for an hour of the day of i: of a repeated hour it gives the first.
HourStart(i) ==
    Midnight(i) + Minutes * (Min({k \in DOMAIN DayOf(i).hours : DayOf(i).hours[k] = Hour(i)}) - 1)

----------------------------------------------------------------------------
\* fieldSet and parseField: a star, or the union of values, ranges and steps.

Fields(lo, hi) ==
    [star : {TRUE}, bits : {{}}] \cup [star : {FALSE}, bits : SUBSET (lo .. hi) \ {{}}]
Contains(f, v) == f.star \/ v \in f.bits

\* parseCron and ParseSchedule: an expression of five fields, or an interval.
FiveFields == [kind : {"cron"}, minute : Fields(0, Minutes - 1), hour : Fields(0, Hours - 1),
               dom : Fields(1, Max({day.dom : day \in {Calendar[d] : d \in DOMAIN Calendar}})),
               month : Fields(1, Months), dow : Fields(0, Weekdays - 1)]
Intervals  == [kind : {"every"}, d : 1 .. Horizon]

Star      == [star |-> TRUE, bits |-> {}]
Single(v) == [star |-> FALSE, bits |-> {v}]
Macro(minute, hour, dom, month, dow) ==
    [kind |-> "cron", minute |-> minute, hour |-> hour, dom |-> dom, month |-> month, dow |-> dow]
Hourly  == Macro(Single(0), Star, Star, Star, Star)
Daily   == Macro(Single(0), Single(0), Star, Star, Star)
Weekly  == Macro(Single(0), Single(0), Star, Star, Single(0))
Monthly == Macro(Single(0), Single(0), Single(1), Star, Star)
Yearly  == Macro(Single(0), Single(0), Single(1), Single(1), Star)

ASSUME CronAssumption ==
    /\ {Minutes, Hours, Months, Weekdays, CronLimit} \subseteq Nat \ {0}
    /\ \A e \in CronExprs : IF e.kind = "every" THEN e \in Intervals ELSE e \in FiveFields

\* Mutated form: both day fields must match.
DayMatchesBoth(e, i) == Contains(e.dom, DayOf(i).dom) /\ Contains(e.dow, DayOf(i).dow)

\* dayMatches: with both day fields restricted either of them is enough.
DayMatches(e, i) ==
    LET domOK == Contains(e.dom, DayOf(i).dom)
        dowOK == Contains(e.dow, DayOf(i).dow)
    IN  IF e.dom.star \/ e.dow.star THEN domOK /\ dowOK ELSE domOK \/ dowOK

----------------------------------------------------------------------------
\* The moves of the search.  What lies beyond the calendar is beyond the limit.

Cap(i) == Min({i, Horizon})

\* advanceToMonth: the first day of the next month that matches.
AdvanceToMonth(i, f) ==
    LET firsts == {d \in DOMAIN Calendar :
                      d > DayIndex[i] /\ Calendar[d].dom = 1 /\ Contains(f, Calendar[d].month)}
    IN  IF firsts = {} THEN Horizon ELSE MidnightOf[Min(firsts)]

\* The next local midnight.
NextMidnight(i) == MidnightOf[DayIndex[i] + 1]

\* advanceToHour: hours are added to midnight as elapsed time, not as local hours.
AdvanceToHour(i, f) ==
    LET later == {h \in Hour(i) + 1 .. Hours - 1 : Contains(f, h)}
    IN  Cap(Midnight(i) + Minutes * (IF later = {} THEN Hours ELSE Min(later)))

\* advanceToMinute.
AdvanceToMinute(i, f) ==
    LET later == {m \in Minute(i) + 1 .. Minutes - 1 : Contains(f, m)}
    IN  Cap(HourStart(i) + (IF later = {} THEN Minutes ELSE Min(later)))

----------------------------------------------------------------------------
VARIABLES
    cron,   \* the expression
    from,   \* t, the time Next is asked about
    next,   \* the candidate
    search  \* "loop", "found" or "none"

cronVars == <<cron, from, next, search>>

CronTypeOK == /\ cron \in CronExprs /\ from \in Instants /\ next \in 0 .. Horizon + from
              /\ search \in {"loop", "found", "none"}

\* The search starts at the next whole minute.
CronInit ==
    /\ cron \in CronExprs /\ from \in {i \in Instants : i + 1 + CronLimit <= Horizon}
    /\ next = from + 1 /\ search = "loop"

\* intervalSched.Next.
NextInterval ==
    /\ search = "loop" /\ cron.kind = "every"
    /\ next' = from + cron.d /\ search' = "found" /\ UNCHANGED <<cron, from>>

Looking == search = "loop" /\ cron.kind = "cron" /\ next < from + 1 + CronLimit

\* The loop of cronExpr.Next: the first field that does not match moves the
\* candidate, and when all match it is the answer.
LoopStep ==
    /\ Looking
    /\ IF ~Contains(cron.month, DayOf(next).month)
       THEN next' = AdvanceToMonth(next, cron.month) /\ UNCHANGED search
       ELSE IF ~DayMatches(cron, next)
       THEN next' = NextMidnight(next) /\ UNCHANGED search
       ELSE IF ~Contains(cron.hour, Hour(next))
       THEN next' = AdvanceToHour(next, cron.hour) /\ UNCHANGED search
       ELSE IF ~Contains(cron.minute, Minute(next))
       THEN next' = AdvanceToMinute(next, cron.minute) /\ UNCHANGED search
       ELSE search' = "found" /\ UNCHANGED next
    /\ UNCHANGED <<cron, from>>

\* Past the limit: time.Time{}.
GiveUp ==
    /\ search = "loop" /\ cron.kind = "cron" /\ next >= from + 1 + CronLimit
    /\ search' = "none" /\ UNCHANGED <<cron, from, next>>

CronNext == NextInterval \/ LoopStep \/ GiveUp
CronSpec == CronInit /\ [][CronNext]_cronVars /\ WF_cronVars(CronNext)

----------------------------------------------------------------------------
\* What an expression means, minute by minute: the fields that are not stars
\* allow the minute, where of the two day fields one is enough.
Matches(e, i) ==
    LET restricted == {f \in {"dom", "dow"} : ~e[f].star} IN
        /\ e.month.star \/ DayOf(i).month \in e.month.bits
        /\ restricted = {} \/ \E f \in restricted : DayOf(i)[f] \in e[f].bits
        /\ e.hour.star \/ Hour(i) \in e.hour.bits
        /\ e.minute.star \/ Minute(i) \in e.minute.bits

\* cronExpr.Next skips whole months, days and hours, but never past a minute that
\* matches: its answer is the first matching minute after t, and it answers
\* nothing only if none of the coming four years matches.
NextIsFirst ==
    cron.kind = "cron" =>
        LET coming == {i \in from + 1 .. from + CronLimit : Matches(cron, i)} IN
            /\ search = "found" => next = Min(coming \cup {next}) /\ Matches(cron, next)
            /\ search = "none" => coming = {}

\* The search ends, whatever the expression and the calendar: the limit of four
\* years is there so that the scheduler, which calls Next with its lock held, is
\* never stuck in it.
NextReturns == <>(search # "loop")

\* What the scheduler expects of Next: the first matching minute, and an answer.
CronSound == [](CronTypeOK /\ NextIsFirst) /\ NextReturns

=============================================================================
