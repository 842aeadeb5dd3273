------------------------------- MODULE MCCron -------------------------------
(* Calendars and expressions for module Cron. *)
EXTENDS Cron

\* Three years of five days: a month of three days and one of two.
PlainDay(d) == LET y == (d - 1) % 5 IN
    [month |-> IF y < 3 THEN 1 ELSE 2, dom |-> IF y < 3 THEN y + 1 ELSE y - 2,
     dow |-> d % 3, hours |-> <<0, 1, 2, 3>>]
PlainYears == [d \in 1 .. 15 |-> PlainDay(d)]

\* On the fourth day the clocks are set back: its second hour comes twice.
FallBack == [PlainYears EXCEPT ![4].hours = <<0, 1, 1, 2, 3>>]

Bits(s) == [star |-> FALSE, bits |-> s]
MCExprs ==
    {Hourly, Daily, Weekly, Monthly, Yearly, [kind |-> "every", d |-> 3],
     Macro(Bits({0}), Bits({2}), Bits({3}), Bits({2}), Star)} \cup
    [kind : {"cron"}, minute : {Star, Bits({1})}, hour : {Star, Bits({0, 2}), Bits({3})},
     dom : {Star, Bits({2, 3}), Bits({1})}, month : {Star, Bits({1}), Bits({2})},
     dow : {Star, Bits({1}), Bits({0, 2})}]
=============================================================================
