----------------------------- MODULE CalendarDays -----------------------------
(***************************************************************************)
(* Dates, as the forecast uses them: days count from the first of a first   *)
(* month, and a day of the month that a shorter month does not have is its  *)
(* last one.  (Python's datetime and calendar modules.)                     *)
(***************************************************************************)
EXTENDS Integers, Sequences

CONSTANT MonthLength  \* the lengths of consecutive months

ASSUME MonthLengthAssumption ==
  MonthLength \in Seq(28..31) /\ Len(MonthLength) >= 1

Months == DOMAIN MonthLength

\* The day before a month begins.
Eve[m \in Months] == IF m = 1 THEN 0 ELSE Eve[m - 1] + MonthLength[m - 1]

Date == 1..(Eve[Len(MonthLength)] + MonthLength[Len(MonthLength)])

MonthOf == [d \in Date |-> CHOOSE m \in Months : Eve[m] < d /\ d <= Eve[m] + MonthLength[m]]

\* date.day
DayOf(d) == d - Eve[MonthOf[d]]

\* date(year, month, min(dom, monthrange(year, month)[1]))
DateIn(m, dom) == Eve[m] + (IF dom <= MonthLength[m] THEN dom ELSE MonthLength[m])
=============================================================================
