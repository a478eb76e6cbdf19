----------------------------- MODULE RecurringStreams -----------------------------
(***************************************************************************)
(* Recurring streams of resolved events (recurrence/cadence.py): events of  *)
(* one category, direction and description, or, where spending varies, of   *)
(* one category; how regular each is; and when it is next due.              *)
(***************************************************************************)
EXTENDS CashForecast

Streamed(R) ==
  {e \in R : CashType(e) \in {"IMMEDIATE_DEBIT", "SETTLED_INCOME", "FUTURE_DEBIT", "CONFIRMED_INCOME"}}

KeyOf(e) ==
  IF e.category \in VariableCategories THEN <<e.category, e.direction>>
  ELSE <<e.category, e.direction, e.words>>

Groups(R) == {{e \in Streamed(R) : KeyOf(e) = k} : k \in {KeyOf(e) : e \in Streamed(R)}}

\* The members of a group that have happened, as far as it knows.
Happened(G, t) ==
  {e \in G : CashType(e) \in {"IMMEDIATE_DEBIT", "SETTLED_INCOME"} /\ e.date <= t}

\* Twice the median of a list (statistics.median, _median_decimal).
TwiceMedian(S) ==
  LET n == Cardinality(S)
  IN  IF n % 2 = 1 THEN 2 * AtRank(S, n \div 2) ELSE AtRank(S, n \div 2 - 1) + AtRank(S, n \div 2)

\* The intervals between consecutive events.
Intervals(S) ==
  {[id |-> e.id, amount |-> e.date - LastOf({f \in S : Later(e, f)}).date] : e \in S \ {FirstOf(S)}}

\* statistics.stdev(intervals) <= s, with no interval less than 0.
DeviatesBy(S, s) ==
  LET n == Gaps(S)
      squares == MapThenSumSet(LAMBDA x : x.amount * x.amount, Intervals(S))
  IN  n * squares - Span(S) * Span(S) <= s * s * n * (n - 1)

\* RecurrenceClass of a group with a description of its own
Regularity(S) ==
  CASE Cardinality(S) >= 4 /\ DeviatesBy(S, 5) -> "confirmed_recurring"
    [] Cardinality(S) >= 3 /\ DeviatesBy(S, 10)
         /\ ~(Cardinality(S) >= 4 /\ DeviatesBy(S, 5)) -> "strong_recurring"
    [] Cardinality(S) = 1 -> "one_time"
    [] S = {} -> "none"
    [] OTHER -> "variable_pattern"

NoDay == 0

\* Trimming a list by as much at both ends leaves its median where it was.
FixedStream(G, t) ==
  LET S == Happened(G, t)
      often == Cardinality(OnDay(S, TypicalDay(S)))
      floor == IF Cardinality(S) \div 2 > 2 THEN Cardinality(S) \div 2 ELSE 2
      positive == {e \in S : e.amount > 0}
  IN  [key |-> KeyOf(LastOf(G)), class |-> Regularity(S), last |-> LastOf(G).date,
       gap |-> IF Cardinality(S) >= 2 THEN <<TwiceMedian(Intervals(S)), 2>> ELSE <<0, 1>>,
       day |-> IF Cardinality(S) >= 2 /\ often >= floor THEN TypicalDay(S) ELSE NoDay,
       twiceTypical |-> IF positive = {} THEN 0 ELSE TwiceMedian(positive)]

AtLeast(a, b) == IF a >= b THEN a ELSE b

\* Spending that varies: by the week, over the time it was seen.
VariableStream(G, t) ==
  LET S == Happened(G, t)
      n == Cardinality(S)
      seen == AtLeast(1, t - FirstOf(S).date)
      total == Total({e \in S : e.amount > 0})
  IN  [key |-> KeyOf(LastOf(G)), last |-> LastOf(G).date,
       class |-> CASE n >= 6 /\ seen >= 60 -> "confirmed_recurring"
                   [] n >= 3 /\ seen >= 30 /\ ~(n >= 6 /\ seen >= 60) -> "strong_recurring"
                   [] n = 1 -> "one_time"
                   [] OTHER -> "variable_pattern",
       gap |-> <<seen, n>>, day |-> NoDay,
       twiceTypical |-> 2 * Rounded(7 * total, AtLeast(7, seen))]

\* infer_recurring_streams
StreamsOf(R, t) ==
  {FixedStream(G, t) : G \in {x \in Groups(R) : LastOf(x).category \notin VariableCategories}}
    \union
  {VariableStream(G, t) : G \in {x \in Groups(R) : /\ LastOf(x).category \in VariableCategories
                                                   /\ Happened(x, t) # {}}}

\* Mutant: also what is monthly is counted in days.
NextDates_Days(s, t) ==
  LET gap == Rounded(s.gap[1], s.gap[2])
  IN  IF s.class \in {"one_time", "none"} \/ gap <= 0 THEN {} ELSE Ahead(Every(gap, s.last, t), t)

\* project_next_occurrences, from tomorrow to the end of the horizon; the
\* cadence is gap[1] / gap[2] days.
NextDates(s, t) ==
  LET gap == Rounded(s.gap[1], s.gap[2])
  IN  IF s.class \in {"one_time", "none"} \/ gap <= 0 THEN {}
      ELSE Ahead(IF s.day # NoDay /\ 25 * s.gap[2] <= s.gap[1] /\ s.gap[1] <= 35 * s.gap[2]
                 THEN MonthlyFrom(MonthOf[s.last] + 1, s.day) ELSE Every(gap, s.last, t), t)
=============================================================================
