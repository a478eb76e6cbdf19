------------------------------ MODULE CashForecast ------------------------------
(***************************************************************************)
(* What the engine expects of a user's next ninety days (state/builder.py): *)
(* what is scheduled, bills that come back every month, a daily burn for    *)
(* the rest, and the salary.                                                *)
(*                                                                          *)
(* History is a set of resolved events; amounts are in units so small that  *)
(* half a sum is whole.  A burn stands for its items, one a day.          *)
(***************************************************************************)
EXTENDS CalendarDays, CashHistory, FiniteSetsExt

CONSTANTS
  FixedCategories, VariableCategories  \* FIXED_CATEGORIES, VARIABLE_CATEGORIES

ASSUME KindsAssumption ==
  /\ FixedCategories \union VariableCategories \subseteq Categories
  /\ FixedCategories \intersect VariableCategories = {}
  /\ "salary" \notin FixedCategories \union VariableCategories
  /\ IsFiniteSet(FixedCategories) /\ IsFiniteSet(VariableCategories)

Horizon == 90
Lookback == 90
Window == 6

\* What an event is worth in a salary's history (no commission, bonus, ...).
Irregular == {"bonus"}
Ending == {"final"}     \* SALARY_TERMINATION_KEYWORDS

-----------------------------------------------------------------------------
(* Series of events in the order of their dates *)

\* The amounts of a set, added up.
Total(S) == SumFunction([x \in S |-> x.amount])

Later(e, f) == e.date > f.date \/ (e.date = f.date /\ e.id > f.id)
LastOf(S) == CHOOSE e \in S : \A f \in S : ~Later(f, e)
FirstOf(S) == CHOOSE e \in S : \A f \in S : ~Later(e, f)

\* max(S, key=date): of several on the latest day, the first.
Latest(S) == FirstOf({e \in S : \A f \in S : f.date <= e.date})

\* The last n of a sorted list.
Recent(S, n) == {e \in S : Cardinality({f \in S : Later(f, e)}) < n}

\* sorted(amounts)[k]
AtRank(S, k) ==
  CHOOSE a \in {e.amount : e \in S} :
    /\ Cardinality({e \in S : e.amount < a}) <= k
    /\ k < Cardinality({e \in S : e.amount <= a})

UpperMedian(S) == AtRank(S, Cardinality(S) \div 2)

\* The intervals between n events add up to the time from the first to the last.
Gaps(S) == Cardinality(S) - 1
Span(S) == Max({e.date : e \in S}) - Min({e.date : e \in S})
MeanGapIn(S, low, high) == low * Gaps(S) <= Span(S) /\ Span(S) <= high * Gaps(S)
MeanGap(S) == Rounded(Span(S), Gaps(S))

OnDay(S, dom) == {e \in S : DayOf(e.date) = dom}

\* The most frequent day of the month; of several, the one seen first.
TypicalDay(S) ==
  LET most == {e \in S : \A f \in S : Cardinality(OnDay(S, DayOf(f.date))) <= Cardinality(OnDay(S, DayOf(e.date)))}
  IN  DayOf(FirstOf(most).date)

MonthlyFrom(m, dom) == {DateIn(x, dom) : x \in {y \in Months : y >= m}}
Every(step, last, t) == {d \in (last + 1)..(t + Horizon) : (d - last) % step = 0}
Ahead(dates, t) == {d \in dates : t < d /\ d <= t + Horizon}

-----------------------------------------------------------------------------
(* Projections of resolved events R on day t *)

\* ScheduledItem; change is the event a spending change would name.
Item(e, d, amount) ==
  [date |-> d, amount |-> amount, category |-> e.category, flexibility |-> e.flexibility,
   least |-> e.least, change |-> e.id]

Scheduled(R, t, type) ==
  {Item(e, e.date, e.amount) : e \in {x \in R : CashType(x) = type /\ t < x.date /\ x.date <= t + Horizon}}

Paid(R, c, t) ==
  {e \in R : /\ e.category = c /\ CashType(e) = "IMMEDIATE_DEBIT"
             /\ e.status = "settled" /\ e.date <= t}

\* Mutant: not in the month of the request.
FixedItems_NextMonth(R, c, t) ==
  LET w == Recent(Paid(R, c, t), Window)
  IN  IF Cardinality(w) < 2 \/ ~MeanGapIn(w, 20, 40) THEN {}
      ELSE {Item(LastOf(w), d, UpperMedian(w)) : d \in Ahead(MonthlyFrom(MonthOf[t] + 1, TypicalDay(w)), t)}

\* _project_fixed_category
FixedItems(R, c, t) ==
  LET w == Recent(Paid(R, c, t), Window)
  IN  IF Cardinality(w) < 2 \/ ~MeanGapIn(w, 20, 40) THEN {}
      ELSE {Item(LastOf(w), d, UpperMedian(w)) : d \in Ahead(MonthlyFrom(MonthOf[t], TypicalDay(w)), t)}

\* _project_variable_category: what the last ninety days cost, spread over the
\* next; each item is total / over.  (Nobody asks for weekly items.)
Burn(R, c, t) ==
  LET w == {e \in Paid(R, c, t) : t - Lookback <= e.date}
      total == Total(w)
  IN  IF total = 0 THEN {}
      ELSE {[item |-> Item(LastOf(w), t, total), over |-> Lookback,
             dates |-> (t + 1)..(t + Horizon)]}

\* Salaries received or announced, whatever their date.
Salaries(R) ==
  {e \in R : /\ e.category = "salary" /\ CashType(e) \in {"CONFIRMED_INCOME", "SETTLED_INCOME"}
             /\ e.amount > 0 /\ e.words \notin Irregular}

Announced(S) == {e \in S : CashType(e) = "CONFIRMED_INCOME"}

TypicalSalary(S) ==
  IF Announced(S) # {} THEN Latest(Announced(S)).amount ELSE UpperMedian(Recent(S, Window))

\* is_monthly, of the recent salaries
PaidMonthly(w) ==
  LET often == Cardinality(OnDay(w, TypicalDay(w)))
  IN  MeanGapIn(w, 25, 35) \/ (often >= 2 /\ 2 * often >= Cardinality(w))

\* Salaries that come every few days, but round to none, are never projected to
\* an end: the loop of _project_salary stays on one date within the horizon.
Endless(R, t) ==
  LET S == Salaries(R)  w == Recent(S, Window)
  IN  /\ Cardinality(S) >= 2 /\ LastOf(S).words \notin Ending
      /\ Span(w) > 0 /\ ~PaidMonthly(w) /\ MeanGap(w) = 0
      /\ LastOf(S).date <= t + Horizon

\* _project_salary
SalaryItems(R, t) ==
  LET S == Salaries(R)
      w == Recent(S, Window)
      last == LastOf(S)
      dates == IF PaidMonthly(w) THEN MonthlyFrom(MonthOf[last.date] + 1, TypicalDay(w))
               ELSE Every(MeanGap(w), last.date, t)
  IN  IF Cardinality(S) < 2 \/ last.words \in Ending \/ Span(w) <= 0 THEN {}
      ELSE {[date |-> d, amount |-> TypicalSalary(S), category |-> "salary"] : d \in Ahead(dates, t)}

\* A date on which the category has something scheduled is not projected again.
Unscheduled(items, scheduled) ==
  {i \in items : \A s \in scheduled : s.category = i.category => s.date # i.date}

\* Pending debits, reserved whatever their date.
Reserved(R, t) ==
  Total({e \in R : CashType(e) = "IMMEDIATE_DEBIT" /\ e.status = "pending"})

\* build_financial_state_from_inputs
EngineState(R, available, t) ==
  LET debits == Scheduled(R, t, "FUTURE_DEBIT")
      income == Scheduled(R, t, "CONFIRMED_INCOME")
  IN  [starting |-> available - Reserved(R, t),
       debits |-> debits,
       income |-> income,
       bills |-> Unscheduled(UNION {FixedItems(R, c, t) : c \in FixedCategories}, debits),
       burns |-> UNION {Burn(R, c, t) : c \in VariableCategories},
       salary |-> Unscheduled(SalaryItems(R, t), income)]
=============================================================================
