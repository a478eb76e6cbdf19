----------------------------- MODULE BatchForecast -----------------------------
(***************************************************************************)
(* The same forecast as the batch programs make it (src/code and the older  *)
(* src/code/code): amounts that only a picture gives, messages that end or  *)
(* amend an income, and projections with rules of their own.                *)
(***************************************************************************)
EXTENDS CashForecast, Functions

NoDate == 0

\* Message: what it speaks of (the keywords of parse_message_evidence), in any mix.
Topics ==
  {"portfolio", "refund", "prize", "bonus", "pending payout", "own accounts", "contract ended",
   "amended pay", "payroll", "rent"}

Message ==
  [source : {"employer", "service_provider", "bank"}, about : SUBSET Topics,
   amount : Nat \union {Unknown}, percent : Nat \union {Unknown}, date : Nat]

\* What is read first decides; pay is only believed of an employer, and rent only
\* of a service provider.
Reading ==
  <<[topic |-> "portfolio", evidence |-> "unrealized_gain"],
    [topic |-> "refund", evidence |-> "pending_refund_unconfirmed"],
    [topic |-> "prize", evidence |-> "windfall_closed"],
    [topic |-> "bonus", evidence |-> "pending_income_unconfirmed"],
    [topic |-> "pending payout", evidence |-> "pending_credit_unconfirmed"],
    [topic |-> "own accounts", evidence |-> "internal_transfer"],
    [topic |-> "contract ended", evidence |-> "contract_terminated"],
    [topic |-> "amended pay", evidence |-> "salary_amendment"],
    [topic |-> "payroll", evidence |-> "salary_confirmed"],
    [topic |-> "rent", evidence |-> "rent_amendment"]>>

Reads(m, i) ==
  /\ Reading[i].topic \in m.about
  /\ i \in 7..9 => m.source = "employer"
  /\ i = 10 => m.source = "service_provider" /\ ~(m.percent = Unknown /\ m.amount = Unknown)

\* parse_message_evidence
Evidence(m) ==
  IF \A i \in DOMAIN Reading : ~Reads(m, i) THEN "unknown"
  ELSE Reading[CHOOSE i \in DOMAIN Reading : Reads(m, i) /\ \A j \in 1..(i - 1) : ~Reads(m, j)].evidence

\* _effective_amount: a picture gives what the event does not (IMAGE_MANIFEST).
SeenAmount(e, pictures) ==
  IF e.amount # Unknown THEN e
  ELSE IF \E p \in pictures : p.event = e.id
       THEN LET p == CHOOSE x \in pictures : x.event = e.id
            IN  [e EXCEPT !.amount = p.amount, !.currency = p.currency]
  ELSE [e EXCEPT !.amount = 0]

\* resolve_user_events
BatchResolved(events, pictures, home) ==
  Resolve(events, LAMBDA e : BatchWorth(SeenAmount(e, pictures), home))

-----------------------------------------------------------------------------
(* Projections *)

\* The average of the two middle amounts.
Median(S) ==
  LET n == Cardinality(S)
  IN  IF n % 2 = 1 THEN AtRank(S, n \div 2)
      ELSE (AtRank(S, n \div 2 - 1) + AtRank(S, n \div 2)) \div 2

\* Debits that have happened; pending ones are among them.
Spent(R, c, t) ==
  {e \in R : /\ e.category = c /\ e.direction = "debit"
             /\ CashType(e) \in {"IMMEDIATE_DEBIT", "SETTLED_INCOME"}
             /\ e.date <= t /\ e.amount > 0}

FromToday(dates, t) == {d \in dates : t <= d /\ d <= t + Horizon}

\* _project_fixed_category: one occurrence is taken for a monthly bill.
BatchFixedItems(R, c, t) ==
  LET S == Spent(R, c, t)
      w == Recent(S, Window)
      last == LastOf(S)
  IN  IF S = {} THEN {}
      ELSE IF Cardinality(S) = 1 THEN {Item(last, d, last.amount) : d \in Ahead(Every(30, last.date, t), t)}
      ELSE IF MeanGapIn(w, 25, 35)
           THEN {Item(last, d, Median(w)) :
                   d \in FromToday(MonthlyFrom(MonthOf[last.date] + 1, TypicalDay(w)), t)}
      ELSE {Item(last, d, Median(w)) : d \in Ahead(Every(MeanGap(w), last.date, t), t)}

\* How often spending that varies comes back: every week, if nothing is known.
Cadence(w) ==
  LET gap == IF Cardinality(w) >= 2 /\ Span(w) > 0 THEN MeanGap(w) ELSE 7
  IN  IF gap < 3 THEN 3 ELSE gap

\* _project_variable_category, occurrence by occurrence
SteppedSpending(R, c, t) ==
  LET S == Spent(R, c, t)
      w == Recent(S, 8)
  IN  IF S = {} THEN {}
      ELSE {Item(LastOf(S), d, Median(w)) : d \in FromToday(Every(Cadence(w), LastOf(S).date, t), t)}

\* The same spread over today and the days of the horizon (use_daily_burn).
BatchBurn(R, c, t) ==
  LET S == Spent(R, c, t)
      w == Recent(S, 8)
      steps == SteppedSpending(R, c, t)
      count == IF steps # {} THEN Cardinality(steps)
               ELSE IF Rounded(90, Cadence(w)) > 1 THEN Rounded(90, Cadence(w)) ELSE 1
  IN  IF S = {} THEN {}
      ELSE {[item |-> Item(LastOf(S), t, count * Median(w)), over |-> Horizon + 1,
             dates |-> t..(t + Horizon)]}

\* _is_salary_terminated
SalaryEnded(R, messages) ==
  LET S == {e \in R : e.category = "salary" /\ CashType(e) \in {"IMMEDIATE_DEBIT", "SETTLED_INCOME"}}
  IN  \/ \E m \in Range(messages) : Evidence(m) = "contract_terminated"
      \/ S # {} /\ Latest(S).words \in Ending

\* is_salary_reliable_for_forecast: announced, or the monthly pay of an employer.
Reliable(R, messages, w) ==
  \/ Announced(Salaries(R)) # {}
  \/ /\ \A m \in Range(messages) :
          ~(m.source = "service_provider" /\ Evidence(m) = "pending_credit_unconfirmed")
     /\ \A e \in R : e.category = "salary" /\ CashType(e) \in {"SETTLED_INCOME", "CONFIRMED_INCOME"} =>
          e.words # "gig"
     /\ PaidMonthly(w)

BatchTypicalSalary(S) ==
  IF Announced(S) # {} THEN Latest(Announced(S)).amount ELSE Median(Recent(S, Window))

\* An employer's word on pay.
OnPay(m) == Evidence(m) \in {"salary_confirmed", "salary_amendment"}

\* The day of the month named by the first message that names one.
NamedDay(messages) ==
  LET named == {n \in DOMAIN messages : OnPay(messages[n]) /\ messages[n].date # NoDate}
  IN  IF named = {} THEN NoDate ELSE DayOf(messages[Min(named)].date)

\* _project_salary
BatchSalaryItems(R, t, messages, filtered) ==
  LET S == Salaries(R)
      w == Recent(S, Window)
      last == LastOf(S)
      day == IF NamedDay(messages) # NoDate THEN NamedDay(messages) ELSE TypicalDay(w)
      dates == IF PaidMonthly(w) THEN FromToday(MonthlyFrom(MonthOf[last.date] + 1, day), t)
               ELSE Ahead(Every(MeanGap(w), last.date, t), t)
  IN  IF \/ SalaryEnded(R, messages)
         \/ Cardinality(S) < 2 \/ Span(w) <= 0
         \/ filtered /\ ~Reliable(R, messages, w)
      THEN {}
      ELSE {[date |-> d, amount |-> BatchTypicalSalary(S), category |-> "salary"] : d \in dates}

\* _apply_salary_amendments: the last message that gives an amount is what is kept.
AmendedPay(items, messages) ==
  LET told == {n \in DOMAIN messages : OnPay(messages[n]) /\ messages[n].amount # Unknown}
  IN  IF told = {} THEN items
      ELSE {IF i.category = "salary" THEN [i EXCEPT !.amount = messages[Max(told)].amount] ELSE i : i \in items}

\* What a message makes of a bill for rent.
RentBy(m, i) ==
  CASE Evidence(m) # "rent_amendment" -> i
    [] Evidence(m) = "rent_amendment" /\ m.percent = Unknown -> [i EXCEPT !.amount = m.amount]
    [] OTHER -> [i EXCEPT !.amount = Rounded(@ * (100 + m.percent), 100)]

\* Each message is applied to what those before it have made of the bill.
RentAfter(messages, i) ==
  LET after[n \in 0..Len(messages)] == IF n = 0 THEN i ELSE RentBy(messages[n], after[n - 1])
  IN  after[Len(messages)]

\* _apply_rent_amendments
AmendedRent(items, messages) ==
  {IF i.category = "rent" THEN RentAfter(messages, i) ELSE i : i \in items}

\* build_financial_state; a state of the older program has neither a burn nor a filter.
BatchState(R, available, t, messages, daily, filtered) ==
  LET debits == Scheduled(R, t, "FUTURE_DEBIT")
      income == Scheduled(R, t, "CONFIRMED_INCOME")
      stepped == IF daily THEN {} ELSE UNION {SteppedSpending(R, c, t) : c \in VariableCategories}
  IN  [starting |-> available - Reserved(R, t),
       debits |-> AmendedRent(debits, messages),
       income |-> AmendedPay(income, messages),
       bills |-> AmendedRent(Unscheduled(UNION {BatchFixedItems(R, c, t) : c \in FixedCategories}, debits)
                               \union stepped, messages),
       burns |-> IF daily THEN UNION {BatchBurn(R, c, t) : c \in VariableCategories} ELSE {},
       salary |-> AmendedPay(Unscheduled(BatchSalaryItems(R, t, messages, filtered), income), messages)]

\* src/code/code, in which every occurrence is an item and any income is believed
OlderState(R, available, t, messages) == BatchState(R, available, t, messages, FALSE, FALSE)
=============================================================================
