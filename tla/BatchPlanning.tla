----------------------------- MODULE BatchPlanning -----------------------------
(***************************************************************************)
(* The batch programs that buyorwait_engine was taken from, src/code (V2)   *)
(* and the older src/code/code, on one request: from the financial state to *)
(* the validated row of output.csv.                                         *)
(*                                                                          *)
(* They keep nothing between requests, so each is an operator on an Input   *)
(* of DecisionEngine.  Unlike the engine they put the payments of a plan    *)
(* into the daily maps and close the ledger again for every plan they try.  *)
(* The answers of a program are a set: candidates that rank equal are taken *)
(* in the order of the user's lists, which is not modelled.                 *)
(***************************************************************************)
EXTENDS DecisionEngine, Sequences

\* The rules a program plans by: the tolerance of is_plan_safe, and whether it
\* is the older one.
V2 == [tolerance |-> Epsilon, older |-> FALSE]
Older == [tolerance |-> 0, older |-> TRUE]

-----------------------------------------------------------------------------
(* spending_optimizer.py *)

Flexible(x, s, hows) == x.streams[s].flexibility \in hows \union {"reducible_or_stoppable"}

CanStop(x, s) == Flexible(x, s, {"stoppable"}) /\ x.streams[s].category \in x.stoppable

CanReduce(x, s) ==
  /\ Flexible(x, s, {"reducible"}) /\ x.streams[s].category \in x.reducible
  /\ x.streams[s].amount > x.streams[s].floor

\* get_eligible_changes
EligibleChanges(x) ==
  {s \in Streams : /\ x.streams[s].dates # {} /\ x.streams[s].category \notin x.protected
                   /\ CanStop(x, s) \/ CanReduce(x, s)}

\* enumerate_spending_change_combos; validate_decision reports more than three.
ChangeCombos(x) == {c \in SUBSET EligibleChanges(x) : Cardinality(c) <= MaxActions}

-----------------------------------------------------------------------------
(* forecast.py, safe_amount.py, earliest_full_payment.py *)

\* What an item of the state adds to the debits of day d.
Cost(x, c, s, d) ==
  IF d \notin x.streams[s].dates THEN 0
  ELSE IF s \notin c THEN x.streams[s].amount
  ELSE IF CanStop(x, s) THEN 0 ELSE x.streams[s].floor

\* _build_daily_maps: payments p are debits like any other.
DebitMap(x, c, p) ==
  [d \in Day |-> SumFunction([s \in Streams |-> Cost(x, c, s, d)])
                   + (IF d \in DOMAIN p THEN p[d] ELSE 0)]

\* build_ledger: the closing balances; it opens on the request date.
BuildLedger(x, c, p) ==
  LET debits == DebitMap(x, c, p)
      closing[d \in Day] ==
        (IF d = 0 THEN x.starting ELSE closing[d - 1]) + x.flow[d] - debits[d]
  IN  closing

MinimumClosing(x, c, p) ==
  LET closing == BuildLedger(x, c, p)
  IN  Min({x.starting} \union {closing[d] : d \in Day})

Nothing == [d \in {} |-> 0]

\* compute_safe_amount
SafeToPay(x, c) ==
  Max({0, Min({x.amount, MinimumClosing(x, c, Nothing) - x.minimum})})

\* Mutant: the day of the last payment is left out.
PlanIsSafe_BeforeEnd(r, x, c, p) ==
  LET closing == BuildLedger(x, c, p)
  IN  \A d \in Day : d < Max(DOMAIN p) => closing[d] >= x.minimum - r.tolerance

\* is_plan_safe, up to the last payment
PlanIsSafe(r, x, c, p) ==
  LET closing == BuildLedger(x, c, p)
  IN  \A d \in Day : d <= Max(DOMAIN p) => closing[d] >= x.minimum - r.tolerance

Pay(d, a) == [i \in {d} |-> a]

Earliest(days) == IF days = {} THEN None ELSE Min(days)

\* find_earliest_full_payment_date
EarliestFull(x, c) ==
  Earliest({d \in Day : MinimumClosing(x, c, Pay(d, x.amount)) >= x.minimum})

-----------------------------------------------------------------------------
(* candidates.py *)

\* _max_installment_days and _option_final_date
ShortEnough(x) ==
  {o \in x.options : "installments" \in x.methods /\ OptionEnd(o) - o.first <= x.maxDays}

\* _option_plan: payments of one day are added up.
PaymentsOf(o) ==
  LET at(i) == o.first + i * o.every
  IN  [d \in {at(i) : i \in 0..(o.count - 1)} |->
         o.amount * Cardinality({i \in 0..(o.count - 1) : at(i) = d})]

PlanOf(r, x, c, method, p, first, last, count, total) ==
  [method |-> method, changes |-> c, payments |-> p, first |-> first, last |-> last,
   count |-> count, total |-> total, onTime |-> last <= x.deadline,
   feasible |-> PlanIsSafe(r, x, c, p)]

\* generate_candidates, full_payment
FullPlans(r, x, c, safe) ==
  IF "full_payment" \notin x.methods \/ safe < x.amount THEN {}
  ELSE {PlanOf(r, x, c, "full_payment", Pay(0, x.amount), 0, 0, 1, x.amount)}

\* generate_candidates, installments
InstallmentPlans(r, x, c) ==
  {PlanOf(r, x, c, "installments", PaymentsOf(o), o.first, OptionEnd(o), o.count, o.total) :
     o \in ShortEnough(x)}

\* generate_candidates, partial_payment: the dict has one payment if both are
\* due today.
PartialPlans(r, x, c, safe, e) ==
  IF /\ x.partial /\ "partial_payment" \in x.methods
     /\ 0 < safe /\ safe < x.amount
     /\ e # None /\ e <= x.deadline
  THEN {PlanOf(r, x, c, "partial_payment",
               [d \in {0, e} |-> IF d = e THEN x.amount - safe ELSE safe], 0, e, 2, x.amount)}
  ELSE {}

\* generate_candidates, wait
WaitPlans(r, x, c, e) ==
  IF "full_payment" \in x.methods /\ e # None /\ 0 < e /\ e <= x.deadline
  THEN {PlanOf(r, x, c, "wait", Pay(e, x.amount), e, e, 1, x.amount)}
  ELSE {}

\* Of one combination, with its safe amount and its earliest date.
PlansOf(r, x, c, safe, e) ==
  FullPlans(r, x, c, safe) \union InstallmentPlans(r, x, c)
    \union PartialPlans(r, x, c, safe, e) \union WaitPlans(r, x, c, e)

\* The feasible plans of all combinations.
FeasiblePlans(r, x) ==
  {p \in UNION {PlansOf(r, x, c, SafeToPay(x, c), EarliestFull(x, c)) : c \in ChangeCombos(x)} :
     p.feasible}

\* The fallback, generated for every combination; the first has no changes.
NotRecommended ==
  [method |-> "not_recommended", changes |-> {}, payments |-> Nothing, first |-> None,
   last |-> None, count |-> 0, total |-> 0, onTime |-> FALSE, feasible |-> TRUE]

-----------------------------------------------------------------------------
(* ranker.py, validator.py, main.py *)

\* Mutant: plans without spending changes are not preferred.
SortKey_AnyChanges(p) == <<Flag(p.onTime), p.total, p.first, p.count>> \o Place(p)

\* _rank_key, then the order of generation, which the stable sort keeps.
SortKey(p) == RankKey(p) \o Place(p)

BestOf(plans) ==
  IF plans = {} THEN {NotRecommended}
  ELSE {p \in plans : \A q \in plans : ~Precedes(SortKey(q), SortKey(p))}

\* select_best_candidate
SelectBest(r, x) == BestOf(FeasiblePlans(r, x))

\* _derive_affordability_clean
AffordabilityStatus(p) ==
  CASE p.method = "not_recommended" -> "not_affordable"
    [] p.method = "wait" -> "affordable_later"
    [] p.method = "full_payment" /\ p.changes = {} -> "affordable_now"
    [] OTHER -> "affordable_with_plan"

\* Paid by the end of each day.
PaidBy(p) == [d \in Day |-> SumFunctionOnSet(p, DOMAIN p \intersect (0..d))]

\* make_decision; base is the date without spending changes, if there is any.
DecisionFor(x, p, status, base) ==
  [method |-> p.method, affordability |-> status, payments |-> p.payments,
   planned |-> p.changes,
   announced |-> IF p.method = "wait" THEN {} ELSE p.changes,
   safe |-> SafeToPay(x, {}),
   earliest |-> IF status = "affordable_now" THEN 0
                ELSE IF base # None THEN base ELSE EarliestFull(x, p.changes)]

MakeDecision(x, p) == DecisionFor(x, p, AffordabilityStatus(p), EarliestFull(x, {}))

\* make_decision of the older program, which announces the changes of a wait too and
\* names no date with a purchase that it advises against.
OlderDecision(x, p) ==
  [MakeDecision(x, p) EXCEPT !.announced = p.changes,
     !.earliest = IF AffordabilityStatus(p) = "not_affordable" THEN None ELSE @]

\* coerce_decision
Coerced(x, a) == [a EXCEPT !.safe = Max({0, Min({x.amount, @})})]

\* validate_decision, apart from the formats
ValidationErrors(x, a) ==
  {f \in {"amount_safe_to_pay", "earliest_date_for_full_payment", "spending_changes_needed"} :
     \/ f = "amount_safe_to_pay" /\ a.safe \notin 0..x.amount
     \/ f = "earliest_date_for_full_payment"
          /\ a.affordability = "affordable_now" /\ a.earliest = None
     \/ f = "spending_changes_needed" /\ Cardinality(a.announced) > MaxActions}

\* min() of no balances, see EndsInThePast
Raises(x) == \E o \in ShortEnough(x) : OptionEnd(o) < 0

ErrorAnswer ==
  [method |-> "not_recommended", affordability |-> "not_affordable", payments |-> Nothing,
   planned |-> {}, announced |-> {}, safe |-> 0, earliest |-> None]

\* process_request: an exception becomes an answer.
Answers(r, x) ==
  IF Raises(x) THEN {ErrorAnswer}
  ELSE {Coerced(x, IF r.older THEN OlderDecision(x, p) ELSE MakeDecision(x, p)) :
          p \in SelectBest(r, x)}

-----------------------------------------------------------------------------
(* Properties *)

Evaluated == pc \in {"decided", "done"}

\* Behavioural parity (ENGINE_CONTRACT.md:18, test_parity_v2.py): whatever the
\* engine decides, V2 answers the same, method, plan, changes, amount and date, and
\* validates its answer; where the engine fails, V2 falls back.
AgreesWithBatch ==
  /\ Evaluated =>
       \E a \in Answers(V2, in) :
         /\ a.method = decision.method /\ a.affordability = decision.affordability
         /\ PaidBy(a.payments) = decision.plan
         /\ a.planned = decision.planned /\ a.announced = decision.announced
         /\ a.safe = decision.safe /\ a.earliest = decision.earliest
         /\ ValidationErrors(in, a) = {}
  /\ pc = "failed" => Answers(V2, in) = {ErrorAnswer}

\* The older program is the stricter one: a plan it recommends keeps the minimum
\* balance to the cent up to its last payment, with the changes it announces, and
\* V2 then recommends a plan that ranks no worse.
OlderIsStricter ==
  Evaluated => \A p \in SelectBest(Older, in) :
    p.method # "not_recommended" =>
      /\ \A d \in Day : d <= p.last =>
           BuildLedger(in, OlderDecision(in, p).announced, p.payments)[d] >= in.minimum
      /\ \A q \in SelectBest(V2, in) :
           q.method # "not_recommended" /\ ~Precedes(SortKey(p), SortKey(q))
=============================================================================
