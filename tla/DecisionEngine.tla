---------------------------- MODULE DecisionEngine ----------------------------
(***************************************************************************)
(* One evaluation of a purchase by buyorwait_engine, and the life after it. *)
(*                                                                          *)
(* For each set of spending changes the engine builds the cash ledger of    *)
(* the horizon day by day (forecast/ledger.py), derives the safe amount and *)
(* the earliest date of a full payment, and generates payment plans         *)
(* (decision/candidates.py); then it ranks the feasible ones and reports a  *)
(* decision (decision/ranker.py, engine.py).  Afterwards the user follows   *)
(* the decision while the forecast comes true: this is what the promises    *)
(* about the minimum balance are about.                                     *)
(*                                                                          *)
(* Days count from the request date, money is in units so small that all    *)
(* amounts are whole, and a plan is what it has paid by the end of each day. *)
(* Inputs are financial states as state/builder.py makes them, in which     *)
(* nothing falls on day 0.                                                  *)
(***************************************************************************)
EXTENDS Integers, FiniteSets, FiniteSetsExt

CONSTANTS
  Horizon,    \* FORECAST_HORIZON_DAYS, the last day of the ledger
  Streams,    \* debits that may be flexible: an event and its projections
  Categories,
  Epsilon,    \* the tolerance of is_plan_safe, one cent
  MaxActions, \* spending changes that may be combined
  None,       \* no such date
  Inputs      \* evaluations that may be asked for

Day == 0..Horizon
Methods == {"full_payment", "installments", "partial_payment"}

\* The occurrences of a stream have one amount; floor is minimum_allowed_amount.
Stream ==
  [dates : SUBSET (Day \ {0}), amount : Nat, floor : Nat, category : Categories,
   flexibility : {"fixed", "stoppable", "reducible", "reducible_or_stoppable"}]

\* A seller's installments; every = 0 if no frequency is given.
Option == [first : Int, every : Nat, count : Nat \ {0}, amount : Nat, total : Nat]

\* FinancialState and PurchaseProposal; flow is the net of what cannot be changed.
Input ==
  [starting : Int, minimum : Nat, flow : {f \in [Day -> Int] : f[0] = 0}, streams : [Streams -> Stream],
   protected : SUBSET Categories, stoppable : SUBSET Categories,
   reducible : SUBSET Categories, methods : SUBSET Methods, maxDays : Nat,
   amount : Nat \ {0}, deadline : Nat, partial : BOOLEAN, options : SUBSET Option]

ASSUME HorizonAssumption == Horizon \in Nat /\ Epsilon \in Nat /\ MaxActions \in Nat
ASSUME StreamsAssumption == IsFiniteSet(Streams)
ASSUME NoneAssumption == None \notin Int
ASSUME InputsAssumption == Inputs \subseteq Input

VARIABLES
  in,         \* what is evaluated
  pc,
  todo,       \* combinations of spending changes still to be evaluated
  changes,    \* the one being evaluated: the streams it stops or reduces
  toAdd, net, \* streams not yet in the daily maps, and credits minus debits
  current, running, \* the day the ledger has reached and its opening balance
  ledger,     \* closing balances before that day
  lowest,     \* minimum_closing
  built,      \* the finished ledgers
  candidates,
  decision,
  forecast,   \* the net flow of the life after the evaluation
  today, balance

engine == <<todo, changes, toAdd, net, current, running, ledger, lowest, built, candidates>>
life == <<forecast, today, balance>>
vars == <<in, pc, engine, decision, life>>

-----------------------------------------------------------------------------
(* Spending changes *)

May(s, how) ==
  LET x == in.streams[s] IN x.flexibility = how \/ x.flexibility = "reducible_or_stoppable"

Stops(s) == May(s, "stoppable") /\ in.streams[s].category \in in.stoppable

\* Mutant: a reduction need not reduce.
Reduces_AnyFloor(s) ==
  ~Stops(s) /\ May(s, "reducible") /\ in.streams[s].category \in in.reducible

Reduces(s) ==
  /\ ~Stops(s)
  /\ May(s, "reducible") /\ in.streams[s].category \in in.reducible
  /\ in.streams[s].amount > in.streams[s].floor

\* get_eligible_changes
Eligible ==
  {s \in Streams : /\ in.streams[s].dates # {}
                   /\ in.streams[s].category \notin in.protected
                   /\ Stops(s) \/ Reduces(s)}

\* What an occurrence of a changed stream costs.
ChangedAmount(s) == IF Stops(s) THEN 0 ELSE in.streams[s].floor

\* enumerate_spending_change_combos
Combos == {c \in SUBSET Eligible : Cardinality(c) <= MaxActions}

\* Debits of a stream on a day, under changes c.
Debit(c, s, d) ==
  IF d \notin in.streams[s].dates THEN 0
  ELSE IF s \in c THEN ChangedAmount(s) ELSE in.streams[s].amount

-----------------------------------------------------------------------------
(* Plans *)

\* Payments dated before the request are never reached by the ledger.
Once(d, a) == [x \in Day |-> IF x >= d THEN a ELSE 0]

\* A dict: a second payment on the day of the first replaces it.
Twice(a, d, b) == [x \in Day |-> IF d = 0 THEN b ELSE IF x >= d THEN a + b ELSE a]

\* The payments made by the end of day d.
DueBy(o, d) == Cardinality({i \in 0..(o.count - 1) : o.first + i * o.every \in 0..d})

\* _option_plan, _option_final_date
OptionPlan(o) == [x \in Day |-> o.amount * DueBy(o, x)]
OptionEnd(o) == o.first + (o.count - 1) * o.every

\* Mutant: the last payment is not looked at.
IsPlanSafe_BeforeEnd(l, plan, last) ==
  \A d \in Day : d < last => l[d] - plan[d] >= in.minimum - Epsilon

\* is_plan_safe: looks at the ledger up to the last payment only.
IsPlanSafe(l, plan, last) ==
  \A d \in Day : d <= last => l[d] - plan[d] >= in.minimum - Epsilon

Lesser(a, b) == IF a < b THEN a ELSE b

\* Mutant: today's balance is taken instead of the lowest one ahead.
SafeAmount_Today(m) ==
  LET headroom == in.starting - in.minimum
  IN  IF headroom < 0 THEN 0 ELSE Lesser(in.amount, headroom)

\* Mutant: not clamped at zero.
SafeAmount_Unclamped(m) == Lesser(in.amount, m - in.minimum)

\* compute_safe_amount, from the lowest balance of the ledger
SafeAmount(m) ==
  LET headroom == m - in.minimum
  IN  IF headroom < 0 THEN 0 ELSE Lesser(in.amount, headroom)

\* Mutant: only the balance of that day counts.
Solvent_ThatDay(l, e) == in.starting >= in.minimum /\ l[e] - in.amount >= in.minimum

\* May the full amount be paid on day e of ledger l?
Solvent(l, e) ==
  /\ in.starting >= in.minimum
  /\ \A d \in Day : l[d] - Once(e, in.amount)[d] >= in.minimum

\* find_earliest_full_payment_date
IsEarliest(l, e) ==
  IF e = None THEN \A d \in Day : ~Solvent(l, d)
  ELSE Solvent(l, e) /\ \A d \in Day : d < e => ~Solvent(l, d)

-----------------------------------------------------------------------------
(* generate_candidates *)

Candidate(method, plan, first, last, count, total, feasible) ==
  [method |-> method, changes |-> changes, plan |-> plan, first |-> first, last |-> last,
   count |-> count, total |-> total, onTime |-> last <= in.deadline, feasible |-> feasible]

FullPayment(m) ==
  IF "full_payment" \notin in.methods THEN {}
  ELSE {Candidate("full_payment", Once(0, in.amount), 0, 0, 1, in.amount,
          SafeAmount(m) >= in.amount /\ IsPlanSafe(ledger, Once(0, in.amount), 0))}

\* Options that are short enough (max_installment_months).
Accepted ==
  {o \in in.options : "installments" \in in.methods /\ OptionEnd(o) - o.first <= in.maxDays}

Installments ==
  {Candidate("installments", OptionPlan(o), o.first, OptionEnd(o), o.count, o.total,
             IsPlanSafe(ledger, OptionPlan(o), OptionEnd(o))) : o \in Accepted}

\* Mutant: the remainder is due on a day the safe amount comes back.
Remainder_Full(safe) == in.amount

Remainder(safe) == in.amount - safe

PartialPayment(m, e) ==
  LET safe == SafeAmount(m)
      plan == Twice(safe, e, Remainder(safe))
  IN  IF /\ in.partial /\ "partial_payment" \in in.methods
         /\ 0 < safe /\ safe < in.amount
         /\ e # None /\ e <= in.deadline
      THEN {Candidate("partial_payment", plan, 0, e, 2, in.amount, IsPlanSafe(ledger, plan, e))}
      ELSE {}

Wait(e) ==
  IF "full_payment" \in in.methods /\ e # None /\ 0 < e /\ e <= in.deadline
  THEN {Candidate("wait", Once(e, in.amount), e, e, 1, in.amount,
                  IsPlanSafe(ledger, Once(e, in.amount), e))}
  ELSE {}

\* is_plan_safe fails on a plan that ends before the ledger begins: the minimum
\* of no balances (min() of an empty sequence), reported as DecisionEngineError.
EndsInThePast == \E o \in Accepted : OptionEnd(o) < 0

-----------------------------------------------------------------------------
(* The ranking *)

Flag(b) == IF b THEN 0 ELSE 1

\* Mutant: of two payments the later one may be preferred.
RankKey_NoDate(c) == <<Flag(c.onTime), Flag(c.changes = {}), c.total, c.count>>

\* _rank_key
RankKey(c) == <<Flag(c.onTime), Flag(c.changes = {}), c.total, c.first, c.count>>

\* Candidates of equal keys stay in the order they were generated in: fewer
\* changes first, then by method.  (Then by the user's lists; here, by any.)
Place(c) ==
  <<Cardinality(c.changes),
    CASE c.method = "full_payment" -> 1 [] c.method = "installments" -> 2
      [] c.method = "partial_payment" -> 3 [] c.method = "wait" -> 4>>

Precedes(k, l) == \E i \in DOMAIN k : k[i] < l[i] /\ \A j \in 1..(i - 1) : k[j] = l[j]

Feasible == {c \in candidates : c.feasible}

\* select_best_candidate
Best(c) ==
  /\ c \in Feasible
  /\ \A d \in Feasible :
       /\ ~Precedes(RankKey(d), RankKey(c))
       /\ RankKey(d) = RankKey(c) => ~Precedes(Place(d), Place(c))

NoPlan == [x \in Day |-> 0]

\* Shown to the user, who learns of no changes when told to wait.
Announced(c) == IF c.method = "wait" THEN {} ELSE c.changes

\* Mutant: a full payment is BUY, whatever it depends on.
Verdict_AnyFull(c) ==
  CASE c.method = "wait" -> "WAIT" [] c.method = "full_payment" -> "BUY" [] OTHER -> "SAFER_PAYMENT"

Verdict(c) ==
  CASE c.method = "wait" -> "WAIT"
    [] c.method = "full_payment" /\ c.changes = {} -> "BUY"
    [] OTHER -> "SAFER_PAYMENT"

Affordability(c) ==
  CASE c.method = "wait" -> "affordable_later"
    [] c.method = "full_payment" /\ c.changes = {} -> "affordable_now"
    [] OTHER -> "affordable_with_plan"

-----------------------------------------------------------------------------
(* The evaluation *)

\* The next combination, smallest first; {} is the baseline.
StartLedger(c) ==
  /\ pc = "combos"
  /\ c \in todo /\ \A x \in todo : Cardinality(c) <= Cardinality(x)
  /\ pc' = "maps"
  /\ changes' = c /\ toAdd' = Streams /\ net' = in.flow
  /\ UNCHANGED <<in, todo, current, running, ledger, lowest, built, candidates, decision, life>>

\* Mutant: debits of a day replace each other in the map.
AddStream_Replaces(s) ==
  /\ pc = "maps" /\ s \in toAdd
  /\ net' = [d \in Day |-> IF Debit(changes, s, d) = 0 THEN net[d]
                         ELSE in.flow[d] - Debit(changes, s, d)]
  /\ toAdd' = toAdd \ {s}
  /\ UNCHANGED <<in, pc, todo, changes, current, running, ledger, lowest, built, candidates,
                 decision, life>>

\* _build_daily_maps, one item of the state after the other
AddStream(s) ==
  /\ pc = "maps" /\ s \in toAdd
  /\ net' = [d \in Day |-> net[d] - Debit(changes, s, d)]
  /\ toAdd' = toAdd \ {s}
  /\ UNCHANGED <<in, pc, todo, changes, current, running, ledger, lowest, built, candidates,
                 decision, life>>

OpenLedger ==
  /\ pc = "maps" /\ toAdd = {}
  /\ pc' = "scan"
  /\ current' = 0 /\ running' = in.starting /\ lowest' = in.starting
  /\ ledger' = NoPlan
  /\ UNCHANGED <<in, todo, changes, toAdd, net, built, candidates, decision, life>>

\* build_ledger, one day after the other
CloseDay ==
  /\ pc = "scan" /\ current <= Horizon
  /\ LET closing == running + net[current]
     IN  /\ ledger' = [ledger EXCEPT ![current] = closing]
         /\ lowest' = Lesser(lowest, closing)
         /\ running' = closing
  /\ current' = current + 1
  /\ UNCHANGED <<in, pc, todo, changes, toAdd, net, built, candidates, decision, life>>

GenerateCandidates ==
  /\ pc = "scan" /\ current = Horizon + 1 /\ ~EndsInThePast
  /\ \E e \in Day \union {None} :
       /\ IsEarliest(ledger, e)
       /\ candidates' = candidates \union FullPayment(lowest) \union Installments
                          \union PartialPayment(lowest, e) \union Wait(e)
       /\ built' = built \union {[changes |-> changes, net |-> net, ledger |-> ledger,
                                  lowest |-> lowest, earliest |-> e]}
  /\ todo' = todo \ {changes}
  /\ pc' = "combos"
  /\ UNCHANGED <<in, changes, toAdd, net, current, running, ledger, lowest, decision, life>>

Fail ==
  /\ pc = "scan" /\ current = Horizon + 1 /\ EndsInThePast
  /\ pc' = "failed"
  /\ UNCHANGED <<in, engine, decision, life>>

\* make_decision and _derive_verdict, of a plan
Recommend(c) ==
  /\ pc = "combos" /\ todo = {}
  /\ Best(c)
  /\ \E base \in built, own \in built :
       /\ base.changes = {} /\ own.changes = c.changes
       /\ decision' =
            [method |-> c.method, verdict |-> Verdict(c), affordability |-> Affordability(c),
             plan |-> c.plan, last |-> c.last, total |-> c.total,
             planned |-> c.changes, announced |-> Announced(c),
             safe |-> SafeAmount(base.lowest),
             earliest |-> IF Affordability(c) = "affordable_now" THEN 0
                          ELSE IF base.earliest # None THEN base.earliest ELSE own.earliest]
  /\ pc' = "decided"
  /\ UNCHANGED <<in, engine, life>>

\* The fallback, when no plan is feasible
Advise ==
  /\ pc = "combos" /\ todo = {} /\ Feasible = {}
  /\ \E base \in built :
       /\ base.changes = {}
       /\ decision' =
            [method |-> "not_recommended", verdict |-> "NOT_RECOMMENDED",
             affordability |-> "not_affordable", plan |-> NoPlan, last |-> 0, total |-> 0,
             planned |-> {}, announced |-> {},
             safe |-> SafeAmount(base.lowest), earliest |-> base.earliest]
  /\ pc' = "done"
  /\ UNCHANGED <<in, engine, life>>

-----------------------------------------------------------------------------
(* The life after it *)

\* The user makes the changes the plan was computed with, or only the announced
\* ones, and pays as planned; from then on the forecast comes true.
Accept(c) ==
  /\ pc = "decided"
  /\ c \in {decision.planned, decision.announced}
  /\ \E b \in built :
       /\ b.changes = c
       /\ forecast' = [cut |-> c, net |-> b.net]
       /\ balance' = in.starting + b.net[0] - decision.plan[0]
  /\ today' = 0
  /\ pc' = "living"
  /\ UNCHANGED <<in, engine, decision>>

LiveDay ==
  /\ pc = "living" /\ today < Horizon
  /\ balance' = balance + forecast.net[today + 1]
                  - (decision.plan[today + 1] - decision.plan[today])
  /\ today' = today + 1
  /\ UNCHANGED <<in, pc, engine, decision, forecast>>

\* Nothing is left to do.
Rest ==
  /\ pc \in {"done", "failed"} \/ (pc = "living" /\ today = Horizon)
  /\ UNCHANGED vars

NoDecision == [method |-> "none"]

Init ==
  /\ in \in Inputs
  /\ pc = "combos" /\ todo = Combos
  /\ changes = {} /\ toAdd = {} /\ net = NoPlan
  /\ current = 0 /\ running = 0 /\ ledger = NoPlan /\ lowest = 0
  /\ built = {} /\ candidates = {} /\ decision = NoDecision
  /\ forecast = [cut |-> {}, net |-> NoPlan] /\ today = 0 /\ balance = 0

Next ==
  \/ \E c \in Combos : StartLedger(c) \/ Accept(c)
  \/ \E s \in Streams : AddStream(s)
  \/ OpenLedger
  \/ CloseDay
  \/ GenerateCandidates
  \/ Fail
  \/ \E c \in candidates : Recommend(c)
  \/ Advise
  \/ LiveDay
  \/ Rest

Spec == Init /\ [][Next]_vars

-----------------------------------------------------------------------------
(* Properties *)

Decision ==
  [method : Methods \union {"wait", "not_recommended"},
   verdict : {"BUY", "SAFER_PAYMENT", "WAIT", "NOT_RECOMMENDED"},
   affordability : {"affordable_now", "affordable_later", "affordable_with_plan",
                    "not_affordable"},
   plan : [Day -> Nat], last : Int, total : Nat, planned : SUBSET Streams,
   announced : SUBSET Streams, safe : Nat, earliest : Day \union {None}]

CandidateType ==
  [method : Methods \union {"wait"}, changes : SUBSET Streams, plan : [Day -> Nat],
   first : Int, last : Int, count : Nat, total : Nat, onTime : BOOLEAN, feasible : BOOLEAN]

BuiltLedger ==
  [changes : SUBSET Streams, net : [Day -> Int], ledger : [Day -> Int], lowest : Int,
   earliest : Day \union {None}]

TypeOK ==
  /\ in \in Input
  /\ pc \in {"combos", "maps", "scan", "failed", "decided", "done", "living"}
  /\ todo \subseteq Combos /\ changes \subseteq Streams /\ toAdd \subseteq Streams
  /\ net \in [Day -> Int] /\ ledger \in [Day -> Int]
  /\ current \in 0..(Horizon + 1) /\ running \in Int /\ lowest \in Int
  /\ built \subseteq BuiltLedger
  /\ candidates \subseteq CandidateType
  /\ decision \in Decision \union {NoDecision}
  /\ forecast \in [cut : SUBSET Streams, net : [Day -> Int]]
  /\ today \in Day /\ balance \in Int

\* The ledger of each combination is the forecast: the opening balance and all
\* that falls due up to each day (_build_daily_maps and build_ledger).
LedgersAreForecasts ==
  \A b \in built : \A d \in Day :
    b.ledger[d] = in.starting
      + SumFunctionOnSet(in.flow, 0..d)
      - SumFunction([x \in Streams \X (0..d) |-> Debit(b.changes, x[1], x[2])])

\* More spending changes never make a forecast worse, so that the search over
\* combinations can only gain by them (get_eligible_changes).
ChangesNeverHurt ==
  \A a, b \in built : a.changes \subseteq b.changes =>
    a.lowest <= b.lowest /\ \A d \in Day : a.ledger[d] <= b.ledger[d]

\* Strict balance floor (DOMAIN_MODEL.md, 4.2): who pays in full, in two parts or
\* after a wait as recommended, and makes the planned changes, is never below the
\* minimum balance within the horizon, not even by the tolerance.
PlansKeepTheFloor ==
  pc = "living" /\ forecast.cut = decision.planned /\ decision.method # "installments" =>
    balance >= in.minimum

\* Installments keep it, within the tolerance, up to their last payment.
InstallmentsKeepTheFloor ==
  /\ pc = "living" /\ forecast.cut = decision.planned
  /\ decision.method = "installments" /\ today <= decision.last
  => balance >= in.minimum - Epsilon

\* amount_safe_to_pay is safe, and one cent more is not or is not asked for.
SafeAmountIsLargest ==
  pc \in {"decided", "done"} =>
    \E b \in built :
      LET Holds(a) == /\ in.starting - a >= in.minimum
                      /\ \A d \in Day : b.ledger[d] - a >= in.minimum
      IN  /\ b.changes = {}
          /\ decision.safe <= in.amount
          /\ decision.safe > 0 => Holds(decision.safe)
          /\ decision.safe < in.amount => ~Holds(decision.safe + 1)

\* Plan sum conservation (DOMAIN_MODEL.md, 4.4) of the plans the engine makes
\* itself: by the end of the horizon they have paid the requested amount.
PlansPayInFull ==
  \A c \in candidates : c.method # "installments" =>
    c.plan[Horizon] = in.amount /\ c.total = in.amount

\* Wherever the full amount could be paid on some day in time, as things are or with
\* spending changes, the purchase is not turned down and is paid for in time.  What
\* needs as few changes is no dearer, and no wait goes past that day; and if it
\* could be paid so as things are, the decision asks for no changes either, and the
\* second of two parts is not due later (generate_candidates, _rank_key).
NoMissedChance ==
  pc \in {"decided", "done"} /\ "full_payment" \in in.methods =>
    \A b \in built : \A d \in Day :
      d <= in.deadline /\ Solvent(b.ledger, d) =>
        /\ decision.method # "not_recommended" /\ decision.last <= in.deadline
        /\ b.changes = {} \/ decision.planned # {} =>
             decision.total <= in.amount /\ (decision.method = "wait" => decision.last <= d)
        /\ b.changes = {} =>
             decision.planned = {} /\ (decision.method = "partial_payment" => decision.last <= d)

\* BUY means now, in full, without conditions, and says so throughout.
BuyMeansNow ==
  pc = "decided" /\ decision.verdict = "BUY" =>
    /\ decision.safe = in.amount /\ decision.earliest = 0
    /\ decision.announced = {} /\ decision.plan = Once(0, in.amount)

-----------------------------------------------------------------------------
(* What documents say, and the code does not do *)

\* DOMAIN_MODEL.md:267, over the whole horizon, for a user who follows the decision.
FloorIsKept == pc = "living" => balance >= in.minimum - Epsilon
=============================================================================
