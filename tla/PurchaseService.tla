---------------------------- MODULE PurchaseService ----------------------------
(***************************************************************************)
(* A user's money over time, and the evaluations of purchases asked for on  *)
(* the way (services/decision_service.py): validation, the data quality     *)
(* gate, conversion to the home currency, the state the engine works from,  *)
(* its decision, the report in the currency of the purchase, the record.    *)
(* The batch program may build its state from the same data.                *)
(*                                                                          *)
(* Meanwhile the user's bills are announced, once or a second time, settled, *)
(* void and refunded, and rows are written for it; or the days pass exactly *)
(* as the last state has forecast.  The engine's choice of a plan is the    *)
(* subject of DecisionEngine: here it is any decision of the kinds that     *)
(* module makes.                                                            *)
(***************************************************************************)
EXTENDS BatchForecast, RecurringStreams

CONSTANTS
  Bills,   \* [id, amount, due, category]
  Worlds   \* users, with what they may ask and live through

ASSUME BillsAssumption == Bills \subseteq [id : Nat, amount : Nat, due : Date, category : Categories]

Nothing == [kind |-> "nothing"]

\* profile: whether there is one; cash: the balance the user keeps up to date there;
\* unread: events whose amount only a picture gives, which the batch program alone
\* takes; days: when something may be asked; from: days until a seller's first payment;
\* version: of the batch program, which can
\* leave out unreliable income; follows: whose forecast comes true.
World ==
  [profile : BOOLEAN, minimum : Int, home : Currencies, cash : Int, accounts : SUBSET [
     kind : {"checking", "savings", "cash", "credit"}, active : BOOLEAN, currency : Currencies,
     balance : Nat \union {Unknown}],
   rows : SUBSET Row, bills : SUBSET Bills, first : Date, final : Date, days : SUBSET Date,
   purchases : SUBSET [amount : Int, currency : Currencies, wait : Int,
                       options : SUBSET [amount : Nat, count : Nat \ {0}, from : Int]],
   unread : SUBSET Row, pictures : SUBSET [event : Ids, amount : Nat, currency : Currencies],
   messages : Seq(Message),
   version : {"older", "daily", "filtered"}, follows : {"engine", "batch", "none"}]

ASSUME WorldsAssumption ==
  \A w \in Worlds : /\ w \in World /\ IsFiniteSet(w.rows) /\ IsFiniteSet(w.unread)
                    /\ IsFiniteSet(w.bills) /\ IsFiniteSet(w.accounts)

VARIABLES
  world, today, rows, cash,
  stage,     \* of each bill
  twice,     \* bills announced as scheduled and then again as pending
  pc, ask,
  worth,     \* requested_amount in the home currency
  state,     \* of the engine
  batch,     \* of the batch program
  decision,
  answer,
  lived      \* what the forecast the user lives after has left

user == <<world, today, rows, cash, stage, twice, lived>>
request == <<pc, ask, worth, state, batch, decision, answer>>
vars == <<user, request>>

\* The rows of a bill: announced, announced again, settled or void, and refunded.
\* Each is linked to the one before it.
BillRow(b, step, status, direction, kind) ==
  [id |-> b.id + step, external |-> NoId,
   link |-> CASE stage[b] = "none" -> NoId
              [] step = 2 /\ stage[b] # "none" /\ b \notin twice -> b.id
              [] OTHER -> b.id + step - 1,
   date |-> IF step = 0 THEN b.due ELSE today,
   amount |-> IF direction = "debit" THEN -b.amount ELSE b.amount, currency |-> world.home,
   direction |-> direction, category |-> b.category, status |-> status, kind |-> kind,
   words |-> "plain", verified |-> TRUE, flexibility |-> "fixed", least |-> 0]

Still == pc = "idle" /\ state = Nothing

Announce(b, status) ==
  /\ Still /\ stage[b] = "none" /\ today < b.due
  /\ rows' = rows \union {BillRow(b, 0, status, "debit", "expense")}
  /\ stage' = [stage EXCEPT ![b] = status]
  /\ UNCHANGED <<world, today, cash, twice, lived, request>>

\* The bank shows as pending what was scheduled.
Confirm(b) ==
  /\ Still /\ stage[b] = "scheduled" /\ today <= b.due
  /\ rows' = rows \union {BillRow(b, 1, "pending", "debit", "expense")}
  /\ stage' = [stage EXCEPT ![b] = "pending"]
  /\ twice' = twice \union {b}
  /\ UNCHANGED <<world, today, cash, lived, request>>

\* On the day it is due or before, whether it was announced or not.
Settle(b) ==
  /\ Still /\ stage[b] \in {"none", "scheduled", "pending"} /\ today <= b.due /\ b.amount <= cash
  /\ rows' = rows \union {BillRow(b, 2, "settled", "debit", "expense")}
  /\ cash' = cash - b.amount
  /\ stage' = [stage EXCEPT ![b] = "settled"]
  /\ UNCHANGED <<world, today, twice, lived, request>>

Withdraw(b, status) ==
  /\ Still /\ stage[b] \in {"scheduled", "pending"}
  /\ rows' = rows \union {BillRow(b, 2, status, "debit", "expense")}
  /\ stage' = [stage EXCEPT ![b] = "void"]
  /\ UNCHANGED <<world, today, cash, twice, lived, request>>

Refund(b) ==
  /\ Still /\ stage[b] = "settled"
  /\ rows' = rows \union {BillRow(b, 3, "settled", "credit", "refund")}
  /\ cash' = cash + b.amount
  /\ stage' = [stage EXCEPT ![b] = "refunded"]
  /\ UNCHANGED <<world, today, twice, lived, request>>

-----------------------------------------------------------------------------
(* The days a forecast comes true on *)

Unlived == [until |-> 0, bills |-> {}, salary |-> {}]

\* What a state says of bills and pay.
Says(s) ==
  [until |-> today + Horizon,
   bills |-> {[date |-> i.date, amount |-> i.amount, category |-> i.category, change |-> i.change] : i \in s.bills},
   salary |-> s.salary]

Forecast ==
  CASE world.follows = "engine" /\ state # Nothing -> Says(state)
    [] world.follows = "batch" /\ batch # Nothing -> Says(batch)
    [] OTHER -> lived

On(items, d) == {i \in items : i.date = d}
After(items, d) == {i \in items : d < i.date}

\* The rows of a day: one for the salary, and one for each bill.
PaidRow(k, d, amount, category, direction) ==
  [id |-> 10000 + 10 * d + k, external |-> NoId, link |-> NoId, date |-> d, amount |-> amount,
   currency |-> world.home, direction |-> direction, category |-> category, status |-> "settled",
   kind |-> IF direction = "debit" THEN "expense" ELSE "income", words |-> "plain",
   verified |-> TRUE, flexibility |-> "fixed", least |-> 0]

PassDay ==
  /\ pc \in {"idle", "answered"} /\ today < world.final
  /\ world.follows = "none" \/ Forecast # Unlived
  /\ LET d == today + 1
         bills == On(Forecast.bills, d)
         Number(i) == 1 + Cardinality({j \in bills : j.change < i.change})
     IN  /\ rows' = rows \union {PaidRow(Number(i), d, -i.amount, i.category, "debit") : i \in bills}
                      \union {PaidRow(0, d, i.amount, "salary", "credit") : i \in On(Forecast.salary, d)}
         /\ cash' = cash + Total(On(Forecast.salary, d)) - Total(bills)
         /\ lived' = [until |-> Forecast.until, bills |-> After(Forecast.bills, d),
                      salary |-> After(Forecast.salary, d)]
         /\ today' = d
  /\ pc' = "idle" /\ ask' = Nothing /\ worth' = 0
  /\ state' = Nothing /\ batch' = Nothing /\ decision' = Nothing /\ answer' = Nothing
  /\ UNCHANGED <<world, stage, twice>>

-----------------------------------------------------------------------------
(* An evaluation: evaluate_purchase of decision_service.py *)

\* validate_and_build; the request is dated the day it is made.
Ask(p) ==
  /\ Still /\ today \in world.days
  /\ ask' = p
  /\ IF p.amount > 0 /\ p.wait >= 0
     THEN pc' = "gate" /\ UNCHANGED answer
     ELSE pc' = "answered" /\ answer' = [kind |-> "invalid"]
  /\ UNCHANGED <<user, worth, state, batch, decision>>

MinimumHistory == 3
MaxStaleness == 90

Liquid == {a \in world.accounts : a.active /\ a.kind \in {"checking", "savings", "cash"}}

\* Mutant: the currencies of accounts are not looked at.
Sufficient_AnyAccount(known) ==
  /\ world.profile /\ world.minimum >= 0
  /\ Liquid # {} \/ cash > 0
  /\ \A a \in Liquid : a.balance # Unknown
  /\ Convertible(ask.currency, world.home, today)
  /\ Cardinality(known) >= MinimumHistory
  /\ \E r \in known : today - MaxStaleness <= r.date

\* DataQualityEvaluator.evaluate
Sufficient(known) ==
  /\ world.profile /\ world.minimum >= 0
  /\ Liquid # {} \/ cash > 0
  /\ \A a \in Liquid : a.balance # Unknown
  /\ \A c \in {a.currency : a \in Liquid} \union {ask.currency} : Convertible(c, world.home, today)
  /\ Cardinality(known) >= MinimumHistory
  /\ \E r \in known : today - MaxStaleness <= r.date

Known ==
  {r \in rows : r.verified /\ r.date <= today /\ r.status \in {"settled", "pending", "scheduled"}}

\* A rejection is recorded in the audit log only.
Gate ==
  /\ pc = "gate"
  /\ IF Sufficient(Known)
     THEN pc' = "convert" /\ UNCHANGED answer
     ELSE pc' = "answered" /\ answer' = [kind |-> "insufficient"]
  /\ UNCHANGED <<user, ask, worth, state, batch, decision>>

\* A PurchaseProposal of nothing raises ValueError, which nothing catches.
Convert ==
  /\ pc = "convert"
  /\ worth' = Converted(ask.amount, ask.currency, world.home, today)
  /\ IF worth' > 0
     THEN pc' = "build" /\ UNCHANGED answer
     ELSE pc' = "answered" /\ answer' = [kind |-> "error"]
  /\ UNCHANGED <<user, ask, state, batch, decision>>

\* reconcile_available_balance: the profile's own balance counts without accounts.
AvailableBalance ==
  IF Liquid = {} THEN cash
  ELSE SumFunction([a \in Liquid |-> Converted(a.balance, a.currency, world.home, today)])

\* Without a rate to the home currency, an account's balance raises too.
Reconciled == \A a \in Liquid : a.balance # Unknown /\ Convertible(a.currency, world.home, today)

Build ==
  /\ pc = "build"
  /\ LET R == Resolved(rows, world.home)
     IN  IF Reconciled
         THEN /\ ~Endless(R, today)
              /\ state' = EngineState(R, AvailableBalance, today)
              /\ pc' = "decide" /\ UNCHANGED answer
         ELSE pc' = "answered" /\ answer' = [kind |-> "error"] /\ UNCHANGED state
  /\ UNCHANGED <<user, ask, worth, batch, decision>>

\* The projection of a salary does not come to an end.
Hang ==
  /\ pc = "build" /\ Reconciled /\ Endless(Resolved(rows, world.home), today)
  /\ pc' = "stuck"
  /\ UNCHANGED <<user, ask, worth, state, batch, decision, answer>>
-----------------------------------------------------------------------------
(* What the engine may decide (see DecisionEngine) *)

Shares(w) == {a \in {0, 1, w \div 2, w - 1} : 0 <= a /\ a < w}
Part(d, a) == [date |-> d, amount |-> a]

\* earliest_date_for_full_payment is the one without spending changes, if there
\* is one, even if the plan depends on changes and completes before it.
DecisionOf(method, safe, parts, earliest, changes) ==
  [method |-> method, safe |-> safe, parts |-> parts, earliest |-> earliest, changes |-> changes]

Later30 == today + 30

FullPayments(w) ==
  {DecisionOf("full_payment", w, {Part(today, w)}, today, FALSE)} \union
  {DecisionOf("full_payment", s, {Part(today, w)}, today, TRUE) : s \in Shares(w)}

Waits(w) == {DecisionOf("wait", s, {Part(today + 9, w)}, today + 9, FALSE) : s \in Shares(w)}

PartialPayments(w) ==
  {DecisionOf("partial_payment", a, {Part(today, a), Part(today + 9, w - a)}, today + 9, FALSE) :
     a \in Shares(w) \ {0}} \union
  {DecisionOf("partial_payment", s, {Part(today, a), Part(today + 9, w - a)}, e, TRUE) :
     a \in Shares(w) \ {0}, s \in Shares(w) \intersect {0, 1}, e \in {today + 9, Later30}}

\* An option whose last payment lies before the request: there is no day of the
\* ledger left to take the minimum of, and the engine raises an exception.
Ended(o) == o.from + 30 * (o.count - 1) < 0
Running == {o \in ask.options : ~Ended(o)}

\* The seller's amounts are converted one by one.
SellersParts(o) ==
  {Part(today + o.from + 30 * i, Converted(o.amount, ask.currency, world.home, today)) : i \in 0..(o.count - 1)}

Installments(w) ==
  {DecisionOf("installments", s, SellersParts(o), Later30, FALSE) : o \in Running, s \in Shares(w)}

Refusals(w) == {DecisionOf("not_recommended", s, {}, NoDate, FALSE) : s \in Shares(w)}

\* In the home currency the decision is the answer: one stands for all.
Possible(w) ==
  IF ask.currency = world.home THEN {DecisionOf("not_recommended", 0, {}, NoDate, FALSE)}
  ELSE FullPayments(w) \union Waits(w) \union PartialPayments(w) \union Installments(w) \union Refusals(w)

Decide(d) ==
  /\ decision' = d
  /\ pc' = "report"
  /\ UNCHANGED <<user, ask, worth, state, batch, answer>>

\* Only for a user who considers installments, about which the model leaves open.
EngineFails ==
  /\ pc = "decide" /\ \E o \in ask.options : Ended(o)
  /\ pc' = "answered" /\ answer' = [kind |-> "error"]
  /\ UNCHANGED <<user, ask, worth, state, batch, decision>>

-----------------------------------------------------------------------------
(* The report, in the currency of the purchase *)

Foreign == ask.currency # world.home

RateBack == Reciprocal(Rate(ask.currency, world.home, today))
Back(a) == Rounded(a * RateBack, Precision)
Smaller(a, b) == IF a < b THEN a ELSE b

SafeBack ==
  IF decision.safe >= worth THEN ask.amount
  ELSE IF decision.safe <= 0 THEN 0
  ELSE Smaller(ask.amount, Back(decision.safe))

\* Mutant: both parts are converted.
PartsBack_Each == {Part(p.date, Back(p.amount)) : p \in decision.parts}

\* Two parts are made anew of what is reported; other plans are converted.
PartsBack ==
  IF decision.method = "partial_payment"
  THEN {Part(today, SafeBack), Part(decision.earliest, ask.amount - SafeBack)}
  ELSE {Part(p.date, Back(p.amount)) : p \in decision.parts}

Report ==
  /\ pc = "report"
  /\ answer' = [kind |-> "decision", method |-> decision.method,
                safe |-> IF Foreign THEN SafeBack ELSE decision.safe,
                parts |-> IF Foreign THEN PartsBack ELSE decision.parts]
  /\ pc' = "persist"
  /\ UNCHANGED <<user, ask, worth, state, batch, decision>>

\* The purchase, the decision and the audit event are committed together, or
\* rolled back and the call fails.
Persist(committed) ==
  /\ pc = "persist"
  /\ pc' = "answered"
  /\ IF committed THEN UNCHANGED answer ELSE answer' = [kind |-> "error"]
  /\ UNCHANGED <<user, ask, worth, state, batch, decision>>

\* The batch program on the same data.
RunBatch ==
  /\ pc = "answered" /\ state # Nothing /\ batch = Nothing
  /\ LET R == BatchResolved(EventsOf(rows) \union world.unread, world.pictures, world.home)
     IN  batch' = IF world.version = "older" THEN OlderState(R, AvailableBalance, today, world.messages)
                  ELSE BatchState(R, AvailableBalance, today, world.messages, TRUE, world.version = "filtered")
  /\ UNCHANGED <<user, pc, ask, worth, state, decision, answer>>

\* Nothing more happens.
Rest == (pc \in {"answered", "stuck"} \/ today = world.final) /\ UNCHANGED vars

Init ==
  /\ world \in Worlds
  /\ today = world.first /\ rows = world.rows /\ cash = world.cash
  /\ stage = [b \in world.bills |-> "none"] /\ twice = {}
  /\ pc = "idle" /\ ask = Nothing /\ worth = 0 /\ state = Nothing /\ batch = Nothing
  /\ decision = Nothing /\ answer = Nothing /\ lived = Unlived

Next ==
  \/ \E b \in world.bills :
       \/ \E status \in {"scheduled", "pending"} : Announce(b, status)
       \/ Confirm(b)
       \/ Settle(b)
       \/ \E status \in {"cancelled", "failed"} : Withdraw(b, status)
       \/ Refund(b)
  \/ PassDay
  \/ \E p \in world.purchases : Ask(p)
  \/ Gate
  \/ Convert
  \/ Build
  \/ Hang
  \/ pc = "decide" /\ \E d \in Possible(worth) : Decide(d)
  \/ EngineFails
  \/ Report
  \/ \E committed \in BOOLEAN : Persist(committed)
  \/ RunBatch
  \/ Rest

Spec == Init /\ [][Next]_vars
-----------------------------------------------------------------------------
(* Properties *)

Answers == {"invalid", "insufficient", "error", "decision"}

TypeOK ==
  /\ world \in Worlds /\ today \in Date /\ rows \subseteq Row /\ cash \in Int
  /\ stage \in [world.bills -> {"none", "scheduled", "pending", "settled", "void", "refunded"}]
  /\ twice \subseteq {b \in world.bills : stage[b] \notin {"none", "scheduled"}}
  /\ pc \in {"idle", "gate", "convert", "build", "decide", "report", "persist", "answered", "stuck"}
  /\ ask \in world.purchases \union {Nothing} /\ worth \in Int
  /\ \A s \in {state, batch} \ {Nothing} :
       /\ s.starting \in Int
       /\ \A i \in s.debits \union s.bills : i.date \in today..(today + Horizon) /\ i.amount >= 0
       /\ \A i \in s.income \union s.salary : i.date \in today..(today + Horizon) /\ i.amount >= 0
  /\ answer # Nothing => answer.kind \in Answers
  /\ lived.until \in Nat

In(status) == {b \in world.bills : stage[b] = status}

\* The identifiers of a bill's rows.
Numbers(b) == b.id..(b.id + 3)

\* A user with a history of settled rows, whose bills are new to it: in identifiers, of
\* which no two rows share one, in links and in categories.  No messages are read, and
\* no forecast is lived after, for as long as spending is looked back on.
Quiet(w) ==
  /\ w.follows = "none" /\ w.messages = <<>> /\ w.unread = {} /\ w.final <= w.first + Lookback
  /\ \A r, s \in w.rows : EventOf(r).id = EventOf(s).id => r = s
  /\ \A r \in w.rows : r.status = "settled"
  /\ \A b \in w.bills :
       /\ b.category \notin {"transfer", "internal_transfer"}
       /\ Numbers(b) \subseteq Ids
       /\ \A c \in w.bills \ {b} : Numbers(b) \intersect Numbers(c) = {}
       /\ \A r \in w.rows : r.category # b.category /\ EventOf(r).id \notin Numbers(b) /\ r.link \notin Numbers(b)

\* Whatever has become of the user's bills, each counts once in the state the
\* engine and the batch program work from: as a debit still to come, as money
\* reserved, as spending of the past, or, void or refunded, not at all.  A bill
\* announced a second time is the exception: until its due day its first
\* announcement stays a debit to come, besides what has become of the bill,
\* because nothing but a settled, void or refunded row replaces another.
\* (resolve_events, state/builder.py; a bill due today is in nobody's forecast.)
CountedOnce ==
  /\ \A s \in {state, batch} \ {Nothing} :
       /\ s.starting = AvailableBalance - Total(In("pending"))
       /\ {<<i.change, i.date, i.amount>> : i \in s.debits} =
            {<<b.id, b.due, b.amount>> :
               b \in {x \in In("scheduled") \union twice : today < x.due /\ x.due <= today + Horizon}}
       /\ \A b \in world.bills : b.category \in {i.category : i \in s.bills \union {x.item : x \in s.burns}} =>
            \E x \in In("settled") \union In("pending") : x.category = b.category
  /\ state # Nothing => \A c \in VariableCategories \intersect {b.category : b \in world.bills} :
       {x.item.amount : x \in {y \in state.burns : y.item.category = c}} =
         {Total({b \in In("settled") : b.category = c})} \ {0}

Of(R, c) == {e \in R : e.category = c}

\* One event a month since some month, on the same day of each, until day u.
Monthly(E, u) ==
  \E m, n \in Months, dom \in 1..28 :
    /\ m < n
    /\ {e.date : e \in E} = {DateIn(k, dom) : k \in m..n}
    /\ \A e, f \in E : e.date = f.date => e = f
    /\ DateIn(n, dom) <= u /\ \A k \in Months : n < k => u < DateIn(k, dom)

\* Bills and pay until day u, each with a day of the month of its own.
Punctual(R, u) ==
  \A c \in FixedCategories \union {"salary"} :
    /\ Of(R, c) # {} => Monthly(Of(R, c), u)
    /\ \A e \in Of(R, c) :
         /\ e.amount > 0 /\ e.words = "plain"
         /\ e.direction = IF c = "salary" THEN "credit" ELSE "debit"

\* What has happened, and takes nothing back.
Plainly(r) == r.status = "settled" /\ r.direction \in {"debit", "credit"} /\ r.kind \in {"expense", "income"}

\* The same amount at home every time, and no spending besides.
Even(R, home, older) ==
  /\ \A c \in FixedCategories \union {"salary"} : \A e, f \in Of(R, c) :
       e.currency = home /\ e.amount = f.amount
  /\ older => \A e \in R : e.category \notin VariableCategories

\* A user whose bills and pay come on their days every month, of any amounts if it is
\* the engine whose forecast comes true; the batch program takes the middle of two
\* amounts, which moves as it is paid.  The days that are lived after a forecast are
\* among those it looks at.
Regular(w) ==
  /\ w.bills = {} /\ \A r \in w.rows : Plainly(r)
  /\ Punctual(Resolved(w.rows, w.home), w.first)
  /\ w.follows # "none" => w.final <= w.first + Horizon
  /\ w.follows = "batch" =>
       w.messages = <<>> /\ w.unread = {} /\ Even(Resolved(w.rows, w.home), w.home, w.version = "older")

Due(items, until) ==
  {<<i.date, i.amount, i.category>> : i \in {x \in items : today < x.date /\ x.date <= until}}

\* A forecast that comes true is made again: after days on which the bills and
\* the pay it named were paid as it said, the next one says the same of every
\* day both look at.  (Projections of state/builder.py and financial_state.py.)
ForecastComesTrue ==
  LET s == IF world.follows = "batch" THEN batch ELSE state
  IN  s # Nothing /\ lived # Unlived =>
        /\ Due(s.bills, lived.until) = Due(lived.bills, lived.until)
        /\ Due(s.salary, lived.until) = Due(lived.salary, lived.until)

\* Behind the data quality gate an evaluation fails for four reasons only: the
\* purchase is worth less than half a cent at home; the engine meets an option that
\* ended before the request; the commit of the decision is rolled back; or salaries
\* came so close together that their projection does not end.  No rate of the
\* purchase or of an account, no balance and no history is missing there.
\* (data_quality.py against state_adapter.py, fx.py and safe_amount.py)
GateSuffices ==
  /\ answer = [kind |-> "error"] =>
       \/ state = Nothing /\ 2 * ask.amount * Rate(ask.currency, world.home, today) <= Precision
       \/ state # Nothing /\ decision = Nothing /\ \E o \in ask.options : Ended(o)
       \/ decision # Nothing
  /\ pc = "stuck" => \E s \in rows :
       Cardinality({r \in rows : r.category = "salary" /\ r.date \in s.date..(s.date + 2)}) >= 3

Difference(a, b) == IF a < b THEN b - a ELSE a - b

\* Twice what is lost by rounding there and back: half a cent at home, half a
\* unit of the rate on each cent, and half a cent of the purchase.
TwiceLoss(home) == Precision \div Rate(ask.currency, world.home, today) + home \div Precision + 3

\* The plan reported for a foreign purchase pays for it: in two parts exactly,
\* otherwise but for the rounding, on the days decided unless the plan depends
\* on spending changes; and the safe amount is between nothing and the price.
\* (services/decision_service.py)
ForeignPlansAddUp ==
  pc \in {"persist", "answered"} /\ answer # Nothing /\ answer.kind = "decision" /\ Foreign =>
    /\ 0 <= answer.safe /\ answer.safe <= ask.amount
    /\ decision.safe = worth => answer.safe = ask.amount
    /\ answer.method = "partial_payment" => Total(answer.parts) = ask.amount
    /\ answer.method \in {"full_payment", "wait"} =>
         2 * Difference(Total(answer.parts), ask.amount) <= TwiceLoss(worth)
    /\ answer.method = "installments" => \E o \in ask.options :
         /\ Cardinality(answer.parts) = o.count
         /\ \A x \in answer.parts : 2 * Difference(x.amount, o.amount)
              <= TwiceLoss(Converted(o.amount, ask.currency, world.home, today))
    /\ ~decision.changes => {x.date : x \in answer.parts} = {x.date : x \in decision.parts}

\* The streams shown for a state and its forecast agree on when a regular monthly
\* bill is next due, except in the month of the last one: the forecast may have
\* the bill again in the month in which it was paid early.
\* (recurrence/cadence.py against _project_fixed_category)
StreamsAgreeWithForecast ==
  state # Nothing =>
    LET R == Resolved(rows, world.home)
    IN  \A s \in {x \in StreamsOf(R, today) : x.day # NoDay /\ x.key[1] \in FixedCategories} :
          s.class \in {"confirmed_recurring", "strong_recurring"} /\ s.gap[1] \in (25 * s.gap[2])..(35 * s.gap[2]) =>
            LET items == {i.date : i \in FixedItems(R, s.key[1], today)}
            IN  NextDates(s, today) = {d \in items : MonthOf[d] # MonthOf[s.last]}
=============================================================================
