------------------------------ MODULE CashHistory ------------------------------
(***************************************************************************)
(* From the transactions a user's accounts have recorded to the events the  *)
(* engine counts: which rows are left out (services/state_adapter.py), how  *)
(* a row becomes an event (mappers/transaction_mapper.py), which events a   *)
(* later one replaces, what the rest mean for cash, and what they are worth *)
(* in the home currency (state/builder.py, and code/event_lifecycle.py and  *)
(* code/currency.py for the batch program).                                 *)
(*                                                                          *)
(* A description is kept only as what the code looks for in it.             *)
(***************************************************************************)
EXTENDS ExchangeRates, Sequences

CONSTANTS
  Ids,       \* of rows and of events, in the order they were written
  NoId,
  Categories,
  Words      \* descriptions

ASSUME IdsAssumption == Ids \subseteq Nat /\ NoId \notin Ids /\ NoId \in Int

Unknown == -1  \* an amount the data does not give

Directions == {"debit", "credit", "non_cash"}
Statuses == {"settled", "pending", "scheduled", "cancelled", "failed", "unrealized"}
Flexibilities == {"fixed", "stoppable", "reducible", "reducible_or_stoppable"}

\* What the state depends on of a row of transactions; amounts are signed.
Row ==
  [id : Ids, external : Ids \union {NoId}, link : Ids \union {NoId}, date : Nat, amount : Int,
   currency : Currencies, direction : Directions, category : Categories, status : Statuses,
   kind : {"expense", "income", "refund", "investment_valuation", "investment_sale", "non_cash"},
   words : Words, verified : BOOLEAN, flexibility : Flexibilities, least : Nat]

\* filter_and_map_transactions
Counts(r) ==
  /\ r.verified
  /\ r.category \notin {"transfer", "internal_transfer"}
  /\ r.kind # "non_cash"
  /\ r.words # "internal transfer"

\* to_domain_dto: a link names a row, but events go by their external identifier.
EventOf(r) ==
  [r EXCEPT !.id = IF r.external # NoId THEN r.external ELSE r.id,
            !.amount = IF r.amount < 0 THEN -r.amount ELSE r.amount]

EventsOf(rows) == {EventOf(r) : r \in {x \in rows : Counts(x)}}

-----------------------------------------------------------------------------
(* resolve_events, resolve_user_events *)

\* Mutant: what is cancelled or fails leaves what was announced.
Replaces_Settled(e, o) ==
  /\ e.link = o.id
  /\ \/ e.direction = "non_cash" \/ e.kind \in {"refund", "investment_valuation", "investment_sale"}
     \/ e.status = "settled" /\ o.status \in {"pending", "scheduled"}

Replaces(e, o) ==
  /\ e.link = o.id
  /\ \/ e.direction = "non_cash" \/ e.kind \in {"refund", "investment_valuation", "investment_sale"}
     \/ e.status \in {"settled", "cancelled", "failed"} /\ o.status \in {"pending", "scheduled"}

Superseded(events) == {o \in events : \E e \in events : Replaces(e, o)}

\* _classify_cash_type
CashType(e) ==
  CASE e.direction = "non_cash" -> "NON_CASH"
    [] e.direction # "non_cash" /\ e.status = "unrealized" -> "NON_CASH"
    [] e.direction = "debit" /\ e.status \in {"settled", "pending"} -> "IMMEDIATE_DEBIT"
    [] e.direction = "credit" /\ e.status = "settled" -> "SETTLED_INCOME"
    [] e.direction = "debit" /\ e.status = "scheduled" -> "FUTURE_DEBIT"
    [] e.direction = "credit" /\ e.status = "scheduled" -> "CONFIRMED_INCOME"
    [] OTHER -> "VOID"

\* _convert_to_home: without a rate the amount is kept as it is.
InHome(e, home) ==
  IF Convertible(e.currency, home, e.date) THEN Converted(e.amount, e.currency, home, e.date)
  ELSE e.amount

\* An event that counts, with the amounts in the home currency.
Resolve(events, Worth(_)) ==
  {[e EXCEPT !.amount = Worth(e)] : e \in {x \in events \ Superseded(events) : CashType(x) # "VOID"}}

Resolved(rows, home) == Resolve(EventsOf(rows), LAMBDA e : InHome(e, home))

-----------------------------------------------------------------------------
(* The batch program: rates of the day itself only, the second leg on cents *)

Quoted(f, t, d) == {r \in Published : r.from = f /\ r.to = t /\ r.date = d}

\* FXEngine.convert of code/currency.py, where the day has a rate
DayConverted(a, f, t, d) ==
  IF f = t THEN a ELSE Rounded(a * (CHOOSE r \in Quoted(f, t, d) : TRUE).rate, Precision)

HasQuote(f, t, d) == f = t \/ Quoted(f, t, d) # {}

\* to_home, and the raw amount where it raises
BatchWorth(e, home) ==
  IF HasQuote(e.currency, home, e.date) THEN DayConverted(e.amount, e.currency, home, e.date)
  ELSE IF HasQuote(e.currency, USD, e.date) /\ HasQuote(USD, home, e.date)
       THEN DayConverted(DayConverted(e.amount, e.currency, USD, e.date), USD, home, e.date)
  ELSE e.amount
=============================================================================
