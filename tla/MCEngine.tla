------------------------------ MODULE MCEngine ------------------------------
(* Instances of DecisionEngine, BatchPlanning and RiskLayer for TLC. *)
EXTENDS RiskLayer

CONSTANTS dining, gym

\* Variable expenses by a quarter, those of fixed categories not at all.
Factors == [c \in Categories |-> IF c = dining THEN 1250 ELSE 900]

\* Daily expenses, a subscription, and a repair too cheap to reduce.
Debits ==
  [s \in Streams |->
     CASE s = "daily" -> [dates |-> 1..Horizon, amount |-> 2, floor |-> 1, category |-> dining,
                          flexibility |-> "reducible_or_stoppable"]
       [] s = "fee" -> [dates |-> {2}, amount |-> 3, floor |-> 0, category |-> gym,
                        flexibility |-> "stoppable"]
       [] s = "repair" -> [dates |-> {3}, amount |-> 2, floor |-> 3, category |-> dining,
                           flexibility |-> "reducible_or_stoppable"]]

\* Income and fixed debits of the last two days.
Flow(b, c) == [d \in Day |-> IF d = 2 THEN b ELSE IF d = 3 THEN c ELSE 0]
Seller(first, every, count, amount, total) ==
  [first |-> first, every |-> every, count |-> count, amount |-> amount, total |-> total]

\* Balances and incomes around the amounts asked for; each flexibility, deadline
\* and mix of methods; options that cost more or less, or end before today.
MixedInputs ==
  {[starting |-> start, minimum |-> 1, flow |-> Flow(b, c),
    streams |-> Debits, protected |-> protected, stoppable |-> stop, reducible |-> {dining},
    methods |-> methods, maxDays |-> 2, amount |-> amount, deadline |-> deadline,
    partial |-> TRUE, options |-> options] :
      start \in {4, 9, 13}, b \in {0, 9}, c \in {-3, 6}, protected \in {{}, {gym}},
      stop \in {{}, {gym}, {dining, gym}}, amount \in {2, 6}, deadline \in {0, 2, 3},
      methods \in {{"full_payment"}, {"installments", "partial_payment"}, Methods},
      options \in {{}, {Seller(0, 1, 2, 3, 6), Seller(1, 1, 3, 2, 7), Seller(0, 3, 2, 3, 6)},
                   {Seller(-2, 1, 2, 3, 6)}, {Seller(-1, 1, 3, 1, 3)}}}

\* The user pays in full or not at all, and may stop anything that can be stopped.
FullOnly ==
  {i \in MixedInputs : /\ i.methods = {"full_payment"} /\ i.options = {}
                       /\ i.stoppable = {dining, gym}}
=============================================================================
