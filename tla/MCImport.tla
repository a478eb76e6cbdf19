------------------------------ MODULE MCImport ------------------------------
(* Instances of ImportPipeline, of its refinement and of the parser for TLC. *)
EXTENDS StatementImport, TLC

CONSTANTS u1, u2, f1, f2, a1, a2, k1, k2, r1, r2, r3, r4, r5

\* The descriptions of these statements and what the parser sees in them.
MCMentions ==
  "SHOP" :> {"shopping"} @@ "BAKERY, 1 MAIN ST, TOWN, WA" :> {"dining"} @@
  "CREDIT CARD PAYMENT" :> {"debt", "CR"} @@ "DIRECT DEBIT" :> {"DR"} @@
  "VENMO ANN" :> {"transfer"} @@
  "TRANSFER TO SAVINGS" :> {"own transfer", "transfer word", "transfer"}

MCNames == DOMAIN MCMentions

Bakery == "BAKERY, 1 MAIN ST, TOWN, WA"

MCSeparators ==
  [n \in MCNames |-> [c \in ToSet(Delimiters) |->
     CASE n = Bakery /\ c = "comma" -> 3
       [] n = "VENMO ANN" /\ c = "pipe" -> 4
       [] OTHER -> 0]]

Layouts ==
  [titles : {<<"Date", "Description", "Amount">>, <<"Date", "Value Date", "Description", "Amount">>,
             <<"Date", "Reference", "Description", "Amount">>,
             <<"Date", "Details", "Type", "Amount", "Currency", "Balance">>},
   signs : {"minus", "inverted"}, filler : {"blank"}]
  \union
  [titles : {<<"Date", "Details", "Type", "Amount">>, <<"Date", "Details", "Amount", "Dr/Cr">>},
   signs : {"words"}, filler : {"blank"}]
  \union
  [titles : {<<"Posting Date", "Narration", "Withdrawal", "Deposit", "Balance">>,
             <<"Date", "Description", "Debit", "Credit">>},
   signs : {"columns"}, filler : {"blank", "zero"}]

BankStyles ==
  {[titles |-> l.titles, signs |-> l.signs, filler |-> l.filler, separator |-> separator,
    order |-> d.order, sep |-> d.sep, mark |-> mark, currency |-> currency] :
      l \in Layouts, separator \in {"comma", "semicolon"}, mark \in {"point", "comma"}, currency \in {"USD", "EUR"},
      d \in [order : {"DMY", "MDY"}, sep : {"slash", "hyphen", "dot"}] \union {IsoDate}}

Dates == {[day |-> 5, month |-> 6], [day |-> 25, month |-> 6], [day |-> 7, month |-> 7]}

BankMovements ==
  {[day |-> d.day, month |-> d.month, cents |-> cents, balance |-> 100000000 + 10000 * cents, name |-> n] :
      d \in Dates, cents \in {-1250, 1250, -123456}, n \in DOMAIN MCMentions}

LaterMovements == {m \in BankMovements : m.cents = -1250 /\ m.name \in {"SHOP", Bakery}}

\* One row, two rows, or more with as many commas as there are.
BankStatements ==
  {<<m>> : m \in BankMovements} \union {<<m, n>> : m \in BankMovements, n \in LaterMovements} \union
  {[i \in 1..n |-> m] : n \in 3..5, m \in {x \in BankMovements : x.cents = -123456 /\ x.name = Bakery}}

-----------------------------------------------------------------------------
(* What the pipeline makes of a statement *)

\* What the hash of a row is computed from.
ReadKey(r) == <<r.date, r.amount, r.text>>

ReadRows(titles, rows) ==
  ReadStatement([titles |-> titles, separator |-> "comma", rows |-> rows], FALSE)

\* Rows of a statement with two columns of amounts: 12.50 spent on a day of June.
Spent(day, n) ==
  <<DateCell("slash", day, 6), Text(n), Number(1250, FALSE, "point"), Number(0, FALSE, "point")>>
Undated(day, n) == [Spent(day, n) EXCEPT ![1] = Blank]
BothWays(day, n) == [Spent(day, n) EXCEPT ![4] = Number(300, FALSE, "point")]

TwoColumns == <<"Date", "Description", "Debit", "Credit">>

Read(rows) == ReadRows(TwoColumns, rows)

\* Their two movements are k1 and k2.
KeyOf(r) ==
  IF ReadKey(r) = ReadKey(Read(<<Spent(5, "SHOP")>>)[1]) THEN k1 ELSE k2

SourceRowOf(r) == [kind |-> r.kind, key |-> IF r.kind = "clean" THEN KeyOf(r) ELSE k1]

Parsed(rows) == FoldLeft(LAMBDA done, r : Append(done, SourceRowOf(r)), <<>>, Read(rows))

First == Parsed(<<Spent(5, "SHOP"), Spent(6, "SHOP")>>)
Overlapping == Parsed(<<Spent(6, "SHOP"), BothWays(5, "SHOP"), Spent(6, "SHOP")>>)
Mixed ==
  Parsed(<<Spent(5, "SHOP"), Spent(6, "SHOP"), Undated(5, "SHOP"), BothWays(6, "SHOP"),
           Spent(5, "SHOP")>>)
OneAmbiguous == Parsed(<<BothWays(5, "SHOP")>>)
OtherAmbiguous == Parsed(<<BothWays(6, "SHOP")>>)

\* Two statements that overlap in a row; the second needs review.
OverlappingStatements == [f \in {f1, f2} |-> IF f = f1 THEN First ELSE Overlapping]

\* One statement with two movements, one of them repeated, an unreadable row
\* and an ambiguous row.
MixedStatement == [f \in {f1} |-> Mixed]

\* One statement that never needs review.
CleanStatement == [f \in {f1} |-> First]

\* Two statements with one ambiguous row each.
AmbiguousStatements == [f \in {f1, f2} |-> IF f = f1 THEN OneAmbiguous ELSE OtherAmbiguous]

RequestSymmetry == Permutations(Requests)
=============================================================================
