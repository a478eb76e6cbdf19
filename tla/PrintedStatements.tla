--------------------------- MODULE PrintedStatements ---------------------------
(***************************************************************************)
(* What banks print, and when StatementParsing reads it back.               *)
(*                                                                          *)
(* A style is how a bank prints all of its statements: the titles of the    *)
(* columns, the separator, the spelling of dates, the decimal mark, how it  *)
(* tells money out from money in, what it prints in the other of two        *)
(* columns, and the currency of the account.  The user gives the right sign *)
(* convention with the upload.                                              *)
(***************************************************************************)
EXTENDS StatementParsing

CONSTANTS
  Transfers, \* names of transfers between the user's own accounts
  Styles,    \* how banks print their statements
  Statements \* what they print: sequences of movements

\* In cents, below a million million.
Amounts == {a \in Int : (Size(a) \div 100) \div 1000000 < 1000000}

\* Cents are negative where money goes out; the balance is the one after the movement.
Movement == [day : 1..31, month : 1..12, cents : Amounts \ {0}, balance : Amounts, name : Names]

ASSUME StatementsAssumption == \A ms \in Statements : ms \in Seq(Movement)

DateTitles == {"Date", "Posting Date", "Value Date"}
TextTitles == {"Description", "Narration", "Details"}
OutTitles == {"Debit", "Withdrawal"}
InTitles == {"Credit", "Deposit"}

Titled(style, titles) == {i \in 1..Len(style.titles) : style.titles[i] \in titles}

\* Amounts are in two columns, or in one with signs or words that tell the direction.
AmountsArePrinted(style) ==
  LET out == Titled(style, OutTitles)
      in  == Titled(style, InTitles)
      one == Titled(style, {"Amount"})
  IN  \/ style.signs = "columns" /\ Cardinality(out) = 1 /\ Cardinality(in) = 1 /\ one = {}
      \/ /\ style.signs \in {"minus", "inverted", "words"}
         /\ out = {} /\ in = {} /\ Cardinality(one) = 1
         /\ style.signs = "words" => Titled(style, {"Type", "Dr/Cr"}) # {}

IsStyle(style) ==
  /\ style.titles \in Seq(STRING) /\ Titled(style, TextTitles) # {}
  /\ style.separator \in ToSet(Delimiters)
  /\ \/ style.order \in {"DMY", "MDY"} /\ style.sep \in {"slash", "hyphen", "dot"}
     \/ style.order = "YMD" /\ style.sep = "iso"
  /\ AmountsArePrinted(style)

ASSUME StylesAssumption == \A style \in Styles : IsStyle(style)

IsoDate == [order |-> "YMD", sep |-> "iso"]

PrintedDate(style, m) ==
  IF style.order = "DMY" THEN DateCell(style.sep, m.day, m.month)
  ELSE DateCell(style.sep, m.month, m.day)

PrintedNumber(style, m, negative) == Number(Size(m.cents), negative, style.mark)

Other(style) == IF style.filler = "zero" THEN Number(0, FALSE, style.mark) ELSE Blank

\* What a column with this title holds.
PrintedCell(style, m, title) ==
  CASE title \in DateTitles -> PrintedDate(style, m)
    [] title \in TextTitles -> Text(m.name)
    [] title \in OutTitles ->
         IF m.cents < 0 THEN PrintedNumber(style, m, FALSE) ELSE Other(style)
    [] title \in InTitles ->
         IF m.cents > 0 THEN PrintedNumber(style, m, FALSE) ELSE Other(style)
    [] title = "Amount" ->
         PrintedNumber(style, m, CASE style.signs = "minus"    -> m.cents < 0
                                   [] style.signs = "inverted" -> m.cents > 0
                                   [] OTHER                    -> FALSE)
    [] title = "Type" /\ style.signs # "words" -> CategoryCell(Mentions[m.name])
    [] title \in {"Type", "Dr/Cr"} /\ style.signs = "words" -> Indicator(IF m.cents < 0 THEN "DR" ELSE "CR")
    [] title = "Currency" -> CurrencyCell(style.currency)
    [] title = "Balance" -> Number(Size(m.balance), m.balance < 0, style.mark)
    [] OTHER -> Blank

PrintedRow(style, m) ==
  [i \in 1..Len(style.titles) |-> PrintedCell(style, m, style.titles[i])]

Printed(style, ms) ==
  [titles |-> style.titles, separator |-> style.separator,
   rows |-> [i \in 1..Len(ms) |-> PrintedRow(style, ms[i])]]

Upload(style, ms) == ReadStatement(Printed(style, ms), style.signs = "inverted")

\* What the row of a movement should be read as.
Meant(style, m) ==
  [kind |-> "clean", date |-> [month |-> m.month, day |-> m.day], amount |-> m.cents * 100,
   text |-> Text(m.name), currency |-> style.currency, leftOut |-> m.name \in Transfers]

-----------------------------------------------------------------------------
(* When it is clear what is meant *)

\* One column for dates and one for descriptions, and none that tells both directions.
ColumnsAreClear(style) ==
  /\ Cardinality(Titled(style, DateTitles)) = 1
  /\ Cardinality(Titled(style, TextTitles \union {"Reference"})) = 1
  /\ Titled(style, {"Dr/Cr"}) = {}

\* In each of the first rows there are, in amounts, balances and descriptions, no more
\* of any other candidate than there are separators between the cells.
SeparatorIsClear(style, ms) ==
  \A i \in 1..Len(ms) : i <= 4 => \A c \in ToSet(Delimiters) \ {style.separator} :
    HeldIn(PrintedRow(style, ms[i]), c) <= Len(style.titles) - 1

\* No amount is written with a decimal comma.
NumbersAreClear(style) == style.mark = "point"

\* The month comes first only with slashes, and then this date or a sampled one
\* shows it, or it makes no difference.
DateIsClear(style, ms, i) ==
  \/ style.order # "MDY"
  \/ ms[i].day = ms[i].month
  \/ /\ style.sep = "slash"
     /\ \/ ms[i].day > 12
        \/ \E j \in 1..Len(ms) : j <= Sampled /\ ms[j].day > 12

\* Where one column holds all amounts, the description does not name the other
\* direction; a deposit that is marked as such may.
DirectionIsClear(style, m) ==
  LET words == Mentions[m.name] \intersect {"DR", "CR"}
  IN  \/ Titled(style, {"Amount"}) = {}
      \/ words \subseteq {IF m.cents < 0 THEN "DR" ELSE "CR"}
      \/ style.signs = "words" /\ m.cents > 0

CurrencyIsClear(style) == style.currency = "USD" \/ Titled(style, {"Currency"}) # {}

\* Only transfers between the user's accounts are worded like transfers.
PurposeIsClear(m) == m.name \in Transfers <=> LeftOut(m.name, Blank)

IsClear(style, ms, i) ==
  /\ ColumnsAreClear(style)
  /\ SeparatorIsClear(style, ms)
  /\ NumbersAreClear(style)
  /\ DateIsClear(style, ms, i)
  /\ DirectionIsClear(style, ms[i])
  /\ CurrencyIsClear(style)
  /\ PurposeIsClear(ms[i])

\* Every row that is clear is read with the date, the sign, the amount and the
\* currency that the bank meant, whatever its other rows make of the format.
ReadAsMeant(style, ms) ==
  LET rows == Upload(style, ms)
  IN  \A i \in 1..Len(ms) : IsClear(style, ms, i) => i \in DOMAIN rows /\ rows[i] = Meant(style, ms[i])
=============================================================================
