--------------------------- MODULE StatementParsing ---------------------------
(***************************************************************************)
(* From the cells of an uploaded statement to dated, signed, categorized    *)
(* rows: the separator, the columns and the date format are told from the   *)
(* file (dialect.py, csv_parser.py), then each row is read on its own       *)
(* (normalizer.py, categorizer.py, transfers.py, and the row loop of        *)
(* service.py up to the duplicate check, which ImportPipeline models).      *)
(*                                                                          *)
(* A cell is what it looks like: blank, a text, a date in some spelling or  *)
(* a number in some notation.  Years are left out, as every spelling gives  *)
(* them alike, and so are spellings that can be read in one way only: iso   *)
(* stands for them.  Amounts read are in units of 0.0001.                   *)
(***************************************************************************)
EXTENDS Integers, SequencesExt

CONSTANTS
  Names,      \* descriptions, without the reference numbers at their end
  Mentions,   \* Mentions[n]: the rules, DR/CR words and transfer words that n matches
  Separators, \* Separators[n][c]: how many of the separator c there are in n
  Sampled     \* rows whose dates decide the format; 10 in the code

Delimiters == <<"comma", "semicolon", "tab", "pipe">>

ASSUME SeparatorsAssumption == Separators \in [Names -> [ToSet(Delimiters) -> Nat]]

Blank == [kind |-> "blank"]
Text(n) == [kind |-> "text", name |-> n]
DateCell(sep, first, second) == [kind |-> "date", sep |-> sep, first |-> first, second |-> second]
Number(cents, negative, mark) ==
  [kind |-> "number", cents |-> cents, negative |-> negative, mark |-> mark]
Indicator(word) == [kind |-> "indicator", word |-> word]
CategoryCell(names) == [kind |-> "category", names |-> names]
CurrencyCell(c) == [kind |-> "currency", code |-> c]

\* A statement: [titles, separator, rows], a row being a sequence of cells.
Cell(row, i) == IF i \in 1..Len(row) THEN row[i] ELSE Blank

-----------------------------------------------------------------------------
(* The dialect *)

Roles == <<"date", "description", "debit", "credit", "amount", "currency", "category", "balance">>

\* Titles that are, or contain, a synonym of each role: "description" contains "cr".
Synonyms ==
  [date        |-> {"Date", "Posting Date", "Value Date"},
   description |-> {"Description", "Narration", "Details", "Reference"},
   debit       |-> {"Debit", "Withdrawal", "Dr/Cr"},
   credit      |-> {"Credit", "Deposit", "Dr/Cr", "Description"},
   amount      |-> {"Amount", "Value Date"},
   currency    |-> {"Currency"},
   category    |-> {"Type"},
   balance     |-> {"Balance"}]

MatchColumn(title, role) == title \in Synonyms[role]

\* Title i takes the first role it matches that is free.
Take(cols, title, i) ==
  LET role == SelectInSeq(Roles, LAMBDA r : cols[r] = 0 /\ MatchColumn(title, r))
  IN  IF role = 0 THEN cols ELSE [cols EXCEPT ![Roles[role]] = i]

\* detect_columns: 0 is None.
Columns(titles) ==
  LET taken[i \in 0..Len(titles)] ==
        IF i = 0 THEN [r \in DOMAIN Synonyms |-> 0] ELSE Take(taken[i - 1], titles[i], i)
      cols == taken[Len(titles)]
  IN  IF cols["description"] # 0 THEN cols
      ELSE [cols EXCEPT !["description"] = IF Len(titles) > 1 THEN 2 ELSE 1]

HasColumns(cols) ==
  cols["date"] # 0 /\ \E r \in {"amount", "debit", "credit"} : cols[r] # 0

\* The commas between thousands, of an amount below a million million.
Thousands(cents) == Cardinality({k \in 1..3 : 1000 ^ k <= cents \div 100})

\* How many of a candidate there are in a cell: in numbers and descriptions, for there
\* are none in titles, dates, currencies, categories and words for a direction.
Held(cell, c) ==
  CASE cell.kind = "text" -> Separators[cell.name][c]
    [] cell.kind = "number" /\ c = "comma" -> IF cell.mark = "comma" THEN 1 ELSE Thousands(cell.cents)
    [] OTHER -> 0

HeldIn(row, c) == SumFunction([i \in DOMAIN row |-> Held(row[i], c)])

\* The titles and four rows: five lines.
Top(s) == SubSeq(s.rows, 1, IF Len(s.rows) < 4 THEN Len(s.rows) ELSE 4)

\* How often a candidate is found there, between cells and in them.
Score(s, c) ==
  (IF c = s.separator THEN (Len(s.titles) - 1) * (1 + Len(Top(s))) ELSE 0)
    + SumFunction([i \in DOMAIN Top(s) |-> HeldIn(Top(s)[i], c)])

\* detect_delimiter: the first of those found most often.
DetectDelimiter(s) ==
  Delimiters[CHOOSE i \in DOMAIN Delimiters : \A j \in DOMAIN Delimiters :
    \/ Score(s, Delimiters[j]) < Score(s, Delimiters[i])
    \/ Score(s, Delimiters[j]) = Score(s, Delimiters[i]) /\ i <= j]

-----------------------------------------------------------------------------
(* Dates *)

Iso == [sep |-> "iso", dayFirst |-> FALSE]

\* Mutant: dates with slashes are tried with the month first.
FallbackFormats_MonthFirst ==
  <<Iso, [sep |-> "slash", dayFirst |-> FALSE], [sep |-> "slash", dayFirst |-> TRUE],
    [sep |-> "hyphen", dayFirst |-> TRUE], [sep |-> "dot", dayFirst |-> TRUE]>>

FallbackFormats ==
  <<Iso, [sep |-> "slash", dayFirst |-> TRUE], [sep |-> "slash", dayFirst |-> FALSE],
    [sep |-> "hyphen", dayFirst |-> TRUE], [sep |-> "dot", dayFirst |-> TRUE]>>

\* The formats in the order in which they are tried.
Formats(told) == <<told>> \o FallbackFormats

\* A date that can be read in one order only.
Decides(c) == c.kind = "date" /\ (c.sep = "iso" \/ c.first > 12 \/ c.second > 12)

\* detect_date_format, of the sampled rows: the first date that decides does, whatever
\* its separator, and for slashes.
DetectDateFormat(rows, column) ==
  LET sample == {i \in 1..Len(rows) : i <= Sampled /\ Decides(Cell(rows[i], column))}
      first == Cell(rows[CHOOSE i \in sample : \A j \in sample : i <= j], column)
  IN  IF sample = {} \/ first.sep = "iso" THEN Iso
      ELSE [sep |-> "slash", dayFirst |-> first.first > 12]

Fits(c, format) ==
  /\ c.sep = format.sep
  /\ (IF format.dayFirst THEN c.second ELSE c.first) <= 12

\* parse_date: the first format that fits; {} if none does.
ParseDate(c, format) ==
  LET formats == Formats(format)
      i == IF c.kind = "date" THEN SelectInSeq(formats, LAMBDA f : Fits(c, f)) ELSE 0
  IN  IF i = 0 THEN {}
      ELSE {IF formats[i].dayFirst THEN [month |-> c.second, day |-> c.first]
            ELSE [month |-> c.first, day |-> c.second]}

-----------------------------------------------------------------------------
(* Amounts *)

\* Decimal.quantize of a / b
Quantized(a, b) ==
  LET q == a \div b
      up == 2 * (a % b) > b \/ (2 * (a % b) = b /\ q % 2 = 1)
  IN  IF up THEN q + 1 ELSE q

\* parse_clean_decimal: commas are dropped, points kept, so that 12,50 is read as
\* 1250 and 1.234,56 as 1.2346; {} for what is no number.
ParseCleanDecimal(c) ==
  IF c.kind # "number" THEN {}
  ELSE LET size == IF c.mark = "point" THEN c.cents * 100
                   ELSE IF c.cents < 100000 THEN c.cents * 10000 ELSE Quantized(c.cents, 10)
       IN  {IF c.negative THEN -size ELSE size}

Size(a) == IF a < 0 THEN -a ELSE a

\* The DR and CR words anywhere in a row.
DirectionWords(row) ==
  UNION {CASE c.kind = "text" -> Mentions[c.name] \intersect {"DR", "CR"}
           [] c.kind = "indicator" -> {c.word}
           [] OTHER -> {} : c \in ToSet(row)}

Rejected == [status |-> "rejected"]

\* resolve_amount_and_direction where there are debit and credit columns
TwoColumnAmount(debit, credit) ==
  LET out == ParseCleanDecimal(debit) \ {0}
      in  == ParseCleanDecimal(credit) \ {0}
  IN  CASE out # {} /\ in # {} -> [status |-> "ambiguous"]
        [] out # {} /\ in = {} -> [status |-> "verified", amount |-> -Size(CHOOSE a \in out : TRUE)]
        [] out = {} /\ in # {} -> [status |-> "verified", amount |-> Size(CHOOSE a \in in : TRUE)]
        [] out = {} /\ in = {} -> Rejected

\* and where there is one
OneColumnAmount(cell, words, inverted) ==
  IF ParseCleanDecimal(cell) = {} THEN Rejected
  ELSE LET a == CHOOSE x \in ParseCleanDecimal(cell) : TRUE
       IN  [status |-> "verified",
            amount |-> CASE words = {"DR"} -> -Size(a)
                         [] words = {"CR"} -> Size(a)
                         [] OTHER -> IF inverted THEN -a ELSE a]

ResolveAmountAndDirection(row, cols, inverted) ==
  IF cols["debit"] # 0 \/ cols["credit"] # 0
  THEN TwoColumnAmount(Cell(row, cols["debit"]), Cell(row, cols["credit"]))
  ELSE OneColumnAmount(Cell(row, cols["amount"]), DirectionWords(row), inverted)

-----------------------------------------------------------------------------
(* Descriptions *)

\* CATEGORY_RULES, in the order in which they are tried
Rules == <<"salary", "rent", "groceries", "utilities", "transport", "dining", "shopping",
           "entertainment", "healthcare", "debt", "cash_withdrawal", "transfer">>

\* is_internal_transfer
IsInternalTransfer(n) ==
  "own transfer" \in Mentions[n] \/ {"own account", "transfer word"} \subseteq Mentions[n]

\* categorize: a category the statement names comes before what its words say.
Categorize(n, explicit) ==
  LET named == IF explicit.kind = "category" THEN explicit.names ELSE {}
      i == SelectInSeq(Rules, LAMBDA r : r \in named)
      j == SelectInSeq(Rules, LAMBDA r : r \in Mentions[n])
  IN  CASE i # 0 -> Rules[i]
        [] i = 0 /\ j # 0 -> Rules[j]
        [] OTHER -> "other"

\* What the engine is not to see: the category is "transfer" (filter_and_map_transactions).
LeftOut(n, explicit) == IsInternalTransfer(n) \/ Categorize(n, explicit) = "transfer"

-----------------------------------------------------------------------------
(* Rows *)

CurrencyOf(cell) == IF cell.kind = "currency" THEN cell.code ELSE "USD"

ReadRow(row, cols, format, inverted) ==
  LET date == ParseDate(Cell(row, cols["date"]), format)
      money == ResolveAmountAndDirection(row, cols, inverted)
      text == Cell(row, cols["description"])
  IN  CASE date = {} \/ money.status = "rejected" -> [kind |-> "unreadable"]
        [] date # {} /\ money.status = "ambiguous" -> [kind |-> "ambiguous"]
        [] date # {} /\ money.status = "verified" ->
             [kind |-> "clean", date |-> CHOOSE d \in date : TRUE, amount |-> money.amount,
              text |-> text, currency |-> CurrencyOf(Cell(row, cols["currency"])),
              leftOut |-> text.kind = "text" /\ LeftOut(text.name, Cell(row, cols["category"]))]

\* What an upload makes of a file.  A file whose columns cannot be told has no rows.
ReadStatement(s, inverted) ==
  LET cols == Columns(s.titles)
      format == DetectDateFormat(s.rows, cols["date"])
  IN  IF DetectDelimiter(s) # s.separator \/ ~HasColumns(cols) THEN <<>>
      ELSE [i \in 1..Len(s.rows) |-> ReadRow(s.rows[i], cols, format, inverted)]
=============================================================================
