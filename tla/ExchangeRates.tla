----------------------------- MODULE ExchangeRates -----------------------------
(***************************************************************************)
(* Dated exchange rates (currency/fx.py), as the service loads them.        *)
(*                                                                          *)
(* Money is in cents and a rate is a whole number of Precision-ths; what    *)
(* the code quantizes is rounded here, to the nearest and to even.          *)
(***************************************************************************)
EXTENDS Integers, FiniteSets

CONSTANTS
  Currencies, USD, EUR,
  Precision,   \* 10^8 in the code
  Published,   \* rows of exchange_rates.csv
  Seeds        \* what get_fx_engine adds after them

ASSUME CurrenciesAssumption == {USD, EUR} \subseteq Currencies /\ Precision \in Nat \ {0}

\* No rate is so high that its reciprocal is rounded to nothing.
Quote ==
  [line : Nat, date : Nat, from : Currencies, to : Currencies, rate : 1..(Precision * Precision)]

ASSUME PublishedAssumption ==
  /\ Published \union Seeds \subseteq Quote /\ IsFiniteSet(Published \union Seeds)
  /\ \A r, s \in Published : <<r.date, r.from, r.to>> = <<s.date, s.from, s.to>> => r = s
  /\ \A r \in Published, s \in Seeds : r.line < s.line

NoRate == 0

\* Decimal.quantize of a / b
Rounded(a, b) ==
  LET q == a \div b
      up == 2 * (a % b) > b \/ (2 * (a % b) = b /\ q % 2 = 1)
  IN  IF up THEN q + 1 ELSE q

Reciprocal(r) == IF r = NoRate THEN NoRate ELSE Rounded(Precision * Precision, r)

\* A row of the file is added both ways, whether the file has the other way itself
\* or not; a seed is added as it is.
Index ==
  Published \union Seeds \union
  {[r EXCEPT !.from = r.to, !.to = r.from, !.rate = Reciprocal(r.rate)] : r \in Published}

\* Of several quotes of one day, the one added last has overwritten the others.
Newer(q, r) == r.date < q.date \/ (r.date = q.date /\ r.line < q.line)

LatestOf(quotes) ==
  IF quotes = {} THEN NoRate ELSE (CHOOSE r \in quotes : \A q \in quotes : ~Newer(q, r)).rate

\* The latest rate on or before a date (_resolve_single_pair).
Prevailing(f, t, d) == LatestOf({r \in Index : r.from = f /\ r.to = t /\ r.date <= d})

\* The first that there is, in order of preference.
FirstRate(rates) ==
  LET known == {i \in DOMAIN rates : rates[i] # NoRate}
  IN  IF known = {} THEN NoRate ELSE rates[CHOOSE i \in known : \A j \in known : i <= j]

\* _resolve_direct_or_reciprocal
Leg(f, t, d) == FirstRate(<<Prevailing(f, t, d), Reciprocal(Prevailing(t, f, d))>>)

\* Through a third currency, if both legs have a rate.
Bridge(f, t, via, d) ==
  IF via \in {f, t} THEN NoRate ELSE Rounded(Leg(f, via, d) * Leg(via, t, d), Precision)

\* resolve_rate: NoRate where the code raises FXRateMissingError
Rate(f, t, d) ==
  IF f = t THEN Precision
  ELSE FirstRate(<<Leg(f, t, d), Bridge(f, t, USD, d), Bridge(f, t, EUR, d)>>)

Convertible(f, t, d) == Rate(f, t, d) # NoRate

\* convert, of an amount that is convertible
Converted(a, f, t, d) == IF f = t THEN a ELSE Rounded(a * Rate(f, t, d), Precision)
=============================================================================
