---------------------------- MODULE PurchaseProofs ----------------------------
(***************************************************************************)
(* Theorems about PurchaseService, for every table of rates, precision,     *)
(* calendar and set of worlds.                                              *)
(***************************************************************************)
EXTENDS PurchaseService, FiniteSums

-----------------------------------------------------------------------------
(* Rounding *)

\* Integer division leaves a remainder below the divisor.
LEMMA Division ==
  ASSUME NEW a \in Nat, NEW b \in Nat \ {0}
  PROVE  \E q, r \in Nat : q = a \div b /\ r = a % b /\ r < b /\ a = b * q + r
<1>1. a \div b \in Int /\ a % b \in 0..(b - 1)
  OBVIOUS
<1>2. a % b = a - b * (a \div b)
  OBVIOUS
<1>3. PICK q \in Int, r \in Nat : q = a \div b /\ r = a % b /\ r < b
  BY <1>1
<1>4. PICK p \in Int : p = b * q
  OBVIOUS
<1>5. r = a - p
  BY <1>2, <1>3, <1>4
<1>6. q >= 0
  <2> SUFFICES ASSUME ~(q >= 0) PROVE FALSE
    OBVIOUS
  <2>1. PICK k \in Nat : q = 0 - (k + 1)
    OBVIOUS
  <2>2. b * (0 - (k + 1)) = 0 - (b * k + b)
    OBVIOUS
  <2>3. b * k \in Nat
    OBVIOUS
  <2>4. p = 0 - (b * k + b)
    BY <1>4, <2>1, <2>2
  <2> QED
    BY <1>3, <1>5, <2>3, <2>4
<1>7. q \in Nat /\ a = b * q + r
  BY <1>4, <1>5, <1>6
<1> QED
  BY <1>3, <1>7

\* What is quantized is at most half a unit off (Decimal.quantize).
LEMMA RoundedIsNear ==
  ASSUME NEW a \in Nat, NEW b \in Nat \ {0}
  PROVE  /\ Rounded(a, b) \in Nat
         /\ 2 * (b * Rounded(a, b)) <= 2 * a + b
         /\ 2 * a <= 2 * (b * Rounded(a, b)) + b
<1>1. PICK q \in Nat, r \in Nat : q = a \div b /\ r = a % b /\ r < b /\ a = b * q + r
  BY Division
<1>2. PICK p \in Int : p = b * q
  OBVIOUS
<1>3. b * (q + 1) = p + b
  BY <1>2
<1>4. q % 2 \in Int
  OBVIOUS
<1>5. CASE 2 * r > b \/ (2 * r = b /\ q % 2 = 1)
  <2>1. Rounded(a, b) = q + 1
    BY <1>1, <1>5 DEF Rounded
  <2> QED
    BY <2>1, <1>1, <1>2, <1>3, <1>5
<1>6. CASE ~(2 * r > b \/ (2 * r = b /\ q % 2 = 1))
  <2>1. Rounded(a, b) = q
    BY <1>1, <1>6 DEF Rounded
  <2>2. 2 * r <= b
    BY <1>1, <1>4, <1>6
  <2> QED
    BY <2>1, <2>2, <1>1, <1>2, <1>6
<1> QED
  BY <1>5, <1>6

-----------------------------------------------------------------------------
(* Rates *)

\* The rates that are quoted, and their reciprocals, are natural numbers.
LEMMA ReciprocalType == \A r \in Nat : Reciprocal(r) \in Nat
<1> SUFFICES ASSUME NEW r \in Nat, r # 0 PROVE Rounded(Precision * Precision, r) \in Nat
  BY DEF Reciprocal, NoRate
<1>1. Precision * Precision \in Nat
  BY CurrenciesAssumption
<1> QED
  BY <1>1, RoundedIsNear

\* So are the dates and rates of the index the service looks in, which is finite.
LEMMA IndexType ==
  (\A r \in Index : r.date \in Nat /\ r.rate \in Nat /\ r.line \in Int) /\ IsFiniteSet(Index)
<1>1. \A r \in Published \union Seeds : r.date \in Nat /\ r.rate \in Nat
  <2>1. Precision * Precision \in Nat
    BY CurrenciesAssumption
  <2>2. 1..(Precision * Precision) \subseteq Nat
    BY <2>1
  <2>3. \A r \in Quote : r.date \in Nat /\ r.rate \in 1..(Precision * Precision)
    BY DEF Quote
  <2> QED
    BY <2>2, <2>3, PublishedAssumption
<1>2. ASSUME NEW r \in Published,
             NEW q, q = [r EXCEPT !.from = r.to, !.to = r.from, !.rate = Reciprocal(r.rate)]
      PROVE  q.date \in Nat /\ q.rate \in Nat /\ q.line = r.line
  <2>1. r \in Quote
    BY PublishedAssumption
  <2>2. q.date = r.date /\ q.rate = Reciprocal(r.rate) /\ q.line = r.line
    BY <1>2, <2>1 DEF Quote
  <2> QED
    BY <1>1, <2>2, ReciprocalType
<1>3. \A r \in Published \union Seeds : r.line \in Int
  BY PublishedAssumption DEF Quote
<1>4. \A r \in Index : r.date \in Nat /\ r.rate \in Nat /\ r.line \in Int
  BY <1>1, <1>2, <1>3 DEF Index
<1>5. IsFiniteSet(Index)
  <2>1. PICK f : f = [r \in Published |->
                        [r EXCEPT !.from = r.to, !.to = r.from, !.rate = Reciprocal(r.rate)]]
    OBVIOUS
  <2>2. IsFiniteSet({f[r] : r \in Published})
    <3>1. IsFiniteSet(Published)
      BY PublishedAssumption, FS_Subset
    <3> QED
      BY <3>1, FiniteImage
  <2>3. Index = (Published \union Seeds) \union {f[r] : r \in Published}
    BY <2>1 DEF Index
  <2> QED
    BY <2>2, <2>3, PublishedAssumption, FS_Union
<1> QED
  BY <1>4, <1>5

\* Of quotes there is one that none is newer than.
LEMMA NewestExists ==
  ASSUME NEW S \in SUBSET Index, S # {}
  PROVE  \E r \in S : \A q \in S : ~Newer(q, r)
<1>0. IsFiniteSet(S) /\ \A r \in S : r.date \in Nat /\ r.line \in Int
  BY IndexType, FS_Subset
<1>1. PICK f, g : f = [r \in S |-> r.date] /\ g = [r \in S |-> r.line]
  OBVIOUS
<1>2. PICK D : D = {f[r] : r \in S}
  OBVIOUS
<1>3. IsFiniteSet(D) /\ D \in SUBSET Int /\ D # {}
  BY <1>0, <1>1, <1>2, FiniteImage
<1>4. PICK d \in D : \A y \in D : d >= y
  BY <1>3, Extremes
<1>5. PICK M : M = {r \in S : f[r] = d}
  OBVIOUS
<1>6. IsFiniteSet(M) /\ M # {}
  BY <1>0, <1>2, <1>5, FS_Subset
<1>7. PICK I : I = {g[r] : r \in M}
  OBVIOUS
<1>8. IsFiniteSet(I) /\ I \in SUBSET Int /\ I # {}
  <2>1. IsFiniteSet(I)
    BY <1>6, <1>7, FiniteImage
  <2>2. \A x \in M : g[x] \in Int
    BY <1>0, <1>1, <1>5
  <2> QED
    BY <1>6, <1>7, <2>1, <2>2
<1>9. PICK l \in I : \A y \in I : l >= y
  BY <1>8, Extremes
<1>10. PICK r \in M : g[r] = l
  BY <1>7
<1>11. ASSUME NEW q \in S, Newer(q, r) PROVE FALSE
  <2>1. r \in S /\ r.date = d /\ r.line = l /\ q.date \in D /\ d \in Int /\ l \in Int
    BY <1>1, <1>2, <1>3, <1>5, <1>8, <1>10
  <2>2. q.date = d /\ l < q.line
    <3>1. q.date <= d /\ q.date \in Int
      BY <1>3, <1>4, <2>1
    <3> QED
      BY <1>11, <2>1, <3>1 DEF Newer
  <2>3. q \in M
    BY <1>1, <1>5, <2>2
  <2>4. q.line \in I /\ q.line \in Int
    BY <1>1, <1>0, <1>7, <2>3
  <2> QED
    BY <1>9, <2>1, <2>2, <2>4
<1> QED
  BY <1>5, <1>11

\* What prevails on a day is a number, NoRate if nothing was quoted by then.
LEMMA PrevailingType == \A f, t : \A d \in Nat : Prevailing(f, t, d) \in Nat
<1> SUFFICES ASSUME NEW f, NEW t, NEW d \in Nat PROVE Prevailing(f, t, d) \in Nat
  OBVIOUS
<1>1. PICK quotes : quotes = {r \in Index : r.from = f /\ r.to = t /\ r.date <= d}
  OBVIOUS
<1>2. CASE quotes = {}
  BY <1>1, <1>2 DEF Prevailing, LatestOf, NoRate
<1>3. CASE quotes # {}
  <2>1. quotes \in SUBSET Index
    BY <1>1
  <2>2. PICK r : r = CHOOSE x \in quotes : \A q \in quotes : ~Newer(q, x)
    OBVIOUS
  <2>3. r \in quotes
    BY <1>3, <2>1, <2>2, NewestExists
  <2>4. Prevailing(f, t, d) = r.rate
    BY <1>1, <1>3, <2>2 DEF Prevailing, LatestOf
  <2> QED
    BY <2>1, <2>3, <2>4, IndexType
<1> QED
  BY <1>2, <1>3

\* The first rate of a list is one of them, or NoRate.
LEMMA FirstRateType ==
  ASSUME NEW n \in Nat, NEW rates \in [1..n -> Nat]
  PROVE  FirstRate(rates) \in Nat
<1>1. PICK known : known = {i \in 1..n : rates[i] # NoRate}
  OBVIOUS
<1>2. FirstRate(rates) = IF known = {} THEN NoRate ELSE rates[CHOOSE i \in known : \A j \in known : i <= j]
  BY <1>1 DEF FirstRate
<1>3. CASE known # {}
  <2>1. known \in SUBSET Nat
    BY <1>1
  <2>2. \E i \in known : \A j \in known : i <= j
    BY <1>3, <2>1, LeastNatural
  <2>3. PICK i : i = CHOOSE x \in known : \A j \in known : x <= j
    OBVIOUS
  <2>4. i \in known
    BY <2>2, <2>3
  <2> QED
    BY <1>1, <1>2, <1>3, <2>3, <2>4
<1> QED
  BY <1>2, <1>3 DEF NoRate

\* A rate between two currencies, or the reciprocal of the one back, is a number.
LEMMA LegType == \A f, t : \A d \in Nat : Leg(f, t, d) \in Nat
<1> SUFFICES ASSUME NEW f, NEW t, NEW d \in Nat PROVE Leg(f, t, d) \in Nat
  OBVIOUS
<1>1. PICK a \in Nat, b \in Nat : a = Prevailing(f, t, d) /\ b = Reciprocal(Prevailing(t, f, d))
  BY PrevailingType, ReciprocalType
<1>2. <<a, b>> \in [1..2 -> Nat]
  OBVIOUS
<1> QED
  BY <1>1, <1>2, FirstRateType DEF Leg

\* resolve_rate gives a number, NoRate where it raises.
LEMMA RateType == \A f, t : \A d \in Nat : Rate(f, t, d) \in Nat
<1> SUFFICES ASSUME NEW f, NEW t, NEW d \in Nat, f # t PROVE Rate(f, t, d) \in Nat
  BY CurrenciesAssumption DEF Rate
<1>1. ASSUME NEW via PROVE Bridge(f, t, via, d) \in Nat
  <2>1. PICK a \in Nat, b \in Nat : a = Leg(f, via, d) /\ b = Leg(via, t, d)
    BY LegType
  <2>2. a * b \in Nat
    OBVIOUS
  <2>3. Rounded(a * b, Precision) \in Nat
    BY <2>2, CurrenciesAssumption, RoundedIsNear
  <2> QED
    BY <2>1, <2>3 DEF Bridge, NoRate
<1>2. PICK a \in Nat, b \in Nat, c \in Nat :
        a = Leg(f, t, d) /\ b = Bridge(f, t, USD, d) /\ c = Bridge(f, t, EUR, d)
  BY <1>1, LegType
<1>3. <<a, b, c>> \in [1..3 -> Nat]
  OBVIOUS
<1> QED
  BY <1>2, <1>3, FirstRateType DEF Rate

-----------------------------------------------------------------------------
(* There and back *)

\* A common factor keeps the order, and may be cancelled.
LEMMA FactorKeepsOrder ==
  ASSUME NEW m \in Nat, NEW s \in Int, NEW t \in Int, s <= t
  PROVE  m * s <= m * t
<1>1. PICK k \in Nat : t = s + k
  OBVIOUS
<1>2. m * (s + k) = m * s + m * k
  OBVIOUS
<1>3. m * k \in Nat /\ m * s \in Int
  OBVIOUS
<1> QED
  BY <1>1, <1>2, <1>3

\* A positive factor of both sides cancels.
LEMMA FactorCancels ==
  ASSUME NEW m \in Nat \ {0}, NEW s \in Int, NEW t \in Int, m * s <= m * t
  PROVE  s <= t
<1> SUFFICES ASSUME t + 1 <= s PROVE FALSE
  OBVIOUS
<1>1. m * (t + 1) <= m * s
  BY FactorKeepsOrder
<1>2. m * (t + 1) = m * t + m
  OBVIOUS
<1>3. m * s \in Int /\ m * t \in Int
  OBVIOUS
<1> QED
  BY <1>1, <1>2, <1>3

\* An amount that is converted and converted back at the reciprocal rate is off by the
\* rounding of the amounts and of the rate only.
LEMMA RoundTrip ==
  ASSUME NEW P \in Nat \ {0}, NEW r \in Nat \ {0}, NEW a \in Nat, NEW w \in Nat, NEW i \in Nat,
         NEW b \in Nat, NEW x \in Nat, NEW y \in Nat, NEW z \in Nat, NEW u \in Nat,
         2 * (P * w) <= 2 * (a * r) + P, 2 * (a * r) <= 2 * (P * w) + P,
         2 * (r * i) <= 2 * (P * P) + r, 2 * (P * P) <= 2 * (r * i) + r,
         2 * (P * b) <= 2 * (w * i) + P, 2 * (w * i) <= 2 * (P * b) + P,
         P = r * x + y, y < r, w = P * z + u, u < P
  PROVE  2 * Difference(b, a) <= x + z + 3
<1>1. PICK m \in Nat \ {0} : m = P * r
  OBVIOUS
<1>2. PICK ppw \in Int, arp \in Int, pp \in Int, wir \in Int, wr \in Int, pbr \in Int :
        /\ ppw = P * (P * w) /\ arp = P * (a * r) /\ pp = P * P
        /\ wir = w * (r * i) /\ wr = w * r /\ pbr = r * (P * b)
  OBVIOUS
<1>3. 2 * ppw <= 2 * arp + pp /\ 2 * arp <= 2 * ppw + pp
  <2>1. /\ P * (2 * (P * w)) <= P * (2 * (a * r) + P)
        /\ P * (2 * (a * r)) <= P * (2 * (P * w) + P)
    BY FactorKeepsOrder
  <2>2. /\ P * (2 * (P * w)) = 2 * (P * (P * w)) /\ P * (2 * (a * r) + P) = 2 * (P * (a * r)) + P * P
        /\ P * (2 * (a * r)) = 2 * (P * (a * r)) /\ P * (2 * (P * w) + P) = 2 * (P * (P * w)) + P * P
    OBVIOUS
  <2> QED
    BY <1>2, <2>1, <2>2
<1>4. 2 * wir <= 2 * ppw + wr /\ 2 * ppw <= 2 * wir + wr
  <2>1. /\ w * (2 * (r * i)) <= w * (2 * (P * P) + r)
        /\ w * (2 * (P * P)) <= w * (2 * (r * i) + r)
    BY FactorKeepsOrder
  <2>2. /\ w * (2 * (r * i)) = 2 * (w * (r * i)) /\ w * (2 * (P * P) + r) = 2 * (P * (P * w)) + w * r
        /\ w * (2 * (P * P)) = 2 * (P * (P * w)) /\ w * (2 * (r * i) + r) = 2 * (w * (r * i)) + w * r
    OBVIOUS
  <2> QED
    BY <1>2, <2>1, <2>2
<1>5. 2 * pbr <= 2 * wir + m /\ 2 * wir <= 2 * pbr + m
  <2>1. /\ r * (2 * (P * b)) <= r * (2 * (w * i) + P)
        /\ r * (2 * (w * i)) <= r * (2 * (P * b) + P)
    BY FactorKeepsOrder
  <2>2. /\ r * (2 * (P * b)) = 2 * (r * (P * b)) /\ r * (2 * (w * i) + P) = 2 * (w * (r * i)) + P * r
        /\ r * (2 * (w * i)) = 2 * (w * (r * i)) /\ r * (2 * (P * b) + P) = 2 * (r * (P * b)) + P * r
    OBVIOUS
  <2> QED
    BY <1>1, <1>2, <2>1, <2>2
<1>6. PICK mx \in Int, mz \in Int : mx = m * x /\ mz = m * z
  OBVIOUS
<1>7. pp <= mx + m
  <2>1. P * P = P * (r * x + y)
    OBVIOUS
  <2>2. P * (r * x + y) = (P * r) * x + P * y
    OBVIOUS
  <2>3. P * y <= P * r
    BY FactorKeepsOrder
  <2>4. P * y \in Int
    OBVIOUS
  <2> QED
    BY <1>1, <1>2, <1>6, <2>1, <2>2, <2>3, <2>4
<1>8. wr <= mz + m
  <2>1. w * r = (P * z + u) * r
    OBVIOUS
  <2>2. (P * z + u) * r = (P * r) * z + r * u
    OBVIOUS
  <2>3. r * u <= r * P
    BY FactorKeepsOrder
  <2>4. r * u \in Int /\ r * P = P * r
    OBVIOUS
  <2> QED
    BY <1>1, <1>2, <1>6, <2>1, <2>2, <2>3, <2>4
<1>9. m * (2 * (b - a)) = 2 * pbr - 2 * arp /\ m * (2 * (a - b)) = 2 * arp - 2 * pbr
  BY <1>1, <1>2
<1>10. m * (x + z + 3) = mx + mz + 3 * m
  BY <1>6
<1>11. m * (2 * (b - a)) <= m * (x + z + 3) /\ m * (2 * (a - b)) <= m * (x + z + 3)
  BY <1>3, <1>4, <1>5, <1>7, <1>8, <1>9, <1>10
<1>12. 2 * (b - a) <= x + z + 3 /\ 2 * (a - b) <= x + z + 3
  BY <1>11, FactorCancels
<1> QED
  BY <1>12 DEF Difference

-----------------------------------------------------------------------------
(* What an evaluation knows *)

\* It was accepted, it has passed the gate, it has been converted, it is worth something.
Accepted == ask \in world.purchases /\ ask.amount > 0
Passed ==
  /\ Accepted
  /\ \A a \in Liquid : a.balance # Unknown
  /\ \A c \in {a.currency : a \in Liquid} \union {ask.currency} : Convertible(c, world.home, today)
Priced == Passed /\ worth = Converted(ask.amount, ask.currency, world.home, today)
Worthy == Priced /\ worth > 0

\* The answer is what is reported of a possible decision.
Reported ==
  /\ decision \in Possible(worth)
  /\ answer = [kind |-> "decision", method |-> decision.method,
               safe |-> IF Foreign THEN SafeBack ELSE decision.safe,
               parts |-> IF Foreign THEN PartsBack ELSE decision.parts]

\* Why an evaluation that passed the gate failed.
Failed ==
  \/ state = Nothing /\ Priced /\ worth <= 0
  \/ state # Nothing /\ decision = Nothing /\ \E o \in ask.options : Ended(o)
  \/ decision # Nothing

RequestInv ==
  /\ world \in Worlds /\ today \in Nat
  /\ pc \in {"idle", "gate", "convert", "build", "decide", "report", "persist", "answered", "stuck"}
  /\ pc \notin {"persist", "answered"} => answer = Nothing
  /\ pc = "gate" => Accepted
  /\ pc = "convert" => Passed
  /\ pc \in {"build", "decide", "report", "persist"} => Worthy
  /\ pc \in {"idle", "gate", "convert", "build"} => state = Nothing
  /\ pc \in {"decide", "report", "persist"} => state # Nothing
  /\ pc \in {"idle", "gate", "convert", "build", "decide"} => decision = Nothing
  /\ pc = "report" => decision \in Possible(worth)
  /\ pc = "persist" => Reported
  /\ pc = "answered" /\ answer.kind = "decision" => Worthy /\ Reported
  /\ pc = "answered" /\ answer.kind = "error" => Failed
  /\ pc = "stuck" => Endless(Resolved(rows, world.home), today)

\* A state is not nothing.
LEMMA StatesAreStates == \A R, a, t : EngineState(R, a, t) # Nothing
<1> SUFFICES ASSUME NEW R, NEW a, NEW t PROVE EngineState(R, a, t) # Nothing
  OBVIOUS
<1>1. "kind" \notin DOMAIN EngineState(R, a, t)
  BY DEF EngineState
<1>2. "kind" \in DOMAIN Nothing
  BY DEF Nothing
<1> QED
  BY <1>1, <1>2

\* Nor is a decision.
LEMMA DecisionsAreDecisions == \A w : Nothing \notin Possible(w)
<1> SUFFICES ASSUME NEW w, NEW d \in Possible(w) PROVE d # Nothing
  OBVIOUS
<1>2. "kind" \notin DOMAIN d
  <2>1. CASE d \in FullPayments(w)
    BY <2>1 DEF FullPayments, DecisionOf
  <2>2. CASE d \in Waits(w)
    BY <2>2 DEF Waits, DecisionOf
  <2>3. CASE d \in PartialPayments(w)
    BY <2>3 DEF PartialPayments, DecisionOf
  <2>4. CASE d \in Installments(w)
    BY <2>4 DEF Installments, DecisionOf
  <2>5. CASE d \in Refusals(w)
    BY <2>5 DEF Refusals, DecisionOf
  <2>6. CASE d = DecisionOf("not_recommended", 0, {}, NoDate, FALSE)
    BY <2>6 DEF DecisionOf
  <2> QED
    BY <2>1, <2>2, <2>3, <2>4, <2>5, <2>6 DEF Possible
<1>3. "kind" \in DOMAIN Nothing
  BY DEF Nothing
<1> QED
  BY <1>2, <1>3

\* What an evaluation knows stays true as long as time and the request stand still.
LEMMA KnownStays ==
  ASSUME UNCHANGED <<world, today, ask>>
  PROVE  /\ Accepted' = Accepted /\ Passed' = Passed
         /\ UNCHANGED worth => Priced' = Priced /\ Worthy' = Worthy
         /\ \A w : Possible(w)' = Possible(w)
         /\ UNCHANGED <<worth, decision, answer>> => Reported' = Reported
         /\ UNCHANGED <<worth, state, decision>> => Failed' = Failed
<1>1. Accepted' = Accepted /\ Liquid' = Liquid
  BY DEF Accepted, Liquid
<1>2. Passed' = Passed
  BY <1>1 DEF Passed
<1>3. UNCHANGED worth => Priced' = Priced /\ Worthy' = Worthy
  BY <1>2 DEF Priced, Worthy
<1>4. \A w : Possible(w)' = Possible(w)
  BY DEF Possible, FullPayments, Waits, PartialPayments, Installments, Running, SellersParts, Refusals, Later30
<1>5. UNCHANGED <<worth, decision, answer>> => Reported' = Reported
  BY <1>4 DEF Reported, Foreign, SafeBack, PartsBack, Back, RateBack
<1>6. UNCHANGED <<worth, state, decision>> => Failed' = Failed
  BY <1>3 DEF Failed
<1> QED
  BY <1>1, <1>2, <1>3, <1>4, <1>5, <1>6

\* A request is made on a day of the calendar.
LEMMA InitRequest == Init => RequestInv
<1> SUFFICES ASSUME Init PROVE RequestInv
  OBVIOUS
<1>1. world \in World
  BY WorldsAssumption DEF Init
<1>2. today \in Date
  BY <1>1 DEF Init, World
<1>3. today \in Nat
  BY <1>2 DEF Date
<1> QED
  BY <1>3 DEF Init, RequestInv

\* The purchases a user may ask for are of the type of a request.
LEMMA PurchaseTyped ==
  ASSUME world \in Worlds, ask \in world.purchases
  PROVE  /\ ask.amount \in Int
         /\ \A o \in ask.options : o.amount \in Nat /\ o.count \in Nat \ {0} /\ o.from \in Int
<1>1. world \in World
  BY WorldsAssumption
<1>2. ask \in [amount : Int, currency : Currencies, wait : Int,
               options : SUBSET [amount : Nat, count : Nat \ {0}, from : Int]]
  BY <1>1 DEF World
<1> QED
  BY <1>2

\* What is converted is an amount.
LEMMA ConvertedType ==
  ASSUME NEW a \in Nat, NEW f, NEW t, NEW d \in Nat
  PROVE  Converted(a, f, t, d) \in Nat
<1>1. PICK r \in Nat : r = Rate(f, t, d)
  BY RateType
<1>2. a * r \in Nat
  OBVIOUS
<1> QED
  BY <1>1, <1>2, CurrenciesAssumption, RoundedIsNear DEF Converted

\* The kinds of answers.
LEMMA AnswerKinds ==
  /\ Nothing.kind = "nothing"
  /\ [kind |-> "invalid"].kind = "invalid" /\ [kind |-> "insufficient"].kind = "insufficient"
  /\ [kind |-> "error"].kind = "error"
BY DEF Nothing

\* Each step of an evaluation leaves what the next one relies on.
LEMMA RequestStep ==
  ASSUME RequestInv, [Next]_vars
  PROVE  RequestInv'
<1> USE AnswerKinds
<1>1. CASE UNCHANGED vars
  <2>1. UNCHANGED <<world, today, ask, worth, decision, answer, state, pc, rows>>
    BY <1>1 DEF vars, user, request
  <2> QED
    BY <2>1, KnownStays DEF RequestInv
<1>2. ASSUME NEW b \in world.bills,
             \/ \E status \in {"scheduled", "pending"} : Announce(b, status)
             \/ Confirm(b)
             \/ Settle(b)
             \/ \E status \in {"cancelled", "failed"} : Withdraw(b, status)
             \/ Refund(b)
      PROVE  RequestInv'
  <2>1. pc = "idle" /\ UNCHANGED <<world, today, request>>
    BY <1>2 DEF Announce, Confirm, Settle, Withdraw, Refund, Still
  <2> QED
    BY <2>1 DEF RequestInv, request
<1>3. CASE PassDay
  <2>1. /\ pc' = "idle" /\ answer' = Nothing /\ today' = today + 1 /\ world' = world
        /\ state' = Nothing /\ decision' = Nothing
    BY <1>3 DEF PassDay
  <2> QED
    BY <2>1 DEF RequestInv
<1>4. ASSUME NEW p \in world.purchases, Ask(p) PROVE RequestInv'
  <2>1. /\ UNCHANGED <<world, today, rows, state, decision>> /\ ask' = p
        /\ state = Nothing /\ decision = Nothing
    BY <1>4 DEF Ask, Still, user, RequestInv
  <2>2. CASE p.amount > 0 /\ p.wait >= 0
    <3>1. pc' = "gate" /\ answer' = answer /\ pc = "idle"
      BY <1>4, <2>2 DEF Ask, Still
    <3>2. Accepted'
      BY <2>1, <2>2 DEF Accepted
    <3> QED
      BY <2>1, <3>1, <3>2 DEF RequestInv
  <2>3. CASE ~(p.amount > 0 /\ p.wait >= 0)
    <3>1. pc' = "answered" /\ answer'.kind = "invalid"
      BY <1>4, <2>3 DEF Ask
    <3> QED
      BY <2>1, <3>1 DEF RequestInv
  <2> QED
    BY <2>2, <2>3
<1>5. CASE Gate
  <2>1. pc = "gate" /\ UNCHANGED <<world, today, rows, ask, worth, state, decision>> /\ Accepted
    BY <1>5 DEF Gate, user, RequestInv
  <2>2. CASE Sufficient(Known)
    <3>1. pc' = "convert" /\ answer' = answer
      BY <1>5, <2>2 DEF Gate
    <3>2. Passed
      BY <2>1, <2>2 DEF Passed, Sufficient
    <3> QED
      BY <2>1, <3>1, <3>2, KnownStays DEF RequestInv
  <2>3. CASE ~Sufficient(Known)
    <3>1. pc' = "answered" /\ answer'.kind = "insufficient"
      BY <1>5, <2>3 DEF Gate
    <3> QED
      BY <2>1, <3>1 DEF RequestInv
  <2> QED
    BY <2>2, <2>3
<1>6. CASE Convert
  <2>1. /\ pc = "convert" /\ UNCHANGED <<world, today, rows, ask, state, decision>> /\ Passed
        /\ worth' = Converted(ask.amount, ask.currency, world.home, today) /\ state = Nothing
    BY <1>6 DEF Convert, user, RequestInv
  <2>2. Priced'
    BY <2>1, KnownStays DEF Priced
  <2>3. CASE worth' > 0
    <3>1. pc' = "build" /\ answer' = answer
      BY <1>6, <2>3 DEF Convert
    <3> QED
      BY <2>1, <2>2, <2>3, <3>1 DEF RequestInv, Worthy
  <2>4. CASE ~(worth' > 0)
    <3>1. pc' = "answered" /\ answer'.kind = "error"
      BY <1>6, <2>4 DEF Convert
    <3>2. worth' <= 0
      <4>1. today \in Nat /\ ask.amount \in Int /\ ask.amount > 0
        BY <2>1, PurchaseTyped DEF RequestInv, Passed, Accepted
      <4>2. worth' \in Int
        BY <2>1, <4>1, ConvertedType
      <4> QED
        BY <2>4, <4>2
    <3>3. Failed'
      BY <2>1, <2>2, <3>2 DEF Failed
    <3> QED
      BY <2>1, <3>1, <3>3 DEF RequestInv
  <2> QED
    BY <2>3, <2>4
<1>7. CASE Build
  <2>1. /\ pc = "build" /\ UNCHANGED <<world, today, rows, ask, worth, decision>> /\ Worthy
        /\ answer = Nothing /\ decision = Nothing
    BY <1>7 DEF Build, user, RequestInv
  <2>2. Reconciled
    BY <2>1 DEF Worthy, Priced, Passed, Reconciled
  <2>3. pc' = "decide" /\ answer' = answer /\ state' # Nothing
    BY <1>7, <2>2, StatesAreStates DEF Build
  <2> QED
    BY <2>1, <2>3, KnownStays DEF RequestInv
<1>8. CASE Hang
  <2>1. /\ pc = "build" /\ pc' = "stuck" /\ UNCHANGED <<world, today, rows, answer>>
        /\ Endless(Resolved(rows, world.home), today) /\ answer = Nothing
    BY <1>8 DEF Hang, user, RequestInv
  <2> QED
    BY <2>1 DEF RequestInv
<1>9. ASSUME pc = "decide", NEW d \in Possible(worth), Decide(d) PROVE RequestInv'
  <2>1. /\ pc' = "report" /\ decision' = d
        /\ UNCHANGED <<world, today, rows, ask, worth, state, answer>> /\ Worthy /\ answer = Nothing
    BY <1>9 DEF Decide, user, RequestInv
  <2> QED
    BY <1>9, <2>1, KnownStays DEF RequestInv
<1>10. CASE Report
  <2>1. /\ pc = "report" /\ pc' = "persist" /\ UNCHANGED <<world, today, rows, ask, worth, state, decision>>
        /\ Worthy /\ decision \in Possible(worth) /\ state # Nothing
    BY <1>10 DEF Report, user, RequestInv
  <2>2. Reported'
    <3>1. UNCHANGED <<Foreign, SafeBack, PartsBack>>
      BY <2>1 DEF Foreign, SafeBack, PartsBack, Back, RateBack
    <3> QED
      BY <1>10, <2>1, <3>1, KnownStays DEF Report, Reported
  <2> QED
    BY <2>1, <2>2, KnownStays DEF RequestInv
<1>11. ASSUME NEW committed \in BOOLEAN, Persist(committed) PROVE RequestInv'
  <2>1. /\ pc = "persist" /\ pc' = "answered"
        /\ UNCHANGED <<world, today, rows, ask, worth, state, decision>>
        /\ Worthy /\ Reported
    BY <1>11 DEF Persist, user, RequestInv
  <2>2. CASE committed
    <3>1. answer' = answer
      BY <1>11, <2>2 DEF Persist
    <3>2. answer.kind = "decision"
      BY <2>1 DEF Reported
    <3> QED
      BY <2>1, <3>1, <3>2, KnownStays DEF RequestInv
  <2>3. CASE ~committed
    <3>1. answer'.kind = "error"
      BY <1>11, <2>3 DEF Persist
    <3>2. Failed'
      BY <2>1, DecisionsAreDecisions DEF Reported, Failed
    <3> QED
      BY <2>1, <3>1, <3>2 DEF RequestInv
  <2> QED
    BY <2>2, <2>3
<1>12. CASE RunBatch
  <2>1. /\ pc = "answered" /\ pc' = pc
        /\ UNCHANGED <<world, today, rows, ask, worth, state, decision, answer>>
    BY <1>12 DEF RunBatch, user
  <2> QED
    BY <2>1, KnownStays DEF RequestInv
<1>13. CASE EngineFails
  <2>1. /\ pc = "decide" /\ pc' = "answered" /\ answer'.kind = "error"
        /\ UNCHANGED <<world, today, rows, ask, worth, state, decision>>
        /\ state # Nothing /\ decision = Nothing /\ \E o \in ask.options : Ended(o)
    BY <1>13 DEF EngineFails, user, RequestInv
  <2>2. Failed'
    BY <2>1 DEF Failed
  <2> QED
    BY <2>1, <2>2 DEF RequestInv
<1> QED
  BY <1>1, <1>2, <1>3, <1>4, <1>5, <1>6, <1>7, <1>8, <1>9, <1>10, <1>11, <1>12, <1>13 DEF Next, Rest

\* So it is in every reachable state.
LEMMA RequestsHold == Spec => []RequestInv
<1>1. Init => RequestInv
  BY InitRequest
<1>2. RequestInv /\ [Next]_vars => RequestInv'
  BY RequestStep
<1> QED
  BY <1>1, <1>2, PTL DEF Spec

-----------------------------------------------------------------------------
(* The report of a foreign purchase *)

\* The amounts of one part, and of two different ones.
LEMMA TotalOfOne ==
  ASSUME NEW x, x.amount \in Int
  PROVE  Total({x}) = x.amount
<1>1. PICK f : f = [y \in {x} |-> y.amount]
  OBVIOUS
<1>2. f[x] = x.amount /\ DOMAIN f = {x}
  BY <1>1
<1>3. {x} = {} \union {x} /\ IsFiniteSet({}) /\ x \notin {} /\ \A y \in {} \union {x} : f[y] \in Int
  BY <1>2, FS_EmptySet
<1>4. SumFunctionOnSet(f, {} \union {x}) = SumFunctionOnSet(f, {}) + f[x]
  BY <1>3, SumAdds
<1>5. SumFunctionOnSet(f, {}) = 0
  BY SumOfNothing
<1>6. SumFunctionOnSet(f, {x}) = f[x]
  BY <1>2, <1>3, <1>4, <1>5
<1> QED
  BY <1>1, <1>2, <1>6 DEF Total, SumFunction

\* Two different parts add up to the sum of their amounts.
LEMMA TotalOfTwo ==
  ASSUME NEW x, NEW y, x # y, x.amount \in Int, y.amount \in Int
  PROVE  Total({x, y}) = x.amount + y.amount
<1>1. PICK f : f = [z \in {x, y} |-> z.amount]
  OBVIOUS
<1>2. f[x] = x.amount /\ f[y] = y.amount /\ DOMAIN f = {x, y}
  BY <1>1
<1>3. PICK T : T = {x, y}
  OBVIOUS
<1>4. IsFiniteSet(T) /\ \A z \in T : f[z] \in Int
  <2>1. IsFiniteSet({x} \union {y})
    BY FS_Singleton, FS_AddElement
  <2>2. T = {x} \union {y}
    BY <1>3
  <2> QED
    BY <1>2, <2>1, <2>2
<1>5. x \in T /\ T \ {x} = {y}
  BY <1>3
<1>6. SumFunctionOnSet(f, T) = f[x] + SumFunctionOnSet(f, T \ {x})
  BY <1>4, <1>5, SumTakes
<1>7. PICK S : S = {y}
  OBVIOUS
<1>8. IsFiniteSet(S) /\ y \in S /\ S \ {y} = {} /\ \A z \in S : f[z] \in Int
  BY <1>4, <1>5, <1>7, FS_EmptySet, FS_AddElement
<1>9. SumFunctionOnSet(f, S) = f[y] + SumFunctionOnSet(f, S \ {y})
  BY <1>8, SumTakes
<1>10. SumFunctionOnSet(f, {}) = 0
  BY SumOfNothing
<1>11. SumFunctionOnSet(f, S) = f[y]
  <2>1. SumFunctionOnSet(f, S \ {y}) = 0
    BY <1>8, <1>10
  <2>2. f[y] \in Int
    BY <1>2
  <2> QED
    BY <1>9, <2>1, <2>2
<1>12. SumFunctionOnSet(f, T) = f[x] + f[y]
  BY <1>5, <1>6, <1>7, <1>11
<1> QED
  BY <1>1, <1>2, <1>3, <1>12 DEF Total, SumFunction

\* An amount converted to the home currency and back is lost by rounding only.
LEMMA BackIsNear ==
  ASSUME RequestInv, Passed, Foreign, NEW a \in Nat, NEW w,
         w = Converted(a, ask.currency, world.home, today)
  PROVE  /\ w \in Nat /\ Back(w) \in Nat
         /\ 2 * Difference(Back(w), a) <= TwiceLoss(w)
<1>1. PICK r \in Nat \ {0} : r = Rate(ask.currency, world.home, today)
  BY RateType DEF RequestInv, Passed, Convertible, NoRate
<1>2. PICK P \in Nat \ {0} : P = Precision
  BY CurrenciesAssumption
<1>3. a * r \in Nat /\ P * P \in Nat
  OBVIOUS
<1>4. w = Rounded(a * r, P)
  BY <1>1, <1>2 DEF Converted, Foreign
<1>5. w \in Nat /\ 2 * (P * w) <= 2 * (a * r) + P /\ 2 * (a * r) <= 2 * (P * w) + P
  BY <1>3, <1>4, RoundedIsNear
<1>6. PICK i : i = Rounded(P * P, r)
  OBVIOUS
<1>7. i \in Nat /\ 2 * (r * i) <= 2 * (P * P) + r /\ 2 * (P * P) <= 2 * (r * i) + r
  BY <1>3, <1>6, RoundedIsNear
<1>8. RateBack = i
  BY <1>1, <1>2, <1>6 DEF RateBack, Reciprocal, NoRate
<1>9. w * i \in Nat
  BY <1>5, <1>7
<1>10. PICK b : b = Rounded(w * i, P)
  OBVIOUS
<1>11. b \in Nat /\ 2 * (P * b) <= 2 * (w * i) + P /\ 2 * (w * i) <= 2 * (P * b) + P
  BY <1>9, <1>10, RoundedIsNear
<1>12. Back(w) = b
  BY <1>2, <1>8, <1>10 DEF Back
<1>13. PICK x \in Nat, y \in Nat : x = P \div r /\ y < r /\ P = r * x + y
  BY Division
<1>14. PICK z \in Nat, u \in Nat : z = w \div P /\ u < P /\ w = P * z + u
  <2>1. w \in Nat
    BY <1>5
  <2> QED
    BY <2>1, Division
<1>15. 2 * Difference(b, a) <= x + z + 3
  BY <1>5, <1>7, <1>11, <1>13, <1>14, RoundTrip
<1>16. TwiceLoss(w) = x + z + 3
  BY <1>1, <1>2, <1>13, <1>14 DEF TwiceLoss
<1> QED
  BY <1>5, <1>11, <1>12, <1>15, <1>16

\* The kinds of plan the engine decides for a foreign purchase.
OnePayment(d) == decision.method \in {"full_payment", "wait"} /\ decision.parts = {Part(d, worth)}
TwoPayments(a) ==
  /\ decision.method = "partial_payment"
  /\ decision.parts = {Part(today, a), Part(today + 9, worth - a)}
  /\ decision.earliest \in {today + 9, today + 30}
  /\ ~decision.changes => decision.earliest = today + 9
SomePayments(o, c) ==
  /\ decision.method = "installments"
  /\ c = Converted(o.amount, ask.currency, world.home, today)
  /\ decision.parts = {Part(today + o.from + 30 * i, c) : i \in 0..(o.count - 1)}
NoPayment == decision.method = "not_recommended" /\ decision.parts = {}

\* A possible decision is of one of these kinds, and its safe amount is a number.
LEMMA DecisionIs ==
  ASSUME worth \in Nat, today \in Nat, Foreign, decision \in Possible(worth)
  PROVE  /\ decision.safe \in Int
         /\ \/ \E d \in Int : OnePayment(d)
            \/ \E a \in Int : TwoPayments(a)
            \/ \E o \in ask.options : \E c : SomePayments(o, c)
            \/ NoPayment
<1>1. \A s \in Shares(worth) : s \in Int
  BY DEF Shares
<1>2. CASE decision \in FullPayments(worth)
  <2>1. decision.safe \in Int /\ OnePayment(today)
    BY <1>1, <1>2 DEF FullPayments, DecisionOf, OnePayment
  <2> QED
    BY <2>1
<1>3. CASE decision \in Waits(worth)
  <2>1. decision.safe \in Int /\ OnePayment(today + 9)
    BY <1>1, <1>3 DEF Waits, DecisionOf, OnePayment
  <2> QED
    BY <2>1
<1>4. CASE decision \in PartialPayments(worth)
  <2>1. decision.safe \in Int /\ \E a \in Int : TwoPayments(a)
    BY <1>1, <1>4 DEF PartialPayments, DecisionOf, TwoPayments, Later30
  <2> QED
    BY <2>1
<1>5. CASE decision \in Installments(worth)
  <2>0. Running \subseteq ask.options
    BY DEF Running
  <2>1. PICK o \in Running, s \in Shares(worth) :
          decision = DecisionOf("installments", s, SellersParts(o), Later30, FALSE)
    BY <1>5 DEF Installments, DecisionOf
  <2>2. SomePayments(o, Converted(o.amount, ask.currency, world.home, today)) /\ decision.safe \in Int
    BY <1>1, <2>1 DEF SomePayments, DecisionOf, SellersParts
  <2> QED
    BY <2>0, <2>1, <2>2
<1>6. CASE decision \in Refusals(worth)
  <2>1. decision.safe \in Int /\ NoPayment
    BY <1>1, <1>6 DEF Refusals, DecisionOf, NoPayment
  <2> QED
    BY <2>1
<1> QED
  BY <1>2, <1>3, <1>4, <1>5, <1>6 DEF Possible, Foreign

\* The safe amount reported is between nothing and the price, and the price if the
\* engine's is.
LEMMA SafeBackIsSafe ==
  ASSUME RequestInv, Worthy, Foreign, decision.safe \in Int
  PROVE  /\ SafeBack \in Int /\ 0 <= SafeBack /\ SafeBack <= ask.amount
         /\ decision.safe = worth => SafeBack = ask.amount
<1>1. ask.amount \in Int /\ ask.amount > 0
  BY PurchaseTyped DEF RequestInv, Worthy, Priced, Passed, Accepted
<1>2. worth \in Int
  BY <1>1, ConvertedType DEF RequestInv, Worthy, Priced
<1>3. CASE decision.safe >= worth
  BY <1>1, <1>3 DEF SafeBack
<1>4. CASE decision.safe < worth /\ decision.safe <= 0
  BY <1>1, <1>2, <1>4 DEF SafeBack
<1>5. CASE decision.safe < worth /\ decision.safe > 0
  <2>1. PICK i \in Nat : i = RateBack
    BY RateType, ReciprocalType DEF RateBack, RequestInv
  <2>2. decision.safe * i \in Nat
    BY <1>5, <2>1
  <2>3. Back(decision.safe) \in Nat
    BY <2>1, <2>2, CurrenciesAssumption, RoundedIsNear DEF Back
  <2>4. SafeBack = Smaller(ask.amount, Back(decision.safe))
    BY <1>2, <1>5 DEF SafeBack
  <2> QED
    BY <1>1, <1>2, <1>5, <2>3, <2>4 DEF Smaller
<1> QED
  BY <1>2, <1>3, <1>4, <1>5

\* Installments are as many as the seller's, on different days, each the amount reported.
PartsFrom(t, n, c) == {Part(t + 30 * i, c) : i \in 0..(n - 1)}

\* They are as many as they should be.
LEMMA SeveralParts ==
  ASSUME NEW t \in Int, NEW n \in Nat, NEW c
  PROVE  Cardinality(PartsFrom(t, n, c)) = n /\ \A x \in PartsFrom(t, n, c) : x.amount = c
<1>0. PICK S : S = PartsFrom(t, n, c)
  OBVIOUS
<1>1. PICK g : g = [i \in 0..(n - 1) |-> Part(t + 30 * i, c)]
  OBVIOUS
<1>2. g \in Surjection(0..(n - 1), S)
  BY <1>0, <1>1 DEF Surjection, PartsFrom
<1>3. \A i, j \in 0..(n - 1) : g[i] = g[j] => i = j
  <2> SUFFICES ASSUME NEW i \in 0..(n - 1), NEW j \in 0..(n - 1), g[i] = g[j] PROVE i = j
    OBVIOUS
  <2>1. g[i].date = t + 30 * i /\ g[j].date = t + 30 * j
    BY <1>1 DEF Part
  <2> QED
    BY <2>1
<1>4. g \in Bijection(0..(n - 1), S)
  BY <1>1, <1>2, <1>3 DEF Bijection, Injection, IsInjective, Surjection
<1>5. IsFiniteSet(0..(n - 1)) /\ Cardinality(0..(n - 1)) = n
  <2>1. 0 \in Int /\ n - 1 \in Int
    OBVIOUS
  <2> QED
    BY <2>1, FS_Interval
<1>6. Cardinality(S) = n
  BY <1>4, <1>5, FS_Bijection DEF ExistsBijection
<1> QED
  BY <1>0, <1>6 DEF Part, PartsFrom

\* What is reported of each kind of plan.
LEMMA OnePaymentAddsUp ==
  ASSUME RequestInv, Worthy, Foreign, NEW d \in Int, OnePayment(d)
  PROVE  /\ 2 * Difference(Total(PartsBack), ask.amount) <= TwiceLoss(worth)
         /\ {x.date : x \in PartsBack} = {x.date : x \in decision.parts}
<1>1. Passed /\ worth = Converted(ask.amount, ask.currency, world.home, today) /\ ask.amount \in Nat
  BY PurchaseTyped DEF RequestInv, Worthy, Priced, Passed, Accepted
<1>2. Back(worth) \in Nat /\ 2 * Difference(Back(worth), ask.amount) <= TwiceLoss(worth)
  BY <1>1, BackIsNear
<1>3. PICK x : x = Part(d, Back(worth))
  OBVIOUS
<1>4. x.amount = Back(worth) /\ x.date = d
  BY <1>3 DEF Part
<1>5. PartsBack = {x}
  BY <1>3 DEF PartsBack, OnePayment, Part
<1>6. Total(PartsBack) = Back(worth)
  BY <1>2, <1>4, <1>5, TotalOfOne
<1>7. {y.date : y \in decision.parts} = {d}
  BY DEF OnePayment, Part
<1>8. {y.date : y \in PartsBack} = {d}
  BY <1>4, <1>5
<1> QED
  BY <1>2, <1>6, <1>7, <1>8

\* Two payments are made anew of the safe amount reported and the rest.
LEMMA TwoPaymentsAddUp ==
  ASSUME RequestInv, Worthy, Foreign, decision.safe \in Int, NEW a \in Int, TwoPayments(a)
  PROVE  /\ Total(PartsBack) = ask.amount
         /\ ~decision.changes => {x.date : x \in PartsBack} = {x.date : x \in decision.parts}
<1>1. ask.amount \in Int /\ today \in Nat
  BY PurchaseTyped DEF RequestInv, Worthy, Priced, Passed, Accepted
<1>2. PICK s \in Int : s = SafeBack
  BY SafeBackIsSafe
<1>3. PICK e \in Int : e = decision.earliest /\ e # today
  BY <1>1 DEF TwoPayments
<1>4. PICK x, y : x = Part(today, s) /\ y = Part(e, ask.amount - s)
  OBVIOUS
<1>5. x.amount = s /\ y.amount = ask.amount - s /\ x.date = today /\ y.date = e
  BY <1>4 DEF Part
<1>6. PartsBack = {x, y}
  BY <1>2, <1>3, <1>4 DEF PartsBack, TwoPayments
<1>7. Total({x, y}) = x.amount + y.amount
  <2>1. x # y /\ x.amount \in Int /\ y.amount \in Int
    BY <1>1, <1>3, <1>5
  <2> QED
    BY <2>1, TotalOfTwo
<1>8. Total(PartsBack) = ask.amount
  BY <1>1, <1>5, <1>6, <1>7
<1>9. {z.date : z \in PartsBack} = {today, e}
  BY <1>5, <1>6
<1>10. {z.date : z \in decision.parts} = {today, today + 9}
  BY DEF TwoPayments, Part
<1> QED
  BY <1>3, <1>8, <1>9, <1>10 DEF TwoPayments

\* Each installment reported is the seller's, but for the rounding.
LEMMA SomePaymentsAddUp ==
  ASSUME RequestInv, Worthy, Foreign, NEW o \in ask.options, NEW c, SomePayments(o, c)
  PROVE  /\ Cardinality(PartsBack) = o.count
         /\ \A x \in PartsBack : 2 * Difference(x.amount, o.amount)
              <= TwiceLoss(Converted(o.amount, ask.currency, world.home, today))
         /\ {x.date : x \in PartsBack} = {x.date : x \in decision.parts}
<1>1. Passed /\ today \in Nat /\ o.amount \in Nat /\ o.count \in Nat /\ o.from \in Int
  BY PurchaseTyped DEF RequestInv, Worthy, Priced, Passed, Accepted
<1>0. PICK t \in Int : t = today + o.from
  BY <1>1
<1>2. c = Converted(o.amount, ask.currency, world.home, today)
  BY DEF SomePayments
<1>3. Back(c) \in Nat /\ 2 * Difference(Back(c), o.amount) <= TwiceLoss(c)
  BY <1>1, <1>2, BackIsNear
<1>4. PICK b : b = Back(c)
  OBVIOUS
<1>5. PartsBack = {Part(t + 30 * i, b) : i \in 0..(o.count - 1)}
  <2>1. PartsBack = {Part(p.date, Back(p.amount)) : p \in decision.parts}
    BY DEF PartsBack, SomePayments
  <2>2. decision.parts = {Part(t + 30 * i, c) : i \in 0..(o.count - 1)}
    BY <1>0 DEF SomePayments
  <2>3. \A i \in 0..(o.count - 1) :
          Part(Part(t + 30 * i, c).date, Back(Part(t + 30 * i, c).amount)) = Part(t + 30 * i, b)
    BY <1>4 DEF Part
  <2> QED
    BY <2>1, <2>2, <2>3
<1>6. Cardinality(PartsBack) = o.count /\ \A x \in PartsBack : x.amount = b
  <2>1. PICK n \in Nat : n = o.count
    BY <1>1
  <2>2. PartsBack = PartsFrom(t, n, b)
    BY <1>5, <2>1 DEF PartsFrom
  <2>3. Cardinality(PartsFrom(t, n, b)) = n /\ \A x \in PartsFrom(t, n, b) : x.amount = b
    BY SeveralParts
  <2> QED
    BY <2>1, <2>2, <2>3
<1>7. \A i \in 0..(o.count - 1) : Part(t + 30 * i, b).date = Part(t + 30 * i, c).date
  BY DEF Part
<1>8. {x.date : x \in PartsBack} = {x.date : x \in decision.parts}
  BY <1>0, <1>5, <1>7 DEF SomePayments
<1> QED
  BY <1>2, <1>3, <1>4, <1>6, <1>8

\* The plan reported for a foreign purchase pays for it, at whatever rate and precision: in
\* two parts exactly, otherwise but for the rounding there and back; and the safe amount
\* reported is between nothing and the price (services/decision_service.py).
THEOREM ForeignPlansAlwaysAddUp == Spec => []ForeignPlansAddUp
<1>1. RequestInv => ForeignPlansAddUp
  <2> SUFFICES ASSUME RequestInv, pc \in {"persist", "answered"}, answer # Nothing,
                      answer.kind = "decision", Foreign
               PROVE  ForeignPlansAddUp
    BY DEF ForeignPlansAddUp
  <2>1. Worthy /\ Reported
    BY DEF RequestInv
  <2>2. /\ answer.method = decision.method /\ answer.safe = SafeBack /\ answer.parts = PartsBack
        /\ decision \in Possible(worth)
    BY <2>1 DEF Reported
  <2>3. worth \in Nat /\ today \in Nat
    <3>1. ask.amount \in Nat /\ today \in Nat
      BY <2>1, PurchaseTyped DEF RequestInv, Worthy, Priced, Passed, Accepted
    <3> QED
      BY <2>1, <3>1, ConvertedType DEF Worthy, Priced
  <2>4. /\ decision.safe \in Int
        /\ \/ \E d \in Int : OnePayment(d)
           \/ \E a \in Int : TwoPayments(a)
           \/ \E o \in ask.options : \E c : SomePayments(o, c)
           \/ NoPayment
    BY <2>2, <2>3, DecisionIs
  <2>5. /\ 0 <= answer.safe /\ answer.safe <= ask.amount
        /\ decision.safe = worth => answer.safe = ask.amount
    BY <2>1, <2>2, <2>4, SafeBackIsSafe
  <2>6. ASSUME NEW d \in Int, OnePayment(d) PROVE ForeignPlansAddUp
    <3>1. answer.method \notin {"partial_payment", "installments"}
      BY <2>2, <2>6 DEF OnePayment
    <3>2. /\ 2 * Difference(Total(answer.parts), ask.amount) <= TwiceLoss(worth)
          /\ {x.date : x \in answer.parts} = {x.date : x \in decision.parts}
      BY <2>1, <2>2, <2>6, OnePaymentAddsUp
    <3> QED
      BY <2>5, <3>1, <3>2 DEF ForeignPlansAddUp
  <2>7. ASSUME NEW a \in Int, TwoPayments(a) PROVE ForeignPlansAddUp
    <3>1. answer.method = "partial_payment"
      BY <2>2, <2>7 DEF TwoPayments
    <3>2. /\ Total(answer.parts) = ask.amount
          /\ ~decision.changes => {x.date : x \in answer.parts} = {x.date : x \in decision.parts}
      BY <2>1, <2>2, <2>4, <2>7, TwoPaymentsAddUp
    <3> QED
      BY <2>5, <3>1, <3>2 DEF ForeignPlansAddUp
  <2>8. ASSUME NEW o \in ask.options, NEW c, SomePayments(o, c) PROVE ForeignPlansAddUp
    <3>1. answer.method = "installments"
      BY <2>2, <2>8 DEF SomePayments
    <3>2. /\ Cardinality(answer.parts) = o.count
          /\ \A x \in answer.parts : 2 * Difference(x.amount, o.amount)
               <= TwiceLoss(Converted(o.amount, ask.currency, world.home, today))
          /\ {x.date : x \in answer.parts} = {x.date : x \in decision.parts}
      BY <2>1, <2>2, <2>8, SomePaymentsAddUp
    <3> QED
      BY <2>5, <3>1, <3>2 DEF ForeignPlansAddUp
  <2>9. CASE NoPayment
    <3>1. answer.method = "not_recommended" /\ decision.parts = {} /\ PartsBack = {}
      BY <2>2, <2>9 DEF NoPayment, PartsBack
    <3> QED
      BY <2>2, <2>5, <3>1 DEF ForeignPlansAddUp
  <2> QED
    BY <2>4, <2>6, <2>7, <2>8, <2>9
<1> QED
  BY <1>1, RequestsHold, PTL

-----------------------------------------------------------------------------
(* Many events on few days *)

\* The events of three days, from the day of one of them on.
Within(T, e) == {f \in T : f.date \in e.date..(e.date + 2)}

\* No three events in such days.
Sparse(T) == \A e \in T : Cardinality(Within(T, e)) <= 2
SpreadOver(T, k) == \A e, f \in T : f.date - e.date <= k

\* A set of dated events has a first one.
LEMMA FirstExists ==
  ASSUME NEW T, T # {}, \A e \in T : e.date \in Nat
  PROVE  \E e \in T : \A f \in T : e.date <= f.date
<1>1. PICK D : D = {e.date : e \in T}
  OBVIOUS
<1>2. D \in SUBSET Nat /\ D # {}
  BY <1>1
<1>3. PICK m \in D : \A n \in D : m <= n
  BY <1>2, LeastNatural
<1> QED
  BY <1>1, <1>3

\* Sparse events over k days are at most two, or k + 1: three days at a time are taken away.
LEMMA SparseAreFew ==
  ASSUME NEW W, IsFiniteSet(W), \A e \in W : e.date \in Nat,
         NEW k \in Nat, SpreadOver(W, k), Sparse(W)
  PROVE  Cardinality(W) <= 2 \/ Cardinality(W) <= k + 1
<1> DEFINE Few(T, j) == Cardinality(T) <= 2 \/ Cardinality(T) <= j + 1
           G == {n \in Nat : \A j \in 0..n : \A T \in SUBSET W : SpreadOver(T, j) /\ Sparse(T) => Few(T, j)}
<1>1. \A T \in SUBSET W : IsFiniteSet(T) /\ Cardinality(T) \in Nat
  BY FS_Subset, FS_CardinalityType
<1>2. ASSUME NEW j \in Nat, NEW T \in SUBSET W, SpreadOver(T, j), Sparse(T), j >= 3 => j - 3 \in G
      PROVE  Few(T, j)
  <2>1. CASE T = {}
    BY <2>1, FS_EmptySet
  <2>2. CASE T # {}
    <3>1. \A e \in T : e.date \in Nat
      OBVIOUS
    <3>2. PICK e \in T : \A f \in T : e.date <= f.date
      BY <2>2, <3>1, FirstExists
    <3>3. PICK N : N = Within(T, e)
      OBVIOUS
    <3>4. Cardinality(N) <= 2 /\ N \in SUBSET T
      BY <1>2, <3>2, <3>3 DEF Sparse, Within
    <3>5. CASE j < 3
      <4>1. \A f \in T : f.date - e.date <= j
        BY <1>2, <3>2 DEF SpreadOver
      <4>2. \A f \in T : f.date \in e.date..(e.date + 2)
        BY <3>1, <3>2, <3>5, <4>1
      <4>3. N = T
        BY <3>3, <4>2 DEF Within
      <4> QED
        BY <3>4, <4>3
    <3>6. CASE j >= 3
      <4>1. PICK U : U = T \ N
        OBVIOUS
      <4>2. U \in SUBSET W /\ IsFiniteSet(U) /\ IsFiniteSet(N) /\ IsFiniteSet(T)
        BY <1>1, <3>4, <4>1
      <4>3. \A f \in U : f.date >= e.date + 3
        BY <3>1, <3>2, <3>3, <4>1 DEF Within
      <4>4. SpreadOver(U, j - 3)
        <5> SUFFICES ASSUME NEW g \in U, NEW f \in U PROVE f.date - g.date <= j - 3
          BY DEF SpreadOver
        <5>1. f.date - e.date <= j /\ g.date >= e.date + 3
          BY <1>2, <3>2, <4>1, <4>3 DEF SpreadOver
        <5> QED
          BY <3>1, <4>1, <5>1
      <4>5. Sparse(U)
        <5> SUFFICES ASSUME NEW f \in U PROVE Cardinality(Within(U, f)) <= 2
          BY DEF Sparse
        <5>1. PICK A, B : A = Within(U, f) /\ B = Within(T, f)
          OBVIOUS
        <5>2. A \in SUBSET B /\ B \in SUBSET W
          BY <4>1, <5>1 DEF Within
        <5>3. IsFiniteSet(B) /\ Cardinality(B) \in Nat /\ Cardinality(A) \in Nat
          BY <1>1, <5>2
        <5>4. Cardinality(A) <= Cardinality(B)
          BY <5>2, <5>3, FS_Subset
        <5>5. Cardinality(B) <= 2
          BY <1>2, <4>1, <5>1 DEF Sparse
        <5> QED
          BY <5>1, <5>3, <5>4, <5>5
      <4>6. Few(U, j - 3)
        <5>1. j - 3 \in G /\ j - 3 \in 0..(j - 3)
          BY <1>2, <3>6
        <5> QED
          BY <4>2, <4>4, <4>5, <5>1
      <4>7. Cardinality(T) = Cardinality(U) + Cardinality(N)
        <5>1. T = U \union N /\ U \intersect N = {}
          BY <3>4, <4>1
        <5>2. Cardinality(U \union N) = Cardinality(U) + Cardinality(N) - Cardinality(U \intersect N)
          BY <4>2, FS_Union
        <5>3. Cardinality(U \intersect N) = 0
          BY <5>1, FS_EmptySet
        <5>4. Cardinality(U) \in Nat /\ Cardinality(N) \in Nat
          BY <4>2, FS_CardinalityType
        <5> QED
          BY <5>1, <5>2, <5>3, <5>4
      <4>8. Cardinality(U) \in Nat /\ Cardinality(N) \in Nat
        BY <4>2, FS_CardinalityType
      <4> QED
        BY <3>4, <3>6, <4>6, <4>7, <4>8
    <3> QED
      BY <3>5, <3>6
  <2> QED
    BY <2>1, <2>2
<1> HIDE DEF Few
<1>3. 0 \in G
  BY <1>2
<1>4. ASSUME NEW n \in Nat, n \in G PROVE n + 1 \in G
  <2>1. ASSUME NEW j \in 0..(n + 1), NEW T \in SUBSET W, SpreadOver(T, j), Sparse(T) PROVE Few(T, j)
    <3>1. CASE j \in 0..n
      BY <1>4, <2>1, <3>1
    <3>2. CASE j = n + 1
      <4>1. j >= 3 => j - 3 \in G
        BY <1>4, <3>2
      <4> QED
        BY <1>2, <2>1, <4>1
    <3> QED
      BY <3>1, <3>2
  <2> QED
    BY <2>1
<1>5. Nat \subseteq G
  <2>1. \A n \in Nat : n \in G => n + 1 \in G
    BY <1>4
  <2> HIDE DEF G
  <2> QED
    BY <1>3, <2>1, NumbersByInduction
<1> QED
  <2>1. k \in G /\ k \in 0..k /\ W \in SUBSET W
    BY <1>5
  <2> QED
    BY <2>1 DEF Few

\* More than two events a day, on average, over some days: three come within three days.
LEMMA CrowdedDays ==
  ASSUME NEW W, IsFiniteSet(W), \A e \in W : e.date \in Nat,
         NEW k \in Nat \ {0}, SpreadOver(W, k), Cardinality(W) > 2 * k
  PROVE  \E e \in W : Cardinality(Within(W, e)) >= 3
<1> SUFFICES ASSUME \A e \in W : ~(Cardinality(Within(W, e)) >= 3) PROVE FALSE
  OBVIOUS
<1>1. ASSUME NEW e \in W PROVE Cardinality(Within(W, e)) <= 2
  <2>1. PICK N : N = Within(W, e)
    OBVIOUS
  <2>2. Cardinality(N) \in Nat
    <3>1. N \in SUBSET W
      BY <2>1 DEF Within
    <3> QED
      BY <3>1, FS_Subset, FS_CardinalityType
  <2> QED
    BY <2>1, <2>2
<1>2. Cardinality(W) <= 2 \/ Cardinality(W) <= k + 1
  BY <1>1, SparseAreFew DEF Sparse
<1>3. Cardinality(W) \in Nat
  BY FS_CardinalityType
<1> QED
  BY <1>2, <1>3

-----------------------------------------------------------------------------
(* Forecasts are finite *)

FinitePlan(s) == IsFiniteSet(s.bills) /\ IsFiniteSet(s.salary)

\* The calendar has finitely many months.
LEMMA MonthsAreFinite == \A m, dom : IsFiniteSet(MonthlyFrom(m, dom))
<1> SUFFICES ASSUME NEW m, NEW dom PROVE IsFiniteSet(MonthlyFrom(m, dom))
  OBVIOUS
<1>1. IsFiniteSet(Months)
  <2>1. PICK n \in Nat : n = Len(MonthLength)
    BY MonthLengthAssumption
  <2>2. Months = 1..n
    BY <2>1, MonthLengthAssumption DEF Months
  <2> QED
    BY <2>2, FS_Interval
<1>2. PICK S : S = {y \in Months : y >= m}
  OBVIOUS
<1>3. IsFiniteSet(S)
  BY <1>1, <1>2, FS_Subset
<1>4. PICK f : f = [x \in S |-> DateIn(x, dom)]
  OBVIOUS
<1>5. IsFiniteSet({f[x] : x \in S})
  BY <1>3, FiniteImage
<1>6. {f[x] : x \in S} = MonthlyFrom(m, dom)
  BY <1>2, <1>4 DEF MonthlyFrom
<1> QED
  BY <1>5, <1>6

\* So has the horizon days, of whatever series of dates.
LEMMA DaysAreFinite ==
  ASSUME NEW t \in Nat, NEW D, IsFiniteSet(D) \/ D \subseteq Int
  PROVE  IsFiniteSet(Ahead(D, t)) /\ IsFiniteSet(FromToday(D, t))
<1>1. PICK A, B : A = Ahead(D, t) /\ B = FromToday(D, t)
  OBVIOUS
<1>2. A \in SUBSET D /\ B \in SUBSET D
  BY <1>1 DEF Ahead, FromToday
<1>3. CASE IsFiniteSet(D)
  BY <1>1, <1>2, <1>3, FS_Subset
<1>4. CASE D \subseteq Int
  <2>1. A \in SUBSET (t..(t + Horizon)) /\ B \in SUBSET (t..(t + Horizon))
    <3>1. t + Horizon \in Nat
      BY DEF Horizon
    <3>2. \A d \in A : d \in Int /\ t < d /\ d <= t + Horizon
      BY <1>1, <1>4 DEF Ahead
    <3>3. \A d \in B : d \in Int /\ t <= d /\ d <= t + Horizon
      BY <1>1, <1>4 DEF FromToday
    <3> QED
      BY <3>1, <3>2, <3>3
  <2>2. IsFiniteSet(t..(t + Horizon))
    <3>1. t \in Int /\ t + Horizon \in Int
      BY DEF Horizon
    <3> QED
      BY <3>1, FS_Interval
  <2> QED
    BY <1>1, <2>1, <2>2, FS_Subset
<1> QED
  BY <1>3, <1>4

\* A step of days gives whole days.
LEMMA StepsAreDays == \A step, last, t : Every(step, last, t) \subseteq Int
BY DEF Every

\* What falls due on days, at one amount each.
ItemsOn(e, D, a) == {Item(e, d, a) : d \in D}
PayOn(D, a) == {[date |-> d, amount |-> a, category |-> "salary"] : d \in D}

\* It is as finite as the days.
LEMMA ItemsAreFinite ==
  ASSUME NEW D, IsFiniteSet(D), NEW e, NEW a
  PROVE  IsFiniteSet(ItemsOn(e, D, a)) /\ IsFiniteSet(PayOn(D, a))
<1>1. PICK f, g : /\ f = [d \in D |-> Item(e, d, a)]
                  /\ g = [d \in D |-> [date |-> d, amount |-> a, category |-> "salary"]]
  OBVIOUS
<1>2. IsFiniteSet({f[d] : d \in D})
  BY FiniteImage
<1>3. IsFiniteSet({g[d] : d \in D})
  BY FiniteImage
<1>4. {f[d] : d \in D} = ItemsOn(e, D, a)
  BY <1>1 DEF ItemsOn
<1>5. {g[d] : d \in D} = PayOn(D, a)
  BY <1>1 DEF PayOn
<1> QED
  BY <1>2, <1>3, <1>4, <1>5

\* The engine's projections are finite.
LEMMA EngineProjectionsFinite ==
  ASSUME NEW R, NEW t \in Nat
  PROVE  /\ \A c : IsFiniteSet(FixedItems(R, c, t))
         /\ IsFiniteSet(SalaryItems(R, t))
<1>1. ASSUME NEW c PROVE IsFiniteSet(FixedItems(R, c, t))
  <2>1. PICK w : w = Recent(Paid(R, c, t), Window)
    OBVIOUS
  <2>2. PICK D : D = Ahead(MonthlyFrom(MonthOf[t], TypicalDay(w)), t)
    OBVIOUS
  <2>3. IsFiniteSet(D)
    BY <2>2, MonthsAreFinite, DaysAreFinite
  <2>4. IsFiniteSet(ItemsOn(LastOf(w), D, UpperMedian(w)))
    BY <2>3, ItemsAreFinite
  <2>5. FixedItems(R, c, t) = {} \/ FixedItems(R, c, t) = ItemsOn(LastOf(w), D, UpperMedian(w))
    BY <2>1, <2>2 DEF FixedItems, ItemsOn
  <2> QED
    BY <2>4, <2>5, FS_EmptySet
<1>2. IsFiniteSet(SalaryItems(R, t))
  <2>1. PICK S, w, last : S = Salaries(R) /\ w = Recent(S, Window) /\ last = LastOf(S)
    OBVIOUS
  <2>2. PICK dates : dates = IF PaidMonthly(w) THEN MonthlyFrom(MonthOf[last.date] + 1, TypicalDay(w))
                             ELSE Every(MeanGap(w), last.date, t)
    OBVIOUS
  <2>3. IsFiniteSet(dates) \/ dates \subseteq Int
    BY <2>2, MonthsAreFinite, StepsAreDays
  <2>4. PICK D : D = Ahead(dates, t)
    OBVIOUS
  <2>5. IsFiniteSet(D)
    BY <2>3, <2>4, DaysAreFinite
  <2>6. IsFiniteSet(PayOn(D, TypicalSalary(S)))
    BY <2>5, ItemsAreFinite
  <2>7. SalaryItems(R, t) = {} \/ SalaryItems(R, t) = PayOn(D, TypicalSalary(S))
    BY <2>1, <2>2, <2>4 DEF SalaryItems, PayOn
  <2> QED
    BY <2>6, <2>7, FS_EmptySet
<1> QED
  BY <1>1, <1>2

\* Dropping what is scheduled leaves a projection finite.
LEMMA UnscheduledFinite ==
  ASSUME NEW items, IsFiniteSet(items), NEW scheduled
  PROVE  IsFiniteSet(Unscheduled(items, scheduled))
<1>1. Unscheduled(items, scheduled) \in SUBSET items
  BY DEF Unscheduled
<1> QED
  BY <1>1, FS_Subset

\* A state of the engine holds finitely many bills and payments of salary.
LEMMA EngineStateFinite ==
  ASSUME NEW R, NEW a, NEW t \in Nat
  PROVE  FinitePlan(EngineState(R, a, t))
<1>1. PICK f : f = [c \in FixedCategories |-> FixedItems(R, c, t)]
  OBVIOUS
<1>2. PICK F : F = {f[c] : c \in FixedCategories}
  OBVIOUS
<1>3. IsFiniteSet(F)
  BY <1>2, KindsAssumption, FiniteImage
<1>4. \A x \in F : IsFiniteSet(x)
  BY <1>1, <1>2, EngineProjectionsFinite
<1>5. IsFiniteSet(UNION F)
  BY <1>3, <1>4, FS_UNION
<1>6. {FixedItems(R, c, t) : c \in FixedCategories} = F
  BY <1>1, <1>2
<1>7. EngineState(R, a, t).bills = Unscheduled(UNION F, Scheduled(R, t, "FUTURE_DEBIT"))
  BY <1>6 DEF EngineState
<1>8. EngineState(R, a, t).salary = Unscheduled(SalaryItems(R, t), Scheduled(R, t, "CONFIRMED_INCOME"))
  BY DEF EngineState
<1>9. IsFiniteSet(EngineState(R, a, t).bills)
  BY <1>5, <1>7, UnscheduledFinite
<1>10. IsFiniteSet(EngineState(R, a, t).salary)
  BY <1>8, EngineProjectionsFinite, UnscheduledFinite
<1> QED
  BY <1>9, <1>10 DEF FinitePlan

\* So are the projections of the batch program.
LEMMA BatchProjectionsFinite ==
  ASSUME NEW R, NEW t \in Nat
  PROVE  /\ \A c : IsFiniteSet(BatchFixedItems(R, c, t)) /\ IsFiniteSet(SteppedSpending(R, c, t))
         /\ \A m, filtered : IsFiniteSet(BatchSalaryItems(R, t, m, filtered))
<1>1. ASSUME NEW c PROVE IsFiniteSet(BatchFixedItems(R, c, t))
  <2>1. PICK S, w, last : S = Spent(R, c, t) /\ w = Recent(S, Window) /\ last = LastOf(S)
    OBVIOUS
  <2>2. PICK D1 : D1 = Ahead(Every(30, last.date, t), t)
    OBVIOUS
  <2>3. PICK D2 : D2 = FromToday(MonthlyFrom(MonthOf[last.date] + 1, TypicalDay(w)), t)
    OBVIOUS
  <2>4. PICK D3 : D3 = Ahead(Every(MeanGap(w), last.date, t), t)
    OBVIOUS
  <2>5. IsFiniteSet(D1) /\ IsFiniteSet(D2) /\ IsFiniteSet(D3)
    BY <2>2, <2>3, <2>4, MonthsAreFinite, StepsAreDays, DaysAreFinite
  <2>6. IsFiniteSet(ItemsOn(last, D1, last.amount))
    BY <2>5, ItemsAreFinite
  <2>7. IsFiniteSet(ItemsOn(last, D2, Median(w)))
    BY <2>5, ItemsAreFinite
  <2>8. IsFiniteSet(ItemsOn(last, D3, Median(w)))
    BY <2>5, ItemsAreFinite
  <2>9. BatchFixedItems(R, c, t) \in
          {{}, ItemsOn(last, D1, last.amount), ItemsOn(last, D2, Median(w)), ItemsOn(last, D3, Median(w))}
    BY <2>1, <2>2, <2>3, <2>4 DEF BatchFixedItems, ItemsOn
  <2> QED
    BY <2>6, <2>7, <2>8, <2>9, FS_EmptySet
<1>2. ASSUME NEW c PROVE IsFiniteSet(SteppedSpending(R, c, t))
  <2>1. PICK S, w : S = Spent(R, c, t) /\ w = Recent(S, 8)
    OBVIOUS
  <2>2. PICK D : D = FromToday(Every(Cadence(w), LastOf(S).date, t), t)
    OBVIOUS
  <2>3. IsFiniteSet(D)
    BY <2>2, StepsAreDays, DaysAreFinite
  <2>4. IsFiniteSet(ItemsOn(LastOf(S), D, Median(w)))
    BY <2>3, ItemsAreFinite
  <2>5. SteppedSpending(R, c, t) = {} \/ SteppedSpending(R, c, t) = ItemsOn(LastOf(S), D, Median(w))
    BY <2>1, <2>2 DEF SteppedSpending, ItemsOn
  <2> QED
    BY <2>4, <2>5, FS_EmptySet
<1>3. ASSUME NEW m, NEW filtered PROVE IsFiniteSet(BatchSalaryItems(R, t, m, filtered))
  <2>1. PICK S, w, last : S = Salaries(R) /\ w = Recent(S, Window) /\ last = LastOf(S)
    OBVIOUS
  <2>2. PICK day : day = IF NamedDay(m) # NoDate THEN NamedDay(m) ELSE TypicalDay(w)
    OBVIOUS
  <2>3. PICK D1 : D1 = FromToday(MonthlyFrom(MonthOf[last.date] + 1, day), t)
    OBVIOUS
  <2>4. PICK D2 : D2 = Ahead(Every(MeanGap(w), last.date, t), t)
    OBVIOUS
  <2>5. IsFiniteSet(D1) /\ IsFiniteSet(D2)
    BY <2>3, <2>4, MonthsAreFinite, StepsAreDays, DaysAreFinite
  <2>6. IsFiniteSet(PayOn(D1, BatchTypicalSalary(S)))
    BY <2>5, ItemsAreFinite
  <2>7. IsFiniteSet(PayOn(D2, BatchTypicalSalary(S)))
    BY <2>5, ItemsAreFinite
  <2>8. BatchSalaryItems(R, t, m, filtered) \in
          {{}, PayOn(D1, BatchTypicalSalary(S)), PayOn(D2, BatchTypicalSalary(S))}
    BY <2>1, <2>2, <2>3, <2>4 DEF BatchSalaryItems, PayOn
  <2> QED
    BY <2>6, <2>7, <2>8, FS_EmptySet
<1> QED
  BY <1>1, <1>2, <1>3

\* What messages amend stays as finite as it was.
LEMMA AmendedFinite ==
  ASSUME NEW items, IsFiniteSet(items), NEW m
  PROVE  IsFiniteSet(AmendedPay(items, m)) /\ IsFiniteSet(AmendedRent(items, m))
<1>1. PICK told : told = {n \in DOMAIN m : OnPay(m[n]) /\ m[n].amount # Unknown}
  OBVIOUS
<1>2. PICK f : f = [i \in items |-> IF i.category = "salary"
                                    THEN [i EXCEPT !.amount = m[Max(told)].amount] ELSE i]
  OBVIOUS
<1>3. AmendedPay(items, m) = items \/ AmendedPay(items, m) = {f[i] : i \in items}
  BY <1>1, <1>2 DEF AmendedPay
<1>4. PICK g : g = [i \in items |-> IF i.category = "rent" THEN RentAfter(m, i) ELSE i]
  OBVIOUS
<1>5. AmendedRent(items, m) = {g[i] : i \in items}
  BY <1>4 DEF AmendedRent
<1>6. IsFiniteSet({f[i] : i \in items})
  BY FiniteImage
<1>7. IsFiniteSet({g[i] : i \in items})
  BY FiniteImage
<1> QED
  BY <1>3, <1>5, <1>6, <1>7

\* A state of the batch program holds finitely many bills and payments of salary.
LEMMA BatchStateFinite ==
  ASSUME NEW R, NEW a, NEW t \in Nat, NEW m, NEW daily \in BOOLEAN, NEW filtered
  PROVE  FinitePlan(BatchState(R, a, t, m, daily, filtered))
<1>1. PICK f : f = [c \in FixedCategories |-> BatchFixedItems(R, c, t)]
  OBVIOUS
<1>2. PICK F : F = {f[c] : c \in FixedCategories}
  OBVIOUS
<1>3. IsFiniteSet(F)
  BY <1>2, KindsAssumption, FiniteImage
<1>4. \A x \in F : IsFiniteSet(x)
  BY <1>1, <1>2, BatchProjectionsFinite
<1>5. IsFiniteSet(UNION F)
  BY <1>3, <1>4, FS_UNION
<1>6. {BatchFixedItems(R, c, t) : c \in FixedCategories} = F
  BY <1>1, <1>2
<1>7. PICK g : g = [c \in VariableCategories |-> SteppedSpending(R, c, t)]
  OBVIOUS
<1>8. PICK H : H = {g[c] : c \in VariableCategories}
  OBVIOUS
<1>9. IsFiniteSet(H)
  BY <1>8, KindsAssumption, FiniteImage
<1>10. \A x \in H : IsFiniteSet(x)
  BY <1>7, <1>8, BatchProjectionsFinite
<1>11. IsFiniteSet(UNION H)
  BY <1>9, <1>10, FS_UNION
<1>12. {SteppedSpending(R, c, t) : c \in VariableCategories} = H
  BY <1>7, <1>8
<1>13. PICK stepped : stepped = IF daily THEN {} ELSE UNION H
  OBVIOUS
<1>14. IsFiniteSet(stepped)
  BY <1>11, <1>13, FS_EmptySet
<1>15. PICK bills : bills = Unscheduled(UNION F, Scheduled(R, t, "FUTURE_DEBIT")) \union stepped
  OBVIOUS
<1>16. IsFiniteSet(bills)
  <2>1. IsFiniteSet(Unscheduled(UNION F, Scheduled(R, t, "FUTURE_DEBIT")))
    BY <1>5, UnscheduledFinite
  <2> QED
    BY <1>14, <1>15, <2>1, FS_Union
<1>17. BatchState(R, a, t, m, daily, filtered).bills = AmendedRent(bills, m)
  BY <1>6, <1>12, <1>13, <1>15 DEF BatchState
<1>18. PICK pay : pay = Unscheduled(BatchSalaryItems(R, t, m, filtered), Scheduled(R, t, "CONFIRMED_INCOME"))
  OBVIOUS
<1>19. IsFiniteSet(pay)
  BY <1>18, BatchProjectionsFinite, UnscheduledFinite
<1>20. BatchState(R, a, t, m, daily, filtered).salary = AmendedPay(pay, m)
  BY <1>18 DEF BatchState
<1> QED
  BY <1>16, <1>17, <1>19, <1>20, AmendedFinite DEF FinitePlan

-----------------------------------------------------------------------------
(* The rows of a user *)

\* What a row has, and an event made of it keeps.
Dated(r) ==
  /\ {"id", "external", "amount", "date", "category"} \subseteq DOMAIN r
  /\ r.id \in Int /\ r.external \in Int /\ r.date \in Nat

RowsInv ==
  /\ IsFiniteSet(rows) /\ \A r \in rows : Dated(r)
  /\ FinitePlan(lived)
  /\ state # Nothing => FinitePlan(state)
  /\ batch # Nothing => FinitePlan(batch)

\* A date is a number.
LEMMA DatesAreNumbers == Date \subseteq Nat
BY DEF Date

\* The rows a user begins with are dated and finite, and nothing is forecast yet.
LEMMA InitRows == Init => RowsInv
<1> SUFFICES ASSUME Init PROVE RowsInv
  OBVIOUS
<1>1. world \in World /\ IsFiniteSet(rows) /\ rows = world.rows
  BY WorldsAssumption DEF Init
<1>2. rows \subseteq Row
  BY <1>1 DEF World
<1>3. \A r \in rows : Dated(r)
  <2> SUFFICES ASSUME NEW r \in Row PROVE Dated(r)
    BY <1>2
  <2>1. r.id \in Ids /\ r.external \in Ids \union {NoId} /\ r.date \in Nat
    BY DEF Row
  <2>2. {"id", "external", "amount", "date", "category"} \subseteq DOMAIN r
    BY DEF Row
  <2>3. r.id \in Int /\ r.external \in Int
    <3>1. \A i \in Ids \union {NoId} : i \in Int
      BY IdsAssumption
    <3> QED
      BY <2>1, <3>1
  <2> QED
    BY <2>1, <2>2, <2>3 DEF Dated
<1>4. FinitePlan(lived) /\ state = Nothing /\ batch = Nothing
  BY FS_EmptySet DEF Init, Unlived, FinitePlan
<1> QED
  BY <1>1, <1>3, <1>4 DEF RowsInv

\* Each row of a bill is dated.
LEMMA BillRowsAreDated ==
  ASSUME today \in Nat, NEW b \in Bills, NEW step \in 0..3, NEW status, NEW direction, NEW kind
  PROVE  Dated(BillRow(b, step, status, direction, kind))
<1>1. b.id \in Nat /\ b.due \in Nat
  BY BillsAssumption, DatesAreNumbers
<1>2. PICK r : r = BillRow(b, step, status, direction, kind)
  OBVIOUS
<1>3. {"id", "external", "amount", "date", "category"} \subseteq DOMAIN r
  BY <1>2 DEF BillRow
<1>4. r.id = b.id + step /\ r.external = NoId /\ r.date = IF step = 0 THEN b.due ELSE today
  BY <1>2 DEF BillRow
<1> QED
  BY <1>1, <1>2, <1>3, <1>4, IdsAssumption DEF Dated

\* A row more leaves the rows finite and dated.
LEMMA RowAdded ==
  ASSUME RowsInv, NEW r, Dated(r), rows' = rows \union {r}, UNCHANGED <<state, batch, lived>>
  PROVE  RowsInv'
<1>1. IsFiniteSet(rows') /\ \A x \in rows' : Dated(x)
  BY FS_AddElement DEF RowsInv
<1> QED
  BY <1>1 DEF RowsInv, FinitePlan

\* What a state says is as finite as the state.
LEMMA SayingIsFinite ==
  ASSUME NEW s, FinitePlan(s)
  PROVE  FinitePlan(Says(s))
<1>1. PICK S : S = s.bills
  OBVIOUS
<1>2. PICK f : f = [i \in S |-> [date |-> i.date, amount |-> i.amount, category |-> i.category, change |-> i.change]]
  OBVIOUS
<1>3. IsFiniteSet({f[i] : i \in S})
  BY <1>1, FiniteImage DEF FinitePlan
<1>4. Says(s).bills = {f[i] : i \in S} /\ Says(s).salary = s.salary
  BY <1>1, <1>2 DEF Says
<1> QED
  BY <1>3, <1>4 DEF FinitePlan

\* A day that passes leaves the rows finite and dated, and a finite rest of the forecast.
LEMMA DayAdded ==
  ASSUME RowsInv, today \in Nat, PassDay
  PROVE  RowsInv'
<1>1. FinitePlan(Forecast)
  BY SayingIsFinite DEF Forecast, RowsInv
<1>2. PICK d \in Nat : d = today + 1
  OBVIOUS
<1>3. PICK bills, salary : bills = On(Forecast.bills, d) /\ salary = On(Forecast.salary, d)
  OBVIOUS
<1>4. IsFiniteSet(bills) /\ IsFiniteSet(salary)
  <2>1. bills \in SUBSET Forecast.bills /\ salary \in SUBSET Forecast.salary
    BY <1>3 DEF On
  <2> QED
    BY <1>1, <2>1, FS_Subset DEF FinitePlan
<1>5. PICK Number : Number = [i \in bills |-> 1 + Cardinality({j \in bills : j.change < i.change})]
  OBVIOUS
<1>6. \A i \in bills : Number[i] \in Nat
  <2> SUFFICES ASSUME NEW i \in bills PROVE Number[i] \in Nat
    OBVIOUS
  <2>1. PICK T : T = {j \in bills : j.change < i.change}
    OBVIOUS
  <2>2. Cardinality(T) \in Nat
    BY <1>4, <2>1, FS_Subset, FS_CardinalityType
  <2> QED
    BY <1>5, <2>1, <2>2
<1>7. PICK f : f = [i \in bills |-> PaidRow(Number[i], d, -i.amount, i.category, "debit")]
  OBVIOUS
<1>8. PICK g : g = [i \in salary |-> PaidRow(0, d, i.amount, "salary", "credit")]
  OBVIOUS
<1>9. PICK A, B : A = {f[i] : i \in bills} /\ B = {g[i] : i \in salary}
  OBVIOUS
<1>10. rows' = rows \union A \union B
  BY <1>2, <1>3, <1>5, <1>7, <1>8, <1>9 DEF PassDay
<1>11. IsFiniteSet(A) /\ IsFiniteSet(B)
  <2>1. IsFiniteSet(A)
    BY <1>4, <1>9, FiniteImage
  <2>2. IsFiniteSet(B)
    BY <1>4, <1>9, FiniteImage
  <2> QED
    BY <2>1, <2>2
<1>12. ASSUME NEW k \in Nat, NEW amount, NEW category, NEW direction
       PROVE  Dated(PaidRow(k, d, amount, category, direction))
  <2>1. PICK r : r = PaidRow(k, d, amount, category, direction)
    OBVIOUS
  <2>2. {"id", "external", "amount", "date", "category"} \subseteq DOMAIN r
    BY <2>1 DEF PaidRow
  <2>3. r.id = 10000 + 10 * d + k /\ r.external = NoId /\ r.date = d
    BY <2>1 DEF PaidRow
  <2> QED
    BY <2>1, <2>2, <2>3, IdsAssumption DEF Dated
<1>13. \A r \in A \union B : Dated(r)
  <2>1. \A r \in A : Dated(r)
    BY <1>6, <1>7, <1>9, <1>12
  <2>2. \A r \in B : Dated(r)
    <3>1. 0 \in Nat
      OBVIOUS
    <3>2. \A i \in salary : Dated(g[i])
      BY <1>8, <1>12, <3>1
    <3> QED
      BY <1>9, <3>2
  <2> QED
    BY <2>1, <2>2
<1>14. IsFiniteSet(rows') /\ \A r \in rows' : Dated(r)
  <2>1. IsFiniteSet(rows \union A)
    BY <1>11, FS_Union DEF RowsInv
  <2>2. IsFiniteSet((rows \union A) \union B)
    BY <1>11, <2>1, FS_Union
  <2> QED
    BY <1>10, <1>13, <2>2 DEF RowsInv
<1>15. FinitePlan(lived')
  <2>1. PICK a, b : a = After(Forecast.bills, d) /\ b = After(Forecast.salary, d)
    OBVIOUS
  <2>2. a \in SUBSET Forecast.bills /\ b \in SUBSET Forecast.salary
    BY <2>1 DEF After
  <2>3. IsFiniteSet(a) /\ IsFiniteSet(b)
    BY <1>1, <2>2, FS_Subset DEF FinitePlan
  <2>4. lived'.bills = a /\ lived'.salary = b
    BY <1>2, <2>1 DEF PassDay
  <2> QED
    BY <2>3, <2>4 DEF FinitePlan
<1>16. state' = Nothing /\ batch' = Nothing
  BY DEF PassDay
<1> QED
  BY <1>14, <1>15, <1>16 DEF RowsInv

\* Each step leaves the rows finite and dated, and every forecast finite.
LEMMA RowsStep ==
  ASSUME RequestInv, RowsInv, [Next]_vars
  PROVE  RowsInv'
<1>0. today \in Nat /\ world \in World
  BY WorldsAssumption DEF RequestInv
<1>1. CASE UNCHANGED <<rows, state, batch, lived>>
  BY <1>1 DEF RowsInv, FinitePlan
<1>2. ASSUME NEW b \in world.bills,
             \/ \E status \in {"scheduled", "pending"} : Announce(b, status)
             \/ Confirm(b)
             \/ Settle(b)
             \/ \E status \in {"cancelled", "failed"} : Withdraw(b, status)
             \/ Refund(b)
      PROVE  RowsInv'
  <2>1. b \in Bills
    BY <1>0 DEF World
  <2>2. UNCHANGED <<state, batch, lived>>
    BY <1>2 DEF Announce, Confirm, Settle, Withdraw, Refund, request
  <2>3. \E step \in 0..3 : \E status, direction, kind :
          rows' = rows \union {BillRow(b, step, status, direction, kind)}
    <3>1. 0 \in 0..3 /\ 1 \in 0..3 /\ 2 \in 0..3 /\ 3 \in 0..3
      OBVIOUS
    <3> QED
      BY <1>2, <3>1 DEF Announce, Confirm, Settle, Withdraw, Refund
  <2>4. PICK r : Dated(r) /\ rows' = rows \union {r}
    BY <1>0, <2>1, <2>3, BillRowsAreDated
  <2> QED
    BY <2>2, <2>4, RowAdded
<1>3. CASE PassDay
  BY <1>0, <1>3, DayAdded
<1>4. CASE Build
  <2>1. UNCHANGED <<rows, batch, lived>>
    BY <1>4 DEF Build, user
  <2>2. state' = state \/ \E R, a : state' = EngineState(R, a, today)
    BY <1>4 DEF Build
  <2>3. state' # Nothing => FinitePlan(state')
    BY <1>0, <2>2, EngineStateFinite DEF RowsInv
  <2> QED
    BY <2>1, <2>3 DEF RowsInv, FinitePlan
<1>5. CASE RunBatch
  <2>1. UNCHANGED <<rows, state, lived>>
    BY <1>5 DEF RunBatch, user
  <2>2. PICK R : R = BatchResolved(EventsOf(rows) \union world.unread, world.pictures, world.home)
    OBVIOUS
  <2>3. \E daily \in BOOLEAN : \E filtered :
          batch' = BatchState(R, AvailableBalance, today, world.messages, daily, filtered)
    BY <1>5, <2>2 DEF RunBatch, OlderState
  <2>4. FinitePlan(batch')
    BY <1>0, <2>3, BatchStateFinite
  <2> QED
    BY <2>1, <2>4 DEF RowsInv, FinitePlan
<1>6. ASSUME \/ \E p \in world.purchases : Ask(p)
             \/ Gate \/ Convert \/ Hang \/ EngineFails \/ Report \/ Rest
             \/ \E d \in Possible(worth) : Decide(d)
             \/ \E committed \in BOOLEAN : Persist(committed)
      PROVE  UNCHANGED <<rows, state, batch, lived>>
  BY <1>6 DEF Ask, Gate, Convert, Hang, EngineFails, Report, Rest, Decide, Persist, user, request, vars
<1>7. CASE UNCHANGED vars
  BY <1>1, <1>7 DEF vars, user, request
<1> QED
  BY <1>1, <1>2, <1>3, <1>4, <1>5, <1>6, <1>7 DEF Next

\* So they are in every reachable state.
LEMMA RowsHold == Spec => []RowsInv
<1>1. Init => RowsInv
  BY InitRows
<1>2. RequestInv /\ RowsInv /\ [Next]_vars => RowsInv'
  BY RowsStep
<1> QED
  BY <1>1, <1>2, RequestsHold, PTL DEF Spec

-----------------------------------------------------------------------------
(* Behind the gate *)

\* A resolved event has the day and the category of the row it was made of.
LEMMA EventsOfRows ==
  ASSUME NEW S, \A r \in S : Dated(r), NEW home, NEW e \in Resolved(S, home)
  PROVE  \E r \in S : /\ e = [EventOf(r) EXCEPT !.amount = InHome(EventOf(r), home)]
                      /\ e.date = r.date /\ e.category = r.category
                      /\ e.id \in Int /\ e.date \in Nat
<1>1. PICK o \in EventsOf(S) : e = [o EXCEPT !.amount = InHome(o, home)]
  BY DEF Resolved, Resolve
<1>2. PICK r \in S : o = EventOf(r)
  BY <1>1 DEF EventsOf
<1>3. Dated(r)
  BY <1>2
<1>4. o.date = r.date /\ o.category = r.category /\ o.id \in Int /\ DOMAIN o = DOMAIN r
  BY <1>2, <1>3 DEF EventOf, Dated
<1>5. e.date = o.date /\ e.category = o.category /\ e.id = o.id
  BY <1>1, <1>3, <1>4 DEF Dated
<1> QED
  BY <1>1, <1>2, <1>3, <1>4, <1>5 DEF Dated

\* Of events there is one that none is later than.
LEMMA NoLaterExists ==
  ASSUME NEW S, IsFiniteSet(S), S # {}, \A e \in S : e.id \in Int /\ e.date \in Nat
  PROVE  \E e \in S : \A x \in S : ~Later(x, e)
<1>1. PICK f, g : f = [e \in S |-> e.date] /\ g = [e \in S |-> e.id]
  OBVIOUS
<1>2. PICK D : D = {f[e] : e \in S}
  OBVIOUS
<1>3. IsFiniteSet(D) /\ D \in SUBSET Int /\ D # {}
  BY <1>1, <1>2, FiniteImage
<1>4. Max(D) \in D /\ \A y \in D : Max(D) >= y
  BY <1>3, Extremes
<1>5. PICK d \in D : \A y \in D : d >= y
  BY <1>4
<1>6. PICK M : M = {e \in S : f[e] = d}
  OBVIOUS
<1>7. IsFiniteSet(M) /\ M # {}
  BY <1>2, <1>6, FS_Subset
<1>8. PICK I : I = {g[e] : e \in M}
  OBVIOUS
<1>9. IsFiniteSet(I) /\ I \in SUBSET Int /\ I # {}
  <2>1. IsFiniteSet(I)
    BY <1>7, <1>8, FiniteImage
  <2>2. \A x \in M : g[x] \in Int
    BY <1>1, <1>6
  <2> QED
    BY <1>7, <1>8, <2>1, <2>2
<1>10. Max(I) \in I /\ \A y \in I : Max(I) >= y
  BY <1>9, Extremes
<1>11. PICK e \in M : \A x \in M : g[e] >= g[x]
  BY <1>8, <1>10
<1>12. \A x \in S : ~Later(x, e)
  <2> SUFFICES ASSUME NEW x \in S, Later(x, e) PROVE FALSE
    OBVIOUS
  <2>1. e \in S /\ e.date = d /\ x.date \in Nat /\ x.date <= d /\ d \in Int
    BY <1>1, <1>2, <1>3, <1>5, <1>6
  <2>2. x.date = d /\ x.id > e.id
    BY <2>1 DEF Later
  <2>3. x \in M
    BY <1>1, <1>6, <2>2
  <2>4. e.id >= x.id
    BY <1>1, <1>6, <1>11, <2>1, <2>3
  <2> QED
    BY <2>1, <2>2, <2>4
<1> QED
  BY <1>6, <1>12

\* So the last of some events is one of them.
LEMMA LastIsOne ==
  ASSUME NEW S, IsFiniteSet(S), S # {}, \A e \in S : e.id \in Int /\ e.date \in Nat
  PROVE  LastOf(S) \in S
BY NoLaterExists DEF LastOf

\* Of several events on the latest day the first is one of them.
LEMMA LatestIsOne ==
  ASSUME NEW S, IsFiniteSet(S), S # {}, \A e \in S : e.id \in Int /\ e.date \in Nat
  PROVE  Latest(S) \in S
<1>1. PICK D : D = {e \in S : \A f \in S : f.date <= e.date}
  OBVIOUS
<1>2. IsFiniteSet(D) /\ \A e \in D : e.id \in Int /\ e.date \in Nat
  BY <1>1, FS_Subset
<1>3. D # {}
  <2>1. PICK e \in S : \A x \in S : ~Later(x, e)
    BY NoLaterExists
  <2>2. \A x \in S : x.date <= e.date
    BY <2>1 DEF Later
  <2> QED
    BY <1>1, <2>1, <2>2
<1>4. PICK g : g = [e \in D |-> e.id]
  OBVIOUS
<1>5. PICK I : I = {g[e] : e \in D}
  OBVIOUS
<1>6. IsFiniteSet(I) /\ I \in SUBSET Int /\ I # {}
  BY <1>2, <1>3, <1>4, <1>5, FiniteImage
<1>7. PICK n \in I : \A y \in I : n <= y
  BY <1>6, Extremes
<1>8. PICK e \in D : e.id = n
  BY <1>4, <1>5
<1>9. \A f \in D : ~Later(e, f)
  <2> SUFFICES ASSUME NEW f \in D, Later(e, f) PROVE FALSE
    OBVIOUS
  <2>1. e.date <= f.date /\ f.id \in I
    BY <1>1, <1>4, <1>5
  <2>2. n <= f.id /\ e.id \in Int /\ f.id \in Int /\ e.date \in Nat /\ f.date \in Nat
    BY <1>2, <1>7, <2>1
  <2> QED
    BY <1>8, <2>1, <2>2 DEF Later
<1>10. FirstOf(D) \in D
  BY <1>9 DEF FirstOf
<1> QED
  BY <1>1, <1>10 DEF Latest

\* Of events there are recent ones, however many are asked for.
LEMMA RecentOf ==
  ASSUME NEW S, IsFiniteSet(S), S # {}, \A e \in S : e.id \in Int /\ e.date \in Nat, NEW n \in Nat \ {0}
  PROVE  Recent(S, n) # {}
<1>1. PICK e \in S : \A x \in S : ~Later(x, e)
  BY NoLaterExists
<1>2. {x \in S : Later(x, e)} = {}
  BY <1>1
<1>3. Cardinality({x \in S : Later(x, e)}) < n
  BY <1>2, FS_EmptySet
<1> QED
  BY <1>3 DEF Recent

\* So there are as many as the projections look at.
LEMMA RecentExist ==
  ASSUME NEW S, IsFiniteSet(S), S # {}, \A e \in S : e.id \in Int /\ e.date \in Nat
  PROVE  Recent(S, Window) # {}
BY RecentOf DEF Window

\* Where the projection of a salary does not end, three salaries came within three days.
LEMMA EndlessIsCrowded ==
  ASSUME NEW S, IsFiniteSet(S), \A r \in S : Dated(r), NEW home, NEW t,
         Endless(Resolved(S, home), t)
  PROVE  \E s \in S :
           Cardinality({r \in S : r.category = "salary" /\ r.date \in s.date..(s.date + 2)}) >= 3
<1>1. PICK g : g = [r \in S |-> [EventOf(r) EXCEPT !.amount = InHome(EventOf(r), home)]]
  OBVIOUS
<1>2. PICK R : R = Resolved(S, home)
  OBVIOUS
<1>3. \A e \in R : \E r \in S : /\ e = g[r] /\ e.date = r.date /\ e.category = r.category
                                /\ e.id \in Int /\ e.date \in Nat
  <2> SUFFICES ASSUME NEW e \in Resolved(S, home)
               PROVE  \E r \in S : /\ e = g[r] /\ e.date = r.date /\ e.category = r.category
                                   /\ e.id \in Int /\ e.date \in Nat
    BY <1>2
  <2>1. PICK r \in S : /\ e = [EventOf(r) EXCEPT !.amount = InHome(EventOf(r), home)]
                       /\ e.date = r.date /\ e.category = r.category
                       /\ e.id \in Int /\ e.date \in Nat
    BY EventsOfRows
  <2>2. e = g[r]
    BY <1>1, <2>1
  <2> QED
    BY <2>1, <2>2
<1>4. PICK A : A = Salaries(R)
  OBVIOUS
<1>5. PICK w : w = Recent(A, Window)
  OBVIOUS
<1>6. w \in SUBSET A /\ A \in SUBSET R /\ \A e \in A : e.category = "salary"
  BY <1>4, <1>5 DEF Recent, Salaries
<1>7. IsFiniteSet(R)
  <2>1. IsFiniteSet({g[r] : r \in S})
    BY FiniteImage
  <2>2. R \in SUBSET {g[r] : r \in S}
    BY <1>3
  <2> QED
    BY <2>1, <2>2, FS_Subset
<1>8. IsFiniteSet(A) /\ IsFiniteSet(w)
  BY <1>6, <1>7, FS_Subset
<1>9. Cardinality(A) >= 2 /\ Span(w) > 0 /\ MeanGap(w) = 0
  BY <1>2, <1>4, <1>5 DEF Endless
<1>10. A # {}
  BY <1>9, FS_EmptySet
<1>11. w # {}
  BY <1>3, <1>5, <1>6, <1>8, <1>10, RecentExist
<1>12. PICK f : f = [e \in w |-> e.date]
  OBVIOUS
<1>13. PICK D : D = {f[e] : e \in w}
  OBVIOUS
<1>14. IsFiniteSet(D) /\ D \in SUBSET Int /\ D # {}
  BY <1>3, <1>6, <1>8, <1>11, <1>12, <1>13, FiniteImage
<1>15. PICK low, high \in D : low = Min(D) /\ high = Max(D) /\ \A y \in D : low <= y /\ y <= high
  BY <1>14, Extremes
<1>16. PICK k \in Nat \ {0} : k = high - low /\ k = Span(w)
  <2>1. {e.date : e \in w} = D
    BY <1>12, <1>13
  <2>2. Span(w) = high - low
    BY <1>15, <2>1 DEF Span
  <2> QED
    BY <1>9, <1>14, <2>2
<1>17. SpreadOver(w, k)
  <2> SUFFICES ASSUME NEW e \in w, NEW h \in w PROVE h.date - e.date <= k
    BY DEF SpreadOver
  <2>1. e.date \in D /\ h.date \in D
    BY <1>12, <1>13
  <2>2. PICK x \in Int, y \in Int : x = e.date /\ y = h.date
    BY <1>14, <2>1
  <2>3. low \in Int /\ high \in Int /\ low <= x /\ y <= high
    BY <1>14, <1>15, <2>1, <2>2
  <2> QED
    BY <1>16, <2>2, <2>3
<1>18. PICK n \in Nat : n = Cardinality(w)
  BY <1>8, FS_CardinalityType
<1>19. n >= 2
  <2>1. PICK e \in w, h \in w : f[e] = low /\ f[h] = high
    BY <1>13, <1>15
  <2>2. h \in w \ {e}
    <3>1. low \in Int /\ high \in Int
      BY <1>14, <1>15
    <3>2. low # high
      BY <1>16, <3>1
    <3>3. e # h
      BY <2>1, <3>2
    <3> QED
      BY <3>3
  <2>3. IsFiniteSet(w \ {e}) /\ Cardinality(w \ {e}) = n - 1
    BY <1>8, <1>18, OneLess
  <2>4. Cardinality(w \ {e}) # 0
    BY <2>2, <2>3, FS_EmptySet
  <2>5. n # 0
    BY <1>8, <1>11, <1>18, FS_EmptySet
  <2> QED
    BY <2>3, <2>4, <2>5
<1>20. n > 2 * k
  <2>1. PICK m \in Nat \ {0} : m = n - 1
    BY <1>19
  <2>2. Rounded(k, m) = 0
    BY <1>9, <1>16, <1>18, <2>1 DEF MeanGap, Gaps
  <2>3. 2 * k <= 2 * (m * Rounded(k, m)) + m
    BY RoundedIsNear
  <2>4. m * 0 = 0
    OBVIOUS
  <2> QED
    BY <2>1, <2>2, <2>3, <2>4
<1>21. PICK e \in w : Cardinality(Within(w, e)) >= 3
  <2>1. \A x \in w : x.date \in Nat
    BY <1>3, <1>6
  <2> QED
    BY <1>8, <1>17, <1>18, <1>20, <2>1, CrowdedDays
<1>22. PICK s \in S : e.date = s.date
  BY <1>3, <1>6
<1>23. PICK V : V = {r \in S : r.category = "salary" /\ r.date \in s.date..(s.date + 2)}
  OBVIOUS
<1>24. PICK h : h = [r \in V |-> g[r]]
  OBVIOUS
<1>25. PICK T : T = {h[r] : r \in V}
  OBVIOUS
<1>26. IsFiniteSet(V) /\ IsFiniteSet(T) /\ Cardinality(T) <= Cardinality(V)
  <2>1. IsFiniteSet(V)
    BY <1>23, FS_Subset
  <2>2. h \in Surjection(V, T)
    BY <1>24, <1>25 DEF Surjection
  <2> QED
    BY <2>1, <2>2, FS_Surjection
<1>27. PICK N : N = Within(w, e)
  OBVIOUS
<1>28. N \in SUBSET T
  <2> SUFFICES ASSUME NEW x \in N PROVE x \in T
    OBVIOUS
  <2>1. x \in w /\ x.date \in e.date..(e.date + 2)
    BY <1>27 DEF Within
  <2>2. PICK r \in S : x = g[r] /\ x.date = r.date /\ x.category = r.category
    BY <1>3, <1>6, <2>1
  <2>3. r \in V
    BY <1>6, <1>22, <1>23, <2>1, <2>2
  <2> QED
    BY <1>24, <1>25, <2>2, <2>3
<1>29. Cardinality(N) <= Cardinality(T)
  BY <1>26, <1>28, FS_Subset
<1>30. Cardinality(V) >= 3
  <2>1. Cardinality(N) \in Nat /\ Cardinality(T) \in Nat /\ Cardinality(V) \in Nat
    BY <1>26, <1>28, FS_Subset, FS_CardinalityType
  <2> QED
    BY <1>21, <1>26, <1>27, <1>29, <2>1
<1> QED
  BY <1>23, <1>30

\* Behind the gate no rate of the purchase or of an account, no balance and no history is
\* missing, for any data a user may have: an evaluation fails because the purchase is worth
\* less than half a cent at home, because the engine meets an option that ended before the
\* request, or because the commit is rolled back; and it goes on without end only if three
\* salaries came within three days (data_quality.py against state_adapter.py, fx.py,
\* safe_amount.py and _project_salary).
THEOREM GateAlwaysSuffices == Spec => []GateSuffices
<1>1. RequestInv /\ RowsInv => GateSuffices
  <2> SUFFICES ASSUME RequestInv, RowsInv PROVE GateSuffices
    OBVIOUS
  <2>0. ASSUME answer = [kind |-> "error"] PROVE Failed
    <3>1. pc = "answered" /\ answer.kind = "error"
      BY <2>0, AnswerKinds DEF RequestInv, Reported
    <3> QED
      BY <3>1 DEF RequestInv
  <2>1. ASSUME Priced, worth <= 0
        PROVE  2 * ask.amount * Rate(ask.currency, world.home, today) <= Precision
    <3>2. Priced /\ worth <= 0
      BY <2>1
    <3>3. PICK a \in Nat \ {0} : a = ask.amount
      BY <3>2, PurchaseTyped DEF RequestInv, Priced, Passed, Accepted
    <3>4. PICK r \in Nat : r = Rate(ask.currency, world.home, today)
      BY RateType DEF RequestInv
    <3>5. PICK P \in Nat \ {0} : P = Precision
      BY CurrenciesAssumption
    <3>6. worth = Rounded(a * r, P)
      BY <3>2, <3>3, <3>4, <3>5 DEF Priced, Converted
    <3>7. a * r \in Nat
      OBVIOUS
    <3>8. worth \in Nat /\ 2 * (a * r) <= 2 * (P * worth) + P
      BY <3>6, <3>7, RoundedIsNear
    <3>9. worth = 0
      BY <3>2, <3>8
    <3>10. 2 * (a * r) <= P
      <4>1. P * worth = 0
        BY <3>9
      <4> QED
        BY <3>7, <3>8, <4>1
    <3>11. 2 * a * r = 2 * (a * r)
      OBVIOUS
    <3> QED
      BY <3>3, <3>4, <3>5, <3>10, <3>11
  <2>2. ASSUME pc = "stuck"
        PROVE  \E s \in rows :
                 Cardinality({r \in rows : r.category = "salary" /\ r.date \in s.date..(s.date + 2)}) >= 3
    <3>1. Endless(Resolved(rows, world.home), today)
      BY <2>2 DEF RequestInv
    <3> QED
      BY <3>1, EndlessIsCrowded DEF RowsInv
  <2> QED
    BY <2>0, <2>1, <2>2 DEF GateSuffices, Failed
<1> QED
  BY <1>1, RequestsHold, RowsHold, PTL

-----------------------------------------------------------------------------
(* Users whose bills are all that is still to come *)

\* The rows of a bill: announced, announced again, settled or void, and refunded.
Steps == 0..3
Entry(b, step, link, d, status) ==
  [id |-> b.id + step, external |-> NoId, link |-> link, date |-> d,
   amount |-> IF step = 3 THEN b.amount ELSE -b.amount, currency |-> world.home,
   direction |-> IF step = 3 THEN "credit" ELSE "debit", category |-> b.category,
   status |-> status, kind |-> IF step = 3 THEN "refund" ELSE "expense", words |-> "plain",
   verified |-> TRUE, flexibility |-> "fixed", least |-> 0]

Entries(b) == {r \in rows : EventOf(r).id \in Numbers(b)}

\* What was announced, if anything, and what was announced before it; and the link of
\* what came next.
Announcements == {"none", "scheduled", "pending"}
Ways(b) == IF b \in twice THEN {"pending"} ELSE Announcements
Earlier(b) == IF b \in twice THEN {Entry(b, 0, NoId, b.due, "scheduled")} ELSE {}
Front(b, a, c) ==
  IF a = "none" THEN {}
  ELSE IF b \in twice THEN {Entry(b, 1, b.id, c, "pending")} ELSE {Entry(b, 0, NoId, b.due, a)}
Link(b, a) == IF a = "none" THEN NoId ELSE IF b \in twice THEN b.id + 1 ELSE b.id
Lately == world.first..today

\* The story the rows of a bill tell, after what was announced before.
Told(b, N) ==
  \/ stage[b] \in Ways(b) /\ \E c \in Lately : N = Front(b, stage[b], c)
  \/ /\ stage[b] = "settled"
     /\ \E a \in Ways(b) : \E c, d \in Lately :
          N = Front(b, a, c) \union {Entry(b, 2, Link(b, a), d, "settled")}
  \/ /\ stage[b] = "void"
     /\ \E a \in Ways(b) \ {"none"} : \E c, d \in Lately : \E status \in {"cancelled", "failed"} :
          N = Front(b, a, c) \union {Entry(b, 2, Link(b, a), d, status)}
  \/ /\ stage[b] = "refunded"
     /\ \E a \in Ways(b) : \E c, d, e \in Lately :
          N = Front(b, a, c) \union {Entry(b, 2, Link(b, a), d, "settled"), Entry(b, 3, b.id + 2, e, "settled")}

Story(b) == \E N : Told(b, N) /\ Entries(b) = Earlier(b) \union N

\* Each bill's rows tell its story, and the others are those the user began with.
BillsInv ==
  /\ lived = Unlived
  /\ world.first <= today /\ today <= world.first + Lookback
  /\ stage \in [world.bills -> Announcements \union {"settled", "void", "refunded"}]
  /\ twice \subseteq world.bills
  /\ \A r \in rows : r \in world.rows \/ \E b \in world.bills : r \in Entries(b)
  /\ \A b \in world.bills : Story(b)

\* A state is that of the rows there are.
StatesCurrent ==
  /\ state # Nothing => state = EngineState(Resolved(rows, world.home), AvailableBalance, today)
  /\ batch # Nothing =>
       /\ state # Nothing
       /\ \E daily, filtered \in BOOLEAN :
            batch = BatchState(BatchResolved(EventsOf(rows) \union world.unread, world.pictures, world.home),
                               AvailableBalance, today, world.messages, daily, filtered)

\* What a bill's rows are as events.
Mark(b, step, link, d, status) == [Entry(b, step, link, d, status) EXCEPT !.amount = b.amount]

\* An entry is a row of its bill, and an event of the same number.
LEMMA EntriesAreRows ==
  ASSUME NEW b \in Bills, NEW step \in Steps, NEW link, NEW d, NEW status
  PROVE  /\ EventOf(Entry(b, step, link, d, status)) = Mark(b, step, link, d, status)
         /\ EventOf(Entry(b, step, link, d, status)).id = b.id + step
         /\ b.id + step \in Numbers(b) /\ b.id \in Nat /\ b.amount \in Nat
<1>1. b.id \in Nat /\ b.amount \in Nat
  BY BillsAssumption
<1>2. PICK r : r = Entry(b, step, link, d, status)
  OBVIOUS
<1>3. r.id = b.id + step /\ r.external = NoId /\ r.amount = IF step = 3 THEN b.amount ELSE -b.amount
  BY <1>2 DEF Entry
<1>4. DOMAIN r = {"id", "external", "link", "date", "amount", "currency", "direction", "category",
                  "status", "kind", "words", "verified", "flexibility", "least"}
  BY <1>2 DEF Entry
<1>5. (IF r.amount < 0 THEN -r.amount ELSE r.amount) = b.amount
  BY <1>1, <1>3
<1>6. EventOf(r) = [r EXCEPT !.id = r.id, !.amount = b.amount]
  BY <1>3, <1>5 DEF EventOf
<1>7. [r EXCEPT !.id = r.id, !.amount = b.amount] = [r EXCEPT !.amount = b.amount]
  BY <1>4
<1>8. b.id + step \in Numbers(b)
  BY <1>1 DEF Numbers, Steps
<1>9. EventOf(r).id = r.id
  BY <1>4, <1>6
<1> QED
  BY <1>1, <1>2, <1>3, <1>6, <1>7, <1>8, <1>9 DEF Mark

\* The bank writes entries.
LEMMA BillRowsAreEntries ==
  ASSUME NEW b \in Bills
  PROVE  /\ \A status : stage[b] = "none" =>
              BillRow(b, 0, status, "debit", "expense") = Entry(b, 0, NoId, b.due, status)
         /\ stage[b] = "scheduled" =>
              BillRow(b, 1, "pending", "debit", "expense") = Entry(b, 1, b.id, today, "pending")
         /\ \A status : BillRow(b, 2, status, "debit", "expense") =
              Entry(b, 2, Link(b, stage[b]), today, status)
         /\ stage[b] # "none" =>
              BillRow(b, 3, "settled", "credit", "refund") = Entry(b, 3, b.id + 2, today, "settled")
<1>1. b.id \in Nat
  BY BillsAssumption
<1>2. b.id + 1 - 1 = b.id /\ b.id + 2 - 1 = b.id + 1 /\ b.id + 3 - 1 = b.id + 2
  BY <1>1
<1>3. ASSUME NEW status, stage[b] = "none"
      PROVE  BillRow(b, 0, status, "debit", "expense") = Entry(b, 0, NoId, b.due, status)
  BY <1>3 DEF BillRow, Entry
<1>4. ASSUME stage[b] = "scheduled"
      PROVE  BillRow(b, 1, "pending", "debit", "expense") = Entry(b, 1, b.id, today, "pending")
  <2>1. PICK n : n = b.id + 1 - 1
    OBVIOUS
  <2>2. BillRow(b, 1, "pending", "debit", "expense") = Entry(b, 1, n, today, "pending")
    BY <1>4, <2>1 DEF BillRow, Entry
  <2> QED
    BY <1>2, <2>1, <2>2
<1>5. ASSUME NEW status
      PROVE  BillRow(b, 2, status, "debit", "expense") = Entry(b, 2, Link(b, stage[b]), today, status)
  <2>1. PICK n : n = b.id + 2 - 1
    OBVIOUS
  <2>2. PICK l : l = CASE stage[b] = "none" -> NoId
                       [] 2 = 2 /\ stage[b] # "none" /\ b \notin twice -> b.id
                       [] OTHER -> n
    OBVIOUS
  <2>3. BillRow(b, 2, status, "debit", "expense") = Entry(b, 2, l, today, status)
    BY <2>1, <2>2 DEF BillRow, Entry
  <2>4. l = Link(b, stage[b])
    BY <1>2, <2>1, <2>2 DEF Link
  <2> QED
    BY <2>3, <2>4
<1>6. ASSUME stage[b] # "none"
      PROVE  BillRow(b, 3, "settled", "credit", "refund") = Entry(b, 3, b.id + 2, today, "settled")
  <2>1. PICK n : n = b.id + 3 - 1
    OBVIOUS
  <2>2. BillRow(b, 3, "settled", "credit", "refund") = Entry(b, 3, n, today, "settled")
    BY <1>6, <2>1 DEF BillRow, Entry
  <2> QED
    BY <1>2, <2>1, <2>2
<1> QED
  BY <1>3, <1>4, <1>5, <1>6

\* A user begins with a story of nothing for each bill.
LEMMA InitBills == Init /\ Quiet(world) => BillsInv /\ StatesCurrent
<1> SUFFICES ASSUME Init, Quiet(world) PROVE BillsInv /\ StatesCurrent
  OBVIOUS
<1>1. world \in World
  BY WorldsAssumption DEF Init
<1>2. today = world.first /\ today \in Nat /\ rows = world.rows /\ lived = Unlived
  BY <1>1, DatesAreNumbers DEF Init, World
<1>3. ASSUME NEW b \in world.bills PROVE Story(b)
  <2>1. Entries(b) = {}
    BY <1>2, <1>3 DEF Entries, Quiet
  <2>2. stage[b] = "none" /\ twice = {}
    BY <1>3 DEF Init
  <2>3. today \in Lately
    BY <1>2 DEF Lately
  <2>4. Told(b, {})
    BY <2>2, <2>3 DEF Told, Ways, Announcements, Front
  <2> QED
    BY <2>1, <2>2, <2>4 DEF Story, Earlier
<1>4. stage \in [world.bills -> Announcements \union {"settled", "void", "refunded"}]
  BY DEF Init, Announcements
<1>5. world.first <= today /\ today <= world.first + Lookback
  BY <1>2 DEF Lookback
<1>6. StatesCurrent
  BY DEF Init, StatesCurrent
<1> QED
  BY <1>2, <1>3, <1>4, <1>5, <1>6 DEF BillsInv, Init

\* A new entry is its bill's only.
LEMMA EntryAdded ==
  ASSUME BillsInv, world \in Worlds, Quiet(world), NEW b \in world.bills, NEW step \in Steps,
         NEW link, NEW d, NEW status,
         rows' = rows \union {Entry(b, step, link, d, status)}
  PROVE  /\ Entries(b)' = Entries(b) \union {Entry(b, step, link, d, status)}
         /\ \A c \in world.bills \ {b} : Entries(c)' = Entries(c)
         /\ \A r \in rows' : r \in world.rows \/ \E c \in world.bills : r \in Entries(c)'
<1>1. world.bills \subseteq Bills
  BY WorldsAssumption DEF World
<1>2. PICK r : r = Entry(b, step, link, d, status)
  OBVIOUS
<1>3. EventOf(r).id \in Numbers(b)
  BY <1>1, <1>2, EntriesAreRows
<1>4. Entries(b)' = Entries(b) \union {r}
  BY <1>2, <1>3 DEF Entries
<1>5. ASSUME NEW c \in world.bills \ {b} PROVE Entries(c)' = Entries(c)
  <2>1. Numbers(b) \intersect Numbers(c) = {}
    BY DEF Quiet
  <2>2. EventOf(r).id \notin Numbers(c)
    BY <1>3, <2>1
  <2> QED
    BY <1>2, <2>2 DEF Entries
<1>6. \A x \in rows' : x \in world.rows \/ \E c \in world.bills : x \in Entries(c)'
  BY <1>2, <1>4, <1>5 DEF BillsInv, Entries
<1> QED
  BY <1>2, <1>4, <1>5, <1>6

\* The story of a bill of which nothing is written stays, as days pass.
LEMMA StoryStays ==
  ASSUME NEW b, Story(b), Entries(b)' = Entries(b), stage'[b] = stage[b], b \in twice' <=> b \in twice,
         world' = world, world.first \in Int, today \in Int, today' \in Int, today <= today'
  PROVE  Story(b)'
<1>1. Lately \subseteq Lately'
  BY DEF Lately
<1>2. \A step, link, d, status : Entry(b, step, link, d, status)' = Entry(b, step, link, d, status)
  BY DEF Entry
<1>3. /\ \A a, c : Front(b, a, c)' = Front(b, a, c)
      /\ \A a : Link(b, a)' = Link(b, a)
      /\ Ways(b)' = Ways(b) /\ Earlier(b)' = Earlier(b)
  BY <1>2 DEF Front, Link, Ways, Earlier
<1>4. PICK N : Told(b, N) /\ Entries(b) = Earlier(b) \union N
  BY DEF Story
<1>5. CASE stage[b] \in Ways(b) /\ \E c \in Lately : N = Front(b, stage[b], c)
  <2>1. Told(b, N)'
    BY <1>1, <1>3, <1>5 DEF Told
  <2> QED
    BY <1>3, <1>4, <2>1 DEF Story
<1>6. ASSUME stage[b] = "settled", NEW a \in Ways(b), NEW c \in Lately, NEW d \in Lately,
             N = Front(b, a, c) \union {Entry(b, 2, Link(b, a), d, "settled")}
      PROVE  Story(b)'
  <2>1. Told(b, N)'
    BY <1>1, <1>2, <1>3, <1>6 DEF Told
  <2> QED
    BY <1>3, <1>4, <2>1 DEF Story
<1>7. ASSUME stage[b] = "void", NEW a \in Ways(b) \ {"none"}, NEW c \in Lately, NEW d \in Lately,
             NEW status \in {"cancelled", "failed"},
             N = Front(b, a, c) \union {Entry(b, 2, Link(b, a), d, status)}
      PROVE  Story(b)'
  <2>1. Told(b, N)'
    BY <1>1, <1>2, <1>3, <1>7 DEF Told
  <2> QED
    BY <1>3, <1>4, <2>1 DEF Story
<1>8. ASSUME stage[b] = "refunded", NEW a \in Ways(b), NEW c \in Lately, NEW d \in Lately, NEW e \in Lately,
             N = Front(b, a, c) \union
               {Entry(b, 2, Link(b, a), d, "settled"), Entry(b, 3, b.id + 2, e, "settled")}
      PROVE  Story(b)'
  <2>1. Told(b, N)'
    BY <1>1, <1>2, <1>3, <1>8 DEF Told
  <2> QED
    BY <1>3, <1>4, <2>1 DEF Story
<1> QED
  BY <1>4, <1>5, <1>6, <1>7, <1>8 DEF Told

\* Each step of the bank writes the next row of a bill's story.
LEMMA BillSteps ==
  ASSUME BillsInv, RequestInv, Quiet(world), NEW b \in world.bills,
         \/ \E status \in {"scheduled", "pending"} : Announce(b, status)
         \/ Confirm(b)
         \/ Settle(b)
         \/ \E status \in {"cancelled", "failed"} : Withdraw(b, status)
         \/ Refund(b)
  PROVE  BillsInv'
<1>1. /\ world \in Worlds /\ world.bills \subseteq Bills /\ world.first \in Nat /\ today \in Nat
      /\ stage \in [world.bills -> Announcements \union {"settled", "void", "refunded"}]
      /\ world.first <= today /\ twice \subseteq world.bills
  BY WorldsAssumption, DatesAreNumbers DEF RequestInv, World, BillsInv
<1>2. world' = world /\ today' = today /\ lived' = lived
  BY DEF Announce, Confirm, Settle, Withdraw, Refund, request
<1>3. b \in Bills /\ today \in Lately /\ Lately' = Lately
  BY <1>1, <1>2 DEF Lately
<1>4. ASSUME NEW step \in Steps, NEW link, NEW d, NEW status,
             rows' = rows \union {Entry(b, step, link, d, status)},
             NEW next \in Announcements \union {"settled", "void", "refunded"},
             stage' = [stage EXCEPT ![b] = next], twice' \in {twice, twice \union {b}},
             Entries(b)' = Entries(b) \union {Entry(b, step, link, d, status)} => Story(b)'
      PROVE  BillsInv'
  <2>1. /\ Entries(b)' = Entries(b) \union {Entry(b, step, link, d, status)}
        /\ \A c \in world.bills \ {b} : Entries(c)' = Entries(c)
        /\ \A r \in rows' : r \in world.rows \/ \E c \in world.bills : r \in Entries(c)'
    BY <1>1, <1>4, EntryAdded
  <2>2. ASSUME NEW c \in world.bills \ {b} PROVE Story(c)'
    <3>1. stage'[c] = stage[c] /\ Story(c) /\ (c \in twice' <=> c \in twice)
      BY <1>1, <1>4, <2>2 DEF BillsInv
    <3>2. world.first \in Int /\ today \in Int /\ today' \in Int /\ today <= today'
      BY <1>1, <1>2
    <3> QED
      BY <1>2, <2>1, <3>1, <3>2, StoryStays
  <2>3. stage' \in [world.bills -> Announcements \union {"settled", "void", "refunded"}]
    BY <1>1, <1>4
  <2>4. twice' \subseteq world.bills
    BY <1>1, <1>4
  <2> QED
    BY <1>2, <1>4, <2>1, <2>2, <2>3, <2>4 DEF BillsInv
<1>5. \A step, link, d, status : Entry(b, step, link, d, status)' = Entry(b, step, link, d, status)
  BY <1>2 DEF Entry
<1>6. ASSUME twice' = twice
      PROVE  /\ \A a, c : Front(b, a, c)' = Front(b, a, c)
             /\ \A a : Link(b, a)' = Link(b, a)
             /\ Ways(b)' = Ways(b) /\ Earlier(b)' = Earlier(b)
  BY <1>5, <1>6 DEF Front, Link, Ways, Earlier
<1>7. Story(b) /\ \A next : [stage EXCEPT ![b] = next][b] = next
  BY <1>1 DEF BillsInv
<1>8. ASSUME stage[b] \in Announcements
      PROVE  stage[b] \in Ways(b) /\ \E c \in Lately : Entries(b) = Earlier(b) \union Front(b, stage[b], c)
  BY <1>7, <1>8 DEF Story, Told, Announcements
<1>9. ASSUME NEW status \in {"scheduled", "pending"}, Announce(b, status) PROVE BillsInv'
  <2>1. /\ stage[b] = "none" /\ stage' = [stage EXCEPT ![b] = status] /\ twice' = twice
        /\ rows' = rows \union {Entry(b, 0, NoId, b.due, status)}
    BY <1>3, <1>9, BillRowsAreEntries DEF Announce
  <2>2. Entries(b) = {} /\ b \notin twice
    BY <1>8, <2>1 DEF Ways, Earlier, Front, Announcements
  <2>3. Entries(b)' = Entries(b) \union {Entry(b, 0, NoId, b.due, status)} => Story(b)'
    <3>1. stage'[b] = status
      BY <1>7, <2>1
    <3>2. Front(b, status, today)' = {Entry(b, 0, NoId, b.due, status)} /\ status \in Ways(b)' /\ Earlier(b)' = {}
      BY <1>5, <2>1, <2>2 DEF Front, Ways, Announcements, Earlier
    <3>3. Told(b, {Entry(b, 0, NoId, b.due, status)})'
      BY <1>2, <1>3, <1>5, <3>1, <3>2 DEF Told
    <3>4. Entries(b)' = Entries(b) \union {Entry(b, 0, NoId, b.due, status)} =>
            Entries(b)' = Earlier(b)' \union {Entry(b, 0, NoId, b.due, status)}'
      BY <1>5, <2>2, <3>2
    <3> QED
      BY <1>5, <2>2, <3>3, <3>4 DEF Story
  <2>4. 0 \in Steps /\ status \in Announcements
    BY DEF Announcements, Steps
  <2> QED
    BY <1>4, <2>1, <2>3, <2>4
<1>10. ASSUME Confirm(b) PROVE BillsInv'
  <2>1. /\ stage[b] = "scheduled" /\ stage' = [stage EXCEPT ![b] = "pending"] /\ twice' = twice \union {b}
        /\ rows' = rows \union {Entry(b, 1, b.id, today, "pending")}
    BY <1>3, <1>10, BillRowsAreEntries DEF Confirm
  <2>2. Entries(b) = {Entry(b, 0, NoId, b.due, "scheduled")}
    BY <1>8, <2>1 DEF Ways, Earlier, Front, Announcements
  <2>3. Entries(b)' = Entries(b) \union {Entry(b, 1, b.id, today, "pending")} => Story(b)'
    <3>1. stage'[b] = "pending"
      BY <1>7, <2>1
    <3>2. /\ Front(b, "pending", today)' = {Entry(b, 1, b.id, today, "pending")} /\ "pending" \in Ways(b)'
          /\ Earlier(b)' = {Entry(b, 0, NoId, b.due, "scheduled")}
      BY <1>2, <1>5, <2>1 DEF Front, Ways, Earlier
    <3>3. Told(b, {Entry(b, 1, b.id, today, "pending")})'
      BY <1>2, <1>3, <1>5, <3>1, <3>2 DEF Told
    <3>4. Entries(b)' = Entries(b) \union {Entry(b, 1, b.id, today, "pending")} =>
            Entries(b)' = Earlier(b)' \union {Entry(b, 1, b.id, today, "pending")}'
      BY <1>2, <1>5, <2>2, <3>2
    <3> QED
      BY <1>5, <3>3, <3>4 DEF Story
  <2>4. 1 \in Steps /\ "pending" \in Announcements
    BY DEF Announcements, Steps
  <2> QED
    BY <1>4, <2>1, <2>3, <2>4
<1>11. ASSUME Settle(b) PROVE BillsInv'
  <2>1. PICK a \in Ways(b), c \in Lately : a = stage[b] /\ Entries(b) = Earlier(b) \union Front(b, a, c)
    BY <1>8, <1>11 DEF Settle, Announcements
  <2>2. /\ stage' = [stage EXCEPT ![b] = "settled"] /\ twice' = twice
        /\ rows' = rows \union {Entry(b, 2, Link(b, a), today, "settled")}
    BY <1>3, <1>11, <2>1, BillRowsAreEntries DEF Settle
  <2>3. ASSUME Entries(b)' = Entries(b) \union {Entry(b, 2, Link(b, a), today, "settled")} PROVE Story(b)'
    <3>1. stage'[b] = "settled"
      BY <1>7, <2>2
    <3>2. PICK N : N = Front(b, a, c) \union {Entry(b, 2, Link(b, a), today, "settled")}
      OBVIOUS
    <3>3. Told(b, N)'
      BY <1>3, <1>5, <1>6, <2>2, <3>1, <3>2 DEF Told
    <3>4. Entries(b)' = Earlier(b)' \union N
      BY <1>6, <2>1, <2>2, <2>3, <3>2
    <3> QED
      BY <3>3, <3>4 DEF Story
  <2>4. 2 \in Steps
    BY DEF Steps
  <2> QED
    BY <1>4, <2>2, <2>3, <2>4
<1>12. ASSUME NEW status \in {"cancelled", "failed"}, Withdraw(b, status) PROVE BillsInv'
  <2>1. PICK a \in Ways(b) \ {"none"}, c \in Lately :
          a = stage[b] /\ Entries(b) = Earlier(b) \union Front(b, a, c)
    BY <1>8, <1>12 DEF Withdraw, Announcements
  <2>2. /\ stage' = [stage EXCEPT ![b] = "void"] /\ twice' = twice
        /\ rows' = rows \union {Entry(b, 2, Link(b, a), today, status)}
    BY <1>3, <1>12, <2>1, BillRowsAreEntries DEF Withdraw
  <2>3. ASSUME Entries(b)' = Entries(b) \union {Entry(b, 2, Link(b, a), today, status)} PROVE Story(b)'
    <3>1. stage'[b] = "void"
      BY <1>7, <2>2
    <3>2. PICK N : N = Front(b, a, c) \union {Entry(b, 2, Link(b, a), today, status)}
      OBVIOUS
    <3>3. Told(b, N)'
      BY <1>3, <1>5, <1>6, <2>2, <3>1, <3>2 DEF Told
    <3>4. Entries(b)' = Earlier(b)' \union N
      BY <1>6, <2>1, <2>2, <2>3, <3>2
    <3> QED
      BY <3>3, <3>4 DEF Story
  <2>4. 2 \in Steps
    BY DEF Steps
  <2> QED
    BY <1>4, <2>2, <2>3, <2>4
<1>13. ASSUME Refund(b) PROVE BillsInv'
  <2>1. stage[b] = "settled"
    BY <1>13 DEF Refund
  <2>2. PICK a \in Ways(b), c \in Lately, d \in Lately :
          Entries(b) = Earlier(b) \union (Front(b, a, c) \union {Entry(b, 2, Link(b, a), d, "settled")})
    BY <1>7, <2>1 DEF Story, Told, Ways, Announcements
  <2>3. /\ stage' = [stage EXCEPT ![b] = "refunded"] /\ twice' = twice
        /\ rows' = rows \union {Entry(b, 3, b.id + 2, today, "settled")}
    BY <1>3, <1>13, <2>1, BillRowsAreEntries DEF Refund
  <2>4. ASSUME Entries(b)' = Entries(b) \union {Entry(b, 3, b.id + 2, today, "settled")} PROVE Story(b)'
    <3>1. stage'[b] = "refunded"
      BY <1>7, <2>3
    <3>2. PICK N : N = Front(b, a, c) \union
                     {Entry(b, 2, Link(b, a), d, "settled"), Entry(b, 3, b.id + 2, today, "settled")}
      OBVIOUS
    <3>3. Told(b, N)'
      BY <1>3, <1>5, <1>6, <2>3, <3>1, <3>2 DEF Told
    <3>4. Entries(b)' = Earlier(b)' \union N
      BY <1>6, <2>2, <2>3, <2>4, <3>2
    <3> QED
      BY <3>3, <3>4 DEF Story
  <2>5. 3 \in Steps
    BY DEF Steps
  <2> QED
    BY <1>4, <2>3, <2>4, <2>5
<1> QED
  BY <1>9, <1>10, <1>11, <1>12, <1>13

\* What a state was made of stays, as long as nothing happens to the user.
LEMMA StateStays ==
  ASSUME StatesCurrent, UNCHANGED user, UNCHANGED state, UNCHANGED batch
  PROVE  StatesCurrent'
<1>1. AvailableBalance' = AvailableBalance
  BY DEF AvailableBalance, Liquid, user
<1>2. EngineState(Resolved(rows, world.home), AvailableBalance, today)' =
        EngineState(Resolved(rows, world.home), AvailableBalance, today)
  BY <1>1 DEF user
<1>3. \A daily, filtered :
        BatchState(BatchResolved(EventsOf(rows) \union world.unread, world.pictures, world.home),
                   AvailableBalance, today, world.messages, daily, filtered)' =
        BatchState(BatchResolved(EventsOf(rows) \union world.unread, world.pictures, world.home),
                   AvailableBalance, today, world.messages, daily, filtered)
  BY <1>1 DEF user
<1> QED
  BY <1>2, <1>3 DEF StatesCurrent

\* A user's story goes on.
LEMMA BillsStep ==
  ASSUME BillsInv, StatesCurrent, RequestInv, Quiet(world), [Next]_vars
  PROVE  BillsInv' /\ StatesCurrent'
<1>0. /\ world \in World /\ world.first \in Nat /\ today \in Nat /\ world.final <= world.first + Lookback
      /\ world.final \in Nat
  BY WorldsAssumption, DatesAreNumbers DEF RequestInv, World, Quiet
<1>1. ASSUME UNCHANGED user PROVE BillsInv'
  <2>1. \A b : Story(b)' <=> Story(b)
    BY <1>1 DEF user, Story, Told, Entries, Earlier, Front, Ways, Link, Lately, Entry
  <2>2. \A b : Entries(b)' = Entries(b)
    BY <1>1 DEF user, Entries
  <2> QED
    BY <1>1, <2>1, <2>2 DEF BillsInv, user
<1>2. ASSUME NEW b \in world.bills,
             \/ \E status \in {"scheduled", "pending"} : Announce(b, status)
             \/ Confirm(b)
             \/ Settle(b)
             \/ \E status \in {"cancelled", "failed"} : Withdraw(b, status)
             \/ Refund(b)
      PROVE  BillsInv' /\ StatesCurrent'
  <2>1. BillsInv'
    BY <1>2, BillSteps
  <2>2. state = Nothing /\ state' = state /\ batch' = batch
    BY <1>2 DEF Announce, Confirm, Settle, Withdraw, Refund, Still, request
  <2>3. StatesCurrent'
    BY <2>2 DEF StatesCurrent
  <2> QED
    BY <2>1, <2>3
<1>3. CASE PassDay
  <2>1. Forecast = Unlived
    BY DEF Forecast, BillsInv, Quiet
  <2>2. /\ today' = today + 1 /\ today < world.final /\ UNCHANGED <<world, stage, twice>>
        /\ state' = Nothing /\ batch' = Nothing
    BY <1>3 DEF PassDay
  <2>3. \A d : On(Forecast.bills, d) = {} /\ On(Forecast.salary, d) = {} /\ After(Forecast.bills, d) = {}
               /\ After(Forecast.salary, d) = {} /\ Forecast.until = 0
    BY <2>1 DEF Unlived, On, After
  <2>4. rows' = rows
    BY <1>3, <2>3 DEF PassDay
  <2>5. lived' = Unlived
    BY <1>3, <2>3 DEF PassDay, Unlived
  <2>6. \A b : Entries(b)' = Entries(b)
    BY <2>4 DEF Entries
  <2>7. ASSUME NEW b \in world.bills PROVE Story(b)'
    <3>1. Story(b) /\ stage'[b] = stage[b] /\ world' = world /\ (b \in twice' <=> b \in twice)
      BY <2>2, <2>7 DEF BillsInv
    <3>2. world.first \in Int /\ today \in Int /\ today' \in Int /\ today <= today'
      BY <1>0, <2>2
    <3> QED
      BY <2>6, <3>1, <3>2, StoryStays
  <2>8. world.first <= today' /\ today' <= world.first + Lookback
    BY <1>0, <2>2 DEF BillsInv, Lookback
  <2>9. BillsInv'
    BY <2>2, <2>4, <2>5, <2>6, <2>7, <2>8 DEF BillsInv
  <2> QED
    BY <2>2, <2>9 DEF StatesCurrent
<1>4. CASE Build
  <2>1. UNCHANGED user /\ UNCHANGED batch
    BY <1>4 DEF Build
  <2>2. state' = state \/ state' = EngineState(Resolved(rows, world.home), AvailableBalance, today)
    BY <1>4 DEF Build
  <2>3. ASSUME state' # state PROVE StatesCurrent'
    <3>1. AvailableBalance' = AvailableBalance
      BY <2>1 DEF AvailableBalance, Liquid, user
    <3>2. state' = EngineState(Resolved(rows, world.home), AvailableBalance, today)'
      BY <2>1, <2>2, <2>3, <3>1 DEF user
    <3>3. state' # Nothing
      BY <2>2, <2>3, StatesAreStates
    <3>4. \A daily, filtered :
            BatchState(BatchResolved(EventsOf(rows) \union world.unread, world.pictures, world.home),
                       AvailableBalance, today, world.messages, daily, filtered)' =
            BatchState(BatchResolved(EventsOf(rows) \union world.unread, world.pictures, world.home),
                       AvailableBalance, today, world.messages, daily, filtered)
      BY <2>1, <3>1 DEF user
    <3> QED
      BY <2>1, <3>2, <3>3, <3>4 DEF StatesCurrent
  <2> QED
    BY <1>1, <2>1, <2>3, StateStays
<1>5. CASE RunBatch
  <2>1. UNCHANGED user /\ UNCHANGED state /\ state # Nothing
    BY <1>5 DEF RunBatch
  <2>2. AvailableBalance' = AvailableBalance
    BY <2>1 DEF AvailableBalance, Liquid, user
  <2>3. PICK daily, filtered \in BOOLEAN :
          batch' = BatchState(BatchResolved(EventsOf(rows) \union world.unread, world.pictures, world.home),
                              AvailableBalance, today, world.messages, daily, filtered)
    BY <1>5 DEF RunBatch, OlderState
  <2>4. batch' = BatchState(BatchResolved(EventsOf(rows) \union world.unread, world.pictures, world.home),
                            AvailableBalance, today, world.messages, daily, filtered)'
    BY <2>1, <2>2, <2>3 DEF user
  <2>5. EngineState(Resolved(rows, world.home), AvailableBalance, today)' =
          EngineState(Resolved(rows, world.home), AvailableBalance, today)
    BY <2>1, <2>2 DEF user
  <2>6. StatesCurrent'
    BY <2>1, <2>4, <2>5 DEF StatesCurrent
  <2> QED
    BY <1>1, <2>1, <2>6
<1>6. ASSUME \/ \E p \in world.purchases : Ask(p)
             \/ Gate \/ Convert \/ Hang \/ EngineFails \/ Report \/ Rest
             \/ \E d \in Possible(worth) : Decide(d)
             \/ \E committed \in BOOLEAN : Persist(committed)
             \/ UNCHANGED vars
      PROVE  UNCHANGED user /\ UNCHANGED state /\ UNCHANGED batch
  BY <1>6 DEF Ask, Gate, Convert, Hang, EngineFails, Report, Rest, Decide, Persist, user, request, vars
<1>7. ASSUME UNCHANGED user, UNCHANGED state, UNCHANGED batch PROVE BillsInv' /\ StatesCurrent'
  BY <1>1, <1>7, StateStays
<1> QED
  BY <1>2, <1>3, <1>4, <1>5, <1>6, <1>7 DEF Next

\* So it does in every reachable state.
LEMMA BillsHold == Spec => [](Quiet(world) => BillsInv /\ StatesCurrent)
<1>1. Init => (Quiet(world) => BillsInv /\ StatesCurrent)
  BY InitBills
<1>2. RequestInv /\ (Quiet(world) => BillsInv /\ StatesCurrent) /\ [Next]_vars =>
        (Quiet(world) => BillsInv /\ StatesCurrent)'
  <2>1. [Next]_vars => world' = world
    BY DEF Next, Announce, Confirm, Settle, Withdraw, Refund, PassDay, Ask, Gate, Convert, Build, Hang,
           Decide, EngineFails, Report, Persist, RunBatch, Rest, user, vars
  <2>2. world' = world => (Quiet(world)' <=> Quiet(world))
    BY DEF Quiet
  <2> QED
    BY <2>1, <2>2, BillsStep
<1> QED
  BY <1>1, <1>2, RequestsHold, PTL DEF Spec

-----------------------------------------------------------------------------
(* What is left of a bill when its events are resolved *)

\* What an entry is as an event, field by field.
LEMMA Marks ==
  ASSUME NEW b \in Bills, NEW step \in Steps, NEW link, NEW d, NEW status, b.category \in Categories,
         NEW o, o = EventOf(Entry(b, step, link, d, status))
  PROVE  /\ o.id = b.id + step /\ o.link = link /\ o.date = d /\ o.amount = b.amount
         /\ o.status = status /\ o.category = b.category
         /\ step = 3 => o.direction = "credit" /\ o.kind = "refund"
         /\ step # 3 => o.direction = "debit" /\ o.kind = "expense"
         /\ b.category \notin {"transfer", "internal_transfer"} => Counts(Entry(b, step, link, d, status))
<1>1. o = Mark(b, step, link, d, status)
  BY EntriesAreRows
<1>2. PICK r : r = Entry(b, step, link, d, status)
  OBVIOUS
<1>3. /\ r.id = b.id + step /\ r.link = link /\ r.date = d /\ r.status = status /\ r.category = b.category
      /\ r.verified = TRUE /\ r.words = "plain"
      /\ step = 3 => r.direction = "credit" /\ r.kind = "refund"
      /\ step # 3 => r.direction = "debit" /\ r.kind = "expense"
  BY <1>2 DEF Entry
<1>4. DOMAIN r = {"id", "external", "link", "date", "amount", "currency", "direction", "category",
                  "status", "kind", "words", "verified", "flexibility", "least"}
  BY <1>2 DEF Entry
<1>5. o = [r EXCEPT !.amount = b.amount]
  BY <1>1, <1>2 DEF Mark
<1>6. /\ o.id = r.id /\ o.link = r.link /\ o.date = r.date /\ o.amount = b.amount /\ o.status = r.status
      /\ o.category = r.category /\ o.direction = r.direction /\ o.kind = r.kind
  BY <1>4, <1>5
<1>7. r.kind # "non_cash"
  BY <1>3
<1>8. b.category \notin {"transfer", "internal_transfer"} => Counts(r)
  BY <1>3, <1>7 DEF Counts
<1> QED
  BY <1>2, <1>3, <1>6, <1>8

\* The entries of a bill are linked to each other, or to nothing.
LEMMA EntriesAreEntries ==
  ASSUME BillsInv, RequestInv, NEW b \in world.bills, NEW r \in Entries(b)
  PROVE  \E step \in Steps, link \in Numbers(b) \union {NoId}, d \in Nat :
           \E status \in {"scheduled", "pending", "settled", "cancelled", "failed"} :
             r = Entry(b, step, link, d, status)
<1>1. b \in Bills /\ world.first \in Nat /\ today \in Nat
  BY WorldsAssumption, DatesAreNumbers DEF RequestInv, World
<1>2. b.id \in Nat /\ b.due \in Nat
  BY <1>1, BillsAssumption, DatesAreNumbers
<1>3. /\ b.id \in Numbers(b) /\ b.id + 1 \in Numbers(b) /\ b.id + 2 \in Numbers(b)
      /\ Lately \subseteq Nat
  BY <1>1, <1>2 DEF Numbers, Lately
<1>4. \A a : Link(b, a) \in Numbers(b) \union {NoId}
  BY <1>3 DEF Link
<1>5. 0 \in Steps /\ 1 \in Steps /\ 2 \in Steps /\ 3 \in Steps
  BY DEF Steps
<1>6. ASSUME NEW a \in Ways(b), NEW c \in Lately, r \in Earlier(b) \union Front(b, a, c)
      PROVE  \/ \E status \in {"scheduled", "pending"} : r = Entry(b, 0, NoId, b.due, status)
             \/ r = Entry(b, 1, b.id, c, "pending")
  BY <1>6 DEF Earlier, Front, Ways, Announcements
<1>7. \/ \E a \in Ways(b), c \in Lately : r \in Earlier(b) \union Front(b, a, c)
      \/ \E a \in Ways(b), d \in Lately : \E status \in {"settled", "cancelled", "failed"} :
           r = Entry(b, 2, Link(b, a), d, status)
      \/ \E d \in Lately : r = Entry(b, 3, b.id + 2, d, "settled")
  <2>1. PICK N : Told(b, N) /\ Entries(b) = Earlier(b) \union N
    BY DEF BillsInv, Story
  <2>2. CASE stage[b] \in Ways(b) /\ \E c \in Lately : N = Front(b, stage[b], c)
    BY <2>1, <2>2
  <2>3. ASSUME stage[b] = "settled", NEW a \in Ways(b), NEW c \in Lately, NEW d \in Lately,
               N = Front(b, a, c) \union {Entry(b, 2, Link(b, a), d, "settled")}
        PROVE  \/ r \in Earlier(b) \union Front(b, a, c)
               \/ r = Entry(b, 2, Link(b, a), d, "settled")
    BY <2>1, <2>3
  <2>4. ASSUME stage[b] = "void", NEW a \in Ways(b), NEW c \in Lately, NEW d \in Lately,
               NEW status \in {"cancelled", "failed"},
               N = Front(b, a, c) \union {Entry(b, 2, Link(b, a), d, status)}
        PROVE  \/ r \in Earlier(b) \union Front(b, a, c)
               \/ r = Entry(b, 2, Link(b, a), d, status)
    BY <2>1, <2>4
  <2>5. ASSUME stage[b] = "refunded", NEW a \in Ways(b), NEW c \in Lately, NEW d \in Lately, NEW e \in Lately,
               N = Front(b, a, c) \union
                 {Entry(b, 2, Link(b, a), d, "settled"), Entry(b, 3, b.id + 2, e, "settled")}
        PROVE  \/ r \in Earlier(b) \union Front(b, a, c)
               \/ r = Entry(b, 2, Link(b, a), d, "settled")
               \/ r = Entry(b, 3, b.id + 2, e, "settled")
    BY <2>1, <2>5
  <2> QED
    BY <2>1, <2>2, <2>3, <2>4, <2>5 DEF Told
<1>8. CASE \E a \in Ways(b), c \in Lately : r \in Earlier(b) \union Front(b, a, c)
  BY <1>2, <1>3, <1>5, <1>6, <1>8
<1>9. CASE \E a \in Ways(b), d \in Lately : \E status \in {"settled", "cancelled", "failed"} :
             r = Entry(b, 2, Link(b, a), d, status)
  BY <1>3, <1>4, <1>5, <1>9
<1>10. CASE \E d \in Lately : r = Entry(b, 3, b.id + 2, d, "settled")
  BY <1>3, <1>5, <1>10
<1> QED
  BY <1>7, <1>8, <1>9, <1>10

\* No event of anything else is linked to an event of a bill, or has its number.
LEMMA OwnLinks ==
  ASSUME BillsInv, RequestInv, Quiet(world), NEW b \in world.bills, NEW e \in EventsOf(rows),
         e.link \in Numbers(b) \/ e.id \in Numbers(b)
  PROVE  \E r \in Entries(b) : e = EventOf(r)
<1>1. world.bills \subseteq Bills /\ world.rows \subseteq Row
  BY WorldsAssumption DEF RequestInv, World
<1>2. PICK r \in rows : e = EventOf(r) /\ Counts(r)
  BY DEF EventsOf
<1>3. CASE r \in world.rows
  <2>1. r \in Row
    BY <1>1, <1>3
  <2>2. e.link = r.link
    BY <1>2, <2>1 DEF EventOf, Row
  <2> QED
    BY <1>2, <1>3, <2>2 DEF Quiet
<1>4. ASSUME NEW c \in world.bills, r \in Entries(c) PROVE r \in Entries(b)
  <2>1. PICK step \in Steps, link \in Numbers(c) \union {NoId}, d \in Nat :
          \E status \in {"scheduled", "pending", "settled", "cancelled", "failed"} : r = Entry(c, step, link, d, status)
    BY <1>4, EntriesAreEntries
  <2>2. c \in Bills /\ c.category \in Categories
    BY <1>1, BillsAssumption
  <2> PICK status \in {"scheduled", "pending", "settled", "cancelled", "failed"} : r = Entry(c, step, link, d, status)
    BY <2>1
  <2>3. e.link = link /\ e.id \in Numbers(c)
    BY <1>2, <1>4, <2>1, <2>2, Marks DEF Entries
  <2>4. NoId \notin Numbers(b)
    BY IdsAssumption DEF Quiet
  <2>5. c # b => Numbers(b) \intersect Numbers(c) = {}
    BY DEF Quiet
  <2>6. c = b
    BY <2>3, <2>4, <2>5
  <2> QED
    BY <1>4, <2>6
<1> QED
  BY <1>2, <1>3, <1>4 DEF BillsInv

\* The events that count.
Standing == {o \in EventsOf(rows) \ Superseded(EventsOf(rows)) : CashType(o) # "VOID"}

\* What has become of a bill, as an event.
Outcome(b, o) ==
  /\ o.id \in Numbers(b) /\ o.category = b.category /\ o.amount = b.amount
  /\ \/ /\ stage[b] = "scheduled" /\ o.status = "scheduled" /\ o.direction = "debit"
        /\ o.id = b.id /\ o.date = b.due
     \/ stage[b] = "pending" /\ o.status = "pending" /\ o.direction = "debit"
     \/ stage[b] = "settled" /\ o.status = "settled" /\ o.direction = "debit" /\ o.date \in Lately
     \/ stage[b] = "refunded" /\ o.status = "settled" /\ o.direction = "credit" /\ o.date \in Lately

\* The first announcement of a bill announced again, which nothing replaces.
Kept(b, o) ==
  /\ b \in twice /\ o.id = b.id /\ o.category = b.category /\ o.amount = b.amount
  /\ o.status = "scheduled" /\ o.direction = "debit" /\ o.date = b.due

Stands(b, o) == Outcome(b, o) \/ Kept(b, o)

\* The events of a bill's entries.
Own(b) == {EventOf(r) : r \in Entries(b)}

\* The events with the numbers of a bill, or linked to them, are those of its entries.
LEMMA OwnEvents ==
  ASSUME BillsInv, RequestInv, Quiet(world), NEW b \in world.bills
  PROVE  /\ \A o \in EventsOf(rows) : o \in Own(b) <=> o.id \in Numbers(b)
         /\ Own(b) \subseteq EventsOf(rows)
         /\ \A o \in Own(b), e \in EventsOf(rows) : e.link = o.id => e \in Own(b)
<1>1. world.bills \subseteq Bills
  BY WorldsAssumption DEF RequestInv, World
<1>2. b \in Bills /\ b.category \in Categories /\ b.category \notin {"transfer", "internal_transfer"}
  BY <1>1, BillsAssumption DEF Quiet
<1>3. ASSUME NEW r \in Entries(b) PROVE r \in rows /\ Counts(r) /\ EventOf(r).id \in Numbers(b)
  <2>1. PICK step \in Steps, link \in Numbers(b) \union {NoId}, d \in Nat :
          \E status \in {"scheduled", "pending", "settled", "cancelled", "failed"} : r = Entry(b, step, link, d, status)
    BY EntriesAreEntries
  <2>2. PICK status \in {"scheduled", "pending", "settled", "cancelled", "failed"} : r = Entry(b, step, link, d, status)
    BY <2>1
  <2>3. Counts(r)
    BY <1>2, <2>2, Marks
  <2> QED
    BY <2>3 DEF Entries
<1>4. \A o \in Own(b) : o \in EventsOf(rows) /\ o.id \in Numbers(b)
  BY <1>3 DEF EventsOf, Own
<1>5. \A e \in EventsOf(rows) : e.link \in Numbers(b) \/ e.id \in Numbers(b) => e \in Own(b)
  BY OwnLinks DEF Own
<1> QED
  BY <1>4, <1>5

\* Of a bill what has become of it counts, and the first of two announcements.
LEMMA OutcomesStand ==
  ASSUME BillsInv, RequestInv, Quiet(world), NEW b \in world.bills
  PROVE  \E T \in SUBSET Standing :
           /\ T = {o \in Standing : o.id \in Numbers(b)}
           /\ \A o \in T : Stands(b, o)
           /\ \A o, p \in T : Outcome(b, o) /\ Outcome(b, p) => o = p
           /\ \A o, p \in T : o.id = p.id => o = p
           /\ stage[b] \in {"scheduled", "pending", "settled"} => \E o \in T : Outcome(b, o)
           /\ b \in twice => stage[b] # "scheduled" /\ \E o \in T : Kept(b, o)
<1>1. b \in Bills /\ world.bills \subseteq Bills
  BY WorldsAssumption DEF RequestInv, World
<1>2. b.id \in Nat /\ b.category \in Categories
  BY <1>1, BillsAssumption
<1>3. /\ b.id \in Numbers(b) /\ b.id + 1 \in Numbers(b) /\ b.id + 2 \in Numbers(b) /\ b.id + 3 \in Numbers(b)
      /\ NoId \notin Numbers(b) /\ 0 \in Steps /\ 1 \in Steps /\ 2 \in Steps /\ 3 \in Steps
  BY <1>2, IdsAssumption DEF Numbers, Quiet, Steps
<1>4. /\ b.id # b.id + 1 /\ b.id # b.id + 2 /\ b.id # b.id + 3 /\ b.id + 1 # b.id + 2
      /\ b.id + 1 # b.id + 3 /\ b.id + 2 # b.id + 3
      /\ NoId # b.id /\ NoId # b.id + 1 /\ NoId # b.id + 2 /\ NoId # b.id + 3
  BY <1>2, <1>3
<1>5. PICK M : M = Own(b)
  OBVIOUS
<1>6. PICK E : E = EventsOf(rows)
  OBVIOUS
<1>7. M = {o \in E : o.id \in Numbers(b)} /\ \A o \in M, e \in E : e.link = o.id => e \in M
  BY <1>5, <1>6, OwnEvents
<1>8. PICK T : T = {o \in Standing : o.id \in Numbers(b)}
  OBVIOUS
<1>9. T = {o \in M : CashType(o) # "VOID" /\ \A e \in M : ~Replaces(e, o)}
  <2>1. \A o \in M : o \in Superseded(E) <=> \E e \in M : Replaces(e, o)
    BY <1>7 DEF Superseded, Replaces
  <2> QED
    BY <1>6, <1>7, <1>8, <2>1 DEF Standing
<1>10. PICK N : Told(b, N) /\ Entries(b) = Earlier(b) \union N
  BY DEF BillsInv, Story
<1>11. PICK X : X = {EventOf(r) : r \in N}
  OBVIOUS
<1>12. PICK Y : Y = {EventOf(r) : r \in Earlier(b)}
  OBVIOUS
<1>13. M = Y \union X
  BY <1>5, <1>10, <1>11, <1>12 DEF Own
<1>14. ASSUME NEW step \in Steps, NEW link, NEW d, NEW status, NEW o,
              o = EventOf(Entry(b, step, link, d, status))
       PROVE  /\ o.id = b.id + step /\ o.link = link /\ o.date = d /\ o.amount = b.amount
              /\ o.status = status /\ o.category = b.category
              /\ step = 3 => o.direction = "credit" /\ o.kind = "refund"
              /\ step # 3 => o.direction = "debit" /\ o.kind = "expense"
              /\ step # 3 /\ status \in {"scheduled", "pending", "settled"} => CashType(o) # "VOID"
              /\ step # 3 /\ status \in {"cancelled", "failed"} => CashType(o) = "VOID"
  <2>1. /\ o.id = b.id + step /\ o.link = link /\ o.date = d /\ o.amount = b.amount
        /\ o.status = status /\ o.category = b.category
        /\ step = 3 => o.direction = "credit" /\ o.kind = "refund"
        /\ step # 3 => o.direction = "debit" /\ o.kind = "expense"
    BY <1>1, <1>2, <1>14, Marks
  <2>2. step # 3 /\ status \in {"scheduled", "pending", "settled"} => CashType(o) # "VOID"
    BY <2>1 DEF CashType
  <2>3. step # 3 /\ status \in {"cancelled", "failed"} => CashType(o) = "VOID"
    BY <2>1 DEF CashType
  <2> QED
    BY <2>1, <2>2, <2>3
<1>15. ASSUME NEW a \in Ways(b), a # "none", NEW c
       PROVE  \E o : /\ {EventOf(r) : r \in Front(b, a, c)} = {o}
                     /\ o.amount = b.amount /\ o.category = b.category /\ o.direction = "debit"
                     /\ o.kind = "expense" /\ o.status = a /\ a \in {"scheduled", "pending"}
                     /\ o.id = Link(b, a) /\ CashType(o) # "VOID"
                     /\ b \notin twice => o.id = b.id /\ o.link = NoId /\ o.date = b.due
                     /\ b \in twice => o.id = b.id + 1 /\ o.link = b.id /\ a = "pending"
  <2>1. a \in {"scheduled", "pending"}
    BY <1>15 DEF Ways, Announcements
  <2>2. CASE b \in twice
    <3>1. a = "pending" /\ Front(b, a, c) = {Entry(b, 1, b.id, c, "pending")} /\ Link(b, a) = b.id + 1
      BY <1>15, <2>2 DEF Ways, Front, Link
    <3>2. PICK o : o = EventOf(Entry(b, 1, b.id, c, "pending"))
      OBVIOUS
    <3>3. {EventOf(r) : r \in Front(b, a, c)} = {o}
      BY <3>1, <3>2
    <3> QED
      BY <1>3, <1>14, <2>2, <3>1, <3>2, <3>3
  <2>3. CASE b \notin twice
    <3>1. Front(b, a, c) = {Entry(b, 0, NoId, b.due, a)} /\ Link(b, a) = b.id
      BY <1>15, <2>3 DEF Front, Link
    <3>2. PICK o : o = EventOf(Entry(b, 0, NoId, b.due, a))
      OBVIOUS
    <3>3. {EventOf(r) : r \in Front(b, a, c)} = {o}
      BY <3>1, <3>2
    <3>4. o.id = b.id
      BY <1>2, <1>3, <1>14, <3>2
    <3> QED
      BY <1>3, <1>14, <2>1, <2>3, <3>1, <3>2, <3>3, <3>4
  <2> QED
    BY <2>2, <2>3
<1>16. PICK Z : Z = {o \in X : CashType(o) # "VOID" /\ \A e \in X : ~Replaces(e, o)}
  OBVIOUS
<1>17. ASSUME \A e \in X : /\ e.id \in {b.id + 1, b.id + 2, b.id + 3} \/ b \notin twice
                           /\ e.link = b.id /\ b \in twice => e.status = "pending" /\ e.kind = "expense"
                                                               /\ e.direction = "debit",
              \A e, o \in X : e.id = o.id => e = o,
              b \in twice => stage[b] # "scheduled",
              \A o \in Z : Outcome(b, o), \A o, p \in Z : o = p,
              stage[b] \in {"scheduled", "pending", "settled"} => Z # {}
       PROVE  /\ \A o \in T : Stands(b, o)
              /\ \A o, p \in T : Outcome(b, o) /\ Outcome(b, p) => o = p
              /\ \A o, p \in T : o.id = p.id => o = p
              /\ stage[b] \in {"scheduled", "pending", "settled"} => \E o \in T : Outcome(b, o)
              /\ b \in twice => stage[b] # "scheduled" /\ \E o \in T : Kept(b, o)
  <2>1. CASE b \notin twice
    <3>1. Y = {}
      BY <1>12, <2>1 DEF Earlier
    <3>2. T = Z
      BY <1>9, <1>13, <1>16, <3>1
    <3> QED
      BY <1>17, <2>1, <3>2 DEF Stands
  <2>2. CASE b \in twice
    <3>1. PICK k : k = EventOf(Entry(b, 0, NoId, b.due, "scheduled"))
      OBVIOUS
    <3>2. /\ k.id = b.id + 0 /\ k.link = NoId /\ k.date = b.due /\ k.amount = b.amount
          /\ k.status = "scheduled" /\ k.category = b.category
          /\ k.direction = "debit" /\ k.kind = "expense" /\ CashType(k) # "VOID"
      BY <1>3, <1>14, <3>1
    <3>3. k.id = b.id
      BY <1>2, <3>2
    <3>4. Y = {k}
      BY <1>12, <2>2, <3>1 DEF Earlier
    <3>5. \A e \in X : ~Replaces(e, k)
      BY <1>17, <2>2, <3>3 DEF Replaces
    <3>6. \A o \in X \union {k} : ~Replaces(k, o)
      <4>1. \A o \in X \union {k} : o.id # NoId
        BY <1>4, <1>17, <2>2, <3>3
      <4> QED
        BY <3>2, <4>1 DEF Replaces
    <3>7. T = Z \union {k}
      BY <1>9, <1>13, <1>16, <3>2, <3>4, <3>5, <3>6
    <3>8. Kept(b, k)
      BY <2>2, <3>2, <3>3 DEF Kept
    <3>9. ~Outcome(b, k)
      BY <1>17, <2>2, <3>2 DEF Outcome
    <3>10. Z \subseteq X /\ \A o \in X : o.id # k.id
      BY <1>4, <1>16, <1>17, <2>2, <3>3
    <3> QED
      BY <1>17, <3>7, <3>8, <3>9, <3>10 DEF Stands
  <2> QED
    BY <2>1, <2>2
<1>18. ASSUME stage[b] \in Ways(b), NEW c \in Lately, N = Front(b, stage[b], c)
       PROVE  /\ \A o \in T : Stands(b, o)
              /\ \A o, p \in T : Outcome(b, o) /\ Outcome(b, p) => o = p
              /\ \A o, p \in T : o.id = p.id => o = p
              /\ stage[b] \in {"scheduled", "pending", "settled"} => \E o \in T : Outcome(b, o)
              /\ b \in twice => stage[b] # "scheduled" /\ \E o \in T : Kept(b, o)
  <2>0. (b \in twice => stage[b] = "pending") /\ stage[b] \in Announcements
    BY <1>18 DEF Ways, Announcements
  <2>1. CASE stage[b] = "none"
    <3>1. X = {}
      BY <1>11, <1>18, <2>1 DEF Front
    <3> QED
      BY <1>16, <1>17, <2>0, <2>1, <3>1
  <2>2. CASE stage[b] # "none"
    <3>1. PICK o : /\ X = {o} /\ o.amount = b.amount /\ o.category = b.category /\ o.direction = "debit"
                   /\ o.kind = "expense" /\ o.status = stage[b] /\ stage[b] \in {"scheduled", "pending"}
                   /\ CashType(o) # "VOID"
                   /\ b \notin twice => o.id = b.id /\ o.link = NoId /\ o.date = b.due
                   /\ b \in twice => o.id = b.id + 1 /\ o.link = b.id /\ stage[b] = "pending"
      BY <1>11, <1>15, <1>18, <2>2
    <3>2. ~Replaces(o, o)
      BY <1>4, <3>1 DEF Replaces
    <3>3. Z = {o}
      BY <1>16, <3>1, <3>2
    <3>4. Outcome(b, o)
      BY <1>3, <3>1 DEF Outcome
    <3>5. b \in twice => o.status = "pending"
      BY <3>1
    <3> QED
      BY <1>17, <2>0, <3>1, <3>3, <3>4, <3>5
  <2> QED
    BY <2>1, <2>2
<1>19. ASSUME stage[b] = "settled", NEW a \in Ways(b), NEW c \in Lately, NEW d \in Lately,
              N = Front(b, a, c) \union {Entry(b, 2, Link(b, a), d, "settled")}
       PROVE  /\ \A o \in T : Stands(b, o)
              /\ \A o, p \in T : Outcome(b, o) /\ Outcome(b, p) => o = p
              /\ \A o, p \in T : o.id = p.id => o = p
              /\ stage[b] \in {"scheduled", "pending", "settled"} => \E o \in T : Outcome(b, o)
              /\ b \in twice => stage[b] # "scheduled" /\ \E o \in T : Kept(b, o)
  <2>1. PICK p : p = EventOf(Entry(b, 2, Link(b, a), d, "settled"))
    OBVIOUS
  <2>2. /\ p.id = b.id + 2 /\ p.link = Link(b, a) /\ p.date = d /\ p.amount = b.amount
        /\ p.status = "settled" /\ p.category = b.category /\ p.direction = "debit" /\ p.kind = "expense"
        /\ CashType(p) # "VOID"
    BY <1>3, <1>14, <2>1
  <2>3. Outcome(b, p)
    BY <1>3, <1>19, <2>2 DEF Outcome
  <2>4. CASE a = "none"
    <3>1. X = {p}
      BY <1>11, <1>19, <2>1, <2>4 DEF Front
    <3>2. p.link = NoId /\ b \notin twice
      BY <1>19, <2>2, <2>4 DEF Link, Ways
    <3>3. ~Replaces(p, p)
      BY <1>4, <2>2, <3>2 DEF Replaces
    <3>4. Z = {p}
      BY <1>16, <2>2, <3>1, <3>3
    <3> QED
      BY <1>17, <2>3, <3>1, <3>2, <3>4
  <2>5. CASE a # "none"
    <3>1. PICK o : /\ {EventOf(r) : r \in Front(b, a, c)} = {o}
                   /\ o.direction = "debit" /\ o.kind = "expense" /\ o.status = a
                   /\ a \in {"scheduled", "pending"} /\ o.id = Link(b, a)
                   /\ b \notin twice => o.id = b.id /\ o.link = NoId
                   /\ b \in twice => o.id = b.id + 1 /\ o.link = b.id /\ a = "pending"
      BY <1>15, <2>5
    <3>2. X = {o, p}
      BY <1>11, <1>19, <2>1, <3>1
    <3>3. Replaces(p, o)
      BY <2>2, <3>1 DEF Replaces
    <3>4. ~Replaces(o, p) /\ ~Replaces(p, p)
      BY <1>4, <2>2, <3>1 DEF Replaces
    <3>5. Z = {p}
      BY <1>16, <2>2, <3>2, <3>3, <3>4
    <3>6. /\ o.id \in {b.id, b.id + 1} /\ (b \in twice => o.id = b.id + 1)
          /\ (b \in twice => p.link # b.id) /\ (b \in twice => o.status = "pending")
      BY <1>4, <2>2, <3>1
    <3>7. o.id # p.id
      BY <1>4, <2>2, <3>6
    <3> QED
      BY <1>17, <1>19, <2>2, <2>3, <3>1, <3>2, <3>5, <3>6, <3>7
  <2> QED
    BY <2>4, <2>5
<1>20. ASSUME stage[b] = "void", NEW a \in Ways(b) \ {"none"}, NEW c \in Lately, NEW d \in Lately,
              NEW status \in {"cancelled", "failed"},
              N = Front(b, a, c) \union {Entry(b, 2, Link(b, a), d, status)}
       PROVE  /\ \A o \in T : Stands(b, o)
              /\ \A o, p \in T : Outcome(b, o) /\ Outcome(b, p) => o = p
              /\ \A o, p \in T : o.id = p.id => o = p
              /\ stage[b] \in {"scheduled", "pending", "settled"} => \E o \in T : Outcome(b, o)
              /\ b \in twice => stage[b] # "scheduled" /\ \E o \in T : Kept(b, o)
  <2>1. PICK p : p = EventOf(Entry(b, 2, Link(b, a), d, status))
    OBVIOUS
  <2>2. p.id = b.id + 2 /\ p.link = Link(b, a) /\ p.status = status /\ CashType(p) = "VOID"
    BY <1>3, <1>14, <2>1
  <2>3. PICK o : /\ {EventOf(r) : r \in Front(b, a, c)} = {o}
                 /\ o.direction = "debit" /\ o.kind = "expense" /\ o.status = a
                 /\ a \in {"scheduled", "pending"} /\ o.id = Link(b, a)
                 /\ b \notin twice => o.id = b.id /\ o.link = NoId
                 /\ b \in twice => o.id = b.id + 1 /\ o.link = b.id /\ a = "pending"
    BY <1>15
  <2>4. X = {o, p}
    BY <1>11, <1>20, <2>1, <2>3
  <2>5. Replaces(p, o)
    BY <2>2, <2>3 DEF Replaces
  <2>6. Z = {}
    BY <1>16, <2>2, <2>4, <2>5
  <2>7. /\ o.id \in {b.id, b.id + 1} /\ (b \in twice => o.id = b.id + 1)
        /\ (b \in twice => p.link # b.id) /\ (b \in twice => o.status = "pending")
    BY <1>4, <2>2, <2>3
  <2>8. o.id # p.id
    BY <1>4, <2>2, <2>7
  <2> QED
    BY <1>17, <1>20, <2>2, <2>3, <2>4, <2>6, <2>7, <2>8
<1>21. ASSUME stage[b] = "refunded", NEW a \in Ways(b), NEW c \in Lately, NEW d \in Lately, NEW e \in Lately,
              N = Front(b, a, c) \union
                {Entry(b, 2, Link(b, a), d, "settled"), Entry(b, 3, b.id + 2, e, "settled")}
       PROVE  /\ \A o \in T : Stands(b, o)
              /\ \A o, p \in T : Outcome(b, o) /\ Outcome(b, p) => o = p
              /\ \A o, p \in T : o.id = p.id => o = p
              /\ stage[b] \in {"scheduled", "pending", "settled"} => \E o \in T : Outcome(b, o)
              /\ b \in twice => stage[b] # "scheduled" /\ \E o \in T : Kept(b, o)
  <2>1. PICK p, q : /\ p = EventOf(Entry(b, 2, Link(b, a), d, "settled"))
                    /\ q = EventOf(Entry(b, 3, b.id + 2, e, "settled"))
    OBVIOUS
  <2>2. p.id = b.id + 2 /\ p.link = Link(b, a) /\ p.status = "settled"
    BY <1>3, <1>14, <2>1
  <2>3. /\ q.id = b.id + 3 /\ q.link = b.id + 2 /\ q.date = e /\ q.amount = b.amount /\ q.status = "settled"
        /\ q.category = b.category /\ q.direction = "credit" /\ q.kind = "refund"
    BY <1>3, <1>14, <2>1
  <2>4. Outcome(b, q)
    BY <1>3, <1>21, <2>3 DEF Outcome
  <2>5. Replaces(q, p)
    BY <2>2, <2>3 DEF Replaces
  <2>6. CASE a = "none"
    <3>1. X = {p, q}
      BY <1>11, <1>21, <2>1, <2>6 DEF Front
    <3>2. Z \subseteq {q}
      BY <1>16, <2>5, <3>1
    <3>3. b \notin twice /\ p.id # q.id
      BY <1>4, <1>21, <2>2, <2>3, <2>6 DEF Ways
    <3> QED
      BY <1>17, <1>21, <2>4, <3>1, <3>2, <3>3
  <2>7. CASE a # "none"
    <3>1. PICK o : /\ {EventOf(r) : r \in Front(b, a, c)} = {o}
                   /\ o.direction = "debit" /\ o.kind = "expense" /\ o.status = a
                   /\ a \in {"scheduled", "pending"} /\ o.id = Link(b, a)
                   /\ b \notin twice => o.id = b.id /\ o.link = NoId
                   /\ b \in twice => o.id = b.id + 1 /\ o.link = b.id /\ a = "pending"
      BY <1>15, <2>7
    <3>2. X = {o, p, q}
      BY <1>11, <1>21, <2>1, <3>1
    <3>3. Replaces(p, o)
      BY <2>2, <3>1 DEF Replaces
    <3>4. Z \subseteq {q}
      BY <1>16, <2>5, <3>2, <3>3
    <3>5. /\ o.id \in {b.id, b.id + 1} /\ (b \in twice => o.id = b.id + 1)
          /\ (b \in twice => p.link # b.id) /\ (b \in twice => o.status = "pending") /\ q.link # b.id
      BY <1>4, <2>2, <2>3, <3>1
    <3>6. o.id # p.id /\ o.id # q.id /\ p.id # q.id
      BY <1>4, <2>2, <2>3, <3>5
    <3> QED
      BY <1>17, <1>21, <2>2, <2>3, <2>4, <3>1, <3>2, <3>4, <3>5, <3>6
  <2> QED
    BY <2>6, <2>7
<1>22. /\ \A o \in T : Stands(b, o)
       /\ \A o, p \in T : Outcome(b, o) /\ Outcome(b, p) => o = p
       /\ \A o, p \in T : o.id = p.id => o = p
       /\ stage[b] \in {"scheduled", "pending", "settled"} => \E o \in T : Outcome(b, o)
       /\ b \in twice => stage[b] # "scheduled" /\ \E o \in T : Kept(b, o)
  BY <1>10, <1>18, <1>19, <1>20, <1>21 DEF Told
<1> QED
  BY <1>8, <1>22

\* Resolved events are those that count: what has become of each bill, the first
\* announcement of those announced again, and others, settled and in other categories.
Cleared(R) ==
  /\ IsFiniteSet(R)
  /\ \A e, f \in R : e.id \in Nat /\ e.date \in Nat /\ (e.id = f.id => e = f)
  /\ \A e \in R : \/ \E b \in world.bills : Stands(b, e)
                  \/ e.status = "settled" /\ \A b \in world.bills : e.category # b.category
  /\ \A b \in world.bills :
       /\ stage[b] \in {"scheduled", "pending", "settled"} => \E e \in R : Outcome(b, e)
       /\ \A e, f \in R : Outcome(b, e) /\ Outcome(b, f) => e = f
       /\ b \in twice => stage[b] # "scheduled" /\ \E e \in R : Kept(b, e)

\* Events with the amounts that g says.
Valued(S, g) == {[e EXCEPT !.amount = g[e]] : e \in S}

\* What an event has.
Complete(e) ==
  /\ {"id", "date", "amount", "category", "status", "direction"} \subseteq DOMAIN e
  /\ e.id \in Nat /\ e.date \in Nat

\* An event that counts is what has become of a bill, the first announcement of one, or
\* an older row.
LEMMA StandingIs ==
  ASSUME BillsInv, RequestInv, Quiet(world), NEW o \in Standing
  PROVE  /\ Complete(o)
         /\ \/ \E b \in world.bills : Stands(b, o)
            \/ /\ \E r \in world.rows : o = EventOf(r)
               /\ o.status = "settled" /\ \A b \in world.bills : o.category # b.category /\ o.id \notin Numbers(b)
<1>1. world.bills \subseteq Bills /\ world.rows \subseteq Row
  BY WorldsAssumption DEF RequestInv, World
<1>2. PICK r \in rows : o = EventOf(r) /\ Counts(r)
  BY DEF Standing, EventsOf
<1>3. CASE r \in world.rows
  <2>1. r \in Row
    BY <1>1, <1>3
  <2>2. /\ DOMAIN o = DOMAIN r /\ o.status = r.status /\ o.category = r.category /\ o.date = r.date
        /\ o.id \in Ids
    BY <1>2, <2>1 DEF EventOf, Row
  <2>3. {"id", "date", "amount", "category", "status", "direction"} \subseteq DOMAIN r /\ r.date \in Nat
    BY <2>1 DEF Row
  <2>4. Complete(o)
    BY <2>2, <2>3, IdsAssumption DEF Complete
  <2>5. o.status = "settled" /\ \A b \in world.bills : o.category # b.category /\ o.id \notin Numbers(b)
    BY <1>2, <1>3, <2>2 DEF Quiet
  <2> QED
    BY <1>2, <1>3, <2>4, <2>5
<1>4. ASSUME NEW b \in world.bills, r \in Entries(b) PROVE Complete(o) /\ Stands(b, o)
  <2>1. PICK step \in Steps, link \in Numbers(b) \union {NoId}, d \in Nat :
          \E status \in {"scheduled", "pending", "settled", "cancelled", "failed"} : r = Entry(b, step, link, d, status)
    BY <1>4, EntriesAreEntries
  <2>2. PICK status \in {"scheduled", "pending", "settled", "cancelled", "failed"} : r = Entry(b, step, link, d, status)
    BY <2>1
  <2>3. b \in Bills /\ b.category \in Categories /\ b.id \in Nat
    BY <1>1, BillsAssumption
  <2>4. o.id = b.id + step /\ o.date = d
    BY <1>2, <2>2, <2>3, Marks
  <2>5. o = Mark(b, step, link, d, status)
    BY <1>2, <2>2, <2>3, EntriesAreRows
  <2>6. {"id", "date", "amount", "category", "status", "direction"} \subseteq DOMAIN o
    BY <2>5 DEF Mark, Entry
  <2>7. Complete(o)
    BY <2>3, <2>4, <2>6 DEF Complete, Steps
  <2>8. o.id \in Numbers(b)
    BY <1>2, <1>4 DEF Entries
  <2>9. PICK T \in SUBSET Standing : T = {x \in Standing : x.id \in Numbers(b)} /\ \A x \in T : Stands(b, x)
    BY OutcomesStand
  <2> QED
    BY <2>7, <2>8, <2>9
<1> QED
  BY <1>2, <1>3, <1>4 DEF BillsInv

\* So they are resolved to, if a bill's amount is what it is worth.
LEMMA ValuesAreCleared ==
  ASSUME BillsInv, RequestInv, RowsInv, Quiet(world), NEW g,
         \A b \in world.bills : \A e \in Standing : Stands(b, e) => g[e] = e.amount
  PROVE  Cleared(Valued(Standing, g))
<1>1. PICK S : S = Standing
  OBVIOUS
<1>2. PICK h : h = [e \in S |-> [e EXCEPT !.amount = g[e]]]
  OBVIOUS
<1>3. PICK R : R = Valued(S, g)
  OBVIOUS
<1>4. R = {h[e] : e \in S}
  BY <1>2, <1>3 DEF Valued
<1>5. IsFiniteSet(S)
  <2>1. PICK f : f = [r \in rows |-> EventOf(r)]
    OBVIOUS
  <2>2. IsFiniteSet({f[r] : r \in rows})
    BY FiniteImage DEF RowsInv
  <2>3. S \in SUBSET {f[r] : r \in rows}
    BY <1>1, <2>1 DEF Standing, EventsOf
  <2> QED
    BY <2>2, <2>3, FS_Subset
<1>6. IsFiniteSet(R)
  BY <1>4, <1>5, FiniteImage
<1>7. ASSUME NEW e \in S
      PROVE  /\ h[e].id = e.id /\ h[e].date = e.date /\ h[e].category = e.category /\ h[e].status = e.status
             /\ h[e].direction = e.direction /\ h[e].amount = g[e]
             /\ e.id \in Nat /\ e.date \in Nat
  BY <1>1, <1>2, StandingIs DEF Complete
<1>0. world.bills \subseteq Bills /\ \A b \in Bills : b.id \in Numbers(b)
  BY WorldsAssumption, BillsAssumption DEF RequestInv, World, Numbers
<1>8. ASSUME NEW e \in S, NEW b \in world.bills
      PROVE  (Outcome(b, h[e]) <=> Outcome(b, e)) /\ (Kept(b, h[e]) <=> Kept(b, e))
  <2>1. CASE h[e].amount = e.amount
    BY <1>7, <2>1 DEF Outcome, Kept
  <2>2. CASE h[e].amount # e.amount
    <3>1. ~Stands(b, e)
      BY <1>1, <1>7, <2>2
    <3>2. ASSUME Outcome(b, h[e]) \/ Kept(b, h[e]) PROVE FALSE
      <4>1. e.id \in Numbers(b)
        BY <1>0, <1>7, <3>2 DEF Outcome, Kept
      <4>2. PICK T \in SUBSET Standing : T = {o \in Standing : o.id \in Numbers(b)} /\ \A o \in T : Stands(b, o)
        BY OutcomesStand
      <4> QED
        BY <1>1, <3>1, <4>1, <4>2
    <3> QED
      BY <3>1, <3>2 DEF Stands
  <2> QED
    BY <2>1, <2>2
<1>9. ASSUME NEW e \in S, NEW f \in S, e.id = f.id PROVE e = f
  <2>1. ASSUME NEW b \in world.bills, e.id \in Numbers(b) PROVE e = f
    <3>1. PICK T \in SUBSET Standing :
            T = {o \in Standing : o.id \in Numbers(b)} /\ \A o, p \in T : o.id = p.id => o = p
      BY OutcomesStand
    <3> QED
      BY <1>1, <1>9, <2>1, <3>1
  <2>2. CASE \A b \in world.bills : e.id \notin Numbers(b)
    <3>1. ASSUME NEW o \in S, o.id = e.id PROVE \E r \in world.rows : o = EventOf(r)
      BY <1>0, <1>1, <2>2, <3>1, StandingIs DEF Outcome, Kept, Stands
    <3>2. PICK r \in world.rows : e = EventOf(r)
      BY <3>1
    <3>3. PICK s \in world.rows : f = EventOf(s)
      BY <1>9, <3>1
    <3> QED
      BY <1>9, <3>2, <3>3 DEF Quiet
  <2> QED
    BY <2>1, <2>2
<1>10. \A x \in R : \E e \in S : x = h[e]
  BY <1>4
<1>11. \A x, y \in R : x.id \in Nat /\ x.date \in Nat /\ (x.id = y.id => x = y)
  BY <1>7, <1>9, <1>10
<1>12. \A x \in R : \/ \E b \in world.bills : Stands(b, x)
                    \/ x.status = "settled" /\ \A b \in world.bills : x.category # b.category
  BY <1>1, <1>7, <1>8, <1>10, StandingIs DEF Stands
<1>13. ASSUME NEW b \in world.bills
       PROVE  /\ stage[b] \in {"scheduled", "pending", "settled"} => \E x \in R : Outcome(b, x)
              /\ \A x, y \in R : Outcome(b, x) /\ Outcome(b, y) => x = y
              /\ b \in twice => stage[b] # "scheduled" /\ \E x \in R : Kept(b, x)
  <2>1. stage[b] \in {"scheduled", "pending", "settled"} => \E e \in S : Outcome(b, e)
    BY <1>1, OutcomesStand
  <2>2. \A e, f \in S : Outcome(b, e) /\ Outcome(b, f) => e = f
    <3>1. PICK T \in SUBSET Standing :
            T = {o \in Standing : o.id \in Numbers(b)} /\ \A o, p \in T : Outcome(b, o) /\ Outcome(b, p) => o = p
      BY OutcomesStand
    <3> QED
      BY <1>1, <3>1 DEF Outcome
  <2>3. b \in twice => stage[b] # "scheduled" /\ \E e \in S : Kept(b, e)
    BY <1>1, OutcomesStand
  <2> QED
    BY <1>4, <1>8, <1>10, <2>1, <2>2, <2>3
<1>14. Cleared(R)
  BY <1>6, <1>11, <1>12, <1>13 DEF Cleared
<1> QED
  BY <1>1, <1>3, <1>14

\* A bill's events are in the currency of home, where they are worth what they say.
LEMMA WorthOfBills ==
  ASSUME BillsInv, RequestInv, Quiet(world), NEW b \in world.bills, NEW o \in Standing, Stands(b, o)
  PROVE  /\ InHome(o, world.home) = o.amount
         /\ BatchWorth(SeenAmount(o, world.pictures), world.home) = o.amount
<1>1. b \in Bills
  BY WorldsAssumption DEF RequestInv, World
<1>2. o.amount \in Nat
  BY <1>1, BillsAssumption DEF Stands, Outcome, Kept
<1>0. o.id \in Numbers(b)
  BY <1>1, BillsAssumption DEF Stands, Outcome, Kept, Numbers
<1>3. PICK r \in Entries(b) : o = EventOf(r)
  BY <1>0, OwnLinks DEF Standing
<1>4. PICK step \in Steps, link \in Numbers(b) \union {NoId}, d \in Nat :
        \E status \in {"scheduled", "pending", "settled", "cancelled", "failed"} : r = Entry(b, step, link, d, status)
  BY EntriesAreEntries
<1>5. PICK status \in {"scheduled", "pending", "settled", "cancelled", "failed"} : r = Entry(b, step, link, d, status)
  BY <1>4
<1>6. o = Mark(b, step, link, d, status)
  BY <1>1, <1>3, <1>5, EntriesAreRows
<1>7. o.currency = world.home
  BY <1>6 DEF Mark, Entry
<1>8. InHome(o, world.home) = o.amount
  BY <1>7 DEF InHome, Converted
<1>9. SeenAmount(o, world.pictures) = o
  BY <1>2 DEF SeenAmount, Unknown
<1>10. BatchWorth(o, world.home) = o.amount
  BY <1>7 DEF BatchWorth, HasQuote, DayConverted
<1> QED
  BY <1>8, <1>9, <1>10

\* The engine and the batch program resolve the rows so.
LEMMA ResolvedIsCleared ==
  ASSUME BillsInv, RequestInv, RowsInv, Quiet(world)
  PROVE  /\ Cleared(Resolved(rows, world.home))
         /\ Cleared(BatchResolved(EventsOf(rows) \union world.unread, world.pictures, world.home))
<1>1. Cleared(Resolved(rows, world.home))
  <2>1. PICK g : g = [e \in Standing |-> InHome(e, world.home)]
    OBVIOUS
  <2>2. Resolved(rows, world.home) = Valued(Standing, g)
    BY <2>1 DEF Resolved, Resolve, Valued, Standing
  <2>3. \A b \in world.bills : \A e \in Standing : Stands(b, e) => g[e] = e.amount
    BY <2>1, WorthOfBills
  <2> QED
    BY <2>2, <2>3, ValuesAreCleared
<1>2. Cleared(BatchResolved(EventsOf(rows) \union world.unread, world.pictures, world.home))
  <2>1. PICK g : g = [e \in Standing |-> BatchWorth(SeenAmount(e, world.pictures), world.home)]
    OBVIOUS
  <2>2. EventsOf(rows) \union world.unread = EventsOf(rows)
    BY DEF Quiet
  <2>3. BatchResolved(EventsOf(rows), world.pictures, world.home) = Valued(Standing, g)
    BY <2>1 DEF BatchResolved, Resolve, Valued, Standing
  <2>4. \A b \in world.bills : \A e \in Standing : Stands(b, e) => g[e] = e.amount
    BY <2>1, WorthOfBills
  <2> QED
    BY <2>2, <2>3, <2>4, ValuesAreCleared
<1> QED
  BY <1>1, <1>2

-----------------------------------------------------------------------------
(* Each bill counts once *)

\* What has become of some bills adds up to the bills.
LEMMA TotalsOfBills ==
  ASSUME RequestInv, Quiet(world), NEW R, Cleared(R), NEW B \in SUBSET world.bills, NEW X \in SUBSET R,
         \A e \in X : \E b \in B : Outcome(b, e), \A b \in B : \E e \in X : Outcome(b, e)
  PROVE  Total(X) = Total(B)
<1>1. IsFiniteSet(world.bills) /\ world.bills \subseteq Bills
  BY WorldsAssumption DEF RequestInv, World
<1>2. IsFiniteSet(B)
  BY <1>1, FS_Subset
<1>3. PICK h : h = [b \in B |-> CHOOSE e \in X : Outcome(b, e)]
  OBVIOUS
<1>4. \A b \in B : h[b] \in X /\ Outcome(b, h[b])
  BY <1>3
<1>5. \A e \in X, b \in B : Outcome(b, e) => e = h[b]
  BY <1>4 DEF Cleared
<1>6. X = {h[b] : b \in B}
  BY <1>4, <1>5
<1>7. ASSUME NEW b \in B, NEW c \in B, h[b] = h[c] PROVE b = c
  <2>1. PICK n : n = h[b].id
    OBVIOUS
  <2>2. n \in Numbers(b) /\ n \in Numbers(c)
    BY <1>4, <1>7, <2>1 DEF Outcome
  <2> QED
    BY <2>2 DEF Quiet
<1>8. PICK f, g : f = [b \in B |-> b.amount] /\ g = [e \in X |-> e.amount]
  OBVIOUS
<1>9. OneToOne(h, B)
  BY <1>7 DEF OneToOne
<1>10. Carries(h, B, f, g)
  <2> SUFFICES ASSUME NEW b \in B PROVE f[b] \in Int /\ g[h[b]] = f[b]
    BY DEF Carries
  <2>1. f[b] = b.amount /\ b \in Bills
    BY <1>1, <1>8
  <2>2. g[h[b]] = b.amount
    BY <1>4, <1>8 DEF Outcome
  <2>3. b.amount \in Nat
    BY <2>1, BillsAssumption
  <2> QED
    BY <2>1, <2>2, <2>3
<1>11. SumFunctionOnSet(g, X) = SumFunctionOnSet(f, B)
  BY <1>2, <1>6, <1>9, <1>10, SumOfImage
<1>12. Total(X) = SumFunctionOnSet(g, X) /\ Total(B) = SumFunctionOnSet(f, B)
  BY <1>8 DEF Total, SumFunction
<1> QED
  BY <1>11, <1>12

\* What kind of cash a bill's event is, and whether it is among the scheduled.
LEMMA KindsOfOutcomes ==
  ASSUME NEW b, NEW e, Outcome(b, e)
  PROVE  /\ CashType(e) = "IMMEDIATE_DEBIT" /\ e.status = "pending" <=> stage[b] = "pending"
         /\ CashType(e) = "IMMEDIATE_DEBIT" /\ e.status = "settled" <=> stage[b] = "settled"
         /\ CashType(e) = "FUTURE_DEBIT" <=> stage[b] = "scheduled"
         /\ e.direction = "debit" <=> stage[b] \in {"scheduled", "pending", "settled"}
BY DEF Outcome, CashType

\* A first announcement is a debit to come.
LEMMA KindOfKept == \A b, e : Kept(b, e) => CashType(e) = "FUTURE_DEBIT" /\ e.status = "scheduled"
BY DEF Kept, CashType

\* The pending bills are reserved.
LEMMA PendingIsReserved ==
  ASSUME RequestInv, Quiet(world), NEW R, Cleared(R)
  PROVE  Reserved(R, today) = Total(In("pending"))
<1>1. PICK X : X = {e \in R : CashType(e) = "IMMEDIATE_DEBIT" /\ e.status = "pending"}
  OBVIOUS
<1>0. PICK B : B = In("pending")
  OBVIOUS
<1>2. B \in SUBSET world.bills /\ \A b \in world.bills : b \in B <=> stage[b] = "pending"
  BY <1>0 DEF In
<1>3. \A e \in X : \E b \in B : Outcome(b, e)
  BY <1>1, <1>2, KindsOfOutcomes, KindOfKept DEF Cleared, Stands
<1>4. \A b \in B : \E e \in X : Outcome(b, e)
  BY <1>1, <1>2, KindsOfOutcomes DEF Cleared
<1>5. Total(X) = Total(B)
  BY <1>1, <1>2, <1>3, <1>4, TotalsOfBills
<1> QED
  BY <1>0, <1>1, <1>5 DEF Reserved

\* The scheduled bills, and those announced again, are the debits to come.
LEMMA ScheduledAreToCome ==
  ASSUME RequestInv, BillsInv, Quiet(world), NEW R, Cleared(R)
  PROVE  {<<i.change, i.date, i.amount>> : i \in Scheduled(R, today, "FUTURE_DEBIT")} =
           {<<b.id, b.due, b.amount>> :
              b \in {x \in In("scheduled") \union twice : today < x.due /\ x.due <= today + Horizon}}
<1>1. PICK S : S = Scheduled(R, today, "FUTURE_DEBIT")
  OBVIOUS
<1>2. PICK B : B = {x \in In("scheduled") \union twice : today < x.due /\ x.due <= today + Horizon}
  OBVIOUS
<1>3. ASSUME NEW e \in R, NEW b \in world.bills, Kept(b, e) \/ (Outcome(b, e) /\ stage[b] = "scheduled")
      PROVE  e.id = b.id /\ e.date = b.due /\ e.amount = b.amount /\ CashType(e) = "FUTURE_DEBIT"
  BY <1>3, KindsOfOutcomes, KindOfKept DEF Outcome, Kept
<1>4. ASSUME NEW i \in S
      PROVE  \E b \in B : i.change = b.id /\ i.date = b.due /\ i.amount = b.amount
  <2>1. PICK e \in R : /\ i = Item(e, e.date, e.amount)
                       /\ CashType(e) = "FUTURE_DEBIT" /\ today < e.date /\ e.date <= today + Horizon
    BY <1>1 DEF Scheduled
  <2>2. e.status # "settled"
    BY <2>1 DEF CashType
  <2>3. PICK b \in world.bills : Stands(b, e)
    BY <2>2 DEF Cleared
  <2>4. Kept(b, e) \/ (Outcome(b, e) /\ stage[b] = "scheduled")
    BY <2>1, <2>3, KindsOfOutcomes DEF Stands
  <2>5. b \in In("scheduled") \union twice
    BY <2>4 DEF In, Kept
  <2>6. b \in B /\ e.id = b.id /\ e.date = b.due /\ e.amount = b.amount
    BY <1>2, <1>3, <2>1, <2>4, <2>5
  <2> QED
    BY <2>1, <2>6 DEF Item
<1>5. ASSUME NEW b \in B
      PROVE  \E i \in S : i.change = b.id /\ i.date = b.due /\ i.amount = b.amount
  <2>1. b \in world.bills /\ (stage[b] = "scheduled" \/ b \in twice) /\ today < b.due /\ b.due <= today + Horizon
    BY <1>2 DEF In, BillsInv
  <2>2. PICK e \in R : Kept(b, e) \/ (Outcome(b, e) /\ stage[b] = "scheduled")
    BY <2>1 DEF Cleared
  <2>3. e.id = b.id /\ e.date = b.due /\ e.amount = b.amount /\ CashType(e) = "FUTURE_DEBIT"
    BY <1>3, <2>1, <2>2
  <2>4. Item(e, e.date, e.amount) \in S
    BY <1>1, <2>1, <2>3 DEF Scheduled
  <2> QED
    BY <2>3, <2>4 DEF Item
<1>6. {<<i.change, i.date, i.amount>> : i \in S} = {<<b.id, b.due, b.amount>> : b \in B}
  BY <1>4, <1>5
<1> QED
  BY <1>1, <1>2, <1>6

\* Some of the resolved events have a last one.
LEMMA LastExists ==
  ASSUME NEW R, Cleared(R), NEW w \in SUBSET R, w # {}
  PROVE  LastOf(w) \in w
<1>1. IsFiniteSet(w) /\ \A e \in w : e.id \in Int /\ e.date \in Nat
  BY FS_Subset DEF Cleared
<1> QED
  BY <1>1, LastIsOne

\* Spending of a bill's category is that of bills settled or pending.
LEMMA SpendingIsOfBills ==
  ASSUME RequestInv, NEW R, Cleared(R), NEW e \in R, e.direction = "debit", CashType(e) = "IMMEDIATE_DEBIT",
         NEW b \in world.bills, e.category = b.category
  PROVE  \E x \in In("settled") \union In("pending") : x.category = b.category
<1>1. PICK x \in world.bills : Outcome(x, e)
  BY KindOfKept DEF Cleared, Stands
<1>2. stage[x] \in {"settled", "pending"}
  BY <1>1 DEF Outcome, CashType
<1> QED
  BY <1>1, <1>2 DEF In, Outcome

\* What the forecast of a state has spent.
Spends(s) == s.bills \union {x.item : x \in s.burns}

\* A category that the engine's forecast has is one of spending.
LEMMA EngineCategories ==
  ASSUME NEW R, Cleared(R), NEW a, NEW s, s = EngineState(R, a, today),
         NEW i \in Spends(s)
  PROVE  \E e \in R : e.category = i.category /\ e.direction = "debit" /\ CashType(e) = "IMMEDIATE_DEBIT"
<1>1. ASSUME NEW w \in SUBSET R, w # {}, NEW c, NEW d, NEW amount, i = Item(LastOf(w), d, amount),
             w \subseteq Paid(R, c, today)
      PROVE  \E e \in R : e.category = i.category /\ e.direction = "debit" /\ CashType(e) = "IMMEDIATE_DEBIT"
  <2>1. PICK e \in w : e = LastOf(w)
    BY <1>1, LastExists
  <2>2. e.category = i.category
    BY <1>1, <2>1 DEF Item
  <2>3. CashType(e) = "IMMEDIATE_DEBIT"
    BY <1>1, <2>1 DEF Paid
  <2>4. e.direction = "debit"
    BY <2>3 DEF CashType
  <2> QED
    BY <2>2, <2>3, <2>4
<1>2. CASE i \in s.bills
  <2>1. PICK c \in FixedCategories : i \in FixedItems(R, c, today)
    BY <1>2 DEF EngineState, Unscheduled
  <2>2. PICK w : w = Recent(Paid(R, c, today), Window)
    OBVIOUS
  <2>3. w \subseteq Paid(R, c, today) /\ w \in SUBSET R
    BY <2>2 DEF Recent, Paid
  <2>4. ~(Cardinality(w) < 2) /\ \E d : i = Item(LastOf(w), d, UpperMedian(w))
    BY <2>1, <2>2 DEF FixedItems
  <2>5. w # {}
    BY <2>4, FS_EmptySet
  <2> QED
    BY <1>1, <2>3, <2>4, <2>5
<1>3. CASE i \in {x.item : x \in s.burns}
  <2>1. PICK c \in VariableCategories : \E x \in Burn(R, c, today) : i = x.item
    BY <1>3 DEF EngineState
  <2>2. PICK w : w = {e \in Paid(R, c, today) : today - Lookback <= e.date}
    OBVIOUS
  <2>3. w \subseteq Paid(R, c, today) /\ w \in SUBSET R
    BY <2>2 DEF Paid
  <2>4. Total(w) # 0 /\ i = Item(LastOf(w), today, Total(w))
    BY <2>1, <2>2 DEF Burn
  <2>5. Total({}) = 0
    BY SumOfNothing DEF Total, SumFunction
  <2>6. w # {}
    BY <2>4, <2>5
  <2> QED
    BY <1>1, <2>3, <2>4, <2>6
<1> QED
  BY <1>2, <1>3 DEF Spends

\* Without messages nothing is amended.
LEMMA NothingAmended == \A items : AmendedRent(items, <<>>) = items
<1>1. ASSUME NEW i PROVE RentAfter(<<>>, i) = i
  <2>1. PICK m : m = <<>>
    OBVIOUS
  <2>2. PICK h : h = CHOOSE f : f = [n \in 0..0 |-> IF n = 0 THEN i ELSE RentBy(m[n], f[n - 1])]
    OBVIOUS
  <2>3. \E f : f = [n \in 0..0 |-> IF n = 0 THEN i ELSE RentBy(m[n], f[n - 1])]
    <3>1. PICK f : f = [n \in {0} |-> i]
      OBVIOUS
    <3>2. f = [n \in 0..0 |-> IF n = 0 THEN i ELSE RentBy(m[n], f[n - 1])]
      BY <3>1
    <3> QED
      BY <3>2
  <2>4. h = [n \in 0..0 |-> IF n = 0 THEN i ELSE RentBy(m[n], h[n - 1])]
    BY <2>2, <2>3
  <2>5. h[0] = i
    BY <2>4
  <2>6. Len(m) = 0
    BY <2>1
  <2>7. RentAfter(m, i) = h[0]
    BY <2>2, <2>6 DEF RentAfter
  <2> QED
    BY <2>1, <2>5, <2>7
<1> QED
  BY <1>1 DEF AmendedRent

\* A category that the batch program's forecast has is one of spending.
LEMMA BatchCategories ==
  ASSUME NEW R, Cleared(R), NEW a, NEW daily \in BOOLEAN, NEW filtered, NEW s,
         s = BatchState(R, a, today, <<>>, daily, filtered),
         NEW i \in Spends(s)
  PROVE  \E e \in R : e.category = i.category /\ e.direction = "debit" /\ CashType(e) = "IMMEDIATE_DEBIT"
<1>1. ASSUME NEW c, Spent(R, c, today) # {}, NEW d, NEW amount, i = Item(LastOf(Spent(R, c, today)), d, amount)
      PROVE  \E e \in R : e.category = i.category /\ e.direction = "debit" /\ CashType(e) = "IMMEDIATE_DEBIT"
  <2>1. PICK w : w = Spent(R, c, today)
    OBVIOUS
  <2>2. w \in SUBSET R
    BY <2>1 DEF Spent
  <2>3. PICK e \in w : e = LastOf(w)
    BY <1>1, <2>1, <2>2, LastExists
  <2>4. e.category = i.category
    BY <1>1, <2>1, <2>3 DEF Item
  <2>5. e.direction = "debit" /\ CashType(e) \in {"IMMEDIATE_DEBIT", "SETTLED_INCOME"}
    BY <2>1 DEF Spent
  <2>6. CashType(e) = "IMMEDIATE_DEBIT"
    BY <2>5 DEF CashType
  <2> QED
    BY <2>2, <2>4, <2>5, <2>6
<1>2. ASSUME NEW c, i \in BatchFixedItems(R, c, today) \union SteppedSpending(R, c, today)
      PROVE  Spent(R, c, today) # {} /\ \E d, amount : i = Item(LastOf(Spent(R, c, today)), d, amount)
  <2>1. CASE i \in SteppedSpending(R, c, today)
    BY <2>1 DEF SteppedSpending
  <2>2. CASE i \in BatchFixedItems(R, c, today)
    BY <2>2 DEF BatchFixedItems
  <2> QED
    BY <1>2, <2>1, <2>2
<1>0. i \in s.bills \/ i \in {x.item : x \in s.burns}
  BY DEF Spends
<1>3. CASE i \in s.bills
  <2>1. \/ \E c \in FixedCategories : i \in BatchFixedItems(R, c, today)
        \/ \E c \in VariableCategories : i \in SteppedSpending(R, c, today)
    BY <1>3, NothingAmended DEF BatchState, Unscheduled
  <2>2. PICK c : i \in BatchFixedItems(R, c, today) \union SteppedSpending(R, c, today)
    BY <2>1
  <2> QED
    BY <1>1, <1>2, <2>2
<1>4. CASE i \in {x.item : x \in s.burns}
  <2>1. PICK c \in VariableCategories : \E x \in BatchBurn(R, c, today) : i = x.item
    BY <1>4 DEF BatchState
  <2>2. Spent(R, c, today) # {} /\ \E d, amount : i = Item(LastOf(Spent(R, c, today)), d, amount)
    BY <2>1 DEF BatchBurn
  <2> QED
    BY <1>1, <2>2
<1> QED
  BY <1>0, <1>3, <1>4

\* What the burns of a category cost, and the bills settled in it.
BurnCosts(s, c) == {x.item.amount : x \in {y \in s.burns : y.item.category = c}}
SettledIn(c) == {b \in In("settled") : b.category = c}

\* The burn of a bill's category is what the settled bills of it cost.
LEMMA BurnIsOfBills ==
  ASSUME BillsInv, RequestInv, Quiet(world), NEW R, Cleared(R), NEW a, NEW s, s = EngineState(R, a, today),
         NEW c \in VariableCategories, NEW bill \in world.bills, c = bill.category
  PROVE  BurnCosts(s, c) = {Total(SettledIn(c))} \ {0}
<1>1. world.first \in Nat /\ today \in Nat
  BY WorldsAssumption, DatesAreNumbers DEF RequestInv, World
<1>2. PICK X : X = {e \in Paid(R, c, today) : today - Lookback <= e.date}
  OBVIOUS
<1>0. PICK B : B = SettledIn(c)
  OBVIOUS
<1>3. B = {b \in In("settled") : b.category = c}
  BY <1>0 DEF SettledIn
<1>4. X \in SUBSET R /\ B \in SUBSET world.bills
  BY <1>2, <1>3 DEF Paid, In
<1>5. ASSUME NEW e \in X PROVE \E b \in B : Outcome(b, e)
  <2>1. e \in R /\ e.category = bill.category /\ CashType(e) = "IMMEDIATE_DEBIT" /\ e.status = "settled"
    BY <1>2 DEF Paid
  <2>2. PICK b \in world.bills : Outcome(b, e)
    BY <2>1, KindOfKept DEF Cleared, Stands
  <2>3. stage[b] = "settled" /\ b.category = c
    BY <2>1, <2>2, KindsOfOutcomes DEF Outcome
  <2> QED
    BY <1>3, <2>2, <2>3 DEF In
<1>6. ASSUME NEW b \in B PROVE \E e \in X : Outcome(b, e)
  <2>1. b \in world.bills /\ stage[b] = "settled" /\ b.category = c
    BY <1>3 DEF In
  <2>2. PICK e \in R : Outcome(b, e)
    BY <2>1 DEF Cleared
  <2>3. CashType(e) = "IMMEDIATE_DEBIT" /\ e.status = "settled"
    BY <2>1, <2>2, KindsOfOutcomes
  <2>4. e.category = c /\ e.date \in Lately
    BY <2>1, <2>2 DEF Outcome
  <2>5. e.date <= today /\ today - Lookback <= e.date
    BY <1>1, <2>4 DEF Lately, BillsInv, Lookback
  <2> QED
    BY <1>2, <2>2, <2>3, <2>4, <2>5 DEF Paid
<1>7. Total(X) = Total(B)
  BY <1>4, <1>5, <1>6, TotalsOfBills
<1>8. ASSUME NEW k \in VariableCategories, NEW y \in Burn(R, k, today)
      PROVE  y.item.category = k
  <2>1. PICK w : w = {e \in Paid(R, k, today) : today - Lookback <= e.date}
    OBVIOUS
  <2>2. w \in SUBSET R
    BY <2>1 DEF Paid
  <2>3. Total(w) # 0 /\ y.item = Item(LastOf(w), today, Total(w))
    BY <1>8, <2>1 DEF Burn
  <2>4. Total({}) = 0
    BY SumOfNothing DEF Total, SumFunction
  <2>5. PICK e \in w : e = LastOf(w)
    BY <2>2, <2>3, <2>4, LastExists
  <2>6. e.category = k
    BY <2>1 DEF Paid
  <2> QED
    BY <2>3, <2>5, <2>6 DEF Item
<1>9. s.burns = UNION {Burn(R, k, today) : k \in VariableCategories}
  BY DEF EngineState
<1>10. {y \in s.burns : y.item.category = c} = Burn(R, c, today)
  BY <1>8, <1>9
<1>11. PICK n : n = Total(X)
  OBVIOUS
<1>12. PICK D : D = Burn(R, c, today)
  OBVIOUS
<1>13. /\ n = 0 => D = {}
       /\ n # 0 => \E y : D = {y} /\ y.item.amount = n
  <2>1. D = IF n = 0 THEN {}
            ELSE {[item |-> Item(LastOf(X), today, n), over |-> Lookback, dates |-> (today + 1)..(today + Horizon)]}
    BY <1>2, <1>11, <1>12 DEF Burn
  <2>2. PICK i : i = Item(LastOf(X), today, n)
    OBVIOUS
  <2>3. i.amount = n
    BY <2>2 DEF Item
  <2>4. PICK dates : dates = (today + 1)..(today + Horizon)
    OBVIOUS
  <2>5. D = IF n = 0 THEN {} ELSE {[item |-> i, over |-> Lookback, dates |-> dates]}
    BY <2>1, <2>2, <2>4
  <2>6. PICK y : y = [item |-> i, over |-> Lookback, dates |-> dates]
    OBVIOUS
  <2>7. y.item.amount = n /\ (n # 0 => D = {y}) /\ (n = 0 => D = {})
    BY <2>3, <2>5, <2>6
  <2> QED
    BY <2>7
<1>14. {x.item.amount : x \in D} = {n} \ {0}
  BY <1>13
<1> QED
  BY <1>0, <1>7, <1>10, <1>11, <1>12, <1>14 DEF BurnCosts

\* In the states of a user whose bills are all that is still to come, each counts once.
LEMMA BillsCount ==
  ASSUME BillsInv, StatesCurrent, RequestInv, RowsInv, Quiet(world)
  PROVE  CountedOnce
<1>1. /\ Cleared(Resolved(rows, world.home))
      /\ Cleared(BatchResolved(EventsOf(rows) \union world.unread, world.pictures, world.home))
  BY ResolvedIsCleared
<1>2. ASSUME NEW s \in {state, batch} \ {Nothing}
      PROVE  \E R : /\ Cleared(R)
                    /\ s.starting = AvailableBalance - Reserved(R, today)
                    /\ s.debits = Scheduled(R, today, "FUTURE_DEBIT")
                    /\ \A i \in Spends(s) : \E e \in R :
                         e.category = i.category /\ e.direction = "debit" /\ CashType(e) = "IMMEDIATE_DEBIT"
  <2>1. CASE s = state
    <3>1. PICK R : R = Resolved(rows, world.home) /\ Cleared(R)
      BY <1>1
    <3>2. s = EngineState(R, AvailableBalance, today)
      BY <2>1, <3>1 DEF StatesCurrent
    <3>3. s.starting = AvailableBalance - Reserved(R, today) /\ s.debits = Scheduled(R, today, "FUTURE_DEBIT")
      BY <3>2 DEF EngineState
    <3> QED
      BY <3>1, <3>2, <3>3, EngineCategories
  <2>2. CASE s = batch
    <3>1. PICK R : /\ R = BatchResolved(EventsOf(rows) \union world.unread, world.pictures, world.home)
                   /\ Cleared(R)
      BY <1>1
    <3>2. PICK daily \in BOOLEAN, filtered \in BOOLEAN :
            s = BatchState(R, AvailableBalance, today, world.messages, daily, filtered)
      BY <2>2, <3>1 DEF StatesCurrent
    <3>3. s = BatchState(R, AvailableBalance, today, <<>>, daily, filtered)
      BY <3>2 DEF Quiet
    <3>4. s.starting = AvailableBalance - Reserved(R, today) /\ s.debits = Scheduled(R, today, "FUTURE_DEBIT")
      BY <3>3, NothingAmended DEF BatchState
    <3>5. ASSUME NEW i \in Spends(s)
          PROVE  \E e \in R : e.category = i.category /\ e.direction = "debit" /\ CashType(e) = "IMMEDIATE_DEBIT"
      BY <3>1, <3>3, <3>5, BatchCategories
    <3> QED
      BY <3>1, <3>4, <3>5
  <2> QED
    BY <2>1, <2>2
<1>3. ASSUME NEW s \in {state, batch} \ {Nothing}
      PROVE  /\ s.starting = AvailableBalance - Total(In("pending"))
             /\ {<<i.change, i.date, i.amount>> : i \in s.debits} =
                  {<<b.id, b.due, b.amount>> :
                     b \in {x \in In("scheduled") \union twice : today < x.due /\ x.due <= today + Horizon}}
             /\ \A b \in world.bills : b.category \in {i.category : i \in s.bills \union {x.item : x \in s.burns}} =>
                  \E x \in In("settled") \union In("pending") : x.category = b.category
  <2>1. PICK R : /\ Cleared(R)
                 /\ s.starting = AvailableBalance - Reserved(R, today)
                 /\ s.debits = Scheduled(R, today, "FUTURE_DEBIT")
                 /\ \A i \in Spends(s) : \E e \in R :
                      e.category = i.category /\ e.direction = "debit" /\ CashType(e) = "IMMEDIATE_DEBIT"
    BY <1>2
  <2>2. s.starting = AvailableBalance - Total(In("pending"))
    BY <2>1, PendingIsReserved
  <2>3. {<<i.change, i.date, i.amount>> : i \in s.debits} =
          {<<b.id, b.due, b.amount>> :
             b \in {x \in In("scheduled") \union twice : today < x.due /\ x.due <= today + Horizon}}
    BY <2>1, ScheduledAreToCome
  <2>4. ASSUME NEW b \in world.bills, b.category \in {i.category : i \in s.bills \union {x.item : x \in s.burns}}
        PROVE  \E x \in In("settled") \union In("pending") : x.category = b.category
    <3>1. PICK e \in R : e.category = b.category /\ e.direction = "debit" /\ CashType(e) = "IMMEDIATE_DEBIT"
      BY <2>1, <2>4 DEF Spends
    <3> QED
      BY <2>1, <3>1, SpendingIsOfBills
  <2> QED
    BY <2>2, <2>3, <2>4
<1>4. ASSUME state # Nothing, NEW c \in VariableCategories \intersect {b.category : b \in world.bills}
      PROVE  {x.item.amount : x \in {y \in state.burns : y.item.category = c}} =
               {Total({b \in In("settled") : b.category = c})} \ {0}
  <2>1. PICK bill \in world.bills : c = bill.category
    OBVIOUS
  <2>2. PICK R : Cleared(R) /\ state = EngineState(R, AvailableBalance, today)
    BY <1>1, <1>4 DEF StatesCurrent
  <2>3. PICK s : s = state
    OBVIOUS
  <2>4. BurnCosts(s, c) = {Total(SettledIn(c))} \ {0}
    BY <2>1, <2>2, <2>3, BurnIsOfBills
  <2> QED
    BY <2>3, <2>4 DEF BurnCosts, SettledIn
<1> QED
  BY <1>3, <1>4 DEF CountedOnce

\* Whatever has become of its bills, whichever of them were announced, announced again,
\* settled, withdrawn and refunded, and whenever, each counts once in the state the engine
\* and the batch program work from, for a user whose bills are all that is still to come;
\* except that what was announced a second time counts again until its due day.
\* (resolve_events, state/builder.py; code/event_lifecycle.py, code/financial_state.py)
THEOREM EachBillCountsOnce == Spec => [](Quiet(world) => CountedOnce)
<1>1. RequestInv /\ RowsInv /\ (Quiet(world) => BillsInv /\ StatesCurrent) => (Quiet(world) => CountedOnce)
  BY BillsCount
<1> QED
  BY <1>1, RequestsHold, RowsHold, BillsHold, PTL
-----------------------------------------------------------------------------
(* The calendar *)

\* The months are numbered from the first, and none is short of 28 days or has more than 31.
LEMMA MonthsAre ==
  \E N \in Nat \ {0} : /\ N = Len(MonthLength) /\ Months = 1..N
                       /\ \A m \in 1..N : MonthLength[m] \in 28..31
<1>1. PICK N : N = Len(MonthLength)
  OBVIOUS
<1>2. N \in Nat /\ N >= 1 /\ MonthLength \in Seq(28..31)
  BY <1>1, MonthLengthAssumption
<1>3. Months = 1..N /\ \A m \in 1..N : MonthLength[m] \in 28..31
  BY <1>1, <1>2 DEF Months
<1>4. N \in Nat \ {0}
  BY <1>2
<1> QED
  BY <1>1, <1>3, <1>4

\* There are days before the months begin, as Eve says.
LEMMA EveExists ==
  \E g : g = [m \in Months |-> IF m = 1 THEN 0 ELSE g[m - 1] + MonthLength[m - 1]]
<1> DEFINE Fits(g, n) == g = [m \in 1..n |-> IF m = 1 THEN 0 ELSE g[m - 1] + MonthLength[m - 1]]
           H == {n \in Nat : \E g : Fits(g, n)}
<1>1. 0 \in H
  <2>1. Fits([m \in 1..0 |-> 0], 0)
    OBVIOUS
  <2> QED
    BY <2>1
<1>2. ASSUME NEW n \in Nat, n \in H PROVE n + 1 \in H
  <2>1. PICK g : Fits(g, n)
    BY <1>2
  <2>2. PICK h : h = [m \in 1..(n + 1) |-> IF m = 1 THEN 0 ELSE g[m - 1] + MonthLength[m - 1]]
    OBVIOUS
  <2>3. \A m \in 1..n : g[m] = IF m = 1 THEN 0 ELSE g[m - 1] + MonthLength[m - 1]
    BY <2>1
  <2>4. \A m \in 1..n : m \in 1..(n + 1)
    OBVIOUS
  <2>5. \A m \in 1..n : h[m] = g[m]
    BY <2>2, <2>3, <2>4
  <2>6. \A m \in 1..(n + 1) : m # 1 => m - 1 \in 1..n
    OBVIOUS
  <2>7. \A m \in 1..(n + 1) : m # 1 => h[m - 1] = g[m - 1]
    BY <2>5, <2>6
  <2>8. h = [m \in 1..(n + 1) |-> IF m = 1 THEN 0 ELSE h[m - 1] + MonthLength[m - 1]]
    BY <2>2, <2>7
  <2> QED
    BY <2>8
<1> HIDE DEF H
<1>3. Nat \subseteq H
  BY <1>1, <1>2, NumbersByInduction
<1>4. PICK N \in Nat : Months = 1..N
  BY MonthsAre
<1> QED
  BY <1>3, <1>4 DEF H

\* Eve is what its definition says.
LEMMA EveIs ==
  /\ \A m \in Months : m = 1 => Eve[m] = 0
  /\ \A m, n \in Months : n = m + 1 => Eve[n] = Eve[m] + MonthLength[m]
<1>1. Eve = [m \in Months |-> IF m = 1 THEN 0 ELSE Eve[m - 1] + MonthLength[m - 1]]
  BY EveExists DEF Eve
<1>2. PICK N \in Nat : Months = 1..N
  BY MonthsAre
<1>3. \A m \in Months : m = 1 => Eve[m] = 0
  BY <1>1
<1>4. ASSUME NEW m \in Months, NEW n \in Months, n = m + 1 PROVE Eve[n] = Eve[m] + MonthLength[m]
  <2>1. n # 1 /\ n - 1 = m
    BY <1>2, <1>4
  <2>2. Eve[n] = IF n = 1 THEN 0 ELSE Eve[n - 1] + MonthLength[n - 1]
    BY <1>1
  <2> QED
    BY <2>1, <2>2
<1> QED
  BY <1>3, <1>4

\* A month begins after those before it, of 28 to 31 days each.
LEMMA EveGrows ==
  ASSUME NEW m \in Months, NEW n \in Months, m <= n
  PROVE  /\ m \in Nat /\ n \in Nat /\ Eve[m] \in Nat /\ Eve[n] \in Nat
         /\ 28 * (n - m) <= Eve[n] - Eve[m] /\ Eve[n] - Eve[m] <= 31 * (n - m)
<1>1. PICK N \in Nat \ {0} : Months = 1..N /\ \A k \in 1..N : MonthLength[k] \in 28..31
  BY MonthsAre
<1> DEFINE G == {k \in Nat : k + 1 \in Months => Eve[k + 1] \in Nat}
           D == {k \in Nat : \A x \in Months : x + k \in Months =>
                   28 * k <= Eve[x + k] - Eve[x] /\ Eve[x + k] - Eve[x] <= 31 * k}
<1>2. 0 \in G
  BY EveIs
<1>3. ASSUME NEW k \in Nat, k \in G PROVE k + 1 \in G
  <2> SUFFICES ASSUME (k + 1) + 1 \in Months PROVE Eve[(k + 1) + 1] \in Nat
    OBVIOUS
  <2>1. PICK x \in Nat : x = k + 1
    OBVIOUS
  <2>2. x \in Months /\ x + 1 \in Months
    BY <1>1, <2>1
  <2>3. Eve[x] \in Nat
    BY <1>3, <2>1, <2>2
  <2>4. Eve[x + 1] = Eve[x] + MonthLength[x]
    BY <2>2, EveIs
  <2> QED
    BY <1>1, <2>1, <2>2, <2>3, <2>4
<1> HIDE DEF G
<1>4. Nat \subseteq G
  BY <1>2, <1>3, NumbersByInduction
<1>5. \A x \in Months : x \in Nat /\ Eve[x] \in Nat
  <2> SUFFICES ASSUME NEW x \in Months PROVE x \in Nat /\ Eve[x] \in Nat
    OBVIOUS
  <2>1. x \in Nat /\ x - 1 \in Nat /\ (x - 1) + 1 = x
    BY <1>1
  <2>2. x - 1 \in G
    BY <1>4, <2>1
  <2> QED
    BY <2>1, <2>2 DEF G
<1>6. 0 \in D
  BY <1>5
<1>7. ASSUME NEW k \in Nat, k \in D PROVE k + 1 \in D
  <2> SUFFICES ASSUME NEW x \in Months, x + (k + 1) \in Months
               PROVE  28 * (k + 1) <= Eve[x + (k + 1)] - Eve[x] /\ Eve[x + (k + 1)] - Eve[x] <= 31 * (k + 1)
    OBVIOUS
  <2>1. PICK y \in Nat : y = x + k /\ x + (k + 1) = y + 1
    BY <1>5
  <2>2. y \in Months /\ y + 1 \in Months
    BY <1>1, <2>1
  <2>3. 28 * k <= Eve[y] - Eve[x] /\ Eve[y] - Eve[x] <= 31 * k
    BY <1>7, <2>1, <2>2
  <2>4. Eve[y + 1] = Eve[y] + MonthLength[y]
    BY <2>2, EveIs
  <2>5. MonthLength[y] \in 28..31
    BY <1>1, <2>2
  <2>6. PICK a \in Nat, b \in Nat, l \in 28..31 : a = Eve[x] /\ b = Eve[y] /\ l = MonthLength[y]
    BY <1>5, <2>2, <2>5
  <2> QED
    BY <2>1, <2>3, <2>4, <2>6
<1> HIDE DEF D
<1>8. Nat \subseteq D
  BY <1>6, <1>7, NumbersByInduction
<1>9. PICK k \in Nat : k = n - m /\ n = m + k
  BY <1>5
<1>10. k \in D
  BY <1>8
<1> QED
  BY <1>5, <1>9, <1>10 DEF D

\* A day that every month has names one date of each, which is in that month.
LEMMA DateIs ==
  ASSUME NEW k \in Months, NEW dom \in 1..28
  PROVE  /\ DateIn(k, dom) = Eve[k] + dom /\ DateIn(k, dom) \in Date /\ DateIn(k, dom) \in Nat
         /\ MonthOf[DateIn(k, dom)] = k /\ DayOf(DateIn(k, dom)) = dom
<1>1. PICK N \in Nat \ {0} : /\ N = Len(MonthLength) /\ Months = 1..N
                             /\ \A m \in 1..N : MonthLength[m] \in 28..31
  BY MonthsAre
<1>2. N \in Months /\ k <= N
  BY <1>1
<1>3. PICK d \in Nat : d = Eve[k] + dom
  BY EveGrows, <1>2
<1>4. DateIn(k, dom) = d
  BY <1>1, <1>3 DEF DateIn
<1>5. Eve[k] < d /\ d <= Eve[k] + MonthLength[k]
  <2>1. Eve[k] \in Nat /\ MonthLength[k] \in 28..31
    BY <1>1, <1>2, EveGrows
  <2> QED
    BY <1>3, <2>1
<1>6. Eve[k] + MonthLength[k] <= Eve[N] + MonthLength[N]
  <2>1. Eve[k] \in Nat /\ Eve[N] \in Nat /\ 28 * (N - k) <= Eve[N] - Eve[k] /\ k \in Nat
    BY <1>2, EveGrows
  <2>2. MonthLength[k] \in 28..31 /\ MonthLength[N] \in 28..31
    BY <1>1
  <2>3. k = N \/ N - k >= 1
    BY <1>1, <1>2, <2>1
  <2> QED
    BY <2>1, <2>2, <2>3
<1>7. d \in Date
  <2>1. Eve[k] \in Nat /\ Eve[N] \in Nat /\ MonthLength[k] \in 28..31 /\ MonthLength[N] \in 28..31
    BY <1>1, <1>2, EveGrows
  <2>2. PICK a \in Nat, b \in Nat : a = Eve[k] + MonthLength[k] /\ b = Eve[N] + MonthLength[N]
    BY <2>1
  <2>3. Date = 1..b
    BY <1>1, <2>2 DEF Date
  <2>4. 1 <= d /\ d <= b
    BY <1>3, <1>5, <1>6, <2>1, <2>2
  <2> QED
    BY <2>2, <2>3, <2>4
<1>8. ASSUME NEW m \in Months, Eve[m] < d, d <= Eve[m] + MonthLength[m] PROVE m = k
  <2>1. m \in Nat /\ k \in Nat /\ Eve[m] \in Nat /\ Eve[k] \in Nat
    BY EveGrows, <1>1
  <2>2. MonthLength[k] \in 28..31 /\ MonthLength[m] \in 28..31
    BY <1>1
  <2>3. ~(m < k)
    <3> SUFFICES ASSUME m < k PROVE FALSE
      OBVIOUS
    <3>1. m + 1 \in Months /\ m + 1 <= k
      BY <1>1, <2>1
    <3>2. Eve[m + 1] = Eve[m] + MonthLength[m]
      BY <3>1, EveIs
    <3>3. 28 * (k - (m + 1)) <= Eve[k] - Eve[m + 1] /\ Eve[m + 1] \in Nat
      BY <3>1, EveGrows
    <3> QED
      BY <1>5, <1>8, <2>1, <2>2, <3>1, <3>2, <3>3
  <2>4. ~(k < m)
    <3> SUFFICES ASSUME k < m PROVE FALSE
      OBVIOUS
    <3>1. k + 1 \in Months /\ k + 1 <= m
      BY <1>1, <2>1
    <3>2. Eve[k + 1] = Eve[k] + MonthLength[k]
      BY <3>1, EveIs
    <3>3. 28 * (m - (k + 1)) <= Eve[m] - Eve[k + 1] /\ Eve[k + 1] \in Nat
      BY <3>1, EveGrows
    <3> QED
      BY <1>5, <1>8, <2>1, <2>2, <3>1, <3>2, <3>3
  <2> QED
    BY <2>1, <2>3, <2>4
<1>9. MonthOf[d] = k
  <2>1. MonthOf[d] = CHOOSE m \in Months : Eve[m] < d /\ d <= Eve[m] + MonthLength[m]
    BY <1>7 DEF MonthOf
  <2> QED
    BY <1>5, <1>8, <2>1
<1>10. DayOf(d) = dom
  <2>1. Eve[k] \in Nat
    BY <1>2, EveGrows
  <2> QED
    BY <1>3, <1>9, <2>1 DEF DayOf
<1> QED
  BY <1>3, <1>4, <1>7, <1>9, <1>10

\* Every date is in a month, and on its day.
LEMMA MonthIs ==
  ASSUME NEW d \in Date
  PROVE  /\ MonthOf[d] \in Months /\ Eve[MonthOf[d]] < d
         /\ DayOf(d) \in 1..28 => d = DateIn(MonthOf[d], DayOf(d))
<1>1. PICK N \in Nat \ {0} : /\ N = Len(MonthLength) /\ Months = 1..N
                             /\ \A m \in 1..N : MonthLength[m] \in 28..31
  BY MonthsAre
<1>2. d \in Nat /\ 1 <= d /\ d <= Eve[N] + MonthLength[N]
  BY <1>1, DatesAreNumbers DEF Date
<1>3. PICK S : S = {m \in Months : d <= Eve[m] + MonthLength[m]}
  OBVIOUS
<1>4. N \in S /\ S \in SUBSET Nat
  BY <1>1, <1>2, <1>3
<1>5. PICK m \in S : \A n \in S : m <= n
  BY <1>4, LeastNatural
<1>6. m \in Months /\ m \in Nat /\ d <= Eve[m] + MonthLength[m] /\ Eve[m] \in Nat
  BY <1>1, <1>3, <1>4, <1>5, EveGrows
<1>7. Eve[m] < d
  <2>1. CASE m = 1
    BY <1>2, <1>6, <2>1, EveIs
  <2>2. CASE m # 1
    <3>1. PICK k \in Nat : k = m - 1 /\ m = k + 1
      BY <1>1, <1>6, <2>2
    <3>2. k \in Months /\ ~(m <= k)
      BY <1>1, <1>6, <2>2, <3>1
    <3>3. k \notin S
      BY <1>5, <3>2
    <3>4. ~(d <= Eve[k] + MonthLength[k])
      BY <1>3, <3>2, <3>3
    <3>5. Eve[m] = Eve[k] + MonthLength[k]
      BY <1>6, <3>1, <3>2, EveIs
    <3> QED
      BY <1>2, <1>6, <3>4, <3>5
  <2> QED
    BY <2>1, <2>2
<1>8. MonthOf[d] \in Months /\ Eve[MonthOf[d]] < d
  <2>1. MonthOf[d] = CHOOSE x \in Months : Eve[x] < d /\ d <= Eve[x] + MonthLength[x]
    BY DEF MonthOf
  <2> QED
    BY <1>6, <1>7, <2>1
<1>9. ASSUME DayOf(d) \in 1..28 PROVE d = DateIn(MonthOf[d], DayOf(d))
  <2>1. DateIn(MonthOf[d], DayOf(d)) = Eve[MonthOf[d]] + DayOf(d)
    BY <1>8, <1>9, DateIs
  <2>2. Eve[MonthOf[d]] \in Nat
    BY <1>8, EveGrows, <1>1
  <2> QED
    BY <1>2, <2>1, <2>2 DEF DayOf
<1> QED
  BY <1>8, <1>9

\* The same day of a later month is later, by as many times 28 to 31 days.
LEMMA DatesGrow ==
  ASSUME NEW dom \in 1..28, NEW k \in Months, NEW l \in Months
  PROVE  /\ k \in Nat /\ l \in Nat
         /\ k < l <=> DateIn(k, dom) < DateIn(l, dom)
         /\ k = l <=> DateIn(k, dom) = DateIn(l, dom)
         /\ k <= l => /\ 28 * (l - k) <= DateIn(l, dom) - DateIn(k, dom)
                      /\ DateIn(l, dom) - DateIn(k, dom) <= 31 * (l - k)
<1>1. k \in Nat /\ l \in Nat
  BY MonthsAre
<1>2. PICK a \in Nat, b \in Nat : a = DateIn(k, dom) /\ b = DateIn(l, dom)
  BY DateIs
<1>3. a = Eve[k] + dom /\ b = Eve[l] + dom
  BY <1>2, DateIs
<1>4. Eve[k] \in Nat /\ Eve[l] \in Nat
  BY EveGrows, <1>1
<1>5. k <= l => 28 * (l - k) <= b - a /\ b - a <= 31 * (l - k)
  <2> SUFFICES ASSUME k <= l PROVE 28 * (l - k) <= b - a /\ b - a <= 31 * (l - k)
    OBVIOUS
  <2>1. 28 * (l - k) <= Eve[l] - Eve[k] /\ Eve[l] - Eve[k] <= 31 * (l - k)
    BY EveGrows
  <2> QED
    BY <1>3, <1>4, <2>1
<1>6. l <= k => 28 * (k - l) <= a - b
  <2> SUFFICES ASSUME l <= k PROVE 28 * (k - l) <= a - b
    OBVIOUS
  <2>1. 28 * (k - l) <= Eve[k] - Eve[l]
    BY EveGrows
  <2> QED
    BY <1>3, <1>4, <2>1
<1>7. (k < l <=> a < b) /\ (k = l <=> a = b)
  BY <1>1, <1>5, <1>6
<1> QED
  BY <1>1, <1>2, <1>5, <1>7

\* The days of a month that come after day t and until another day.
Coming(dom, t, until) == {d \in Date : t < d /\ d <= until /\ DayOf(d) = dom}

\* Monthly dates from a month on are those, if the ones of earlier months are past.
LEMMA ComingAhead ==
  ASSUME NEW dom \in 1..28, NEW t \in Nat, NEW m \in Int,
         \A k \in Months : k < m => DateIn(k, dom) <= t
  PROVE  /\ Ahead(MonthlyFrom(m, dom), t) = Coming(dom, t, t + Horizon)
         /\ (\A k \in Months : m <= k => t < DateIn(k, dom)) =>
              FromToday(MonthlyFrom(m, dom), t) = Coming(dom, t, t + Horizon)
<1>1. \A k \in Months : k \in Nat /\ DateIn(k, dom) \in Date /\ DateIn(k, dom) \in Nat /\ DayOf(DateIn(k, dom)) = dom
  <2> SUFFICES ASSUME NEW k \in Months
               PROVE  k \in Nat /\ DateIn(k, dom) \in Date /\ DateIn(k, dom) \in Nat /\ DayOf(DateIn(k, dom)) = dom
    OBVIOUS
  <2>1. k \in Nat
    BY MonthsAre
  <2> QED
    BY <2>1, DateIs
<1>2. ASSUME NEW d \in Coming(dom, t, t + Horizon)
      PROVE  d \in MonthlyFrom(m, dom) /\ d \in Nat /\ t < d /\ d <= t + Horizon
  <2>1. d \in Date /\ t < d /\ d <= t + Horizon /\ DayOf(d) = dom
    BY DEF Coming
  <2>2. PICK k \in Months : d = DateIn(k, dom)
    BY <2>1, MonthIs
  <2>3. ~(k < m)
    BY <1>1, <2>1, <2>2
  <2>4. k >= m
    BY <1>1, <2>3
  <2> QED
    BY <1>1, <2>1, <2>2, <2>4 DEF MonthlyFrom
<1>3. ASSUME NEW d \in MonthlyFrom(m, dom), t < d, d <= t + Horizon
      PROVE  d \in Coming(dom, t, t + Horizon)
  <2>1. PICK k \in Months : k >= m /\ d = DateIn(k, dom)
    BY DEF MonthlyFrom
  <2> QED
    BY <1>1, <1>3, <2>1 DEF Coming
<1>4. Ahead(MonthlyFrom(m, dom), t) = Coming(dom, t, t + Horizon)
  BY <1>2, <1>3 DEF Ahead
<1>5. ASSUME \A k \in Months : m <= k => t < DateIn(k, dom)
      PROVE  FromToday(MonthlyFrom(m, dom), t) = Coming(dom, t, t + Horizon)
  <2>1. \A d \in MonthlyFrom(m, dom) : t < d
    <3> SUFFICES ASSUME NEW d \in MonthlyFrom(m, dom) PROVE t < d
      OBVIOUS
    <3>1. PICK k \in Months : k >= m /\ d = DateIn(k, dom)
      BY DEF MonthlyFrom
    <3> QED
      BY <1>1, <1>5, <3>1
  <2>2. \A d \in Coming(dom, t, t + Horizon) : t <= d
    BY <1>2
  <2> QED
    BY <1>2, <1>3, <2>1, <2>2 DEF FromToday
<1> QED
  BY <1>4, <1>5

-----------------------------------------------------------------------------
(* Series of monthly events *)

\* One event in each month from m to n, on the same day of the month.
Series(E, m, n, dom) ==
  /\ m \in Months /\ n \in Months /\ m <= n /\ dom \in 1..28
  /\ {e.date : e \in E} = {DateIn(k, dom) : k \in m..n}
  /\ \A e, f \in E : e.date = f.date => e = f
  /\ \A e \in E : e.id \in Int

\* The events of a set from a day on.
From(E, d) == {e \in E : d <= e.date}

\* Each event is in a month, and each month has an event.
LEMMA SeriesHas ==
  ASSUME NEW E, NEW m, NEW n, NEW dom, Series(E, m, n, dom)
  PROVE  /\ m \in Nat /\ n \in Nat /\ m <= n /\ m..n \subseteq Months /\ dom \in 1..28
         /\ \A e \in E : /\ \E k \in m..n : e.date = DateIn(k, dom)
                         /\ e.date \in Nat /\ DayOf(e.date) = dom /\ MonthOf[e.date] \in m..n
         /\ \A k \in m..n : \E e \in E : e.date = DateIn(k, dom)
<1>1. m \in Nat /\ n \in Nat /\ m..n \subseteq Months
  <2>1. PICK N \in Nat : Months = 1..N
    BY MonthsAre
  <2>2. m \in 1..N /\ n \in 1..N
    BY <2>1 DEF Series
  <2> QED
    BY <2>1, <2>2
<1>2. PICK D, T : D = {e.date : e \in E} /\ T = {DateIn(k, dom) : k \in m..n}
  OBVIOUS
<1>3. D = T
  BY <1>2 DEF Series
<1>4. \A e \in E : \E k \in m..n : e.date = DateIn(k, dom)
  <2> SUFFICES ASSUME NEW e \in E PROVE \E k \in m..n : e.date = DateIn(k, dom)
    OBVIOUS
  <2>1. e.date \in T
    BY <1>2, <1>3
  <2> QED
    BY <1>2, <2>1
<1>5. \A k \in m..n : \E e \in E : e.date = DateIn(k, dom)
  <2> SUFFICES ASSUME NEW k \in m..n PROVE \E e \in E : e.date = DateIn(k, dom)
    OBVIOUS
  <2>1. DateIn(k, dom) \in D
    BY <1>2, <1>3
  <2> QED
    BY <1>2, <2>1
<1>6. \A e \in E : e.date \in Nat /\ DayOf(e.date) = dom /\ MonthOf[e.date] \in m..n
  <2> SUFFICES ASSUME NEW e \in E PROVE e.date \in Nat /\ DayOf(e.date) = dom /\ MonthOf[e.date] \in m..n
    OBVIOUS
  <2>1. PICK k \in m..n : e.date = DateIn(k, dom)
    BY <1>4
  <2>2. k \in Months /\ dom \in 1..28
    BY <1>1 DEF Series
  <2> QED
    BY <2>1, <2>2, DateIs
<1>7. m <= n /\ dom \in 1..28
  BY DEF Series
<1> QED
  BY <1>1, <1>4, <1>5, <1>6, <1>7

\* So there are as many events as months.
LEMMA SeriesCount ==
  ASSUME NEW E, NEW m, NEW n, NEW dom, Series(E, m, n, dom)
  PROVE  IsFiniteSet(E) /\ Cardinality(E) = n - m + 1 /\ m \in Nat /\ n \in Nat /\ m <= n
<1>1. m \in Nat /\ n \in Nat /\ m <= n /\ m..n \subseteq Months /\ dom \in 1..28
  BY SeriesHas
<1>2. \A k \in m..n : \E e \in E : e.date = DateIn(k, dom)
  BY SeriesHas
<1>3. PICK p : p = [k \in m..n |-> CHOOSE e \in E : e.date = DateIn(k, dom)]
  OBVIOUS
<1>4. \A k \in m..n : p[k] \in E /\ p[k].date = DateIn(k, dom)
  BY <1>2, <1>3
<1>5. \A e \in E : \E k \in m..n : p[k] = e
  <2> SUFFICES ASSUME NEW e \in E PROVE \E k \in m..n : p[k] = e
    OBVIOUS
  <2>1. PICK k \in m..n : e.date = DateIn(k, dom)
    BY SeriesHas
  <2>2. p[k] \in E /\ p[k].date = e.date
    BY <1>4, <2>1
  <2>3. p[k] = e
    BY <2>2 DEF Series
  <2> QED
    BY <2>3
<1>6. \A j, k \in m..n : p[j] = p[k] => j = k
  <2> SUFFICES ASSUME NEW j \in m..n, NEW k \in m..n, p[j] = p[k] PROVE j = k
    OBVIOUS
  <2>1. DateIn(j, dom) = DateIn(k, dom)
    BY <1>4
  <2>2. j \in Months /\ k \in Months
    BY <1>1
  <2> QED
    BY <1>1, <2>1, <2>2, DatesGrow
<1>7. p \in Bijection(m..n, E)
  <2>1. p \in [m..n -> E]
    BY <1>3, <1>4
  <2> QED
    BY <1>5, <1>6, <2>1 DEF Bijection, Injection, IsInjective, Surjection
<1>8. IsFiniteSet(m..n) /\ Cardinality(m..n) = n - m + 1
  <2>1. m \in Int /\ n \in Int /\ ~(m > n)
    BY <1>1
  <2> QED
    BY <2>1, FS_Interval
<1> QED
  BY <1>1, <1>7, <1>8, FS_Bijection DEF ExistsBijection

\* The events from one of its months on are a series.
LEMMA TailIsSeries ==
  ASSUME NEW E, NEW m, NEW n, NEW dom, Series(E, m, n, dom), NEW i \in m..n
  PROVE  Series(From(E, DateIn(i, dom)), i, n, dom)
<1>1. m \in Nat /\ n \in Nat /\ m <= n /\ m..n \subseteq Months /\ dom \in 1..28
  BY SeriesHas
<1>2. i \in Months /\ n \in Months /\ i <= n /\ i \in Nat
  BY <1>1 DEF Series
<1>3. PICK W : W = From(E, DateIn(i, dom))
  OBVIOUS
<1>4. W \subseteq E
  BY <1>3 DEF From
<1>5. ASSUME NEW e \in W PROVE \E k \in i..n : e.date = DateIn(k, dom)
  <2>1. PICK k \in m..n : e.date = DateIn(k, dom)
    BY <1>4, SeriesHas
  <2>2. DateIn(i, dom) <= DateIn(k, dom) /\ k \in Months
    BY <1>1, <1>3, <2>1 DEF From
  <2>3. DateIn(i, dom) \in Nat /\ DateIn(k, dom) \in Nat
    BY <1>1, <1>2, <2>2, DateIs
  <2>4. ~(DateIn(k, dom) < DateIn(i, dom))
    BY <2>2, <2>3
  <2>5. ~(k < i)
    BY <1>1, <1>2, <2>2, <2>4, DatesGrow
  <2>6. k \in i..n
    BY <1>1, <1>2, <2>5
  <2> QED
    BY <2>1, <2>6
<1>6. ASSUME NEW k \in i..n PROVE \E e \in W : e.date = DateIn(k, dom)
  <2>1. k \in m..n /\ k \in Months /\ i <= k
    BY <1>1, <1>2
  <2>2. PICK e \in E : e.date = DateIn(k, dom)
    BY <2>1, SeriesHas
  <2>3. DateIn(i, dom) \in Nat /\ DateIn(k, dom) \in Nat
    BY <1>1, <1>2, <2>1, DateIs
  <2>4. ~(k < i)
    BY <1>1, <1>2, <2>1
  <2>5. ~(DateIn(k, dom) < DateIn(i, dom))
    BY <1>1, <1>2, <2>1, <2>4, DatesGrow
  <2>6. DateIn(i, dom) <= e.date
    BY <2>2, <2>3, <2>5
  <2> QED
    BY <1>3, <2>2, <2>6 DEF From
<1>7. {e.date : e \in W} = {DateIn(k, dom) : k \in i..n}
  BY <1>5, <1>6
<1>8. (\A e, f \in W : e.date = f.date => e = f) /\ \A e \in W : e.id \in Int
  BY <1>4 DEF Series
<1> QED
  BY <1>1, <1>2, <1>3, <1>7, <1>8 DEF Series

\* The month in which the last s events of a series begin.
Start(m, n, s) == IF n - s + 1 > m THEN n - s + 1 ELSE m

\* Later, in a series, is the event of a later month.
LEMMA SeriesOrder ==
  ASSUME NEW E, NEW m, NEW n, NEW dom, Series(E, m, n, dom), NEW e \in E, NEW f \in E,
         NEW j \in m..n, NEW k \in m..n, e.date = DateIn(j, dom), f.date = DateIn(k, dom)
  PROVE  Later(e, f) <=> j > k
<1>1. j \in Months /\ k \in Months /\ j \in Nat /\ k \in Nat /\ dom \in 1..28
  BY SeriesHas
<1>2. DateIn(j, dom) \in Nat /\ DateIn(k, dom) \in Nat
  BY <1>1, DateIs
<1>3. k < j <=> DateIn(k, dom) < DateIn(j, dom)
  BY <1>1, DatesGrow
<1>4. e.date = f.date => e = f /\ e.id \in Int
  BY DEF Series
<1> QED
  BY <1>1, <1>2, <1>3, <1>4 DEF Later

\* Of a series, the last s events are those from some month on.
LEMMA RecentIs ==
  ASSUME NEW E, NEW m, NEW n, NEW dom, Series(E, m, n, dom), NEW s \in Nat \ {0}
  PROVE  /\ Start(m, n, s) \in m..n
         /\ Recent(E, s) = From(E, DateIn(Start(m, n, s), dom))
         /\ Series(Recent(E, s), Start(m, n, s), n, dom)
         /\ Recent(E, s) \subseteq E
<1>1. m \in Nat /\ n \in Nat /\ m <= n /\ m..n \subseteq Months /\ dom \in 1..28
  BY SeriesHas
<1>2. PICK i \in m..n : i = Start(m, n, s) /\ \A k \in m..n : n - k < s <=> i <= k
  <2>0. PICK j \in Int : j = n - s + 1
    BY <1>1
  <2>1. PICK i \in Int : i = Start(m, n, s) /\ i = IF j > m THEN j ELSE m
    <3>1. Start(m, n, s) = IF j > m THEN j ELSE m
      BY <2>0 DEF Start
    <3>2. (IF j > m THEN j ELSE m) \in Int
      BY <1>1, <2>0
    <3> QED
      BY <3>1, <3>2
  <2>2. i \in m..n /\ \A k \in m..n : n - k < s <=> i <= k
    BY <1>1, <2>0, <2>1
  <2> QED
    BY <2>1, <2>2
<1>3. ASSUME NEW e \in E PROVE e \in Recent(E, s) <=> e \in From(E, DateIn(i, dom))
  <2>1. PICK k \in m..n : e.date = DateIn(k, dom)
    BY SeriesHas
  <2>2. PICK L : L = {f \in E : Later(f, e)}
    OBVIOUS
  <2>3. IsFiniteSet(L) /\ Cardinality(L) = n - k
    <3>1. CASE k = n
      <4>1. \A f \in E : ~Later(f, e)
        <5> SUFFICES ASSUME NEW f \in E PROVE ~Later(f, e)
          OBVIOUS
        <5>1. PICK j \in m..n : f.date = DateIn(j, dom)
          BY SeriesHas
        <5>2. ~(j > k)
          BY <1>1, <3>1
        <5> QED
          BY <2>1, <5>1, <5>2, SeriesOrder
      <4>2. L = {}
        BY <2>2, <4>1
      <4> QED
        BY <1>1, <3>1, <4>2, FS_EmptySet
    <3>2. CASE k # n
      <4>1. k + 1 \in m..n /\ k \in Nat
        BY <1>1, <3>2
      <4>2. L = From(E, DateIn(k + 1, dom))
        <5>1. ASSUME NEW f \in E PROVE Later(f, e) <=> DateIn(k + 1, dom) <= f.date
          <6>1. PICK j \in m..n : f.date = DateIn(j, dom)
            BY SeriesHas
          <6>2. Later(f, e) <=> j > k
            BY <2>1, <6>1, SeriesOrder
          <6>3. j \in Months /\ k + 1 \in Months /\ j \in Nat
            BY <1>1, <4>1
          <6>4. j < k + 1 <=> DateIn(j, dom) < DateIn(k + 1, dom)
            BY <1>1, <6>3, DatesGrow
          <6>5. DateIn(j, dom) \in Nat /\ DateIn(k + 1, dom) \in Nat
            BY <1>1, <6>3, DateIs
          <6> QED
            BY <4>1, <6>1, <6>2, <6>3, <6>4, <6>5
        <5> QED
          BY <2>2, <5>1 DEF From
      <4>3. Series(L, k + 1, n, dom)
        BY <4>1, <4>2, TailIsSeries
      <4> QED
        BY <4>1, <4>3, SeriesCount
    <3> QED
      BY <3>1, <3>2
  <2>4. e \in Recent(E, s) <=> n - k < s
    BY <2>2, <2>3 DEF Recent
  <2>5. i \in Months /\ k \in Months /\ i \in Nat /\ k \in Nat
    BY <1>1
  <2>6. k < i <=> DateIn(k, dom) < DateIn(i, dom)
    BY <1>1, <2>5, DatesGrow
  <2>7. DateIn(k, dom) \in Nat /\ DateIn(i, dom) \in Nat
    BY <1>1, <2>5, DateIs
  <2>8. i <= k <=> DateIn(i, dom) <= e.date
    BY <2>1, <2>5, <2>6, <2>7
  <2> QED
    BY <1>2, <2>4, <2>8 DEF From
<1>4. Recent(E, s) \subseteq E /\ From(E, DateIn(i, dom)) \subseteq E
  BY DEF Recent, From
<1>5. Recent(E, s) = From(E, DateIn(i, dom))
  BY <1>3, <1>4
<1> QED
  BY <1>2, <1>4, <1>5, TailIsSeries

\* The last and the first of a series are those of its last and first month.
LEMMA EndsOfSeries ==
  ASSUME NEW E, NEW m, NEW n, NEW dom, Series(E, m, n, dom)
  PROVE  /\ LastOf(E) \in E /\ LastOf(E).date = DateIn(n, dom)
         /\ FirstOf(E) \in E /\ FirstOf(E).date = DateIn(m, dom)
<1>1. m \in Nat /\ n \in Nat /\ m <= n /\ m \in m..n /\ n \in m..n
  BY SeriesHas
<1>2. PICK l \in E : l.date = DateIn(n, dom)
  BY <1>1, SeriesHas
<1>3. PICK b \in E : b.date = DateIn(m, dom)
  BY <1>1, SeriesHas
<1>4. ASSUME NEW f \in E
      PROVE  /\ ~Later(f, l) /\ ~Later(b, f)
             /\ ~Later(l, f) => f = l
             /\ ~Later(f, b) => f = b
  <2>1. PICK k \in m..n : f.date = DateIn(k, dom)
    BY SeriesHas
  <2>2. k = n => f = l
    BY <1>2, <2>1 DEF Series
  <2>3. k = m => f = b
    BY <1>3, <2>1 DEF Series
  <2>4. (Later(f, l) <=> k > n) /\ (Later(l, f) <=> n > k)
    BY <1>1, <1>2, <2>1, SeriesOrder
  <2>5. (Later(f, b) <=> k > m) /\ (Later(b, f) <=> m > k)
    BY <1>1, <1>3, <2>1, SeriesOrder
  <2> QED
    BY <1>1, <2>1, <2>2, <2>3, <2>4, <2>5
<1>5. ASSUME NEW e \in E, \A f \in E : ~Later(f, e) PROVE e = l
  BY <1>2, <1>4, <1>5
<1>6. ASSUME NEW e \in E, \A f \in E : ~Later(e, f) PROVE e = b
  BY <1>3, <1>4, <1>6
<1>7. LastOf(E) = l
  BY <1>2, <1>4, <1>5 DEF LastOf
<1>8. FirstOf(E) = b
  BY <1>3, <1>4, <1>6 DEF FirstOf
<1> QED
  BY <1>2, <1>3, <1>7, <1>8

\* The day of a series is the typical day of its events.
LEMMA DayOfSeries ==
  ASSUME NEW E, NEW m, NEW n, NEW dom, Series(E, m, n, dom)
  PROVE  OnDay(E, dom) = E /\ TypicalDay(E) = dom
<1>1. OnDay(E, dom) = E
  BY SeriesHas DEF OnDay
<1>2. Cardinality(E) \in Nat
  BY SeriesCount, FS_CardinalityType
<1>3. \A e \in E : DayOf(e.date) = dom
  BY SeriesHas
<1>4. PICK most : most = {e \in E : \A f \in E :
                            Cardinality(OnDay(E, DayOf(f.date))) <= Cardinality(OnDay(E, DayOf(e.date)))}
  OBVIOUS
<1>5. \A e, f \in E : Cardinality(OnDay(E, DayOf(f.date))) <= Cardinality(OnDay(E, DayOf(e.date)))
  BY <1>1, <1>2, <1>3
<1>6. most = E
  BY <1>4, <1>5
<1>7. TypicalDay(E) = DayOf(FirstOf(E).date)
  BY <1>4, <1>6 DEF TypicalDay
<1>8. FirstOf(E) \in E
  BY EndsOfSeries
<1> QED
  BY <1>1, <1>3, <1>7, <1>8

\* A series of two or more comes back every 28 to 31 days: what asks for a monthly bill
\* or pay finds one.
LEMMA SeriesIsMonthly ==
  ASSUME NEW E, NEW m, NEW n, NEW dom, Series(E, m, n, dom), m < n
  PROVE  /\ Cardinality(E) >= 2 /\ Span(E) > 0 /\ Span(E) \in Nat
         /\ MeanGapIn(E, 20, 40) /\ MeanGapIn(E, 25, 35) /\ PaidMonthly(E)
<1>1. /\ m \in Nat /\ n \in Nat /\ m..n \subseteq Months /\ dom \in 1..28
      /\ m \in m..n /\ n \in m..n
  BY SeriesHas
<1>2. Cardinality(E) = n - m + 1 /\ IsFiniteSet(E)
  BY SeriesCount
<1>3. PICK f : f = [e \in E |-> e.date]
  OBVIOUS
<1>4. PICK D : D = {f[e] : e \in E}
  OBVIOUS
<1>5. \A e \in E : f[e] \in Nat /\ \E k \in m..n : f[e] = DateIn(k, dom)
  BY <1>3, SeriesHas
<1>6. PICK a \in Nat, b \in Nat : a = DateIn(m, dom) /\ b = DateIn(n, dom)
  <2>1. m \in Months /\ n \in Months
    BY <1>1
  <2> QED
    BY <1>1, <2>1, DateIs
<1>7. a \in D /\ b \in D
  <2>1. \A k \in m..n : \E e \in E : f[e] = DateIn(k, dom)
    BY <1>3, SeriesHas
  <2> QED
    BY <1>1, <1>4, <1>6, <2>1
<1>8. IsFiniteSet(D) /\ D \in SUBSET Int /\ D # {}
  BY <1>2, <1>4, <1>5, <1>7, FiniteImage
<1>9. \A y \in D : a <= y /\ y <= b
  <2> SUFFICES ASSUME NEW y \in D PROVE a <= y /\ y <= b
    OBVIOUS
  <2>1. PICK k \in m..n : y = DateIn(k, dom)
    BY <1>4, <1>5
  <2>2. k \in Months /\ m \in Months /\ n \in Months /\ m <= k /\ k <= n /\ k \in Nat
    BY <1>1
  <2>3. y \in Nat
    BY <1>1, <2>1, <2>2, DateIs
  <2>4. k < m <=> y < a
    BY <1>1, <1>6, <2>1, <2>2, DatesGrow
  <2>5. n < k <=> b < y
    BY <1>1, <1>6, <2>1, <2>2, DatesGrow
  <2> QED
    BY <1>1, <1>6, <2>2, <2>3, <2>4, <2>5
<1>10. Min(D) = a /\ Max(D) = b
  <2>1. Min(D) \in D /\ Max(D) \in D /\ \A y \in D : Min(D) <= y /\ y <= Max(D)
    BY <1>8, Extremes
  <2>2. PICK low \in Int, high \in Int : low = Min(D) /\ high = Max(D)
    BY <1>8, <2>1
  <2>3. a <= low /\ high <= b /\ low <= a /\ b <= high
    BY <1>7, <1>9, <2>1, <2>2
  <2> QED
    BY <1>6, <2>2, <2>3
<1>11. {e.date : e \in E} = D
  BY <1>3, <1>4
<1>12. Span(E) = b - a
  BY <1>10, <1>11 DEF Span
<1>13. 28 * (n - m) <= b - a /\ b - a <= 31 * (n - m)
  <2>1. m \in Months /\ n \in Months /\ m <= n
    BY <1>1
  <2> QED
    BY <1>1, <1>6, <2>1, DatesGrow
<1>14. PICK g \in Nat \ {0} : g = n - m
  BY <1>1
<1>15. PICK s \in Int : s = Span(E) /\ 28 * g <= s /\ s <= 31 * g
  BY <1>6, <1>12, <1>13, <1>14
<1>16. Gaps(E) = g /\ Cardinality(E) >= 2
  BY <1>1, <1>2, <1>14 DEF Gaps
<1>17. MeanGapIn(E, 20, 40) /\ MeanGapIn(E, 25, 35)
  BY <1>14, <1>15, <1>16 DEF MeanGapIn
<1>18. PaidMonthly(E)
  BY <1>17 DEF PaidMonthly
<1>19. s > 0 /\ s \in Nat
  BY <1>14, <1>15
<1> QED
  BY <1>15, <1>16, <1>17, <1>18, <1>19

-----------------------------------------------------------------------------
(* Medians *)

\* Finitely many amounts; those less than one, and those not more.
Amounts(S) == IsFiniteSet(S) /\ \A e \in S : e.amount \in Nat
Below(S, a) == {e \in S : e.amount < a}
NoMore(S, a) == {e \in S : e.amount <= a}

\* What an amount at a rank of the sorted list is.
Ranked(S, k, a) ==
  /\ \E e \in S : e.amount = a
  /\ Cardinality(Below(S, a)) <= k /\ k < Cardinality(NoMore(S, a))

\* These are finite too, and more of them are not fewer.
LEMMA RanksCount ==
  ASSUME NEW S, Amounts(S), NEW a, NEW b
  PROVE  /\ IsFiniteSet(Below(S, a)) /\ Cardinality(Below(S, a)) \in Nat
         /\ IsFiniteSet(NoMore(S, a)) /\ Cardinality(NoMore(S, a)) \in Nat
         /\ NoMore(S, a) \subseteq Below(S, b) => Cardinality(NoMore(S, a)) <= Cardinality(Below(S, b))
<1>1. PICK A, B, C : A = Below(S, a) /\ B = NoMore(S, a) /\ C = Below(S, b)
  OBVIOUS
<1>2. A \in SUBSET S /\ B \in SUBSET S /\ C \in SUBSET S /\ IsFiniteSet(S)
  BY <1>1 DEF Below, NoMore, Amounts
<1>3. IsFiniteSet(A) /\ IsFiniteSet(B) /\ IsFiniteSet(C)
  BY <1>2, FS_Subset
<1>4. Cardinality(A) \in Nat /\ Cardinality(B) \in Nat
  BY <1>3, FS_CardinalityType
<1>5. B \subseteq C => Cardinality(B) <= Cardinality(C)
  BY <1>3, FS_Subset
<1> QED
  BY <1>1, <1>3, <1>4, <1>5

\* There is one amount at a rank, and AtRank is it.
LEMMA RankIs ==
  ASSUME NEW S, Amounts(S), NEW k \in Nat, NEW a, Ranked(S, k, a)
  PROVE  AtRank(S, k) = a
<1>1. \A b : Ranked(S, k, b) => b \in Nat
  BY DEF Ranked, Amounts
<1>2. ASSUME NEW b, NEW c, Ranked(S, k, b), Ranked(S, k, c), b < c PROVE FALSE
  <2>1. b \in Nat /\ c \in Nat
    BY <1>1, <1>2
  <2>2. NoMore(S, b) \subseteq Below(S, c)
    BY <1>2, <2>1 DEF NoMore, Below, Amounts
  <2>3. Cardinality(NoMore(S, b)) <= Cardinality(Below(S, c))
    BY <2>2, RanksCount
  <2>4. Cardinality(NoMore(S, b)) \in Nat /\ Cardinality(Below(S, c)) \in Nat
    BY RanksCount
  <2>5. k < Cardinality(NoMore(S, b)) /\ Cardinality(Below(S, c)) <= k
    BY <1>2 DEF Ranked
  <2> QED
    BY <2>3, <2>4, <2>5
<1>3. \A b : Ranked(S, k, b) => b = a
  <2> SUFFICES ASSUME NEW b, Ranked(S, k, b) PROVE b = a
    OBVIOUS
  <2>1. a \in Nat /\ b \in Nat
    BY <1>1
  <2>2. ~(a < b) /\ ~(b < a)
    BY <1>2
  <2> QED
    BY <2>1, <2>2
<1>4. PICK A : A = {e.amount : e \in S}
  OBVIOUS
<1>5. \A b : Ranked(S, k, b) <=> /\ b \in A
                                 /\ Cardinality({e \in S : e.amount < b}) <= k
                                 /\ k < Cardinality({e \in S : e.amount <= b})
  BY <1>4 DEF Ranked, Below, NoMore
<1>6. AtRank(S, k) = CHOOSE b \in A : /\ Cardinality({e \in S : e.amount < b}) <= k
                                      /\ k < Cardinality({e \in S : e.amount <= b})
  BY <1>4 DEF AtRank
<1>7. a \in A /\ Cardinality({e \in S : e.amount < a}) <= k /\ k < Cardinality({e \in S : e.amount <= a})
  BY <1>5
<1>8. \A b \in A : Cardinality({e \in S : e.amount < b}) <= k /\ k < Cardinality({e \in S : e.amount <= b})
                     => b = a
  <2> SUFFICES ASSUME NEW b \in A, Cardinality({e \in S : e.amount < b}) <= k,
                      k < Cardinality({e \in S : e.amount <= b})
               PROVE  b = a
    OBVIOUS
  <2>1. Ranked(S, k, b)
    BY <1>5
  <2> QED
    BY <1>3, <2>1
<1> QED
  BY <1>6, <1>7, <1>8

\* There is an amount at every rank below the number of amounts.
LEMMA AtRankIs ==
  ASSUME NEW S, Amounts(S), NEW k \in Nat, k < Cardinality(S)
  PROVE  Ranked(S, k, AtRank(S, k)) /\ AtRank(S, k) \in Nat
<1>1. PICK A : A = {a \in {e.amount : e \in S} : k < Cardinality(NoMore(S, a))}
  OBVIOUS
<1>2. PICK f : f = [e \in S |-> e.amount]
  OBVIOUS
<1>3. PICK T : T = {f[e] : e \in S}
  OBVIOUS
<1>4. T = {e.amount : e \in S} /\ T \in SUBSET Nat
  BY <1>2, <1>3 DEF Amounts
<1>5. IsFiniteSet(T) /\ T \in SUBSET Int
  BY <1>3, <1>4, FiniteImage DEF Amounts
<1>6. S # {}
  BY FS_EmptySet
<1>7. T # {}
  BY <1>3, <1>6
<1>8. Max(T) \in T /\ \A y \in T : Max(T) >= y
  BY <1>5, <1>7, Extremes
<1>9. PICK h \in T : \A y \in T : h >= y
  BY <1>8
<1>10. NoMore(S, h) = S
  BY <1>2, <1>3, <1>4, <1>9 DEF NoMore
<1>11. h \in A /\ A \in SUBSET Nat
  BY <1>1, <1>4, <1>10
<1>12. PICK a \in A : \A b \in A : a <= b
  BY <1>11, LeastNatural
<1>13. a \in Nat /\ (\E e \in S : e.amount = a) /\ k < Cardinality(NoMore(S, a))
  BY <1>1, <1>11, <1>12
<1>14. Cardinality(Below(S, a)) <= k
  <2>1. CASE Below(S, a) = {}
    BY <2>1, FS_EmptySet
  <2>2. CASE Below(S, a) # {}
    <3>1. PICK B : B = {y \in T : y < a}
      OBVIOUS
    <3>2. IsFiniteSet(B) /\ B \in SUBSET Int
      BY <1>5, <3>1, FS_Subset
    <3>3. B # {}
      BY <1>4, <2>2, <3>1 DEF Below
    <3>4. Max(B) \in B /\ \A y \in B : Max(B) >= y
      BY <3>2, <3>3, Extremes
    <3>5. PICK b \in B : \A y \in B : b >= y
      BY <3>4
    <3>6. b \in T /\ b \in Nat /\ b < a
      BY <1>4, <3>1
    <3>7. b \notin A
      BY <1>12, <1>13, <3>6
    <3>8. ~(k < Cardinality(NoMore(S, b)))
      BY <1>1, <1>4, <3>6, <3>7
    <3>9. Below(S, a) = NoMore(S, b)
      <4>1. ASSUME NEW e \in S PROVE e.amount < a <=> e.amount <= b
        <5>1. e.amount \in T /\ e.amount \in Nat
          BY <1>4
        <5>2. e.amount < a => b >= e.amount
          BY <3>1, <3>5, <5>1
        <5> QED
          BY <1>13, <3>6, <5>1, <5>2
      <4> QED
        BY <4>1 DEF Below, NoMore
    <3>10. Cardinality(NoMore(S, b)) \in Nat
      BY RanksCount
    <3> QED
      BY <3>8, <3>9, <3>10
  <2> QED
    BY <2>1, <2>2
<1>15. Ranked(S, k, a)
  BY <1>13, <1>14 DEF Ranked
<1>16. AtRank(S, k) = a
  BY <1>15, RankIs
<1> QED
  BY <1>13, <1>15, <1>16

\* Half of a number, rounded down.
LEMMA Halves ==
  ASSUME NEW n \in Nat
  PROVE  /\ n \div 2 \in Nat /\ n # 0 => n \div 2 < n
         /\ (n + 1) \div 2 <= n \div 2 + 1 /\ n \div 2 <= (n + 1) \div 2
         /\ n % 2 # 1 /\ n # 0 => n \div 2 - 1 \in Nat /\ n \div 2 - 1 < n
OBVIOUS

\* The upper median of some amounts is one of them, at the middle rank.
LEMMA MedianIs ==
  ASSUME NEW W, Amounts(W), W # {}
  PROVE  /\ Cardinality(W) \in Nat \ {0}
         /\ Ranked(W, Cardinality(W) \div 2, UpperMedian(W))
         /\ UpperMedian(W) \in Nat /\ \E e \in W : e.amount = UpperMedian(W)
<1>1. PICK n : n = Cardinality(W)
  OBVIOUS
<1>2. n \in Nat /\ n # 0
  BY <1>1, FS_CardinalityType, FS_EmptySet DEF Amounts
<1>3. n \div 2 \in Nat /\ n \div 2 < n
  BY <1>2, Halves
<1>4. Ranked(W, n \div 2, AtRank(W, n \div 2)) /\ AtRank(W, n \div 2) \in Nat
  BY <1>1, <1>3, AtRankIs
<1>5. UpperMedian(W) = AtRank(W, n \div 2)
  BY <1>1 DEF UpperMedian
<1> QED
  BY <1>1, <1>2, <1>4, <1>5 DEF Ranked

\* The median of amounts, paid once more, is still the median: whether the list grows
\* by it or an amount goes for it, as the oldest of the window does.
LEMMA MedianStays ==
  ASSUME NEW W, Amounts(W), W # {}, NEW x, x \notin W, x.amount = UpperMedian(W)
  PROVE  /\ UpperMedian(W \union {x}) = UpperMedian(W)
         /\ \A y \in W : UpperMedian((W \ {y}) \union {x}) = UpperMedian(W)
<1>1. PICK n, a : n = Cardinality(W) /\ a = UpperMedian(W)
  OBVIOUS
<1>2. n \in Nat \ {0} /\ a \in Nat /\ Ranked(W, n \div 2, a) /\ x.amount = a
  BY <1>1, MedianIs
<1>3. PICK k \in Nat : k = n \div 2
  BY <1>2, Halves
<1>4. PICK B, L : B = Below(W, a) /\ L = NoMore(W, a)
  OBVIOUS
<1>5. /\ IsFiniteSet(B) /\ IsFiniteSet(L) /\ Cardinality(B) \in Nat /\ Cardinality(L) \in Nat
      /\ Cardinality(B) <= k /\ k < Cardinality(L)
  BY <1>2, <1>3, <1>4, RanksCount DEF Ranked
<1>6. UpperMedian(W \union {x}) = a
  <2>1. PICK V : V = W \union {x}
    OBVIOUS
  <2>2. IsFiniteSet(V) /\ Cardinality(V) = n + 1
    BY <1>1, <2>1, FS_AddElement DEF Amounts
  <2>3. Amounts(V)
    BY <1>2, <2>1, <2>2 DEF Amounts
  <2>4. Below(V, a) = B
    BY <1>2, <1>4, <2>1 DEF Below
  <2>5. NoMore(V, a) = L \union {x}
    BY <1>2, <1>4, <2>1 DEF NoMore
  <2>6. x \notin L
    BY <1>4 DEF NoMore
  <2>7. Cardinality(L \union {x}) = Cardinality(L) + 1
    BY <1>5, <2>6, FS_AddElement
  <2>8. PICK j \in Nat : j = (n + 1) \div 2 /\ k <= j /\ j <= k + 1
    BY <1>2, <1>3, Halves
  <2>9. Cardinality(B) <= j /\ j < Cardinality(L) + 1
    BY <1>5, <2>8
  <2>10. Ranked(V, j, a)
    BY <1>2, <2>1, <2>4, <2>5, <2>7, <2>9 DEF Ranked
  <2>11. AtRank(V, j) = a
    BY <2>3, <2>10, RankIs
  <2> QED
    BY <2>1, <2>2, <2>8, <2>11 DEF UpperMedian
<1>7. ASSUME NEW y \in W PROVE UpperMedian((W \ {y}) \union {x}) = a
  <2>1. PICK U, V : U = W \ {y} /\ V = U \union {x}
    OBVIOUS
  <2>2. IsFiniteSet(U) /\ Cardinality(U) = n - 1
    BY <1>1, <2>1, OneLess DEF Amounts
  <2>3. IsFiniteSet(V) /\ Cardinality(V) = n
    <3>1. IsFiniteSet(V) /\ Cardinality(V) = (n - 1) + 1
      BY <2>1, <2>2, FS_AddElement
    <3> QED
      BY <1>2, <3>1
  <2>4. Amounts(V)
    BY <1>2, <2>1, <2>3 DEF Amounts
  <2>5. Below(V, a) \in SUBSET B
    BY <1>2, <1>4, <2>1 DEF Below
  <2>6. Cardinality(Below(V, a)) <= Cardinality(B)
    BY <1>5, <2>5, FS_Subset
  <2>7. PICK M : M = L \ {y}
    OBVIOUS
  <2>8. NoMore(V, a) = M \union {x} /\ x \notin M
    BY <1>2, <1>4, <2>1, <2>7 DEF NoMore
  <2>9. IsFiniteSet(M) /\ Cardinality(M) >= Cardinality(L) - 1 /\ Cardinality(M) \in Int
    <3>1. IsFiniteSet(M) /\ Cardinality(M) = IF y \in L THEN Cardinality(L) - 1 ELSE Cardinality(L)
      BY <1>5, <2>7, FS_RemoveElement
    <3> QED
      BY <1>5, <3>1
  <2>10. Cardinality(NoMore(V, a)) = Cardinality(M) + 1
    BY <2>8, <2>9, FS_AddElement
  <2>11. Cardinality(Below(V, a)) \in Nat
    BY <2>4, RanksCount
  <2>12. Cardinality(Below(V, a)) <= k /\ k < Cardinality(NoMore(V, a))
    BY <1>5, <2>6, <2>9, <2>10, <2>11
  <2>13. Ranked(V, k, a)
    BY <1>2, <2>1, <2>12 DEF Ranked
  <2>14. AtRank(V, k) = a
    BY <2>4, <2>13, RankIs
  <2> QED
    BY <1>3, <2>1, <2>3, <2>14 DEF UpperMedian
<1> QED
  BY <1>1, <1>6, <1>7

\* Of amounts that are all the same, every median is that amount.
LEMMA EqualAmounts ==
  ASSUME NEW W, Amounts(W), W # {}, NEW a, \A e \in W : e.amount = a
  PROVE  UpperMedian(W) = a /\ Median(W) = a
<1>1. UpperMedian(W) = a /\ a \in Nat
  BY MedianIs
<1>2. PICK n \in Nat : n = Cardinality(W) /\ n # 0
  BY MedianIs
<1>3. \A k \in Nat : k < n => AtRank(W, k) = a
  <2> SUFFICES ASSUME NEW k \in Nat, k < n PROVE AtRank(W, k) = a
    OBVIOUS
  <2>1. Ranked(W, k, AtRank(W, k))
    BY <1>2, AtRankIs
  <2> QED
    BY <2>1 DEF Ranked
<1>4. CASE n % 2 = 1
  <2>1. Median(W) = AtRank(W, n \div 2)
    BY <1>2, <1>4 DEF Median
  <2> QED
    BY <1>1, <1>2, <1>3, <2>1, Halves
<1>5. CASE n % 2 # 1
  <2>1. PICK j \in Nat, k \in Nat : k = n \div 2 /\ j = k - 1 /\ j < n /\ k < n
    BY <1>2, <1>5, Halves
  <2>2. Median(W) = (AtRank(W, j) + AtRank(W, k)) \div 2
    BY <1>2, <1>5, <2>1 DEF Median
  <2>3. AtRank(W, j) = a /\ AtRank(W, k) = a
    BY <1>3, <2>1
  <2>4. (a + a) \div 2 = a
    BY <1>1
  <2> QED
    BY <1>1, <2>2, <2>3, <2>4
<1> QED
  BY <1>1, <1>4, <1>5

\* A series with an event in the next month is a series.
LEMMA SeriesExtended ==
  ASSUME NEW E, NEW m, NEW n, NEW dom, Series(E, m, n, dom), n + 1 \in Months,
         NEW x, x.date = DateIn(n + 1, dom), x.id \in Int
  PROVE  Series(E \union {x}, m, n + 1, dom) /\ x \notin E
<1>1. m \in Nat /\ n \in Nat /\ m <= n /\ m..n \subseteq Months /\ dom \in 1..28 /\ n \in m..n
  BY SeriesHas
<1>2. PICK V : V = E \union {x}
  OBVIOUS
<1>3. \A e \in E : e.date # x.date
  <2> SUFFICES ASSUME NEW e \in E PROVE e.date # x.date
    OBVIOUS
  <2>1. PICK k \in m..n : e.date = DateIn(k, dom)
    BY SeriesHas
  <2>2. k \in Months /\ k # n + 1
    BY <1>1
  <2> QED
    BY <1>1, <2>1, <2>2, DatesGrow
<1>4. ASSUME NEW e \in V PROVE \E k \in m..(n + 1) : e.date = DateIn(k, dom)
  <2>1. CASE e = x
    <3>1. n + 1 \in m..(n + 1)
      BY <1>1
    <3> QED
      BY <2>1, <3>1
  <2>2. CASE e \in E
    <3>1. PICK k \in m..n : e.date = DateIn(k, dom)
      BY <2>2, SeriesHas
    <3>2. k \in m..(n + 1)
      BY <1>1
    <3> QED
      BY <3>1, <3>2
  <2> QED
    BY <1>2, <2>1, <2>2
<1>5. ASSUME NEW k \in m..(n + 1) PROVE \E e \in V : e.date = DateIn(k, dom)
  <2>1. k \in m..n \/ k = n + 1
    BY <1>1
  <2>2. CASE k \in m..n
    BY <1>2, <2>2, SeriesHas
  <2> QED
    BY <1>2, <2>1, <2>2
<1>6. {e.date : e \in V} = {DateIn(k, dom) : k \in m..(n + 1)}
  BY <1>4, <1>5
<1>7. (\A e, f \in V : e.date = f.date => e = f) /\ \A e \in V : e.id \in Int
  BY <1>2, <1>3 DEF Series
<1>8. m \in Months /\ n + 1 \in Months /\ m <= n + 1
  BY <1>1
<1> QED
  BY <1>1, <1>2, <1>3, <1>6, <1>7, <1>8 DEF Series

\* What is projected is the median of the last six; after it is paid, it still is.
LEMMA WindowMedianStays ==
  ASSUME NEW E, NEW m, NEW n, NEW dom, Series(E, m, n, dom), n + 1 \in Months, Amounts(E),
         NEW x, x.date = DateIn(n + 1, dom), x.id \in Int, x.amount = UpperMedian(Recent(E, Window))
  PROVE  UpperMedian(Recent(E \union {x}, Window)) = UpperMedian(Recent(E, Window))
<1>1. m \in Nat /\ n \in Nat /\ m <= n /\ m..n \subseteq Months /\ dom \in 1..28
  BY SeriesHas
<1>2. PICK V, W : V = E \union {x} /\ W = Recent(E, Window)
  OBVIOUS
<1>3. Series(V, m, n + 1, dom) /\ x \notin E
  BY <1>2, SeriesExtended
<1>4. Window \in Nat \ {0} /\ Window = 6
  BY DEF Window
<1>5. PICK i \in m..n, j \in m..(n + 1) :
        /\ i = Start(m, n, Window) /\ j = Start(m, n + 1, Window)
        /\ W = From(E, DateIn(i, dom)) /\ Recent(V, Window) = From(V, DateIn(j, dom))
        /\ Series(W, i, n, dom)
  <2>1. Start(m, n, Window) \in m..n /\ W = From(E, DateIn(Start(m, n, Window), dom))
        /\ Series(W, Start(m, n, Window), n, dom)
    BY <1>2, <1>4, RecentIs
  <2>2. Start(m, n + 1, Window) \in m..(n + 1) /\ Recent(V, Window) = From(V, DateIn(Start(m, n + 1, Window), dom))
    BY <1>3, <1>4, RecentIs
  <2> QED
    BY <2>1, <2>2
<1>6. j = i \/ j = i + 1
  <2>1. i = IF n - 6 + 1 > m THEN n - 6 + 1 ELSE m
    BY <1>4, <1>5 DEF Start
  <2>2. j = IF (n + 1) - 6 + 1 > m THEN (n + 1) - 6 + 1 ELSE m
    BY <1>4, <1>5 DEF Start
  <2> QED
    BY <1>1, <2>1, <2>2
<1>7. i \in Months /\ i \in Nat /\ DateIn(i, dom) \in Nat /\ i \in i..n /\ j \in Months /\ DateIn(j, dom) \in Nat
  <2>1. i \in Months /\ i \in Nat /\ j \in Months /\ i \in i..n
    <3>1. j \in m..n \/ j = n + 1
      BY <1>1
    <3> QED
      BY <1>1, <3>1
  <2> QED
    BY <1>1, <2>1, DateIs
<1>8. x \notin W /\ W \subseteq E /\ W # {} /\ Amounts(W)
  <2>1. W \subseteq E
    BY <1>5 DEF From
  <2>2. IsFiniteSet(W)
    BY <1>5, SeriesCount
  <2>3. PICK e \in W : e.date = DateIn(i, dom)
    BY <1>5, <1>7, SeriesHas
  <2> QED
    BY <1>3, <2>1, <2>2, <2>3 DEF Amounts
<1>9. x \in From(V, DateIn(j, dom))
  <2>1. DateIn(n + 1, dom) \in Nat /\ n + 1 \in Nat
    BY <1>1, DateIs
  <2>2. ~(n + 1 < j)
    BY <1>1
  <2>3. ~(DateIn(n + 1, dom) < DateIn(j, dom))
    BY <1>1, <1>7, <2>2, DatesGrow
  <2>4. DateIn(j, dom) <= x.date
    BY <1>7, <2>1, <2>3
  <2> QED
    BY <1>2, <2>4 DEF From
<1>12. x.amount = UpperMedian(W)
  BY <1>2
<1>10. CASE j = i
  <2>1. From(V, DateIn(j, dom)) = W \union {x}
    BY <1>2, <1>5, <1>9, <1>10 DEF From
  <2>2. UpperMedian(W \union {x}) = UpperMedian(W)
    BY <1>8, <1>12, MedianStays
  <2> QED
    BY <1>2, <1>5, <2>1, <2>2
<1>11. CASE j = i + 1
  <2>1. PICK y \in W : y.date = DateIn(i, dom)
    BY <1>5, <1>7, SeriesHas
  <2>2. ASSUME NEW e \in E PROVE DateIn(j, dom) <= e.date <=> e \in W \ {y}
    <3>1. PICK k \in m..n : e.date = DateIn(k, dom)
      BY SeriesHas
    <3>2. k \in Months /\ k \in Nat /\ DateIn(k, dom) \in Nat
      BY <1>1, DateIs
    <3>3. (k < i <=> DateIn(k, dom) < DateIn(i, dom)) /\ (k < j <=> DateIn(k, dom) < DateIn(j, dom))
      BY <1>1, <1>7, <3>2, DatesGrow
    <3>4. e \in W <=> i <= k
      BY <1>5, <1>7, <3>1, <3>2, <3>3 DEF From
    <3>5. e = y <=> k = i
      <4>1. k = i <=> DateIn(k, dom) = DateIn(i, dom)
        BY <1>1, <1>7, <3>2, DatesGrow
      <4>2. e.date = y.date => e = y
        BY <1>8, <2>1 DEF Series
      <4> QED
        BY <2>1, <3>1, <4>1, <4>2
    <3> QED
      BY <1>7, <1>11, <3>1, <3>2, <3>3, <3>4, <3>5
  <2>3. From(V, DateIn(j, dom)) = (W \ {y}) \union {x}
    BY <1>2, <1>8, <1>9, <2>2 DEF From
  <2>4. UpperMedian((W \ {y}) \union {x}) = UpperMedian(W)
    BY <1>8, <1>12, MedianStays
  <2> QED
    BY <1>2, <1>5, <2>3, <2>4
<1> QED
  BY <1>6, <1>10, <1>11

-----------------------------------------------------------------------------
(* What is projected from a habit *)

\* Settled every month until day u, and due next after it.
Habit(E, m, n, dom, u, direction) ==
  /\ Series(E, m, n, dom) /\ m < n
  /\ DateIn(n, dom) <= u /\ \A k \in Months : n < k => u < DateIn(k, dom)
  /\ \A e \in E : /\ e.amount \in Nat \ {0} /\ e.words = "plain"
                  /\ e.direction = direction /\ e.status = "settled"

\* What is projected of a series of amounts.
Worth(E) == UpperMedian(Recent(E, Window))

\* The cash types of what has settled.
LEMMA SettledTypes ==
  ASSUME NEW e, e.status = "settled"
  PROVE  /\ e.direction = "debit" => CashType(e) = "IMMEDIATE_DEBIT"
         /\ e.direction = "credit" => CashType(e) = "SETTLED_INCOME"
BY DEF CashType

\* The window of a habit is a series of two or more.
LEMMA HabitHas ==
  ASSUME NEW E, NEW m, NEW n, NEW dom, NEW u \in Nat, NEW direction, Habit(E, m, n, dom, u, direction)
  PROVE  /\ Amounts(E) /\ E # {} /\ Cardinality(E) >= 2
         /\ \A e \in E : e.date \in Nat /\ e.date <= u
         /\ Amounts(Recent(E, Window)) /\ Recent(E, Window) # {} /\ Recent(E, Window) \subseteq E
         /\ Worth(E) \in Nat \ {0}
         /\ \E i \in m..n : i < n /\ Series(Recent(E, Window), i, n, dom)
<1>1. Series(E, m, n, dom) /\ m < n
  BY DEF Habit
<1>2. m \in Nat /\ n \in Nat /\ m..n \subseteq Months /\ dom \in 1..28
  BY <1>1, SeriesHas
<1>3. IsFiniteSet(E) /\ Cardinality(E) >= 2
  BY <1>1, SeriesCount, SeriesIsMonthly
<1>4. Amounts(E) /\ E # {}
  BY <1>3, FS_EmptySet DEF Amounts, Habit
<1>5. Window \in Nat \ {0} /\ Window = 6
  BY DEF Window
<1>6. PICK i \in m..n : /\ i = Start(m, n, Window) /\ Series(Recent(E, Window), i, n, dom)
                        /\ Recent(E, Window) \subseteq E
  BY <1>1, <1>5, RecentIs
<1>7. i < n
  BY <1>1, <1>2, <1>5, <1>6 DEF Start
<1>8. Recent(E, Window) # {}
  BY <1>2, <1>6, SeriesHas
<1>9. Amounts(Recent(E, Window))
  BY <1>4, <1>6, SeriesCount DEF Amounts
<1>10. Worth(E) \in Nat \ {0}
  <2>1. \E e \in Recent(E, Window) : e.amount = Worth(E)
    BY <1>8, <1>9, MedianIs DEF Worth
  <2> QED
    BY <1>6, <2>1 DEF Habit
<1>11. \A e \in E : e.date \in Nat /\ e.date <= u
  <2> SUFFICES ASSUME NEW e \in E PROVE e.date \in Nat /\ e.date <= u
    OBVIOUS
  <2>1. PICK k \in m..n : e.date = DateIn(k, dom)
    BY <1>1, SeriesHas
  <2>2. k \in Months /\ n \in Months /\ DateIn(n, dom) <= u
    BY <1>2 DEF Habit
  <2>3. DateIn(k, dom) \in Nat /\ DateIn(n, dom) \in Nat
    BY <1>2, <2>2, DateIs
  <2>4. ~(n < k)
    BY <1>2
  <2>5. ~(DateIn(n, dom) < DateIn(k, dom))
    BY <1>2, <2>2, <2>4, DatesGrow
  <2> QED
    BY <2>1, <2>2, <2>3, <2>5
<1> QED
  BY <1>3, <1>4, <1>6, <1>7, <1>8, <1>9, <1>10, <1>11

\* On a day at which nothing more of a habit was due, what comes is what the projections
\* from the month of the day, and from the month after the last event, find ahead.
LEMMA HabitAhead ==
  ASSUME NEW E, NEW m, NEW n, NEW dom, NEW u \in Nat, NEW direction, Habit(E, m, n, dom, u, direction),
         NEW t \in Date, u <= t
  PROVE  /\ Ahead(MonthlyFrom(MonthOf[t], dom), t) = Coming(dom, t, t + Horizon)
         /\ Ahead(MonthlyFrom(n + 1, dom), t) = Coming(dom, t, t + Horizon)
         /\ u = t => FromToday(MonthlyFrom(n + 1, dom), t) = Coming(dom, t, t + Horizon)
<1>1. m \in Nat /\ n \in Nat /\ n \in m..n /\ m..n \subseteq Months /\ dom \in 1..28 /\ t \in Nat
  <2>1. Series(E, m, n, dom) /\ m < n
    BY DEF Habit
  <2>2. m \in Nat /\ n \in Nat /\ m..n \subseteq Months /\ dom \in 1..28
    BY <2>1, SeriesHas
  <2> QED
    BY <2>1, <2>2, DatesAreNumbers
<1>2. PICK M \in Months : M = MonthOf[t] /\ Eve[M] < t
  BY MonthIs
<1>3. M \in Nat
  BY MonthsAre
<1>4. \A k \in Months : k < M => DateIn(k, dom) <= t
  <2> SUFFICES ASSUME NEW k \in Months, k < M PROVE DateIn(k, dom) <= t
    OBVIOUS
  <2>1. k \in Nat /\ k <= M
    BY <1>3, MonthsAre
  <2>2. 28 * (M - k) <= Eve[M] - Eve[k] /\ Eve[M] \in Nat /\ Eve[k] \in Nat
    BY <2>1, EveGrows
  <2>3. DateIn(k, dom) = Eve[k] + dom
    BY <1>1, DateIs
  <2> QED
    BY <1>1, <1>2, <1>3, <2>1, <2>2, <2>3
<1>5. \A k \in Months : k < n + 1 => DateIn(k, dom) <= t
  <2> SUFFICES ASSUME NEW k \in Months, k < n + 1 PROVE DateIn(k, dom) <= t
    OBVIOUS
  <2>1. k \in Nat /\ n \in Months
    BY <1>1, MonthsAre
  <2>2. DateIn(k, dom) \in Nat /\ DateIn(n, dom) \in Nat /\ DateIn(n, dom) <= u
    BY <1>1, <2>1, DateIs DEF Habit
  <2>3. ~(n < k)
    BY <1>1, <2>1
  <2>4. ~(DateIn(n, dom) < DateIn(k, dom))
    BY <1>1, <2>1, <2>3, DatesGrow
  <2> QED
    BY <1>1, <2>2, <2>4
<1>6. \A k \in Months : n + 1 <= k => u < DateIn(k, dom)
  <2> SUFFICES ASSUME NEW k \in Months, n + 1 <= k PROVE u < DateIn(k, dom)
    OBVIOUS
  <2>1. k \in Nat
    BY MonthsAre
  <2>2. n < k
    BY <1>1, <2>1
  <2> QED
    BY <2>2 DEF Habit
<1>7. n + 1 \in Int /\ M \in Int
  BY <1>1, <1>3
<1>8. Ahead(MonthlyFrom(M, dom), t) = Coming(dom, t, t + Horizon)
  BY <1>1, <1>4, <1>7, ComingAhead
<1>9. Ahead(MonthlyFrom(n + 1, dom), t) = Coming(dom, t, t + Horizon)
  BY <1>1, <1>5, <1>7, ComingAhead
<1>10. u = t => FromToday(MonthlyFrom(n + 1, dom), t) = Coming(dom, t, t + Horizon)
  <2> SUFFICES ASSUME u = t PROVE FromToday(MonthlyFrom(n + 1, dom), t) = Coming(dom, t, t + Horizon)
    OBVIOUS
  <2>1. \A k \in Months : n + 1 <= k => t < DateIn(k, dom)
    BY <1>6
  <2> QED
    BY <1>1, <1>5, <1>7, <2>1, ComingAhead
<1> QED
  BY <1>2, <1>8, <1>9, <1>10

\* The engine's projection of a bill.
LEMMA EngineBill ==
  ASSUME NEW R, NEW c, NEW m, NEW n, NEW dom, NEW u \in Nat, Habit(Of(R, c), m, n, dom, u, "debit"),
         NEW t \in Date, u <= t
  PROVE  FixedItems(R, c, t) =
           ItemsOn(LastOf(Recent(Of(R, c), Window)), Coming(dom, t, t + Horizon), Worth(Of(R, c)))
<1>1. PICK E, w : E = Of(R, c) /\ w = Recent(E, Window)
  OBVIOUS
<1>2. PICK i \in m..n : i < n /\ Series(w, i, n, dom)
  BY <1>1, HabitHas
<1>3. Cardinality(w) >= 2 /\ MeanGapIn(w, 20, 40) /\ TypicalDay(w) = dom
  BY <1>2, SeriesIsMonthly, DayOfSeries
<1>4. Paid(R, c, t) = E
  <2>1. \A e \in E : e.date \in Nat /\ e.date <= u
    BY <1>1, HabitHas
  <2>2. t \in Nat
    BY DatesAreNumbers
  <2>3. \A e \in E : e.date <= t
    BY <2>1, <2>2
  <2>4. \A e \in E : e.status = "settled" /\ CashType(e) = "IMMEDIATE_DEBIT"
    BY <1>1, SettledTypes DEF Habit
  <2> QED
    BY <1>1, <2>3, <2>4 DEF Paid, Of
<1>5. Ahead(MonthlyFrom(MonthOf[t], dom), t) = Coming(dom, t, t + Horizon)
  BY HabitAhead
<1>6. Cardinality(w) \in Nat
  BY <1>2, SeriesCount, FS_CardinalityType
<1> QED
  BY <1>1, <1>3, <1>4, <1>5, <1>6 DEF FixedItems, ItemsOn, Worth

\* The engine's projection of pay.
LEMMA EngineSalary ==
  ASSUME NEW R, NEW m, NEW n, NEW dom, NEW u \in Nat, Habit(Of(R, "salary"), m, n, dom, u, "credit"),
         NEW t \in Date, u <= t
  PROVE  SalaryItems(R, t) = PayOn(Coming(dom, t, t + Horizon), Worth(Of(R, "salary")))
<1>1. PICK E, w : E = Of(R, "salary") /\ w = Recent(E, Window)
  OBVIOUS
<1>2. PICK i \in m..n : i < n /\ Series(w, i, n, dom)
  BY <1>1, HabitHas
<1>3. Span(w) > 0 /\ Span(w) \in Nat /\ PaidMonthly(w) /\ TypicalDay(w) = dom
  BY <1>2, SeriesIsMonthly, DayOfSeries
<1>4. \A e \in E : CashType(e) = "SETTLED_INCOME" /\ e.amount > 0 /\ e.words = "plain"
  BY <1>1, SettledTypes DEF Habit
<1>5. Salaries(R) = E
  <2>1. "plain" \notin Irregular
    BY DEF Irregular
  <2> QED
    BY <1>1, <1>4, <2>1 DEF Salaries, Of
<1>6. Announced(E) = {}
  BY <1>4 DEF Announced
<1>7. TypicalSalary(E) = Worth(E)
  BY <1>6 DEF TypicalSalary, Worth
<1>8. Series(E, m, n, dom)
  BY <1>1 DEF Habit
<1>9. LastOf(E) \in E /\ LastOf(E).date = DateIn(n, dom)
  BY <1>8, EndsOfSeries
<1>10. LastOf(E).words \notin Ending
  BY <1>4, <1>9 DEF Ending
<1>11. MonthOf[LastOf(E).date] = n
  BY <1>8, <1>9, DateIs DEF Series
<1>12. Ahead(MonthlyFrom(n + 1, dom), t) = Coming(dom, t, t + Horizon)
  BY HabitAhead
<1>13. Cardinality(E) >= 2 /\ Cardinality(E) \in Nat
  BY <1>1, HabitHas, FS_CardinalityType DEF Amounts
<1> QED
  BY <1>1, <1>3, <1>5, <1>7, <1>10, <1>11, <1>12, <1>13 DEF SalaryItems, PayOn

\* The batch program's projection of a bill that is the same every time.
LEMMA BatchBill ==
  ASSUME NEW R, NEW c, NEW m, NEW n, NEW dom, NEW t \in Date, Habit(Of(R, c), m, n, dom, t, "debit"),
         \A e, f \in Of(R, c) : e.amount = f.amount
  PROVE  BatchFixedItems(R, c, t) =
           ItemsOn(LastOf(Of(R, c)), Coming(dom, t, t + Horizon), Worth(Of(R, c)))
<1>0. t \in Nat
  BY DatesAreNumbers
<1>1. PICK E, w : E = Of(R, c) /\ w = Recent(E, Window)
  OBVIOUS
<1>2. PICK i \in m..n : i < n /\ Series(w, i, n, dom)
  BY <1>0, <1>1, HabitHas
<1>3. MeanGapIn(w, 25, 35) /\ TypicalDay(w) = dom
  BY <1>2, SeriesIsMonthly, DayOfSeries
<1>4. Spent(R, c, t) = E
  <2>1. \A e \in E : e.date <= t
    BY <1>0, <1>1, HabitHas
  <2>2. \A e \in E : e.direction = "debit" /\ CashType(e) = "IMMEDIATE_DEBIT" /\ e.amount > 0
    BY <1>1, SettledTypes DEF Habit
  <2> QED
    BY <1>1, <2>1, <2>2 DEF Spent, Of
<1>5. Median(w) = Worth(E)
  <2>1. Amounts(w) /\ w # {} /\ w \subseteq E
    BY <1>0, <1>1, HabitHas
  <2>2. PICK x \in w : TRUE
    BY <2>1
  <2>3. \A e \in w : e.amount = x.amount
    BY <1>1, <2>1
  <2>4. UpperMedian(w) = x.amount /\ Median(w) = x.amount
    BY <2>1, <2>3, EqualAmounts
  <2> QED
    BY <1>1, <2>4 DEF Worth
<1>6. Series(E, m, n, dom)
  BY <1>1 DEF Habit
<1>7. LastOf(E).date = DateIn(n, dom)
  BY <1>6, EndsOfSeries
<1>8. MonthOf[LastOf(E).date] = n
  BY <1>6, <1>7, DateIs DEF Series
<1>9. FromToday(MonthlyFrom(n + 1, dom), t) = Coming(dom, t, t + Horizon)
  BY <1>0, HabitAhead
<1>10. E # {} /\ Cardinality(E) # 1
  <2>1. E # {} /\ Cardinality(E) >= 2
    BY <1>0, <1>1, HabitHas
  <2> QED
    BY <2>1
<1> QED
  BY <1>1, <1>3, <1>4, <1>5, <1>8, <1>9, <1>10 DEF BatchFixedItems, ItemsOn

\* Without messages no salary ends, none is amended, and no day is named.
LEMMA NoMessages ==
  /\ \A R : SalaryEnded(R, <<>>) <=>
       LET S == {e \in R : e.category = "salary" /\ CashType(e) \in {"IMMEDIATE_DEBIT", "SETTLED_INCOME"}}
       IN  S # {} /\ Latest(S).words \in Ending
  /\ NamedDay(<<>>) = NoDate /\ Range(<<>>) = {}
  /\ \A items : AmendedPay(items, <<>>) = items /\ AmendedRent(items, <<>>) = items
<1>1. DOMAIN <<>> = {}
  OBVIOUS
<1>2. Range(<<>>) = {}
  BY <1>1 DEF Range
<1>3. NamedDay(<<>>) = NoDate /\ \A items : AmendedPay(items, <<>>) = items
  BY <1>1 DEF NamedDay, AmendedPay
<1>4. \A R : SalaryEnded(R, <<>>) <=>
       LET S == {e \in R : e.category = "salary" /\ CashType(e) \in {"IMMEDIATE_DEBIT", "SETTLED_INCOME"}}
       IN  S # {} /\ Latest(S).words \in Ending
  BY <1>2 DEF SalaryEnded
<1> QED
  BY <1>2, <1>3, <1>4, NothingAmended

\* The batch program's projection of pay that is the same every time, on which it relies.
LEMMA BatchSalary ==
  ASSUME NEW R, NEW m, NEW n, NEW dom, NEW t \in Date, Habit(Of(R, "salary"), m, n, dom, t, "credit"),
         \A e, f \in Of(R, "salary") : e.amount = f.amount, NEW filtered \in BOOLEAN
  PROVE  BatchSalaryItems(R, t, <<>>, filtered) = PayOn(Coming(dom, t, t + Horizon), Worth(Of(R, "salary")))
<1>0. t \in Nat
  BY DatesAreNumbers
<1>1. PICK E, w : E = Of(R, "salary") /\ w = Recent(E, Window)
  OBVIOUS
<1>2. PICK i \in m..n : i < n /\ Series(w, i, n, dom)
  BY <1>0, <1>1, HabitHas
<1>3. Span(w) > 0 /\ Span(w) \in Nat /\ PaidMonthly(w) /\ TypicalDay(w) = dom
  BY <1>2, SeriesIsMonthly, DayOfSeries
<1>4. \A e \in E : CashType(e) = "SETTLED_INCOME" /\ e.amount > 0 /\ e.words = "plain"
  BY <1>1, SettledTypes DEF Habit
<1>5. Salaries(R) = E
  <2>1. "plain" \notin Irregular
    BY DEF Irregular
  <2> QED
    BY <1>1, <1>4, <2>1 DEF Salaries, Of
<1>6. Announced(E) = {}
  BY <1>4 DEF Announced
<1>7. BatchTypicalSalary(E) = Worth(E)
  <2>1. Amounts(w) /\ w # {} /\ w \subseteq E
    BY <1>0, <1>1, HabitHas
  <2>2. PICK x \in w : TRUE
    BY <2>1
  <2>3. \A e \in w : e.amount = x.amount
    BY <1>1, <2>1
  <2>4. UpperMedian(w) = x.amount /\ Median(w) = x.amount
    BY <2>1, <2>3, EqualAmounts
  <2> QED
    BY <1>1, <1>6, <2>4 DEF Worth, BatchTypicalSalary
<1>8. Series(E, m, n, dom)
  BY <1>1 DEF Habit
<1>9. LastOf(E) \in E /\ LastOf(E).date = DateIn(n, dom)
  BY <1>8, EndsOfSeries
<1>10. ~SalaryEnded(R, <<>>)
  <2>1. {e \in R : e.category = "salary" /\ CashType(e) \in {"IMMEDIATE_DEBIT", "SETTLED_INCOME"}} = E
    BY <1>1, <1>4 DEF Of
  <2>2. Latest(E) \in E
    BY <1>0, <1>1, <1>8, HabitHas, LatestIsOne DEF Amounts, Series
  <2>3. Latest(E).words \notin Ending
    BY <1>4, <2>2 DEF Ending
  <2> QED
    BY <2>1, <2>3, NoMessages
<1>11. MonthOf[LastOf(E).date] = n
  BY <1>8, <1>9, DateIs DEF Series
<1>12. FromToday(MonthlyFrom(n + 1, dom), t) = Coming(dom, t, t + Horizon)
  BY <1>0, HabitAhead
<1>13. Cardinality(E) >= 2 /\ Cardinality(E) \in Nat
  BY <1>0, <1>1, HabitHas, FS_CardinalityType DEF Amounts
<1>14. Reliable(R, <<>>, w)
  <2>1. \A e \in R : e.category = "salary" => e.words = "plain"
    BY <1>1, <1>4 DEF Of
  <2> QED
    BY <1>3, <2>1, NoMessages DEF Reliable
<1> QED
  BY <1>1, <1>3, <1>5, <1>7, <1>10, <1>11, <1>12, <1>13, <1>14, NoMessages DEF BatchSalaryItems, PayOn

\* Of what never happened, nothing is projected.
LEMMA NoHabit ==
  ASSUME NEW R, NEW t, NEW c, Of(R, c) = {}
  PROVE  /\ FixedItems(R, c, t) = {} /\ BatchFixedItems(R, c, t) = {} /\ SteppedSpending(R, c, t) = {}
         /\ c = "salary" => SalaryItems(R, t) = {} /\ \A msgs, filtered : BatchSalaryItems(R, t, msgs, filtered) = {}
<1>1. Paid(R, c, t) = {} /\ Spent(R, c, t) = {}
  BY DEF Paid, Spent, Of
<1>2. Recent({}, Window) = {} /\ Cardinality({}) = 0 /\ 0 < 2
  BY FS_EmptySet DEF Recent
<1>3. FixedItems(R, c, t) = {}
  BY <1>1, <1>2 DEF FixedItems
<1>4. BatchFixedItems(R, c, t) = {} /\ SteppedSpending(R, c, t) = {}
  BY <1>1 DEF BatchFixedItems, SteppedSpending
<1>5. ASSUME c = "salary"
      PROVE  SalaryItems(R, t) = {} /\ \A msgs, filtered : BatchSalaryItems(R, t, msgs, filtered) = {}
  <2>1. Salaries(R) = {}
    BY <1>5 DEF Salaries, Of
  <2> QED
    BY <1>2, <2>1 DEF SalaryItems, BatchSalaryItems
<1> QED
  BY <1>3, <1>4, <1>5

-----------------------------------------------------------------------------
(* What a state foretells *)

Kinds == FixedCategories \union {"salary"}
Way(c) == IF c = "salary" THEN "credit" ELSE "debit"

\* Events that have settled, bills and pay each of an amount.
Settled(R) ==
  \A e \in R : /\ e.status = "settled" /\ e.direction \in {"debit", "credit"} /\ e.id \in Int
               /\ e.category \in Kinds => e.amount \in Nat

\* Each time the same amount.
Level(R) == \A c \in Kinds : \A e, f \in Of(R, c) : e.amount = f.amount

\* The dates after day t, until another day, that fall on the day of some events.
DueDays(E, t, until) == {d \in Date : t < d /\ d <= until /\ \E e \in E : DayOf(d) = DayOf(e.date)}

\* Items that say, of each category, when it is due, and at what.
Foretold(items, R, C, t, until) ==
  /\ \A i \in items : /\ i.category \in C /\ i.amount = Worth(Of(R, i.category))
                      /\ i.date \in DueDays(Of(R, i.category), t, until)
  /\ \A c \in C : \A d \in DueDays(Of(R, c), t, until) : \E i \in items : i.category = c /\ i.date = d
  /\ \A i, j \in items : i.date = j.date /\ i.category = j.category => i = j

\* What a state says of bills and pay.
Tells(s, R, t, until) ==
  Foretold(s.bills, R, FixedCategories, t, until) /\ Foretold(s.salary, R, {"salary"}, t, until)

\* The events of a punctual category, if there are any, are a habit.
LEMMA HabitsExist ==
  ASSUME NEW R, NEW u, Settled(R), Punctual(R, u), NEW c \in Kinds, Of(R, c) # {}
  PROVE  \E m, n \in Months : \E dom \in 1..28 : Habit(Of(R, c), m, n, dom, u, Way(c))
<1>1. PICK E : E = Of(R, c)
  OBVIOUS
<1>2. Monthly(E, u)
  BY <1>1 DEF Punctual, Kinds
<1>3. PICK m, n \in Months, dom \in 1..28 :
        /\ m < n /\ {e.date : e \in E} = {DateIn(k, dom) : k \in m..n}
        /\ \A e, f \in E : e.date = f.date => e = f
        /\ DateIn(n, dom) <= u /\ \A k \in Months : n < k => u < DateIn(k, dom)
  BY <1>2 DEF Monthly
<1>4. \A e \in E : e.amount > 0 /\ e.words = "plain" /\ e.direction = Way(c)
  BY <1>1 DEF Punctual, Kinds, Way
<1>5. \A e \in E : e.status = "settled" /\ e.id \in Int /\ e.amount \in Nat
  BY <1>1 DEF Settled, Of
<1>6. \A e \in E : e.amount \in Nat \ {0}
  BY <1>4, <1>5
<1>7. m <= n
  BY <1>3, MonthsAre
<1>8. Series(E, m, n, dom)
  BY <1>3, <1>5, <1>7 DEF Series
<1>9. Habit(E, m, n, dom, u, Way(c))
  BY <1>3, <1>4, <1>5, <1>6, <1>8 DEF Habit
<1> QED
  BY <1>1, <1>9

\* The days a habit comes due are those of its day of the month.
LEMMA HabitDays ==
  ASSUME NEW E, NEW m, NEW n, NEW dom, NEW u, NEW direction, Habit(E, m, n, dom, u, direction), NEW t, NEW until
  PROVE  DueDays(E, t, until) = Coming(dom, t, until)
<1>1. Series(E, m, n, dom)
  BY DEF Habit
<1>2. \A e \in E : DayOf(e.date) = dom
  BY <1>1, SeriesHas
<1>3. E # {}
  BY <1>1, EndsOfSeries
<1> QED
  BY <1>2, <1>3 DEF DueDays, Coming

\* Items made up, for each category, of one on each day it is due.
Pieces(items, R, C, t, until, piece, model) ==
  /\ \A i : i \in items <=> \E c \in C : i \in piece[c]
  /\ \A c \in C : Of(R, c) = {} => piece[c] = {}
  /\ \A c \in C : Of(R, c) # {} =>
       /\ model[c].category = c
       /\ \/ piece[c] = ItemsOn(model[c], DueDays(Of(R, c), t, until), Worth(Of(R, c)))
          \/ c = "salary" /\ piece[c] = PayOn(DueDays(Of(R, c), t, until), Worth(Of(R, c)))

\* Such items foretell what is due.
LEMMA ItemsForetell ==
  ASSUME NEW R, NEW C, NEW t, NEW until, NEW items, NEW piece, NEW model,
         Pieces(items, R, C, t, until, piece, model)
  PROVE  Foretold(items, R, C, t, until)
<1>0. /\ \A i : i \in items <=> \E c \in C : i \in piece[c]
      /\ \A c \in C : Of(R, c) = {} => piece[c] = {}
      /\ \A c \in C : Of(R, c) # {} =>
           /\ model[c].category = c
           /\ \/ piece[c] = ItemsOn(model[c], DueDays(Of(R, c), t, until), Worth(Of(R, c)))
              \/ c = "salary" /\ piece[c] = PayOn(DueDays(Of(R, c), t, until), Worth(Of(R, c)))
  BY DEF Pieces
<1> USE <1>0
<1>1. ASSUME NEW c \in C, NEW i \in piece[c]
      PROVE  /\ i.category = c /\ i.amount = Worth(Of(R, c)) /\ i.date \in DueDays(Of(R, c), t, until)
             /\ \A j \in piece[c] : j.date = i.date => j = i
  <2>1. Of(R, c) # {}
    BY <1>1
  <2>2. PICK D, a : D = DueDays(Of(R, c), t, until) /\ a = Worth(Of(R, c))
    OBVIOUS
  <2>3. CASE piece[c] = ItemsOn(model[c], D, a)
    <3>1. \A j \in piece[c] : \E d \in D : j = Item(model[c], d, a)
      BY <2>3 DEF ItemsOn
    <3>2. \A d : Item(model[c], d, a).date = d /\ Item(model[c], d, a).amount = a /\ Item(model[c], d, a).category = c
      BY <2>1 DEF Item
    <3> QED
      BY <1>1, <2>2, <3>1, <3>2
  <2>4. CASE c = "salary" /\ piece[c] = PayOn(D, a)
    <3>1. \A j \in piece[c] : \E d \in D : j = [date |-> d, amount |-> a, category |-> "salary"]
      BY <2>4 DEF PayOn
    <3> QED
      BY <1>1, <2>2, <2>4, <3>1
  <2> QED
    BY <2>1, <2>2, <2>3, <2>4
<1>2. ASSUME NEW c \in C, NEW d \in DueDays(Of(R, c), t, until)
      PROVE  \E i \in piece[c] : i.date = d
  <2>1. Of(R, c) # {}
    BY <1>2 DEF DueDays
  <2>2. PICK D, a : D = DueDays(Of(R, c), t, until) /\ a = Worth(Of(R, c))
    OBVIOUS
  <2>3. CASE piece[c] = ItemsOn(model[c], D, a)
    <3>1. Item(model[c], d, a) \in piece[c] /\ Item(model[c], d, a).date = d
      BY <1>2, <2>2, <2>3 DEF ItemsOn, Item
    <3> QED
      BY <3>1
  <2>4. CASE piece[c] = PayOn(D, a)
    <3>1. PICK i : i = [date |-> d, amount |-> a, category |-> "salary"]
      OBVIOUS
    <3>2. i \in piece[c] /\ i.date = d
      BY <1>2, <2>2, <2>4, <3>1 DEF PayOn
    <3> QED
      BY <3>2
  <2> QED
    BY <2>1, <2>2, <2>3, <2>4
<1>3. \A i \in items : /\ i.category \in C /\ i.amount = Worth(Of(R, i.category))
                       /\ i.date \in DueDays(Of(R, i.category), t, until) /\ i \in piece[i.category]
  BY <1>1
<1>4. \A c \in C : \A d \in DueDays(Of(R, c), t, until) : \E i \in items : i.category = c /\ i.date = d
  BY <1>1, <1>2
<1>5. \A i, j \in items : i.date = j.date /\ i.category = j.category => i = j
  BY <1>1, <1>3
<1> QED
  BY <1>3, <1>4, <1>5 DEF Foretold

\* Nothing that has settled is scheduled.
LEMMA NothingScheduled ==
  ASSUME NEW R, Settled(R), NEW t
  PROVE  /\ Scheduled(R, t, "FUTURE_DEBIT") = {} /\ Scheduled(R, t, "CONFIRMED_INCOME") = {}
         /\ \A items : Unscheduled(items, {}) = items
<1>1. \A e \in R : CashType(e) \in {"IMMEDIATE_DEBIT", "SETTLED_INCOME"}
  BY SettledTypes DEF Settled
<1>2. Scheduled(R, t, "FUTURE_DEBIT") = {} /\ Scheduled(R, t, "CONFIRMED_INCOME") = {}
  BY <1>1 DEF Scheduled
<1> QED
  BY <1>2 DEF Unscheduled

\* The engine's state tells when a punctual user's bills and pay are due.
LEMMA EngineForetells ==
  ASSUME NEW R, NEW u \in Nat, Settled(R), Punctual(R, u), NEW t \in Date, u <= t, NEW a
  PROVE  Tells(EngineState(R, a, t), R, t, t + Horizon)
<1>1. PICK s : s = EngineState(R, a, t)
  OBVIOUS
<1>2. s.bills = UNION {FixedItems(R, c, t) : c \in FixedCategories} /\ s.salary = SalaryItems(R, t)
  BY <1>1, NothingScheduled DEF EngineState
<1>3. PICK model : model = [c \in FixedCategories |-> LastOf(Recent(Of(R, c), Window))]
  OBVIOUS
<1>4. PICK piece : piece = [c \in FixedCategories |-> FixedItems(R, c, t)]
  OBVIOUS
<1>5. ASSUME NEW c \in FixedCategories, Of(R, c) # {}
      PROVE  /\ model[c].category = c
             /\ piece[c] = ItemsOn(model[c], DueDays(Of(R, c), t, t + Horizon), Worth(Of(R, c)))
  <2>1. c \in Kinds /\ Way(c) = "debit"
    BY KindsAssumption DEF Kinds, Way
  <2>2. PICK m, n \in Months : \E dom \in 1..28 : Habit(Of(R, c), m, n, dom, u, Way(c))
    BY <1>5, <2>1, HabitsExist
  <2>3. PICK dom \in 1..28 : Habit(Of(R, c), m, n, dom, u, "debit")
    BY <2>1, <2>2
  <2>4. PICK w : w = Recent(Of(R, c), Window)
    OBVIOUS
  <2>5. FixedItems(R, c, t) = ItemsOn(LastOf(w), Coming(dom, t, t + Horizon), Worth(Of(R, c)))
    BY <2>3, <2>4, EngineBill
  <2>6. DueDays(Of(R, c), t, t + Horizon) = Coming(dom, t, t + Horizon)
    BY <2>3, HabitDays
  <2>7. PICK i \in m..n : Series(w, i, n, dom)
    BY <2>3, <2>4, HabitHas
  <2>8. LastOf(w) \in w
    BY <2>7, EndsOfSeries
  <2>9. LastOf(w).category = c
    BY <2>4, <2>8 DEF Recent, Of
  <2> QED
    BY <1>3, <1>4, <2>4, <2>5, <2>6, <2>9
<1>6. \A c \in FixedCategories : Of(R, c) = {} => piece[c] = {}
  BY <1>4, NoHabit
<1>7. \A i : i \in s.bills <=> \E c \in FixedCategories : i \in piece[c]
  BY <1>2, <1>4
<1>8. Foretold(s.bills, R, FixedCategories, t, t + Horizon)
  <2>1. PICK B, C, v : B = s.bills /\ C = FixedCategories /\ v = t + Horizon
    OBVIOUS
  <2>2. \A i : i \in B <=> \E c \in C : i \in piece[c]
    BY <1>7, <2>1
  <2>3. \A c \in C : Of(R, c) = {} => piece[c] = {}
    BY <1>6, <2>1
  <2>4. \A c \in C : Of(R, c) # {} =>
          /\ model[c].category = c
          /\ \/ piece[c] = ItemsOn(model[c], DueDays(Of(R, c), t, v), Worth(Of(R, c)))
             \/ c = "salary" /\ piece[c] = PayOn(DueDays(Of(R, c), t, v), Worth(Of(R, c)))
    BY <1>5, <2>1
  <2>5. Pieces(B, R, C, t, v, piece, model)
    BY <2>2, <2>3, <2>4 DEF Pieces
  <2> QED
    BY <2>1, <2>5, ItemsForetell
<1>9. Foretold(s.salary, R, {"salary"}, t, t + Horizon)
  <2>1. PICK pay : pay = [c \in {"salary"} |-> SalaryItems(R, t)]
    OBVIOUS
  <2>2. PICK like : like = [c \in {"salary"} |-> [category |-> c]]
    OBVIOUS
  <2>3. ASSUME Of(R, "salary") # {}
        PROVE  SalaryItems(R, t) = PayOn(DueDays(Of(R, "salary"), t, t + Horizon), Worth(Of(R, "salary")))
    <3>1. "salary" \in Kinds /\ Way("salary") = "credit"
      BY DEF Kinds, Way
    <3>2. PICK m, n \in Months : \E dom \in 1..28 : Habit(Of(R, "salary"), m, n, dom, u, Way("salary"))
      BY <2>3, <3>1, HabitsExist
    <3>3. PICK dom \in 1..28 : Habit(Of(R, "salary"), m, n, dom, u, "credit")
      BY <3>1, <3>2
    <3>4. SalaryItems(R, t) = PayOn(Coming(dom, t, t + Horizon), Worth(Of(R, "salary")))
      BY <3>3, EngineSalary
    <3>5. DueDays(Of(R, "salary"), t, t + Horizon) = Coming(dom, t, t + Horizon)
      BY <3>3, HabitDays
    <3> QED
      BY <3>4, <3>5
  <2>4. Of(R, "salary") = {} => SalaryItems(R, t) = {}
    BY NoHabit
  <2>5. \A c \in {"salary"} : Of(R, c) = {} => pay[c] = {}
    BY <2>1, <2>4
  <2>6. \A c \in {"salary"} : Of(R, c) # {} =>
          like[c].category = c /\ c = "salary" /\ pay[c] = PayOn(DueDays(Of(R, c), t, t + Horizon), Worth(Of(R, c)))
    BY <2>1, <2>2, <2>3
  <2>7. PICK P : P = s.salary
    OBVIOUS
  <2>8. \A i : i \in P <=> \E c \in {"salary"} : i \in pay[c]
    BY <1>2, <2>1, <2>7
  <2>9. Pieces(P, R, {"salary"}, t, t + Horizon, pay, like)
    BY <2>5, <2>6, <2>8 DEF Pieces
  <2> QED
    BY <2>7, <2>9, ItemsForetell
<1> QED
  BY <1>1, <1>8, <1>9 DEF Tells

\* The batch program's state tells it too, of what is the same every time.
LEMMA BatchForetells ==
  ASSUME NEW R, NEW t \in Date, Settled(R), Punctual(R, t), Level(R), NEW a,
         NEW daily \in BOOLEAN, NEW filtered \in BOOLEAN,
         ~daily => \A e \in R : e.category \notin VariableCategories
  PROVE  Tells(BatchState(R, a, t, <<>>, daily, filtered), R, t, t + Horizon)
<1>0. t \in Nat
  BY DatesAreNumbers
<1>1. PICK s : s = BatchState(R, a, t, <<>>, daily, filtered)
  OBVIOUS
<1>2. (IF daily THEN {} ELSE UNION {SteppedSpending(R, c, t) : c \in VariableCategories}) = {}
  <2>1. ASSUME ~daily, NEW c \in VariableCategories
        PROVE  SteppedSpending(R, c, t) = {}
    <3>1. Of(R, c) = {}
      BY <2>1 DEF Of
    <3> QED
      BY <3>1, NoHabit
  <2> QED
    BY <2>1
<1>3. /\ s.bills = UNION {BatchFixedItems(R, c, t) : c \in FixedCategories}
      /\ s.salary = BatchSalaryItems(R, t, <<>>, filtered)
  <2>1. PICK U, P : /\ U = UNION {BatchFixedItems(R, c, t) : c \in FixedCategories}
                    /\ P = BatchSalaryItems(R, t, <<>>, filtered)
    OBVIOUS
  <2>2. PICK stepped : stepped = IF daily THEN {} ELSE UNION {SteppedSpending(R, c, t) : c \in VariableCategories}
    OBVIOUS
  <2>3. PICK D, I : D = Scheduled(R, t, "FUTURE_DEBIT") /\ I = Scheduled(R, t, "CONFIRMED_INCOME")
    OBVIOUS
  <2>4. /\ s.bills = AmendedRent(Unscheduled(U, D) \union stepped, <<>>)
        /\ s.salary = AmendedPay(Unscheduled(P, I), <<>>)
    BY <1>1, <2>1, <2>2, <2>3 DEF BatchState
  <2>5. stepped = {} /\ D = {} /\ I = {}
    BY <1>2, <2>2, <2>3, NothingScheduled
  <2>6. Unscheduled(U, D) \union stepped = U /\ Unscheduled(P, I) = P
    BY <2>5 DEF Unscheduled
  <2> QED
    BY <2>1, <2>4, <2>6, NoMessages
<1>4. PICK model : model = [c \in FixedCategories |-> LastOf(Of(R, c))]
  OBVIOUS
<1>5. PICK piece : piece = [c \in FixedCategories |-> BatchFixedItems(R, c, t)]
  OBVIOUS
<1>6. ASSUME NEW c \in FixedCategories, Of(R, c) # {}
      PROVE  /\ model[c].category = c
             /\ piece[c] = ItemsOn(model[c], DueDays(Of(R, c), t, t + Horizon), Worth(Of(R, c)))
  <2>1. c \in Kinds /\ Way(c) = "debit"
    BY KindsAssumption DEF Kinds, Way
  <2>2. PICK m, n \in Months : \E dom \in 1..28 : Habit(Of(R, c), m, n, dom, t, Way(c))
    BY <1>6, <2>1, HabitsExist
  <2>3. PICK dom \in 1..28 : Habit(Of(R, c), m, n, dom, t, "debit")
    BY <2>1, <2>2
  <2>4. \A e, f \in Of(R, c) : e.amount = f.amount
    BY <2>1 DEF Level
  <2>5. BatchFixedItems(R, c, t) = ItemsOn(LastOf(Of(R, c)), Coming(dom, t, t + Horizon), Worth(Of(R, c)))
    BY <2>3, <2>4, BatchBill
  <2>6. DueDays(Of(R, c), t, t + Horizon) = Coming(dom, t, t + Horizon)
    BY <2>3, HabitDays
  <2>7. LastOf(Of(R, c)) \in Of(R, c)
    BY <2>3, EndsOfSeries DEF Habit
  <2>8. LastOf(Of(R, c)).category = c
    BY <2>7 DEF Of
  <2> QED
    BY <1>4, <1>5, <2>5, <2>6, <2>8
<1>7. \A c \in FixedCategories : Of(R, c) = {} => piece[c] = {}
  BY <1>5, NoHabit
<1>8. \A i : i \in s.bills <=> \E c \in FixedCategories : i \in piece[c]
  BY <1>3, <1>5
<1>9. Foretold(s.bills, R, FixedCategories, t, t + Horizon)
  <2>1. PICK B, C, v : B = s.bills /\ C = FixedCategories /\ v = t + Horizon
    OBVIOUS
  <2>2. \A i : i \in B <=> \E c \in C : i \in piece[c]
    BY <1>8, <2>1
  <2>3. \A c \in C : Of(R, c) = {} => piece[c] = {}
    BY <1>7, <2>1
  <2>4. \A c \in C : Of(R, c) # {} =>
          /\ model[c].category = c
          /\ \/ piece[c] = ItemsOn(model[c], DueDays(Of(R, c), t, v), Worth(Of(R, c)))
             \/ c = "salary" /\ piece[c] = PayOn(DueDays(Of(R, c), t, v), Worth(Of(R, c)))
    BY <1>6, <2>1
  <2>5. Pieces(B, R, C, t, v, piece, model)
    BY <2>2, <2>3, <2>4 DEF Pieces
  <2> QED
    BY <2>1, <2>5, ItemsForetell
<1>10. Foretold(s.salary, R, {"salary"}, t, t + Horizon)
  <2>1. PICK pay : pay = [c \in {"salary"} |-> BatchSalaryItems(R, t, <<>>, filtered)]
    OBVIOUS
  <2>2. PICK like : like = [c \in {"salary"} |-> [category |-> c]]
    OBVIOUS
  <2>3. ASSUME Of(R, "salary") # {}
        PROVE  BatchSalaryItems(R, t, <<>>, filtered) =
                 PayOn(DueDays(Of(R, "salary"), t, t + Horizon), Worth(Of(R, "salary")))
    <3>1. "salary" \in Kinds /\ Way("salary") = "credit"
      BY DEF Kinds, Way
    <3>2. PICK m, n \in Months : \E dom \in 1..28 : Habit(Of(R, "salary"), m, n, dom, t, Way("salary"))
      BY <1>0, <2>3, <3>1, HabitsExist
    <3>3. PICK dom \in 1..28 : Habit(Of(R, "salary"), m, n, dom, t, "credit")
      BY <3>1, <3>2
    <3>4. \A e, f \in Of(R, "salary") : e.amount = f.amount
      BY <3>1 DEF Level
    <3>5. BatchSalaryItems(R, t, <<>>, filtered) = PayOn(Coming(dom, t, t + Horizon), Worth(Of(R, "salary")))
      BY <3>3, <3>4, BatchSalary
    <3>6. DueDays(Of(R, "salary"), t, t + Horizon) = Coming(dom, t, t + Horizon)
      BY <3>3, HabitDays
    <3> QED
      BY <3>5, <3>6
  <2>4. Of(R, "salary") = {} => BatchSalaryItems(R, t, <<>>, filtered) = {}
    BY NoHabit
  <2>5. \A c \in {"salary"} : Of(R, c) = {} => pay[c] = {}
    BY <2>1, <2>4
  <2>6. \A c \in {"salary"} : Of(R, c) # {} =>
          like[c].category = c /\ c = "salary" /\ pay[c] = PayOn(DueDays(Of(R, c), t, t + Horizon), Worth(Of(R, c)))
    BY <2>1, <2>2, <2>3
  <2>7. PICK P : P = s.salary
    OBVIOUS
  <2>8. \A i : i \in P <=> \E c \in {"salary"} : i \in pay[c]
    BY <1>3, <2>1, <2>7
  <2>9. Pieces(P, R, {"salary"}, t, t + Horizon, pay, like)
    BY <2>5, <2>6, <2>8 DEF Pieces
  <2> QED
    BY <2>7, <2>9, ItemsForetell
<1> QED
  BY <1>1, <1>9, <1>10 DEF Tells

-----------------------------------------------------------------------------
(* Rows that have settled, resolved *)

RowFields == {"id", "external", "link", "date", "amount", "currency", "direction", "category", "status", "kind",
              "words", "verified"}

\* A row that takes nothing back, with all that is looked at.
Whole(r) ==
  /\ Plainly(r) /\ RowFields \subseteq DOMAIN r
  /\ r.id \in Int /\ r.external \in Int /\ r.date \in Nat /\ r.amount \in Int

\* A row as a resolved event, worth a.
AtHome(r, a) == [EventOf(r) EXCEPT !.amount = a]

\* What such an event has of its row.
LEMMA WholeEvents ==
  ASSUME NEW r, Whole(r), NEW a
  PROVE  LET o == EventOf(r)
             e == AtHome(r, a)
         IN  /\ o.amount = (IF r.amount < 0 THEN -r.amount ELSE r.amount) /\ o.amount \in Nat
             /\ o.date = r.date /\ o.currency = r.currency /\ o.kind = r.kind
             /\ o.status = r.status /\ o.direction = r.direction
             /\ e.category = r.category /\ e.date = r.date /\ e.status = r.status /\ e.direction = r.direction
             /\ e.words = r.words /\ e.currency = r.currency /\ e.amount = a /\ e.id \in Int
             /\ e.id = IF r.external # NoId THEN r.external ELSE r.id
<1>1. PICK o, e : o = EventOf(r) /\ e = AtHome(r, a)
  OBVIOUS
<1>2. DOMAIN o = DOMAIN r /\ RowFields \subseteq DOMAIN o
  BY <1>1 DEF EventOf, Whole
<1>3. /\ o.date = r.date /\ o.currency = r.currency /\ o.kind = r.kind
      /\ o.status = r.status /\ o.direction = r.direction /\ o.category = r.category /\ o.words = r.words
  BY <1>1, <1>2 DEF EventOf, RowFields, Whole
<1>4. o.amount = IF r.amount < 0 THEN -r.amount ELSE r.amount
  BY <1>1, <1>2 DEF EventOf, RowFields, Whole
<1>5. o.id = IF r.external # NoId THEN r.external ELSE r.id
  BY <1>1, <1>2 DEF EventOf, RowFields, Whole
<1>6. o.amount \in Nat
  BY <1>4 DEF Whole
<1>7. o.id \in Int
  BY <1>5 DEF Whole
<1>8. /\ e.category = o.category /\ e.date = o.date /\ e.status = o.status /\ e.direction = o.direction
      /\ e.words = o.words /\ e.currency = o.currency /\ e.amount = a /\ e.id = o.id
  BY <1>1, <1>2 DEF AtHome, RowFields
<1> QED
  BY <1>1, <1>3, <1>4, <1>5, <1>6, <1>7, <1>8

\* Nothing replaces what has settled, and none of it is void.
LEMMA WholeStand ==
  ASSUME NEW S, \A r \in S : Whole(r)
  PROVE  /\ Superseded(EventsOf(S)) = {}
         /\ \A o \in EventsOf(S) : CashType(o) # "VOID"
<1>1. ASSUME NEW o \in EventsOf(S)
      PROVE  o.status = "settled" /\ o.direction \in {"debit", "credit"} /\ o.kind \in {"expense", "income"}
  <2>1. PICK r \in S : o = EventOf(r)
    BY <1>1 DEF EventsOf
  <2>2. Whole(r)
    BY <2>1
  <2>3. o.status = r.status /\ o.direction = r.direction /\ o.kind = r.kind
    BY <2>1, <2>2, WholeEvents
  <2> QED
    BY <2>2, <2>3 DEF Whole, Plainly
<1>2. \A e, o \in EventsOf(S) : ~Replaces(e, o)
  <2> SUFFICES ASSUME NEW e \in EventsOf(S), NEW o \in EventsOf(S), Replaces(e, o) PROVE FALSE
    OBVIOUS
  <2>1. e.direction \in {"debit", "credit"} /\ e.kind \in {"expense", "income"} /\ o.status = "settled"
    BY <1>1
  <2> QED
    BY <2>1 DEF Replaces
<1>3. \A o \in EventsOf(S) : CashType(o) \in {"IMMEDIATE_DEBIT", "SETTLED_INCOME"}
  BY <1>1, SettledTypes
<1> QED
  BY <1>2, <1>3 DEF Superseded

\* So the rows that count are resolved one by one.
LEMMA WholeResolved ==
  ASSUME NEW S, \A r \in S : Whole(r), NEW home, NEW pictures
  PROVE  /\ \A e : e \in Resolved(S, home) <=>
              \E r \in S : Counts(r) /\ e = AtHome(r, InHome(EventOf(r), home))
         /\ \A e : e \in BatchResolved(EventsOf(S), pictures, home) <=>
              \E r \in S : Counts(r) /\ e = AtHome(r, BatchWorth(SeenAmount(EventOf(r), pictures), home))
<1>1. PICK V : V = EventsOf(S)
  OBVIOUS
<1>2. {x \in V \ Superseded(V) : CashType(x) # "VOID"} = V
  BY <1>1, WholeStand
<1>3. \A o : o \in V <=> \E r \in S : Counts(r) /\ o = EventOf(r)
  BY <1>1 DEF EventsOf
<1>4. Resolved(S, home) = {[e EXCEPT !.amount = InHome(e, home)] : e \in V}
  BY <1>1, <1>2 DEF Resolved, Resolve
<1>5. BatchResolved(V, pictures, home) =
        {[e EXCEPT !.amount = BatchWorth(SeenAmount(e, pictures), home)] : e \in V}
  BY <1>2 DEF BatchResolved, Resolve
<1> QED
  BY <1>1, <1>3, <1>4, <1>5 DEF AtHome

\* Such events have settled, each of an amount.
LEMMA WholeSettled ==
  ASSUME NEW S, \A r \in S : Whole(r), NEW home
  PROVE  Settled(Resolved(S, home))
<1> SUFFICES ASSUME NEW e \in Resolved(S, home)
             PROVE  /\ e.status = "settled" /\ e.direction \in {"debit", "credit"}
                    /\ e.id \in Int /\ e.amount \in Nat
  BY DEF Settled
<1>1. PICK r \in S : e = AtHome(r, InHome(EventOf(r), home))
  BY WholeResolved
<1>2. Whole(r)
  BY <1>1
<1>3. PICK o : o = EventOf(r)
  OBVIOUS
<1>4. o.amount \in Nat /\ o.date = r.date /\ r.date \in Nat
  BY <1>2, <1>3, WholeEvents DEF Whole
<1>5. Converted(o.amount, o.currency, home, o.date) \in Nat
  BY <1>4, ConvertedType
<1>6. InHome(o, home) \in Nat
  BY <1>4, <1>5 DEF InHome
<1>7. e.status = r.status /\ e.direction = r.direction /\ e.id \in Int /\ e.amount = InHome(o, home)
  BY <1>1, <1>2, <1>3, WholeEvents
<1> QED
  BY <1>2, <1>6, <1>7 DEF Whole, Plainly

\* What is paid at home is worth the same to both programs.
LEMMA BatchSame ==
  ASSUME NEW S, \A r \in S : Whole(r), NEW home, NEW pictures,
         \A c \in Kinds : \A e \in Of(Resolved(S, home), c) : e.currency = home
  PROVE  LET R == Resolved(S, home)
             B == BatchResolved(EventsOf(S), pictures, home)
         IN  /\ \A c \in Kinds : Of(B, c) = Of(R, c)
             /\ \A e \in B : \E f \in R : e.category = f.category
             /\ Settled(B)
<1>1. PICK R, B : R = Resolved(S, home) /\ B = BatchResolved(EventsOf(S), pictures, home)
  OBVIOUS
<1>2. PICK g : g = [r \in S |-> InHome(EventOf(r), home)]
  OBVIOUS
<1>3. PICK h : h = [r \in S |-> BatchWorth(SeenAmount(EventOf(r), pictures), home)]
  OBVIOUS
<1>4. \A e : e \in R <=> \E r \in S : Counts(r) /\ e = AtHome(r, g[r])
  BY <1>1, <1>2, WholeResolved
<1>5. \A e : e \in B <=> \E r \in S : Counts(r) /\ e = AtHome(r, h[r])
  BY <1>1, <1>3, WholeResolved
<1>6. ASSUME NEW r \in S, NEW a
      PROVE  /\ AtHome(r, a).category = r.category /\ AtHome(r, a).currency = r.currency
             /\ AtHome(r, a).status = "settled" /\ AtHome(r, a).direction \in {"debit", "credit"}
             /\ AtHome(r, a).id \in Int
  BY WholeEvents DEF Whole, Plainly
<1>7. ASSUME NEW r \in S, Counts(r), r.category \in Kinds PROVE g[r] = h[r]
  <2>1. PICK o : o = EventOf(r)
    OBVIOUS
  <2>2. o.amount \in Nat /\ o.currency = r.currency
    BY <2>1, WholeEvents
  <2>3. AtHome(r, g[r]) \in R
    BY <1>4, <1>7
  <2>4. AtHome(r, g[r]) \in Of(R, r.category)
    BY <1>6, <2>3 DEF Of
  <2>5. r.currency = home
    BY <1>1, <1>6, <1>7, <2>4
  <2>6. InHome(o, home) = o.amount
    BY <2>2, <2>5 DEF InHome, Converted
  <2>7. SeenAmount(o, pictures) = o
    BY <2>2 DEF SeenAmount, Unknown
  <2>8. BatchWorth(o, home) = o.amount
    BY <2>2, <2>5 DEF BatchWorth, HasQuote, DayConverted
  <2> QED
    BY <1>2, <1>3, <2>1, <2>6, <2>7, <2>8
<1>8. ASSUME NEW c \in Kinds PROVE Of(B, c) = Of(R, c)
  <2>1. \A e : e \in Of(R, c) <=> \E r \in S : Counts(r) /\ r.category = c /\ e = AtHome(r, g[r])
    BY <1>4, <1>6 DEF Of
  <2>2. \A e : e \in Of(B, c) <=> \E r \in S : Counts(r) /\ r.category = c /\ e = AtHome(r, h[r])
    BY <1>5, <1>6 DEF Of
  <2>3. \A e : e \in Of(B, c) <=> e \in Of(R, c)
    BY <1>7, <2>1, <2>2
  <2>4. Of(B, c) \subseteq Of(R, c) /\ Of(R, c) \subseteq Of(B, c)
    BY <2>3
  <2> QED
    BY <2>4
<1>9. \A e \in B : \E f \in R : e.category = f.category
  BY <1>4, <1>5, <1>6
<1>10. Settled(R)
  BY <1>1, WholeSettled
<1>11. Settled(B)
  <2>1. \A e \in B : e.status = "settled" /\ e.direction \in {"debit", "credit"} /\ e.id \in Int
    BY <1>5, <1>6
  <2>2. ASSUME NEW e \in B, e.category \in Kinds PROVE e.amount \in Nat
    <3>1. e \in Of(B, e.category)
      BY DEF Of
    <3>2. e \in R
      BY <1>8, <2>2, <3>1 DEF Of
    <3> QED
      BY <1>10, <2>2, <3>2 DEF Settled
  <2> QED
    BY <2>1, <2>2 DEF Settled
<1> QED
  BY <1>1, <1>8, <1>9, <1>11

\* What is foretold depends on the events of each category only.
LEMMA ForetoldOfOthers ==
  ASSUME NEW items, NEW R, NEW B, NEW C, NEW t, NEW until, \A c \in C : Of(B, c) = Of(R, c),
         Foretold(items, B, C, t, until)
  PROVE  Foretold(items, R, C, t, until)
<1>1. \A i \in items : /\ i.category \in C /\ i.amount = Worth(Of(R, i.category))
                       /\ i.date \in DueDays(Of(R, i.category), t, until)
  BY DEF Foretold
<1>2. \A c \in C : \A d \in DueDays(Of(R, c), t, until) : \E i \in items : i.category = c /\ i.date = d
  BY DEF Foretold
<1>3. \A i, j \in items : i.date = j.date /\ i.category = j.category => i = j
  BY DEF Foretold
<1> QED
  BY <1>1, <1>2, <1>3 DEF Foretold

\* The batch program's state tells what is due by the engine's events.
LEMMA BatchTells ==
  ASSUME NEW S, \A r \in S : Whole(r), NEW home, NEW pictures, NEW t \in Date, NEW a,
         NEW daily \in BOOLEAN, NEW filtered \in BOOLEAN,
         Punctual(Resolved(S, home), t), Even(Resolved(S, home), home, ~daily)
  PROVE  Tells(BatchState(BatchResolved(EventsOf(S), pictures, home), a, t, <<>>, daily, filtered),
               Resolved(S, home), t, t + Horizon)
<1>1. PICK R, B : R = Resolved(S, home) /\ B = BatchResolved(EventsOf(S), pictures, home)
  OBVIOUS
<1>2. \A c \in Kinds : \A e, f \in Of(R, c) : e.currency = home /\ e.amount = f.amount
  BY <1>1 DEF Even, Kinds
<1>3. /\ \A c \in Kinds : Of(B, c) = Of(R, c)
      /\ \A e \in B : \E f \in R : e.category = f.category
      /\ Settled(B)
  BY <1>1, <1>2, BatchSame
<1>4. Level(B)
  BY <1>2, <1>3 DEF Level
<1>5. Punctual(B, t)
  BY <1>1, <1>3 DEF Punctual, Kinds
<1>6. ~daily => \A e \in B : e.category \notin VariableCategories
  BY <1>1, <1>3 DEF Even
<1>7. PICK s : s = BatchState(B, a, t, <<>>, daily, filtered)
  OBVIOUS
<1>8. Tells(s, B, t, t + Horizon)
  BY <1>3, <1>4, <1>5, <1>6, <1>7, BatchForetells
<1>9. FixedCategories \subseteq Kinds /\ {"salary"} \subseteq Kinds
  BY DEF Kinds
<1>10. Foretold(s.bills, R, FixedCategories, t, t + Horizon)
  <2>1. \A c \in FixedCategories : Of(B, c) = Of(R, c)
    BY <1>3, <1>9
  <2>2. Foretold(s.bills, B, FixedCategories, t, t + Horizon)
    BY <1>8 DEF Tells
  <2> QED
    BY <2>1, <2>2, ForetoldOfOthers
<1>11. Foretold(s.salary, R, {"salary"}, t, t + Horizon)
  <2>1. \A c \in {"salary"} : Of(B, c) = Of(R, c)
    BY <1>3, <1>9
  <2>2. Foretold(s.salary, B, {"salary"}, t, t + Horizon)
    BY <1>8 DEF Tells
  <2> QED
    BY <2>1, <2>2, ForetoldOfOthers
<1>12. Tells(s, R, t, t + Horizon)
  BY <1>10, <1>11 DEF Tells
<1> QED
  BY <1>1, <1>7, <1>12

-----------------------------------------------------------------------------
(* A day more *)

\* A habit with nothing due the next day goes on to it.
LEMMA HabitRests ==
  ASSUME NEW E, NEW m, NEW n, NEW dom, NEW u \in Nat, NEW direction, Habit(E, m, n, dom, u, direction),
         u + 1 \notin DueDays(E, u, u + 1)
  PROVE  Habit(E, m, n, dom, u + 1, direction)
<1>1. PICK d \in Nat : d = u + 1
  OBVIOUS
<1>2. DueDays(E, u, d) = Coming(dom, u, d)
  BY <1>1, HabitDays
<1>3. Series(E, m, n, dom) /\ DateIn(n, dom) <= u /\ \A k \in Months : n < k => u < DateIn(k, dom)
  BY DEF Habit
<1>4. dom \in 1..28 /\ n \in Months
  BY <1>3 DEF Series
<1>5. ASSUME NEW k \in Months, n < k PROVE d < DateIn(k, dom)
  <2>1. PICK z : z = DateIn(k, dom)
    OBVIOUS
  <2>2. z \in Date /\ z \in Nat /\ DayOf(z) = dom
    BY <1>4, <2>1, DateIs, DatesAreNumbers
  <2>3. u < z
    BY <1>3, <1>5, <2>1
  <2>4. z # d
    <3>1. ASSUME z = d PROVE d \in Coming(dom, u, d)
      BY <1>1, <2>2, <3>1 DEF Coming
    <3> QED
      BY <1>1, <1>2, <3>1
  <2> QED
    BY <1>1, <2>1, <2>2, <2>3, <2>4
<1>6. DateIn(n, dom) <= d
  <2>1. DateIn(n, dom) \in Nat
    BY <1>4, DateIs, DatesAreNumbers
  <2> QED
    BY <1>1, <1>3, <2>1
<1> QED
  BY <1>1, <1>3, <1>5, <1>6 DEF Habit

\* A habit that is due the next day goes on when it is paid as it was projected.
LEMMA HabitPaid ==
  ASSUME NEW E, NEW m, NEW n, NEW dom, NEW u \in Nat, NEW direction, Habit(E, m, n, dom, u, direction),
         u + 1 \in DueDays(E, u, u + 1), NEW x, x.date = u + 1, x.id \in Int, x.amount = Worth(E),
         x.words = "plain", x.direction = direction, x.status = "settled"
  PROVE  /\ Habit(E \union {x}, m, n + 1, dom, u + 1, direction) /\ n + 1 \in Months
         /\ Worth(E \union {x}) = Worth(E) /\ DayOf(x.date) = dom
<1>1. PICK d \in Nat : d = u + 1
  OBVIOUS
<1>2. d \in Date /\ DayOf(d) = dom
  <2>1. DueDays(E, u, d) = Coming(dom, u, d)
    BY <1>1, HabitDays
  <2> QED
    BY <1>1, <2>1 DEF Coming
<1>3. Series(E, m, n, dom) /\ DateIn(n, dom) <= u /\ \A k \in Months : n < k => u < DateIn(k, dom)
  BY DEF Habit
<1>4. dom \in 1..28 /\ n \in Months /\ m \in Months
  BY <1>3 DEF Series
<1>5. PICK k \in Months : d = DateIn(k, dom)
  BY <1>2, <1>4, MonthIs
<1>6. k = n + 1
  <2>1. n \in Nat /\ k \in Nat
    BY <1>4, MonthsAre
  <2>2. ASSUME k <= n PROVE FALSE
    <3>1. ~(n < k)
      BY <2>1, <2>2
    <3>2. ~(DateIn(n, dom) < DateIn(k, dom)) /\ DateIn(n, dom) \in Nat
      BY <1>4, <3>1, DatesGrow, DateIs
    <3> QED
      BY <1>1, <1>3, <1>5, <3>1, <3>2
  <2>3. ASSUME n + 1 < k PROVE FALSE
    <3>1. n + 1 \in Months
      BY <1>5, <2>1, <2>3, MonthsAre
    <3>2. DateIn(n + 1, dom) < DateIn(k, dom)
      BY <1>4, <2>3, <3>1, DatesGrow
    <3>3. u < DateIn(n + 1, dom)
      BY <1>3, <2>1, <3>1
    <3>4. DateIn(n + 1, dom) \in Nat
      BY <1>4, <3>1, DateIs, DatesAreNumbers
    <3> QED
      BY <1>1, <1>5, <3>2, <3>3, <3>4
  <2> QED
    BY <2>1, <2>2, <2>3
<1>7. n + 1 \in Months /\ x.date = DateIn(n + 1, dom)
  BY <1>1, <1>5, <1>6
<1>8. Amounts(E)
  BY HabitHas
<1>9. PICK F : F = E \union {x}
  OBVIOUS
<1>10. Series(F, m, n + 1, dom)
  BY <1>3, <1>7, <1>9, SeriesExtended
<1>11. Worth(F) = Worth(E)
  <2>1. x.amount = UpperMedian(Recent(E, Window))
    BY DEF Worth
  <2>2. UpperMedian(Recent(E \union {x}, Window)) = UpperMedian(Recent(E, Window))
    BY <1>3, <1>7, <1>8, <2>1, WindowMedianStays
  <2> QED
    BY <1>9, <2>2 DEF Worth
<1>12. Worth(E) \in Nat \ {0}
  BY HabitHas
<1>13. \A e \in F : /\ e.amount \in Nat \ {0} /\ e.words = "plain"
                    /\ e.direction = direction /\ e.status = "settled"
  BY <1>9, <1>12 DEF Habit
<1>14. m < n + 1
  <2>1. m \in Nat /\ n \in Nat /\ m < n
    BY <1>4, MonthsAre DEF Habit
  <2> QED
    BY <2>1
<1>15. ASSUME NEW j \in Months, n + 1 < j PROVE d < DateIn(j, dom)
  BY <1>1, <1>4, <1>7, <1>15, DatesGrow
<1>16. DateIn(n + 1, dom) <= d
  BY <1>1, <1>7
<1>17. Habit(F, m, n + 1, dom, d, direction)
  BY <1>10, <1>13, <1>14, <1>15, <1>16 DEF Habit
<1> QED
  BY <1>1, <1>2, <1>7, <1>9, <1>11, <1>17

\* What is due on the next day is paid as it was projected, and nothing else happens.
GoesOn(R, S, u, home) ==
  /\ R \subseteq S /\ \A e \in S : e \in R \/ e.category \in Kinds
  /\ \A c \in Kinds :
       \/ u + 1 \notin DueDays(Of(R, c), u, u + 1) /\ Of(S, c) = Of(R, c)
       \/ /\ u + 1 \in DueDays(Of(R, c), u, u + 1)
          /\ \E x : /\ Of(S, c) = Of(R, c) \union {x}
                    /\ x.date = u + 1 /\ x.id \in Int /\ x.amount = Worth(Of(R, c)) /\ x.words = "plain"
                    /\ x.direction = Way(c) /\ x.status = "settled" /\ x.currency = home

\* A habit is monthly.
LEMMA HabitIsMonthly ==
  ASSUME NEW E, NEW m, NEW n, NEW dom, NEW u, NEW direction, Habit(E, m, n, dom, u, direction)
  PROVE  Monthly(E, u)
<1>1. /\ m \in Months /\ n \in Months /\ dom \in 1..28 /\ m < n
      /\ {e.date : e \in E} = {DateIn(k, dom) : k \in m..n} /\ \A e, f \in E : e.date = f.date => e = f
      /\ DateIn(n, dom) <= u /\ \A k \in Months : n < k => u < DateIn(k, dom)
  BY DEF Habit, Series
<1> QED
  BY <1>1 DEF Monthly

\* A category has become F, as it was E: on the same day of the month, for the same amount.
Continues(E, F, c, d, home) ==
  /\ F # {} => Monthly(F, d)
  /\ \A e \in F : e.amount \in Nat \ {0} /\ e.words = "plain" /\ e.direction = Way(c)
  /\ Worth(F) = Worth(E)
  /\ \A t, until : DueDays(F, t, until) = DueDays(E, t, until)
  /\ (\A e, f \in E : e.currency = home /\ e.amount = f.amount) =>
       \A e, f \in F : e.currency = home /\ e.amount = f.amount

\* Each category goes on as it was.
LEMMA CategoryGoesOn ==
  ASSUME NEW R, NEW S, NEW u \in Nat, NEW home, Settled(R), Punctual(R, u), GoesOn(R, S, u, home), NEW c \in Kinds
  PROVE  Continues(Of(R, c), Of(S, c), c, u + 1, home)
<1>1. PICK E, F : E = Of(R, c) /\ F = Of(S, c)
  OBVIOUS
<1>2. PICK d \in Nat : d = u + 1
  OBVIOUS
<1>3. CASE E = {}
  <2>1. d \notin DueDays(E, u, d)
    BY <1>3 DEF DueDays
  <2>2. F = E
    BY <1>1, <1>2, <2>1 DEF GoesOn
  <2> QED
    BY <1>1, <1>3, <2>2 DEF Continues
<1>4. CASE E # {}
  <2>1. PICK m, n \in Months : \E dom \in 1..28 : Habit(E, m, n, dom, u, Way(c))
    BY <1>1, <1>4, HabitsExist
  <2>2. PICK dom \in 1..28 : Habit(E, m, n, dom, u, Way(c))
    BY <2>1
  <2>3. CASE d \notin DueDays(E, u, d)
    <3>1. F = E
      BY <1>1, <1>2, <2>3 DEF GoesOn
    <3>2. Habit(F, m, n, dom, d, Way(c))
      BY <1>2, <2>2, <2>3, <3>1, HabitRests
    <3>3. Monthly(F, d)
      BY <3>2, HabitIsMonthly
    <3>4. \A e \in F : e.amount \in Nat \ {0} /\ e.words = "plain" /\ e.direction = Way(c)
      BY <3>2 DEF Habit
    <3> QED
      BY <1>1, <1>2, <3>1, <3>3, <3>4 DEF Continues
  <2>4. CASE d \in DueDays(E, u, d)
    <3>1. PICK x : /\ F = E \union {x}
                   /\ x.date = d /\ x.id \in Int /\ x.amount = Worth(E) /\ x.words = "plain"
                   /\ x.direction = Way(c) /\ x.status = "settled" /\ x.currency = home
      BY <1>1, <1>2, <2>4 DEF GoesOn
    <3>2. Habit(F, m, n + 1, dom, d, Way(c)) /\ Worth(F) = Worth(E)
      BY <1>2, <2>2, <2>4, <3>1, HabitPaid
    <3>3. Monthly(F, d)
      BY <3>2, HabitIsMonthly
    <3>4. \A e \in F : e.amount \in Nat \ {0} /\ e.words = "plain" /\ e.direction = Way(c)
      BY <3>2 DEF Habit
    <3>5. ASSUME NEW t, NEW until PROVE DueDays(F, t, until) = DueDays(E, t, until)
      <4>1. DueDays(F, t, until) = Coming(dom, t, until)
        BY <3>2, HabitDays
      <4>2. DueDays(E, t, until) = Coming(dom, t, until)
        BY <2>2, HabitDays
      <4> QED
        BY <4>1, <4>2
    <3>6. ASSUME \A e, f \in E : e.currency = home /\ e.amount = f.amount
          PROVE  \A e, f \in F : e.currency = home /\ e.amount = f.amount
      <4>1. PICK W : W = Recent(E, Window)
        OBVIOUS
      <4>2. Amounts(W) /\ W # {} /\ W \subseteq E
        BY <2>2, <4>1, HabitHas
      <4>3. PICK y \in W : TRUE
        BY <4>2
      <4>4. \A e \in W : e.amount = y.amount
        BY <3>6, <4>2
      <4>5. Worth(E) = y.amount
        BY <4>1, <4>2, <4>4, EqualAmounts DEF Worth
      <4>6. y \in E
        BY <4>2
      <4> QED
        BY <3>1, <3>6, <4>5, <4>6
    <3> QED
      BY <1>1, <1>2, <3>2, <3>3, <3>4, <3>5, <3>6 DEF Continues
  <2> QED
    BY <2>3, <2>4
<1> QED
  BY <1>3, <1>4

\* So a punctual user stays one.
LEMMA PunctualGoesOn ==
  ASSUME NEW R, NEW S, NEW u \in Nat, NEW home, Settled(R), Punctual(R, u), GoesOn(R, S, u, home)
  PROVE  /\ Punctual(S, u + 1)
         /\ \A older : Even(R, home, older) => Even(S, home, older)
<1>1. PICK d \in Nat : d = u + 1
  OBVIOUS
<1>2. \A c \in Kinds : Continues(Of(R, c), Of(S, c), c, d, home)
  BY <1>1, CategoryGoesOn
<1>3. Punctual(S, d)
  BY <1>2 DEF Punctual, Kinds, Way, Continues
<1>4. ASSUME NEW older, Even(R, home, older) PROVE Even(S, home, older)
  <2>1. \A c \in Kinds : \A e, f \in Of(S, c) : e.currency = home /\ e.amount = f.amount
    BY <1>2, <1>4 DEF Even, Kinds, Continues
  <2>2. ASSUME older, NEW e \in S PROVE e.category \notin VariableCategories
    <3>1. Kinds \intersect VariableCategories = {}
      BY KindsAssumption DEF Kinds
    <3> QED
      BY <1>4, <2>2, <3>1 DEF GoesOn, Even
  <2> QED
    BY <2>1, <2>2 DEF Even, Kinds
<1> QED
  BY <1>1, <1>3, <1>4

\* And what was foretold of later days stays foretold.
LEMMA ForetoldGoesOn ==
  ASSUME NEW R, NEW S, NEW u \in Nat, NEW home, Settled(R), Punctual(R, u), GoesOn(R, S, u, home),
         NEW items, NEW C \in SUBSET Kinds, NEW until, Foretold(items, R, C, u, until)
  PROVE  Foretold(After(items, u + 1), S, C, u + 1, until)
<1>1. PICK d \in Nat : d = u + 1
  OBVIOUS
<1>2. PICK F : F = After(items, d)
  OBVIOUS
<1>3. \A i : i \in F <=> i \in items /\ d < i.date
  BY <1>2 DEF After
<1>4. ASSUME NEW c \in C
      PROVE  /\ Worth(Of(S, c)) = Worth(Of(R, c))
             /\ \A x : x \in DueDays(Of(S, c), d, until) <=> x \in DueDays(Of(R, c), u, until) /\ d < x
  <2>1. Worth(Of(S, c)) = Worth(Of(R, c)) /\ DueDays(Of(S, c), d, until) = DueDays(Of(R, c), d, until)
    BY CategoryGoesOn DEF Continues
  <2>2. \A x : x \in DueDays(Of(R, c), d, until) <=> x \in DueDays(Of(R, c), u, until) /\ d < x
    <3>1. \A x \in Date : d < x => u < x
      BY <1>1, DatesAreNumbers
    <3> QED
      BY <3>1 DEF DueDays
  <2> QED
    BY <2>1, <2>2
<1>5. \A i \in items : /\ i.category \in C /\ i.amount = Worth(Of(R, i.category))
                       /\ i.date \in DueDays(Of(R, i.category), u, until)
  BY DEF Foretold
<1>6. \A c \in C : \A x \in DueDays(Of(R, c), u, until) : \E i \in items : i.category = c /\ i.date = x
  BY DEF Foretold
<1>7. \A i, j \in items : i.date = j.date /\ i.category = j.category => i = j
  BY DEF Foretold
<1>8. \A i \in F : /\ i.category \in C /\ i.amount = Worth(Of(S, i.category))
                   /\ i.date \in DueDays(Of(S, i.category), d, until)
  BY <1>3, <1>4, <1>5
<1>9. \A c \in C : \A x \in DueDays(Of(S, c), d, until) : \E i \in F : i.category = c /\ i.date = x
  BY <1>3, <1>4, <1>6
<1>10. \A i, j \in F : i.date = j.date /\ i.category = j.category => i = j
  BY <1>3, <1>7
<1>11. Foretold(F, S, C, d, until)
  BY <1>8, <1>9, <1>10 DEF Foretold
<1> QED
  BY <1>1, <1>2, <1>11

\* A row by which a bill, or pay, of a category is paid at home.
Pays(r, c, d, a, home) ==
  /\ Whole(r) /\ r.category = c /\ r.date = d /\ r.words = "plain" /\ r.verified
  /\ r.direction = Way(c) /\ r.currency = home
  /\ a = IF r.amount < 0 THEN -r.amount ELSE r.amount

\* One row for each category that is due, and no other, goes on as it was projected.
LEMMA RowsGoOn ==
  ASSUME NEW S, \A r \in S : Whole(r), NEW home, NEW u \in Nat, NEW R, R = Resolved(S, home), NEW N,
         \A r \in N : /\ r.category \in Kinds /\ u + 1 \in DueDays(Of(R, r.category), u, u + 1)
                      /\ Pays(r, r.category, u + 1, Worth(Of(R, r.category)), home),
         \A c \in Kinds : u + 1 \in DueDays(Of(R, c), u, u + 1) => \E r \in N : r.category = c,
         \A r, q \in N : r.category = q.category => r = q
  PROVE  /\ \A r \in S \union N : Whole(r)
         /\ GoesOn(R, Resolved(S \union N, home), u, home)
<1>1. PICK d \in Nat : d = u + 1
  OBVIOUS
<1>2. PICK T, R1 : T = S \union N /\ R1 = Resolved(T, home)
  OBVIOUS
<1>3. \A r \in T : Whole(r)
  BY <1>2 DEF Pays
<1>4. PICK g : g = [r \in T |-> AtHome(r, InHome(EventOf(r), home))]
  OBVIOUS
<1>5. \A e : e \in R1 <=> \E r \in T : Counts(r) /\ e = g[r]
  <2>1. \A e : e \in Resolved(T, home) <=> \E r \in T : Counts(r) /\ e = AtHome(r, InHome(EventOf(r), home))
    BY <1>3, WholeResolved
  <2>2. \A r \in T : g[r] = AtHome(r, InHome(EventOf(r), home))
    BY <1>4
  <2> QED
    BY <1>2, <2>1, <2>2
<1>6. \A e : e \in R <=> \E r \in S : Counts(r) /\ e = g[r]
  <2>1. \A e : e \in Resolved(S, home) <=> \E r \in S : Counts(r) /\ e = AtHome(r, InHome(EventOf(r), home))
    BY WholeResolved
  <2>2. \A r \in S : g[r] = AtHome(r, InHome(EventOf(r), home))
    BY <1>2, <1>4
  <2> QED
    BY <2>1, <2>2
<1>7. \A r \in T : g[r].category = r.category
  BY <1>3, <1>4, WholeEvents
<1>8. ASSUME NEW r \in N
      PROVE  Counts(r)
  <2>1. Of(R, r.category) # {}
    BY <1>8 DEF DueDays
  <2>2. PICK e \in R : e.category = r.category
    BY <2>1 DEF Of
  <2>3. PICK q \in S : Counts(q) /\ e = g[q]
    BY <1>6
  <2>4. q.category = r.category
    BY <1>2, <1>7, <2>2, <2>3
  <2>5. r.kind \in {"expense", "income"} /\ r.words = "plain" /\ r.verified
    BY <1>8 DEF Pays, Whole, Plainly
  <2> QED
    BY <2>3, <2>4, <2>5 DEF Counts
<1>9. ASSUME NEW r \in N
      PROVE  /\ g[r].date = d /\ g[r].id \in Int /\ g[r].amount = Worth(Of(R, r.category))
             /\ g[r].words = "plain" /\ g[r].direction = Way(r.category)
             /\ g[r].status = "settled" /\ g[r].currency = home
  <2>1. PICK a : a = Worth(Of(R, r.category))
    OBVIOUS
  <2>2. Pays(r, r.category, d, a, home)
    BY <1>1, <1>9, <2>1
  <2>3. PICK o, b : o = EventOf(r) /\ b = InHome(o, home)
    OBVIOUS
  <2>4. Whole(r) /\ g[r] = AtHome(r, b)
    BY <1>2, <1>4, <2>2, <2>3 DEF Pays
  <2>5. o.currency = home /\ o.amount = a
    BY <2>2, <2>3, <2>4, WholeEvents DEF Pays
  <2>6. b = a
    BY <2>3, <2>5 DEF InHome, Converted
  <2>7. /\ g[r].date = r.date /\ g[r].id \in Int /\ g[r].amount = b /\ g[r].words = r.words
        /\ g[r].direction = r.direction /\ g[r].status = r.status /\ g[r].currency = r.currency
    BY <2>4, WholeEvents
  <2> QED
    BY <2>1, <2>2, <2>6, <2>7 DEF Pays, Whole, Plainly
<1>10. R \subseteq R1
  BY <1>2, <1>5, <1>6
<1>11. \A e \in R1 : e \in R \/ e.category \in Kinds
  <2> SUFFICES ASSUME NEW e \in R1, e \notin R PROVE e.category \in Kinds
    OBVIOUS
  <2>1. PICK r \in T : Counts(r) /\ e = g[r]
    BY <1>5
  <2>2. r \in N
    BY <1>2, <1>6, <2>1
  <2> QED
    BY <1>7, <2>1, <2>2
<1>12. ASSUME NEW c \in Kinds, d \notin DueDays(Of(R, c), u, d)
       PROVE  Of(R1, c) = Of(R, c)
  <2>1. \A r \in N : r.category # c
    BY <1>1, <1>12
  <2>2. ASSUME NEW e \in R1, e.category = c PROVE e \in R
    <3>1. PICK r \in T : Counts(r) /\ e = g[r]
      BY <1>5
    <3>2. r \in S
      BY <1>2, <1>7, <2>1, <2>2, <3>1
    <3> QED
      BY <1>6, <3>1, <3>2
  <2> QED
    BY <1>10, <2>2 DEF Of
<1>13. ASSUME NEW c \in Kinds, d \in DueDays(Of(R, c), u, d)
       PROVE  \E x : /\ Of(R1, c) = Of(R, c) \union {x}
                     /\ x.date = d /\ x.id \in Int /\ x.amount = Worth(Of(R, c)) /\ x.words = "plain"
                     /\ x.direction = Way(c) /\ x.status = "settled" /\ x.currency = home
  <2>1. PICK r \in N : r.category = c
    BY <1>1, <1>13
  <2>2. g[r] \in R1 /\ g[r].category = c
    BY <1>2, <1>5, <1>7, <1>8, <2>1
  <2>3. \A e \in R1 : e.category = c => e \in R \/ e = g[r]
    <3> SUFFICES ASSUME NEW e \in R1, e.category = c, e \notin R PROVE e = g[r]
      OBVIOUS
    <3>1. PICK q \in T : Counts(q) /\ e = g[q]
      BY <1>5
    <3>2. q \in N /\ q.category = c
      BY <1>2, <1>6, <1>7, <3>1
    <3> QED
      BY <2>1, <3>1, <3>2
  <2>4. Of(R1, c) = Of(R, c) \union {g[r]}
    BY <1>10, <2>2, <2>3 DEF Of
  <2> QED
    BY <1>9, <2>1, <2>4
<1>14. GoesOn(R, R1, u, home)
  BY <1>1, <1>10, <1>11, <1>12, <1>13 DEF GoesOn
<1> QED
  BY <1>2, <1>3, <1>14

\* What is due is worth something.
LEMMA DueIsWorth ==
  ASSUME NEW R, NEW u \in Nat, Settled(R), Punctual(R, u), NEW c \in Kinds, Of(R, c) # {}
  PROVE  Worth(Of(R, c)) \in Nat
<1>1. PICK m, n \in Months : \E dom \in 1..28 : Habit(Of(R, c), m, n, dom, u, Way(c))
  BY HabitsExist
<1>2. PICK dom \in 1..28 : Habit(Of(R, c), m, n, dom, u, Way(c))
  BY <1>1
<1> QED
  BY <1>2, HabitHas

\* The row of a day's bill or pay pays it.
LEMMA PaidRowPays ==
  ASSUME NEW k \in Nat, NEW d \in Nat, NEW c, NEW a \in Nat, NEW signed \in Int,
         a = IF signed < 0 THEN -signed ELSE signed
  PROVE  Pays(PaidRow(k, d, signed, c, Way(c)), c, d, a, world.home)
<1>1. PICK r : r = PaidRow(k, d, signed, c, Way(c))
  OBVIOUS
<1>2. RowFields \subseteq DOMAIN r
  BY <1>1 DEF PaidRow, RowFields
<1>3. /\ r.id = 10000 + 10 * d + k /\ r.external = NoId /\ r.date = d /\ r.amount = signed /\ r.category = c
      /\ r.currency = world.home /\ r.direction = Way(c) /\ r.status = "settled" /\ r.words = "plain"
      /\ r.verified = TRUE /\ r.kind = (IF Way(c) = "debit" THEN "expense" ELSE "income")
  BY <1>1 DEF PaidRow
<1>4. Plainly(r)
  <2>1. r.direction \in {"debit", "credit"} /\ r.kind \in {"expense", "income"}
    BY <1>3 DEF Way
  <2> QED
    BY <1>3, <2>1 DEF Plainly
<1>5. r.id \in Int /\ r.external \in Int /\ r.date \in Nat /\ r.amount \in Int
  BY <1>3, IdsAssumption
<1>6. Whole(r)
  BY <1>2, <1>4, <1>5 DEF Whole
<1> QED
  BY <1>1, <1>3, <1>6 DEF Pays

\* On a day that passes as it was forecast, what is due is paid, and nothing else.
LEMMA DayPays ==
  ASSUME RowsInv, today \in Nat, PassDay, \A r \in rows : Whole(r),
         Punctual(Resolved(rows, world.home), today), today + 1 <= Forecast.until,
         Tells(Forecast, Resolved(rows, world.home), today, Forecast.until)
  PROVE  /\ \A r \in rows' : Whole(r)
         /\ GoesOn(Resolved(rows, world.home), Resolved(rows', world.home), today, world.home)
<1>1. PICK d \in Nat : d = today + 1
  OBVIOUS
<1>2. PICK R, F, home : R = Resolved(rows, world.home) /\ F = Forecast /\ home = world.home
  OBVIOUS
<1>3. Settled(R) /\ Punctual(R, today)
  BY <1>2, WholeSettled
<1>4. PICK bills, salary : bills = On(F.bills, d) /\ salary = On(F.salary, d)
  OBVIOUS
<1>5. PICK until : until = F.until
  OBVIOUS
<1>6. d <= until
  BY <1>1, <1>2, <1>5
<1>7. \A c : \A e \in DueDays(Of(R, c), today, until) : e = d => d \in DueDays(Of(R, c), today, d) /\ Of(R, c) # {}
  BY <1>1 DEF DueDays
<1>8. \A c : d \in DueDays(Of(R, c), today, d) => d \in DueDays(Of(R, c), today, until)
  BY <1>6 DEF DueDays
<1>9. Foretold(F.bills, R, FixedCategories, today, until) /\ Foretold(F.salary, R, {"salary"}, today, until)
  BY <1>2, <1>5 DEF Tells
<1>10. ASSUME NEW i \in bills
       PROVE  /\ i.category \in FixedCategories /\ i.category \in Kinds /\ Way(i.category) = "debit"
              /\ i.amount = Worth(Of(R, i.category)) /\ i.amount \in Nat /\ i.date = d
              /\ d \in DueDays(Of(R, i.category), today, d)
  <2>1. i \in F.bills /\ i.date = d
    BY <1>4 DEF On
  <2>2. /\ i.category \in FixedCategories /\ i.amount = Worth(Of(R, i.category))
        /\ i.date \in DueDays(Of(R, i.category), today, until)
    BY <1>9, <2>1 DEF Foretold
  <2>3. i.category \in Kinds /\ Way(i.category) = "debit"
    BY <2>2, KindsAssumption DEF Kinds, Way
  <2>4. d \in DueDays(Of(R, i.category), today, d) /\ Of(R, i.category) # {}
    BY <1>7, <2>1, <2>2
  <2> QED
    BY <1>3, <2>1, <2>2, <2>3, <2>4, DueIsWorth
<1>11. ASSUME NEW i \in salary
       PROVE  /\ i.category = "salary" /\ i.amount = Worth(Of(R, "salary")) /\ i.amount \in Nat /\ i.date = d
              /\ d \in DueDays(Of(R, "salary"), today, d)
  <2>1. i \in F.salary /\ i.date = d
    BY <1>4 DEF On
  <2>2. /\ i.category = "salary" /\ i.amount = Worth(Of(R, "salary"))
        /\ i.date \in DueDays(Of(R, "salary"), today, until)
    BY <1>9, <2>1 DEF Foretold
  <2>3. "salary" \in Kinds
    BY DEF Kinds
  <2>4. d \in DueDays(Of(R, "salary"), today, d) /\ Of(R, "salary") # {}
    BY <1>7, <2>1, <2>2
  <2> QED
    BY <1>3, <2>1, <2>2, <2>3, <2>4, DueIsWorth
<1>12. PICK Number : Number = [i \in bills |-> 1 + Cardinality({j \in bills : j.change < i.change})]
  OBVIOUS
<1>13. \A i \in bills : Number[i] \in Nat
  <2>1. FinitePlan(F)
    BY <1>2, SayingIsFinite DEF Forecast, RowsInv
  <2>2. IsFiniteSet(bills)
    BY <1>4, <2>1, FS_Subset DEF FinitePlan, On
  <2> SUFFICES ASSUME NEW i \in bills PROVE Number[i] \in Nat
    OBVIOUS
  <2>3. PICK T : T = {j \in bills : j.change < i.change}
    OBVIOUS
  <2>4. Cardinality(T) \in Nat
    BY <2>2, <2>3, FS_Subset, FS_CardinalityType
  <2> QED
    BY <1>12, <2>3, <2>4
<1>14. PICK f : f = [i \in bills |-> PaidRow(Number[i], d, -i.amount, i.category, "debit")]
  OBVIOUS
<1>15. PICK g : g = [i \in salary |-> PaidRow(0, d, i.amount, "salary", "credit")]
  OBVIOUS
<1>16. PICK N : N = {f[i] : i \in bills} \union {g[i] : i \in salary}
  OBVIOUS
<1>17. rows' = rows \union N
  BY <1>1, <1>2, <1>4, <1>12, <1>14, <1>15, <1>16 DEF PassDay
<1>18. ASSUME NEW i \in bills
       PROVE  f[i].category = i.category /\ Pays(f[i], i.category, d, Worth(Of(R, i.category)), home)
  <2>1. PICK k \in Nat, a \in Nat : k = Number[i] /\ a = i.amount
    BY <1>10, <1>13
  <2>2. PICK signed \in Int : signed = -a
    OBVIOUS
  <2>3. a = IF signed < 0 THEN -signed ELSE signed
    BY <2>2
  <2>4. f[i] = PaidRow(k, d, signed, i.category, Way(i.category))
    BY <1>10, <1>14, <2>1, <2>2
  <2>5. Pays(f[i], i.category, d, a, world.home)
    BY <2>3, <2>4, PaidRowPays
  <2> QED
    BY <1>2, <1>10, <2>1, <2>5 DEF Pays
<1>19. ASSUME NEW i \in salary
       PROVE  g[i].category = "salary" /\ Pays(g[i], "salary", d, Worth(Of(R, "salary")), home)
  <2>1. PICK a \in Nat : a = i.amount
    BY <1>11
  <2>2. a = (IF a < 0 THEN -a ELSE a) /\ a \in Int /\ 0 \in Nat
    OBVIOUS
  <2>3. g[i] = PaidRow(0, d, a, "salary", Way("salary"))
    BY <1>15, <2>1 DEF Way
  <2>4. Pays(g[i], "salary", d, a, world.home)
    BY <2>2, <2>3, PaidRowPays
  <2> QED
    BY <1>2, <1>11, <2>1, <2>4 DEF Pays
<1>20. \A r \in N : \/ \E i \in bills : r = f[i] /\ r.category = i.category
                    \/ \E i \in salary : r = g[i] /\ r.category = "salary"
  BY <1>16, <1>18, <1>19
<1>21. "salary" \notin FixedCategories /\ "salary" \in Kinds
  BY KindsAssumption DEF Kinds
<1>22. \A r \in N : /\ r.category \in Kinds /\ d \in DueDays(Of(R, r.category), today, d)
                    /\ Pays(r, r.category, d, Worth(Of(R, r.category)), home)
  BY <1>10, <1>11, <1>18, <1>19, <1>20, <1>21
<1>23. ASSUME NEW c \in Kinds, d \in DueDays(Of(R, c), today, d) PROVE \E r \in N : r.category = c
  <2>1. d \in DueDays(Of(R, c), today, until)
    BY <1>8, <1>23
  <2>2. CASE c \in FixedCategories
    <3>1. PICK i \in F.bills : i.category = c /\ i.date = d
      BY <1>9, <2>1, <2>2 DEF Foretold
    <3>2. i \in bills
      BY <1>4, <3>1 DEF On
    <3> QED
      BY <1>16, <1>18, <3>1, <3>2
  <2>3. CASE c = "salary"
    <3>1. PICK i \in F.salary : i.category = c /\ i.date = d
      BY <1>9, <2>1, <2>3 DEF Foretold
    <3>2. i \in salary
      BY <1>4, <3>1 DEF On
    <3> QED
      BY <1>16, <1>19, <2>3, <3>2
  <2> QED
    BY <2>2, <2>3 DEF Kinds
<1>24. ASSUME NEW r \in N, NEW q \in N, r.category = q.category PROVE r = q
  <2>1. \A i, j \in bills : i.category = j.category => i = j
    <3>1. \A i, j \in F.bills : i.date = j.date /\ i.category = j.category => i = j
      BY <1>9 DEF Foretold
    <3> QED
      BY <1>4, <3>1 DEF On
  <2>2. \A i, j \in salary : i = j
    <3>1. \A i, j \in F.salary : i.date = j.date /\ i.category = j.category => i = j
      BY <1>9 DEF Foretold
    <3>2. \A i \in salary : i \in F.salary /\ i.date = d /\ i.category = "salary"
      BY <1>4, <1>11 DEF On
    <3> QED
      BY <3>1, <3>2
  <2> QED
    BY <1>10, <1>20, <1>21, <1>24, <2>1, <2>2
<1>25. PICK S : S = rows
  OBVIOUS
<1>26. (\A r \in S \union N : Whole(r)) /\ GoesOn(R, Resolved(S \union N, home), today, home)
  BY <1>1, <1>2, <1>22, <1>23, <1>24, <1>25, RowsGoOn
<1> QED
  BY <1>2, <1>17, <1>25, <1>26

-----------------------------------------------------------------------------
(* A regular user's forecast comes true *)

\* Until when the bills and the pay that have come are known to be all there were.
Upto == IF world.follows = "none" THEN world.first ELSE today

\* What a user's rows come to.
Past == Resolved(rows, world.home)

\* What is known of a regular user: the rows are as they are projected, and every
\* forecast, made or lived after, tells what is due.
RegularInv ==
  /\ \A r \in rows : Whole(r)
  /\ today \in Date /\ world.first <= today
  /\ Punctual(Past, Upto)
  /\ world.follows = "batch" => Even(Past, world.home, world.version = "older")
  /\ world.follows = "none" => lived = Unlived
  /\ lived # Unlived => /\ lived.until \in Nat
                        /\ world.first + Horizon <= lived.until /\ lived.until <= today + Horizon
                        /\ Tells(lived, Past, today, lived.until)
  /\ world.follows = "engine" /\ state # Nothing => Tells(state, Past, today, today + Horizon)
  /\ world.follows = "batch" /\ batch # Nothing => Tells(batch, Past, today, today + Horizon)

\* It is so at first.
LEMMA InitRegular == Init /\ Regular(world) => RegularInv
<1> SUFFICES ASSUME Init, Regular(world) PROVE RegularInv
  OBVIOUS
<1>1. world \in World
  BY WorldsAssumption DEF Init
<1>2. rows \subseteq Row /\ world.first \in Date /\ today = world.first /\ rows = world.rows
  BY <1>1 DEF Init, World
<1>3. today \in Date /\ world.first <= today
  BY <1>2, DatesAreNumbers
<1>4. ASSUME NEW r \in rows PROVE Whole(r)
  <2>1. r \in Row /\ Plainly(r)
    BY <1>2 DEF Regular
  <2>2. RowFields \subseteq DOMAIN r
    BY <2>1 DEF Row, RowFields
  <2>3. r.id \in Ids /\ r.external \in Ids \union {NoId} /\ r.date \in Nat /\ r.amount \in Int
    BY <2>1 DEF Row
  <2>4. r.id \in Int /\ r.external \in Int
    <3>1. Ids \subseteq Int /\ NoId \in Int
      BY IdsAssumption
    <3>2. Ids \union {NoId} \subseteq Int
      BY <3>1
    <3> QED
      BY <2>3, <3>1, <3>2
  <2> QED
    BY <2>1, <2>2, <2>3, <2>4 DEF Whole
<1>5. Past = Resolved(world.rows, world.home)
  BY <1>2 DEF Past
<1>6. Upto = world.first
  BY <1>2 DEF Upto
<1>7. /\ Punctual(Past, Upto)
      /\ world.follows = "batch" => Even(Past, world.home, world.version = "older")
  BY <1>5, <1>6 DEF Regular
<1>8. lived = Unlived /\ state = Nothing /\ batch = Nothing
  BY DEF Init
<1> QED
  BY <1>3, <1>4, <1>7, <1>8 DEF RegularInv

\* What a state says tells what the state does.
LEMMA SaysTells ==
  ASSUME NEW s, NEW R, Tells(s, R, today, today + Horizon)
  PROVE  Tells(Says(s), R, today, today + Horizon) /\ Says(s).until = today + Horizon
<1>1. PICK f : f = [i \in s.bills |-> [date |-> i.date, amount |-> i.amount, category |-> i.category,
                                       change |-> i.change]]
  OBVIOUS
<1>2. PICK B, t, v : B = Says(s).bills /\ t = today /\ v = today + Horizon
  OBVIOUS
<1>3. B = {f[i] : i \in s.bills}
  BY <1>1, <1>2 DEF Says
<1>4. \A i \in s.bills : f[i].date = i.date /\ f[i].amount = i.amount /\ f[i].category = i.category
  BY <1>1
<1>5. Foretold(s.bills, R, FixedCategories, t, v)
  BY <1>2 DEF Tells
<1>6. \A i \in B : /\ i.category \in FixedCategories /\ i.amount = Worth(Of(R, i.category))
                   /\ i.date \in DueDays(Of(R, i.category), t, v)
  BY <1>3, <1>4, <1>5 DEF Foretold
<1>7. \A c \in FixedCategories : \A d \in DueDays(Of(R, c), t, v) : \E i \in B : i.category = c /\ i.date = d
  BY <1>3, <1>4, <1>5 DEF Foretold
<1>8. \A i, j \in B : i.date = j.date /\ i.category = j.category => i = j
  BY <1>3, <1>4, <1>5 DEF Foretold
<1>9. Foretold(B, R, FixedCategories, t, v)
  BY <1>6, <1>7, <1>8 DEF Foretold
<1>10. Says(s).salary = s.salary /\ Says(s).until = today + Horizon
  BY DEF Says
<1> QED
  BY <1>2, <1>9, <1>10 DEF Tells

\* The forecast that comes true tells what is due, through the last day lived.
LEMMA ForecastTells ==
  ASSUME RegularInv, Regular(world), RequestInv, world.follows # "none", Forecast # Unlived
  PROVE  /\ Tells(Forecast, Past, today, Forecast.until) /\ Forecast.until \in Nat
         /\ world.first + Horizon <= Forecast.until /\ Forecast.until <= today + Horizon
<1>1. world.follows \in {"engine", "batch"} /\ world.first \in Nat /\ today \in Nat /\ world.first <= today
  BY WorldsAssumption, DatesAreNumbers DEF RequestInv, World, RegularInv
<1>2. CASE world.follows = "engine" /\ state # Nothing
  <2>1. Forecast = Says(state)
    BY <1>2 DEF Forecast
  <2>2. Tells(state, Past, today, today + Horizon)
    BY <1>2 DEF RegularInv
  <2>3. Tells(Says(state), Past, today, today + Horizon) /\ Says(state).until = today + Horizon
    BY <2>2, SaysTells
  <2> QED
    BY <1>1, <2>1, <2>3 DEF Horizon
<1>3. CASE world.follows = "batch" /\ batch # Nothing
  <2>1. Forecast = Says(batch)
    BY <1>3 DEF Forecast
  <2>2. Tells(batch, Past, today, today + Horizon)
    BY <1>3 DEF RegularInv
  <2>3. Tells(Says(batch), Past, today, today + Horizon) /\ Says(batch).until = today + Horizon
    BY <2>2, SaysTells
  <2> QED
    BY <1>1, <2>1, <2>3 DEF Horizon
<1>4. CASE ~(world.follows = "engine" /\ state # Nothing) /\ ~(world.follows = "batch" /\ batch # Nothing)
  <2>1. Forecast = lived
    BY <1>4 DEF Forecast
  <2> QED
    BY <2>1 DEF RegularInv
<1> QED
  BY <1>2, <1>3, <1>4

\* A day that passes keeps it so.
LEMMA RegularDay ==
  ASSUME RegularInv, Regular(world), RequestInv, RowsInv, PassDay
  PROVE  RegularInv'
<1>1. /\ world \in World /\ world.first \in Nat /\ today \in Nat /\ world.final \in Date /\ world.final \in Nat
      /\ today \in Date
  BY WorldsAssumption, DatesAreNumbers DEF RequestInv, World, RegularInv
<1>2. /\ today' = today + 1 /\ today < world.final /\ world' = world
      /\ state' = Nothing /\ batch' = Nothing
  BY DEF PassDay
<1>3. today' \in Date /\ world.first <= today'
  <2>1. world.first <= today
    BY DEF RegularInv
  <2>2. PICK z \in Nat : Date = 1..z
    <3>1. PICK N \in Nat \ {0} : /\ N = Len(MonthLength) /\ Months = 1..N
                               /\ \A m \in 1..N : MonthLength[m] \in 28..31
      BY MonthsAre
    <3>2. N \in Months
      BY <3>1
    <3>3. PICK a \in Nat, b \in Nat : a = Eve[N] /\ b = MonthLength[N]
      BY <3>1, <3>2, EveGrows
    <3>4. a + b \in Nat
      OBVIOUS
    <3> QED
      BY <3>1, <3>3, <3>4 DEF Date
  <2> QED
    BY <1>1, <1>2, <2>1, <2>2
<1>4. CASE world.follows = "none"
  <2>1. Forecast = Unlived
    BY <1>4 DEF Forecast, RegularInv
  <2>2. \A d : On(Forecast.bills, d) = {} /\ On(Forecast.salary, d) = {} /\ After(Forecast.bills, d) = {}
               /\ After(Forecast.salary, d) = {} /\ Forecast.until = 0
    BY <2>1 DEF Unlived, On, After
  <2>3. rows' = rows
    BY <2>2 DEF PassDay
  <2>4. lived' = Unlived
    BY <2>2 DEF PassDay, Unlived
  <2>5. Past' = Past
    BY <1>2, <2>3 DEF Past
  <2>6. Upto' = Upto
    BY <1>2, <1>4 DEF Upto
  <2> QED
    BY <1>2, <1>3, <1>4, <2>3, <2>4, <2>5, <2>6 DEF RegularInv
<1>5. CASE world.follows # "none"
  <2>1. Forecast # Unlived
    BY <1>5 DEF PassDay
  <2>2. /\ Tells(Forecast, Past, today, Forecast.until) /\ Forecast.until \in Nat
        /\ world.first + Horizon <= Forecast.until /\ Forecast.until <= today + Horizon
    BY <1>5, <2>1, ForecastTells
  <2>3. Upto = today /\ Upto' = today'
    BY <1>2, <1>5 DEF Upto
  <2>4. PICK d, until : d = today + 1 /\ until = Forecast.until /\ d \in Nat /\ until \in Nat
    <3>1. today + 1 \in Nat
      BY <1>1
    <3> QED
      BY <2>2, <3>1
  <2>5. d <= until /\ until <= d + Horizon
    <3>1. world.final <= world.first + Horizon
      BY <1>5 DEF Regular
    <3> QED
      BY <1>1, <1>2, <2>2, <2>4, <3>1 DEF Horizon
  <2>6. PICK R, S : R = Past /\ S = Past'
    OBVIOUS
  <2>7. (\A r \in rows : Whole(r)) /\ Punctual(R, today)
    BY <2>3, <2>6 DEF RegularInv
  <2>8. Settled(R)
    BY <2>6, <2>7, WholeSettled DEF Past
  <2>9. (\A r \in rows' : Whole(r)) /\ GoesOn(R, S, today, world.home)
    <3>1. today + 1 <= Forecast.until
      BY <2>4, <2>5
    <3>2. Past' = Resolved(rows', world.home)
      BY <1>2 DEF Past
    <3> QED
      BY <1>1, <2>2, <2>6, <2>7, <3>1, <3>2, DayPays DEF Past
  <2>10. /\ Punctual(S, d)
         /\ \A older : Even(R, world.home, older) => Even(S, world.home, older)
    BY <1>1, <2>4, <2>7, <2>8, <2>9, PunctualGoesOn
  <2>11. PICK F : F = Forecast
    OBVIOUS
  <2>12. lived'.until = until /\ lived'.bills = After(F.bills, d) /\ lived'.salary = After(F.salary, d)
    BY <2>4, <2>11 DEF PassDay
  <2>13. Foretold(F.bills, R, FixedCategories, today, until) /\ Foretold(F.salary, R, {"salary"}, today, until)
    BY <2>2, <2>4, <2>6, <2>11 DEF Tells
  <2>14. FixedCategories \in SUBSET Kinds /\ {"salary"} \in SUBSET Kinds
    BY DEF Kinds
  <2>15. Foretold(After(F.bills, d), S, FixedCategories, d, until)
    BY <1>1, <2>4, <2>7, <2>8, <2>9, <2>13, <2>14, ForetoldGoesOn
  <2>16. Foretold(After(F.salary, d), S, {"salary"}, d, until)
    BY <1>1, <2>4, <2>7, <2>8, <2>9, <2>13, <2>14, ForetoldGoesOn
  <2>17. Tells(lived', S, d, until)
    BY <2>12, <2>15, <2>16 DEF Tells
  <2>18. Even(Past, world.home, world.version = "older")' <=> Even(S, world.home, world.version = "older")
    BY <1>2, <2>6
  <2>19. world.follows = "batch" => Even(S, world.home, world.version = "older")
    BY <2>6, <2>10 DEF RegularInv
  <2>20. world.first + Horizon <= until
    BY <2>2, <2>4
  <2> QED
    BY <1>2, <1>3, <1>5, <2>3, <2>4, <2>5, <2>6, <2>9, <2>10, <2>12, <2>17, <2>18, <2>19, <2>20 DEF RegularInv
<1> QED
  BY <1>4, <1>5

\* Every step keeps it so.
LEMMA RegularStep ==
  ASSUME RegularInv, Regular(world), RequestInv, RowsInv, [Next]_vars
  PROVE  RegularInv'
<1>0. /\ world \in World /\ world.bills = {} /\ today \in Date /\ today \in Nat
  BY WorldsAssumption DEF RequestInv, World, Regular, RegularInv
<1>1. ASSUME UNCHANGED <<world, today, rows, lived>>
      PROVE  Past' = Past /\ Upto' = Upto
  BY <1>1 DEF Past, Upto
<1>2. CASE PassDay
  BY <1>2, RegularDay
<1>3. CASE Build
  <2>1. UNCHANGED <<world, today, rows, lived, batch>>
    BY <1>3 DEF Build, user
  <2>2. state' = state \/ state' = EngineState(Past, AvailableBalance, today)
    BY <1>3 DEF Build, Past
  <2>3. world.follows = "engine" /\ state' # Nothing => Tells(state', Past, today, today + Horizon)
    <3>1. CASE state' = state
      BY <3>1 DEF RegularInv
    <3>2. CASE state' = EngineState(Past, AvailableBalance, today)
      <4>1. Settled(Past)
        BY WholeSettled DEF RegularInv, Past
      <4>2. ASSUME world.follows = "engine" PROVE Punctual(Past, today)
        BY <4>2 DEF RegularInv, Upto
      <4>3. today <= today
        BY <1>0
      <4> QED
        BY <1>0, <3>2, <4>1, <4>2, <4>3, EngineForetells
    <3> QED
      BY <2>2, <3>1, <3>2
  <2>4. Past' = Past /\ Upto' = Upto
    BY <1>1, <2>1
  <2> QED
    BY <2>1, <2>3, <2>4 DEF RegularInv
<1>4. CASE RunBatch
  <2>1. UNCHANGED <<world, today, rows, lived, state>>
    BY <1>4 DEF RunBatch, user
  <2>2. ASSUME world.follows = "batch" PROVE Tells(batch', Past, today, today + Horizon)
    <3>1. world.messages = <<>> /\ world.unread = {}
      BY <2>2 DEF Regular
    <3>2. EventsOf(rows) \union world.unread = EventsOf(rows)
      BY <3>1
    <3>3. PICK B, a : B = BatchResolved(EventsOf(rows), world.pictures, world.home) /\ a = AvailableBalance
      OBVIOUS
    <3>4. PICK daily, filtered \in BOOLEAN :
            daily = (world.version # "older") /\ batch' = BatchState(B, a, today, <<>>, daily, filtered)
      BY <1>4, <3>1, <3>2, <3>3 DEF RunBatch, OlderState
    <3>5. Punctual(Past, today) /\ Even(Past, world.home, ~daily)
      <4>1. world.version = "older" <=> ~daily
        BY <3>4
      <4>2. Even(Past, world.home, world.version = "older")
        BY <2>2 DEF RegularInv
      <4>3. Even(Past, world.home, ~daily)
        BY <4>1, <4>2 DEF Even
      <4> QED
        BY <2>2, <4>3 DEF RegularInv, Upto
    <3>6. PICK S, home : S = rows /\ home = world.home
      OBVIOUS
    <3>7. \A r \in S : Whole(r)
      BY <3>6 DEF RegularInv
    <3>8. Punctual(Resolved(S, home), today) /\ Even(Resolved(S, home), home, ~daily)
      BY <3>5, <3>6 DEF Past
    <3>9. Tells(BatchState(BatchResolved(EventsOf(S), world.pictures, home), a, today, <<>>, daily, filtered),
                Resolved(S, home), today, today + Horizon)
      BY <1>0, <3>7, <3>8, BatchTells
    <3> QED
      BY <3>3, <3>4, <3>6, <3>9 DEF Past
  <2>3. Past' = Past /\ Upto' = Upto
    BY <1>1, <2>1
  <2> QED
    BY <2>1, <2>2, <2>3 DEF RegularInv
<1>5. ASSUME \/ \E p \in world.purchases : Ask(p)
             \/ Gate \/ Convert \/ Hang \/ EngineFails \/ Report \/ Rest
             \/ \E d \in Possible(worth) : Decide(d)
             \/ \E committed \in BOOLEAN : Persist(committed)
             \/ UNCHANGED vars
      PROVE  RegularInv'
  <2>1. UNCHANGED <<world, today, rows, lived, state, batch>>
    BY <1>5 DEF Ask, Gate, Convert, Hang, EngineFails, Report, Rest, Decide, Persist, user, request, vars
  <2>2. Past' = Past /\ Upto' = Upto
    BY <1>1, <2>1
  <2> QED
    BY <2>1, <2>2 DEF RegularInv
<1> QED
  BY <1>0, <1>2, <1>3, <1>4, <1>5 DEF Next

\* So it is in every reachable state.
LEMMA RegularHold == Spec => [](Regular(world) => RegularInv)
<1>1. Init => (Regular(world) => RegularInv)
  BY InitRegular
<1>2. RequestInv /\ RowsInv /\ (Regular(world) => RegularInv) /\ [Next]_vars => (Regular(world) => RegularInv)'
  <2>1. [Next]_vars => world' = world
    BY DEF Next, Announce, Confirm, Settle, Withdraw, Refund, PassDay, Ask, Gate, Convert, Build, Hang,
           Decide, EngineFails, Report, Persist, RunBatch, Rest, user, vars
  <2>2. world' = world => (Regular(world)' <=> Regular(world))
    BY DEF Regular
  <2> QED
    BY <2>1, <2>2, RegularStep
<1> QED
  BY <1>1, <1>2, RequestsHold, RowsHold, PTL DEF Spec

\* Two that foretell say the same of the days both look at.
LEMMA SameDue ==
  ASSUME NEW A, NEW B, NEW R, NEW C, today \in Nat, NEW v, NEW until \in Nat, until <= v, v \in Nat,
         Foretold(A, R, C, today, v), Foretold(B, R, C, today, until)
  PROVE  Due(A, until) = Due(B, until)
<1>1. \A c : \A d : d \in DueDays(Of(R, c), today, until) <=> d \in DueDays(Of(R, c), today, v) /\ d <= until
  <2>1. \A d \in Date : d <= until => d <= v
    BY DatesAreNumbers
  <2> QED
    BY <2>1 DEF DueDays
<1>2. PICK g : g = [c \in C |-> Worth(Of(R, c))]
  OBVIOUS
<1>3. \A i \in A : /\ i.category \in C /\ i.amount = g[i.category] /\ i.date \in DueDays(Of(R, i.category), today, v)
  BY <1>2 DEF Foretold
<1>4. \A i \in B : /\ i.category \in C /\ i.amount = g[i.category] /\ i.date \in DueDays(Of(R, i.category), today, until)
  BY <1>2 DEF Foretold
<1>5. \A c \in C : \A d \in DueDays(Of(R, c), today, v) : \E i \in A : i.category = c /\ i.date = d
  BY DEF Foretold
<1>6. \A c \in C : \A d \in DueDays(Of(R, c), today, until) : \E i \in B : i.category = c /\ i.date = d
  BY DEF Foretold
<1>7. ASSUME NEW i \in A, i.date <= until
      PROVE  \E j \in B : j.date = i.date /\ j.amount = i.amount /\ j.category = i.category
  BY <1>1, <1>3, <1>4, <1>6, <1>7
<1>8. ASSUME NEW i \in B
      PROVE  \E j \in A : j.date = i.date /\ j.amount = i.amount /\ j.category = i.category
  BY <1>1, <1>3, <1>4, <1>5
<1>9. \A x \in Due(A, until) : x \in Due(B, until)
  BY <1>7 DEF Due
<1>10. \A x \in Due(B, until) : x \in Due(A, until)
  BY <1>8 DEF Due
<1> QED
  BY <1>9, <1>10

\* For a user whose bills and pay come on their days every month, a forecast that comes
\* true is made again, of any amounts: what the engine expects of each is the upper of
\* the middle two of the last six, which is the same after it has been paid.  So it is
\* with the batch program, of what costs the same every time.  (PassDay and Build against
\* _project_fixed_category and _project_salary of state/builder.py and financial_state.py)
THEOREM RegularForecastsComeTrue == Spec => [](Regular(world) => ForecastComesTrue)
<1>1. RequestInv /\ Regular(world) /\ RegularInv => ForecastComesTrue
  <2> SUFFICES ASSUME RequestInv, Regular(world), RegularInv PROVE ForecastComesTrue
    OBVIOUS
  <2>1. PICK s : s = IF world.follows = "batch" THEN batch ELSE state
    OBVIOUS
  <2> SUFFICES ASSUME s # Nothing, lived # Unlived
               PROVE  /\ Due(s.bills, lived.until) = Due(lived.bills, lived.until)
                      /\ Due(s.salary, lived.until) = Due(lived.salary, lived.until)
    BY <2>1 DEF ForecastComesTrue
  <2>2. world \in World /\ today \in Nat
    BY WorldsAssumption DEF RequestInv
  <2>3. world.follows \in {"engine", "batch"}
    BY <2>2 DEF RegularInv, World
  <2>4. PICK v \in Nat : v = today + Horizon
    BY <2>2 DEF Horizon
  <2>5. Tells(s, Past, today, v)
    BY <2>1, <2>3, <2>4 DEF RegularInv
  <2>6. lived.until \in Nat /\ lived.until <= v /\ Tells(lived, Past, today, lived.until)
    BY <2>4 DEF RegularInv
  <2>7. Due(s.bills, lived.until) = Due(lived.bills, lived.until)
    BY <2>2, <2>4, <2>5, <2>6, SameDue DEF Tells
  <2>8. Due(s.salary, lived.until) = Due(lived.salary, lived.until)
    BY <2>2, <2>4, <2>5, <2>6, SameDue DEF Tells
  <2> QED
    BY <2>7, <2>8
<1> QED
  BY <1>1, RequestsHold, RegularHold, PTL

-----------------------------------------------------------------------------
(* A regular user's streams *)

\* What such rows are resolved to is finite.
LEMMA PastIsFinite ==
  ASSUME NEW S, IsFiniteSet(S), \A r \in S : Whole(r), NEW home
  PROVE  IsFiniteSet(Resolved(S, home))
<1>1. PICK g : g = [r \in S |-> AtHome(r, InHome(EventOf(r), home))]
  OBVIOUS
<1>2. PICK R : R = Resolved(S, home)
  OBVIOUS
<1>3. \A e : e \in Resolved(S, home) <=> \E r \in S : Counts(r) /\ e = AtHome(r, InHome(EventOf(r), home))
  BY WholeResolved
<1>4. R \in SUBSET {g[r] : r \in S}
  BY <1>1, <1>2, <1>3
<1>5. IsFiniteSet({g[r] : r \in S})
  BY FiniteImage
<1> QED
  BY <1>2, <1>4, <1>5, FS_Subset

\* A group of streams has a last event, and is of one category.
LEMMA GroupHasLast ==
  ASSUME NEW R, IsFiniteSet(R), Settled(R), \A e \in R : e.date \in Nat, NEW G \in Groups(R)
  PROVE  LastOf(G) \in G /\ G \subseteq R /\ \A e, f \in G : KeyOf(e) = KeyOf(f)
<1>1. PICK o \in Streamed(R) : G = {e \in Streamed(R) : KeyOf(e) = KeyOf(o)}
  BY DEF Groups
<1>2. G # {} /\ G \subseteq R /\ \A e, f \in G : KeyOf(e) = KeyOf(f)
  BY <1>1 DEF Streamed
<1>3. \A e \in G : e.id \in Int /\ e.date \in Nat
  BY <1>2 DEF Settled
<1>4. IsFiniteSet(G)
  BY <1>2, FS_Subset
<1> QED
  BY <1>2, <1>3, <1>4, LastIsOne

\* What is streamed of a punctual bill is all there was of it.
LEMMA GroupOfBill ==
  ASSUME NEW R, IsFiniteSet(R), Settled(R), \A e \in R : e.date \in Nat, NEW u, Punctual(R, u),
         NEW G \in Groups(R), NEW c \in FixedCategories, KeyOf(LastOf(G))[1] = c
  PROVE  G = Of(R, c)
<1>1. LastOf(G) \in G /\ G \subseteq R /\ \A e, f \in G : KeyOf(e) = KeyOf(f)
  BY GroupHasLast
<1>2. c \notin VariableCategories /\ c # "salary"
  BY KindsAssumption
<1>3. \A e \in Of(R, c) : e.words = "plain" /\ e.direction = "debit" /\ e.status = "settled" /\ e.category = c
  BY <1>2 DEF Punctual, Settled, Of
<1>4. \A e \in Of(R, c) : CashType(e) = "IMMEDIATE_DEBIT" /\ KeyOf(e) = <<c, "debit", "plain">>
  BY <1>2, <1>3, SettledTypes DEF KeyOf
<1>5. \A e \in Of(R, c) : e \in Streamed(R)
  BY <1>4 DEF Streamed, Of
<1>6. \A e : KeyOf(e)[1] = e.category
  BY DEF KeyOf
<1>7. LastOf(G) \in Of(R, c)
  BY <1>1, <1>6 DEF Of
<1>8. PICK o \in Streamed(R) : G = {e \in Streamed(R) : KeyOf(e) = KeyOf(o)}
  BY DEF Groups
<1>9. KeyOf(o) = <<c, "debit", "plain">>
  BY <1>1, <1>4, <1>7, <1>8
<1>10. \A e \in Of(R, c) : e \in G
  BY <1>4, <1>5, <1>8, <1>9
<1>11. \A e \in G : e \in Of(R, c)
  <2> SUFFICES ASSUME NEW e \in G PROVE e \in Of(R, c)
    OBVIOUS
  <2>1. KeyOf(e) = KeyOf(LastOf(G)) /\ e \in R
    BY <1>1
  <2>2. e.category = c
    BY <1>6, <2>1
  <2> QED
    BY <2>1, <2>2 DEF Of
<1> QED
  BY <1>10, <1>11

\* The stream of a habit is next due when the forecast has it next.
LEMMA StreamOfHabit ==
  ASSUME NEW E, NEW m, NEW n, NEW dom, NEW u \in Nat, Habit(E, m, n, dom, u, "debit"), NEW t \in Date, u <= t,
         NEW s, s = FixedStream(E, t), s.day # NoDay, s.class \notin {"one_time", "none"},
         s.gap[1] \in (25 * s.gap[2])..(35 * s.gap[2])
  PROVE  /\ NextDates(s, t) = Coming(dom, t, t + Horizon)
         /\ s.last = DateIn(n, dom) /\ MonthOf[s.last] = n
<1>0. t \in Nat
  BY DatesAreNumbers
<1>1. Series(E, m, n, dom)
  BY DEF Habit
<1>2. Happened(E, t) = E
  <2>1. \A e \in E : e.date <= t
    <3>1. \A e \in E : e.date \in Nat /\ e.date <= u
      BY HabitHas
    <3> QED
      BY <1>0, <3>1
  <2>2. \A e \in E : CashType(e) = "IMMEDIATE_DEBIT"
    BY SettledTypes DEF Habit
  <2> QED
    BY <2>1, <2>2 DEF Happened
<1>3. Cardinality(E) >= 2
  BY HabitHas
<1>4. TypicalDay(E) = dom
  BY <1>1, DayOfSeries
<1>5. PICK M : M = TwiceMedian(Intervals(E))
  OBVIOUS
<1>6. s.gap = <<M, 2>> /\ s.last = LastOf(E).date /\ s.day \in {dom, NoDay}
  BY <1>2, <1>3, <1>4, <1>5 DEF FixedStream
<1>7. s.day = dom
  BY <1>6
<1>8. s.gap[1] = M /\ s.gap[2] = 2
  BY <1>6
<1>9. M \in 50..70
  BY <1>8
<1>10. LastOf(E).date = DateIn(n, dom)
  BY <1>1, EndsOfSeries
<1>11. MonthOf[s.last] = n
  BY <1>1, <1>6, <1>10, DateIs DEF Series
<1>12. Rounded(M, 2) \in Int /\ ~(Rounded(M, 2) <= 0)
  <2>1. M \div 2 >= 25 /\ M \div 2 \in Int
    BY <1>9
  <2> QED
    BY <2>1 DEF Rounded
<1>13. 25 * s.gap[2] <= s.gap[1] /\ s.gap[1] <= 35 * s.gap[2]
  BY <1>8, <1>9
<1>14. NextDates(s, t) = Ahead(MonthlyFrom(n + 1, dom), t)
  <2>1. PICK gap : gap = Rounded(s.gap[1], s.gap[2])
    OBVIOUS
  <2>2. ~(s.class \in {"one_time", "none"} \/ gap <= 0)
    BY <1>8, <1>12, <2>1
  <2>3. NextDates(s, t) = Ahead(MonthlyFrom(MonthOf[s.last] + 1, s.day), t)
    BY <1>13, <2>1, <2>2 DEF NextDates
  <2> QED
    BY <1>7, <1>11, <2>3
<1>15. Ahead(MonthlyFrom(n + 1, dom), t) = Coming(dom, t, t + Horizon)
  BY HabitAhead
<1> QED
  BY <1>6, <1>10, <1>11, <1>14, <1>15

\* For a user whose bills come on their days every month, the stream shown for a bill is
\* next due on the very days the forecast has it: the forecast, which starts from the
\* month of the request, never has a bill again in the month in which it was paid.
\* (infer_recurring_streams and project_next_occurrences of recurrence/cadence.py
\* against _project_fixed_category of state/builder.py)
THEOREM RegularStreamsAgree == Spec => [](Regular(world) => StreamsAgreeWithForecast)
<1>1. RequestInv /\ RowsInv /\ Regular(world) /\ RegularInv => StreamsAgreeWithForecast
  <2> SUFFICES ASSUME RequestInv, RowsInv, Regular(world), RegularInv PROVE StreamsAgreeWithForecast
    OBVIOUS
  <2>1. PICK R : R = Past
    OBVIOUS
  <2> SUFFICES ASSUME NEW s \in StreamsOf(R, today), s.day # NoDay, s.key[1] \in FixedCategories,
                      s.class \in {"confirmed_recurring", "strong_recurring"},
                      s.gap[1] \in (25 * s.gap[2])..(35 * s.gap[2])
               PROVE  NextDates(s, today) =
                        {d \in {i.date : i \in FixedItems(R, s.key[1], today)} : MonthOf[d] # MonthOf[s.last]}
    BY <2>1 DEF StreamsAgreeWithForecast, Past
  <2>2. PICK t \in Date, u \in Nat : t = today /\ u = Upto /\ u <= t /\ t \in Nat
    <3>1. world.first \in Nat /\ today \in Date /\ today \in Nat /\ world.first <= today
      BY WorldsAssumption, DatesAreNumbers DEF RequestInv, World, RegularInv
    <3> QED
      BY <3>1 DEF Upto
  <2>3. Settled(R) /\ IsFiniteSet(R) /\ Punctual(R, u)
    <3>1. (\A r \in rows : Whole(r)) /\ IsFiniteSet(rows)
      BY DEF RegularInv, RowsInv
    <3>2. Settled(Past) /\ IsFiniteSet(Past)
      BY <3>1, WholeSettled, PastIsFinite DEF Past
    <3> QED
      BY <2>1, <2>2, <3>2 DEF RegularInv
  <2>4. \A e \in R : e.date \in Nat
    <3> SUFFICES ASSUME NEW e \in R PROVE e.date \in Nat
      OBVIOUS
    <3>1. \A r \in rows : Dated(r)
      BY DEF RowsInv
    <3>2. e \in Resolved(rows, world.home)
      BY <2>1 DEF Past
    <3> QED
      BY <3>1, <3>2, EventsOfRows
  <2>5. PICK G \in Groups(R) : s = FixedStream(G, t)
    <3>1. \A G : VariableStream(G, t).day = NoDay
      BY DEF VariableStream
    <3> QED
      BY <2>2, <3>1 DEF StreamsOf
  <2>6. PICK c \in FixedCategories : c = s.key[1]
    OBVIOUS
  <2>7. KeyOf(LastOf(G))[1] = c
    BY <2>5, <2>6 DEF FixedStream
  <2>8. G = Of(R, c)
    BY <2>3, <2>4, <2>7, GroupOfBill
  <2>9. Of(R, c) # {}
    <3>1. LastOf(G) \in G
      BY <2>3, <2>4, GroupHasLast
    <3> QED
      BY <2>8, <3>1
  <2>10. c \in Kinds /\ Way(c) = "debit"
    BY KindsAssumption DEF Kinds, Way
  <2>11. PICK m, n \in Months : \E dom \in 1..28 : Habit(Of(R, c), m, n, dom, u, Way(c))
    BY <2>3, <2>9, <2>10, HabitsExist
  <2>12. PICK dom \in 1..28 : Habit(Of(R, c), m, n, dom, u, "debit")
    BY <2>10, <2>11
  <2>13. s.class \notin {"one_time", "none"}
    OBVIOUS
  <2>14. NextDates(s, t) = Coming(dom, t, t + Horizon) /\ s.last = DateIn(n, dom) /\ MonthOf[s.last] = n
    BY <2>2, <2>5, <2>8, <2>12, <2>13, StreamOfHabit
  <2>15. {i.date : i \in FixedItems(R, c, t)} = Coming(dom, t, t + Horizon)
    <3>1. PICK e, a : FixedItems(R, c, t) = ItemsOn(e, Coming(dom, t, t + Horizon), a)
      BY <2>2, <2>12, EngineBill
    <3>2. \A d : Item(e, d, a).date = d
      BY DEF Item
    <3> QED
      BY <3>1, <3>2 DEF ItemsOn
  <2>16. ASSUME NEW d \in Coming(dom, t, t + Horizon) PROVE MonthOf[d] # n
    <3> SUFFICES ASSUME MonthOf[d] = n PROVE FALSE
      OBVIOUS
    <3>1. d \in Date /\ d \in Nat /\ t < d /\ DayOf(d) = dom
      BY DatesAreNumbers DEF Coming
    <3>2. d = DateIn(n, dom)
      BY <3>1, MonthIs
    <3>3. DateIn(n, dom) <= u
      BY <2>12 DEF Habit
    <3> QED
      BY <2>2, <3>1, <3>2, <3>3
  <2> QED
    BY <2>2, <2>6, <2>14, <2>15, <2>16
<1> QED
  BY <1>1, RequestsHold, RowsHold, RegularHold, PTL

-----------------------------------------------------------------------------
(* What is handed to the engine *)

\* What is handed to the engine is an evaluation of the kind it takes (Inputs of
\* DecisionEngine): a price and a floor that are not negative, a balance, and from
\* the day after the request until the horizon, and on no other day, debits and
\* credits of amounts that are not negative.  (decision_service.py, state/builder.py)
EngineInput ==
  state # Nothing =>
    LET debits == state.debits \union state.bills
        credits == state.income \union state.salary
    IN  /\ state.starting \in Int /\ world.minimum \in Nat
        /\ worth \in Nat \ {0} /\ ask.wait \in Nat
        /\ \A i \in debits \union credits : today < i.date /\ i.date <= today + Horizon /\ i.amount \in Nat
        /\ \A i \in debits : i.least \in Nat
        /\ \A x \in state.burns :
             /\ x.dates = (today + 1)..(today + Horizon)
             /\ x.item.amount \in Nat /\ x.item.least \in Nat

\* A row of some amount, and an event that is worth something.
Sound(r) == Dated(r) /\ "least" \in DOMAIN r /\ r.amount \in Int /\ r.least \in Nat
Valuable(e) == e.id \in Int /\ e.date \in Nat /\ e.amount \in Nat /\ e.least \in Nat

\* Finitely many such events.
History(R) == IsFiniteSet(R) /\ \A e \in R : Valuable(e)

\* What falls due in a forecast is not negative.
Paying(s) == \A i \in s.bills \union s.salary : i.amount \in Nat

\* What is not negative is recorded, forecast and held.
MoneyInv ==
  /\ cash \in Int
  /\ \A r \in rows : Sound(r)
  /\ Paying(lived)
  /\ state # Nothing => Paying(state)
  /\ batch # Nothing => Paying(batch)

\* Rows are resolved to a history: an event is worth the size of its row's amount at home.
LEMMA RowsAreHistory ==
  ASSUME NEW S, IsFiniteSet(S), \A r \in S : Sound(r), NEW home
  PROVE  History(Resolved(S, home))
<1>1. PICK R : R = Resolved(S, home)
  OBVIOUS
<1>2. PICK g : g = [r \in S |-> [EventOf(r) EXCEPT !.amount = InHome(EventOf(r), home)]]
  OBVIOUS
<1>3. \A r \in S : Dated(r)
  BY DEF Sound
<1>4. ASSUME NEW e \in R PROVE (\E r \in S : e = g[r]) /\ Valuable(e)
  <2>1. PICK r \in S : /\ e = [EventOf(r) EXCEPT !.amount = InHome(EventOf(r), home)]
                       /\ e.date = r.date /\ e.id \in Int /\ e.date \in Nat
    BY <1>1, <1>3, <1>4, EventsOfRows
  <2>2. e = g[r]
    BY <1>2, <2>1
  <2>3. PICK o : o = EventOf(r)
    OBVIOUS
  <2>4. Sound(r) /\ {"amount", "date", "least"} \subseteq DOMAIN r
    BY DEF Sound, Dated
  <2>5. /\ DOMAIN o = DOMAIN r /\ o.date = r.date /\ o.least = r.least
        /\ o.amount = IF r.amount < 0 THEN -r.amount ELSE r.amount
    BY <2>3, <2>4 DEF EventOf
  <2>6. o.amount \in Nat /\ o.date \in Nat /\ o.least \in Nat
    BY <2>4, <2>5 DEF Sound, Dated
  <2>7. PICK c : c = o.currency
    OBVIOUS
  <2>8. Converted(o.amount, c, home, o.date) \in Nat
    BY <2>6, ConvertedType
  <2>9. InHome(o, home) \in Nat
    BY <2>6, <2>7, <2>8 DEF InHome
  <2>10. e = [o EXCEPT !.amount = InHome(o, home)]
    BY <2>1, <2>3
  <2>11. e.amount = InHome(o, home) /\ e.least = o.least
    BY <2>4, <2>5, <2>10
  <2> QED
    BY <2>1, <2>2, <2>6, <2>9, <2>11 DEF Valuable
<1>5. IsFiniteSet({g[r] : r \in S})
  BY FiniteImage
<1>6. R \in SUBSET {g[r] : r \in S}
  BY <1>4
<1>7. IsFiniteSet(R)
  BY <1>5, <1>6, FS_Subset
<1> QED
  BY <1>1, <1>4, <1>7 DEF History

\* Of some events of a history, the last is one of them, and the upper median is an amount.
LEMMA LastAndMiddle ==
  ASSUME NEW R, History(R), NEW w \in SUBSET R, w # {}
  PROVE  /\ IsFiniteSet(w) /\ LastOf(w) \in w /\ Amounts(w) /\ UpperMedian(w) \in Nat
         /\ \A n \in Nat \ {0} : Recent(w, n) # {} /\ Recent(w, n) \in SUBSET w
<1>1. IsFiniteSet(w) /\ \A e \in w : e.id \in Int /\ e.date \in Nat /\ e.amount \in Nat
  BY FS_Subset DEF History, Valuable
<1>2. LastOf(w) \in w
  BY <1>1, LastIsOne
<1>3. Amounts(w)
  BY <1>1 DEF Amounts
<1>4. UpperMedian(w) \in Nat
  BY <1>3, MedianIs
<1>5. \A n \in Nat \ {0} : Recent(w, n) # {}
  BY <1>1, RecentOf
<1>6. \A n : Recent(w, n) \in SUBSET w
  BY DEF Recent
<1> QED
  BY <1>1, <1>2, <1>3, <1>4, <1>5, <1>6

\* What a history adds up to is an amount.
LEMMA TotalIsAmount ==
  ASSUME NEW w, Amounts(w)
  PROVE  Total(w) \in Nat /\ (w = {} => Total(w) = 0)
<1>1. PICK f, z : f = [x \in w |-> x.amount] /\ z = [x \in w |-> 0]
  OBVIOUS
<1>2. \A x \in w : f[x] \in Int /\ z[x] \in Int /\ z[x] <= f[x] /\ z[x] = 0
  BY <1>1 DEF Amounts
<1>3. SumFunctionOnSet(f, w) \in Int
  BY <1>2, SumType DEF Amounts
<1>4. SumFunctionOnSet(z, w) = 0
  BY <1>2, SumOfZeros DEF Amounts
<1>5. SumFunctionOnSet(z, w) <= SumFunctionOnSet(f, w)
  BY <1>2, SumMonotonic DEF Amounts
<1>6. Total(w) = SumFunctionOnSet(f, w)
  BY <1>1 DEF Total, SumFunction
<1>7. w = {} => SumFunctionOnSet(f, w) = 0
  BY SumOfNothing
<1> QED
  BY <1>3, <1>4, <1>5, <1>6, <1>7

\* What an item of a forecast has to be: due after day t and by its horizon, worth something.
Due90(i, t) == t < i.date /\ i.date <= t + Horizon /\ i.amount \in Nat
Owed(i, t) == Due90(i, t) /\ i.least \in Nat

\* What is scheduled is due in the horizon.
LEMMA ScheduledIsOwed ==
  ASSUME NEW R, History(R), NEW t, NEW type, NEW i \in Scheduled(R, t, type)
  PROVE  Owed(i, t)
<1>1. PICK e \in R : i = Item(e, e.date, e.amount) /\ t < e.date /\ e.date <= t + Horizon
  BY DEF Scheduled
<1>2. i.date = e.date /\ i.amount = e.amount /\ i.least = e.least
  BY <1>1 DEF Item
<1>3. Valuable(e)
  BY DEF History
<1> QED
  BY <1>1, <1>2, <1>3 DEF Owed, Due90, Valuable

\* So is what comes back every month.
LEMMA BillsAreOwed ==
  ASSUME NEW R, History(R), NEW t, NEW c, NEW i \in FixedItems(R, c, t)
  PROVE  Owed(i, t)
<1>1. PICK P, w : P = Paid(R, c, t) /\ w = Recent(P, Window)
  OBVIOUS
<1>2. w \in SUBSET R
  BY <1>1 DEF Recent, Paid
<1>3. /\ ~(Cardinality(w) < 2)
      /\ \E d \in Ahead(MonthlyFrom(MonthOf[t], TypicalDay(w)), t) : i = Item(LastOf(w), d, UpperMedian(w))
  BY <1>1 DEF FixedItems
<1>4. w # {}
  BY <1>3, FS_EmptySet
<1>5. PICK d : t < d /\ d <= t + Horizon /\ i = Item(LastOf(w), d, UpperMedian(w))
  BY <1>3 DEF Ahead
<1>6. PICK l \in w : l = LastOf(w)
  BY <1>2, <1>4, LastAndMiddle
<1>7. UpperMedian(w) \in Nat /\ Valuable(l)
  BY <1>2, <1>4, LastAndMiddle DEF History
<1>8. i.date = d /\ i.amount = UpperMedian(w) /\ i.least = l.least
  BY <1>5, <1>6 DEF Item
<1> QED
  BY <1>5, <1>7, <1>8 DEF Owed, Due90, Valuable

\* A burn begins the day after and ends with the horizon.
LEMMA BurnsAreOwed ==
  ASSUME NEW R, History(R), NEW t, NEW c, NEW x \in Burn(R, c, t)
  PROVE  x.dates = (t + 1)..(t + Horizon) /\ x.item.amount \in Nat /\ x.item.least \in Nat
<1>1. PICK w : w = {e \in Paid(R, c, t) : t - Lookback <= e.date}
  OBVIOUS
<1>2. w \in SUBSET R
  BY <1>1 DEF Paid
<1>3. /\ Total(w) # 0
      /\ x = [item |-> Item(LastOf(w), t, Total(w)), over |-> Lookback, dates |-> (t + 1)..(t + Horizon)]
  BY <1>1 DEF Burn
<1>4. IsFiniteSet(w) /\ \A e \in w : e.amount \in Nat
  BY <1>2, FS_Subset DEF History, Valuable
<1>5. Amounts(w)
  BY <1>4 DEF Amounts
<1>6. Total(w) \in Nat /\ w # {}
  BY <1>3, <1>5, TotalIsAmount
<1>7. PICK l \in w : l = LastOf(w)
  BY <1>2, <1>6, LastAndMiddle
<1>8. Valuable(l)
  BY <1>2 DEF History
<1>9. x.item = Item(l, t, Total(w)) /\ x.dates = (t + 1)..(t + Horizon)
  BY <1>3, <1>7
<1>10. x.item.amount = Total(w) /\ x.item.least = l.least
  BY <1>9 DEF Item
<1> QED
  BY <1>6, <1>8, <1>9, <1>10 DEF Valuable

\* What a salary is expected to be is an amount, announced or in the middle of the recent ones.
LEMMA SalariesAreAmounts ==
  ASSUME NEW R, History(R), Salaries(R) # {}
  PROVE  /\ TypicalSalary(Salaries(R)) \in Nat
         /\ Announced(Salaries(R)) # {} => Latest(Announced(Salaries(R))).amount \in Nat
<1>1. PICK S, A, w : S = Salaries(R) /\ A = Announced(S) /\ w = Recent(S, Window)
  OBVIOUS
<1>2. S \in SUBSET R /\ A \in SUBSET R
  BY <1>1 DEF Salaries, Announced
<1>3. w \in SUBSET S /\ w # {}
  BY <1>1, <1>2, LastAndMiddle DEF Window
<1>4. UpperMedian(w) \in Nat
  BY <1>2, <1>3, LastAndMiddle
<1>5. A # {} => Latest(A).amount \in Nat
  <2>1. IsFiniteSet(A) /\ \A e \in A : e.id \in Int /\ e.date \in Nat
    BY <1>2, FS_Subset DEF History, Valuable
  <2>2. A # {} => Latest(A) \in R
    BY <1>2, <2>1, LatestIsOne
  <2> QED
    BY <2>2 DEF History, Valuable
<1>6. TypicalSalary(S) = IF A # {} THEN Latest(A).amount ELSE UpperMedian(w)
  BY <1>1 DEF TypicalSalary
<1> QED
  BY <1>1, <1>4, <1>5, <1>6

\* The salary is due in the horizon.
LEMMA SalaryIsDue ==
  ASSUME NEW R, History(R), NEW t, NEW i \in SalaryItems(R, t)
  PROVE  Due90(i, t)
<1>1. PICK S : S = Salaries(R)
  OBVIOUS
<1>2. PICK w, last : w = Recent(S, Window) /\ last = LastOf(S)
  OBVIOUS
<1>3. PICK dates : dates = IF PaidMonthly(w) THEN MonthlyFrom(MonthOf[last.date] + 1, TypicalDay(w))
                           ELSE Every(MeanGap(w), last.date, t)
  OBVIOUS
<1>4. /\ ~(Cardinality(S) < 2)
      /\ i \in {[date |-> d, amount |-> TypicalSalary(S), category |-> "salary"] : d \in Ahead(dates, t)}
  BY <1>1, <1>2, <1>3 DEF SalaryItems
<1>5. S # {}
  BY <1>4, FS_EmptySet
<1>6. TypicalSalary(S) \in Nat
  BY <1>1, <1>5, SalariesAreAmounts
<1>7. PICK d \in Ahead(dates, t) : i = [date |-> d, amount |-> TypicalSalary(S), category |-> "salary"]
  BY <1>4
<1>8. t < d /\ d <= t + Horizon
  BY <1>7 DEF Ahead
<1> QED
  BY <1>6, <1>7, <1>8 DEF Due90

\* The state built of a history holds nothing else.
LEMMA StateIsOwed ==
  ASSUME NEW R, History(R), NEW a \in Int, NEW t, NEW s, s = EngineState(R, a, t)
  PROVE  /\ s.starting \in Int
         /\ \A i \in s.debits \union s.bills : Owed(i, t)
         /\ \A i \in s.income \union s.salary : Due90(i, t)
         /\ \A x \in s.burns :
              x.dates = (t + 1)..(t + Horizon) /\ x.item.amount \in Nat /\ x.item.least \in Nat
<1>1. \A i \in s.debits : Owed(i, t)
  BY ScheduledIsOwed DEF EngineState
<1>2. ASSUME NEW i \in s.bills PROVE Owed(i, t)
  <2>1. \E c \in FixedCategories : i \in FixedItems(R, c, t)
    BY <1>2 DEF EngineState, Unscheduled
  <2> QED
    BY <2>1, BillsAreOwed
<1>3. ASSUME NEW i \in s.income PROVE Due90(i, t)
  <2>1. i \in Scheduled(R, t, "CONFIRMED_INCOME")
    BY <1>3 DEF EngineState
  <2> QED
    BY <2>1, ScheduledIsOwed DEF Owed
<1>4. ASSUME NEW i \in s.salary PROVE Due90(i, t)
  <2>1. i \in SalaryItems(R, t)
    BY <1>4 DEF EngineState, Unscheduled
  <2> QED
    BY <2>1, SalaryIsDue
<1>5. ASSUME NEW x \in s.burns
      PROVE  x.dates = (t + 1)..(t + Horizon) /\ x.item.amount \in Nat /\ x.item.least \in Nat
  <2>1. \E c \in VariableCategories : x \in Burn(R, c, t)
    BY <1>5 DEF EngineState
  <2> QED
    BY <2>1, BurnsAreOwed
<1>6. s.starting \in Int
  <2>1. PICK P : P = {e \in R : CashType(e) = "IMMEDIATE_DEBIT" /\ e.status = "pending"}
    OBVIOUS
  <2>2. IsFiniteSet(P) /\ \A e \in P : e.amount \in Nat
    BY <2>1, FS_Subset DEF History, Valuable
  <2>3. Total(P) \in Nat
    BY <2>2, TotalIsAmount DEF Amounts
  <2>4. s.starting = a - Total(P)
    BY <2>1 DEF EngineState, Reserved
  <2> QED
    BY <2>3, <2>4
<1> QED
  BY <1>1, <1>2, <1>3, <1>4, <1>5, <1>6

-----------------------------------------------------------------------------
(* What falls due in a forecast of the batch program *)

\* The middle of some amounts is an amount.
LEMMA MiddleIsAmount ==
  ASSUME NEW W, Amounts(W), W # {}
  PROVE  Median(W) \in Nat
<1>1. PICK n : n = Cardinality(W)
  OBVIOUS
<1>2. n \in Nat /\ n # 0
  BY <1>1, FS_CardinalityType, FS_EmptySet DEF Amounts
<1>3. n \div 2 \in Nat /\ n \div 2 < n /\ (n % 2 # 1 => n \div 2 - 1 \in Nat /\ n \div 2 - 1 < n)
  BY <1>2, Halves
<1>4. AtRank(W, n \div 2) \in Nat
  BY <1>1, <1>3, AtRankIs
<1>5. n % 2 # 1 => AtRank(W, n \div 2 - 1) \in Nat
  BY <1>1, <1>3, AtRankIs
<1>6. Median(W) = IF n % 2 = 1 THEN AtRank(W, n \div 2)
                  ELSE (AtRank(W, n \div 2 - 1) + AtRank(W, n \div 2)) \div 2
  BY <1>1 DEF Median
<1>7. \A a, b \in Nat : (a + b) \div 2 \in Nat
  OBVIOUS
<1> QED
  BY <1>4, <1>5, <1>6, <1>7

\* Events of which only what is spent or earned is known to be more than nothing.
Ledgered(R) == IsFiniteSet(R) /\ \A e \in R : e.id \in Int /\ e.date \in Nat /\ e.amount \in Int

\* Some of them that are worth something have a last one and a middle.
LEMMA SomeOfThem ==
  ASSUME NEW R, Ledgered(R), NEW S \in SUBSET R, S # {}, \A e \in S : e.amount > 0
  PROVE  /\ LastOf(S).amount \in Nat /\ Latest(S).amount \in Nat
         /\ \A n \in Nat \ {0} : Median(Recent(S, n)) \in Nat
<1>1. IsFiniteSet(S) /\ \A e \in S : e.id \in Int /\ e.date \in Nat /\ e.amount \in Nat
  BY FS_Subset DEF Ledgered
<1>2. LastOf(S) \in S /\ Latest(S) \in S
  BY <1>1, LastIsOne, LatestIsOne
<1>3. ASSUME NEW n \in Nat \ {0} PROVE Median(Recent(S, n)) \in Nat
  <2>1. PICK w : w = Recent(S, n)
    OBVIOUS
  <2>2. w # {} /\ w \in SUBSET S
    BY <1>1, <2>1, RecentOf DEF Recent
  <2>3. IsFiniteSet(w) /\ \A e \in w : e.amount \in Nat
    BY <1>1, <2>2, FS_Subset
  <2>4. Amounts(w)
    BY <2>3 DEF Amounts
  <2> QED
    BY <2>1, <2>2, <2>4, MiddleIsAmount
<1> QED
  BY <1>1, <1>2, <1>3

\* An item that has an amount.
Amounting(i) == "amount" \in DOMAIN i /\ i.amount \in Nat

\* Bills and spending of the batch program are amounts.
LEMMA BatchBillsPay ==
  ASSUME NEW R, Ledgered(R), NEW t, NEW c,
         NEW i \in BatchFixedItems(R, c, t) \union SteppedSpending(R, c, t)
  PROVE  Amounting(i)
<1>1. PICK S : S = Spent(R, c, t)
  OBVIOUS
<1>2. S \in SUBSET R /\ \A e \in S : e.amount > 0
  BY <1>1 DEF Spent
<1>3. \A e, d, a : Item(e, d, a).amount = a /\ "amount" \in DOMAIN Item(e, d, a)
  BY DEF Item
<1>4. CASE i \in BatchFixedItems(R, c, t)
  <2>1. S # {} /\ \E d : i = Item(LastOf(S), d, LastOf(S).amount) \/ i = Item(LastOf(S), d, Median(Recent(S, Window)))
    BY <1>1, <1>4 DEF BatchFixedItems
  <2>2. LastOf(S).amount \in Nat /\ Median(Recent(S, Window)) \in Nat
    BY <1>2, <2>1, SomeOfThem DEF Window
  <2> QED
    BY <1>3, <2>1, <2>2 DEF Amounting
<1>5. CASE i \in SteppedSpending(R, c, t)
  <2>1. S # {} /\ \E d : i = Item(LastOf(S), d, Median(Recent(S, 8)))
    BY <1>1, <1>5 DEF SteppedSpending
  <2>2. Median(Recent(S, 8)) \in Nat
    BY <1>2, <2>1, SomeOfThem
  <2> QED
    BY <1>3, <2>1, <2>2 DEF Amounting
<1> QED
  BY <1>4, <1>5

\* So is the salary.
LEMMA BatchSalaryPays ==
  ASSUME NEW R, Ledgered(R), NEW t, NEW messages, NEW filtered,
         NEW i \in BatchSalaryItems(R, t, messages, filtered)
  PROVE  Amounting(i)
<1>1. PICK S : S = Salaries(R)
  OBVIOUS
<1>2. PICK A : A = Announced(S)
  OBVIOUS
<1>3. /\ S \in SUBSET R /\ \A e \in S : e.amount > 0
      /\ A \in SUBSET R /\ \A e \in A : e.amount > 0
  BY <1>1, <1>2 DEF Salaries, Announced
<1>4. ~(Cardinality(S) < 2) /\ i.amount = BatchTypicalSalary(S) /\ "amount" \in DOMAIN i
  BY <1>1 DEF BatchSalaryItems
<1>5. S # {}
  BY <1>4, FS_EmptySet
<1>6. Median(Recent(S, Window)) \in Nat
  BY <1>3, <1>5, SomeOfThem DEF Window
<1>7. A # {} => Latest(A).amount \in Nat
  BY <1>3, SomeOfThem
<1>8. BatchTypicalSalary(S) = IF A # {} THEN Latest(A).amount ELSE Median(Recent(S, Window))
  BY <1>2 DEF BatchTypicalSalary
<1> QED
  BY <1>4, <1>6, <1>7, <1>8 DEF Amounting

\* A message that is read as being about a rent says how much or how much more.
LEMMA RentIsTold ==
  ASSUME NEW m \in Message, Evidence(m) = "rent_amendment"
  PROVE  (m.percent = Unknown => m.amount \in Nat) /\ (m.percent # Unknown => m.percent \in Nat)
<1>1. m.percent \in Nat \union {Unknown} /\ m.amount \in Nat \union {Unknown}
  BY DEF Message
<1>2. PICK I : I = {i \in DOMAIN Reading : Reads(m, i)}
  OBVIOUS
<1>3. DOMAIN Reading = 1..10
  BY DEF Reading
<1>4. I # {}
  BY <1>2 DEF Evidence
<1>5. I \in SUBSET Nat
  BY <1>2, <1>3
<1>6. PICK k \in I : \A j \in I : k <= j
  BY <1>4, <1>5, LeastNatural
<1>7. k \in DOMAIN Reading /\ Reads(m, k) /\ \A j \in 1..(k - 1) : ~Reads(m, j)
  <2>1. k \in 1..10 /\ Reads(m, k)
    BY <1>2, <1>3
  <2>2. ASSUME NEW j \in 1..(k - 1) PROVE ~Reads(m, j)
    <3>1. j \in 1..10 /\ ~(k <= j)
      BY <2>1
    <3> QED
      BY <1>2, <1>3, <1>6, <3>1
  <2> QED
    BY <1>3, <2>1, <2>2
<1>8. PICK n : n = CHOOSE i \in DOMAIN Reading : Reads(m, i) /\ \A j \in 1..(i - 1) : ~Reads(m, j)
  OBVIOUS
<1>9. n \in DOMAIN Reading /\ Reads(m, n)
  BY <1>7, <1>8
<1>10. Evidence(m) = Reading[n].evidence
  BY <1>7, <1>8 DEF Evidence
<1>11. n = 10
  <2>1. n \in 1..10 /\ Reading[n].evidence = "rent_amendment"
    BY <1>3, <1>9, <1>10
  <2>2. /\ Reading[1].evidence = "unrealized_gain" /\ Reading[2].evidence = "pending_refund_unconfirmed"
        /\ Reading[3].evidence = "windfall_closed" /\ Reading[4].evidence = "pending_income_unconfirmed"
        /\ Reading[5].evidence = "pending_credit_unconfirmed" /\ Reading[6].evidence = "internal_transfer"
        /\ Reading[7].evidence = "contract_terminated" /\ Reading[8].evidence = "salary_amendment"
        /\ Reading[9].evidence = "salary_confirmed"
    BY DEF Reading
  <2>3. n \in {1, 2, 3, 4, 5, 6, 7, 8, 9, 10}
    BY <2>1
  <2> QED
    BY <2>1, <2>2, <2>3
<1>12. ~(m.percent = Unknown /\ m.amount = Unknown)
  BY <1>9, <1>11 DEF Reads
<1> QED
  BY <1>1, <1>12

\* A bill for rent is applied one message after another.
LEMMA RentExists ==
  ASSUME NEW messages, NEW bill, NEW N \in Nat
  PROVE  \E g : g = [n \in 0..N |-> IF n = 0 THEN bill ELSE RentBy(messages[n], g[n - 1])]
<1> DEFINE Then(g, n) == IF n = 0 THEN bill ELSE RentBy(messages[n], g[n - 1])
           H == {k \in Nat : \E g : \A n \in 0..k : g[n] = Then(g, n)}
<1>1. 0 \in H
  <2>1. PICK g : g = [n \in {0} |-> bill]
    OBVIOUS
  <2>2. \A n \in 0..0 : g[n] = Then(g, n)
    BY <2>1
  <2> QED
    BY <2>2
<1>2. ASSUME NEW k \in Nat, k \in H PROVE k + 1 \in H
  <2>1. PICK g : \A n \in 0..k : g[n] = Then(g, n)
    BY <1>2
  <2>2. PICK h : h = [n \in 0..(k + 1) |-> IF n <= k THEN g[n] ELSE Then(g, n)]
    OBVIOUS
  <2>3. \A n \in 0..k : h[n] = g[n]
    BY <2>2
  <2>4. ASSUME NEW n \in 0..(k + 1) PROVE h[n] = Then(h, n)
    <3>1. n = 0 \/ n - 1 \in 0..k
      OBVIOUS
    <3>2. n \in 0..k \/ (n = k + 1 /\ ~(n <= k))
      OBVIOUS
    <3> QED
      BY <2>1, <2>2, <2>3, <3>1, <3>2
  <2> QED
    BY <2>4
<1> HIDE DEF H
<1>3. N \in H
  BY <1>1, <1>2, NumbersByInduction
<1>4. PICK g : \A n \in 0..N : g[n] = Then(g, n)
  BY <1>3 DEF H
<1>5. PICK h : h = [n \in 0..N |-> g[n]]
  OBVIOUS
<1>6. \A n \in 0..N : h[n] = Then(h, n)
  <2>1. \A n \in 0..N : n = 0 \/ n - 1 \in 0..N
    OBVIOUS
  <2> QED
    BY <1>4, <1>5, <2>1
<1>7. h = [n \in 0..N |-> Then(h, n)]
  BY <1>5, <1>6
<1> QED
  BY <1>7

\* A message makes an amount of an amount.
LEMMA RentByPays ==
  ASSUME NEW m \in Message, NEW i, Amounting(i)
  PROVE  Amounting(RentBy(m, i))
<1>1. ASSUME NEW a \in Nat, NEW j, j = [i EXCEPT !.amount = a] PROVE Amounting(j)
  BY <1>1 DEF Amounting
<1>2. CASE Evidence(m) # "rent_amendment"
  BY <1>2 DEF RentBy
<1>3. CASE Evidence(m) = "rent_amendment"
  <2>1. (m.percent = Unknown => m.amount \in Nat) /\ (m.percent # Unknown => m.percent \in Nat)
    BY <1>3, RentIsTold
  <2>2. CASE m.percent = Unknown
    <3>1. RentBy(m, i) = [i EXCEPT !.amount = m.amount]
      BY <1>3, <2>2 DEF RentBy
    <3> QED
      BY <1>1, <2>1, <2>2, <3>1
  <2>3. CASE m.percent # Unknown
    <3>1. PICK a \in Nat, p \in Nat : a = i.amount /\ p = m.percent
      BY <2>1, <2>3 DEF Amounting
    <3>2. a * (100 + p) \in Nat /\ 100 \in Nat \ {0}
      OBVIOUS
    <3>3. Rounded(a * (100 + p), 100) \in Nat
      BY <3>2, RoundedIsNear
    <3>4. RentBy(m, i) = [i EXCEPT !.amount = Rounded(a * (100 + p), 100)]
      BY <1>3, <2>3, <3>1 DEF RentBy
    <3> QED
      BY <1>1, <3>3, <3>4
  <2> QED
    BY <2>2, <2>3
<1> QED
  BY <1>2, <1>3

\* So do all the messages.
LEMMA RentAfterPays ==
  ASSUME NEW messages \in Seq(Message), NEW i, Amounting(i)
  PROVE  Amounting(RentAfter(messages, i))
<1>1. PICK N \in Nat : N = Len(messages)
  OBVIOUS
<1>2. PICK g : g = CHOOSE f : f = [n \in 0..N |-> IF n = 0 THEN i ELSE RentBy(messages[n], f[n - 1])]
  OBVIOUS
<1>3. g = [n \in 0..N |-> IF n = 0 THEN i ELSE RentBy(messages[n], g[n - 1])]
  BY <1>2, RentExists
<1>4. RentAfter(messages, i) = g[N]
  BY <1>1, <1>2 DEF RentAfter
<1>5. PICK H : H = {n \in Nat : n <= N => Amounting(g[n])}
  OBVIOUS
<1>6. 0 \in H
  <2>1. g[0] = i
    BY <1>3
  <2> QED
    BY <1>5, <2>1
<1>7. ASSUME NEW n \in Nat, n \in H PROVE n + 1 \in H
  <2> SUFFICES ASSUME n + 1 <= N PROVE Amounting(g[n + 1])
    BY <1>5
  <2>1. Amounting(g[n])
    BY <1>5, <1>7
  <2>2. g[n + 1] = RentBy(messages[n + 1], g[n])
    <3>1. n + 1 \in 0..N /\ n + 1 # 0 /\ n + 1 - 1 = n
      OBVIOUS
    <3> QED
      BY <1>3, <3>1
  <2>3. messages[n + 1] \in Message
    BY <1>1
  <2> QED
    BY <2>1, <2>2, <2>3, RentByPays
<1>8. N \in H
  BY <1>6, <1>7, NumbersByInduction
<1> QED
  BY <1>4, <1>5, <1>8

\* What messages amend stays an amount.
LEMMA AmendedPays ==
  ASSUME NEW items, \A i \in items : Amounting(i), NEW messages \in Seq(Message)
  PROVE  /\ \A i \in AmendedPay(items, messages) : Amounting(i)
         /\ \A i \in AmendedRent(items, messages) : Amounting(i)
<1>1. ASSUME NEW a \in Nat, NEW i \in items, NEW j, j = [i EXCEPT !.amount = a] PROVE Amounting(j)
  BY <1>1 DEF Amounting
<1>2. ASSUME NEW j \in AmendedPay(items, messages) PROVE Amounting(j)
  <2>1. PICK told : told = {n \in DOMAIN messages : OnPay(messages[n]) /\ messages[n].amount # Unknown}
    OBVIOUS
  <2>2. PICK m : m = messages[Max(told)]
    OBVIOUS
  <2>3. ASSUME told # {} PROVE m.amount \in Nat
    <3>1. DOMAIN messages = 1..Len(messages) /\ Len(messages) \in Nat
      OBVIOUS
    <3>2. IsFiniteSet(told) /\ told \in SUBSET Int
      <4>1. IsFiniteSet(1..Len(messages))
        BY <3>1, FS_Interval
      <4> QED
        BY <2>1, <3>1, <4>1, FS_Subset
    <3>3. Max(told) \in told
      BY <2>3, <3>2, Extremes
    <3>4. m \in Message /\ m.amount # Unknown
      BY <2>1, <2>2, <3>1, <3>3
    <3> QED
      BY <3>4 DEF Message
  <2>4. j \in items \/ (told # {} /\ \E i \in items : j = [i EXCEPT !.amount = m.amount] \/ j = i)
    BY <1>2, <2>1, <2>2 DEF AmendedPay
  <2> QED
    BY <1>1, <2>3, <2>4
<1>3. \A j \in AmendedRent(items, messages) : Amounting(j)
  BY RentAfterPays DEF AmendedRent
<1> QED
  BY <1>2, <1>3

\* What a state of the batch program says falls due is worth something.
LEMMA BatchIsPaying ==
  ASSUME NEW R, Ledgered(R), NEW a, NEW t, NEW messages \in Seq(Message), NEW daily, NEW filtered
  PROVE  Paying(BatchState(R, a, t, messages, daily, filtered))
<1>1. PICK fixed, stepped :
        /\ fixed = Unscheduled(UNION {BatchFixedItems(R, c, t) : c \in FixedCategories},
                               Scheduled(R, t, "FUTURE_DEBIT"))
        /\ stepped = IF daily THEN {} ELSE UNION {SteppedSpending(R, c, t) : c \in VariableCategories}
  OBVIOUS
<1>2. PICK pay : pay = Unscheduled(BatchSalaryItems(R, t, messages, filtered), Scheduled(R, t, "CONFIRMED_INCOME"))
  OBVIOUS
<1>3. PICK bills : bills = fixed \union stepped
  OBVIOUS
<1>4. \A i \in fixed : Amounting(i)
  <2>1. \A i \in fixed : \E c : i \in BatchFixedItems(R, c, t)
    BY <1>1 DEF Unscheduled
  <2> QED
    BY <2>1, BatchBillsPay
<1>5. \A i \in stepped : Amounting(i)
  <2>1. \A i \in stepped : \E c : i \in SteppedSpending(R, c, t)
    BY <1>1
  <2> QED
    BY <2>1, BatchBillsPay
<1>6. \A i \in pay : Amounting(i)
  <2>1. \A i \in pay : i \in BatchSalaryItems(R, t, messages, filtered)
    BY <1>2 DEF Unscheduled
  <2> QED
    BY <2>1, BatchSalaryPays
<1>7. \A i \in bills : Amounting(i)
  BY <1>3, <1>4, <1>5
<1>8. /\ \A i \in AmendedRent(bills, messages) : Amounting(i)
      /\ \A i \in AmendedPay(pay, messages) : Amounting(i)
  BY <1>6, <1>7, AmendedPays
<1>9. PICK s : s = BatchState(R, a, t, messages, daily, filtered)
  OBVIOUS
<1>10. s.bills = AmendedRent(bills, messages) /\ s.salary = AmendedPay(pay, messages)
  BY <1>1, <1>2, <1>3, <1>9 DEF BatchState
<1> QED
  BY <1>8, <1>9, <1>10 DEF Paying, Amounting

\* A rounded amount is whole, whatever its sign.
LEMMA RoundedIsWhole ==
  ASSUME NEW a \in Int, NEW b \in Nat \ {0}
  PROVE  Rounded(a, b) \in Int
<1>1. PICK q \in Int : q = a \div b
  OBVIOUS
<1>2. Rounded(a, b) = q \/ Rounded(a, b) = q + 1
  BY <1>1 DEF Rounded
<1> QED
  BY <1>2

\* A rate of the day makes whole amounts of whole amounts.
LEMMA DayConvertedIsWhole ==
  ASSUME NEW a \in Int, NEW f, NEW t, NEW d, HasQuote(f, t, d)
  PROVE  DayConverted(a, f, t, d) \in Int
<1>1. CASE f = t
  BY <1>1 DEF DayConverted
<1>2. CASE f # t
  <2>1. PICK r : r = CHOOSE x \in Quoted(f, t, d) : TRUE
    OBVIOUS
  <2>2. r \in Quoted(f, t, d)
    BY <1>2, <2>1 DEF HasQuote
  <2>3. r.rate \in Nat
    BY <2>2, IndexType DEF Quoted, Index
  <2>4. PICK k \in Int : k = a * r.rate
    BY <2>3
  <2>5. Rounded(k, Precision) \in Int
    BY CurrenciesAssumption, RoundedIsWhole
  <2> QED
    BY <1>2, <2>1, <2>4, <2>5 DEF DayConverted
<1> QED
  BY <1>1, <1>2

\* So what an event is worth to the batch program is whole.
LEMMA BatchWorthIsWhole ==
  ASSUME NEW e, e.amount \in Int, NEW home
  PROVE  BatchWorth(e, home) \in Int
<1>0. PICK a \in Int : a = e.amount
  OBVIOUS
<1>1. PICK f, d : f = e.currency /\ d = e.date
  OBVIOUS
<1>2. CASE HasQuote(f, home, d)
  BY <1>0, <1>1, <1>2, DayConvertedIsWhole DEF BatchWorth
<1>3. CASE ~HasQuote(f, home, d) /\ HasQuote(f, USD, d) /\ HasQuote(USD, home, d)
  <2>1. PICK b \in Int : b = DayConverted(a, f, USD, d)
    BY <1>3, DayConvertedIsWhole
  <2>2. DayConverted(b, USD, home, d) \in Int
    BY <1>3, DayConvertedIsWhole
  <2> QED
    BY <1>0, <1>1, <1>3, <2>1, <2>2 DEF BatchWorth
<1>4. CASE ~HasQuote(f, home, d) /\ ~(HasQuote(f, USD, d) /\ HasQuote(USD, home, d))
  BY <1>0, <1>1, <1>4 DEF BatchWorth
<1> QED
  BY <1>2, <1>3, <1>4

\* An event that the batch program is given.
Given(o) == "amount" \in DOMAIN o /\ o.id \in Int /\ o.date \in Nat /\ o.amount \in Int

\* Pictures give amounts.
LEMMA SeenIsWhole ==
  ASSUME NEW o, Given(o), NEW pictures, \A p \in pictures : p.amount \in Nat
  PROVE  SeenAmount(o, pictures).amount \in Int
<1>1. CASE o.amount # Unknown
  BY <1>1 DEF SeenAmount, Given
<1>2. CASE o.amount = Unknown /\ \E p \in pictures : p.event = o.id
  <2>1. PICK p : p = CHOOSE x \in pictures : x.event = o.id
    OBVIOUS
  <2>2. p \in pictures
    BY <1>2, <2>1
  <2>3. SeenAmount(o, pictures) = [o EXCEPT !.amount = p.amount, !.currency = p.currency]
    BY <1>2, <2>1 DEF SeenAmount
  <2>4. SeenAmount(o, pictures).amount = p.amount
    BY <2>3 DEF Given
  <2> QED
    BY <2>2, <2>4
<1>3. CASE o.amount = Unknown /\ ~ \E p \in pictures : p.event = o.id
  <2>1. SeenAmount(o, pictures) = [o EXCEPT !.amount = 0]
    BY <1>3 DEF SeenAmount
  <2>2. SeenAmount(o, pictures).amount = 0
    BY <2>1 DEF Given
  <2> QED
    BY <2>2
<1> QED
  BY <1>1, <1>2, <1>3

\* What is given is resolved to events of whole amounts.
LEMMA GivenIsLedgered ==
  ASSUME NEW V, IsFiniteSet(V), \A o \in V : Given(o), NEW home,
         NEW pictures, \A p \in pictures : p.amount \in Nat
  PROVE  Ledgered(BatchResolved(V, pictures, home))
<1>1. PICK R : R = BatchResolved(V, pictures, home)
  OBVIOUS
<1>2. PICK g : g = [o \in V |-> [o EXCEPT !.amount = BatchWorth(SeenAmount(o, pictures), home)]]
  OBVIOUS
<1>3. R \in SUBSET {g[o] : o \in V}
  BY <1>1, <1>2 DEF BatchResolved, Resolve
<1>4. IsFiniteSet({g[o] : o \in V})
  BY FiniteImage
<1>5. IsFiniteSet(R)
  BY <1>3, <1>4, FS_Subset
<1>6. ASSUME NEW o \in V PROVE g[o].id \in Int /\ g[o].date \in Nat /\ g[o].amount \in Int
  <2>1. PICK b \in Int : b = BatchWorth(SeenAmount(o, pictures), home)
    BY SeenIsWhole, BatchWorthIsWhole
  <2>2. g[o] = [o EXCEPT !.amount = b]
    BY <1>2, <2>1
  <2> QED
    BY <2>2 DEF Given
<1> QED
  BY <1>1, <1>3, <1>5, <1>6 DEF Ledgered

\* So are the rows of a user with what nobody has read yet.
LEMMA BatchIsLedgered ==
  ASSUME RequestInv, RowsInv, MoneyInv
  PROVE  Ledgered(BatchResolved(EventsOf(rows) \union world.unread, world.pictures, world.home))
<1>1. world \in World /\ IsFiniteSet(world.unread)
  BY WorldsAssumption DEF RequestInv
<1>2. PICK U, P : U = world.unread /\ P = world.pictures
  OBVIOUS
<1>3. U \subseteq Row /\ \A p \in P : p.amount \in Nat
  BY <1>1, <1>2 DEF World
<1>4. ASSUME NEW r \in U PROVE Given(r)
  <2>1. r \in Row
    BY <1>3
  <2>2. "amount" \in DOMAIN r /\ r.date \in Nat /\ r.amount \in Int /\ r.id \in Ids
    BY <2>1 DEF Row
  <2>3. r.id \in Int
    <3>1. Ids \subseteq Int
      BY IdsAssumption
    <3> QED
      BY <2>2, <3>1
  <2> QED
    BY <2>2, <2>3 DEF Given
<1>5. PICK V : V = EventsOf(rows)
  OBVIOUS
<1>6. ASSUME NEW o \in V PROVE Given(o)
  <2>1. PICK r \in rows : o = EventOf(r)
    BY <1>5 DEF EventsOf
  <2>2. Sound(r)
    BY DEF MoneyInv
  <2>3. /\ DOMAIN o = DOMAIN r /\ o.date = r.date /\ o.id = (IF r.external # NoId THEN r.external ELSE r.id)
        /\ o.amount = IF r.amount < 0 THEN -r.amount ELSE r.amount
    BY <2>1, <2>2 DEF EventOf, Sound, Dated
  <2> QED
    BY <2>2, <2>3 DEF Given, Sound, Dated
<1>7. IsFiniteSet(V)
  <2>1. PICK g : g = [r \in rows |-> EventOf(r)]
    OBVIOUS
  <2>2. V \in SUBSET {g[r] : r \in rows}
    BY <1>5, <2>1 DEF EventsOf
  <2>3. IsFiniteSet({g[r] : r \in rows})
    BY FiniteImage DEF RowsInv
  <2> QED
    BY <2>2, <2>3, FS_Subset
<1>8. IsFiniteSet(V \union U) /\ \A o \in V \union U : Given(o)
  BY <1>1, <1>2, <1>4, <1>6, <1>7, FS_Union
<1> QED
  BY <1>2, <1>3, <1>5, <1>8, GivenIsLedgered

-----------------------------------------------------------------------------
(* What is recorded, held and forecast, step by step *)

\* The rows a user begins with, and the balance.
LEMMA InitMoney == Init => MoneyInv
<1> SUFFICES ASSUME Init PROVE MoneyInv
  OBVIOUS
<1>1. world \in World /\ rows = world.rows /\ cash = world.cash
  BY WorldsAssumption DEF Init
<1>2. rows \subseteq Row /\ cash \in Int
  BY <1>1 DEF World
<1>3. ASSUME NEW r \in rows PROVE Sound(r)
  <2>1. r \in Row
    BY <1>2
  <2>2. "least" \in DOMAIN r /\ r.amount \in Int /\ r.least \in Nat
    BY <2>1 DEF Row
  <2>3. Dated(r)
    BY InitRows DEF RowsInv
  <2> QED
    BY <2>2, <2>3 DEF Sound
<1>4. Paying(lived) /\ state = Nothing /\ batch = Nothing
  BY DEF Init, Unlived, Paying
<1> QED
  BY <1>2, <1>3, <1>4 DEF MoneyInv

\* What is done about a bill adds a row of it, and takes or gives its amount.
LEMMA BillMoney ==
  ASSUME RequestInv, MoneyInv, NEW b \in world.bills,
         \/ \E status \in {"scheduled", "pending"} : Announce(b, status)
         \/ Confirm(b)
         \/ Settle(b)
         \/ \E status \in {"cancelled", "failed"} : Withdraw(b, status)
         \/ Refund(b)
  PROVE  MoneyInv'
<1>1. world \in World /\ today \in Nat
  BY WorldsAssumption DEF RequestInv
<1>2. b \in Bills
  BY <1>1 DEF World
<1>3. b.amount \in Nat
  BY <1>2, BillsAssumption
<1>4. UNCHANGED <<state, batch, lived>>
  BY DEF Announce, Confirm, Settle, Withdraw, Refund, request
<1>5. cash' \in Int
  <2>1. cash \in Int
    BY DEF MoneyInv
  <2>2. cash' = cash \/ cash' = cash - b.amount \/ cash' = cash + b.amount
    BY DEF Announce, Confirm, Settle, Withdraw, Refund
  <2> QED
    BY <1>3, <2>1, <2>2
<1>6. ASSUME NEW step \in 0..3, NEW status, NEW direction, NEW kind
      PROVE  Sound(BillRow(b, step, status, direction, kind))
  <2>1. PICK r : r = BillRow(b, step, status, direction, kind)
    OBVIOUS
  <2>2. Dated(r)
    BY <1>1, <1>2, <2>1, BillRowsAreDated
  <2>3. "least" \in DOMAIN r /\ r.least = 0 /\ r.amount = IF direction = "debit" THEN -b.amount ELSE b.amount
    BY <2>1 DEF BillRow
  <2> QED
    BY <1>3, <2>1, <2>2, <2>3 DEF Sound
<1>7. \E step \in 0..3 : \E status, direction, kind :
        rows' = rows \union {BillRow(b, step, status, direction, kind)}
  <2>1. 0 \in 0..3 /\ 1 \in 0..3 /\ 2 \in 0..3 /\ 3 \in 0..3
    OBVIOUS
  <2> QED
    BY <2>1 DEF Announce, Confirm, Settle, Withdraw, Refund
<1>8. \A r \in rows' : Sound(r)
  BY <1>6, <1>7 DEF MoneyInv
<1> QED
  BY <1>4, <1>5, <1>8 DEF MoneyInv, Paying

\* What a forecast says is paid on a day is worth something too.
LEMMA ForecastPays ==
  ASSUME MoneyInv
  PROVE  Paying(Forecast)
<1>1. ASSUME NEW s, Paying(s) PROVE Paying(Says(s))
  <2>1. Says(s).salary = s.salary
    BY DEF Says
  <2>2. \A i \in Says(s).bills : \E j \in s.bills : i.amount = j.amount
    BY DEF Says
  <2> QED
    BY <1>1, <2>1, <2>2 DEF Paying
<1> QED
  BY <1>1 DEF Forecast, MoneyInv

\* A day that passes pays what the forecast says.
LEMMA DayMoney ==
  ASSUME RequestInv, RowsInv, MoneyInv, PassDay
  PROVE  MoneyInv'
<1>1. PICK d \in Nat : d = today + 1
  BY DEF RequestInv
<1>2. PICK bills, salary : bills = On(Forecast.bills, d) /\ salary = On(Forecast.salary, d)
  OBVIOUS
<1>3. \A i \in bills \union salary : i.amount \in Nat
  BY <1>2, ForecastPays DEF On, Paying
<1>4. IsFiniteSet(bills) /\ IsFiniteSet(salary)
  <2>1. FinitePlan(Forecast)
    BY SayingIsFinite DEF Forecast, RowsInv
  <2>2. bills \in SUBSET Forecast.bills /\ salary \in SUBSET Forecast.salary
    BY <1>2 DEF On
  <2> QED
    BY <2>1, <2>2, FS_Subset DEF FinitePlan
<1>5. cash' \in Int
  <2>1. Amounts(bills) /\ Amounts(salary)
    BY <1>3, <1>4 DEF Amounts
  <2>2. PICK x \in Nat, y \in Nat : x = Total(bills) /\ y = Total(salary)
    BY <2>1, TotalIsAmount
  <2>3. cash' = cash + y - x
    BY <1>1, <1>2, <2>2 DEF PassDay
  <2> QED
    BY <2>3 DEF MoneyInv
<1>6. ASSUME NEW k, NEW a \in Int, NEW category, NEW direction
      PROVE  "least" \in DOMAIN PaidRow(k, d, a, category, direction) /\
             PaidRow(k, d, a, category, direction).amount \in Int /\
             PaidRow(k, d, a, category, direction).least \in Nat
  BY DEF PaidRow
<1>7. \A r \in rows' : Dated(r)
  BY DayAdded DEF RowsInv, RequestInv
<1>8. ASSUME NEW r \in rows' PROVE Sound(r)
  <2>1. \/ r \in rows
        \/ \E i \in bills : \E k : r = PaidRow(k, d, -i.amount, i.category, "debit")
        \/ \E i \in salary : r = PaidRow(0, d, i.amount, "salary", "credit")
    BY <1>1, <1>2 DEF PassDay
  <2>2. "least" \in DOMAIN r /\ r.amount \in Int /\ r.least \in Nat
    <3>1. CASE r \in rows
      BY <3>1 DEF MoneyInv, Sound
    <3>2. ASSUME NEW i \in bills, NEW k, r = PaidRow(k, d, -i.amount, i.category, "debit")
          PROVE  "least" \in DOMAIN r /\ r.amount \in Int /\ r.least \in Nat
      <4>1. PICK a \in Int : a = -i.amount
        BY <1>3
      <4> QED
        BY <1>6, <3>2, <4>1
    <3>3. ASSUME NEW i \in salary, r = PaidRow(0, d, i.amount, "salary", "credit")
          PROVE  "least" \in DOMAIN r /\ r.amount \in Int /\ r.least \in Nat
      <4>1. PICK a \in Int : a = i.amount
        BY <1>3
      <4> QED
        BY <1>6, <3>3, <4>1
    <3> QED
      BY <2>1, <3>1, <3>2, <3>3
  <2> QED
    BY <1>7, <2>2 DEF Sound
<1>9. Paying(lived')
  <2>1. lived'.bills = After(Forecast.bills, d) /\ lived'.salary = After(Forecast.salary, d)
    BY <1>1 DEF PassDay
  <2> QED
    BY <2>1, ForecastPays DEF After, Paying
<1>10. state' = Nothing /\ batch' = Nothing
  BY DEF PassDay
<1> QED
  BY <1>5, <1>8, <1>9, <1>10 DEF MoneyInv

\* The balance a state starts from is whole.
LEMMA BalanceIsWhole ==
  ASSUME RequestInv, MoneyInv, pc = "build"
  PROVE  AvailableBalance \in Int
<1>1. world \in World /\ IsFiniteSet(world.accounts) /\ today \in Nat /\ cash \in Int
  BY WorldsAssumption DEF RequestInv, MoneyInv
<1>2. CASE Liquid = {}
  BY <1>1, <1>2 DEF AvailableBalance
<1>3. CASE Liquid # {}
  <2>1. PICK L : L = Liquid
    OBVIOUS
  <2>2. L \in SUBSET world.accounts
    BY <2>1 DEF Liquid
  <2>3. IsFiniteSet(L)
    BY <1>1, <2>2, FS_Subset
  <2>4. PICK f : f = [a \in L |-> Converted(a.balance, a.currency, world.home, today)]
    OBVIOUS
  <2>5. ASSUME NEW a \in L PROVE f[a] \in Int
    <3>1. a.balance # Unknown
      BY <2>1 DEF RequestInv, Worthy, Priced, Passed
    <3>2. a.balance \in Nat \union {Unknown}
      BY <1>1, <2>2 DEF World
    <3>3. PICK b \in Nat : b = a.balance
      BY <3>1, <3>2
    <3>0. PICK c, h : c = a.currency /\ h = world.home
      OBVIOUS
    <3>4. Converted(b, c, h, today) \in Nat
      BY <1>1, ConvertedType
    <3> QED
      BY <2>4, <3>0, <3>3, <3>4
  <2>6. SumFunctionOnSet(f, L) \in Int
    BY <2>3, <2>5, SumType
  <2>7. AvailableBalance = SumFunctionOnSet(f, L)
    BY <1>3, <2>1, <2>4 DEF AvailableBalance, SumFunction
  <2> QED
    BY <2>6, <2>7
<1> QED
  BY <1>2, <1>3

\* What the engine is built a state of is its history and its balance.
LEMMA BuildIsOwed ==
  ASSUME RequestInv, RowsInv, MoneyInv, Build, state' # state
  PROVE  /\ state'.starting \in Int
         /\ \A i \in state'.debits \union state'.bills : Owed(i, today)
         /\ \A i \in state'.income \union state'.salary : Due90(i, today)
         /\ \A x \in state'.burns : /\ x.dates = (today + 1)..(today + Horizon)
                                    /\ x.item.amount \in Nat /\ x.item.least \in Nat
<1>1. PICK R : R = Resolved(rows, world.home)
  OBVIOUS
<1>2. History(R)
  BY <1>1, RowsAreHistory DEF RowsInv, MoneyInv
<1>3. PICK a \in Int : a = AvailableBalance
  BY BalanceIsWhole DEF Build
<1>4. PICK s : s = state'
  OBVIOUS
<1>5. s = EngineState(R, a, today)
  BY <1>1, <1>3, <1>4 DEF Build
<1>6. /\ s.starting \in Int
      /\ \A i \in s.debits \union s.bills : Owed(i, today)
      /\ \A i \in s.income \union s.salary : Due90(i, today)
      /\ \A x \in s.burns :
           x.dates = (today + 1)..(today + Horizon) /\ x.item.amount \in Nat /\ x.item.least \in Nat
  BY <1>2, <1>5, StateIsOwed
<1> QED
  BY <1>4, <1>6

\* Each step leaves amounts.
LEMMA MoneyStep ==
  ASSUME RequestInv, RowsInv, MoneyInv, [Next]_vars
  PROVE  MoneyInv'
<1>1. ASSUME NEW b \in world.bills,
             \/ \E status \in {"scheduled", "pending"} : Announce(b, status)
             \/ Confirm(b)
             \/ Settle(b)
             \/ \E status \in {"cancelled", "failed"} : Withdraw(b, status)
             \/ Refund(b)
      PROVE  MoneyInv'
  BY <1>1, BillMoney
<1>2. CASE PassDay
  BY <1>2, DayMoney
<1>3. CASE Build
  <2>1. UNCHANGED <<cash, rows, batch, lived>>
    BY <1>3 DEF Build, user
  <2>2. CASE state' = state
    BY <2>1, <2>2 DEF MoneyInv, Paying
  <2>3. CASE state' # state
    <3>1. Paying(state')
      BY <1>3, <2>3, BuildIsOwed DEF Paying, Owed, Due90
    <3> QED
      BY <2>1, <3>1 DEF MoneyInv, Paying
  <2> QED
    BY <2>2, <2>3
<1>4. CASE RunBatch
  <2>1. UNCHANGED <<cash, rows, state, lived>>
    BY <1>4 DEF RunBatch, user
  <2>2. PICK R : R = BatchResolved(EventsOf(rows) \union world.unread, world.pictures, world.home)
    OBVIOUS
  <2>3. Ledgered(R)
    BY <2>2, BatchIsLedgered
  <2>4. PICK messages \in Seq(Message) : messages = world.messages
    <3>1. world \in World
      BY WorldsAssumption DEF RequestInv
    <3> QED
      BY <3>1 DEF World
  <2>5. \E a, daily, filtered : batch' = BatchState(R, a, today, messages, daily, filtered)
    BY <1>4, <2>2, <2>4 DEF RunBatch, OlderState
  <2>6. Paying(batch')
    BY <2>3, <2>5, BatchIsPaying
  <2> QED
    BY <2>1, <2>6 DEF MoneyInv, Paying
<1>5. ASSUME \/ \E p \in world.purchases : Ask(p)
             \/ Gate \/ Convert \/ Hang \/ EngineFails \/ Report \/ Rest
             \/ \E d \in Possible(worth) : Decide(d)
             \/ \E committed \in BOOLEAN : Persist(committed)
      PROVE  UNCHANGED <<cash, rows, state, batch, lived>>
  BY <1>5 DEF Ask, Gate, Convert, Hang, EngineFails, Report, Rest, Decide, Persist, user, request, vars
<1>6. UNCHANGED <<cash, rows, state, batch, lived>> => MoneyInv'
  BY DEF MoneyInv, Paying
<1>7. CASE UNCHANGED vars
  BY <1>6, <1>7 DEF vars, user, request
<1> QED
  BY <1>1, <1>2, <1>3, <1>4, <1>5, <1>6, <1>7 DEF Next

\* So there are nothing but amounts in every reachable state.
LEMMA MoneyHolds == Spec => []MoneyInv
<1>1. Init => MoneyInv
  BY InitMoney
<1>2. RequestInv /\ RowsInv /\ MoneyInv /\ [Next]_vars => MoneyInv'
  BY MoneyStep
<1> QED
  BY <1>1, <1>2, RequestsHold, RowsHold, PTL DEF Spec

\* What validation and the gate have made sure of before a state is built.
InputInv ==
  /\ pc \in {"idle", "gate", "convert", "build"} => state = Nothing
  /\ pc \in {"gate", "convert", "build"} => ask.wait \in Nat
  /\ pc \in {"convert", "build"} => world.minimum \in Nat
  /\ EngineInput

\* Each step of an evaluation leaves what the next one relies on, and the engine its input.
LEMMA InputStep ==
  ASSUME RequestInv, RowsInv, MoneyInv, InputInv, [Next]_vars
  PROVE  InputInv'
<1>0. world \in World /\ today \in Nat
  BY WorldsAssumption DEF RequestInv
<1>1. UNCHANGED <<state, world, worth, ask, today>> => EngineInput'
  BY DEF InputInv, EngineInput
<1>2. state' = Nothing => EngineInput'
  BY DEF EngineInput
<1>3. CASE UNCHANGED vars
  <2>1. UNCHANGED <<state, world, worth, ask, today, pc>>
    BY <1>3 DEF vars, user, request
  <2> QED
    BY <1>1, <2>1 DEF InputInv
<1>4. ASSUME NEW b \in world.bills,
             \/ \E status \in {"scheduled", "pending"} : Announce(b, status)
             \/ Confirm(b)
             \/ Settle(b)
             \/ \E status \in {"cancelled", "failed"} : Withdraw(b, status)
             \/ Refund(b)
      PROVE  InputInv'
  <2>1. UNCHANGED <<state, world, worth, ask, today, pc>>
    BY <1>4 DEF Announce, Confirm, Settle, Withdraw, Refund, request
  <2> QED
    BY <1>1, <2>1 DEF InputInv
<1>5. CASE PassDay
  <2>1. pc' = "idle" /\ state' = Nothing
    BY <1>5 DEF PassDay
  <2> QED
    BY <1>2, <2>1 DEF InputInv
<1>6. ASSUME NEW p \in world.purchases, Ask(p) PROVE InputInv'
  <2>1. state' = Nothing /\ ask' = p /\ ((pc' = "gate" /\ p.wait >= 0) \/ pc' = "answered")
    BY <1>6 DEF Ask, Still
  <2>2. p.wait \in Int
    BY <1>0 DEF World
  <2> QED
    BY <1>2, <2>1, <2>2 DEF InputInv
<1>7. CASE Gate
  <2>1. /\ pc = "gate" /\ UNCHANGED <<state, world, worth, ask, today>>
        /\ ((pc' = "convert" /\ Sufficient(Known)) \/ pc' = "answered")
    BY <1>7 DEF Gate, user
  <2>2. Sufficient(Known) => world.minimum \in Nat
    <3>1. world.minimum \in Int
      BY <1>0 DEF World
    <3> QED
      BY <3>1 DEF Sufficient
  <2> QED
    BY <1>1, <2>1, <2>2 DEF InputInv
<1>8. CASE Convert
  <2>1. /\ pc = "convert" /\ UNCHANGED <<state, world, ask, today>>
        /\ (pc' = "build" \/ pc' = "answered")
    BY <1>8 DEF Convert, user
  <2> QED
    BY <1>2, <2>1 DEF InputInv
<1>9. CASE Build
  <2>1. /\ pc = "build" /\ UNCHANGED <<world, worth, ask, today>>
        /\ (pc' = "decide" \/ pc' = "answered")
    BY <1>9 DEF Build, user
  <2>2. CASE state' = state
    BY <1>1, <2>1, <2>2 DEF InputInv
  <2>3. CASE state' # state
    <3>1. worth \in Nat \ {0}
      <4>1. Worthy /\ ask.amount \in Int /\ ask.amount > 0
        BY <2>1, PurchaseTyped DEF RequestInv, Worthy, Priced, Passed, Accepted
      <4>2. PICK a \in Nat : a = ask.amount
        BY <4>1
      <4>0. PICK c, h : c = ask.currency /\ h = world.home
        OBVIOUS
      <4>3. Converted(a, c, h, today) \in Nat
        BY <1>0, ConvertedType
      <4>4. worth = Converted(a, c, h, today) /\ worth > 0
        BY <4>0, <4>1, <4>2 DEF Worthy, Priced
      <4> QED
        BY <4>3, <4>4
    <3>2. ask.wait \in Nat /\ world.minimum \in Nat
      BY <2>1 DEF InputInv
    <3>3. /\ state'.starting \in Int
          /\ \A i \in state'.debits \union state'.bills : Owed(i, today)
          /\ \A i \in state'.income \union state'.salary : Due90(i, today)
          /\ \A x \in state'.burns : /\ x.dates = (today + 1)..(today + Horizon)
                                     /\ x.item.amount \in Nat /\ x.item.least \in Nat
      BY <1>9, <2>3, BuildIsOwed
    <3>4. EngineInput'
      BY <2>1, <3>1, <3>2, <3>3 DEF EngineInput, Owed, Due90
    <3> QED
      BY <2>1, <3>4 DEF InputInv
  <2> QED
    BY <2>2, <2>3
<1>10. ASSUME \/ Hang \/ EngineFails \/ Report \/ RunBatch \/ Rest
              \/ pc = "decide" /\ \E d \in Possible(worth) : Decide(d)
              \/ \E committed \in BOOLEAN : Persist(committed)
       PROVE  /\ UNCHANGED <<state, world, worth, ask, today>>
              /\ pc' = pc \/ pc' \in {"stuck", "report", "persist", "answered"}
  BY <1>10 DEF Hang, EngineFails, Report, RunBatch, Rest, Decide, Persist, user, request, vars
<1>11. UNCHANGED <<state, world, worth, ask, today>> /\ (pc' = pc \/ pc' \in {"stuck", "report", "persist", "answered"})
         => InputInv'
  BY <1>1 DEF InputInv
<1> QED
  BY <1>3, <1>4, <1>5, <1>6, <1>7, <1>8, <1>9, <1>10, <1>11 DEF Next

\* Whatever a user has recorded, lived through and asked for, what passes validation
\* and the gate reaches the engine as an evaluation it takes: what DecisionEngine
\* assumes of its inputs is what the data path gives it.
THEOREM EngineInputsAreTaken == Spec => []EngineInput
<1>1. Init => InputInv
  BY DEF Init, InputInv, EngineInput
<1>2. RequestInv /\ RowsInv /\ MoneyInv /\ InputInv /\ [Next]_vars => InputInv'
  BY InputStep
<1>3. InputInv => EngineInput
  BY DEF InputInv
<1> QED
  BY <1>1, <1>2, <1>3, RequestsHold, RowsHold, MoneyHolds, PTL DEF Spec
=============================================================================
