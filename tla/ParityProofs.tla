----------------------------- MODULE ParityProofs -----------------------------
(***************************************************************************)
(* Theorems that relate the engine, the batch programs and the risk layer:  *)
(* that the engine decides as V2 does, and that the tier tells the truth    *)
(* about the decision, for every horizon, set of streams and inputs.        *)
(***************************************************************************)
EXTENDS PlanningProofs

-----------------------------------------------------------------------------
(* Payments and balances *)

\* What a plan pays up to a day.
Due(p, d) == SumFunctionOnSet(p, DOMAIN p \intersect (0..d))

\* From one day to the next it grows by the payment of the day.
LEMMA DueGrows ==
  ASSUME NEW p, Payments(p), NEW d \in Nat
  PROVE  /\ Due(p, d) \in Int
         /\ Due(p, d) = (IF d = 0 THEN 0 ELSE Due(p, d - 1)) + (IF d \in DOMAIN p THEN p[d] ELSE 0)
<1>1. PICK S : S = IF d = 0 THEN {} ELSE DOMAIN p \intersect (0..(d - 1))
  OBVIOUS
<1>2. PICK T : T = DOMAIN p \intersect (0..d)
  OBVIOUS
<1>3. S \subseteq T /\ d \notin S /\ T = IF d \in DOMAIN p THEN S \union {d} ELSE S
  BY <1>1, <1>2
<1>4. IsFiniteSet(T)
  <2>1. 0 \in Int /\ d \in Int
    OBVIOUS
  <2>2. PICK D : D = 0..d
    OBVIOUS
  <2>3. IsFiniteSet(D)
    BY <2>1, <2>2, FS_Interval
  <2> QED
    BY <1>2, <2>2, <2>3, FS_Subset
<1>5. IsFiniteSet(S)
  BY <1>3, <1>4, FS_Subset
<1>6. \A x \in T : p[x] \in Int
  BY <1>2 DEF Payments
<1>7. SumFunctionOnSet(p, S) \in Int /\ SumFunctionOnSet(p, T) \in Int
  BY <1>3, <1>4, <1>5, <1>6, SumType
<1>8. SumFunctionOnSet(p, T) = SumFunctionOnSet(p, S) + (IF d \in DOMAIN p THEN p[d] ELSE 0)
  <2>1. CASE d \in DOMAIN p
    <3>1. \A x \in S \union {d} : p[x] \in Int
      BY <1>3, <1>6, <2>1
    <3>2. SumFunctionOnSet(p, S \union {d}) = SumFunctionOnSet(p, S) + p[d]
      BY <1>3, <1>5, <3>1, SumAdds
    <3> QED
      BY <1>3, <2>1, <3>2
  <2>2. CASE d \notin DOMAIN p
    BY <1>3, <1>7, <2>2
  <2> QED
    BY <2>1, <2>2
<1>9. Due(p, d) = SumFunctionOnSet(p, T)
  BY <1>2 DEF Due
<1>10. SumFunctionOnSet(p, S) = IF d = 0 THEN 0 ELSE Due(p, d - 1)
  BY <1>1, SumOfNothing DEF Due
<1> QED
  BY <1>7, <1>8, <1>9, <1>10

\* A function that grows like it from zero is what the plan has paid.
LEMMA DueIs ==
  ASSUME NEW p, Payments(p), NEW f,
         \A d \in Day : f[d] = (IF d = 0 THEN 0 ELSE f[d - 1]) + (IF d \in DOMAIN p THEN p[d] ELSE 0)
  PROVE  \A d \in Day : f[d] = Due(p, d)
<1> DEFINE G == {d \in Nat : d \in Day => f[d] = Due(p, d)}
<1>1. 0 \in G
  BY DueGrows
<1>2. ASSUME NEW n \in Nat, n \in G PROVE n + 1 \in G
  <2> SUFFICES ASSUME n + 1 \in Day PROVE f[n + 1] = Due(p, n + 1)
    OBVIOUS
  <2>1. n \in Day /\ n + 1 # 0 /\ (n + 1) - 1 = n /\ n + 1 \in Nat
    BY HorizonAssumption DEF Day
  <2>2. f[n + 1] = f[n] + (IF n + 1 \in DOMAIN p THEN p[n + 1] ELSE 0)
    BY <2>1
  <2>3. Due(p, n + 1) = Due(p, n) + (IF n + 1 \in DOMAIN p THEN p[n + 1] ELSE 0)
    BY <2>1, DueGrows
  <2> QED
    BY <1>2, <2>1, <2>2, <2>3
<1> HIDE DEF G
<1>3. Nat \subseteq G
  BY <1>1, <1>2, NumbersByInduction
<1>4. Day \subseteq Nat
  BY HorizonAssumption DEF Day
<1> QED
  BY <1>3, <1>4 DEF G

\* Payments lower the balances by what has been paid.
LEMMA PaymentsLower ==
  ASSUME NEW x \in Input, NEW c, NEW p, Payments(p), NEW d \in Day
  PROVE  /\ BuildLedger(x, c, p)[d] = BuildLedger(x, c, Nothing)[d] - Due(p, d)
         /\ Due(p, d) \in Int /\ BuildLedger(x, c, p)[d] \in Int
         /\ BuildLedger(x, c, Nothing)[d] \in Int
<1>1. PICK l : l = BuildLedger(x, c, Nothing) /\ l \in [Day -> Int]
               /\ Closing(x.starting, x.flow, DebitMap(x, c, Nothing), l)
  BY PlainPayments, LedgerCloses
<1>2. PICK k : k = BuildLedger(x, c, p) /\ k \in [Day -> Int]
               /\ Closing(x.starting, x.flow, DebitMap(x, c, p), k)
  BY LedgerCloses
<1>3. PICK m : m = [y \in Day |-> l[y] - Due(p, y)]
  OBVIOUS
<1>4. Day \subseteq Nat
  BY HorizonAssumption DEF Day
<1>5. \A y \in Day : Due(p, y) \in Int
  BY <1>4, DueGrows
<1>6. ASSUME NEW y \in Day
      PROVE  m[y] = (IF y = 0 THEN x.starting ELSE m[y - 1]) + x.flow[y] - DebitMap(x, c, p)[y]
  <2>1. PICK s \in Int : s = SumFunctionOnSet(CostOf(x, c, y), Streams)
    BY DebitMapType
  <2>2. DebitMap(x, c, Nothing)[y] = s
    BY <2>1, DebitMapType, PlainPayments
  <2>3. PICK a \in Int : a = IF y \in DOMAIN p THEN p[y] ELSE 0
    BY DEF Payments
  <2>4. DebitMap(x, c, p)[y] = s + a
    BY <2>1, <2>3, DebitMapType
  <2>5. l[y] = (IF y = 0 THEN x.starting ELSE l[y - 1]) + x.flow[y] - s
    BY <1>1, <2>2 DEF Closing
  <2>6. Due(p, y) = (IF y = 0 THEN 0 ELSE Due(p, y - 1)) + a
    BY <1>4, <2>3, DueGrows
  <2>7. x.flow[y] \in Int /\ x.starting \in Int
    BY DEF Input
  <2>8. m[y] = l[y] - Due(p, y)
    BY <1>3
  <2>9. CASE y = 0
    BY <1>1, <2>4, <2>5, <2>6, <2>7, <2>8, <2>9
  <2>10. CASE y # 0
    <3>1. PICK z \in Day : z = y - 1
      BY <2>10, HorizonAssumption DEF Day
    <3>2. m[z] = l[z] - Due(p, z) /\ l[z] \in Int /\ Due(p, z) \in Int
      BY <1>1, <1>3, <1>5
    <3>3. l[y] = l[z] + x.flow[y] - s /\ Due(p, y) = Due(p, z) + a
      BY <2>5, <2>6, <2>10, <3>1
    <3>4. m[y] = m[z] + x.flow[y] - DebitMap(x, c, p)[y]
      BY <2>4, <2>7, <2>8, <3>2, <3>3
    <3> QED
      BY <2>10, <3>1, <3>4
  <2> QED
    BY <2>9, <2>10
<1>7. Closing(x.starting, x.flow, DebitMap(x, c, p), m)
  <2>1. m = [y \in Day |-> m[y]]
    BY <1>3
  <2> QED
    BY <1>6, <2>1 DEF Closing
<1>8. k = m
  BY <1>2, <1>7, ClosingUnique
<1> QED
  BY <1>1, <1>2, <1>3, <1>5, <1>8


\* One payment is the plan of a full payment or a wait.
LEMMA OnceIsPaid ==
  ASSUME NEW e \in Day, NEW a \in Nat
  PROVE  \A d \in Day : Due(Pay(e, a), d) = Once(e, a)[d]
<1>1. PICK p : p = Pay(e, a) /\ Payments(p) /\ DOMAIN p = {e} /\ p[e] = a
  <2>1. e \in Int
    BY HorizonAssumption DEF Day
  <2> QED
    BY <2>1, PlainPayments
<1>2. PICK f : f = Once(e, a)
  OBVIOUS
<1>3. \A d \in Day : d \in Nat /\ f[d] = IF d >= e THEN a ELSE 0
  BY <1>2, HorizonAssumption DEF Once, Day
<1>4. ASSUME NEW d \in Day
      PROVE  f[d] = (IF d = 0 THEN 0 ELSE f[d - 1]) + (IF d \in DOMAIN p THEN p[d] ELSE 0)
  <2>1. CASE d = 0
    BY <1>1, <1>3, <2>1
  <2>2. CASE d # 0
    <3>1. PICK y \in Day : y = d - 1
      BY <2>2, HorizonAssumption DEF Day
    <3> QED
      BY <1>1, <1>3, <2>2, <3>1
  <2> QED
    BY <2>1, <2>2
<1>5. \A d \in Day : f[d] = Due(p, d)
  BY <1>1, <1>4, DueIs
<1> QED
  BY <1>1, <1>2, <1>5

\* Two payments in a dict are the plan of a partial payment.
LEMMA TwiceIsPaid ==
  ASSUME NEW e \in Day, NEW a \in Nat, NEW b \in Nat,
         NEW p, p = [d \in {0, e} |-> IF d = e THEN b ELSE a]
  PROVE  Payments(p) /\ \A d \in Day : Due(p, d) = Twice(a, e, b)[d]
<1>1. Payments(p)
  BY HorizonAssumption DEF Payments, Day
<1>2. PICK f : f = Twice(a, e, b)
  OBVIOUS
<1>3. \A d \in Day : d \in Nat /\ f[d] = IF e = 0 THEN b ELSE IF d >= e THEN a + b ELSE a
  BY <1>2, HorizonAssumption DEF Twice, Day
<1>4. ASSUME NEW d \in Day
      PROVE  f[d] = (IF d = 0 THEN 0 ELSE f[d - 1]) + (IF d \in DOMAIN p THEN p[d] ELSE 0)
  <2>1. CASE d = 0
    BY <1>3, <2>1
  <2>2. CASE d # 0
    <3>1. PICK y \in Day : y = d - 1
      BY <2>2, HorizonAssumption DEF Day
    <3>2. (IF d \in DOMAIN p THEN p[d] ELSE 0) = IF d = e THEN b ELSE 0
      BY <2>2
    <3>3. e \in Nat
      BY <1>3
    <3> QED
      BY <1>3, <2>2, <3>1, <3>2, <3>3
  <2> QED
    BY <2>1, <2>2
<1>5. \A d \in Day : f[d] = Due(p, d)
  BY <1>1, <1>4, DueIs
<1> QED
  BY <1>1, <1>2, <1>5

\* Of two sets of numbers that have none in common, the sizes add up.
LEMMA SizesAdd ==
  ASSUME NEW A, NEW B, IsFiniteSet(A), IsFiniteSet(B), A \intersect B = {}
  PROVE  /\ Cardinality(A \union B) = Cardinality(A) + Cardinality(B)
         /\ Cardinality(A) \in Nat /\ Cardinality(B) \in Nat
<1>1. Cardinality(A) \in Nat /\ Cardinality(B) \in Nat
  BY FS_CardinalityType
<1>2. Cardinality(A \union B) = Cardinality(A) + Cardinality(B) - Cardinality(A \intersect B)
  BY FS_Union
<1>3. Cardinality(A \intersect B) = 0
  BY FS_EmptySet
<1> QED
  BY <1>1, <1>2, <1>3

\* From one day to the next, the payments due grow by those of the day.
LEMMA DueByGrows ==
  ASSUME NEW o \in Option, NEW d \in Nat
  PROVE  /\ DueBy(o, d) \in Nat /\ OnDay(o, d) \in Nat
         /\ d = 0 => DueBy(o, d) = OnDay(o, d)
         /\ d # 0 => /\ DueBy(o, d - 1) \in Nat
                     /\ DueBy(o, d) = DueBy(o, d - 1) + OnDay(o, d)
<1>1. PICK I : I = Parts(o) /\ IsFiniteSet(I)
  <2>1. o.count - 1 \in Int /\ 0 \in Int
    BY DEF Option
  <2>2. IsFiniteSet(Parts(o))
    BY <2>1, FS_Interval DEF Parts
  <2> QED
    BY <2>2
<1>2. \A k : DueBy(o, k) = Cardinality({i \in I : DateOf(o, i) \in 0..k})
  BY <1>1 DEF DueBy, Parts, DateOf
<1>3. PICK B : B = {i \in I : DateOf(o, i) = d}
  OBVIOUS
<1>4. PICK T : T = {i \in I : DateOf(o, i) \in 0..d}
  OBVIOUS
<1>5. IsFiniteSet(B) /\ IsFiniteSet(T)
  BY <1>1, <1>3, <1>4, FS_Subset
<1>6. Cardinality(B) \in Nat /\ Cardinality(T) \in Nat
  BY <1>5, FS_CardinalityType
<1>7. OnDay(o, d) = Cardinality(B) /\ DueBy(o, d) = Cardinality(T)
  BY <1>1, <1>2, <1>3, <1>4 DEF OnDay
<1>8. ASSUME d = 0 PROVE T = B
  BY <1>3, <1>4, <1>8
<1>9. ASSUME d # 0
      PROVE  /\ DueBy(o, d - 1) \in Nat
             /\ DueBy(o, d) = DueBy(o, d - 1) + Cardinality(B)
  <2>1. PICK A : A = {i \in I : DateOf(o, i) \in 0..(d - 1)}
    OBVIOUS
  <2>2. T = A \union B /\ A \intersect B = {}
    <3>1. 0..d = (0..(d - 1)) \union {d} /\ d \notin 0..(d - 1)
      BY <1>9
    <3> QED
      BY <1>3, <1>4, <2>1, <3>1
  <2>3. IsFiniteSet(A)
    BY <1>1, <2>1, FS_Subset
  <2>4. Cardinality(A \union B) = Cardinality(A) + Cardinality(B) /\ Cardinality(A) \in Nat
    BY <1>5, <2>2, <2>3, SizesAdd
  <2> QED
    BY <1>2, <1>7, <2>1, <2>2, <2>4
<1> QED
  BY <1>6, <1>7, <1>8, <1>9

\* The dict of an option's payments adds up to its plan.
LEMMA OptionIsPaid ==
  ASSUME NEW o \in Option
  PROVE  \A d \in Day : Due(PaymentsOf(o), d) = OptionPlan(o)[d]
<1>1. PICK p : p = PaymentsOf(o) /\ Payments(p)
  BY OptionPayments
<1>2. DOMAIN p = DueDates(o) /\ \A d \in DueDates(o) : p[d] = o.amount * OnDay(o, d)
  BY <1>1, PaymentsOfOption
<1>3. PICK f : f = OptionPlan(o)
  OBVIOUS
<1>4. \A d \in Day : d \in Nat /\ f[d] = o.amount * DueBy(o, d)
  BY <1>3, HorizonAssumption DEF OptionPlan, Day
<1>5. o.amount \in Nat
  BY DEF Option
<1>6. ASSUME NEW d \in Day
      PROVE  (IF d \in DOMAIN p THEN p[d] ELSE 0) = o.amount * OnDay(o, d)
  <2>1. CASE d \in DOMAIN p
    BY <1>2, <2>1
  <2>2. CASE d \notin DOMAIN p
    <3>1. {i \in Parts(o) : DateOf(o, i) = d} = {}
      BY <1>2, <2>2 DEF DueDates
    <3>2. OnDay(o, d) = 0
      BY <3>1, FS_EmptySet DEF OnDay
    <3> QED
      BY <1>5, <2>2, <3>2
  <2> QED
    BY <2>1, <2>2
<1>7. ASSUME NEW d \in Day
      PROVE  f[d] = (IF d = 0 THEN 0 ELSE f[d - 1]) + (IF d \in DOMAIN p THEN p[d] ELSE 0)
  <2>1. PICK n \in Nat : n = OnDay(o, d)
    BY <1>4, DueByGrows
  <2>2. CASE d = 0
    <3>1. DueBy(o, d) = n
      BY <1>4, <2>1, <2>2, DueByGrows
    <3>2. o.amount * n \in Nat
      BY <1>5, <2>1
    <3> QED
      BY <1>4, <1>6, <2>1, <2>2, <3>1, <3>2
  <2>3. CASE d # 0
    <3>1. PICK y \in Day : y = d - 1
      BY <1>4, <2>3, HorizonAssumption DEF Day
    <3>2. PICK m \in Nat : m = DueBy(o, y) /\ DueBy(o, d) = m + n
      BY <1>4, <2>1, <2>3, <3>1, DueByGrows
    <3>3. o.amount * (m + n) = o.amount * m + o.amount * n
      BY <1>5, <2>1, <3>2
    <3> QED
      BY <1>4, <1>6, <2>1, <2>3, <3>1, <3>2, <3>3
  <2> QED
    BY <2>2, <2>3
<1>8. \A d \in Day : f[d] = Due(p, d)
  BY <1>1, <1>7, DueIs
<1> QED
  BY <1>1, <1>3, <1>8

-----------------------------------------------------------------------------
(* The ledgers of the engine *)

\* Both code bases apply the same spending changes.
LEMMA ChangesAgree ==
  ASSUME in \in Input
  PROVE  /\ Combos = ChangeCombos(in)
         /\ \A c, d : Costs(c, d) = CostOf(in, c, d)
<1>1. \A s : Stops(s) <=> CanStop(in, s)
  BY DEF Stops, May, CanStop, Flexible
<1>2. \A s : Stops(s) \/ Reduces(s) <=> CanStop(in, s) \/ CanReduce(in, s)
  BY <1>1 DEF Reduces, May, CanReduce, Flexible
<1>3. Eligible = EligibleChanges(in)
  BY <1>2 DEF Eligible, EligibleChanges
<1>4. \A c, s, d : Debit(c, s, d) = Cost(in, c, s, d)
  BY <1>1 DEF Debit, Cost, ChangedAmount
<1> QED
  BY <1>3, <1>4 DEF Combos, ChangeCombos, Costs, CostOf

\* A ledger that was closed over all that falls due.
FullLedger(c, n, l, low) ==
  /\ l \in [Day -> Int] /\ low \in Int
  /\ Scanned(n, l, low, Horizon + 1)
  /\ \A d \in Day : n[d] = NetWith(c, Streams, d)

\* Such a ledger is that of the batch programs without payments, to the lowest balance.
LEMMA LedgersAgree ==
  ASSUME in \in Input, NEW c, NEW n, NEW l, NEW low, FullLedger(c, n, l, low)
  PROVE  /\ l = BuildLedger(in, c, Nothing)
         /\ low = MinimumClosing(in, c, Nothing)
<1>1. PICK k : k = BuildLedger(in, c, Nothing) /\ Closing(in.starting, in.flow, DebitMap(in, c, Nothing), k)
  BY PlainPayments, LedgerCloses
<1>2. \A d \in Day : d < Horizon + 1
  BY HorizonAssumption DEF Day
<1>3. ASSUME NEW d \in Day
      PROVE  l[d] = (IF d = 0 THEN in.starting ELSE l[d - 1]) + in.flow[d] - DebitMap(in, c, Nothing)[d]
  <2>1. PICK g \in Int : g = DebitMap(in, c, Nothing)[d] /\ g = SumFunctionOnSet(CostOf(in, c, d), Streams)
    <3>1. /\ DebitMap(in, c, Nothing)[d] \in Int
          /\ DebitMap(in, c, Nothing)[d] = SumFunctionOnSet(CostOf(in, c, d), Streams) + 0
          /\ SumFunctionOnSet(CostOf(in, c, d), Streams) \in Int
      BY PlainPayments, DebitMapType
    <3> QED
      BY <3>1
  <2>2. in.flow[d] \in Int /\ in.starting \in Int /\ l \in [Day -> Int]
    BY InputType DEF FullLedger
  <2>3. n[d] = in.flow[d] - g
    BY <2>1, ChangesAgree DEF FullLedger, NetWith
  <2>4. l[d] = n[d] + (IF d = 0 THEN in.starting ELSE l[d - 1])
    BY <1>2 DEF FullLedger, Scanned
  <2>5. (IF d = 0 THEN in.starting ELSE l[d - 1]) \in Int
    <3>1. d # 0 => d - 1 \in Day
      BY HorizonAssumption DEF Day
    <3> QED
      BY <2>2, <3>1
  <2> QED
    BY <2>1, <2>2, <2>3, <2>4, <2>5
<1>4. Closing(in.starting, in.flow, DebitMap(in, c, Nothing), l)
  <2>1. l = [d \in Day |-> l[d]]
    BY DEF FullLedger
  <2> QED
    BY <1>3, <2>1 DEF Closing
<1>5. l = k
  BY <1>1, <1>4, ClosingUnique
<1>6. PICK m \in Int : m = MinimumClosing(in, c, Nothing) /\ m <= in.starting
                        /\ (\A d \in Day : m <= l[d]) /\ (m = in.starting \/ \E d \in Day : m = l[d])
  BY <1>1, <1>5, PlainPayments, MinimumBounds
<1>7. /\ low \in Int /\ low <= in.starting
      /\ \A d \in Day : low <= l[d]
      /\ low = in.starting \/ \E d \in Day : low = l[d]
  BY <1>2 DEF FullLedger, Scanned
<1>8. in.starting \in Int /\ \A d \in Day : l[d] \in Int
  BY InputType DEF FullLedger
<1>9. m <= low /\ low <= m
  BY <1>6, <1>7, <1>8
<1> QED
  BY <1>1, <1>5, <1>6, <1>7, <1>9

\* So the safe amounts are the same.
LEMMA SafeAmountsAgree ==
  ASSUME in \in Input, NEW c, NEW n, NEW l, NEW low, FullLedger(c, n, l, low)
  PROVE  SafeAmount(low) = SafeToPay(in, c)
<1>1. low = MinimumClosing(in, c, Nothing)
  BY LedgersAgree
<1> QED
  BY <1>1, SafeToPayIs DEF SafeAmount

\* The days on which the price may be paid are the same.
LEMMA SolventDaysAgree ==
  ASSUME in \in Input, NEW c, NEW n, NEW l, NEW low, FullLedger(c, n, l, low), NEW e \in Day
  PROVE  Solvent(l, e) <=> MinimumClosing(in, c, Pay(e, in.amount)) >= in.minimum
<1>1. in.amount \in Nat /\ in.minimum \in Int /\ in.starting \in Int /\ e \in Int
  BY InputType, HorizonAssumption DEF Day
<1>2. PICK p : p = Pay(e, in.amount) /\ Payments(p)
  BY <1>1, PlainPayments
<1>3. PICK k : k = BuildLedger(in, c, p) /\ k \in [Day -> Int]
  BY <1>2, LedgerCloses
<1>4. ASSUME NEW d \in Day PROVE k[d] = l[d] - Once(e, in.amount)[d]
  <2>1. Due(p, d) = Once(e, in.amount)[d]
    BY <1>1, <1>2, OnceIsPaid
  <2>2. k[d] = BuildLedger(in, c, Nothing)[d] - Due(p, d)
    BY <1>2, <1>3, PaymentsLower
  <2> QED
    BY <2>1, <2>2, LedgersAgree
<1>5. PICK m \in Int : m = MinimumClosing(in, c, p) /\ m <= in.starting
                        /\ (\A d \in Day : m <= k[d]) /\ (m = in.starting \/ \E d \in Day : m = k[d])
  BY <1>2, <1>3, MinimumBounds
<1>6. m >= in.minimum <=> in.starting >= in.minimum /\ \A d \in Day : k[d] >= in.minimum
  BY <1>1, <1>3, <1>5
<1>7. Solvent(l, e) <=> in.starting >= in.minimum /\ \A d \in Day : k[d] >= in.minimum
  BY <1>4 DEF Solvent
<1> QED
  BY <1>2, <1>5, <1>6, <1>7

\* And so is the earliest of them.
LEMMA EarliestAgree ==
  ASSUME in \in Input, NEW c, NEW n, NEW l, NEW low, FullLedger(c, n, l, low),
         NEW e \in Day \union {None}, IsEarliest(l, e)
  PROVE  e = EarliestFull(in, c)
<1>1. PICK days : days = {d \in Day : MinimumClosing(in, c, Pay(d, in.amount)) >= in.minimum}
  OBVIOUS
<1>2. \A d \in Day : d \in days <=> Solvent(l, d)
  BY <1>1, SolventDaysAgree
<1>3. days \subseteq Day
  BY <1>1
<1>4. IF days = {} THEN EarliestFull(in, c) = None
      ELSE EarliestFull(in, c) \in days /\ \A d \in days : EarliestFull(in, c) <= d
  BY <1>1, EarliestFullType
<1>5. CASE days = {}
  <2>1. e = None
    BY <1>2, <1>3, <1>5 DEF IsEarliest
  <2> QED
    BY <1>4, <1>5, <2>1
<1>6. CASE days # {}
  <2>1. PICK f \in days : f = EarliestFull(in, c) /\ \A d \in days : f <= d
    BY <1>4, <1>6
  <2>2. Solvent(l, f) /\ f \in Day
    BY <1>2, <1>3
  <2>3. e \in Day /\ Solvent(l, e) /\ \A d \in Day : d < e => ~Solvent(l, d)
    BY <2>2 DEF IsEarliest
  <2>4. f <= e /\ ~(f < e)
    BY <1>2, <2>1, <2>2, <2>3
  <2>5. f \in Int /\ e \in Int
    BY <2>2, <2>3, HorizonAssumption DEF Day
  <2> QED
    BY <2>1, <2>4, <2>5
<1> QED
  BY <1>5, <1>6

\* A plan is safe for the engine if its payments are for V2.
LEMMA SafetyAgrees ==
  ASSUME in \in Input, NEW c, NEW n, NEW l, NEW low, FullLedger(c, n, l, low),
         NEW p, Payments(p), NEW f, \A d \in Day : Due(p, d) = f[d],
         NEW last, last = Max(DOMAIN p)
  PROVE  IsPlanSafe(l, f, last) = PlanIsSafe(V2, in, c, p)
<1>1. PICK k : k = BuildLedger(in, c, p)
  OBVIOUS
<1>2. \A d \in Day : k[d] = l[d] - f[d]
  BY <1>1, PaymentsLower, LedgersAgree
<1>3. PlanIsSafe(V2, in, c, p) = \A d \in Day : d <= last => k[d] >= in.minimum - Epsilon
  BY <1>1 DEF PlanIsSafe, V2
<1> QED
  BY <1>2, <1>3 DEF IsPlanSafe

-----------------------------------------------------------------------------
(* The candidates of the engine *)

\* The candidate of the engine that a plan of V2 amounts to.
CandidateFrom(p) ==
  [method |-> p.method, changes |-> p.changes, plan |-> PaidBy(p.payments), first |-> p.first,
   last |-> p.last, count |-> p.count, total |-> p.total, onTime |-> p.onTime,
   feasible |-> p.feasible]

\* The last date of a plan.
LEMMA LastIs ==
  ASSUME NEW S \in SUBSET Int, IsFiniteSet(S), NEW last \in S, \A d \in S : d <= last
  PROVE  last = Max(S)
<1>1. Max(S) \in S /\ \A y \in S : Max(S) >= y
  BY Extremes
<1>2. Max(S) <= last /\ Max(S) >= last /\ Max(S) \in Int /\ last \in Int
  BY <1>1
<1> QED
  BY <1>2

\* A candidate with the payments of a plan is the candidate of that plan.
LEMMA CandidateIs ==
  ASSUME in \in Input, FullLedger(changes, net, ledger, lowest),
         NEW m, NEW q, Payments(q), NEW f, f = [d \in Day |-> f[d]], \A d \in Day : Due(q, d) = f[d],
         NEW first, NEW last, last = Max(DOMAIN q), NEW count, NEW total
  PROVE  Candidate(m, f, first, last, count, total, IsPlanSafe(ledger, f, last))
           = CandidateFrom(PlanOf(V2, in, changes, m, q, first, last, count, total))
<1>1. PaidBy(q) = f
  <2>1. PaidBy(q) = [d \in Day |-> Due(q, d)]
    BY DEF PaidBy, Due
  <2> QED
    BY <2>1
<1>2. IsPlanSafe(ledger, f, last) = PlanIsSafe(V2, in, changes, q)
  BY SafetyAgrees
<1> QED
  BY <1>1, <1>2 DEF Candidate, CandidateFrom, PlanOf

\* The payment of a day, as a candidate.
LEMMA OnceCandidate ==
  ASSUME in \in Input, FullLedger(changes, net, ledger, lowest), NEW m, NEW e \in Day
  PROVE  Candidate(m, Once(e, in.amount), e, e, 1, in.amount, IsPlanSafe(ledger, Once(e, in.amount), e))
           = CandidateFrom(PlanOf(V2, in, changes, m, Pay(e, in.amount), e, e, 1, in.amount))
<1>1. in.amount \in Nat /\ e \in Int
  BY InputType, HorizonAssumption DEF Day
<1>2. PICK q : q = Pay(e, in.amount) /\ Payments(q) /\ DOMAIN q = {e}
  BY <1>1, PlainPayments
<1>3. e = Max(DOMAIN q)
  <2>1. PICK S : S = {e} /\ IsFiniteSet(S)
    BY FS_Singleton
  <2>2. S \in SUBSET Int /\ e \in S /\ \A d \in S : d <= e
    BY <1>1, <2>1
  <2>3. e = Max(S)
    BY <2>1, <2>2, LastIs
  <2> QED
    BY <1>2, <2>1, <2>3
<1>4. PICK f : f = Once(e, in.amount) /\ f = [d \in Day |-> f[d]]
  BY DEF Once
<1>5. \A d \in Day : Due(q, d) = f[d]
  BY <1>1, <1>2, <1>4, OnceIsPaid
<1> QED
  BY <1>2, <1>3, <1>4, <1>5, CandidateIs

\* What the engine generates for the combination of a ledger.
Generated(e) == FullPayment(lowest) \union Installments \union PartialPayment(lowest, e) \union Wait(e)

\* What V2 plans for it and finds feasible.
FeasibleFrom(plans) == {CandidateFrom(p) : p \in {q \in plans : q.feasible}}

\* Paying in full today is a feasible candidate if it is a feasible plan.
LEMMA FullPaymentsAgree ==
  ASSUME in \in Input, FullLedger(changes, net, ledger, lowest)
  PROVE  {c \in FullPayment(lowest) : c.feasible}
           = FeasibleFrom(FullPlans(V2, in, changes, SafeToPay(in, changes)))
<1>1. PICK p : p = PlanOf(V2, in, changes, "full_payment", Pay(0, in.amount), 0, 0, 1, in.amount)
  OBVIOUS
<1>2. PICK ok : ok = IsPlanSafe(ledger, Once(0, in.amount), 0)
  OBVIOUS
<1>3. Candidate("full_payment", Once(0, in.amount), 0, 0, 1, in.amount, ok) = CandidateFrom(p)
  BY <1>1, <1>2, ZeroIsADay, OnceCandidate
<1>4. CandidateFrom(p).feasible = p.feasible
  BY DEF CandidateFrom
<1>5. p.feasible = ok
  BY <1>3, <1>4 DEF Candidate
<1>6. ok \in BOOLEAN
  BY <1>2 DEF IsPlanSafe
<1>7. SafeAmount(lowest) = SafeToPay(in, changes) /\ SafeToPay(in, changes) \in Int /\ in.amount \in Int
  BY SafeAmountsAgree, SafeToPayIs, InputType
<1>8. CASE "full_payment" \notin in.methods
  BY <1>8 DEF FullPayment, FullPlans, FeasibleFrom
<1>9. CASE "full_payment" \in in.methods /\ SafeToPay(in, changes) < in.amount
  <2>1. PICK c : c = Candidate("full_payment", Once(0, in.amount), 0, 0, 1, in.amount,
                               SafeAmount(lowest) >= in.amount /\ ok)
    OBVIOUS
  <2>2. FullPayment(lowest) = {c}
    BY <1>2, <1>9, <2>1 DEF FullPayment
  <2>3. c.feasible = (SafeAmount(lowest) >= in.amount /\ ok)
    BY <2>1 DEF Candidate
  <2>4. ~(SafeAmount(lowest) >= in.amount)
    BY <1>7, <1>9
  <2>5. ~c.feasible
    BY <2>3, <2>4, Zenon
  <2> QED
    BY <1>9, <2>2, <2>5 DEF FullPlans, FeasibleFrom
<1>10. CASE "full_payment" \in in.methods /\ ~(SafeToPay(in, changes) < in.amount)
  <2>1. FullPlans(V2, in, changes, SafeToPay(in, changes)) = {p}
    BY <1>1, <1>10 DEF FullPlans
  <2>2. SafeAmount(lowest) >= in.amount
    BY <1>7, <1>10
  <2>3. (SafeAmount(lowest) >= in.amount /\ ok) = ok
    BY <1>6, <2>2
  <2>4. FullPayment(lowest) = {CandidateFrom(p)}
    BY <1>2, <1>3, <1>10, <2>3 DEF FullPayment
  <2> QED
    BY <1>4, <2>1, <2>4 DEF FeasibleFrom
<1> QED
  BY <1>8, <1>9, <1>10

\* The instalments that are taken into account are the same.
LEMMA InstallmentsAgree ==
  ASSUME in \in Input, FullLedger(changes, net, ledger, lowest)
  PROVE  {c \in Installments : c.feasible} = FeasibleFrom(InstallmentPlans(V2, in, changes))
<1> DEFINE C(o) == Candidate("installments", OptionPlan(o), o.first, OptionEnd(o), o.count, o.total,
                             IsPlanSafe(ledger, OptionPlan(o), OptionEnd(o)))
           P(o) == PlanOf(V2, in, changes, "installments", PaymentsOf(o), o.first, OptionEnd(o),
                          o.count, o.total)
<1>1. ASSUME NEW o \in in.options PROVE C(o) = CandidateFrom(P(o))
  <2>1. o \in Option
    BY InputType
  <2>2. PICK q : q = PaymentsOf(o) /\ Payments(q) /\ IsFiniteSet(DOMAIN q) /\ OptionEnd(o) \in DOMAIN q
                 /\ \A d \in DOMAIN q : d <= OptionEnd(o)
    BY <2>1, OptionPayments
  <2>3. OptionEnd(o) = Max(DOMAIN q)
    <3>1. DOMAIN q \in SUBSET Int
      BY <2>2 DEF Payments
    <3> QED
      BY <2>2, <3>1, LastIs
  <2>4. PICK f : f = OptionPlan(o) /\ f = [d \in Day |-> f[d]]
    BY DEF OptionPlan
  <2>5. \A d \in Day : Due(q, d) = f[d]
    BY <2>1, <2>2, <2>4, OptionIsPaid
  <2>6. PICK last : last = OptionEnd(o)
    OBVIOUS
  <2>7. Candidate("installments", f, o.first, last, o.count, o.total, IsPlanSafe(ledger, f, last))
          = CandidateFrom(PlanOf(V2, in, changes, "installments", q, o.first, last, o.count, o.total))
    BY <2>2, <2>3, <2>4, <2>5, <2>6, CandidateIs
  <2> QED
    BY <2>2, <2>4, <2>6, <2>7
<1>2. Accepted = ShortEnough(in) /\ Accepted \subseteq in.options
  BY DEF Accepted, ShortEnough
<1>3. Installments = {C(o) : o \in Accepted} /\ InstallmentPlans(V2, in, changes) = {P(o) : o \in Accepted}
  BY <1>2 DEF Installments, InstallmentPlans
<1> HIDE DEF C, P
<1>4. \A p : CandidateFrom(p).feasible = p.feasible
  BY DEF CandidateFrom
<1> QED
  BY <1>1, <1>2, <1>3, <1>4 DEF FeasibleFrom

\* The partial payment is the same, the rest of it due on the earliest date.
LEMMA PartialPaymentsAgree ==
  ASSUME in \in Input, FullLedger(changes, net, ledger, lowest),
         NEW e \in Day \union {None}, IsEarliest(ledger, e), e = EarliestFull(in, changes)
  PROVE  {c \in PartialPayment(lowest, e) : c.feasible}
           = FeasibleFrom(PartialPlans(V2, in, changes, SafeToPay(in, changes), e))
<1>1. PICK safe \in Int : safe = SafeAmount(lowest) /\ safe = SafeToPay(in, changes)
  BY SafeAmountsAgree, SafeToPayIs
<1>2. PICK q : q = [d \in {0, e} |-> IF d = e THEN in.amount - safe ELSE safe]
  OBVIOUS
<1>3. PICK f : f = Twice(safe, e, in.amount - safe) /\ f = [d \in Day |-> f[d]]
  BY DEF Twice
<1>4. PICK p : p = PlanOf(V2, in, changes, "partial_payment", q, 0, e, 2, in.amount)
  OBVIOUS
<1>5. PICK c : c = Candidate("partial_payment", f, 0, e, 2, in.amount, IsPlanSafe(ledger, f, e))
  OBVIOUS
<1>6. PICK asked : asked = /\ in.partial /\ "partial_payment" \in in.methods
                           /\ 0 < safe /\ safe < in.amount
                           /\ e # None /\ e <= in.deadline
  OBVIOUS
<1>7. /\ PartialPayment(lowest, e) = IF asked THEN {c} ELSE {}
      /\ PartialPlans(V2, in, changes, safe, e) = IF asked THEN {p} ELSE {}
  BY <1>1, <1>2, <1>3, <1>4, <1>5, <1>6 DEF PartialPayment, Remainder, PartialPlans
<1>8. ASSUME asked PROVE c = CandidateFrom(p)
  <2>1. 0 < safe /\ safe < in.amount /\ e # None
    BY <1>6, <1>8
  <2>2. e \in Day /\ e \in Int /\ 0 <= e
    BY <2>1, HorizonAssumption DEF Day
  <2>3. safe \in Nat /\ in.amount - safe \in Nat
    BY <1>1, <2>1, InputType
  <2>4. Payments(q) /\ \A d \in Day : Due(q, d) = f[d]
    BY <1>2, <1>3, <2>2, <2>3, TwiceIsPaid
  <2>5. e = Max(DOMAIN q)
    <3>1. PICK S : S = {0} \union {e} /\ IsFiniteSet(S)
      <4>1. PICK Z : Z = {0} /\ IsFiniteSet(Z)
        BY FS_Singleton
      <4>2. IsFiniteSet(Z \union {e})
        BY <4>1, FS_AddElement
      <4> QED
        BY <4>1, <4>2
    <3>2. S \in SUBSET Int /\ e \in S /\ \A d \in S : d <= e
      BY <2>2, <3>1
    <3>3. e = Max(S)
      BY <3>1, <3>2, LastIs
    <3>4. DOMAIN q = S
      BY <1>2, <3>1
    <3> QED
      BY <3>3, <3>4
  <2> QED
    BY <1>3, <1>4, <1>5, <2>4, <2>5, CandidateIs
<1>9. CandidateFrom(p).feasible = p.feasible
  BY DEF CandidateFrom
<1>10. CASE asked
  BY <1>1, <1>7, <1>8, <1>9, <1>10 DEF FeasibleFrom
<1>11. CASE ~asked
  BY <1>1, <1>7, <1>11 DEF FeasibleFrom
<1> QED
  BY <1>10, <1>11

\* And so is the wait for the earliest date.
LEMMA WaitsAgree ==
  ASSUME in \in Input, FullLedger(changes, net, ledger, lowest), NEW e \in Day \union {None}
  PROVE  {c \in Wait(e) : c.feasible} = FeasibleFrom(WaitPlans(V2, in, changes, e))
<1>1. PICK p : p = PlanOf(V2, in, changes, "wait", Pay(e, in.amount), e, e, 1, in.amount)
  OBVIOUS
<1>2. PICK c : c = Candidate("wait", Once(e, in.amount), e, e, 1, in.amount,
                             IsPlanSafe(ledger, Once(e, in.amount), e))
  OBVIOUS
<1>3. PICK asked : asked = ("full_payment" \in in.methods /\ e # None /\ 0 < e /\ e <= in.deadline)
  OBVIOUS
<1>4. /\ Wait(e) = IF asked THEN {c} ELSE {}
      /\ WaitPlans(V2, in, changes, e) = IF asked THEN {p} ELSE {}
  BY <1>1, <1>2, <1>3 DEF Wait, WaitPlans
<1>5. ASSUME asked PROVE c = CandidateFrom(p)
  <2>1. e \in Day
    BY <1>3, <1>5
  <2> QED
    BY <1>1, <1>2, <2>1, OnceCandidate
<1>6. CandidateFrom(p).feasible = p.feasible
  BY DEF CandidateFrom
<1>7. CASE asked
  BY <1>4, <1>5, <1>6, <1>7 DEF FeasibleFrom
<1>8. CASE ~asked
  BY <1>4, <1>8 DEF FeasibleFrom
<1> QED
  BY <1>7, <1>8

\* Together: the feasible candidates of a ledger are the feasible plans of V2 for its
\* combination (generate_candidates).
LEMMA CandidatesAgree ==
  ASSUME in \in Input, FullLedger(changes, net, ledger, lowest),
         NEW e \in Day \union {None}, IsEarliest(ledger, e)
  PROVE  {c \in Generated(e) : c.feasible} = FeasibleFrom(AllPlans(V2, in, changes))
<1>1. e = EarliestFull(in, changes)
  BY EarliestAgree
<1>2. PICK A : A = FullPlans(V2, in, changes, SafeToPay(in, changes))
  OBVIOUS
<1>3. PICK B : B = InstallmentPlans(V2, in, changes)
  OBVIOUS
<1>4. PICK C : C = PartialPlans(V2, in, changes, SafeToPay(in, changes), e)
  OBVIOUS
<1>5. PICK D : D = WaitPlans(V2, in, changes, e)
  OBVIOUS
<1>6. AllPlans(V2, in, changes) = A \union B \union C \union D
  BY <1>1, <1>2, <1>3, <1>4, <1>5 DEF AllPlans, PlansOf
<1>7. /\ {c \in FullPayment(lowest) : c.feasible} = FeasibleFrom(A)
      /\ {c \in Installments : c.feasible} = FeasibleFrom(B)
      /\ {c \in PartialPayment(lowest, e) : c.feasible} = FeasibleFrom(C)
      /\ {c \in Wait(e) : c.feasible} = FeasibleFrom(D)
  BY <1>1, <1>2, <1>3, <1>4, <1>5, FullPaymentsAgree, InstallmentsAgree, PartialPaymentsAgree, WaitsAgree
<1>8. FeasibleFrom(A \union B \union C \union D)
        = FeasibleFrom(A) \union FeasibleFrom(B) \union FeasibleFrom(C) \union FeasibleFrom(D)
  BY DEF FeasibleFrom
<1>9. {c \in Generated(e) : c.feasible} =
        {c \in FullPayment(lowest) : c.feasible} \union {c \in Installments : c.feasible}
          \union {c \in PartialPayment(lowest, e) : c.feasible} \union {c \in Wait(e) : c.feasible}
  BY DEF Generated
<1> QED
  BY <1>6, <1>7, <1>8, <1>9

-----------------------------------------------------------------------------
(* The search and its decision *)

\* make_decision for a plan, and the fallback, as the engine reports them.
Recommended(c, base, own) ==
  [method |-> c.method, verdict |-> Verdict(c), affordability |-> Affordability(c),
   plan |-> c.plan, last |-> c.last, total |-> c.total,
   planned |-> c.changes, announced |-> Announced(c),
   safe |-> SafeAmount(base.lowest),
   earliest |-> IF Affordability(c) = "affordable_now" THEN 0
                ELSE IF base.earliest # None THEN base.earliest ELSE own.earliest]

Advised(base) ==
  [method |-> "not_recommended", verdict |-> "NOT_RECOMMENDED",
   affordability |-> "not_affordable", plan |-> NoPlan, last |-> 0, total |-> 0,
   planned |-> {}, announced |-> {},
   safe |-> SafeAmount(base.lowest), earliest |-> base.earliest]

\* No combination is lost, and the feasible candidates are the feasible plans of V2 for
\* the combinations evaluated so far.
SearchInv ==
  /\ \A c \in Combos : c \in todo \/ \E b \in built : b.changes = c
  /\ Feasible = UNION {FeasibleFrom(AllPlans(V2, in, b.changes)) : b \in built}

\* A decision is made of a best candidate and the ledgers, when all are there.
DecisionInv ==
  /\ pc = "decided" =>
       /\ todo = {}
       /\ \E c \in candidates, base \in built, own \in built :
            /\ Best(c) /\ base.changes = {} /\ own.changes = c.changes
            /\ decision = Recommended(c, base, own)
  /\ pc = "done" =>
       /\ todo = {} /\ Feasible = {}
       /\ \E base \in built : base.changes = {} /\ decision = Advised(base)

\* What V2 plans depends on the input only.
LEMMA PlansStay == in' = in => \A c : FeasibleFrom(AllPlans(V2, in, c))' = FeasibleFrom(AllPlans(V2, in, c))
OBVIOUS

\* A ledger about to be finished has been closed over all that falls due.
LEMMA ScannedIsFull ==
  ASSUME IInv, MapsInv, pc = "scan", current = Horizon + 1
  PROVE  in \in Input /\ FullLedger(changes, net, ledger, lowest)
<1>1. \A d \in Day : net[d] = NetWith(changes, Streams, d)
  <2>1. toAdd = {} /\ \A d \in Day : net[d] = NetWith(changes, Streams \ toAdd, d)
    BY DEF MapsInv
  <2>2. Streams \ toAdd = Streams
    BY <2>1
  <2> QED
    BY <2>1, <2>2
<1> QED
  BY <1>1 DEF IInv, TypeOK, ScanInv, FullLedger

\* The search goes through the combinations as the invariant says.
LEMMA SearchStep ==
  ASSUME IInv, MapsInv, SearchInv, [Next]_vars
  PROVE  SearchInv'
<1>1. in' = in /\ Combos' = Combos
  BY TypeStep, CombosStay
<1>2. \A c : FeasibleFrom(AllPlans(V2, in, c))' = FeasibleFrom(AllPlans(V2, in, c))
  BY <1>1, PlansStay
<1>3. ASSUME UNCHANGED <<todo, built, candidates>> PROVE SearchInv'
  BY <1>1, <1>2, <1>3 DEF SearchInv, Feasible
<1>4. ASSUME GenerateCandidates PROVE SearchInv'
  <2>1. PICK e \in Day \union {None} :
          /\ IsEarliest(ledger, e)
          /\ candidates' = candidates \union FullPayment(lowest) \union Installments
                             \union PartialPayment(lowest, e) \union Wait(e)
          /\ built' = built \union {[changes |-> changes, net |-> net, ledger |-> ledger,
                                     lowest |-> lowest, earliest |-> e]}
    BY <1>4 DEF GenerateCandidates
  <2>2. todo' = todo \ {changes} /\ pc = "scan" /\ current = Horizon + 1
    BY <1>4 DEF GenerateCandidates
  <2>3. PICK new : new = [changes |-> changes, net |-> net, ledger |-> ledger,
                          lowest |-> lowest, earliest |-> e]
    OBVIOUS
  <2>4. built' = built \union {new} /\ new.changes = changes
    BY <2>1, <2>3
  <2>5. \A c \in Combos : c \in todo' \/ \E b \in built' : b.changes = c
    BY <2>2, <2>4 DEF SearchInv
  <2>6. candidates' = candidates \union Generated(e)
    BY <2>1 DEF Generated
  <2>7. {c \in Generated(e) : c.feasible} = FeasibleFrom(AllPlans(V2, in, changes))
    BY <2>1, <2>2, ScannedIsFull, CandidatesAgree
  <2>8. Feasible' = Feasible \union FeasibleFrom(AllPlans(V2, in, changes))
    BY <2>6, <2>7 DEF Feasible
  <2> DEFINE F(c) == FeasibleFrom(AllPlans(V2, in, c))
  <2>9. Feasible = UNION {F(b.changes) : b \in built} /\ Feasible' = Feasible \union F(changes)
    BY <2>8 DEF SearchInv
  <2> HIDE DEF F
  <2>10. Feasible' = UNION {F(b.changes) : b \in built'}
    <3>1. \A z : z \in UNION {F(b.changes) : b \in built'} <=> \E b \in built' : z \in F(b.changes)
      OBVIOUS
    <3>2. \A z : z \in UNION {F(b.changes) : b \in built} <=> \E b \in built : z \in F(b.changes)
      OBVIOUS
    <3>3. \A z : z \in UNION {F(b.changes) : b \in built'} <=> z \in Feasible \/ z \in F(changes)
      BY <2>4, <2>9, <3>1, <3>2
    <3> QED
      BY <2>9, <3>3
  <2> USE DEF F
  <2> QED
    BY <1>1, <1>2, <2>5, <2>10 DEF SearchInv
<1>5. CASE UNCHANGED vars
  BY <1>3, <1>5 DEF vars, engine
<1>6. CASE Next
  BY <1>3, <1>4, <1>5, <1>6
     DEF Next, StartLedger, Accept, AddStream, OpenLedger, CloseDay, Fail, Recommend, Advise, LiveDay,
         Rest, engine
<1> QED
  BY <1>5, <1>6

\* A decision stays what it was made of.
LEMMA DecisionStep ==
  ASSUME IInv, DecisionInv, [Next]_vars
  PROVE  DecisionInv'
<1>1. in' = in
  BY TypeStep
<1>2. \A m : SafeAmount(m)' = SafeAmount(m)
  BY <1>1 DEF SafeAmount
<1>3. ASSUME UNCHANGED candidates
      PROVE  Feasible' = Feasible /\ \A c : Best(c)' = Best(c)
  BY <1>3 DEF Feasible, Best
<1>4. ASSUME NEW c \in candidates, Recommend(c) PROVE DecisionInv'
  <2>1. todo = {} /\ Best(c) /\ UNCHANGED <<in, engine>> /\ pc' = "decided"
    BY <1>4 DEF Recommend
  <2>2. PICK base \in built, own \in built :
          base.changes = {} /\ own.changes = c.changes /\ decision' = Recommended(c, base, own)
    BY <1>4 DEF Recommend, Recommended
  <2>3. Recommended(c, base, own)' = Recommended(c, base, own)
    BY <1>2 DEF Recommended
  <2> QED
    BY <1>3, <2>1, <2>2, <2>3 DEF DecisionInv, engine
<1>5. ASSUME Advise PROVE DecisionInv'
  <2>1. todo = {} /\ Feasible = {} /\ UNCHANGED <<in, engine>> /\ pc' = "done"
    BY <1>5 DEF Advise
  <2>2. PICK base \in built : base.changes = {} /\ decision' = Advised(base)
    BY <1>5 DEF Advise, Advised
  <2>3. Advised(base)' = Advised(base)
    BY <1>2 DEF Advised, NoPlan
  <2> QED
    BY <1>3, <2>1, <2>2, <2>3 DEF DecisionInv, engine
<1>6. CASE UNCHANGED vars
  <2>1. UNCHANGED <<pc, todo, built, candidates, decision>>
    BY <1>6 DEF vars, engine
  <2>2. \A c, b, o : Recommended(c, b, o)' = Recommended(c, b, o) /\ Advised(b)' = Advised(b)
    BY <1>2 DEF Recommended, Advised, NoPlan
  <2> QED
    BY <1>3, <2>1, <2>2 DEF DecisionInv
<1>7. ASSUME pc' \notin {"decided", "done"} PROVE DecisionInv'
  BY <1>7 DEF DecisionInv
<1>8. CASE Next
  BY <1>4, <1>5, <1>6, <1>7, <1>8
     DEF Next, StartLedger, Accept, AddStream, OpenLedger, CloseDay, GenerateCandidates, Fail, LiveDay, Rest
<1> QED
  BY <1>6, <1>8

\* So it is in every reachable state.
SearchedInv == IInv /\ NetsInv /\ MapsInv /\ OutcomeInv /\ SearchInv /\ DecisionInv

\* The search strengthening holds, on top of the invariants of the ledgers and outcomes.
LEMMA SearchHolds == Spec => []SearchedInv
<1>1. Init => SearchInv /\ DecisionInv
  <2> SUFFICES ASSUME Init PROVE SearchInv /\ DecisionInv
    OBVIOUS
  <2>1. UNION {FeasibleFrom(AllPlans(V2, in, b.changes)) : b \in built} = {}
    BY DEF Init
  <2> QED
    BY <2>1 DEF Init, SearchInv, DecisionInv, Feasible
<1>2. IInv /\ MapsInv /\ SearchInv /\ [Next]_vars => SearchInv'
  BY SearchStep
<1>3. IInv /\ DecisionInv /\ [Next]_vars => DecisionInv'
  BY DecisionStep
<1>4. SearchedInv <=> IInv /\ NetsInv /\ MapsInv /\ OutcomeInv /\ SearchInv /\ DecisionInv
  BY DEF SearchedInv
<1> QED
  BY <1>1, <1>2, <1>3, <1>4, NetsHold, OutcomesHold, PTL DEF Spec

-----------------------------------------------------------------------------
(* The ranking *)

\* One key after the other.
After(u, k, a, m, n) ==
  /\ DOMAIN u = 1..(m + n)
  /\ \A i \in 1..(m + n) : u[i] = IF i <= m THEN k[i] ELSE a[i - m]

\* The concatenation of two lists of keys is one after the other.
LEMMA Joined ==
  ASSUME NEW m \in Nat, NEW n \in Nat, NEW k \in Seq(Int), NEW a \in Seq(Int), Len(k) = m, Len(a) = n
  PROVE  After(k \o a, k, a, m, n)
<1>1. DOMAIN (k \o a) = 1..(m + n)
  OBVIOUS
<1>2. \A i \in 1..(m + n) : (k \o a)[i] = IF i <= m THEN k[i] ELSE a[i - m]
  OBVIOUS
<1> QED
  BY <1>1, <1>2 DEF After

\* It compares like the first, and where the first ones tie like the second.
LEMMA KeysCompare ==
  ASSUME NEW m \in Nat, NEW n \in Nat,
         NEW k \in Seq(Int), NEW l \in Seq(Int), Len(k) = m, Len(l) = m,
         NEW a \in Seq(Int), NEW b \in Seq(Int), Len(a) = n, Len(b) = n
  PROVE  Precedes(k \o a, l \o b) <=> Precedes(k, l) \/ (k = l /\ Precedes(a, b))
<1>0. After(k \o a, k, a, m, n) /\ After(l \o b, l, b, m, n)
  BY Joined
<1>1. PICK u : /\ u = k \o a /\ DOMAIN u = 1..(m + n)
               /\ \A i \in 1..(m + n) : u[i] = IF i <= m THEN k[i] ELSE a[i - m]
  BY <1>0 DEF After
<1>2. PICK v : v = l \o b /\ \A i \in 1..(m + n) : v[i] = IF i <= m THEN l[i] ELSE b[i - m]
  BY <1>0 DEF After
<1>3. DOMAIN k = 1..m /\ DOMAIN l = 1..m /\ DOMAIN a = 1..n /\ DOMAIN b = 1..n
  OBVIOUS
<1>4. ASSUME Precedes(u, v) PROVE Precedes(k, l) \/ (k = l /\ Precedes(a, b))
  <2>1. PICK i \in 1..(m + n) : u[i] < v[i] /\ \A j \in 1..(i - 1) : u[j] = v[j]
    BY <1>1, <1>4 DEF Precedes
  <2>2. CASE i <= m
    <3>1. i \in 1..m /\ k[i] < l[i]
      BY <1>1, <1>2, <2>1, <2>2
    <3>2. \A j \in 1..(i - 1) : k[j] = l[j]
      BY <1>1, <1>2, <2>1, <2>2
    <3> QED
      BY <1>3, <3>1, <3>2 DEF Precedes
  <2>3. CASE ~(i <= m)
    <3>1. \A j \in 1..m : k[j] = l[j]
      BY <1>1, <1>2, <2>1, <2>3
    <3>2. k = l
      BY <3>1
    <3>3. PICK h \in 1..n : h = i - m
      BY <2>1, <2>3
    <3>4. a[h] < b[h]
      BY <1>1, <1>2, <2>1, <2>3, <3>3
    <3>5. ASSUME NEW j \in 1..(h - 1) PROVE a[j] = b[j]
      <4>1. PICK y \in 1..(i - 1) : y = j + m
        BY <3>3
      <4>2. y \in 1..(m + n) /\ ~(y <= m) /\ y - m = j
        BY <3>3, <4>1
      <4>3. u[y] = a[j] /\ v[y] = b[j] /\ u[y] = v[y]
        BY <1>1, <1>2, <2>1, <4>2
      <4> QED
        BY <4>3
    <3> QED
      BY <1>3, <3>2, <3>3, <3>4, <3>5 DEF Precedes
  <2> QED
    BY <2>2, <2>3
<1>5. ASSUME Precedes(k, l) PROVE Precedes(u, v)
  <2>1. PICK i \in 1..m : k[i] < l[i] /\ \A j \in 1..(i - 1) : k[j] = l[j]
    BY <1>3, <1>5 DEF Precedes
  <2>2. i \in 1..(m + n) /\ u[i] < v[i] /\ \A j \in 1..(i - 1) : u[j] = v[j]
    BY <1>1, <1>2, <2>1
  <2> QED
    BY <1>1, <2>2 DEF Precedes
<1>6. ASSUME k = l, Precedes(a, b) PROVE Precedes(u, v)
  <2>1. PICK h \in 1..n : a[h] < b[h] /\ \A j \in 1..(h - 1) : a[j] = b[j]
    BY <1>3, <1>6 DEF Precedes
  <2>2. PICK i \in 1..(m + n) : i = h + m /\ ~(i <= m) /\ i - m = h
    BY <2>1
  <2>3. u[i] < v[i]
    BY <1>1, <1>2, <2>1, <2>2
  <2>4. ASSUME NEW j \in 1..(i - 1) PROVE u[j] = v[j]
    <3>1. CASE j <= m
      BY <1>1, <1>2, <1>6, <2>2, <3>1
    <3>2. CASE ~(j <= m)
      <4>1. PICK x \in 1..(h - 1) : x = j - m
        BY <2>2, <3>2
      <4>2. a[x] = b[x]
        BY <2>1
      <4>3. j \in 1..(m + n) /\ j - m = x
        BY <2>2, <4>1
      <4>4. u[j] = a[x] /\ v[j] = b[x]
        BY <1>1, <1>2, <3>2, <4>3
      <4> QED
        BY <4>2, <4>4
    <3> QED
      BY <3>1, <3>2
  <2> QED
    BY <1>1, <2>3, <2>4 DEF Precedes
<1> QED
  BY <1>1, <1>2, <1>4, <1>5, <1>6

\* The parts of a key are numbers.
LEMMA KeysType ==
  ASSUME NEW c \in CandidateType
  PROVE  /\ RankKey(c) \in Seq(Int) /\ Len(RankKey(c)) = 5
         /\ IsFiniteSet(c.changes) => Place(c) \in Seq(Int) /\ Len(Place(c)) = 2
<1>1. Flag(c.onTime) \in Int /\ Flag(c.changes = {}) \in Int
  BY DEF Flag
<1>2. c.total \in Int /\ c.first \in Int /\ c.count \in Int /\ c.method \in Methods \union {"wait"}
  BY DEF CandidateType
<1>3. RankKey(c) \in Seq(Int) /\ Len(RankKey(c)) = 5
  BY <1>1, <1>2 DEF RankKey
<1>4. ASSUME IsFiniteSet(c.changes) PROVE Place(c) \in Seq(Int) /\ Len(Place(c)) = 2
  <2>1. Cardinality(c.changes) \in Int
    BY <1>4, FS_CardinalityType
  <2> QED
    BY <1>2, <2>1 DEF Place, Methods
<1> QED
  BY <1>3, <1>4

\* V2 ranks plans as the engine ranks their candidates (_rank_key).
LEMMA RanksAgree ==
  ASSUME NEW p, NEW q, CandidateFrom(p) \in CandidateType, CandidateFrom(q) \in CandidateType
  PROVE  LET c == CandidateFrom(p)
             d == CandidateFrom(q)
         IN  Precedes(SortKey(q), SortKey(p)) <=>
               \/ Precedes(RankKey(d), RankKey(c))
               \/ RankKey(d) = RankKey(c) /\ Precedes(Place(d), Place(c))
<1>1. PICK c \in CandidateType : c = CandidateFrom(p)
  OBVIOUS
<1>2. PICK d \in CandidateType : d = CandidateFrom(q)
  OBVIOUS
<1>3. /\ RankKey(c) = RankKey(p) /\ Place(c) = Place(p)
      /\ RankKey(d) = RankKey(q) /\ Place(d) = Place(q)
  BY <1>1, <1>2 DEF CandidateFrom, RankKey, Place
<1>4. IsFiniteSet(c.changes) /\ IsFiniteSet(d.changes)
  BY StreamsAssumption, FS_Subset DEF CandidateType
<1>5. /\ RankKey(c) \in Seq(Int) /\ Len(RankKey(c)) = 5 /\ RankKey(d) \in Seq(Int) /\ Len(RankKey(d)) = 5
      /\ Place(c) \in Seq(Int) /\ Len(Place(c)) = 2 /\ Place(d) \in Seq(Int) /\ Len(Place(d)) = 2
  BY <1>4, KeysType
<1>6. Precedes(RankKey(d) \o Place(d), RankKey(c) \o Place(c)) <=>
        \/ Precedes(RankKey(d), RankKey(c))
        \/ RankKey(d) = RankKey(c) /\ Precedes(Place(d), Place(c))
  BY <1>5, KeysCompare
<1> QED
  BY <1>1, <1>2, <1>3, <1>6 DEF SortKey

-----------------------------------------------------------------------------
(* Parity *)

\* When the search is over there is a ledger for every combination, and the feasible
\* candidates are the feasible plans of V2.
LEMMA SearchIsOver ==
  ASSUME SearchedInv, Evaluated
  PROVE  /\ in \in Input /\ candidates \subseteq CandidateType /\ ~Raises(in)
         /\ \A c : c \in ChangeCombos(in) <=> \E b \in built : b.changes = c
         /\ Feasible = {CandidateFrom(p) : p \in FeasiblePlans(V2, in)}
<1>1. /\ in \in Input /\ candidates \subseteq CandidateType
      /\ todo = {} /\ built # {}
  BY DEF SearchedInv, IInv, TypeOK, DecisionInv, Evaluated, OutcomeInv
<1>2. ~Raises(in)
  BY <1>1, RaisesIsPast DEF SearchedInv, OutcomeInv
<1>3. \A c : c \in ChangeCombos(in) <=> \E b \in built : b.changes = c
  BY <1>1, ChangesAgree DEF SearchedInv, SearchInv, NetsInv
<1>4. Feasible = UNION {FeasibleFrom(AllPlans(V2, in, b.changes)) : b \in built}
  BY DEF SearchedInv, SearchInv
<1>5. ASSUME NEW z \in Feasible PROVE \E p \in FeasiblePlans(V2, in) : z = CandidateFrom(p)
  <2>1. PICK b \in built : z \in FeasibleFrom(AllPlans(V2, in, b.changes))
    BY <1>4, <1>5
  <2>2. PICK p \in AllPlans(V2, in, b.changes) : p.feasible /\ z = CandidateFrom(p)
    BY <2>1 DEF FeasibleFrom
  <2> QED
    BY <1>3, <2>2, FeasibleArePlans
<1>6. ASSUME NEW p \in FeasiblePlans(V2, in) PROVE CandidateFrom(p) \in Feasible
  <2>1. PICK c \in ChangeCombos(in) : p \in AllPlans(V2, in, c) /\ p.feasible
    BY FeasibleArePlans
  <2>2. PICK b \in built : b.changes = c
    BY <1>3
  <2>3. CandidateFrom(p) \in FeasibleFrom(AllPlans(V2, in, b.changes))
    BY <2>1, <2>2 DEF FeasibleFrom
  <2> QED
    BY <1>4, <2>3
<1>7. Feasible = {CandidateFrom(p) : p \in FeasiblePlans(V2, in)}
  BY <1>5, <1>6
<1> QED
  BY <1>1, <1>2, <1>3, <1>7

\* The safe amount and the earliest date of a finished ledger are those of V2.
LEMMA BuiltAgrees ==
  ASSUME SearchedInv, NEW b \in built
  PROVE  /\ SafeAmount(b.lowest) = SafeToPay(in, b.changes)
         /\ b.earliest = EarliestFull(in, b.changes)
<1>1. /\ in \in Input /\ b.ledger \in [Day -> Int] /\ b.lowest \in Int
      /\ b.earliest \in Day \union {None}
  BY DEF SearchedInv, IInv, TypeOK, BuiltLedger
<1>2. /\ Scanned(b.net, b.ledger, b.lowest, Horizon + 1) /\ IsEarliest(b.ledger, b.earliest)
      /\ \A d \in Day : b.net[d] = NetWith(b.changes, Streams, d)
  BY DEF SearchedInv, IInv, BuiltInv, NetsInv
<1>3. FullLedger(b.changes, b.net, b.ledger, b.lowest)
  BY <1>1, <1>2 DEF FullLedger
<1> QED
  BY <1>1, <1>2, <1>3, SafeAmountsAgree, EarliestAgree

\* coerce_decision changes nothing of an answer of V2, whose safe amount is one already.
LEMMA CoercionKeeps ==
  ASSUME NEW x \in Input, NEW p
  PROVE  LET a == Coerced(x, MakeDecision(x, p))
             m == MakeDecision(x, p)
         IN  /\ a.method = p.method /\ a.affordability = AffordabilityStatus(p)
             /\ a.payments = p.payments /\ a.planned = p.changes /\ a.announced = m.announced
             /\ a.safe = SafeToPay(x, {}) /\ a.safe \in 0..x.amount /\ a.earliest = m.earliest
<1>1. PICK m : m = MakeDecision(x, p)
  OBVIOUS
<1>2. PICK s \in Int : s = SafeToPay(x, {}) /\ 0 <= s /\ s <= x.amount
  <2>1. PICK h \in Int : h = MinimumClosing(x, {}, Nothing) - x.minimum
    <3>1. MinimumClosing(x, {}, Nothing) \in Int /\ x.minimum \in Int
      BY PlainPayments, MinimumBounds DEF Input
    <3> QED
      BY <3>1
  <2>2. SafeToPay(x, {}) = IF h < 0 THEN 0 ELSE Lesser(x.amount, h)
    BY <2>1, SafeToPayIs
  <2>3. x.amount \in Nat
    BY DEF Input
  <2> QED
    BY <2>1, <2>2, <2>3 DEF Lesser
<1>3. x.amount \in Nat
  BY DEF Input
<1>4. Min({x.amount, s}) = s
  BY <1>2, <1>3, ExtremesOfTwo
<1>5. Max({0, s}) = s
  <2>1. Max({0, s}) = IF 0 > s THEN 0 ELSE s
    BY ExtremesOfTwo
  <2> QED
    BY <1>2, <2>1
<1>6. /\ m.method = p.method /\ m.affordability = AffordabilityStatus(p)
      /\ m.payments = p.payments /\ m.planned = p.changes /\ m.safe = s
  BY <1>1, <1>2 DEF MakeDecision, DecisionFor
<1>7. PICK a : a = Coerced(x, m)
  OBVIOUS
<1>8. a = [m EXCEPT !.safe = s]
  BY <1>4, <1>5, <1>6, <1>7 DEF Coerced
<1>9. /\ a.method = m.method /\ a.affordability = m.affordability /\ a.payments = m.payments
      /\ a.planned = m.planned /\ a.announced = m.announced /\ a.safe = s /\ a.earliest = m.earliest
  BY <1>1, <1>8 DEF MakeDecision, DecisionFor
<1> QED
  BY <1>1, <1>2, <1>3, <1>6, <1>7, <1>9

\* What the answer of V2 shares with the decision of the engine.
SameAnswer(a) ==
  /\ a.method = decision.method /\ a.affordability = decision.affordability
  /\ PaidBy(a.payments) = decision.plan
  /\ a.planned = decision.planned /\ a.announced = decision.announced
  /\ a.safe = decision.safe /\ a.earliest = decision.earliest
  /\ ValidationErrors(in, a) = {}

\* V2 recommends the plan of the engine.
LEMMA RecommendationsAgree ==
  ASSUME SearchedInv, pc = "decided"
  PROVE  \E a \in Answers(V2, in) : SameAnswer(a)
<1>1. /\ in \in Input /\ candidates \subseteq CandidateType /\ ~Raises(in)
      /\ \A c : c \in ChangeCombos(in) <=> \E b \in built : b.changes = c
      /\ Feasible = {CandidateFrom(p) : p \in FeasiblePlans(V2, in)}
  BY SearchIsOver DEF Evaluated
<1>2. PICK c \in candidates, base \in built, own \in built :
        /\ Best(c) /\ base.changes = {} /\ own.changes = c.changes
        /\ decision = Recommended(c, base, own)
  BY DEF SearchedInv, DecisionInv
<1>3. PICK p \in FeasiblePlans(V2, in) : c = CandidateFrom(p)
  BY <1>1, <1>2 DEF Best
<1>4. p \in SelectBest(V2, in)
  <2>1. ASSUME NEW q \in FeasiblePlans(V2, in) PROVE ~Precedes(SortKey(q), SortKey(p))
    <3>1. PICK d \in Feasible : d = CandidateFrom(q)
      BY <1>1
    <3>2. c \in CandidateType /\ d \in CandidateType
      BY <1>1, <3>1 DEF Feasible
    <3>3. /\ ~Precedes(RankKey(d), RankKey(c))
          /\ RankKey(d) = RankKey(c) => ~Precedes(Place(d), Place(c))
      BY <1>2, <3>1 DEF Best
    <3> QED
      BY <1>3, <3>1, <3>2, <3>3, RanksAgree
  <2> QED
    BY <2>1 DEF SelectBest, BestOf
<1>5. PICK m : m = MakeDecision(in, p)
  OBVIOUS
<1>6. PICK a : a = Coerced(in, m)
  OBVIOUS
<1>7. a \in Answers(V2, in)
  BY <1>1, <1>4, <1>5, <1>6 DEF Answers, V2
<1>8. /\ a.method = p.method /\ a.affordability = AffordabilityStatus(p)
      /\ a.payments = p.payments /\ a.planned = p.changes /\ a.announced = m.announced
      /\ a.safe = SafeToPay(in, {}) /\ a.safe \in 0..in.amount /\ a.earliest = m.earliest
  BY <1>1, <1>5, <1>6, CoercionKeeps
<1>9. /\ c.method = p.method /\ c.changes = p.changes /\ c.plan = PaidBy(p.payments)
      /\ c.method \in Methods \union {"wait"}
  BY <1>1, <1>3 DEF CandidateFrom, CandidateType
<1>10. Affordability(c) = AffordabilityStatus(p)
  BY <1>9 DEF Affordability, AffordabilityStatus, Methods
<1>11. /\ SafeAmount(base.lowest) = SafeToPay(in, {})
       /\ base.earliest = EarliestFull(in, {}) /\ own.earliest = EarliestFull(in, p.changes)
  BY <1>2, <1>9, BuiltAgrees
<1>12. /\ m.announced = IF p.method = "wait" THEN {} ELSE p.changes
       /\ m.earliest = IF AffordabilityStatus(p) = "affordable_now" THEN 0
                       ELSE IF EarliestFull(in, {}) # None THEN EarliestFull(in, {})
                       ELSE EarliestFull(in, p.changes)
  BY <1>5 DEF MakeDecision, DecisionFor
<1>13. /\ decision.method = c.method /\ decision.affordability = Affordability(c)
       /\ decision.plan = c.plan /\ decision.planned = c.changes
       /\ decision.announced = Announced(c) /\ decision.safe = SafeAmount(base.lowest)
       /\ decision.earliest = IF Affordability(c) = "affordable_now" THEN 0
                              ELSE IF base.earliest # None THEN base.earliest ELSE own.earliest
  BY <1>2 DEF Recommended
<1>14. ValidationErrors(in, a) = {}
  <2>1. p.changes \in ChangeCombos(in)
    BY <1>1, <1>2, <1>9
  <2>2. Cardinality(p.changes) <= MaxActions
    BY <2>1 DEF ChangeCombos
  <2>3. Cardinality({}) <= MaxActions
    BY FS_EmptySet, HorizonAssumption
  <2>4. ~(Cardinality(a.announced) > MaxActions)
    <3>1. PICK k : k = Cardinality(a.announced)
      OBVIOUS
    <3>2. k \in Int
      <4>1. IsFiniteSet(p.changes) /\ IsFiniteSet({})
        BY <1>1, <1>2, <1>9, StreamsAssumption, FS_Subset, FS_EmptySet DEF CandidateType
      <4> QED
        BY <1>8, <1>12, <3>1, <4>1, FS_CardinalityType
    <3>3. k <= MaxActions
      BY <1>8, <1>12, <2>2, <2>3, <3>1
    <3> QED
      BY <3>1, <3>2, <3>3, HorizonAssumption
  <2>5. a.affordability = "affordable_now" => a.earliest = 0 /\ 0 # None
    BY <1>8, <1>12, NoneAssumption
  <2> QED
    BY <1>8, <2>4, <2>5 DEF ValidationErrors
<1>15. SameAnswer(a)
  BY <1>8, <1>9, <1>10, <1>11, <1>12, <1>13, <1>14 DEF SameAnswer, Announced
<1> QED
  BY <1>7, <1>15

\* Where the engine finds no plan, V2 finds none.
LEMMA FallbacksAgree ==
  ASSUME SearchedInv, pc = "done"
  PROVE  \E a \in Answers(V2, in) : SameAnswer(a)
<1>1. /\ in \in Input /\ ~Raises(in)
      /\ Feasible = {CandidateFrom(p) : p \in FeasiblePlans(V2, in)}
  BY SearchIsOver DEF Evaluated
<1>2. PICK base \in built : Feasible = {} /\ base.changes = {} /\ decision = Advised(base)
  BY DEF SearchedInv, DecisionInv
<1>3. FeasiblePlans(V2, in) = {}
  BY <1>1, <1>2
<1>4. PICK p : p = NotRecommended /\ p \in SelectBest(V2, in)
  BY <1>3 DEF SelectBest, BestOf
<1>5. PICK m : m = MakeDecision(in, p)
  OBVIOUS
<1>6. PICK a : a = Coerced(in, m)
  OBVIOUS
<1>7. a \in Answers(V2, in)
  BY <1>1, <1>4, <1>5, <1>6 DEF Answers, V2
<1>8. /\ a.method = p.method /\ a.affordability = AffordabilityStatus(p)
      /\ a.payments = p.payments /\ a.planned = p.changes /\ a.announced = m.announced
      /\ a.safe = SafeToPay(in, {}) /\ a.safe \in 0..in.amount /\ a.earliest = m.earliest
  BY <1>1, <1>5, <1>6, CoercionKeeps
<1>9. p.method = "not_recommended" /\ p.changes = {} /\ p.payments = Nothing
  BY <1>4 DEF NotRecommended
<1>10. AffordabilityStatus(p) = "not_affordable"
  BY <1>9 DEF AffordabilityStatus
<1>11. m.announced = {} /\ m.earliest = EarliestFull(in, {})
  BY <1>5, <1>9, <1>10 DEF MakeDecision, DecisionFor
<1>12. SafeAmount(base.lowest) = SafeToPay(in, {}) /\ base.earliest = EarliestFull(in, {})
  BY <1>2, BuiltAgrees
<1>13. PaidBy(Nothing) = NoPlan
  <2>1. \A d : SumFunctionOnSet(Nothing, DOMAIN Nothing \intersect (0..d)) = 0
    <3> SUFFICES ASSUME NEW d PROVE SumFunctionOnSet(Nothing, DOMAIN Nothing \intersect (0..d)) = 0
      OBVIOUS
    <3>1. DOMAIN Nothing \intersect (0..d) = {}
      BY PlainPayments
    <3> QED
      BY <3>1, SumOfNothing
  <2> QED
    BY <2>1 DEF PaidBy, NoPlan
<1>14. ValidationErrors(in, a) = {}
  <2>1. ~(Cardinality({}) > MaxActions)
    <3>1. Cardinality({}) = 0
      BY FS_EmptySet
    <3> QED
      BY <3>1, HorizonAssumption
  <2>2. a.affordability # "affordable_now" /\ a.announced = {}
    BY <1>8, <1>10, <1>11
  <2> QED
    BY <1>8, <2>1, <2>2 DEF ValidationErrors
<1>15. /\ decision.method = "not_recommended" /\ decision.affordability = "not_affordable"
       /\ decision.plan = NoPlan /\ decision.planned = {} /\ decision.announced = {}
       /\ decision.safe = SafeAmount(base.lowest) /\ decision.earliest = base.earliest
  BY <1>2 DEF Advised
<1>16. SameAnswer(a)
  BY <1>8, <1>9, <1>10, <1>11, <1>12, <1>13, <1>14, <1>15 DEF SameAnswer
<1> QED
  BY <1>7, <1>16

\* Whatever the engine decides, V2 answers the same, and it falls back where the engine
\* fails (buyorwait_engine/engine.py against src/code, test_parity_v2.py).
THEOREM EngineAlwaysAgreesWithBatch == Spec => []AgreesWithBatch
<1>1. SearchedInv => AgreesWithBatch
  <2>1. ASSUME SearchedInv, Evaluated PROVE \E a \in Answers(V2, in) : SameAnswer(a)
    BY <2>1, RecommendationsAgree, FallbacksAgree DEF Evaluated
  <2>2. ASSUME SearchedInv, pc = "failed" PROVE Answers(V2, in) = {ErrorAnswer}
    <3>1. Raises(in)
      BY <2>2, RaisesIsPast DEF SearchedInv, OutcomeInv
    <3> QED
      BY <3>1 DEF Answers
  <2> QED
    BY <2>1, <2>2 DEF AgreesWithBatch, SameAnswer
<1> QED
  BY <1>1, SearchHolds, PTL

-----------------------------------------------------------------------------
(* Stress *)

\* A stressed item costs no less.
LEMMA FactorsType ==
  ASSUME NEW x \in Input, NEW s \in Streams
  PROVE  StressFactor(x, s) \in Nat /\ Whole <= StressFactor(x, s) /\ Whole \in Nat
<1>1. x.streams[s] \in Stream
  BY DEF Input
<1>2. Factor[x.streams[s].category] \in Nat /\ Whole \in Nat
  BY <1>1, RiskAssumption DEF Stream
<1> QED
  BY <1>2 DEF StressFactor

\* What an item costs in a stressed state.
StressedCost(x, hit, s, d) ==
  IF d \notin x.streams[s].dates THEN 0
  ELSE x.streams[s].amount * (IF s \in hit THEN StressFactor(x, s) ELSE Whole)

\* The batch programs' stressed state costs what the stress test says.
LEMMA CostIsStressed ==
  ASSUME NEW x \in Input, NEW hit, NEW s \in Streams, NEW d \in Day
  PROVE  /\ CostOf(StateWith(x, hit), {}, d)[s] = StressedCost(x, hit, s, d)
         /\ StressedCost(x, hit, s, d) \in Int
<1>1. PICK y \in Input : /\ y = StateWith(x, hit)
                         /\ y.streams[s].dates = x.streams[s].dates
                         /\ y.streams[s].amount =
                              x.streams[s].amount * (IF s \in hit THEN StressFactor(x, s) ELSE Whole)
  BY StateWithType
<1>2. Cost(y, {}, s, d) = StressedCost(x, hit, s, d)
  BY <1>1 DEF Cost, StressedCost
<1>3. CostOf(y, {}, d)[s] = Cost(y, {}, s, d)
  BY DEF CostOf
<1> QED
  BY <1>1, <1>2, <1>3, CostType

\* The more is hit, the more it costs.
LEMMA StressCosts ==
  ASSUME NEW x \in Input, NEW A, NEW B, A \subseteq B, NEW s \in Streams, NEW d \in Day
  PROVE  StressedCost(x, A, s, d) <= StressedCost(x, B, s, d)
<1>1. PICK a \in Nat : a = x.streams[s].amount
  <2>1. x.streams[s] \in Stream
    BY DEF Input
  <2> QED
    BY <2>1 DEF Stream
<1>2. PICK f \in Nat : f = StressFactor(x, s) /\ Whole <= f
  BY FactorsType
<1>3. Whole \in Nat
  BY RiskAssumption
<1>4. a * Whole <= a * f /\ a * Whole \in Int /\ a * f \in Int
  <2>1. Whole * a <= f * a
    BY <1>1, <1>2, <1>3, TimesMonotonic
  <2>2. Whole * a = a * Whole /\ f * a = a * f /\ a * Whole \in Int /\ a * f \in Int
    BY <1>1, <1>2, <1>3
  <2> QED
    BY <2>1, <2>2
<1>5. /\ StressedCost(x, A, s, d) = IF d \notin x.streams[s].dates THEN 0
                                    ELSE IF s \in A THEN a * f ELSE a * Whole
      /\ StressedCost(x, B, s, d) = IF d \notin x.streams[s].dates THEN 0
                                    ELSE IF s \in B THEN a * f ELSE a * Whole
  BY <1>1, <1>2 DEF StressedCost
<1> QED
  BY <1>4, <1>5

\* So the more is hit, the more falls due on each day.
LEMMA StressDebits ==
  ASSUME NEW x \in Input, NEW A, NEW B, A \subseteq B, NEW p, Payments(p), NEW d \in Day
  PROVE  DebitMap(StateWith(x, A), {}, p)[d] <= DebitMap(StateWith(x, B), {}, p)[d]
<1>1. PICK y \in Input : y = StateWith(x, A)
  BY StateWithType
<1>2. PICK z \in Input : z = StateWith(x, B)
  BY StateWithType
<1>3. PICK f : f = CostOf(y, {}, d)
  OBVIOUS
<1>4. PICK g : g = CostOf(z, {}, d)
  OBVIOUS
<1>5. \A s \in Streams : f[s] \in Int /\ g[s] \in Int /\ f[s] <= g[s]
  <2> SUFFICES ASSUME NEW s \in Streams PROVE f[s] \in Int /\ g[s] \in Int /\ f[s] <= g[s]
    OBVIOUS
  <2>1. f[s] = StressedCost(x, A, s, d) /\ f[s] \in Int
    BY <1>1, <1>3, CostIsStressed
  <2>2. g[s] = StressedCost(x, B, s, d) /\ g[s] \in Int
    BY <1>2, <1>4, CostIsStressed
  <2> QED
    BY <2>1, <2>2, StressCosts
<1>6. SumFunctionOnSet(f, Streams) <= SumFunctionOnSet(g, Streams)
  BY <1>5, StreamsAssumption, SumMonotonic
<1>7. PICK a \in Int : a = IF d \in DOMAIN p THEN p[d] ELSE 0
  BY DEF Payments
<1>8. /\ DebitMap(y, {}, p)[d] = SumFunctionOnSet(f, Streams) + a
      /\ SumFunctionOnSet(f, Streams) \in Int
  BY <1>3, <1>7, DebitMapType
<1>9. /\ DebitMap(z, {}, p)[d] = SumFunctionOnSet(g, Streams) + a
      /\ SumFunctionOnSet(g, Streams) \in Int
  BY <1>4, <1>7, DebitMapType
<1> QED
  BY <1>1, <1>2, <1>6, <1>7, <1>8, <1>9

\* Of two ledgers that open alike, the one with the greater debits is never higher.
LEMMA ClosingFalls ==
  ASSUME NEW s \in Int, NEW f \in [Day -> Int], NEW g, NEW h, NEW l \in [Day -> Int], NEW m \in [Day -> Int],
         Closing(s, f, g, l), Closing(s, f, h, m),
         \A d \in Day : g[d] \in Int /\ h[d] \in Int /\ g[d] <= h[d]
  PROVE  \A d \in Day : m[d] <= l[d]
<1> DEFINE G == {d \in Nat : d \in Day => m[d] <= l[d]}
<1>0. \A d \in Day : /\ l[d] = (IF d = 0 THEN s ELSE l[d - 1]) + f[d] - g[d]
                     /\ m[d] = (IF d = 0 THEN s ELSE m[d - 1]) + f[d] - h[d]
  BY DEF Closing
<1>1. 0 \in G
  BY <1>0
<1>2. ASSUME NEW n \in Nat, n \in G PROVE n + 1 \in G
  <2> SUFFICES ASSUME n + 1 \in Day PROVE m[n + 1] <= l[n + 1]
    OBVIOUS
  <2>1. n \in Day /\ n + 1 # 0 /\ (n + 1) - 1 = n
    BY HorizonAssumption DEF Day
  <2>2. l[n + 1] = l[n] + f[n + 1] - g[n + 1] /\ m[n + 1] = m[n] + f[n + 1] - h[n + 1]
    BY <1>0, <2>1
  <2>3. m[n] <= l[n] /\ m[n] \in Int /\ l[n] \in Int
    BY <1>2, <2>1
  <2>4. f[n + 1] \in Int /\ g[n + 1] \in Int /\ h[n + 1] \in Int /\ g[n + 1] <= h[n + 1]
    OBVIOUS
  <2> QED
    BY <2>2, <2>3, <2>4
<1> HIDE DEF G
<1>3. Nat \subseteq G
  BY <1>1, <1>2, NumbersByInduction
<1>4. Day \subseteq Nat
  BY HorizonAssumption DEF Day
<1> QED
  BY <1>3, <1>4 DEF G

\* The more is hit, the lower the balances and the lowest of them.
LEMMA StressLowers ==
  ASSUME NEW x \in Input, NEW A, NEW B, A \subseteq B, NEW p, Payments(p)
  PROVE  MinimumClosing(StateWith(x, B), {}, p) <= MinimumClosing(StateWith(x, A), {}, p)
<1>1. PICK y \in Input : /\ y = StateWith(x, A) /\ y.starting = x.starting * Whole
                         /\ \A d \in Day : y.flow[d] = x.flow[d] * Whole
  BY StateWithType
<1>2. PICK z \in Input : /\ z = StateWith(x, B) /\ z.starting = x.starting * Whole
                         /\ \A d \in Day : z.flow[d] = x.flow[d] * Whole
  BY StateWithType
<1>3. y.starting = z.starting /\ y.flow = z.flow /\ y.starting \in Int /\ y.flow \in [Day -> Int]
  BY <1>1, <1>2 DEF Input
<1>4. PICK l \in [Day -> Int] : /\ l = BuildLedger(y, {}, p)
                                /\ Closing(y.starting, y.flow, DebitMap(y, {}, p), l)
  BY LedgerCloses
<1>5. PICK m \in [Day -> Int] : /\ m = BuildLedger(z, {}, p)
                                /\ Closing(z.starting, z.flow, DebitMap(z, {}, p), m)
  BY LedgerCloses
<1>6. PICK g : g = DebitMap(y, {}, p)
  OBVIOUS
<1>7. PICK h : h = DebitMap(z, {}, p)
  OBVIOUS
<1>8. \A d \in Day : g[d] \in Int /\ h[d] \in Int /\ g[d] <= h[d]
  BY <1>1, <1>2, <1>6, <1>7, DebitMapType, StressDebits
<1>9. \A d \in Day : m[d] <= l[d]
  BY <1>3, <1>4, <1>5, <1>6, <1>7, <1>8, ClosingFalls
<1>10. PICK i \in Int : /\ i = MinimumClosing(y, {}, p)
                        /\ i = y.starting \/ \E d \in Day : i = l[d]
  BY <1>4, MinimumBounds
<1>11. PICK j \in Int : /\ j = MinimumClosing(z, {}, p) /\ j <= z.starting
                        /\ \A d \in Day : j <= m[d]
  BY <1>5, MinimumBounds
<1>12. j <= i
  BY <1>3, <1>9, <1>10, <1>11
<1> QED
  BY <1>1, <1>2, <1>10, <1>11, <1>12

\* If the lowest balance leaves room for the price, it may be paid today.
LEMMA PaidToday ==
  ASSUME NEW y \in Input, MinimumClosing(y, {}, Nothing) - y.minimum >= y.amount
  PROVE  MinimumClosing(y, {}, Pay(0, y.amount)) >= y.minimum
<1>1. y.amount \in Nat /\ y.minimum \in Nat /\ y.starting \in Int
  BY DEF Input
<1>2. PICK p : p = Pay(0, y.amount) /\ Payments(p)
  <2>1. PICK e \in Int : e = 0
    OBVIOUS
  <2>2. Payments(Pay(e, y.amount))
    BY <1>1, PlainPayments
  <2> QED
    BY <2>1, <2>2
<1>3. PICK l : l = BuildLedger(y, {}, Nothing)
  OBVIOUS
<1>4. PICK k : k = BuildLedger(y, {}, p)
  OBVIOUS
<1>5. ASSUME NEW d \in Day PROVE k[d] = l[d] - y.amount /\ l[d] \in Int
  <2>1. Due(p, d) = Once(0, y.amount)[d]
    BY <1>1, <1>2, ZeroIsADay, OnceIsPaid
  <2>2. Once(0, y.amount)[d] = y.amount
    BY HorizonAssumption DEF Once, Day
  <2> QED
    BY <1>2, <1>3, <1>4, <2>1, <2>2, PaymentsLower
<1>6. PICK i \in Int : /\ i = MinimumClosing(y, {}, Nothing) /\ i <= y.starting
                       /\ \A d \in Day : i <= l[d]
  BY <1>3, PlainPayments, MinimumBounds
<1>7. PICK j \in Int : /\ j = MinimumClosing(y, {}, p)
                       /\ j = y.starting \/ \E d \in Day : j = k[d]
  BY <1>2, <1>4, MinimumBounds
<1>8. i - y.minimum >= y.amount
  BY <1>6
<1>9. CASE j = y.starting
  BY <1>1, <1>2, <1>6, <1>7, <1>8, <1>9
<1>10. CASE \E d \in Day : j = k[d]
  <2>1. PICK d \in Day : j = k[d]
    BY <1>10
  <2>2. k[d] = l[d] - y.amount /\ l[d] \in Int /\ i <= l[d]
    BY <1>5, <1>6
  <2>3. j >= y.minimum
    BY <1>1, <1>6, <1>8, <2>1, <2>2
  <2> QED
    BY <1>2, <1>7, <2>3
<1> QED
  BY <1>7, <1>9, <1>10

\* Multiplication keeps the order of integers.
LEMMA ScalesKeepOrder ==
  ASSUME NEW a \in Int, NEW b \in Int
  PROVE  /\ a * Whole \in Int /\ b * Whole \in Int
         /\ a <= b <=> a * Whole <= b * Whole
<1>1. Whole \in Nat /\ Whole >= 1
  BY RiskAssumption
<1>2. a * Whole \in Int /\ b * Whole \in Int /\ b * Whole - a * Whole = (b - a) * Whole
  BY <1>1
<1>3. \A n \in Nat : n * Whole >= 0
  BY <1>1
<1>4. ASSUME a <= b PROVE a * Whole <= b * Whole
  <2>1. b - a \in Nat
    BY <1>4
  <2> QED
    BY <1>2, <1>3, <2>1
<1>5. ASSUME ~(a <= b) PROVE ~(a * Whole <= b * Whole)
  <2>1. PICK n \in Nat : n = a - b - 1
    BY <1>5
  <2>2. a * Whole = b * Whole + n * Whole + Whole
    <3>1. a = b + n + 1
      BY <2>1
    <3>2. (b + n + 1) * Whole = b * Whole + n * Whole + Whole
      BY <1>1
    <3> QED
      BY <3>1, <3>2
  <2>3. n * Whole >= 0 /\ n * Whole \in Int
    BY <1>1, <1>3
  <2> QED
    BY <1>1, <1>2, <2>2, <2>3
<1> QED
  BY <1>2, <1>4, <1>5

\* The unstressed state in thousandths has the balances of the state in thousandths.
LEMMA BalancesScale ==
  ASSUME NEW x \in Input
  PROVE  /\ \A d \in Day : BuildLedger(BaseState(x), {}, Nothing)[d] = BuildLedger(x, {}, Nothing)[d] * Whole
         /\ MinimumClosing(BaseState(x), {}, Nothing) = MinimumClosing(x, {}, Nothing) * Whole
<1>1. PICK y \in Input : /\ y = BaseState(x) /\ y.starting = x.starting * Whole
                         /\ \A d \in Day : y.flow[d] = x.flow[d] * Whole
  BY StateWithType DEF BaseState
<1>2. PICK l \in [Day -> Int] : /\ l = BuildLedger(x, {}, Nothing)
                                /\ Closing(x.starting, x.flow, DebitMap(x, {}, Nothing), l)
  BY PlainPayments, LedgerCloses
<1>3. PICK k \in [Day -> Int] : /\ k = BuildLedger(y, {}, Nothing)
                                /\ Closing(y.starting, y.flow, DebitMap(y, {}, Nothing), k)
  BY PlainPayments, LedgerCloses
<1>4. Whole \in Int
  BY RiskAssumption
<1>5. ASSUME NEW d \in Day
      PROVE  /\ DebitMap(y, {}, Nothing)[d] = DebitMap(x, {}, Nothing)[d] * Whole
             /\ DebitMap(x, {}, Nothing)[d] \in Int
  <2>1. PICK f : f = CostOf(x, {}, d)
    OBVIOUS
  <2>2. PICK g : g = CostOf(y, {}, d)
    OBVIOUS
  <2>3. ASSUME NEW s \in Streams PROVE f[s] \in Int /\ g[s] \in Int /\ g[s] = f[s] * Whole
    <3>1. g[s] = StressedCost(x, {}, s, d) /\ g[s] \in Int
      BY <1>1, <2>2, CostIsStressed DEF BaseState
    <3>2. f[s] = Cost(x, {}, s, d) /\ f[s] \in Int
      BY <2>1, CostType DEF CostOf
    <3>3. f[s] = IF d \notin x.streams[s].dates THEN 0 ELSE x.streams[s].amount
      BY <3>2 DEF Cost
    <3>4. g[s] = IF d \notin x.streams[s].dates THEN 0 ELSE x.streams[s].amount * Whole
      BY <3>1 DEF StressedCost
    <3>5. 0 * Whole = 0
      BY <1>4
    <3> QED
      BY <3>1, <3>2, <3>3, <3>4, <3>5
  <2>4. SumFunctionOnSet(g, Streams) = SumFunctionOnSet(f, Streams) * Whole
    BY <1>4, <2>3, StreamsAssumption, SumScales
  <2>5. /\ DebitMap(x, {}, Nothing)[d] = SumFunctionOnSet(f, Streams) + 0
        /\ SumFunctionOnSet(f, Streams) \in Int
    BY <2>1, PlainPayments, DebitMapType
  <2>6. /\ DebitMap(y, {}, Nothing)[d] = SumFunctionOnSet(g, Streams) + 0
        /\ SumFunctionOnSet(g, Streams) \in Int
    BY <2>2, PlainPayments, DebitMapType
  <2> QED
    BY <2>4, <2>5, <2>6
<1>6. PICK m : m = [d \in Day |-> l[d] * Whole]
  OBVIOUS
<1>7. ASSUME NEW d \in Day
      PROVE  m[d] = (IF d = 0 THEN y.starting ELSE m[d - 1]) + y.flow[d] - DebitMap(y, {}, Nothing)[d]
  <2>1. PICK a \in Int : a = IF d = 0 THEN x.starting ELSE l[d - 1]
    <3>1. d # 0 => d - 1 \in Day
      BY HorizonAssumption DEF Day
    <3> QED
      BY <3>1 DEF Input
  <2>2. (IF d = 0 THEN y.starting ELSE m[d - 1]) = a * Whole
    <3>1. d # 0 => d - 1 \in Day
      BY HorizonAssumption DEF Day
    <3> QED
      BY <1>1, <1>6, <2>1, <3>1
  <2>3. PICK b \in Int : b = x.flow[d] /\ y.flow[d] = b * Whole
    BY <1>1 DEF Input
  <2>4. PICK c \in Int : c = DebitMap(x, {}, Nothing)[d] /\ DebitMap(y, {}, Nothing)[d] = c * Whole
    BY <1>5
  <2>5. l[d] = a + b - c
    BY <1>2, <2>1, <2>3, <2>4 DEF Closing
  <2>6. (a + b - c) * Whole = a * Whole + b * Whole - c * Whole
    BY <1>4
  <2> QED
    BY <1>6, <2>2, <2>3, <2>4, <2>5, <2>6
<1>8. Closing(y.starting, y.flow, DebitMap(y, {}, Nothing), m)
  <2>1. m = [d \in Day |-> m[d]]
    BY <1>6
  <2> QED
    BY <1>7, <2>1 DEF Closing
<1>9. k = m
  BY <1>3, <1>8, ClosingUnique
<1>10. PICK i \in Int : /\ i = MinimumClosing(x, {}, Nothing) /\ i <= x.starting
                        /\ \A d \in Day : i <= l[d]
                        /\ i = x.starting \/ \E d \in Day : i = l[d]
  BY <1>2, PlainPayments, MinimumBounds
<1>11. PICK j \in Int : /\ j = MinimumClosing(y, {}, Nothing) /\ j <= y.starting
                        /\ \A d \in Day : j <= k[d]
                        /\ j = y.starting \/ \E d \in Day : j = k[d]
  BY <1>3, PlainPayments, MinimumBounds
<1>12. x.starting \in Int /\ \A d \in Day : l[d] \in Int /\ k[d] = l[d] * Whole
  BY <1>6, <1>9 DEF Input
<1>13. i * Whole <= j
  <2>1. i * Whole <= x.starting * Whole
    BY <1>10, <1>12, ScalesKeepOrder
  <2>2. \A d \in Day : i * Whole <= l[d] * Whole
    BY <1>10, <1>12, ScalesKeepOrder
  <2> QED
    BY <1>1, <1>11, <1>12, <2>1, <2>2
<1>14. j <= i * Whole
  <2>1. CASE i = x.starting
    BY <1>1, <1>11, <2>1
  <2>2. CASE \E d \in Day : i = l[d]
    BY <1>11, <1>12, <2>2
  <2> QED
    BY <1>10, <2>1, <2>2
<1>15. j = i * Whole
  <2>1. i * Whole \in Int
    BY <1>4
  <2> QED
    BY <1>13, <1>14, <2>1
<1> QED
  BY <1>1, <1>2, <1>3, <1>10, <1>11, <1>12, <1>15

\* So the price is safe to pay in thousandths if it is in units.
LEMMA SafetyScales ==
  ASSUME NEW x \in Input
  PROVE  SafeToPay(BaseState(x), {}) >= BaseState(x).amount
           <=> MinimumClosing(x, {}, Nothing) - x.minimum >= x.amount
<1>1. PICK y \in Input : /\ y = BaseState(x) /\ y.minimum = x.minimum * Whole
                         /\ y.amount = x.amount * Whole
  BY StateWithType DEF BaseState
<1>2. PICK i \in Int : i = MinimumClosing(x, {}, Nothing)
  BY PlainPayments, MinimumBounds
<1>3. MinimumClosing(y, {}, Nothing) = i * Whole
  BY <1>1, <1>2, BalancesScale
<1>4. x.minimum \in Nat /\ x.amount \in Nat \ {0} /\ y.minimum \in Nat /\ y.amount \in Nat \ {0}
  BY DEF Input
<1>5. PICK h \in Int : h = i * Whole - y.minimum
  <2>1. i * Whole \in Int
    BY <1>2, ScalesKeepOrder
  <2> QED
    BY <1>4, <2>1
<1>6. SafeToPay(y, {}) >= y.amount <=> h >= y.amount
  <2>1. SafeToPay(y, {}) = IF h < 0 THEN 0 ELSE Lesser(y.amount, h)
    BY <1>3, <1>5, SafeToPayIs
  <2> QED
    BY <1>4, <1>5, <2>1 DEF Lesser
<1>7. h >= y.amount <=> x.amount + x.minimum <= i
  <2>1. PICK t \in Int : t = x.amount + x.minimum
    BY <1>4
  <2>2. t * Whole = x.amount * Whole + x.minimum * Whole
    BY <1>4, <2>1, RiskAssumption
  <2>3. t <= i <=> t * Whole <= i * Whole
    BY <1>2, <2>1, ScalesKeepOrder
  <2>4. t * Whole \in Int /\ i * Whole \in Int
    BY <1>2, <2>1, ScalesKeepOrder
  <2>5. h >= y.amount <=> t * Whole <= i * Whole
    BY <1>1, <1>4, <1>5, <2>2, <2>4
  <2> QED
    BY <2>1, <2>3, <2>5
<1> QED
  BY <1>1, <1>2, <1>4, <1>6, <1>7

-----------------------------------------------------------------------------
(* The tier *)

\* The tier and the breach, from the lowest balances of the two states.
LEMMA RiskIs ==
  ASSUME NEW x \in Input
  PROVE  /\ ClassifyRisk(x).p50 = SafeToPay(BaseState(x), {})
         /\ ClassifyRisk(x).p90 = SafeToPay(StressedState(x), {})
         /\ ClassifyRisk(x).p90 <= ClassifyRisk(x).p50
         /\ ClassifyRisk(x).breach <=> ClassifyRisk(x).tier # "LOW_RISK"
         /\ ClassifyRisk(x).tier = "LOW_RISK" <=>
              MinimumClosing(StressedState(x), {}, Nothing) - StressedState(x).minimum
                >= StressedState(x).amount
         /\ ClassifyRisk(x).tier # "HIGH_RISK" <=>
              SafeToPay(BaseState(x), {}) >= BaseState(x).amount
<1>1. PICK y \in Input : /\ y = BaseState(x) /\ y.minimum = x.minimum * Whole
                         /\ y.amount = x.amount * Whole
  BY StateWithType DEF BaseState
<1>2. PICK z \in Input : /\ z = StressedState(x) /\ z.minimum = x.minimum * Whole
                         /\ z.amount = x.amount * Whole
  BY StateWithType DEF StressedState
<1>3. y.amount \in Nat \ {0} /\ y.minimum \in Nat /\ z.amount = y.amount /\ z.minimum = y.minimum
  BY <1>1, <1>2 DEF Input
<1>4. PICK i \in Int : i = MinimumClosing(y, {}, Nothing)
  BY PlainPayments, MinimumBounds
<1>5. PICK j \in Int : j = MinimumClosing(z, {}, Nothing)
  BY PlainPayments, MinimumBounds
<1>6. j <= i
  BY <1>1, <1>2, <1>4, <1>5, PlainPayments, StressLowers DEF BaseState, StressedState
<1>7. PICK h \in Int : h = i - y.minimum
  BY <1>3, <1>4
<1>8. PICK g \in Int : g = j - y.minimum /\ g <= h
  BY <1>3, <1>5, <1>6, <1>7
<1>9. PICK p50 : p50 = SafeToPay(y, {}) /\ p50 = IF h < 0 THEN 0 ELSE Lesser(y.amount, h)
  BY <1>4, <1>7, SafeToPayIs
<1>10. PICK p90 : p90 = SafeToPay(z, {}) /\ p90 = IF g < 0 THEN 0 ELSE Lesser(y.amount, g)
  BY <1>3, <1>5, <1>8, SafeToPayIs
<1>11. PICK r : r = ClassifyRisk(x)
  OBVIOUS
<1>12. /\ r.p50 = p50 /\ r.p90 = p90 /\ r.tier = Tier(p50, p90, y.amount)
       /\ r.breach = (g < 0 \/ g < y.amount)
  BY <1>1, <1>2, <1>5, <1>8, <1>9, <1>10, <1>11 DEF ClassifyRisk
<1>13. p90 <= p50
  BY <1>3, <1>8, <1>9, <1>10 DEF Lesser
<1>14. (p90 >= y.amount <=> g >= y.amount) /\ (p50 >= y.amount <=> h >= y.amount)
  BY <1>3, <1>9, <1>10 DEF Lesser
<1>15. r.tier = "LOW_RISK" <=> g >= y.amount
  BY <1>12, <1>14 DEF Tier
<1>16. r.tier # "HIGH_RISK" <=> p50 >= y.amount
  BY <1>3, <1>8, <1>12, <1>14 DEF Tier
<1>17. r.breach <=> r.tier # "LOW_RISK"
  <2>1. (g < 0 \/ g < y.amount) <=> ~(g >= y.amount)
    BY <1>3
  <2> QED
    BY <1>12, <1>15, <2>1
<1> QED
  BY <1>1, <1>2, <1>3, <1>5, <1>8, <1>9, <1>10, <1>11, <1>12, <1>13, <1>15, <1>16, <1>17

\* At low risk the price can be paid today, whatever is hit.
LEMMA LowRiskIsLow ==
  ASSUME NEW x \in Input, ClassifyRisk(x).tier = "LOW_RISK", NEW hit \in SUBSET Recurring,
         NEW y, y = StateWith(x, hit)
  PROVE  MinimumClosing(y, {}, Pay(0, y.amount)) >= y.minimum
<1>1. /\ y \in Input /\ y.minimum = x.minimum * Whole /\ y.amount = x.amount * Whole
  BY StateWithType
<1>2. PICK z \in Input : /\ z = StressedState(x) /\ z.minimum = x.minimum * Whole
                         /\ z.amount = x.amount * Whole
  BY StateWithType DEF StressedState
<1>3. PICK i \in Int : i = MinimumClosing(y, {}, Nothing)
  BY <1>1, PlainPayments, MinimumBounds
<1>4. PICK j \in Int : j = MinimumClosing(z, {}, Nothing)
  BY PlainPayments, MinimumBounds
<1>5. j <= i
  BY <1>2, <1>3, <1>4, PlainPayments, StressLowers DEF StressedState
<1>6. j - z.minimum >= z.amount
  BY <1>2, <1>4, RiskIs
<1>7. y.minimum = z.minimum /\ y.amount = z.amount /\ z.minimum \in Nat /\ z.amount \in Nat
  BY <1>1, <1>2 DEF Input
<1>8. i - y.minimum >= y.amount
  BY <1>5, <1>6, <1>7
<1> QED
  BY <1>1, <1>3, <1>8, PaidToday

\* Where the price is safe to pay today, a decision to put it off has no candidate.
LEMMA NoWaitWhenSafe ==
  ASSUME SearchedInv, pc = "decided", NEW b \in built, b.changes = {}, Solvent(b.ledger, 0),
         decision.planned = {}
  PROVE  decision.method # "wait"
<1> SUFFICES ASSUME decision.method = "wait" PROVE FALSE
  OBVIOUS
<1>1. PICK c \in candidates : Best(c) /\ decision.method = c.method /\ decision.planned = c.changes
  BY DEF SearchedInv, DecisionInv, Recommended
<1>2. PICK p \in FeasiblePlans(V2, in) : c = CandidateFrom(p)
  BY <1>1, SearchIsOver DEF Evaluated, Best
<1>3. p.method = "wait" /\ p.changes = {}
  BY <1>1, <1>2 DEF CandidateFrom
<1>4. PICK d : p \in PlansOf(V2, in, d, SafeToPay(in, d), EarliestFull(in, d))
  BY FeasibleArePlans DEF AllPlans
<1>5. PICK e : e = EarliestFull(in, d)
  OBVIOUS
<1>6. p \in WaitPlans(V2, in, d, e)
  BY <1>3, <1>4, <1>5 DEF PlansOf, FullPlans, InstallmentPlans, PartialPlans, PlanOf
<1>7. e # None /\ 0 < e /\ d = {}
  BY <1>3, <1>6 DEF WaitPlans, PlanOf
<1>8. b.earliest = e
  BY <1>5, <1>7, BuiltAgrees
<1>9. IsEarliest(b.ledger, e)
  BY <1>8 DEF SearchedInv, IInv, BuiltInv
<1>10. ~Solvent(b.ledger, 0)
  BY <1>7, <1>9, ZeroIsADay DEF IsEarliest
<1> QED
  BY <1>10

\* The tier tells the truth about the decision it is reported with (classify_risk,
\* build_stressed_state, make_decision).
THEOREM TierAlwaysTellsTheTruth == Spec => []RiskTierHolds
<1>1. SearchedInv => RiskTierHolds
  <2> SUFFICES ASSUME SearchedInv, Evaluated
               PROVE  LET risk == ClassifyRisk(in)
                      IN  /\ risk.p90 <= risk.p50
                          /\ risk.breach <=> risk.tier # "LOW_RISK"
                          /\ risk.tier = "LOW_RISK" =>
                               \A hit \in SUBSET Recurring :
                                 LET x == StateWith(in, hit)
                                 IN  MinimumClosing(x, {}, Pay(0, x.amount)) >= x.minimum
                          /\ decision.verdict = "BUY" => risk.tier # "HIGH_RISK"
                          /\ BuyMeansNow
                          /\ risk.tier # "HIGH_RISK" /\ "full_payment" \in in.methods =>
                               decision.planned = {} /\ decision.method \notin {"wait", "not_recommended"}
    BY DEF RiskTierHolds
  <2>1. /\ in \in Input
        /\ \A c : c \in ChangeCombos(in) <=> \E b \in built : b.changes = c
    BY SearchIsOver
  <2>2. PICK r : r = ClassifyRisk(in)
    OBVIOUS
  <2>3. PICK i \in Int : i = MinimumClosing(in, {}, Nothing)
    BY <2>1, PlainPayments, MinimumBounds
  <2>4. /\ r.p90 <= r.p50 /\ (r.breach <=> r.tier # "LOW_RISK")
        /\ r.tier # "HIGH_RISK" <=> SafeToPay(BaseState(in), {}) >= BaseState(in).amount
    BY <2>1, <2>2, RiskIs
  <2>5. r.tier # "HIGH_RISK" <=> i - in.minimum >= in.amount
    BY <2>1, <2>3, <2>4, SafetyScales
  <2>6. ASSUME r.tier = "LOW_RISK", NEW hit \in SUBSET Recurring, NEW y, y = StateWith(in, hit)
        PROVE  MinimumClosing(y, {}, Pay(0, y.amount)) >= y.minimum
    BY <2>1, <2>2, <2>6, LowRiskIsLow
  <2>7. in.amount \in Nat \ {0} /\ in.minimum \in Nat /\ in.starting \in Int /\ in.deadline \in Nat
    BY <2>1 DEF Input
  <2>8. PICK b \in built : b.changes = {}
    BY <2>1, BaselineIsACombo, ChangesAgree
  <2>9. BuyMeansNow
    BY DEF SearchedInv, IInv
  <2>10. SafeAmount(b.lowest) = SafeToPay(in, {})
    BY <2>8, BuiltAgrees
  <2>11. SafeToPay(in, {}) = LET headroom == i - in.minimum
                             IN  IF headroom < 0 THEN 0 ELSE Lesser(in.amount, headroom)
    BY <2>1, <2>3, SafeToPayIs
  <2>12. ASSUME decision.verdict = "BUY" PROVE r.tier # "HIGH_RISK"
    <3>1. pc = "decided"
      BY <2>12 DEF Evaluated, SearchedInv, DecisionInv, Advised
    <3>2. decision.safe = in.amount
      BY <2>9, <2>12, <3>1 DEF BuyMeansNow
    <3>3. PICK base \in built : base.changes = {} /\ decision.safe = SafeAmount(base.lowest)
      BY <3>1 DEF SearchedInv, DecisionInv, Recommended
    <3>4. SafeToPay(in, {}) = in.amount
      BY <3>2, <3>3, BuiltAgrees
    <3> QED
      BY <2>3, <2>5, <2>7, <2>11, <3>4 DEF Lesser
  <2>13. ASSUME r.tier # "HIGH_RISK", "full_payment" \in in.methods
         PROVE  decision.planned = {} /\ decision.method \notin {"wait", "not_recommended"}
    <3>1. i - in.minimum >= in.amount
      BY <2>5, <2>13
    <3>2. Scanned(b.net, b.ledger, b.lowest, Horizon + 1) /\ b.ledger \in [Day -> Int] /\ b.lowest \in Int
      BY DEF SearchedInv, IInv, TypeOK, BuiltInv, BuiltLedger
    <3>3. FullLedger({}, b.net, b.ledger, b.lowest)
      BY <2>8, <3>2 DEF SearchedInv, NetsInv, FullLedger
    <3>4. b.lowest = i
      BY <2>1, <2>3, <3>3, LedgersAgree
    <3>5. in.starting >= i /\ \A d \in Day : b.ledger[d] >= i /\ b.ledger[d] \in Int
      <4>1. \A d \in Day : d < Horizon + 1
        BY HorizonAssumption DEF Day
      <4> QED
        BY <2>3, <2>7, <3>2, <3>4, <4>1 DEF Scanned
    <3>6. Solvent(b.ledger, 0)
      <4>1. \A d \in Day : Once(0, in.amount)[d] = in.amount
        BY HorizonAssumption DEF Once, Day
      <4>2. in.starting >= in.minimum
        BY <2>3, <2>7, <3>1, <3>5
      <4>3. \A d \in Day : b.ledger[d] - in.amount >= in.minimum
        BY <2>3, <2>7, <3>1, <3>5
      <4> QED
        BY <4>1, <4>2, <4>3 DEF Solvent
    <3>7. decision.method # "not_recommended" /\ decision.planned = {}
      <4>1. NoMissedChance
        BY DEF SearchedInv, IInv
      <4>2. 0 <= in.deadline
        BY <2>7
      <4> QED
        BY <2>8, <2>13, <3>6, <4>1, <4>2, ZeroIsADay DEF NoMissedChance, Evaluated
    <3>8. pc = "decided"
      BY <3>7 DEF Evaluated, SearchedInv, DecisionInv, Advised
    <3>9. decision.method # "wait"
      BY <2>8, <3>6, <3>7, <3>8, NoWaitWhenSafe
    <3> QED
      BY <3>7, <3>9
  <2> QED
    BY <2>2, <2>4, <2>6, <2>9, <2>12, <2>13
<1> QED
  BY <1>1, SearchHolds, PTL
=============================================================================
