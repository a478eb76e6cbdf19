----------------------------- MODULE EngineProofs -----------------------------
(* Theorems about DecisionEngine, for every horizon, set of streams and inputs. *)
EXTENDS DecisionEngine, FiniteSetTheorems, TLAPS

-----------------------------------------------------------------------------
(* Types of the operators *)

\* The first and the last day of the horizon are days.
LEMMA ZeroIsADay == 0 \in Day /\ Horizon \in Day
BY HorizonAssumption DEF Day

\* What is evaluated has the types the code gives a state and a request.
LEMMA InputType ==
  ASSUME in \in Input
  PROVE  /\ in.starting \in Int /\ in.minimum \in Nat
         /\ in.flow \in [Day -> Int] /\ in.flow[0] = 0
         /\ in.streams \in [Streams -> Stream]
         /\ in.amount \in Nat \ {0} /\ in.deadline \in Nat
         /\ in.options \subseteq Option /\ in.methods \subseteq Methods
BY DEF Input

\* The same of one stream of debits.
LEMMA StreamType ==
  ASSUME in \in Input, NEW s \in Streams
  PROVE  /\ in.streams[s].amount \in Nat /\ in.streams[s].floor \in Nat
         /\ in.streams[s].dates \subseteq Day \ {0}
<1>1. in.streams[s] \in Stream
  BY InputType
<1> QED
  BY <1>1 DEF Stream

\* What a stream takes on a day is an amount, changed or not.
LEMMA DebitType ==
  ASSUME in \in Input, NEW s \in Streams, NEW c, NEW d \in Day
  PROVE  Debit(c, s, d) \in Nat /\ Debit(c, s, 0) = 0
BY StreamType DEF Debit, ChangedAmount

\* A combination of spending changes consists of streams.
LEMMA CombosAreStreams == \A c \in Combos : c \subseteq Streams
BY DEF Combos, Eligible

\* No change at all is one of the combinations (the baseline).
LEMMA BaselineIsACombo == {} \in Combos
BY FS_EmptySet, HorizonAssumption DEF Combos

\* What an option has paid by a day, and the day it ends on, are numbers.
LEMMA OptionType ==
  ASSUME NEW o \in Option
  PROVE  /\ OptionPlan(o) \in [Day -> Nat]
         /\ o.first \in Int /\ OptionEnd(o) \in Int /\ o.count \in Nat /\ o.total \in Nat
<1>1. /\ o.first \in Int /\ o.every \in Nat /\ o.count \in Nat \ {0}
      /\ o.amount \in Nat /\ o.total \in Nat
  BY DEF Option
<1>2. ASSUME NEW d \in Day PROVE DueBy(o, d) \in Nat
  <2> DEFINE Due == {i \in 0..(o.count - 1) : o.first + i * o.every \in 0..d}
  <2>0. 0 \in Int /\ o.count - 1 \in Int
    BY <1>1
  <2>1. IsFiniteSet(0..(o.count - 1))
    BY <2>0, FS_Interval, Zenon
  <2>2. IsFiniteSet(Due)
    BY <2>1, FS_Subset
  <2> QED
    BY <2>2, FS_CardinalityType DEF DueBy
<1>3. \A m, n \in Nat : m * n \in Nat
  OBVIOUS
<1>4. ASSUME NEW d \in Day PROVE o.amount * DueBy(o, d) \in Nat
  BY <1>1, <1>2, <1>3
<1>5. (o.count - 1) * o.every \in Nat
  <2>1. o.count - 1 \in Nat
    BY <1>1
  <2> QED
    BY <2>1, <1>1, <1>3
<1>6. OptionEnd(o) \in Int
  BY <1>1, <1>5 DEF OptionEnd
<1> QED
  BY <1>1, <1>4, <1>6 DEF OptionPlan

\* The safe amount lies between zero and the price (compute_safe_amount).
LEMMA SafeAmountType ==
  ASSUME in \in Input, NEW m \in Int
  PROVE  SafeAmount(m) \in Nat /\ SafeAmount(m) <= in.amount
BY InputType DEF SafeAmount, Lesser

\* A single payment, as a plan, is a function of the day.
LEMMA OnceType ==
  ASSUME in \in Input, NEW d \in Day
  PROVE  Once(d, in.amount) \in [Day -> Nat]
BY InputType DEF Once

\* So is the plan that pays nothing.
LEMMA NoPlanType == NoPlan \in [Day -> Nat] /\ NoPlan \in [Day -> Int]
BY DEF NoPlan

-----------------------------------------------------------------------------
(* The inductive invariant *)

\* The days before k of ledger l have been closed over the daily net n.
Scanned(n, l, low, k) ==
  /\ low <= in.starting
  /\ low = in.starting \/ \E d \in Day : d < k /\ low = l[d]
  /\ \A d \in Day : d < k =>
       /\ low <= l[d]
       /\ l[d] = n[d] + (IF d = 0 THEN in.starting ELSE l[d - 1])

ScanInv ==
  pc = "scan" =>
    /\ Scanned(net, ledger, lowest, current)
    /\ running = IF current = 0 THEN in.starting ELSE ledger[current - 1]

\* Nothing falls on the day of the request.
NetInv == net[0] = 0

BuiltInv ==
  \A b \in built :
    /\ Scanned(b.net, b.ledger, b.lowest, Horizon + 1)
    /\ b.net[0] = 0
    /\ IsEarliest(b.ledger, b.earliest)

\* Every combination has at most one ledger.
BuiltOnce ==
  /\ pc \in {"maps", "scan"} => changes \in todo
  /\ \A b \in built : b.changes \notin todo
  /\ \A a, b \in built : a.changes = b.changes => a = b

\* What a candidate promises on ledger l with lowest balance low.
Sound(c, l, low) ==
  /\ c.method # "installments" =>
       /\ c.plan[Horizon] = in.amount /\ c.total = in.amount
       /\ c.feasible => \A d \in Day : l[d] - c.plan[d] >= in.minimum
  /\ c.method = "installments" /\ c.feasible =>
       \A d \in Day : d <= c.last => l[d] - c.plan[d] >= in.minimum - Epsilon
  /\ c.method = "full_payment" =>
       /\ c.plan = Once(0, in.amount)
       /\ c.feasible => SafeAmount(low) = in.amount
  /\ c.onTime = (c.last <= in.deadline)
  /\ c.method = "wait" => c.first = c.last
  /\ c.method \in {"wait", "partial_payment"} => \A d \in Day : Solvent(l, d) => c.last <= d

CandidatesSound ==
  \A c \in candidates : \E b \in built :
    b.changes = c.changes /\ Sound(c, b.ledger, b.lowest)

\* Wherever a full payment is possible in time, one is among the candidates.
CandidatesComplete ==
  "full_payment" \in in.methods =>
    \A b \in built : \A d \in Day : d <= in.deadline /\ Solvent(b.ledger, d) =>
      \E c \in Feasible :
        c.changes = b.changes /\ c.onTime /\ c.total = in.amount /\ c.first <= d

\* The decision is a feasible candidate.
DecisionSound ==
  pc \in {"decided", "living"} =>
    \E c \in candidates :
      /\ c.feasible
      /\ decision.method = c.method /\ decision.plan = c.plan
      /\ decision.planned = c.changes /\ decision.last = c.last

DecisionTyped == pc \in {"decided", "living", "done"} => decision \in Decision

\* The balance of the day is the ledger's, less what has been paid.
LifeInv ==
  pc = "living" =>
    \E b \in built :
      /\ b.changes = forecast.cut /\ b.net = forecast.net
      /\ balance = b.ledger[today] - decision.plan[today]

IInv ==
  /\ TypeOK
  /\ ScanInv /\ NetInv
  /\ BuiltInv /\ BuiltOnce
  /\ CandidatesSound /\ CandidatesComplete
  /\ DecisionSound /\ DecisionTyped
  /\ LifeInv
  /\ SafeAmountIsLargest /\ NoMissedChance /\ BuyMeansNow

-----------------------------------------------------------------------------
(* The candidates of a finished ledger *)

\* The lowest balance is one of the balances, or today's.
LEMMA LowestBounds ==
  ASSUME in \in Input, NEW n \in [Day -> Int], NEW l \in [Day -> Int], NEW low \in Int,
         n[0] = 0, Scanned(n, l, low, Horizon + 1)
  PROVE  /\ l[0] = in.starting /\ low <= in.starting
         /\ \A d \in Day : low <= l[d]
         /\ \E d \in Day : low = l[d]
<1>1. \A d \in Day : d < Horizon + 1 /\ d \in Int
  BY HorizonAssumption DEF Day
<1>2. l[0] = n[0] + in.starting
  BY <1>1, ZeroIsADay DEF Scanned
<1>3. l[0] = in.starting
  BY <1>2, InputType
<1> QED
  BY <1>1, <1>3, ZeroIsADay DEF Scanned

\* The safe amount may be paid today, and no more than it.
LEMMA SafeAmountIsSafe ==
  ASSUME in \in Input, NEW m \in Int
  PROVE  /\ SafeAmount(m) > 0 => m - SafeAmount(m) >= in.minimum
         /\ SafeAmount(m) < in.amount => m - (SafeAmount(m) + 1) < in.minimum
         /\ m - in.amount >= in.minimum => SafeAmount(m) = in.amount
BY InputType DEF SafeAmount, Lesser

\* A feasible full payment keeps the minimum balance on every day.
LEMMA FullPaymentSound ==
  ASSUME in \in Input, NEW n \in [Day -> Int], ledger \in [Day -> Int], lowest \in Int,
         changes \subseteq Streams, n[0] = 0, Scanned(n, ledger, lowest, Horizon + 1),
         NEW c \in FullPayment(lowest)
  PROVE  c \in CandidateType /\ c.changes = changes /\ Sound(c, ledger, lowest)
<1> DEFINE ok == SafeAmount(lowest) >= in.amount /\ IsPlanSafe(ledger, Once(0, in.amount), 0)
<1>1. c = Candidate("full_payment", Once(0, in.amount), 0, 0, 1, in.amount, ok)
  BY DEF FullPayment
<1>2. /\ c.method = "full_payment" /\ c.changes = changes /\ c.plan = Once(0, in.amount)
      /\ c.total = in.amount /\ c.feasible = ok /\ c.onTime = (c.last <= in.deadline)
  BY <1>1 DEF Candidate
<1>3. c \in CandidateType
  <2>1. ok \in BOOLEAN
    OBVIOUS
  <2>2. 0 \in Int /\ Once(0, in.amount) \in [Day -> Nat] /\ in.amount \in Nat
    BY OnceType, ZeroIsADay, InputType
  <2> HIDE DEF ok
  <2> QED
    BY <1>1, <2>1, <2>2 DEF Candidate, CandidateType, Methods
<1>4. \A d \in Day : Once(0, in.amount)[d] = in.amount
  BY HorizonAssumption DEF Once, Day
<1>5. ASSUME ok PROVE SafeAmount(lowest) = in.amount /\ lowest - in.amount >= in.minimum
  BY <1>5, SafeAmountType, SafeAmountIsSafe, InputType
<1>6. ASSUME ok, NEW d \in Day PROVE ledger[d] - in.amount >= in.minimum
  BY <1>5, <1>6, LowestBounds, InputType
<1> QED
  BY <1>2, <1>3, <1>4, <1>5, <1>6, ZeroIsADay DEF Sound

\* Feasible installments keep it within the tolerance up to the last of them.
LEMMA InstallmentsSound ==
  ASSUME in \in Input, changes \subseteq Streams, NEW c \in Installments
  PROVE  c \in CandidateType /\ c.changes = changes /\ Sound(c, ledger, lowest)
<1>1. PICK o \in Accepted :
        c = Candidate("installments", OptionPlan(o), o.first, OptionEnd(o), o.count, o.total,
                      IsPlanSafe(ledger, OptionPlan(o), OptionEnd(o)))
  BY DEF Installments
<1>2. o \in Option
  BY InputType DEF Accepted
<1>3. c \in CandidateType
  BY <1>1, <1>2, OptionType DEF Candidate, CandidateType, Methods, IsPlanSafe
<1>4. /\ c.method = "installments" /\ c.changes = changes /\ c.plan = OptionPlan(o)
      /\ c.last = OptionEnd(o) /\ c.feasible = IsPlanSafe(ledger, OptionPlan(o), OptionEnd(o))
      /\ c.onTime = (c.last <= in.deadline)
  BY <1>1 DEF Candidate
<1> QED
  BY <1>3, <1>4 DEF Sound, IsPlanSafe

\* No day on which the full amount may be paid comes before the earliest one.
LEMMA EarliestIsFirst ==
  ASSUME NEW l, NEW e \in Day \union {None}, e # None, IsEarliest(l, e)
  PROVE  \A d \in Day : Solvent(l, d) => e <= d
<1>1. \A d \in Day : Solvent(l, d) => ~(d < e)
  BY DEF IsEarliest
<1> QED
  BY <1>1, HorizonAssumption DEF Day

\* A wait pays on the earliest date, after which the balance stays above the minimum.
LEMMA WaitSound ==
  ASSUME in \in Input, ledger \in [Day -> Int], changes \subseteq Streams,
         NEW e \in Day \union {None}, IsEarliest(ledger, e), NEW c \in Wait(e)
  PROVE  c \in CandidateType /\ c.changes = changes /\ Sound(c, ledger, lowest)
<1>1. /\ e # None
      /\ c = Candidate("wait", Once(e, in.amount), e, e, 1, in.amount,
                       IsPlanSafe(ledger, Once(e, in.amount), e))
  BY DEF Wait
<1>2. e \in Day /\ e \in Int /\ e <= Horizon
  BY <1>1, HorizonAssumption DEF Day
<1>3. c \in CandidateType
  BY <1>1, <1>2, OnceType, InputType DEF Candidate, CandidateType, IsPlanSafe
<1>4. /\ c.method = "wait" /\ c.changes = changes /\ c.plan = Once(e, in.amount)
      /\ c.total = in.amount /\ c.onTime = (c.last <= in.deadline) /\ c.first = e /\ c.last = e
  BY <1>1 DEF Candidate
<1>5. \A d \in Day : ledger[d] - Once(e, in.amount)[d] >= in.minimum
  BY <1>1 DEF IsEarliest, Solvent
<1>6. Once(e, in.amount)[Horizon] = in.amount
  BY <1>2, ZeroIsADay DEF Once
<1>7. \A d \in Day : Solvent(ledger, d) => e <= d
  BY <1>1, EarliestIsFirst
<1> QED
  BY <1>3, <1>4, <1>5, <1>6, <1>7 DEF Sound

\* The two parts make up the price and keep the minimum on every day.
LEMMA PartialPaymentSound ==
  ASSUME in \in Input, NEW n \in [Day -> Int], ledger \in [Day -> Int], lowest \in Int,
         changes \subseteq Streams, n[0] = 0, Scanned(n, ledger, lowest, Horizon + 1),
         NEW e \in Day \union {None}, IsEarliest(ledger, e), NEW c \in PartialPayment(lowest, e)
  PROVE  c \in CandidateType /\ c.changes = changes /\ Sound(c, ledger, lowest)
<1>0. PICK safe : safe = SafeAmount(lowest)
  OBVIOUS
<1>1. PICK plan : plan = Twice(safe, e, in.amount - safe)
  OBVIOUS
<1>2. /\ 0 < safe /\ safe < in.amount /\ e # None
      /\ c = Candidate("partial_payment", plan, 0, e, 2, in.amount, IsPlanSafe(ledger, plan, e))
  BY <1>0, <1>1 DEF PartialPayment, Remainder
<1>3. e \in Day /\ e \in Int /\ 0 <= e /\ e <= Horizon
  BY <1>2, HorizonAssumption DEF Day
<1>4. safe \in Nat /\ in.amount \in Nat
  BY <1>0, SafeAmountType, InputType
<1>5. Solvent(ledger, e)
  BY <1>2 DEF IsEarliest
\* Could the whole amount be paid today, it would be safe.
<1>6. e # 0
  <2> SUFFICES ASSUME e = 0 PROVE FALSE
    OBVIOUS
  <2>1. \A d \in Day : Once(0, in.amount)[d] = in.amount
    BY HorizonAssumption DEF Once, Day
  <2>2. \A d \in Day : ledger[d] - in.amount >= in.minimum
    BY <1>5, <2>1 DEF Solvent
  <2>3. lowest - in.amount >= in.minimum
    BY <2>2, LowestBounds
  <2> QED
    BY <2>3, <1>0, <1>2, <1>4, SafeAmountIsSafe
<1>7. plan = [d \in Day |-> IF d >= e THEN in.amount ELSE safe]
  BY <1>1, <1>3, <1>4, <1>6 DEF Twice
<1>8. c \in CandidateType
  <2>1. plan \in [Day -> Nat]
    BY <1>4, <1>7
  <2> QED
    BY <1>2, <1>3, <2>1, InputType DEF Candidate, CandidateType, Methods, IsPlanSafe
<1>9. /\ c.method = "partial_payment" /\ c.changes = changes /\ c.plan = plan
      /\ c.total = in.amount /\ c.onTime = (c.last <= in.deadline) /\ c.last = e
  BY <1>2 DEF Candidate
<1>10. ASSUME NEW d \in Day PROVE ledger[d] - plan[d] >= in.minimum
  <2>1. CASE d >= e
    BY <2>1, <1>5, <1>7 DEF Solvent, Once
  <2>2. CASE ~(d >= e)
    <3>1. lowest - safe >= in.minimum
      BY <1>0, <1>2, SafeAmountIsSafe
    <3>2. lowest <= ledger[d]
      BY LowestBounds
    <3> QED
      BY <2>2, <3>1, <3>2, <1>4, <1>7, InputType
  <2> QED
    BY <2>1, <2>2
<1>11. plan[Horizon] = in.amount
  BY <1>3, <1>7, ZeroIsADay
<1>12. \A d \in Day : Solvent(ledger, d) => e <= d
  BY <1>2, EarliestIsFirst
<1> QED
  BY <1>8, <1>9, <1>10, <1>11, <1>12 DEF Sound

-----------------------------------------------------------------------------
(* Type correctness *)

\* The invariant holds before the evaluation begins.
LEMMA InitInv == Init => IInv
<1> SUFFICES ASSUME Init PROVE IInv
  OBVIOUS
<1>1. in \in Input
  BY InputsAssumption DEF Init
<1>2. TypeOK
  <2>1. 0 \in 0..(Horizon + 1)
    BY HorizonAssumption
  <2> QED
    BY <1>1, <2>1, ZeroIsADay, NoPlanType DEF Init, TypeOK
<1>3. NetInv
  BY ZeroIsADay DEF Init, NetInv, NoPlan
<1> QED
  BY <1>2, <1>3 DEF Init, IInv, ScanInv, BuiltInv, BuiltOnce, CandidatesSound, DecisionSound,
                    DecisionTyped, LifeInv, SafeAmountIsLargest, BuyMeansNow,
                    NoMissedChance, CandidatesComplete

\* The combinations depend on the input only.
LEMMA CombosStay == in' = in => Combos' = Combos
BY DEF Combos, Eligible, Stops, Reduces, May

\* The affordability reported of a candidate is one of the four values.
LEMMA AffordabilityType ==
  ASSUME NEW c \in candidates, candidates \subseteq CandidateType
  PROVE  /\ Verdict(c) \in {"BUY", "SAFER_PAYMENT", "WAIT", "NOT_RECOMMENDED"}
         /\ Affordability(c) \in {"affordable_now", "affordable_later", "affordable_with_plan",
                                  "not_affordable"}
         /\ Announced(c) \subseteq Streams
BY DEF Verdict, Affordability, Announced, CandidateType

\* generate_candidates keeps the types.
LEMMA GenerateType ==
  ASSUME IInv, GenerateCandidates
  PROVE  /\ built' \subseteq BuiltLedger /\ candidates' \subseteq CandidateType
         /\ \E e \in Day \union {None} :
              /\ IsEarliest(ledger, e)
              /\ built' = built \union {[changes |-> changes, net |-> net, ledger |-> ledger,
                                         lowest |-> lowest, earliest |-> e]}
              /\ FullPayment(lowest) \union Wait(e) \subseteq candidates'
              /\ candidates \subseteq candidates'
              /\ \A c \in candidates' \ candidates :
                   c \in CandidateType /\ c.changes = changes /\ Sound(c, ledger, lowest)
<1> USE DEF IInv
<1>1. PICK e \in Day \union {None} :
        /\ IsEarliest(ledger, e)
        /\ candidates' = candidates \union FullPayment(lowest) \union Installments
                           \union PartialPayment(lowest, e) \union Wait(e)
        /\ built' = built \union {[changes |-> changes, net |-> net, ledger |-> ledger,
                                   lowest |-> lowest, earliest |-> e]}
  BY DEF GenerateCandidates
<1>2. /\ in \in Input /\ net \in [Day -> Int] /\ ledger \in [Day -> Int] /\ lowest \in Int
      /\ changes \subseteq Streams /\ net[0] = 0
  BY DEF TypeOK, NetInv
<1>3. Scanned(net, ledger, lowest, Horizon + 1)
  BY DEF GenerateCandidates, ScanInv
<1>4. \A c \in candidates' \ candidates :
        c \in CandidateType /\ c.changes = changes /\ Sound(c, ledger, lowest)
  BY <1>1, <1>2, <1>3, FullPaymentSound, InstallmentsSound, PartialPaymentSound, WaitSound
<1>5. [changes |-> changes, net |-> net, ledger |-> ledger, lowest |-> lowest, earliest |-> e]
        \in BuiltLedger
  BY <1>2 DEF BuiltLedger
<1> QED
  BY <1>1, <1>4, <1>5 DEF TypeOK

\* make_decision for a plan reports a decision of the right type.
LEMMA RecommendType ==
  ASSUME IInv, NEW c \in candidates, Recommend(c)
  PROVE  decision' \in Decision
<1> USE DEF IInv
<1>1. PICK base \in built, own \in built :
        /\ base.changes = {} /\ own.changes = c.changes
        /\ decision' =
             [method |-> c.method, verdict |-> Verdict(c), affordability |-> Affordability(c),
              plan |-> c.plan, last |-> c.last, total |-> c.total,
              planned |-> c.changes, announced |-> Announced(c),
              safe |-> SafeAmount(base.lowest),
              earliest |-> IF Affordability(c) = "affordable_now" THEN 0
                           ELSE IF base.earliest # None THEN base.earliest ELSE own.earliest]
  BY DEF Recommend
<1>2. /\ base.lowest \in Int /\ base.earliest \in Day \union {None}
      /\ own.earliest \in Day \union {None}
  BY DEF TypeOK, BuiltLedger
<1>3. SafeAmount(base.lowest) \in Nat
  BY <1>2, SafeAmountType DEF TypeOK
<1>4. /\ c.method \in Methods \union {"wait"} /\ c.changes \subseteq Streams
      /\ c.plan \in [Day -> Nat] /\ c.last \in Int /\ c.total \in Nat
  BY DEF TypeOK, CandidateType
<1>5. /\ Verdict(c) \in {"BUY", "SAFER_PAYMENT", "WAIT", "NOT_RECOMMENDED"}
      /\ Affordability(c) \in {"affordable_now", "affordable_later", "affordable_with_plan",
                               "not_affordable"}
      /\ Announced(c) \subseteq Streams
  BY AffordabilityType DEF TypeOK
<1> QED
  BY <1>1, <1>2, <1>3, <1>4, <1>5, ZeroIsADay DEF Decision

\* So does the fallback when no plan is feasible.
LEMMA AdviseType ==
  ASSUME IInv, Advise
  PROVE  decision' \in Decision
<1> USE DEF IInv
<1>1. PICK base \in built :
        decision' =
          [method |-> "not_recommended", verdict |-> "NOT_RECOMMENDED",
           affordability |-> "not_affordable", plan |-> NoPlan, last |-> 0, total |-> 0,
           planned |-> {}, announced |-> {},
           safe |-> SafeAmount(base.lowest), earliest |-> base.earliest]
  BY DEF Advise
<1>2. base.lowest \in Int /\ base.earliest \in Day \union {None}
  BY DEF TypeOK, BuiltLedger
<1>3. SafeAmount(base.lowest) \in Nat
  BY <1>2, SafeAmountType DEF TypeOK
<1> QED
  BY <1>1, <1>2, <1>3, NoPlanType DEF Decision

\* Every step keeps the types.
LEMMA TypeStep ==
  ASSUME IInv, [Next]_vars
  PROVE  TypeOK' /\ in' = in
<1> USE DEF IInv
<1>1. ASSUME NEW c \in Combos, StartLedger(c) PROVE TypeOK' /\ in' = in
  BY <1>1, InputType, CombosAreStreams, CombosStay DEF StartLedger, TypeOK, life
<1>2. ASSUME NEW s \in Streams, AddStream(s) PROVE TypeOK' /\ in' = in
  BY <1>2, DebitType, CombosStay DEF AddStream, TypeOK, life
<1>3. ASSUME OpenLedger PROVE TypeOK' /\ in' = in
  <2>1. 0 \in 0..(Horizon + 1)
    BY HorizonAssumption
  <2> QED
    BY <1>3, <2>1, InputType, NoPlanType, CombosStay DEF OpenLedger, TypeOK, life
<1>4. ASSUME CloseDay PROVE TypeOK' /\ in' = in
  <2>1. current \in Day /\ current + 1 \in 0..(Horizon + 1)
    BY <1>4, HorizonAssumption DEF CloseDay, TypeOK, Day
  <2>2. running + net[current] \in Int
    BY <2>1 DEF TypeOK
  <2> QED
    BY <1>4, <2>1, <2>2, CombosStay DEF CloseDay, TypeOK, Lesser, life
<1>5. ASSUME GenerateCandidates PROVE TypeOK' /\ in' = in
  <2>1. /\ in' = in /\ pc' = "combos" /\ todo' = todo \ {changes}
        /\ UNCHANGED <<changes, toAdd, net, current, running, ledger, lowest, decision, life>>
    BY <1>5 DEF GenerateCandidates
  <2> QED
    BY <1>5, <2>1, GenerateType, CombosStay DEF TypeOK, life
<1>6. ASSUME Fail PROVE TypeOK' /\ in' = in
  BY <1>6, CombosStay DEF Fail, TypeOK, engine, life
<1>7. ASSUME NEW c \in candidates, Recommend(c) PROVE TypeOK' /\ in' = in
  BY <1>7, RecommendType, CombosStay DEF Recommend, TypeOK, engine, life
<1>8. ASSUME Advise PROVE TypeOK' /\ in' = in
  BY <1>8, AdviseType, CombosStay DEF Advise, TypeOK, engine, life
<1>9. ASSUME NEW c \in Combos, Accept(c) PROVE TypeOK' /\ in' = in
  <2>1. decision \in Decision
    BY <1>9 DEF Accept, DecisionTyped
  <2>2. PICK b \in built :
          /\ forecast' = [cut |-> c, net |-> b.net]
          /\ balance' = in.starting + b.net[0] - decision.plan[0]
    BY <1>9 DEF Accept
  <2>3. /\ b.net \in [Day -> Int] /\ in.starting \in Int /\ decision.plan \in [Day -> Nat]
        /\ c \subseteq Streams
    BY <2>1, InputType, CombosAreStreams DEF TypeOK, BuiltLedger, Decision
  <2>4. balance' \in Int /\ forecast' \in [cut : SUBSET Streams, net : [Day -> Int]]
    BY <2>2, <2>3, ZeroIsADay
  <2> QED
    BY <1>9, <2>4, ZeroIsADay, CombosStay DEF Accept, TypeOK, engine
<1>10. ASSUME LiveDay PROVE TypeOK' /\ in' = in
  <2>1. decision \in Decision
    BY <1>10 DEF LiveDay, DecisionTyped
  <2>2. today + 1 \in Day
    <3>1. today \in Day /\ today < Horizon
      BY <1>10 DEF LiveDay, TypeOK
    <3> QED
      BY <3>1, HorizonAssumption DEF Day
  <2>3. /\ forecast.net[today + 1] \in Int
        /\ decision.plan[today + 1] \in Nat /\ decision.plan[today] \in Nat
    BY <2>1, <2>2 DEF Decision, TypeOK
  <2>4. balance' \in Int /\ today' \in Day
    BY <1>10, <2>2, <2>3 DEF LiveDay, TypeOK
  <2> QED
    BY <1>10, <2>4, CombosStay DEF LiveDay, TypeOK, engine
<1>11. ASSUME UNCHANGED vars PROVE TypeOK' /\ in' = in
  BY <1>11, CombosStay DEF TypeOK, vars, engine, life
<1> QED
  BY <1>1, <1>2, <1>3, <1>4, <1>5, <1>6, <1>7, <1>8, <1>9, <1>10, <1>11 DEF Next, Rest

-----------------------------------------------------------------------------
(* The invariant is inductive *)

\* What is known of the finished ledgers stays true while they and the input do.
LEMMA BuiltStays == UNCHANGED <<in, built>> /\ BuiltInv => BuiltInv'
BY DEF BuiltInv, Scanned, IsEarliest, Solvent, Once

\* What is known of the candidates stays true while nothing they depend on changes.
LEMMA CandidatesStay ==
  UNCHANGED <<in, built, candidates>> /\ CandidatesSound /\ CandidatesComplete =>
    CandidatesSound' /\ CandidatesComplete'
<1>1. UNCHANGED <<in, built, candidates>> /\ CandidatesSound => CandidatesSound'
  BY DEF CandidatesSound, Sound, SafeAmount, Lesser, Solvent, Once
<1>2. UNCHANGED <<in, built, candidates>> /\ CandidatesComplete => CandidatesComplete'
  BY DEF CandidatesComplete, Feasible, Solvent, Once
<1> QED
  BY <1>1, <1>2

\* Nothing is said of the decision before there is one.
LEMMA Undecided ==
  pc' \in {"combos", "maps", "scan", "failed"} =>
    /\ DecisionSound' /\ DecisionTyped' /\ LifeInv'
    /\ SafeAmountIsLargest' /\ NoMissedChance' /\ BuyMeansNow'
BY DEF DecisionSound, DecisionTyped, LifeInv, SafeAmountIsLargest, NoMissedChance, BuyMeansNow

\* One day of build_ledger extends what is known of the ledger by that day.
LEMMA CloseDayScans ==
  ASSUME IInv, CloseDay
  PROVE  ScanInv'
<1> USE DEF IInv
<1>1. /\ in \in Input /\ in.starting \in Int /\ running \in Int /\ lowest \in Int
      /\ net \in [Day -> Int] /\ ledger \in [Day -> Int] /\ current \in Day
  <2>1. in \in Input /\ in.starting \in Int
    BY InputType DEF TypeOK
  <2>2. current \in Day
    BY HorizonAssumption DEF CloseDay, TypeOK, Day
  <2> QED
    BY <2>1, <2>2 DEF TypeOK
<1>2. PICK closing \in Int : closing = running + net[current]
  BY <1>1
<1>3. /\ ledger' = [ledger EXCEPT ![current] = closing]
      /\ lowest' = Lesser(lowest, closing) /\ running' = closing
      /\ current' = current + 1 /\ in' = in /\ net' = net
  BY <1>2 DEF CloseDay
<1>4. /\ Scanned(net, ledger, lowest, current)
      /\ running = IF current = 0 THEN in.starting ELSE ledger[current - 1]
  BY DEF CloseDay, ScanInv
<1>5. current \in Int /\ 0 <= current /\ \A d \in Day : d \in Int /\ 0 <= d
  BY <1>1, HorizonAssumption DEF Day
<1>6. ledger'[current] = closing /\ \A d \in Day : d # current => ledger'[d] = ledger[d]
  BY <1>1, <1>3
<1>7. lowest' <= lowest /\ lowest' <= closing /\ (lowest' = lowest \/ lowest' = closing)
  BY <1>1, <1>2, <1>3 DEF Lesser
<1>8. lowest' <= in.starting
  BY <1>1, <1>2, <1>3, <1>4, <1>7 DEF Scanned, Lesser
<1>9. lowest' = in.starting \/ \E d \in Day : d < current + 1 /\ lowest' = ledger'[d]
  <2>1. CASE lowest' = closing
    BY <2>1, <1>1, <1>5, <1>6
  <2>2. CASE lowest' = lowest /\ lowest # in.starting
    <3>1. PICK d \in Day : d < current /\ lowest = ledger[d]
      BY <2>2, <1>4 DEF Scanned
    <3>2. d < current + 1 /\ d # current
      BY <3>1, <1>5
    <3> QED
      BY <2>2, <3>1, <3>2, <1>6
  <2> QED
    BY <2>1, <2>2, <1>7
<1>10. ASSUME NEW d \in Day, d < current + 1
       PROVE  /\ lowest' <= ledger'[d]
              /\ ledger'[d] = net[d] + (IF d = 0 THEN in.starting ELSE ledger'[d - 1])
  <2>0. d # 0 => d - 1 \in Day /\ d - 1 # current /\ ledger'[d - 1] = ledger[d - 1]
    BY <1>5, <1>6, <1>10, HorizonAssumption DEF Day
  <2>1. CASE d = current
    <3>1. closing = net[d] + (IF d = 0 THEN in.starting ELSE ledger[d - 1])
      BY <2>1, <1>1, <1>2, <1>4
    <3> QED
      BY <2>0, <2>1, <3>1, <1>6, <1>7
  <2>2. CASE d # current
    <3>1. d < current
      BY <2>2, <1>5, <1>10
    <3>2. /\ lowest <= ledger[d]
          /\ ledger[d] = net[d] + (IF d = 0 THEN in.starting ELSE ledger[d - 1])
      BY <3>1, <1>4 DEF Scanned
    <3>3. lowest' <= ledger[d]
      BY <3>2, <1>1, <1>2, <1>3 DEF Lesser
    <3> QED
      BY <2>0, <2>2, <3>2, <3>3, <1>6
  <2> QED
    BY <2>1, <2>2
<1>11. Scanned(net, ledger', lowest', current + 1)
  BY <1>8, <1>9, <1>10 DEF Scanned
<1>12. running' = IF current' = 0 THEN in'.starting ELSE ledger'[current' - 1]
  BY <1>3, <1>5, <1>6
<1> QED
  BY <1>3, <1>11, <1>12 DEF ScanInv, Scanned

\* What generate_candidates files as finished is a finished ledger.
LEMMA GenerateBuilds ==
  ASSUME IInv, GenerateCandidates
  PROVE  BuiltInv' /\ BuiltOnce' /\ CandidatesSound'
<1> USE DEF IInv
<1>1. PICK e \in Day \union {None} :
        /\ IsEarliest(ledger, e)
        /\ built' = built \union {[changes |-> changes, net |-> net, ledger |-> ledger,
                                   lowest |-> lowest, earliest |-> e]}
        /\ \A c \in candidates' \ candidates :
             c \in CandidateType /\ c.changes = changes /\ Sound(c, ledger, lowest)
  BY GenerateType
<1>2. PICK new : new = [changes |-> changes, net |-> net, ledger |-> ledger,
                        lowest |-> lowest, earliest |-> e]
  OBVIOUS
<1>3. /\ built' = built \union {new} /\ in' = in
      /\ todo' = todo \ {changes} /\ pc' = "combos" /\ changes \in todo
  BY <1>1, <1>2 DEF GenerateCandidates, BuiltOnce
<1>4. /\ new.changes = changes /\ new.net = net /\ new.ledger = ledger
      /\ new.lowest = lowest /\ new.earliest = e
  BY <1>2
<1>5. Scanned(net, ledger, lowest, Horizon + 1) /\ net[0] = 0
  BY DEF GenerateCandidates, ScanInv, NetInv
<1>6. \A b \in built' : /\ Scanned(b.net, b.ledger, b.lowest, Horizon + 1)
                        /\ b.net[0] = 0
                        /\ IsEarliest(b.ledger, b.earliest)
  BY <1>1, <1>3, <1>4, <1>5 DEF BuiltInv
<1>7. BuiltInv'
  BY <1>3, <1>6 DEF BuiltInv, Scanned, IsEarliest, Solvent, Once
<1>8. BuiltOnce'
  BY <1>3, <1>4 DEF BuiltOnce
<1>9. \A c \in candidates' : \E b \in built' :
        b.changes = c.changes /\ Sound(c, b.ledger, b.lowest)
  BY <1>1, <1>3, <1>4 DEF CandidatesSound
<1>10. CandidatesSound'
  BY <1>3, <1>9, SMTT(30) DEF CandidatesSound, Sound, SafeAmount, Lesser, Solvent, Once
<1> QED
  BY <1>7, <1>8, <1>10

\* The earliest date of a full payment makes one feasible, today or after a wait.
LEMMA EarliestIsCandidate ==
  ASSUME IInv, Scanned(net, ledger, lowest, Horizon + 1), "full_payment" \in in.methods,
         NEW e \in Day \union {None}, IsEarliest(ledger, e),
         NEW d \in Day, d <= in.deadline, Solvent(ledger, d)
  PROVE  \E c \in FullPayment(lowest) \union Wait(e) :
           /\ c.feasible /\ c.changes = changes /\ c.onTime /\ c.total = in.amount
           /\ c.first <= d
<1> USE DEF IInv
<1>1. /\ in \in Input /\ net \in [Day -> Int] /\ net[0] = 0
      /\ ledger \in [Day -> Int] /\ lowest \in Int
  BY DEF TypeOK, NetInv
<1>2. /\ in.amount \in Nat /\ in.minimum \in Nat /\ in.deadline \in Nat
      /\ Epsilon \in Nat /\ in.starting \in Int
  BY <1>1, InputType, HorizonAssumption
<1>3. e \in Day /\ e \in Int /\ 0 <= e /\ e <= d /\ e <= in.deadline /\ Solvent(ledger, e)
  <2>1. e # None
    BY DEF IsEarliest
  <2>2. e \in Day /\ Solvent(ledger, e) /\ ~(d < e)
    BY <2>1 DEF IsEarliest
  <2> QED
    BY <2>2, <1>2, HorizonAssumption DEF Day
<1>4. \A x \in Day : ledger[x] - Once(e, in.amount)[x] >= in.minimum
  BY <1>3 DEF Solvent
<1>5. \A x \in Day : Once(e, in.amount)[x] \in Nat
  BY <1>1, <1>3, OnceType
<1>6. IsPlanSafe(ledger, Once(e, in.amount), e)
  BY <1>1, <1>2, <1>4, <1>5 DEF IsPlanSafe
<1>7. CASE e = 0
  <2>1. \A x \in Day : Once(e, in.amount)[x] = in.amount
    BY <1>7, HorizonAssumption DEF Once, Day
  <2>2. lowest - in.amount >= in.minimum
    BY <1>1, <1>4, <2>1, LowestBounds
  <2>3. SafeAmount(lowest) >= in.amount
    BY <1>1, <1>2, <2>2, SafeAmountIsSafe
  <2>4. PICK c : c = Candidate("full_payment", Once(0, in.amount), 0, 0, 1, in.amount, TRUE)
    OBVIOUS
  <2>5. c \in FullPayment(lowest)
    BY <1>6, <1>7, <2>3, <2>4 DEF FullPayment
  <2>6. /\ c.feasible = TRUE /\ c.changes = changes /\ c.total = in.amount
        /\ c.onTime = (0 <= in.deadline) /\ c.first = 0
    BY <2>4 DEF Candidate
  <2>7. 0 <= in.deadline /\ 0 <= d
    BY <1>2, <1>3, <1>7
  <2> QED
    BY <2>5, <2>6, <2>7
<1>8. CASE e # 0
  <2>1. PICK c : c = Candidate("wait", Once(e, in.amount), e, e, 1, in.amount, TRUE)
    OBVIOUS
  <2>2. c \in Wait(e)
    <3>1. e # None /\ 0 < e
      BY <1>3, <1>8, NoneAssumption
    <3> QED
      BY <1>3, <1>6, <2>1, <3>1 DEF Wait
  <2>3. /\ c.feasible = TRUE /\ c.changes = changes /\ c.total = in.amount
        /\ c.onTime = (e <= in.deadline) /\ c.first = e
    BY <2>1 DEF Candidate
  <2> QED
    BY <1>3, <2>2, <2>3
<1> QED
  BY <1>7, <1>8

\* Whenever the full amount can be paid in time a candidate for it is made.
LEMMA GenerateCompletes ==
  ASSUME IInv, GenerateCandidates
  PROVE  CandidatesComplete'
<1> USE DEF IInv
<1>1. PICK e \in Day \union {None} :
        /\ IsEarliest(ledger, e)
        /\ built' = built \union {[changes |-> changes, net |-> net, ledger |-> ledger,
                                   lowest |-> lowest, earliest |-> e]}
        /\ FullPayment(lowest) \union Wait(e) \subseteq candidates'
        /\ candidates \subseteq candidates'
  BY GenerateType
<1>2. in' = in /\ Scanned(net, ledger, lowest, Horizon + 1)
  BY DEF GenerateCandidates, ScanInv
<1>3. ASSUME "full_payment" \in in.methods, NEW b \in built', NEW d \in Day,
             d <= in.deadline, Solvent(b.ledger, d)
      PROVE  \E c \in candidates' :
               /\ c.feasible /\ c.changes = b.changes /\ c.onTime /\ c.total = in.amount
               /\ c.first <= d
  <2>1. CASE b \in built
    BY <1>1, <1>3, <2>1 DEF CandidatesComplete, Feasible
  <2>2. CASE b \notin built
    <3>1. b.changes = changes /\ b.ledger = ledger
      BY <1>1, <2>2
    <3> QED
      BY <1>1, <1>2, <1>3, <3>1, EarliestIsCandidate
  <2> QED
    BY <2>1, <2>2
<1> QED
  BY <1>2, <1>3 DEF CandidatesComplete, Feasible, Solvent, Once

\* The best candidate is in time if another is, and needs no changes if that needs
\* none; if it needs changes only where the other does, it is no dearer, and at the
\* same price it begins no later.
LEMMA BestIsNoWorse ==
  ASSUME NEW c \in CandidateType, NEW d \in CandidateType, d \in Feasible, Best(c), d.onTime
  PROVE  /\ c.onTime
         /\ d.changes = {} => c.changes = {}
         /\ d.changes = {} \/ c.changes # {} =>
              c.total <= d.total /\ (c.total = d.total => c.first <= d.first)
<1>0. /\ c.total \in Nat /\ d.total \in Nat /\ c.first \in Int /\ d.first \in Int
      /\ c.onTime \in BOOLEAN
  BY DEF CandidateType
<1>1. PICK k : k = RankKey(c)
  OBVIOUS
<1>2. PICK l : l = RankKey(d)
  OBVIOUS
<1>3. /\ DOMAIN l = 1..5 /\ l[1] = 0 /\ l[2] = Flag(d.changes = {}) /\ l[3] = d.total
      /\ l[4] = d.first
  BY <1>2 DEF RankKey, Flag
<1>4. k[1] = Flag(c.onTime) /\ k[2] = Flag(c.changes = {}) /\ k[3] = c.total /\ k[4] = c.first
  BY <1>1 DEF RankKey
<1>5. \A i \in 1..5 : ~(l[i] < k[i] /\ \A j \in 1..(i - 1) : l[j] = k[j])
  BY <1>1, <1>2, <1>3 DEF Best, Precedes
<1>6. k[1] = 0
  <2>1. ~(0 < k[1])
    BY <1>3, <1>5
  <2> QED
    BY <1>4, <2>1 DEF Flag
<1>7. ~(l[2] < k[2])
  <2>1. \A j \in 1..(2 - 1) : j = 1
    OBVIOUS
  <2> QED
    BY <1>3, <1>5, <1>6, <2>1
<1>8. d.changes = {} => c.changes = {}
  BY <1>3, <1>4, <1>7 DEF Flag
<1>9. ASSUME d.changes = {} \/ c.changes # {}
      PROVE  c.total <= d.total /\ (c.total = d.total => c.first <= d.first)
  <2>1. k[2] = l[2]
    BY <1>3, <1>4, <1>7, <1>8, <1>9 DEF Flag
  <2>2. ~(d.total < c.total)
    <3>1. \A j \in 1..(3 - 1) : j = 1 \/ j = 2
      OBVIOUS
    <3> QED
      BY <1>3, <1>4, <1>5, <1>6, <2>1, <3>1
  <2>3. c.total = d.total => ~(d.first < c.first)
    <3>1. \A j \in 1..(4 - 1) : j = 1 \/ j = 2 \/ j = 3
      OBVIOUS
    <3> QED
      BY <1>3, <1>4, <1>5, <1>6, <2>1, <3>1
  <2> QED
    BY <1>0, <2>2, <2>3
<1>10. c.onTime
  BY <1>4, <1>6 DEF Flag
<1> QED
  BY <1>8, <1>9, <1>10

\* The amount reported is the largest that can be paid in the baseline.
LEMMA ReportedAmountIsLargest ==
  ASSUME IInv, NEW base \in built, base.changes = {}, UNCHANGED <<in, built>>,
         decision'.safe = SafeAmount(base.lowest)
  PROVE  SafeAmountIsLargest'
<1> USE DEF IInv
<1>1. /\ in \in Input /\ base.net \in [Day -> Int] /\ base.ledger \in [Day -> Int]
      /\ base.lowest \in Int /\ base.net[0] = 0
      /\ Scanned(base.net, base.ledger, base.lowest, Horizon + 1)
  BY DEF TypeOK, BuiltLedger, BuiltInv
<1>2. PICK safe \in Nat : safe = SafeAmount(base.lowest) /\ safe <= in.amount
  BY <1>1, SafeAmountType
<1>3. /\ base.lowest <= in.starting
      /\ \A d \in Day : base.lowest <= base.ledger[d]
      /\ \E d \in Day : base.lowest = base.ledger[d]
  BY <1>1, LowestBounds
<1>4. /\ safe > 0 => base.lowest - safe >= in.minimum
      /\ safe < in.amount => base.lowest - (safe + 1) < in.minimum
  BY <1>1, <1>2, SafeAmountIsSafe
<1>5. in.starting \in Int /\ in.minimum \in Nat
  BY <1>1, InputType
<1>6. safe > 0 => /\ in.starting - safe >= in.minimum
                  /\ \A d \in Day : base.ledger[d] - safe >= in.minimum
  BY <1>1, <1>3, <1>4, <1>5
<1>7. safe < in.amount => ~(\A d \in Day : base.ledger[d] - (safe + 1) >= in.minimum)
  <2> SUFFICES ASSUME safe < in.amount,
                      \A d \in Day : base.ledger[d] - (safe + 1) >= in.minimum
               PROVE  FALSE
    OBVIOUS
  <2>1. base.lowest - (safe + 1) >= in.minimum
    BY <1>3
  <2> QED
    BY <2>1, <1>1, <1>4, <1>5
<1>8. decision'.safe = safe /\ in' = in /\ base \in built'
  BY <1>2
<1> QED
  BY <1>2, <1>6, <1>7, <1>8 DEF SafeAmountIsLargest

\* The decision reported inherits what is known of the best candidate.
LEMMA RecommendDecides ==
  ASSUME IInv, NEW c \in candidates, Recommend(c)
  PROVE  DecisionSound' /\ SafeAmountIsLargest' /\ NoMissedChance' /\ BuyMeansNow'
<1> USE DEF IInv
<1>1. PICK base \in built, own \in built :
        /\ base.changes = {} /\ own.changes = c.changes
        /\ decision' =
             [method |-> c.method, verdict |-> Verdict(c), affordability |-> Affordability(c),
              plan |-> c.plan, last |-> c.last, total |-> c.total,
              planned |-> c.changes, announced |-> Announced(c),
              safe |-> SafeAmount(base.lowest),
              earliest |-> IF Affordability(c) = "affordable_now" THEN 0
                           ELSE IF base.earliest # None THEN base.earliest ELSE own.earliest]
  BY DEF Recommend
<1>2. /\ UNCHANGED <<in, built, candidates>> /\ c.feasible /\ pc' = "decided"
  BY DEF Recommend, Best, Feasible, engine
<1>3. DecisionSound'
  <2>1. /\ decision'.method = c.method /\ decision'.plan = c.plan
        /\ decision'.planned = c.changes /\ decision'.last = c.last
    BY <1>1
  <2> QED
    BY <1>2, <2>1 DEF DecisionSound
<1>4. SafeAmountIsLargest'
  <2>1. decision'.safe = SafeAmount(base.lowest)
    BY <1>1
  <2> QED
    BY <1>1, <1>2, <2>1, ReportedAmountIsLargest
<1>5. BuyMeansNow'
  <2> SUFFICES ASSUME decision'.verdict = "BUY"
               PROVE  /\ decision'.safe = in.amount /\ decision'.earliest = 0
                      /\ decision'.announced = {} /\ decision'.plan = Once(0, in.amount)
    BY <1>2 DEF BuyMeansNow, Once
  <2>1. Verdict(c) = "BUY"
    BY <1>1
  <2>2. c.method = "full_payment" /\ c.changes = {}
    BY <2>1 DEF Verdict
  <2>3. Affordability(c) = "affordable_now" /\ Announced(c) = {}
    BY <2>2 DEF Affordability, Announced
  <2>4. PICK b \in built : b.changes = {} /\ Sound(c, b.ledger, b.lowest)
    BY <2>2 DEF CandidatesSound
  <2>5. b = base
    BY <1>1, <2>4 DEF BuiltOnce
  <2>6. c.plan = Once(0, in.amount) /\ SafeAmount(base.lowest) = in.amount
    BY <1>2, <2>2, <2>4, <2>5 DEF Sound
  <2> QED
    BY <1>1, <2>3, <2>6
<1>6. NoMissedChance'
  <2> SUFFICES ASSUME "full_payment" \in in.methods, NEW b \in built, NEW d \in Day,
                      d <= in.deadline, Solvent(b.ledger, d)
               PROVE  /\ decision'.method # "not_recommended" /\ decision'.last <= in.deadline
                      /\ b.changes = {} \/ decision'.planned # {} =>
                           /\ decision'.total <= in.amount
                           /\ decision'.method = "wait" => decision'.last <= d
                      /\ b.changes = {} =>
                           /\ decision'.planned = {}
                           /\ decision'.method = "partial_payment" => decision'.last <= d
    BY <1>2 DEF NoMissedChance, Solvent, Once
  <2>1. c \in CandidateType /\ c.method # "not_recommended" /\ in.amount \in Nat /\ d \in Int
    <3>1. in.amount \in Nat /\ d \in Int
      BY InputType, HorizonAssumption DEF TypeOK, Day
    <3> QED
      BY <3>1 DEF TypeOK, CandidateType, Methods
  <2>2. PICK x \in Feasible :
          x.changes = b.changes /\ x.onTime /\ x.total = in.amount /\ x.first <= d
    BY DEF CandidatesComplete
  <2>3. x \in CandidateType
    BY DEF Feasible, TypeOK
  <2>4. /\ c.onTime
        /\ b.changes = {} => c.changes = {}
        /\ b.changes = {} \/ c.changes # {} =>
             c.total <= in.amount /\ (c.total = in.amount => c.first <= x.first)
    BY <2>1, <2>2, <2>3, BestIsNoWorse DEF Recommend
  <2>5. PICK a \in built : a.changes = c.changes /\ Sound(c, a.ledger, a.lowest)
    BY DEF CandidatesSound
  <2>6. c.last <= in.deadline
    BY <2>4, <2>5 DEF Sound
  <2>7. ASSUME b.changes = {} \/ c.changes # {}, c.method = "wait" PROVE c.last <= d
    <3>1. c.total = in.amount /\ c.first = c.last
      BY <2>5, <2>7 DEF Sound
    <3>2. c.first \in Int /\ x.first \in Int
      BY <2>1, <2>3 DEF CandidateType
    <3> QED
      BY <2>1, <2>2, <2>4, <2>7, <3>1, <3>2
  <2>8. ASSUME b.changes = {}, c.method = "partial_payment" PROVE c.last <= d
    <3>1. a = b
      BY <2>4, <2>5, <2>8 DEF BuiltOnce
    <3> QED
      BY <2>5, <2>8, <3>1 DEF Sound
  <2>9. /\ decision'.method = c.method /\ decision'.last = c.last
        /\ decision'.planned = c.changes /\ decision'.total = c.total
    BY <1>1
  <2> QED
    BY <2>1, <2>4, <2>6, <2>7, <2>8, <2>9
<1> QED
  BY <1>3, <1>4, <1>5, <1>6

\* A life begins on the ledger of the changes the user makes.
LEMMA AcceptLives ==
  ASSUME IInv, NEW c \in Combos, Accept(c)
  PROVE  LifeInv'
<1> USE DEF IInv
<1>1. PICK b \in built :
        /\ b.changes = c /\ forecast' = [cut |-> c, net |-> b.net]
        /\ balance' = in.starting + b.net[0] - decision.plan[0]
  BY DEF Accept
<1>2. /\ in \in Input /\ b.net \in [Day -> Int] /\ b.ledger \in [Day -> Int]
      /\ b.lowest \in Int /\ b.net[0] = 0 /\ Scanned(b.net, b.ledger, b.lowest, Horizon + 1)
  BY DEF TypeOK, BuiltLedger, BuiltInv
<1>3. b.ledger[0] = in.starting /\ in.starting \in Int
  BY <1>2, LowestBounds, InputType
<1>4. decision.plan[0] \in Nat
  BY ZeroIsADay DEF Accept, DecisionTyped, Decision
<1>5. balance' = b.ledger[0] - decision.plan[0]
  BY <1>1, <1>2, <1>3, <1>4
<1>6. /\ built' = built /\ decision' = decision /\ today' = 0
      /\ b.changes = forecast'.cut /\ b.net = forecast'.net
  BY <1>1 DEF Accept, engine
<1> QED
  BY <1>5, <1>6 DEF LifeInv

\* One day of life follows that ledger, less what the plan has paid.
LEMMA LiveDayLives ==
  ASSUME IInv, LiveDay
  PROVE  LifeInv'
<1> USE DEF IInv
<1>1. PICK b \in built :
        /\ b.changes = forecast.cut /\ b.net = forecast.net
        /\ balance = b.ledger[today] - decision.plan[today]
  BY DEF LiveDay, LifeInv
<1>2. PICK t \in Day : t = today + 1 /\ t # 0 /\ t - 1 = today /\ t < Horizon + 1
  BY HorizonAssumption DEF LiveDay, TypeOK, Day
<1>3. b.net \in [Day -> Int] /\ b.ledger \in [Day -> Int] /\ today \in Day
  BY DEF TypeOK, BuiltLedger
<1>4. b.ledger[t] = b.net[t] + b.ledger[today]
  BY <1>2 DEF BuiltInv, Scanned
<1>5. decision.plan[t] \in Nat /\ decision.plan[today] \in Nat
  BY <1>3 DEF LiveDay, DecisionTyped, Decision
<1>6. balance' = balance + b.net[t] - (decision.plan[t] - decision.plan[today])
  BY <1>1, <1>2 DEF LiveDay
<1>7. balance' = b.ledger[t] - decision.plan[t]
  BY <1>1, <1>3, <1>4, <1>5, <1>6
<1>8. built' = built /\ decision' = decision /\ today' = t /\ forecast' = forecast
  BY <1>2 DEF LiveDay, engine
<1> QED
  BY <1>1, <1>7, <1>8 DEF LifeInv

\* The invariant is inductive: no step of the engine or of the life breaks it.
LEMMA InvStep == IInv /\ [Next]_vars => IInv'
<1> SUFFICES ASSUME IInv, [Next]_vars PROVE IInv'
  OBVIOUS
<1> USE DEF IInv
<1>0. TypeOK' /\ in' = in
  BY TypeStep
<1>1. ASSUME NEW c \in Combos, StartLedger(c) PROVE IInv'
  <2>1. NetInv'
    BY <1>1, InputType DEF StartLedger, NetInv, TypeOK
  <2>2. ScanInv' /\ BuiltOnce'
    BY <1>1 DEF StartLedger, ScanInv, BuiltOnce
  <2> QED
    BY <1>0, <1>1, <2>1, <2>2, BuiltStays, CandidatesStay, Undecided DEF StartLedger
<1>2. ASSUME NEW s \in Streams, AddStream(s) PROVE IInv'
  <2>1. NetInv'
    BY <1>2, DebitType, ZeroIsADay DEF AddStream, NetInv, TypeOK
  <2>2. ScanInv' /\ BuiltOnce'
    BY <1>2 DEF AddStream, ScanInv, BuiltOnce
  <2> QED
    BY <1>0, <1>2, <2>1, <2>2, BuiltStays, CandidatesStay, Undecided DEF AddStream
<1>3. ASSUME OpenLedger PROVE IInv'
  <2>1. \A d \in Day : ~(d < 0)
    BY HorizonAssumption DEF Day
  <2>2. Scanned(net, NoPlan, in.starting, 0)
    BY <2>1, InputType DEF Scanned, TypeOK
  <2>3. ScanInv'
    BY <1>3, <2>2 DEF OpenLedger, ScanInv, Scanned
  <2>4. NetInv' /\ BuiltOnce'
    BY <1>3 DEF OpenLedger, NetInv, BuiltOnce
  <2> QED
    BY <1>0, <1>3, <2>3, <2>4, BuiltStays, CandidatesStay, Undecided DEF OpenLedger
<1>4. ASSUME CloseDay PROVE IInv'
  <2>1. NetInv' /\ BuiltOnce'
    BY <1>4 DEF CloseDay, NetInv, BuiltOnce
  <2>2. pc' = "scan" /\ UNCHANGED <<in, built, candidates>>
    BY <1>4 DEF CloseDay
  <2> QED
    BY <1>0, <1>4, <2>1, <2>2, CloseDayScans, BuiltStays, CandidatesStay, Undecided
<1>5. ASSUME GenerateCandidates PROVE IInv'
  <2>1. pc' = "combos" /\ net' = net
    BY <1>5 DEF GenerateCandidates
  <2> QED
    BY <1>0, <1>5, <2>1, GenerateBuilds, GenerateCompletes, Undecided DEF ScanInv, NetInv
<1>6. ASSUME Fail PROVE IInv'
  <2>1. pc' = "failed" /\ UNCHANGED <<in, net, built, candidates, todo>>
    BY <1>6 DEF Fail, engine
  <2> QED
    BY <1>0, <2>1, BuiltStays, CandidatesStay, Undecided DEF ScanInv, NetInv, BuiltOnce
<1>7. ASSUME NEW c \in candidates, Recommend(c) PROVE IInv'
  <2>1. pc' = "decided" /\ UNCHANGED <<in, net, built, candidates, todo>>
    BY <1>7 DEF Recommend, engine
  <2>2. DecisionTyped' /\ LifeInv'
    BY <1>7, <2>1, RecommendType DEF DecisionTyped, Decision, LifeInv
  <2> QED
    BY <1>0, <1>7, <2>1, <2>2, RecommendDecides, BuiltStays, CandidatesStay
       DEF ScanInv, NetInv, BuiltOnce
<1>8. ASSUME Advise PROVE IInv'
  <2>1. pc' = "done" /\ UNCHANGED <<in, net, built, candidates, todo>>
    BY <1>8 DEF Advise, engine
  <2>2. SafeAmountIsLargest'
    <3>1. PICK base \in built :
            base.changes = {} /\ decision'.safe = SafeAmount(base.lowest)
      BY <1>8 DEF Advise
    <3> QED
      BY <2>1, <3>1, ReportedAmountIsLargest
  <2>3. NoMissedChance'
    BY <1>8, <2>1 DEF Advise, CandidatesComplete, NoMissedChance, Solvent, Once
  <2>4. DecisionTyped' /\ DecisionSound' /\ LifeInv' /\ BuyMeansNow'
    BY <1>8, <2>1, AdviseType DEF DecisionTyped, Decision, DecisionSound, LifeInv, BuyMeansNow
  <2> QED
    BY <1>0, <2>1, <2>2, <2>3, <2>4, BuiltStays, CandidatesStay DEF ScanInv, NetInv, BuiltOnce
<1>9. ASSUME NEW c \in Combos, Accept(c) PROVE IInv'
  <2>1. /\ pc' = "living" /\ pc = "decided"
        /\ UNCHANGED <<in, net, built, candidates, todo, decision>>
    BY <1>9 DEF Accept, engine
  <2>2. /\ DecisionTyped' /\ DecisionSound' /\ BuyMeansNow' /\ SafeAmountIsLargest'
      /\ NoMissedChance'
    BY <2>1 DEF DecisionTyped, Decision, DecisionSound, BuyMeansNow, SafeAmountIsLargest,
                  NoMissedChance
  <2> QED
    BY <1>0, <1>9, <2>1, <2>2, AcceptLives, BuiltStays, CandidatesStay
       DEF ScanInv, NetInv, BuiltOnce
<1>10. ASSUME LiveDay PROVE IInv'
  <2>1. /\ pc' = "living" /\ pc = "living"
        /\ UNCHANGED <<in, net, built, candidates, todo, decision>>
    BY <1>10 DEF LiveDay, engine
  <2>2. /\ DecisionTyped' /\ DecisionSound' /\ BuyMeansNow' /\ SafeAmountIsLargest'
      /\ NoMissedChance'
    BY <2>1 DEF DecisionTyped, Decision, DecisionSound, BuyMeansNow, SafeAmountIsLargest,
                  NoMissedChance
  <2> QED
    BY <1>0, <1>10, <2>1, <2>2, LiveDayLives, BuiltStays, CandidatesStay
       DEF ScanInv, NetInv, BuiltOnce
<1>11. ASSUME UNCHANGED vars PROVE IInv'
  <2>1. ScanInv' /\ NetInv' /\ BuiltOnce' /\ DecisionSound' /\ DecisionTyped' /\ LifeInv'
    BY <1>11 DEF vars, engine, life, ScanInv, Scanned, NetInv, BuiltOnce, DecisionSound,
                 DecisionTyped, Decision, LifeInv
  <2>2. SafeAmountIsLargest' /\ NoMissedChance' /\ BuyMeansNow'
    BY <1>11 DEF vars, engine, life, SafeAmountIsLargest, NoMissedChance, Solvent, BuyMeansNow, Once
  <2> QED
    BY <1>0, <1>11, <2>1, <2>2, BuiltStays, CandidatesStay DEF vars, engine
<1> QED
  BY <1>1, <1>2, <1>3, <1>4, <1>5, <1>6, <1>7, <1>8, <1>9, <1>10, <1>11 DEF Next, Rest

\* The inductive invariant holds throughout an evaluation and the life after it.
THEOREM InvHolds == Spec => []IInv
<1>1. Init => IInv
  BY InitInv
<1>2. IInv /\ [Next]_vars => IInv'
  BY InvStep
<1> QED
  BY <1>1, <1>2, PTL DEF Spec

-----------------------------------------------------------------------------
(* What the engine promises *)

\* Every variable of the engine keeps its type.
THEOREM TypeCorrect == Spec => []TypeOK
BY InvHolds, PTL DEF IInv

\* The amount reported as safe is the largest that keeps the floor
\* (compute_safe_amount, make_decision).
THEOREM SafeAmountAlwaysLargest == Spec => []SafeAmountIsLargest
BY InvHolds, PTL DEF IInv

\* No purchase that could be paid in full in time is turned down or paid for late;
\* a wait does not go past such a day unless it saves spending changes, and if the
\* full amount could be paid so as things are, the decision costs no more, asks for
\* no changes and is not put off further (generate_candidates, _rank_key).
THEOREM NoChanceEverMissed == Spec => []NoMissedChance
BY InvHolds, PTL DEF IInv

\* BUY is said of a full payment today, unconditionally, and nothing else
\* reported contradicts it (_derive_verdict, make_decision).
THEOREM BuyAlwaysMeansNow == Spec => []BuyMeansNow
BY InvHolds, PTL DEF IInv

\* The plans the engine makes itself pay the requested amount, neither more nor
\* less, whatever the safe amount (generate_candidates).
THEOREM PlansAlwaysPayInFull == Spec => []PlansPayInFull
<1>1. IInv => PlansPayInFull
  BY DEF IInv, CandidatesSound, Sound, PlansPayInFull
<1> QED
  BY <1>1, InvHolds, PTL

\* The life of who makes the planned changes is on the ledger the plan was checked on.
LEMMA LifeFollowsPlan ==
  ASSUME IInv, pc = "living", forecast.cut = decision.planned
  PROVE  \E c \in candidates, b \in built :
           /\ c.feasible /\ Sound(c, b.ledger, b.lowest)
           /\ decision.method = c.method /\ decision.last = c.last
           /\ balance = b.ledger[today] - c.plan[today]
<1> USE DEF IInv
<1>1. PICK c \in candidates :
        /\ c.feasible /\ decision.method = c.method /\ decision.plan = c.plan
        /\ decision.planned = c.changes /\ decision.last = c.last
  BY DEF DecisionSound
<1>2. PICK a \in built : a.changes = c.changes /\ Sound(c, a.ledger, a.lowest)
  BY DEF CandidatesSound
<1>3. PICK b \in built :
        b.changes = forecast.cut /\ balance = b.ledger[today] - decision.plan[today]
  BY DEF LifeInv
<1>4. a = b
  BY <1>1, <1>2, <1>3 DEF BuiltOnce
<1> QED
  BY <1>1, <1>2, <1>3, <1>4

\* Who follows a recommendation to pay in full, in two parts or later, and makes
\* the changes it was computed with, keeps the minimum balance for the whole
\* horizon (is_plan_safe, find_earliest_full_payment_date).
THEOREM PlansAlwaysKeepTheFloor == Spec => []PlansKeepTheFloor
<1>1. IInv => PlansKeepTheFloor
  <2> SUFFICES ASSUME IInv, pc = "living", forecast.cut = decision.planned,
                      decision.method # "installments"
               PROVE  balance >= in.minimum
    BY DEF PlansKeepTheFloor
  <2>1. today \in Day
    BY DEF IInv, TypeOK
  <2> QED
    BY <2>1, LifeFollowsPlan DEF Sound
<1> QED
  BY <1>1, InvHolds, PTL

\* Installments keep it, within the tolerance, up to the last of them.
THEOREM InstallmentsAlwaysKeepTheFloor == Spec => []InstallmentsKeepTheFloor
<1>1. IInv => InstallmentsKeepTheFloor
  <2> SUFFICES ASSUME IInv, pc = "living", forecast.cut = decision.planned,
                      decision.method = "installments", today <= decision.last
               PROVE  balance >= in.minimum - Epsilon
    BY DEF InstallmentsKeepTheFloor
  <2>1. today \in Day
    BY DEF IInv, TypeOK
  <2> QED
    BY <2>1, LifeFollowsPlan DEF Sound
<1> QED
  BY <1>1, InvHolds, PTL
=============================================================================
