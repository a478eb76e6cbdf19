---------------------------- MODULE PlanningProofs ----------------------------
(***************************************************************************)
(* Theorems about the ledgers of DecisionEngine as sums of what falls due,  *)
(* and about BatchPlanning and RiskLayer, for every horizon, set of streams *)
(* and inputs.                                                              *)
(***************************************************************************)
EXTENDS RiskLayer, EngineProofs, FiniteSums

-----------------------------------------------------------------------------
(* What falls due *)

\* What each stream takes on a day, under changes c.
Costs(c, d) == [s \in Streams |-> Debit(c, s, d)]

\* The net of a day, when the streams of S have been put into the daily maps.
NetWith(c, S, d) == in.flow[d] - SumFunctionOnSet(Costs(c, d), S)

\* The daily maps have what has been added so far, and a ledger is closed over
\* complete ones (_build_daily_maps, build_ledger).
MapsInv ==
  /\ pc \in {"maps", "scan"} => \A d \in Day : net[d] = NetWith(changes, Streams \ toAdd, d)
  /\ pc = "scan" => toAdd = {}

\* The finished ledgers belong to combinations of eligible changes and were closed
\* over all that falls due.
NetsInv ==
  \A b \in built : b.changes \in Combos /\ \A d \in Day : b.net[d] = NetWith(b.changes, Streams, d)

\* The costs of a day are natural numbers, and so is any sum of them.
LEMMA CostsType ==
  ASSUME in \in Input, NEW c, NEW d \in Day, NEW S \in SUBSET Streams
  PROVE  /\ \A s \in Streams : Costs(c, d)[s] = Debit(c, s, d) /\ Costs(c, d)[s] \in Int
         /\ IsFiniteSet(S) /\ SumFunctionOnSet(Costs(c, d), S) \in Int
         /\ in.flow[d] \in Int /\ NetWith(c, S, d) \in Int
<1>1. \A s \in Streams : Costs(c, d)[s] = Debit(c, s, d) /\ Costs(c, d)[s] \in Int
  BY DebitType DEF Costs
<1>2. IsFiniteSet(S)
  BY StreamsAssumption, FS_Subset
<1>3. SumFunctionOnSet(Costs(c, d), S) \in Int
  BY <1>1, <1>2, SumType
<1> QED
  BY <1>1, <1>2, <1>3, InputType DEF NetWith

\* The costs and nets depend on the input only.
LEMMA NetsStay == in' = in => \A c, S, d : NetWith(c, S, d)' = NetWith(c, S, d)
BY DEF NetWith, Costs, Debit, ChangedAmount, Stops, May

\* No step puts anything into the maps but the debits of a stream, once.
LEMMA MapsStep ==
  ASSUME IInv, MapsInv, NetsInv, [Next]_vars
  PROVE  MapsInv' /\ NetsInv'
<1>1. in \in Input /\ in' = in /\ toAdd \subseteq Streams /\ todo \subseteq Combos
  BY TypeStep DEF IInv, TypeOK
<1>2. Combos' = Combos /\ \A c, S, d : NetWith(c, S, d)' = NetWith(c, S, d)
  BY <1>1, CombosStay, NetsStay
<1>3. ASSUME built' = built PROVE NetsInv'
  BY <1>2, <1>3 DEF NetsInv
<1>4. ASSUME NEW c \in Combos, StartLedger(c) PROVE MapsInv' /\ NetsInv'
  <2>1. \A d \in Day : NetWith(c, {}, d) = in.flow[d]
    <3>1. \A d \in Day : in.flow[d] \in Int
      BY <1>1, InputType
    <3> QED
      BY <3>1, SumOfNothing DEF NetWith
  <2>2. /\ pc' = "maps" /\ changes' = c /\ toAdd' = Streams /\ net' = in.flow /\ built' = built
    BY <1>4 DEF StartLedger
  <2>3. Streams \ toAdd' = {}
    BY <2>2
  <2> QED
    BY <1>2, <1>3, <2>1, <2>2, <2>3 DEF MapsInv
<1>5. ASSUME NEW s \in Streams, AddStream(s) PROVE MapsInv' /\ NetsInv'
  <2>1. /\ pc = "maps" /\ pc' = "maps" /\ s \in toAdd /\ toAdd' = toAdd \ {s}
        /\ net' = [d \in Day |-> net[d] - Debit(changes, s, d)]
        /\ changes' = changes /\ built' = built
    BY <1>5 DEF AddStream
  <2>2. PICK S \in SUBSET Streams : S = Streams \ toAdd
    OBVIOUS
  <2>3. Streams \ toAdd' = S \union {s}
    BY <2>1, <2>2
  <2>4. ASSUME NEW d \in Day PROVE net'[d] = NetWith(changes, S \union {s}, d)
    <3>1. /\ IsFiniteSet(S) /\ SumFunctionOnSet(Costs(changes, d), S) \in Int
          /\ in.flow[d] \in Int /\ Costs(changes, d)[s] = Debit(changes, s, d)
          /\ \A x \in Streams : Costs(changes, d)[x] \in Int
      BY <1>1, CostsType
    <3>2. SumFunctionOnSet(Costs(changes, d), S \union {s})
            = SumFunctionOnSet(Costs(changes, d), S) + Debit(changes, s, d)
      <4>1. PICK f : f = Costs(changes, d)
        OBVIOUS
      <4>2. s \notin S /\ \A x \in S \union {s} : f[x] \in Int
        BY <2>1, <2>2, <3>1, <4>1
      <4>3. SumFunctionOnSet(f, S \union {s}) = SumFunctionOnSet(f, S) + f[s]
        BY <3>1, <4>2, SumAdds
      <4> QED
        BY <3>1, <4>1, <4>3
    <3>3. net[d] = NetWith(changes, S, d)
      BY <2>1, <2>2 DEF MapsInv
    <3>4. Debit(changes, s, d) \in Int
      BY <3>1
    <3> QED
      BY <2>1, <3>1, <3>2, <3>3, <3>4 DEF NetWith
  <2> QED
    BY <1>2, <1>3, <2>1, <2>3, <2>4 DEF MapsInv
<1>6. ASSUME OpenLedger PROVE MapsInv' /\ NetsInv'
  <2>1. /\ pc = "maps" /\ toAdd = {} /\ pc' = "scan"
        /\ UNCHANGED <<changes, toAdd, net, built>>
    BY <1>6 DEF OpenLedger
  <2> QED
    BY <1>2, <1>3, <2>1 DEF MapsInv
<1>7. ASSUME CloseDay PROVE MapsInv' /\ NetsInv'
  <2>1. pc = "scan" /\ pc' = "scan" /\ UNCHANGED <<changes, toAdd, net, built>>
    BY <1>7 DEF CloseDay
  <2> QED
    BY <1>2, <1>3, <2>1 DEF MapsInv
<1>8. ASSUME GenerateCandidates PROVE MapsInv' /\ NetsInv'
  <2>1. pc = "scan" /\ pc' = "combos"
    BY <1>8 DEF GenerateCandidates
  <2>2. PICK e \in Day \union {None} :
          built' = built \union {[changes |-> changes, net |-> net, ledger |-> ledger,
                                  lowest |-> lowest, earliest |-> e]}
    BY <1>8 DEF GenerateCandidates
  <2>3. changes \in Combos /\ \A d \in Day : net[d] = NetWith(changes, Streams, d)
    <3>1. Streams \ toAdd = Streams
      BY <2>1 DEF MapsInv
    <3> QED
      BY <1>1, <2>1, <3>1 DEF MapsInv, IInv, BuiltOnce
  <2>4. \A b \in built' : \/ b \in built
                          \/ b.changes = changes /\ b.net = net
    BY <2>2
  <2> QED
    BY <1>2, <2>1, <2>3, <2>4 DEF MapsInv, NetsInv
<1>9. ASSUME pc' \notin {"maps", "scan"}, built' = built PROVE MapsInv' /\ NetsInv'
  BY <1>3, <1>9 DEF MapsInv
<1>10. ASSUME Fail PROVE MapsInv' /\ NetsInv'
  BY <1>9, <1>10 DEF Fail, engine
<1>11. ASSUME NEW c \in candidates, Recommend(c) PROVE MapsInv' /\ NetsInv'
  BY <1>9, <1>11 DEF Recommend, engine
<1>12. ASSUME Advise PROVE MapsInv' /\ NetsInv'
  BY <1>9, <1>12 DEF Advise, engine
<1>13. ASSUME NEW c \in Combos, Accept(c) PROVE MapsInv' /\ NetsInv'
  BY <1>9, <1>13 DEF Accept, engine
<1>14. ASSUME LiveDay PROVE MapsInv' /\ NetsInv'
  BY <1>9, <1>14 DEF LiveDay, engine
<1>15. ASSUME UNCHANGED vars PROVE MapsInv' /\ NetsInv'
  BY <1>2, <1>3, <1>15 DEF MapsInv, vars, engine
<1> QED
  BY <1>4, <1>5, <1>6, <1>7, <1>8, <1>10, <1>11, <1>12, <1>13, <1>14, <1>15 DEF Next, Rest

\* Every finished ledger was closed over all that falls due under its changes.
LEMMA NetsHold == Spec => [](IInv /\ MapsInv /\ NetsInv)
<1>1. Init => MapsInv /\ NetsInv
  BY DEF Init, MapsInv, NetsInv
<1>2. IInv /\ MapsInv /\ NetsInv /\ [Next]_vars => MapsInv' /\ NetsInv'
  BY MapsStep
<1>3. Init => IInv
  BY InitInv
<1>4. IInv /\ [Next]_vars => IInv'
  BY InvStep
<1> QED
  BY <1>1, <1>2, <1>3, <1>4, PTL DEF Spec

-----------------------------------------------------------------------------
(* Ledgers as sums *)

\* All debits under changes c, by stream and day.
AllCosts(c) == [x \in Streams \X Day |-> Debit(c, x[1], x[2])]

\* The balance that the input forecasts for the end of day d, under changes c.
Forecast(c, d) ==
  in.starting + SumFunctionOnSet(in.flow, 0..d) - SumFunctionOnSet(AllCosts(c), Streams \X (0..d))

\* Sums up to a day are over finite sets of integers.
LEMMA ForecastType ==
  ASSUME in \in Input, NEW c, NEW d \in Day
  PROVE  /\ 0..d \subseteq Day /\ IsFiniteSet(0..d) /\ IsFiniteSet(Streams \X (0..d))
         /\ \A x \in Streams \X Day : AllCosts(c)[x] \in Int /\ AllCosts(c)[x] = Debit(c, x[1], x[2])
         /\ \A i \in Day : in.flow[i] \in Int
         /\ SumFunctionOnSet(in.flow, 0..d) \in Int
         /\ SumFunctionOnSet(AllCosts(c), Streams \X (0..d)) \in Int
         /\ Forecast(c, d) \in Int
<1>1. 0..d \subseteq Day /\ d \in Int
  BY HorizonAssumption DEF Day
<1>2. IsFiniteSet(0..d)
  BY <1>1, FS_Interval
<1>3. IsFiniteSet(Streams \X (0..d))
  BY <1>2, StreamsAssumption, FS_Product
<1>4. \A x \in Streams \X Day : AllCosts(c)[x] \in Int /\ AllCosts(c)[x] = Debit(c, x[1], x[2])
  <2> SUFFICES ASSUME NEW x \in Streams \X Day
               PROVE  AllCosts(c)[x] \in Int /\ AllCosts(c)[x] = Debit(c, x[1], x[2])
    OBVIOUS
  <2>1. x[1] \in Streams /\ x[2] \in Day
    OBVIOUS
  <2>2. Debit(c, x[1], x[2]) \in Int
    BY <2>1, DebitType
  <2> QED
    BY <2>2 DEF AllCosts
<1>5. \A i \in Day : in.flow[i] \in Int
  BY InputType
<1>6. SumFunctionOnSet(in.flow, 0..d) \in Int
  BY <1>1, <1>2, <1>5, SumType
<1>7. Streams \X (0..d) \subseteq Streams \X Day
  BY <1>1
<1>8. SumFunctionOnSet(AllCosts(c), Streams \X (0..d)) \in Int
  BY <1>3, <1>4, <1>7, SumType
<1>9. in.starting \in Int
  BY InputType
<1> QED
  BY <1>1, <1>2, <1>3, <1>4, <1>5, <1>6, <1>8, <1>9 DEF Forecast

\* The debits of one more day are added stream by stream.
LEMMA OneMoreDay ==
  ASSUME in \in Input, NEW c, NEW d \in Day, NEW P \in SUBSET (Streams \X Day),
         IsFiniteSet(P), \A x \in P : x[2] # d
  PROVE  SumFunctionOnSet(AllCosts(c), P \union (Streams \X {d}))
           = SumFunctionOnSet(AllCosts(c), P) + SumFunctionOnSet(Costs(c, d), Streams)
<1>1. PICK f : f = AllCosts(c)
  OBVIOUS
<1>2. PICK g : g = Costs(c, d)
  OBVIOUS
<1> DEFINE With(S) == P \union (S \X {d})
           G == {S \in SUBSET Streams :
                   /\ IsFiniteSet(With(S))
                   /\ SumFunctionOnSet(f, With(S)) = SumFunctionOnSet(f, P) + SumFunctionOnSet(g, S)}
<1>3. \A x \in Streams \X Day : f[x] \in Int
  BY <1>1, ForecastType
<1>4. \A s \in Streams : g[s] \in Int /\ f[<<s, d>>] = g[s]
  <2> SUFFICES ASSUME NEW s \in Streams PROVE g[s] \in Int /\ f[<<s, d>>] = g[s]
    OBVIOUS
  <2>1. PICK x : x = <<s, d>>
    OBVIOUS
  <2>2. x \in Streams \X Day /\ x[1] = s /\ x[2] = d
    BY <2>1
  <2>4. f[x] = Debit(c, s, d)
    BY <1>1, <2>2, ForecastType
  <2>3. g[s] = Debit(c, s, d) /\ g[s] \in Int
    BY <1>2, CostsType
  <2> QED
    BY <2>1, <2>3, <2>4
<1>5. SumFunctionOnSet(f, P) \in Int
  BY <1>3, SumType
<1>6. {} \in G
  <2>1. With({}) = P
    OBVIOUS
  <2>2. SumFunctionOnSet(g, {}) = 0
    BY SumOfNothing
  <2> HIDE DEF With
  <2> QED
    BY <1>5, <2>1, <2>2
<1>7. ASSUME NEW S \in SUBSET Streams, S \in G, NEW s \in Streams \ S
      PROVE  S \union {s} \in G
  <2>1. PICK Q : Q = With(S)
    OBVIOUS
  <2>2. PICK y : y = <<s, d>>
    OBVIOUS
  <2>3. With(S \union {s}) = Q \union {y} /\ y \notin Q /\ Q \union {y} \in SUBSET (Streams \X Day)
    BY <2>1, <2>2
  <2>4. IsFiniteSet(Q) /\ SumFunctionOnSet(f, Q) = SumFunctionOnSet(f, P) + SumFunctionOnSet(g, S)
    BY <1>7, <2>1
  <2>5. IsFiniteSet(Q \union {y})
    BY <2>4, FS_AddElement
  <2>6. SumFunctionOnSet(f, Q \union {y}) = SumFunctionOnSet(f, Q) + f[y]
    <3>1. PICK R : R = Q \union {y}
      OBVIOUS
    <3>2. IsFiniteSet(R) /\ y \in R /\ R \ {y} = Q
      BY <2>3, <2>5, <3>1
    <3>3. \A x \in R : f[x] \in Int
      BY <1>3, <2>3, <3>1
    <3>4. SumFunctionOnSet(f, R) = f[y] + SumFunctionOnSet(f, R \ {y})
      BY <3>2, <3>3, SumTakes
    <3>5. f[y] \in Int /\ \A x \in Q : f[x] \in Int
      BY <3>1, <3>3
    <3>6. SumFunctionOnSet(f, Q) \in Int
      BY <2>4, <3>5, SumType
    <3>7. SumFunctionOnSet(f, R) = f[y] + SumFunctionOnSet(f, Q)
      BY <3>2, <3>4
    <3>8. SumFunctionOnSet(f, R) = SumFunctionOnSet(f, Q) + f[y]
      BY <3>5, <3>6, <3>7
    <3> QED
      BY <3>1, <3>8
  <2>7. IsFiniteSet(S)
    BY StreamsAssumption, FS_Subset
  <2>8. SumFunctionOnSet(g, S \union {s}) = SumFunctionOnSet(g, S) + g[s]
    <3>1. \A x \in S \union {s} : g[x] \in Int
      BY <1>4
    <3> QED
      BY <2>7, <3>1, SumAdds
  <2>9. SumFunctionOnSet(g, S) \in Int
    BY <1>4, <2>7, SumType
  <2>10. f[y] = g[s] /\ g[s] \in Int
    BY <1>4, <2>2
  <2>11. SumFunctionOnSet(f, Q \union {y}) = SumFunctionOnSet(f, P) + SumFunctionOnSet(g, S \union {s})
    BY <1>5, <2>4, <2>6, <2>8, <2>9, <2>10
  <2> QED
    BY <2>3, <2>5, <2>11
<1> HIDE DEF G
<1>8. Streams \in G
  BY <1>6, <1>7, StreamsAssumption, SubsetsByInduction
<1> QED
  BY <1>1, <1>2, <1>8 DEF G

\* The forecast of a day is that of the day before plus the net of the day.
LEMMA ForecastSteps ==
  ASSUME in \in Input, NEW c, NEW d \in Day
  PROVE  Forecast(c, d) = NetWith(c, Streams, d) + (IF d = 0 THEN in.starting ELSE Forecast(c, d - 1))
<1>0. d \in Nat /\ d \in Int
  BY HorizonAssumption DEF Day
<1>1. PICK before : before = 0..(d - 1)
  OBVIOUS
<1>2. 0..d = before \union {d} /\ d \notin before /\ before \subseteq Day /\ IsFiniteSet(before)
  <2>1. IsFiniteSet(0..(d - 1))
    BY <1>0, FS_Interval
  <2>2. 0..(d - 1) \subseteq Day
    BY <1>0, HorizonAssumption DEF Day
  <2> QED
    BY <1>0, <1>1, <2>1, <2>2
<1>3. \A i \in Day : in.flow[i] \in Int
  BY InputType
<1>4. SumFunctionOnSet(in.flow, 0..d) = SumFunctionOnSet(in.flow, before) + in.flow[d]
  <2>1. PICK f : f = in.flow
    OBVIOUS
  <2>2. \A x \in before \union {d} : f[x] \in Int
    BY <1>2, <1>3, <2>1
  <2>3. SumFunctionOnSet(f, before \union {d}) = SumFunctionOnSet(f, before) + f[d]
    BY <1>2, <2>2, SumAdds
  <2> QED
    BY <1>2, <2>1, <2>3
<1>5. Streams \X (0..d) = (Streams \X before) \union (Streams \X {d})
  BY <1>2
<1>6. SumFunctionOnSet(AllCosts(c), Streams \X (0..d))
        = SumFunctionOnSet(AllCosts(c), Streams \X before) + SumFunctionOnSet(Costs(c, d), Streams)
  <2>1. IsFiniteSet(Streams \X before)
    BY <1>2, StreamsAssumption, FS_Product
  <2>2. Streams \X before \in SUBSET (Streams \X Day) /\ \A x \in Streams \X before : x[2] # d
    BY <1>2
  <2> QED
    BY <1>5, <2>1, <2>2, OneMoreDay
<1>7. /\ SumFunctionOnSet(Costs(c, d), Streams) \in Int /\ in.flow[d] \in Int
      /\ in.starting \in Int
  BY CostsType, InputType
<1>8. CASE d = 0
  <2>1. before = {} /\ Streams \X before = {}
    BY <1>1, <1>8
  <2>2. SumFunctionOnSet(in.flow, before) = 0 /\ SumFunctionOnSet(AllCosts(c), Streams \X before) = 0
    BY <2>1, SumOfNothing
  <2> QED
    BY <1>4, <1>6, <1>7, <1>8, <2>2 DEF Forecast, NetWith
<1>9. CASE d # 0
  <2>1. PICK y \in Day : y = d - 1
    BY <1>0, <1>9, HorizonAssumption DEF Day
  <2>2. /\ SumFunctionOnSet(in.flow, before) \in Int
        /\ SumFunctionOnSet(AllCosts(c), Streams \X before) \in Int
    BY <1>1, <2>1, ForecastType
  <2>3. Forecast(c, y) = in.starting + SumFunctionOnSet(in.flow, before)
                           - SumFunctionOnSet(AllCosts(c), Streams \X before)
    BY <1>1, <2>1 DEF Forecast
  <2> QED
    BY <1>4, <1>6, <1>7, <1>9, <2>1, <2>2, <2>3 DEF Forecast, NetWith
<1> QED
  BY <1>8, <1>9

\* A ledger closed day by day over all that falls due has the forecast balances.
LEMMA LedgerIsForecast ==
  ASSUME in \in Input, NEW c, NEW l,
         \A d \in Day : l[d] = NetWith(c, Streams, d) + (IF d = 0 THEN in.starting ELSE l[d - 1])
  PROVE  \A d \in Day : l[d] = Forecast(c, d)
<1> DEFINE G == {d \in Nat : d \in Day => l[d] = Forecast(c, d)}
<1>1. 0 \in G
  BY ForecastSteps
<1>2. ASSUME NEW n \in Nat, n \in G PROVE n + 1 \in G
  <2> SUFFICES ASSUME n + 1 \in Day PROVE l[n + 1] = Forecast(c, n + 1)
    OBVIOUS
  <2>1. n \in Day /\ n + 1 # 0 /\ (n + 1) - 1 = n
    BY HorizonAssumption DEF Day
  <2>2. l[n] = Forecast(c, n)
    BY <1>2, <2>1
  <2> QED
    BY <2>1, <2>2, ForecastSteps
<1> HIDE DEF G
<1>3. Nat \subseteq G
  BY <1>1, <1>2, NumbersByInduction
<1>4. Day \subseteq Nat
  BY HorizonAssumption DEF Day
<1> QED
  BY <1>3, <1>4 DEF G

\* So it is with every finished ledger.
LEMMA BuiltIsForecast ==
  ASSUME IInv, NetsInv, NEW b \in built
  PROVE  \A d \in Day : b.ledger[d] = Forecast(b.changes, d)
<1>1. in \in Input /\ Scanned(b.net, b.ledger, b.lowest, Horizon + 1)
  BY DEF IInv, TypeOK, BuiltInv
<1>2. \A d \in Day : d < Horizon + 1
  BY HorizonAssumption DEF Day
<1>3. \A d \in Day : b.net[d] = NetWith(b.changes, Streams, d)
  BY DEF NetsInv
<1>4. \A d \in Day : b.ledger[d] = NetWith(b.changes, Streams, d)
                       + (IF d = 0 THEN in.starting ELSE b.ledger[d - 1])
  BY <1>1, <1>2, <1>3 DEF Scanned
<1> QED
  BY <1>1, <1>4, LedgerIsForecast

\* A finished ledger has, for every day, the opening balance and all that falls due
\* by then, every debit once (_build_daily_maps and build_ledger, forecast/ledger.py).
THEOREM LedgersAlwaysForecasts == Spec => []LedgersAreForecasts
<1>1. IInv /\ NetsInv => LedgersAreForecasts
  <2> SUFFICES ASSUME IInv, NetsInv, NEW b \in built, NEW d \in Day
               PROVE  b.ledger[d] = in.starting
                        + SumFunctionOnSet(in.flow, 0..d)
                        - SumFunction([x \in Streams \X (0..d) |-> Debit(b.changes, x[1], x[2])])
    BY DEF LedgersAreForecasts
  <2>1. in \in Input
    BY DEF IInv, TypeOK
  <2>2. PICK f : f = [x \in Streams \X (0..d) |-> Debit(b.changes, x[1], x[2])]
    OBVIOUS
  <2>3. SumFunction(f) = SumFunctionOnSet(f, Streams \X (0..d))
    BY <2>2 DEF SumFunction
  <2>4. \A x \in Streams \X (0..d) : AllCosts(b.changes)[x] \in Int /\ AllCosts(b.changes)[x] = f[x]
    <3>1. Streams \X (0..d) \subseteq Streams \X Day
      BY <2>1, ForecastType
    <3>2. \A x \in Streams \X (0..d) : f[x] = Debit(b.changes, x[1], x[2])
      BY <2>2
    <3> QED
      BY <2>1, <3>1, <3>2, ForecastType
  <2>5. SumFunctionOnSet(f, Streams \X (0..d)) = SumFunctionOnSet(AllCosts(b.changes), Streams \X (0..d))
    <3>1. IsFiniteSet(Streams \X (0..d))
      BY <2>1, ForecastType
    <3>2. PICK g : g = AllCosts(b.changes)
      OBVIOUS
    <3> QED
      BY <2>4, <3>1, <3>2, SumEqual
  <2> QED
    BY <2>2, <2>3, <2>5, BuiltIsForecast DEF Forecast
<1> QED
  BY <1>1, NetsHold, PTL

-----------------------------------------------------------------------------
(* More changes *)

\* An eligible change never makes a debit larger (get_eligible_changes).
LEMMA ChangesSave ==
  ASSUME in \in Input, NEW b \in Combos, NEW a \in SUBSET b, NEW s \in Streams, NEW d \in Day
  PROVE  Debit(b, s, d) <= Debit(a, s, d)
<1>1. in.streams[s].amount \in Nat /\ in.streams[s].floor \in Nat
  BY StreamType
<1>2. CASE s \in b /\ s \notin a
  <2>1. Stops(s) \/ Reduces(s)
    BY <1>2 DEF Combos, Eligible
  <2>2. ChangedAmount(s) <= in.streams[s].amount
    BY <1>1, <2>1 DEF ChangedAmount, Reduces
  <2> QED
    BY <1>1, <1>2, <2>2 DEF Debit
<1>3. CASE ~(s \in b /\ s \notin a)
  <2>1. Debit(b, s, d) = Debit(a, s, d) /\ Debit(b, s, d) \in Int
    BY <1>3, DebitType DEF Debit
  <2> QED
    BY <2>1
<1> QED
  BY <1>2, <1>3

\* The forecast with more changes is nowhere lower.
LEMMA ForecastsRise ==
  ASSUME in \in Input, NEW b \in Combos, NEW a \in SUBSET b, NEW d \in Day
  PROVE  Forecast(a, d) <= Forecast(b, d)
<1>1. PICK P : P = Streams \X (0..d)
  OBVIOUS
<1>2. IsFiniteSet(P) /\ P \subseteq Streams \X Day
  BY <1>1, ForecastType
<1>3. \A x \in P : AllCosts(b)[x] \in Int /\ AllCosts(a)[x] \in Int /\ AllCosts(b)[x] <= AllCosts(a)[x]
  <2> SUFFICES ASSUME NEW x \in P
               PROVE  /\ AllCosts(b)[x] \in Int /\ AllCosts(a)[x] \in Int
                      /\ AllCosts(b)[x] <= AllCosts(a)[x]
    OBVIOUS
  <2>1. x[1] \in Streams /\ x[2] \in Day
    BY <1>2
  <2> QED
    BY <1>2, <2>1, ChangesSave, ForecastType
<1>4. SumFunctionOnSet(AllCosts(b), P) <= SumFunctionOnSet(AllCosts(a), P)
  BY <1>2, <1>3, SumMonotonic
<1>5. /\ SumFunctionOnSet(AllCosts(b), P) \in Int /\ SumFunctionOnSet(AllCosts(a), P) \in Int
      /\ SumFunctionOnSet(in.flow, 0..d) \in Int /\ in.starting \in Int
  BY <1>1, ForecastType, InputType
<1> QED
  BY <1>1, <1>4, <1>5 DEF Forecast

\* More spending changes never make a ledger worse, on any day nor at its lowest
\* (enumerate_spending_change_combos, get_eligible_changes).
THEOREM ChangesNeverMakeWorse == Spec => []ChangesNeverHurt
<1>1. IInv /\ NetsInv => ChangesNeverHurt
  <2> SUFFICES ASSUME IInv, NetsInv, NEW a \in built, NEW b \in built, a.changes \subseteq b.changes
               PROVE  a.lowest <= b.lowest /\ \A d \in Day : a.ledger[d] <= b.ledger[d]
    BY DEF ChangesNeverHurt
  <2>1. in \in Input /\ b.changes \in Combos
    BY DEF IInv, TypeOK, NetsInv
  <2>2. \A d \in Day : a.ledger[d] <= b.ledger[d]
    BY <2>1, BuiltIsForecast, ForecastsRise
  <2>3. \A x \in built : /\ x.lowest \in Int /\ x.ledger \in [Day -> Int] /\ x.net \in [Day -> Int]
                         /\ x.net[0] = 0 /\ Scanned(x.net, x.ledger, x.lowest, Horizon + 1)
    BY DEF IInv, TypeOK, BuiltLedger, BuiltInv
  <2>4. PICK d \in Day : b.lowest = b.ledger[d]
    BY <2>1, <2>3, LowestBounds
  <2>5. a.lowest <= a.ledger[d]
    BY <2>1, <2>3, LowestBounds
  <2>6. a.lowest <= b.lowest
    <3>1. /\ a.lowest \in Int /\ b.lowest \in Int /\ a.ledger[d] \in Int /\ b.ledger[d] \in Int
      BY <2>3
    <3> QED
      BY <2>2, <2>4, <2>5, <3>1
  <2> QED
    BY <2>2, <2>6
<1> QED
  BY <1>1, NetsHold, PTL

-----------------------------------------------------------------------------
(* The ledgers of the batch programs *)

\* A plan as a dict of payments: dates to amounts.
Payments(p) == \A d \in DOMAIN p : d \in Int /\ p[d] \in Nat

\* No payments, and one payment, are plans.
LEMMA PlainPayments ==
  /\ Payments(Nothing) /\ DOMAIN Nothing = {}
  /\ \A d \in Int, a \in Nat : Payments(Pay(d, a)) /\ DOMAIN Pay(d, a) = {d} /\ Pay(d, a)[d] = a
BY DEF Payments, Nothing, Pay

\* What the streams cost on a day, in the batch programs.
CostOf(x, c, d) == [s \in Streams |-> Cost(x, c, s, d)]

\* What a stream costs on a day is an amount.
LEMMA CostType ==
  ASSUME NEW x \in Input, NEW c, NEW s \in Streams, NEW d \in Day
  PROVE  Cost(x, c, s, d) \in Nat
<1>1. x.streams[s] \in Stream
  BY DEF Input
<1>2. x.streams[s].amount \in Nat /\ x.streams[s].floor \in Nat
  BY <1>1 DEF Stream
<1> QED
  BY <1>2 DEF Cost

\* The daily map of debits has an amount for every day.
LEMMA DebitMapType ==
  ASSUME NEW x \in Input, NEW c, NEW p, Payments(p), NEW d \in Day
  PROVE  /\ DebitMap(x, c, p)[d] \in Int
         /\ DebitMap(x, c, p)[d] = SumFunctionOnSet(CostOf(x, c, d), Streams)
                                     + (IF d \in DOMAIN p THEN p[d] ELSE 0)
         /\ SumFunctionOnSet(CostOf(x, c, d), Streams) \in Int
<1>1. PICK f : f = CostOf(x, c, d)
  OBVIOUS
<1>2. \A s \in Streams : f[s] \in Int
  BY <1>1, CostType DEF CostOf
<1>3. SumFunctionOnSet(f, Streams) \in Int
  BY <1>2, StreamsAssumption, SumType
<1>4. SumFunction(f) = SumFunctionOnSet(f, Streams)
  BY <1>1 DEF SumFunction, CostOf
<1>5. (IF d \in DOMAIN p THEN p[d] ELSE 0) \in Int
  BY DEF Payments
<1>6. DebitMap(x, c, p)[d] = SumFunctionOnSet(f, Streams) + (IF d \in DOMAIN p THEN p[d] ELSE 0)
  BY <1>1, <1>4 DEF DebitMap, CostOf
<1> QED
  BY <1>1, <1>3, <1>5, <1>6

\* One day of a ledger that opens with s and is closed over credits f and debits g.
Closing(s, f, g, l) == l = [d \in Day |-> (IF d = 0 THEN s ELSE l[d - 1]) + f[d] - g[d]]

\* There is such a ledger.
LEMMA ClosingExists ==
  ASSUME NEW s \in Int, NEW f, NEW g, \A d \in Day : f[d] \in Int /\ g[d] \in Int
  PROVE  \E l : Closing(s, f, g, l) /\ l \in [Day -> Int]
<1> DEFINE At(d) == s + SumFunctionOnSet(f, 0..d) - SumFunctionOnSet(g, 0..d)
           l == [d \in Day |-> At(d)]
<1>1. \A d \in Day : d \in Nat /\ 0..d \subseteq Day /\ IsFiniteSet(0..d)
  <2> SUFFICES ASSUME NEW d \in Day PROVE d \in Nat /\ 0..d \subseteq Day /\ IsFiniteSet(0..d)
    OBVIOUS
  <2>1. d \in Int /\ 0 \in Int
    BY HorizonAssumption DEF Day
  <2>2. IsFiniteSet(0..d)
    BY <2>1, FS_Interval
  <2> QED
    BY <2>2, HorizonAssumption DEF Day
<1>2. \A d \in Day : /\ SumFunctionOnSet(f, 0..d) \in Int /\ SumFunctionOnSet(g, 0..d) \in Int
  BY <1>1, SumType
<1>3. ASSUME NEW d \in Day PROVE l[d] = (IF d = 0 THEN s ELSE l[d - 1]) + f[d] - g[d]
  <2>0. f[d] \in Int /\ g[d] \in Int /\ d \in Nat
    BY <1>1
  <2>1. CASE d = 0
    <3>1. PICK none : none = {} /\ 0..d = none \union {d} /\ d \notin none /\ IsFiniteSet(none)
      BY <2>1, FS_EmptySet
    <3>2. /\ SumFunctionOnSet(f, none \union {d}) = SumFunctionOnSet(f, none) + f[d]
          /\ SumFunctionOnSet(g, none \union {d}) = SumFunctionOnSet(g, none) + g[d]
      <4>1. \A z \in none \union {d} : f[z] \in Int /\ g[z] \in Int
        BY <3>1
      <4> QED
        BY <3>1, <4>1, SumAdds
    <3>3. SumFunctionOnSet(f, none) = 0 /\ SumFunctionOnSet(g, none) = 0
      BY <3>1, SumOfNothing
    <3>4. /\ SumFunctionOnSet(f, 0..d) = SumFunctionOnSet(f, none \union {d})
          /\ SumFunctionOnSet(g, 0..d) = SumFunctionOnSet(g, none \union {d})
      BY <3>1
    <3>5. At(d) = s + f[d] - g[d]
      BY <2>0, <3>2, <3>3, <3>4
    <3> QED
      BY <2>1, <3>5
  <2>2. CASE d # 0
    <3>1. PICK y \in Day : y = d - 1
      BY <2>0, <2>2, HorizonAssumption DEF Day
    <3>2. PICK S : S = 0..y
      OBVIOUS
    <3>3. IsFiniteSet(S) /\ d \notin S /\ 0..d = S \union {d} /\ S \union {d} \subseteq Day
      BY <1>1, <2>0, <3>1, <3>2
    <3>4. /\ SumFunctionOnSet(f, S \union {d}) = SumFunctionOnSet(f, S) + f[d]
          /\ SumFunctionOnSet(g, S \union {d}) = SumFunctionOnSet(g, S) + g[d]
      BY <3>3, SumAdds
    <3>5. At(d) = At(y) + f[d] - g[d]
      <4>1. /\ SumFunctionOnSet(f, 0..d) = SumFunctionOnSet(f, S \union {d})
            /\ SumFunctionOnSet(g, 0..d) = SumFunctionOnSet(g, S \union {d})
        BY <3>3
      <4>2. SumFunctionOnSet(f, S) \in Int /\ SumFunctionOnSet(g, S) \in Int
        BY <1>2, <3>2
      <4>3. At(y) = s + SumFunctionOnSet(f, S) - SumFunctionOnSet(g, S)
        BY <3>2
      <4> QED
        BY <2>0, <3>4, <4>1, <4>2, <4>3
    <3>6. l[d] = At(d) /\ l[y] = At(y)
      OBVIOUS
    <3> HIDE DEF At, l
    <3> QED
      BY <2>2, <3>1, <3>5, <3>6
  <2> QED
    BY <2>1, <2>2
<1>4. l \in [Day -> Int]
  BY <1>2
<1>5. Closing(s, f, g, l)
  BY <1>3 DEF Closing
<1> QED
  BY <1>4, <1>5

\* Two such ledgers are the same.
LEMMA ClosingUnique ==
  ASSUME NEW s, NEW f, NEW g, NEW l, NEW m, Closing(s, f, g, l), Closing(s, f, g, m)
  PROVE  l = m
<1> DEFINE G == {d \in Nat : d \in Day => l[d] = m[d]}
<1>0. \A d \in Day : /\ l[d] = (IF d = 0 THEN s ELSE l[d - 1]) + f[d] - g[d]
                     /\ m[d] = (IF d = 0 THEN s ELSE m[d - 1]) + f[d] - g[d]
  BY DEF Closing
<1>1. 0 \in G
  BY <1>0
<1>2. ASSUME NEW n \in Nat, n \in G PROVE n + 1 \in G
  <2> SUFFICES ASSUME n + 1 \in Day PROVE l[n + 1] = m[n + 1]
    OBVIOUS
  <2>1. n \in Day /\ n + 1 # 0 /\ (n + 1) - 1 = n
    BY HorizonAssumption DEF Day
  <2> QED
    BY <1>0, <1>2, <2>1
<1> HIDE DEF G
<1>3. Nat \subseteq G
  BY <1>1, <1>2, NumbersByInduction
<1>4. Day \subseteq Nat
  BY HorizonAssumption DEF Day
<1>5. \A d \in Day : l[d] = m[d]
  BY <1>3, <1>4 DEF G
<1>6. l = [d \in Day |-> l[d]] /\ m = [d \in Day |-> m[d]]
  BY DEF Closing
<1> QED
  BY <1>5, <1>6

\* build_ledger closes the days of the horizon over credits and debits.
LEMMA LedgerCloses ==
  ASSUME NEW x \in Input, NEW c, NEW p, Payments(p)
  PROVE  /\ Closing(x.starting, x.flow, DebitMap(x, c, p), BuildLedger(x, c, p))
         /\ BuildLedger(x, c, p) \in [Day -> Int]
<1>1. PICK g : g = DebitMap(x, c, p)
  OBVIOUS
<1>2. \A d \in Day : x.flow[d] \in Int /\ g[d] \in Int
  BY <1>1, DebitMapType DEF Input
<1>3. x.starting \in Int
  BY DEF Input
<1>4. PICK l : Closing(x.starting, x.flow, g, l) /\ l \in [Day -> Int]
  BY <1>2, <1>3, ClosingExists
<1>5. PICK m : m = CHOOSE k : Closing(x.starting, x.flow, g, k)
  OBVIOUS
<1>6. Closing(x.starting, x.flow, g, m)
  BY <1>4, <1>5
<1>7. BuildLedger(x, c, p) = m
  BY <1>1, <1>5 DEF BuildLedger, Closing
<1>8. m = l
  BY <1>4, <1>6, ClosingUnique
<1> QED
  BY <1>1, <1>4, <1>7, <1>8

\* The lowest balance of a batch ledger is today's or that of a day.
LEMMA MinimumBounds ==
  ASSUME NEW x \in Input, NEW c, NEW p, Payments(p)
  PROVE  /\ MinimumClosing(x, c, p) \in Int /\ MinimumClosing(x, c, p) <= x.starting
         /\ \A d \in Day : MinimumClosing(x, c, p) <= BuildLedger(x, c, p)[d]
         /\ \/ MinimumClosing(x, c, p) = x.starting
            \/ \E d \in Day : MinimumClosing(x, c, p) = BuildLedger(x, c, p)[d]
<1>1. PICK l : l = BuildLedger(x, c, p) /\ l \in [Day -> Int]
  BY LedgerCloses
<1>2. PICK S : S = {x.starting} \union {l[d] : d \in Day}
  OBVIOUS
<1>3. x.starting \in Int
  BY DEF Input
<1>4. S \in SUBSET Int /\ S # {}
  BY <1>1, <1>2, <1>3
<1>5. IsFiniteSet(S)
  <2>1. IsFiniteSet(Day)
    BY HorizonAssumption, FS_Interval DEF Day
  <2>2. IsFiniteSet({l[d] : d \in Day})
    BY <2>1, FiniteImage
  <2> QED
    BY <1>2, <2>2, FS_AddElement
<1>6. MinimumClosing(x, c, p) = Min(S)
  BY <1>1, <1>2 DEF MinimumClosing
<1>7. Min(S) \in S /\ \A y \in S : Min(S) <= y
  BY <1>4, <1>5, Extremes
<1> QED
  BY <1>1, <1>2, <1>4, <1>6, <1>7

\* compute_safe_amount of the batch programs, from the lowest balance.
LEMMA SafeToPayIs ==
  ASSUME NEW x \in Input, NEW c
  PROVE  /\ SafeToPay(x, c) \in Int
         /\ SafeToPay(x, c) =
              LET headroom == MinimumClosing(x, c, Nothing) - x.minimum
              IN  IF headroom < 0 THEN 0 ELSE Lesser(x.amount, headroom)
<1>1. x.amount \in Nat /\ x.minimum \in Nat
  BY DEF Input
<1>2. PICK m \in Int : m = MinimumClosing(x, c, Nothing)
  BY MinimumBounds, PlainPayments
<1>3. PICK k \in Int : k = Min({x.amount, m - x.minimum})
  BY <1>1, ExtremesOfTwo
<1>4. k = IF x.amount < m - x.minimum THEN x.amount ELSE m - x.minimum
  BY <1>1, <1>3, ExtremesOfTwo
<1>5. Max({0, k}) = IF 0 > k THEN 0 ELSE k
  BY ExtremesOfTwo
<1>6. SafeToPay(x, c) = Max({0, k})
  BY <1>2, <1>3 DEF SafeToPay
<1> QED
  BY <1>1, <1>2, <1>4, <1>5, <1>6 DEF Lesser

-----------------------------------------------------------------------------
(* The answers of the batch programs *)

\* The plan behind an answer: a feasible one, or the fallback.
LEMMA AnswerOf ==
  ASSUME NEW r, ~r.older, NEW x, ~Raises(x), NEW a \in Answers(r, x)
  PROVE  \E p \in FeasiblePlans(r, x) \union {NotRecommended} :
           /\ a.method = p.method /\ a.affordability = AffordabilityStatus(p)
           /\ a.payments = p.payments /\ a.planned = p.changes
<1>1. PICK p \in SelectBest(r, x) : a = Coerced(x, MakeDecision(x, p))
  BY DEF Answers
<1>2. p \in FeasiblePlans(r, x) \union {NotRecommended}
  BY DEF SelectBest, BestOf
<1>3. PICK m : m = MakeDecision(x, p)
  OBVIOUS
<1>4. /\ m.method = p.method /\ m.affordability = AffordabilityStatus(p)
      /\ m.payments = p.payments /\ m.planned = p.changes
  BY <1>3 DEF MakeDecision, DecisionFor
<1>5. /\ a.method = m.method /\ a.affordability = m.affordability
      /\ a.payments = m.payments /\ a.planned = m.planned
  BY <1>1, <1>3 DEF Coerced, MakeDecision, DecisionFor
<1> QED
  BY <1>2, <1>4, <1>5

\* A feasible plan was found safe, with its own changes.
LEMMA FeasibleIsSafe ==
  ASSUME NEW r, NEW x, NEW p \in FeasiblePlans(r, x)
  PROVE  PlanIsSafe(r, x, p.changes, p.payments)
<1>1. PICK c \in ChangeCombos(x) : p \in PlansOf(r, x, c, SafeToPay(x, c), EarliestFull(x, c))
  BY DEF FeasiblePlans
<1>2. PICK method, q, first, last, count, total :
        p = PlanOf(r, x, c, method, q, first, last, count, total)
  BY <1>1 DEF PlansOf, FullPlans, InstallmentPlans, PartialPlans, WaitPlans
<1>3. p.changes = c /\ p.payments = q /\ p.feasible = PlanIsSafe(r, x, c, q)
  BY <1>2 DEF PlanOf
<1> QED
  BY <1>3 DEF FeasiblePlans

\* An answer says "affordable now" only if the price can be paid today.
LEMMA NowIsSafe ==
  ASSUME NEW r, ~r.older, NEW x \in Input, NEW a \in Answers(r, x),
         a.affordability = "affordable_now"
  PROVE  a.method = "full_payment" /\ SafeToPay(x, {}) >= x.amount
<1>1. ~Raises(x)
  BY DEF Answers, ErrorAnswer
<1>2. PICK p \in FeasiblePlans(r, x) \union {NotRecommended} :
        a.method = p.method /\ a.affordability = AffordabilityStatus(p)
  BY <1>1, AnswerOf
<1>3. p.method = "full_payment" /\ p.changes = {}
  BY <1>2 DEF AffordabilityStatus
<1>4. p \in FeasiblePlans(r, x)
  BY <1>3 DEF NotRecommended
<1>5. PICK c \in ChangeCombos(x) : p \in PlansOf(r, x, c, SafeToPay(x, c), EarliestFull(x, c))
  BY <1>4 DEF FeasiblePlans
<1>6. p \in FullPlans(r, x, c, SafeToPay(x, c))
  BY <1>3, <1>5 DEF PlansOf, InstallmentPlans, PartialPlans, WaitPlans, PlanOf
<1>7. c = {} /\ ~(SafeToPay(x, c) < x.amount)
  BY <1>3, <1>6 DEF FullPlans, PlanOf
<1>8. SafeToPay(x, {}) \in Int /\ x.amount \in Int
  BY SafeToPayIs DEF Input
<1> QED
  BY <1>2, <1>3, <1>7, <1>8

-----------------------------------------------------------------------------
(* The stressed state *)

\* A stressed state is a state like any other, in thousandths.
LEMMA StateWithType ==
  ASSUME NEW x \in Input, NEW hit
  PROVE  /\ StateWith(x, hit) \in Input
         /\ StateWith(x, hit).starting = x.starting * Whole
         /\ StateWith(x, hit).minimum = x.minimum * Whole
         /\ StateWith(x, hit).amount = x.amount * Whole
         /\ \A d \in Day : StateWith(x, hit).flow[d] = x.flow[d] * Whole
         /\ \A s \in Streams :
              /\ StateWith(x, hit).streams[s].dates = x.streams[s].dates
              /\ StateWith(x, hit).streams[s].amount =
                   x.streams[s].amount * (IF s \in hit THEN StressFactor(x, s) ELSE Whole)
<1> DEFINE y == StateWith(x, hit)
<1>1. Whole \in Nat /\ Whole # 0
  BY RiskAssumption
<1>2. /\ \A a \in Int : a * Whole \in Int
      /\ \A a \in Nat : a * Whole \in Nat
      /\ \A a \in Nat : a # 0 => a * Whole # 0
      /\ \A a, b \in Nat : a * b \in Nat
  BY <1>1
<1>3. /\ y.starting = x.starting * Whole /\ y.minimum = x.minimum * Whole
      /\ y.amount = x.amount * Whole /\ y.flow = [d \in Day |-> x.flow[d] * Whole]
      /\ y.streams = [s \in Streams |->
           [x.streams[s] EXCEPT
              !.amount = @ * (IF s \in hit THEN StressFactor(x, s) ELSE Whole),
              !.floor = @ * Whole]]
      /\ y.options = {[o EXCEPT !.amount = @ * Whole, !.total = @ * Whole] : o \in x.options}
      /\ y.protected = x.protected /\ y.stoppable = x.stoppable /\ y.reducible = x.reducible
      /\ y.methods = x.methods /\ y.maxDays = x.maxDays /\ y.deadline = x.deadline
      /\ y.partial = x.partial
  BY DEF StateWith, Input
<1>4. ASSUME NEW s \in Streams
      PROVE  /\ y.streams[s] \in Stream /\ y.streams[s].dates = x.streams[s].dates
             /\ y.streams[s].amount =
                  x.streams[s].amount * (IF s \in hit THEN StressFactor(x, s) ELSE Whole)
  <2>1. x.streams[s] \in Stream
    BY DEF Input
  <2>2. PICK f : f = IF s \in hit THEN StressFactor(x, s) ELSE Whole
    OBVIOUS
  <2>3. f \in Nat
    BY <1>1, <2>1, <2>2, RiskAssumption DEF StressFactor, Stream
  <2>4. y.streams[s] = [x.streams[s] EXCEPT !.amount = @ * f, !.floor = @ * Whole]
    BY <1>3, <2>2
  <2>5. x.streams[s].amount * f \in Nat /\ x.streams[s].floor * Whole \in Nat
    BY <1>2, <2>1, <2>3 DEF Stream
  <2> HIDE DEF y
  <2> QED
    BY <2>1, <2>2, <2>4, <2>5 DEF Stream
<1>5. y.options \subseteq Option
  <2> SUFFICES ASSUME NEW z \in y.options PROVE z \in Option
    OBVIOUS
  <2>0. PICK os : os = {[o EXCEPT !.amount = @ * Whole, !.total = @ * Whole] : o \in x.options}
    OBVIOUS
  <2>1. z \in os
    BY <1>3, <2>0
  <2>2. PICK o \in x.options : z = [o EXCEPT !.amount = @ * Whole, !.total = @ * Whole]
    BY <2>0, <2>1
  <2>3. o \in Option
    BY DEF Input
  <2>4. o.amount * Whole \in Nat /\ o.total * Whole \in Nat
    BY <1>2, <2>3 DEF Option
  <2> HIDE DEF y
  <2> QED
    BY <2>2, <2>3, <2>4 DEF Option
<1>6. y.flow \in [Day -> Int] /\ y.flow[0] = 0
  <2>1. x.flow \in [Day -> Int] /\ x.flow[0] = 0
    BY DEF Input
  <2>2. 0 * Whole = 0
    BY <1>1
  <2>3. y.flow = [d \in Day |-> x.flow[d] * Whole]
    BY <1>3
  <2>4. \A d \in Day : x.flow[d] * Whole \in Int
    BY <1>2, <2>1
  <2> HIDE DEF y
  <2>5. y.flow \in [Day -> Int]
    BY <2>3, <2>4
  <2> QED
    BY <2>1, <2>2, <2>3, <2>5, ZeroIsADay
<1>7. y.streams \in [Streams -> Stream]
  BY <1>3, <1>4
<1>8. y.starting \in Int /\ y.minimum \in Nat /\ y.amount \in Nat \ {0}
  BY <1>2, <1>3 DEF Input
<1>9. y \in Input
  <2>1. /\ x.protected \in SUBSET Categories /\ x.stoppable \in SUBSET Categories
        /\ x.reducible \in SUBSET Categories /\ x.methods \in SUBSET Methods
        /\ x.maxDays \in Nat /\ x.deadline \in Nat /\ x.partial \in BOOLEAN
    BY DEF Input
  <2>2. y = [f \in DOMAIN x |-> y[f]] /\ DOMAIN y = DOMAIN x
    BY DEF StateWith, Input
  <2> HIDE DEF y
  <2> QED
    BY <1>3, <1>5, <1>6, <1>7, <1>8, <2>1, <2>2 DEF Input
<1> QED
  BY <1>3, <1>4, <1>9

-----------------------------------------------------------------------------
(* What an evaluation ends with *)

\* An evaluation fails for an option that lies in the past and for nothing else, and
\* one that is decided has closed a ledger.
OutcomeInv ==
  /\ built # {} => ~EndsInThePast
  /\ pc = "failed" => EndsInThePast
  /\ Evaluated => built # {}

\* Whether an option ends before the request depends on the input only.
LEMMA PastStays == in' = in => EndsInThePast' = EndsInThePast
BY DEF EndsInThePast, Accepted, OptionEnd

\* A ledger is finished only where no option ends in the past.
LEMMA OutcomeStep ==
  ASSUME IInv, OutcomeInv, [Next]_vars
  PROVE  OutcomeInv'
<1>1. in' = in /\ EndsInThePast' = EndsInThePast
  BY TypeStep, PastStays
<1>2. ASSUME built' = built, pc' \in {"combos", "maps", "scan", "living"} PROVE OutcomeInv'
  BY <1>1, <1>2 DEF OutcomeInv, Evaluated
<1>3. ASSUME NEW c \in Combos, StartLedger(c) PROVE OutcomeInv'
  BY <1>2, <1>3 DEF StartLedger
<1>4. ASSUME NEW s \in Streams, AddStream(s) PROVE OutcomeInv'
  BY <1>2, <1>4 DEF AddStream
<1>5. ASSUME OpenLedger PROVE OutcomeInv'
  BY <1>2, <1>5 DEF OpenLedger
<1>6. ASSUME CloseDay PROVE OutcomeInv'
  BY <1>2, <1>6 DEF CloseDay
<1>7. ASSUME GenerateCandidates PROVE OutcomeInv'
  BY <1>1, <1>7 DEF GenerateCandidates, OutcomeInv, Evaluated
<1>8. ASSUME Fail PROVE OutcomeInv'
  BY <1>1, <1>8 DEF Fail, engine, OutcomeInv, Evaluated
<1>9. ASSUME NEW c \in candidates, Recommend(c) PROVE OutcomeInv'
  BY <1>1, <1>9 DEF Recommend, engine, OutcomeInv
<1>10. ASSUME Advise PROVE OutcomeInv'
  BY <1>1, <1>10 DEF Advise, engine, OutcomeInv
<1>11. ASSUME NEW c \in Combos, Accept(c) PROVE OutcomeInv'
  BY <1>2, <1>11 DEF Accept, engine
<1>12. ASSUME LiveDay PROVE OutcomeInv'
  BY <1>2, <1>12 DEF LiveDay, engine
<1>13. ASSUME UNCHANGED vars PROVE OutcomeInv'
  BY <1>1, <1>13 DEF vars, engine, OutcomeInv, Evaluated
<1> QED
  BY <1>3, <1>4, <1>5, <1>6, <1>7, <1>8, <1>9, <1>10, <1>11, <1>12, <1>13 DEF Next, Rest

\* So it is in every reachable state.
LEMMA OutcomesHold == Spec => [](IInv /\ OutcomeInv)
<1>1. Init => IInv /\ OutcomeInv
  BY InitInv DEF Init, OutcomeInv, Evaluated
<1>2. IInv /\ OutcomeInv /\ [Next]_vars => IInv' /\ OutcomeInv'
  BY InvStep, OutcomeStep
<1> QED
  BY <1>1, <1>2, PTL DEF Spec

\* The batch programs fail on the inputs the engine fails on.
LEMMA RaisesIsPast == Raises(in) <=> EndsInThePast
BY DEF Raises, ShortEnough, EndsInThePast, Accepted

-----------------------------------------------------------------------------
(* The policies *)

\* A policy answers with the decision for the stressed state at moderate risk, or else
\* with that of V2 (apply_risk_policy).
LEMMA PolicyTakes ==
  ASSUME NEW policy \in Policies \ {"shadow_audit_only"}, ~Raises(in),
         NEW a \in V3Answers(in)[policy]
  PROVE  \/ /\ a \in StressedDecisions(in) /\ ClassifyRisk(in).tier = "MODERATE_RISK"
         \/ /\ a \in Answers(Rules, BaseState(in)) /\ a \in V3Answers(in)["shadow_audit_only"]
            /\ \/ ClassifyRisk(in).tier # "MODERATE_RISK"
               \/ a.method # "full_payment"
<1>1. \A q \in Policies :
        V3Answers(in)[q] = {ApplyRiskPolicy(q, s.v2, s.v3, s.tier) : s \in ShadowResults(in)}
  BY DEF V3Answers, UnderPolicies
<1>2. PICK s \in ShadowResults(in) : a = ApplyRiskPolicy(policy, s.v2, s.v3, s.tier)
  BY <1>1
<1>3. /\ s.v2 \in Answers(Rules, BaseState(in)) /\ s.v3 \in StressedDecisions(in)
      /\ s.tier = ClassifyRisk(in).tier
  BY DEF ShadowResults
<1>4. s.v2 \in V3Answers(in)["shadow_audit_only"]
  <2>1. "shadow_audit_only" \in Policies
    BY DEF Policies
  <2>2. ApplyRiskPolicy("shadow_audit_only", s.v2, s.v3, s.tier) = s.v2
    BY DEF ApplyRiskPolicy, TakesStressed
  <2> QED
    BY <1>1, <2>1, <2>2
<1>5. CASE s.tier = "MODERATE_RISK" /\ TakesStressed(policy, s.v2, s.v3)
  BY <1>2, <1>3, <1>5 DEF ApplyRiskPolicy
<1>6. CASE ~(s.tier = "MODERATE_RISK" /\ TakesStressed(policy, s.v2, s.v3))
  <2>1. a = s.v2
    BY <1>2, <1>6 DEF ApplyRiskPolicy
  <2>2. s.tier # "MODERATE_RISK" \/ a.method # "full_payment"
    BY <1>6, <2>1 DEF TakesStressed, Policies
  <2> QED
    BY <1>3, <1>4, <2>1, <2>2
<1> QED
  BY <1>5, <1>6

\* What the tier says of the amounts that are safe in both states.
LEMMA TierIs ==
  ClassifyRisk(in).tier =
    Tier(SafeToPay(BaseState(in), {}), SafeToPay(StressedState(in), {}), BaseState(in).amount)
BY DEF ClassifyRisk

\* A policy that is not the shadow policy pays at once and without conditions only at
\* low risk, and the plan it puts in the place of V2's is safe in the stressed forecast
\* (apply_risk_policy, run_v3).
THEOREM PoliciesAlwaysWithstandStress == Spec => []PoliciesWithstandStress
<1>1. IInv /\ OutcomeInv => PoliciesWithstandStress
  <2> SUFFICES ASSUME IInv, OutcomeInv, Evaluated,
                      NEW policy \in Policies \ {"shadow_audit_only"},
                      NEW a \in V3Answers(in)[policy]
               PROVE  /\ a.affordability = "affordable_now" => ClassifyRisk(in).tier = "LOW_RISK"
                      /\ a \notin V3Answers(in)["shadow_audit_only"] /\ a.method # "not_recommended" =>
                           PlanIsSafe(Rules, StressedState(in), a.planned, a.payments)
    BY DEF PoliciesWithstandStress
  <2>1. ~Raises(in)
    BY RaisesIsPast DEF OutcomeInv
  <2>2. in \in Input
    BY DEF IInv, TypeOK
  <2>3. /\ BaseState(in) \in Input /\ StressedState(in) \in Input
        /\ StressedState(in).amount = BaseState(in).amount
    BY <2>2, StateWithType DEF BaseState, StressedState
  <2>4. ~Rules.older
    BY DEF Rules, V2
  <2>5. CASE a \in StressedDecisions(in) /\ ClassifyRisk(in).tier = "MODERATE_RISK"
    <3>1. a \in Answers(Rules, StressedState(in))
      BY <2>5 DEF StressedDecisions
    <3>2. a.affordability # "affordable_now"
      <4> SUFFICES ASSUME a.affordability = "affordable_now" PROVE FALSE
        OBVIOUS
      <4>1. SafeToPay(StressedState(in), {}) >= StressedState(in).amount
        BY <2>3, <2>4, <3>1, NowIsSafe
      <4>2. ClassifyRisk(in).tier = "LOW_RISK"
        BY <2>3, <4>1, TierIs DEF Tier
      <4> QED
        BY <2>5, <4>2
    <3>3. ASSUME a.method # "not_recommended"
          PROVE  PlanIsSafe(Rules, StressedState(in), a.planned, a.payments)
      <4>1. ~Raises(StressedState(in))
        BY <3>1, <3>3 DEF Answers, ErrorAnswer
      <4>2. PICK p \in FeasiblePlans(Rules, StressedState(in)) \union {NotRecommended} :
              a.method = p.method /\ a.payments = p.payments /\ a.planned = p.changes
        BY <2>4, <3>1, <4>1, AnswerOf
      <4>3. p \in FeasiblePlans(Rules, StressedState(in))
        BY <3>3, <4>2 DEF NotRecommended
      <4> QED
        BY <4>2, <4>3, FeasibleIsSafe
    <3> QED
      BY <3>2, <3>3
  <2>6. CASE /\ a \in Answers(Rules, BaseState(in)) /\ a \in V3Answers(in)["shadow_audit_only"]
             /\ ClassifyRisk(in).tier # "MODERATE_RISK" \/ a.method # "full_payment"
    <3>1. ASSUME a.affordability = "affordable_now" PROVE ClassifyRisk(in).tier = "LOW_RISK"
      <4>1. a.method = "full_payment" /\ SafeToPay(BaseState(in), {}) >= BaseState(in).amount
        BY <2>3, <2>4, <2>6, <3>1, NowIsSafe
      <4>2. ClassifyRisk(in).tier \in {"LOW_RISK", "MODERATE_RISK"}
        BY <4>1, TierIs DEF Tier
      <4> QED
        BY <2>6, <4>1, <4>2
    <3> QED
      BY <2>6, <3>1
  <2> QED
    BY <2>1, <2>5, <2>6, PolicyTakes
<1> QED
  BY <1>1, OutcomesHold, PTL

-----------------------------------------------------------------------------
(* The payments of the plans *)

\* Factors keep the order.
LEMMA TimesMonotonic == \A i, k, m \in Nat : i <= k => i * m <= k * m
<1> SUFFICES ASSUME NEW i \in Nat, NEW k \in Nat, NEW m \in Nat, i <= k PROVE i * m <= k * m
  OBVIOUS
<1>1. PICK j \in Nat : k = i + j
  <2>1. k - i \in Nat /\ k = i + (k - i)
    OBVIOUS
  <2> QED
    BY <2>1
<1>2. k * m = i * m + j * m /\ i * m \in Nat /\ j * m \in Nat
  BY <1>1
<1> QED
  BY <1>2

\* The instalments of an option by number, their dates, and those of a day.
Parts(o) == 0..(o.count - 1)
DateOf(o, i) == o.first + i * o.every
DueDates(o) == {DateOf(o, i) : i \in Parts(o)}
OnDay(o, d) == Cardinality({i \in Parts(o) : DateOf(o, i) = d})

\* The dict of an option has the dates of its instalments, those of a day added up.
LEMMA PaymentsOfOption ==
  ASSUME NEW o
  PROVE  /\ DOMAIN PaymentsOf(o) = DueDates(o)
         /\ \A d \in DueDates(o) : PaymentsOf(o)[d] = o.amount * OnDay(o, d)
<1>1. PaymentsOf(o) = [d \in DueDates(o) |-> o.amount * OnDay(o, d)]
  BY DEF PaymentsOf, DueDates, OnDay, DateOf, Parts
<1> QED
  BY <1>1

\* The payments of an option, dates and amounts, end on its last date.
LEMMA OptionPayments ==
  ASSUME NEW o \in Option
  PROVE  /\ Payments(PaymentsOf(o)) /\ IsFiniteSet(DOMAIN PaymentsOf(o))
         /\ OptionEnd(o) \in DOMAIN PaymentsOf(o)
         /\ \A d \in DOMAIN PaymentsOf(o) : d <= OptionEnd(o)
<1>1. /\ o.first \in Int /\ o.every \in Nat /\ o.count \in Nat \ {0} /\ o.amount \in Nat
  BY DEF Option
<1>2. PICK I : I = Parts(o)
  OBVIOUS
<1>3. IsFiniteSet(I) /\ o.count - 1 \in I /\ I \subseteq Nat /\ \A i \in I : i <= o.count - 1
  <2>1. PICK last : last = o.count - 1 /\ last \in Nat
    BY <1>1
  <2>2. IsFiniteSet(0..last)
    BY <2>1, FS_Interval
  <2>3. last \in 0..last /\ 0..last \subseteq Nat /\ \A i \in 0..last : i <= last
    BY <2>1
  <2> QED
    BY <1>2, <2>1, <2>2, <2>3 DEF Parts
<1>4. PICK at : at = [i \in I |-> DateOf(o, i)]
  OBVIOUS
<1>5. \A m, n \in Nat : m * n \in Nat
  OBVIOUS
<1>6. \A i \in I : at[i] \in Int /\ at[i] <= OptionEnd(o)
  <2> SUFFICES ASSUME NEW i \in I PROVE at[i] \in Int /\ at[i] <= OptionEnd(o)
    OBVIOUS
  <2>1. i * o.every \in Nat /\ (o.count - 1) * o.every \in Nat
    BY <1>1, <1>3, <1>5
  <2>2. i * o.every <= (o.count - 1) * o.every
    BY <1>1, <1>3, TimesMonotonic
  <2> QED
    BY <1>1, <1>4, <2>1, <2>2 DEF OptionEnd, DateOf
<1>7. at[o.count - 1] = OptionEnd(o)
  BY <1>3, <1>4 DEF OptionEnd, DateOf
<1>8. DueDates(o) = {at[i] : i \in I}
  BY <1>2, <1>4 DEF DueDates
<1>9. IsFiniteSet({at[i] : i \in I})
  BY <1>3, FiniteImage
<1>10. \A d : o.amount * OnDay(o, d) \in Nat
  <2> SUFFICES ASSUME NEW d PROVE o.amount * OnDay(o, d) \in Nat
    OBVIOUS
  <2>1. OnDay(o, d) \in Nat
    BY <1>2, <1>3, FS_Subset, FS_CardinalityType DEF OnDay
  <2> QED
    BY <1>1, <1>5, <2>1
<1>11. PICK p : p = PaymentsOf(o)
  OBVIOUS
<1>12. DOMAIN p = {at[i] : i \in I} /\ \A d \in DOMAIN p : p[d] \in Nat
  BY <1>8, <1>10, <1>11, PaymentsOfOption
<1>13. \A d \in DOMAIN p : d \in Int /\ d <= OptionEnd(o)
  BY <1>6, <1>12
<1>14. OptionEnd(o) \in DOMAIN p
  BY <1>3, <1>7, <1>12
<1> QED
  BY <1>9, <1>11, <1>12, <1>13, <1>14 DEF Payments

\* The earliest date of a full payment is a day, if there is one.
LEMMA EarliestFullType ==
  ASSUME NEW x, NEW c
  PROVE  LET days == {d \in Day : MinimumClosing(x, c, Pay(d, x.amount)) >= x.minimum}
         IN  IF days = {} THEN EarliestFull(x, c) = None
             ELSE EarliestFull(x, c) \in days /\ \A d \in days : EarliestFull(x, c) <= d
<1>1. PICK days : days = {d \in Day : MinimumClosing(x, c, Pay(d, x.amount)) >= x.minimum}
  OBVIOUS
<1>2. days \in SUBSET Int /\ IsFiniteSet(days)
  <2>1. IsFiniteSet(Day) /\ Day \subseteq Int
    BY HorizonAssumption, FS_Interval DEF Day
  <2> QED
    BY <1>1, <2>1, FS_Subset
<1>3. EarliestFull(x, c) = IF days = {} THEN None ELSE Min(days)
  BY <1>1 DEF EarliestFull, Earliest
<1>4. days # {} => Min(days) \in days /\ \A d \in days : Min(days) <= d
  BY <1>2, Extremes
<1> QED
  BY <1>1, <1>3, <1>4

\* The plans of the batch programs for one combination of changes.
AllPlans(r, x, c) == PlansOf(r, x, c, SafeToPay(x, c), EarliestFull(x, c))

\* Every plan is a dict of payments that ends with the last of them, and its
\* feasibility is that of those payments.
LEMMA PlansPay ==
  ASSUME NEW r, NEW x \in Input, NEW c, NEW p \in AllPlans(r, x, c)
  PROVE  /\ Payments(p.payments) /\ p.last \in Int
         /\ Max(DOMAIN p.payments) = p.last
         /\ p.changes = c /\ p.feasible = PlanIsSafe(r, x, c, p.payments)
         /\ p.method \in Methods \union {"wait"}
<1> DEFINE safe == SafeToPay(x, c)
           e == EarliestFull(x, c)
           Ends(q, last) == /\ Payments(q) /\ IsFiniteSet(DOMAIN q)
                            /\ last \in DOMAIN q /\ \A d \in DOMAIN q : d <= last
<1>1. x.amount \in Nat /\ \A o \in x.options : o \in Option
  BY DEF Input
<1>2. safe \in Int
  BY SafeToPayIs
<1>3. e = None \/ e \in Day
  BY EarliestFullType
<1>4. Day \subseteq Int
  BY HorizonAssumption DEF Day
<1>5. \E q, method, first, last, count, total :
        /\ p = PlanOf(r, x, c, method, q, first, last, count, total)
        /\ method \in Methods \union {"wait"}
        /\ Ends(q, last)
  <2>1. \A d \in Int : Ends(Pay(d, x.amount), d)
    <3> SUFFICES ASSUME NEW d \in Int PROVE Ends(Pay(d, x.amount), d)
      OBVIOUS
    <3>1. Payments(Pay(d, x.amount)) /\ DOMAIN Pay(d, x.amount) = {d}
      BY <1>1, PlainPayments
    <3>2. IsFiniteSet({d})
      BY FS_Singleton
    <3>3. d <= d
      OBVIOUS
    <3> HIDE DEF safe, e
    <3>4. PICK q : q = Pay(d, x.amount)
      OBVIOUS
    <3>5. Ends(q, d)
      BY <3>1, <3>2, <3>3, <3>4
    <3> QED
      BY <3>4, <3>5
  <2>2. CASE p \in FullPlans(r, x, c, safe)
    BY <2>1, <2>2 DEF FullPlans, Methods
  <2>3. CASE p \in InstallmentPlans(r, x, c)
    <3>1. PICK o \in ShortEnough(x) :
            p = PlanOf(r, x, c, "installments", PaymentsOf(o), o.first, OptionEnd(o), o.count, o.total)
      BY <2>3 DEF InstallmentPlans
    <3>2. Ends(PaymentsOf(o), OptionEnd(o))
      BY <1>1, OptionPayments DEF ShortEnough
    <3> QED
      BY <3>1, <3>2 DEF Methods
  <2>4. CASE p \in PartialPlans(r, x, c, safe, e)
    <3>1. PICK q : q = [d \in {0, e} |-> IF d = e THEN x.amount - safe ELSE safe]
      OBVIOUS
    <3>2. /\ 0 < safe /\ safe < x.amount /\ e # None
          /\ p = PlanOf(r, x, c, "partial_payment", q, 0, e, 2, x.amount)
      BY <2>4, <3>1 DEF PartialPlans
    <3>3. e \in Int /\ 0 <= e
      BY <1>3, <3>2, HorizonAssumption DEF Day
    <3>4. IsFiniteSet({0, e})
      <4>1. {0, e} = {0} \union {e} /\ IsFiniteSet({0})
        BY FS_Singleton
      <4>2. IsFiniteSet({0} \union {e})
        BY <4>1, FS_AddElement
      <4> QED
        BY <4>1, <4>2
    <3>5. x.amount - safe \in Nat /\ safe \in Nat
      BY <1>1, <1>2, <3>2
    <3> HIDE DEF safe, e
    <3>6. Ends(q, e)
      BY <3>1, <3>3, <3>4, <3>5 DEF Payments
    <3> QED
      BY <3>2, <3>6 DEF Methods
  <2>5. CASE p \in WaitPlans(r, x, c, e)
    <3>1. e \in Int
      BY <1>3, <1>4, <2>5 DEF WaitPlans
    <3> QED
      BY <2>1, <2>5, <3>1 DEF WaitPlans
  <2> QED
    BY <2>2, <2>3, <2>4, <2>5 DEF AllPlans, PlansOf
<1>6. PICK q, method, first, last, count, total :
        /\ p = PlanOf(r, x, c, method, q, first, last, count, total)
        /\ method \in Methods \union {"wait"}
        /\ Ends(q, last)
  BY <1>5
<1>7. /\ p.payments = q /\ p.last = last /\ p.changes = c /\ p.method = method
      /\ p.feasible = PlanIsSafe(r, x, c, q)
  BY <1>6 DEF PlanOf
<1>8. DOMAIN q \in SUBSET Int /\ DOMAIN q # {} /\ IsFiniteSet(DOMAIN q) /\ last \in DOMAIN q
  BY <1>6 DEF Payments
<1>9. Max(DOMAIN q) \in DOMAIN q /\ \A y \in DOMAIN q : Max(DOMAIN q) >= y
  BY <1>8, Extremes
<1>10. Max(DOMAIN q) <= last /\ Max(DOMAIN q) >= last
  BY <1>6, <1>8, <1>9
<1> QED
  BY <1>6, <1>7, <1>8, <1>9, <1>10

-----------------------------------------------------------------------------
(* The older program *)

\* A payment that keeps the minimum to the cent keeps it within the tolerance, and the
\* plan is the same one.
LEMMA SamePlan ==
  ASSUME NEW x \in Input, NEW c, NEW m, NEW q, NEW f, NEW l, NEW n, NEW t,
         Payments(q), PlanIsSafe(Older, x, c, q)
  PROVE  PlanOf(V2, x, c, m, q, f, l, n, t) = PlanOf(Older, x, c, m, q, f, l, n, t)
<1>1. PICK g : g = BuildLedger(x, c, q) /\ g \in [Day -> Int]
  BY LedgerCloses
<1>2. \A d \in Day : d <= Max(DOMAIN q) => g[d] >= x.minimum - 0
  BY <1>1 DEF PlanIsSafe, Older
<1>3. \A d \in Day : g[d] \in Int
  BY <1>1
<1>4. x.minimum \in Nat /\ Epsilon \in Nat
  BY HorizonAssumption DEF Input
<1>5. \A d \in Day : d <= Max(DOMAIN q) => g[d] >= x.minimum - Epsilon
  BY <1>2, <1>3, <1>4
<1>6. PlanIsSafe(V2, x, c, q)
  BY <1>1, <1>5 DEF PlanIsSafe, V2
<1>7. PlanIsSafe(V2, x, c, q) = PlanIsSafe(Older, x, c, q)
  BY <1>6 DEF PlanIsSafe
<1> QED
  BY <1>7 DEF PlanOf

\* So every plan the older program finds feasible, V2 finds feasible, too.
LEMMA OlderPlansAreFeasible ==
  ASSUME NEW x \in Input, NEW c, NEW p \in AllPlans(Older, x, c), p.feasible
  PROVE  p \in AllPlans(V2, x, c)
<1>1. Payments(p.payments) /\ PlanIsSafe(Older, x, c, p.payments)
  BY PlansPay
<1>2. ASSUME NEW m, NEW q, NEW f, NEW l, NEW n, NEW t,
             p = PlanOf(Older, x, c, m, q, f, l, n, t)
      PROVE  p = PlanOf(V2, x, c, m, q, f, l, n, t)
  <2>1. p.payments = q
    BY <1>2 DEF PlanOf
  <2> QED
    BY <1>1, <1>2, <2>1, SamePlan
<1> DEFINE safe == SafeToPay(x, c)
           e == EarliestFull(x, c)
<1>3. CASE p \in FullPlans(Older, x, c, safe)
  <2>1. p = PlanOf(V2, x, c, "full_payment", Pay(0, x.amount), 0, 0, 1, x.amount)
    BY <1>2, <1>3 DEF FullPlans
  <2>2. p \in FullPlans(V2, x, c, safe)
    BY <1>3, <2>1 DEF FullPlans
  <2> QED
    BY <2>2 DEF AllPlans, PlansOf
<1>4. CASE p \in InstallmentPlans(Older, x, c)
  <2>1. PICK o \in ShortEnough(x) :
          p = PlanOf(Older, x, c, "installments", PaymentsOf(o), o.first, OptionEnd(o), o.count, o.total)
    BY <1>4 DEF InstallmentPlans
  <2>2. p = PlanOf(V2, x, c, "installments", PaymentsOf(o), o.first, OptionEnd(o), o.count, o.total)
    BY <1>2, <2>1
  <2>3. p \in InstallmentPlans(V2, x, c)
    BY <2>2 DEF InstallmentPlans
  <2> QED
    BY <2>3 DEF AllPlans, PlansOf
<1>5. CASE p \in PartialPlans(Older, x, c, safe, e)
  <2>1. PICK q : q = [d \in {0, e} |-> IF d = e THEN x.amount - safe ELSE safe]
    OBVIOUS
  <2>2. p = PlanOf(Older, x, c, "partial_payment", q, 0, e, 2, x.amount)
    BY <1>5, <2>1 DEF PartialPlans
  <2>3. p = PlanOf(V2, x, c, "partial_payment", q, 0, e, 2, x.amount)
    BY <1>2, <2>2
  <2>4. p \in PartialPlans(V2, x, c, safe, e)
    BY <1>5, <2>1, <2>3 DEF PartialPlans
  <2> QED
    BY <2>4 DEF AllPlans, PlansOf
<1>6. CASE p \in WaitPlans(Older, x, c, e)
  <2>1. p = PlanOf(V2, x, c, "wait", Pay(e, x.amount), e, e, 1, x.amount)
    BY <1>2, <1>6 DEF WaitPlans
  <2>2. p \in WaitPlans(V2, x, c, e)
    BY <1>6, <2>1 DEF WaitPlans
  <2> QED
    BY <2>2 DEF AllPlans, PlansOf
<1> QED
  BY <1>3, <1>4, <1>5, <1>6 DEF AllPlans, PlansOf

\* The feasible plans are those of the combinations.
LEMMA FeasibleArePlans ==
  \A r, x, p : p \in FeasiblePlans(r, x) <=>
    p.feasible /\ \E c \in ChangeCombos(x) : p \in AllPlans(r, x, c)
BY DEF FeasiblePlans, AllPlans

\* A plan of the older program keeps the minimum balance to the cent up to its last
\* payment, with the changes it announces, and V2 recommends a plan that ranks no worse
\* (is_plan_safe, select_best_candidate, make_decision).
THEOREM OlderAlwaysStricter == Spec => []OlderIsStricter
<1>1. in \in Input => OlderIsStricter
  <2> SUFFICES ASSUME in \in Input, NEW p \in SelectBest(Older, in), p.method # "not_recommended"
               PROVE  /\ \A d \in Day : d <= p.last =>
                           BuildLedger(in, OlderDecision(in, p).announced, p.payments)[d] >= in.minimum
                      /\ \A q \in SelectBest(V2, in) :
                           q.method # "not_recommended" /\ ~Precedes(SortKey(p), SortKey(q))
    BY DEF OlderIsStricter
  <2>1. p \in FeasiblePlans(Older, in)
    BY DEF SelectBest, BestOf, NotRecommended
  <2>2. PICK c \in ChangeCombos(in) : p \in AllPlans(Older, in, c)
    BY <2>1, FeasibleArePlans
  <2>3. /\ Payments(p.payments) /\ Max(DOMAIN p.payments) = p.last /\ p.changes = c
        /\ PlanIsSafe(Older, in, c, p.payments) /\ p.feasible
    BY <2>1, <2>2, PlansPay, FeasibleArePlans
  <2>4. OlderDecision(in, p).announced = c
    BY <2>3 DEF OlderDecision, MakeDecision, DecisionFor
  <2>5. ASSUME NEW d \in Day, d <= p.last
        PROVE  BuildLedger(in, c, p.payments)[d] >= in.minimum
    <3>1. BuildLedger(in, c, p.payments)[d] >= in.minimum - 0
      BY <2>3, <2>5 DEF PlanIsSafe, Older
    <3>2. in.minimum \in Nat
      BY DEF Input
    <3> QED
      BY <3>1, <3>2
  <2>6. p \in FeasiblePlans(V2, in)
    BY <2>2, <2>3, OlderPlansAreFeasible, FeasibleArePlans
  <2>7. ASSUME NEW q \in SelectBest(V2, in)
        PROVE  q.method # "not_recommended" /\ ~Precedes(SortKey(p), SortKey(q))
    <3>1. q \in FeasiblePlans(V2, in) /\ ~Precedes(SortKey(p), SortKey(q))
      BY <2>6 DEF SelectBest, BestOf
    <3>2. q.method \in Methods \union {"wait"}
      BY <3>1, FeasibleArePlans, PlansPay
    <3> QED
      BY <3>1, <3>2 DEF Methods
  <2> QED
    BY <2>4, <2>5, <2>7
<1>2. IInv => in \in Input
  BY DEF IInv, TypeOK
<1> QED
  BY <1>1, <1>2, InvHolds, PTL
=============================================================================
