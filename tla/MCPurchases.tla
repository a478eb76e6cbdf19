----------------------------- MODULE MCPurchases -----------------------------
(* Instances of PurchaseService for TLC: a year that is not a leap year.   *)
EXTENDS PurchaseService

SomeIds == 1..20000
Months2026 == <<31, 28, 31, 30, 31, 30, 31, 31, 30>>
At(m, dom) == DateIn(m, dom)

Rated(line, d, f, t, r) == [line |-> line, date |-> d, from |-> f, to |-> t, rate |-> r]

\* A file that has one pair both ways on a day, and a pair of which there is a seed.
SomeRates ==
  {Rated(1, At(4, 9), "USD", "EUR", 870), Rated(2, At(4, 9), "EUR", "USD", 1140),
   Rated(3, At(4, 30), "ZAR", "EUR", 48), Rated(4, At(3, 1), "EUR", "USD", 1090)}
SomeSeeds ==
  {Rated(5, At(3, 1), "EUR", "USD", 1100), Rated(6, At(3, 1), "GBP", "USD", 1250),
   Rated(7, At(3, 1), "INR", "USD", 12)}

Paid1(id, d, amount, category) ==
  [id |-> id, external |-> NoId, link |-> NoId, date |-> d, amount |-> -amount, currency |-> "EUR",
   direction |-> "debit", category |-> category, status |-> "settled", kind |-> "expense",
   words |-> "plain", verified |-> TRUE, flexibility |-> "fixed", least |-> 0]
Pay1(id, d, amount) ==
  [Paid1(id, d, -amount, "salary") EXCEPT !.direction = "credit", !.kind = "income"]

\* Months of rent and pay, as days of the months from January on.
Series(base, doms, amounts, category) ==
  {Paid1(base + m, At(m, doms[m]), amounts[m], category) : m \in DOMAIN doms}
Salaried(base, doms, amounts) == {Pay1(base + m, At(m, doms[m]), amounts[m]) : m \in DOMAIN doms}

Thing(amount, currency) == [amount |-> amount, currency |-> currency, wait |-> 0, options |-> {}]

Plain ==
  [profile |-> TRUE, minimum |-> 100, home |-> "EUR", cash |-> 2000, accounts |-> {}, rows |-> {},
   bills |-> {}, first |-> At(4, 8), final |-> At(4, 8), days |-> {At(4, 8)},
   purchases |-> {Thing(100, "EUR")}, messages |-> <<>>, unread |-> {}, pictures |-> {},
   version |-> "daily", follows |-> "none"]

-----------------------------------------------------------------------------
(* Lives after a forecast *)

Living == [Plain EXCEPT !.final = At(6, 12), !.days = {At(4, 8), At(4, 30), At(5, 3), At(5, 9), At(6, 11)}]

Changing == Series(100, <<5, 5, 5, 5>>, <<900, 900, 950, 800>>, "rent")
Steady == Series(100, <<5, 5, 5, 5>>, <<900, 900, 900, 900>>, "rent")
Early == Series(100, <<9, 9, 9, 7>>, <<40, 40, 45, 40>>, "gym")
Wages == Salaried(200, <<1, 1, 1, 1>>, <<1500, 1700, 1600, 1600>>)
EvenPay == Salaried(200, <<1, 1, 1, 1>>, <<1600, 1600, 1600, 1600>>)
EvenWages == Salaried(200, <<1, 1, 2, 1>>, <<1600, 1600, 1600, 1600>>)

Told(source, about, amount, d) ==
  [source |-> source, about |-> about, amount |-> amount, percent |-> Unknown, date |-> d]
RaisedBy(percent) == [Told("service_provider", {"rent"}, Unknown, NoDate) EXCEPT !.percent = percent]

\* What messages and pictures say: pay on another day, a rent that is raised twice, an
\* amount not read.
Letters ==
  {<<Told("employer", {"payroll"}, 1550, At(4, 3)), Told("employer", {"payroll"}, 1500, At(4, 4)),
     Told("bank", {"refund"}, 40, NoDate)>>,
   <<Told("service_provider", {"rent"}, 930, NoDate), RaisedBy(10),
     Told("service_provider", {"pending payout"}, 20, NoDate), RaisedBy(5)>>,
   <<Told("employer", {"contract ended", "bonus", "payroll"}, 10, NoDate),
     Told("employer", {"contract ended"}, Unknown, NoDate)>>}
Unread == [(CHOOSE r \in Steady : r.id = 103) EXCEPT !.amount = Unknown]
Picture == [event |-> 103, amount |-> 990, currency |-> "USD"]

\* Users of whom it is proved that their forecasts come true.
Habitual ==
  {[Living EXCEPT !.rows = Changing \union Wages, !.follows = "engine"]} \union
  {[Living EXCEPT !.rows = Steady \union EvenPay, !.follows = "batch", !.version = v] : v \in {"older", "filtered"}}

ASSUME HabitualAreRegular == \A w \in Habitual : Regular(w)

Lives ==
  {[Living EXCEPT !.rows = {r \in Steady : r.id # 103} \union EvenWages, !.follows = "batch",
                  !.unread = {Unread}, !.pictures = {Picture}, !.messages = letters, !.version = v] :
     letters \in Letters, v \in {"older", "filtered"}} \union
  {[Living EXCEPT !.rows = r, !.follows = "engine"] :
     r \in {Changing \union Wages, Steady \union Early \union EvenWages}} \union
  {[Living EXCEPT !.rows = Steady \union EvenWages, !.follows = "batch"]} \union Habitual

-----------------------------------------------------------------------------
(* Bills *)

SomeBills ==
  {[id |-> 10, amount |-> 70, due |-> At(4, 10), category |-> "electronics"],
   [id |-> 20, amount |-> 30, due |-> At(4, 9), category |-> "electronics"],
   [id |-> 30, amount |-> 50, due |-> At(4, 10), category |-> "gym"]}

Billed ==
  {[Plain EXCEPT !.rows = Changing, !.bills = bills, !.final = At(4, 10),
                 !.days = {At(4, 8), At(4, 9), At(4, 10)}, !.version = v] :
     bills \in {{a, b} : a, b \in SomeBills}, v \in {"older", "daily"}}

\* They are users of whom it is proved that each bill counts once.
ASSUME BilledAreQuiet == \A w \in Billed : Quiet(w)

-----------------------------------------------------------------------------
(* Foreign purchases, and what the gate looks at *)

Account(kind, currency, balance) ==
  [kind |-> kind, active |-> TRUE, currency |-> currency, balance |-> balance]

\* A seller's three payments, which may have ended.
Three(from) == [amount |-> 333, count |-> 3, from |-> from]

Abroad ==
  {[Plain EXCEPT !.rows = Changing, !.home = home,
                 !.accounts = accounts, !.first = day, !.final = day, !.days = {day},
                 !.purchases = {[Thing(amount, c) EXCEPT !.options = {Three(-60), Three(-61)}] :
                                  amount \in {0, 1, 99, 1000}, c \in {"USD", "GBP", "INR", "ZAR"}}] :
     home \in {"EUR", "INR", "GBP"}, day \in {At(4, 8), At(4, 30)},
     accounts \in {{Account("checking", "EUR", 800), Account("savings", "GBP", 900), Account("credit", "ZAR", Unknown)}}}

Doubtful ==
  {[Plain EXCEPT !.rows = r, !.profile = profile, !.minimum = minimum, !.cash = held, !.accounts = accounts] :
     r \in {Changing, {x \in Changing : x.date > At(2, 28)}, {[x EXCEPT !.verified = FALSE] : x \in Changing}},
     profile \in BOOLEAN, minimum \in {-1, 100}, held \in {0, 2000},
     accounts \in {{}, {Account("checking", "USD", 500), Account("credit", "ZAR", Unknown)},
                   {Account("savings", "EUR", Unknown)}, {Account("cash", "ZAR", 500)}}}

Stale == {[Plain EXCEPT !.rows = Series(100, <<1, 1, 1>>, <<5, 5, 5>>, "rent"), !.first = d, !.final = d, !.days = {d}] :
            d \in {At(5, 30), At(5, 31)}}

\* Wages paid by the day.
Daily == {[Plain EXCEPT !.rows = {Pay1(200 + k, At(4, 1) + (k - 1) \div 2, 50) : k \in 1..5}]}

SomeWorlds == Lives \union Billed \union Abroad \union Doubtful \union Stale \union Daily
=============================================================================
