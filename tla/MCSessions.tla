----------------------------- MODULE MCSessions -----------------------------
(* Instances of ServiceSessions for TLC. *)
EXTENDS ServiceSessions, TLC

CONSTANTS c1, c2, c3, t1, e1, e2, a1, a2

Nothing == [f \in Fields |-> Omitted]
Ask(kind, from, email, t, good) ==
  [kind |-> kind, from |-> from, email |-> email, token |-> t, good |-> good, update |-> Nothing]
Save(t, update) ==
  [Ask("save", a1, e1, t, TRUE) EXCEPT !.update = update @@ Nothing]

\* A new user and one with a session; from another address, where quotas matter.
Registering == {Ask("register", a1, e2, NoToken, good) : good \in BOOLEAN}
Failing == {Ask("login", from, e1, NoToken, FALSE) : from \in Addresses}
LoggingIn == {Ask("login", a1, e, NoToken, TRUE) : e \in Emails}
LoggingOut == {Ask("logout", a1, e1, t, TRUE) : t \in Tokens}
Reading == {Ask("show", a1, e1, t, TRUE) : t \in Tokens}
Saving == {Save(t1, u) : u \in {"balance" :> "some", "payment_methods" :> "few",
                                 "balance" :> "none" @@ "payment_methods" :> "[]"}}

SomeRequests == Registering \union Failing \union LoggingIn \union LoggingOut
                \union Reading \union Saving \union {Ask("show", a1, e1, NoToken, TRUE)}

\* The calls of a behaviour belong to one story; profiles matter to the last.
Stories == {Registering \union LoggingIn, LoggingIn \union Failing,
            {Ask("login", a1, e1, NoToken, TRUE)} \union LoggingOut \union Reading}
Editing == Saving \union {Ask("logout", a1, e1, t1, TRUE), Ask("show", a1, e1, NoToken, TRUE)}
Asked == {call[c] : c \in {d \in Calls : pc[d] # "idle"}}
OneStory ==
  \/ Asked \subseteq Editing
  \/ profile[e1] = NoProfile /\ \E story \in Stories : Asked \subseteq story

Limits == [auth |-> 5, general |-> 2]
Defaults == [balance |-> "none", payment_methods |-> "all"]
CallSymmetry == Permutations(Calls)
=============================================================================
