--------------------------- MODULE SessionsProofs ---------------------------
(* Theorems about ServiceSessions: the tables and the calls; then its limits,  *)
(* the request windows and the failed logins.  Their lists stay in the order   *)
(* of time, so that what is left of one is its end; as far back as they reach  *)
(* they agree with the log.                                                    *)
EXTENDS ServiceSessions, FiniteSetTheorems, NaturalsInduction, TLAPS

-----------------------------------------------------------------------------
(* The inductive invariant *)

\* Where the handlers are that have a user.
Owned == {"user", "revoke", "show", "load", "merge", "write"}

\* A call names a token that was issued, and some token once it was checked; a
\* token is issued at the end of its login.
TokensIssued ==
  /\ \A c \in Calls :
       /\ pc[c] # "idle" /\ call[c].token # NoToken => token[call[c].token] # NoToken
       /\ pc[c] \in Owned => call[c].token # NoToken
       /\ pc[c] \in Owned \union {"token"} => call[c].kind \in {"logout", "show", "save"}
  /\ \A c \in Calls : token[c] # NoToken => pc[c] = "done"

\* Its registration is on record.
Registered(c) == <<"user_registered", c>> \in audit

\* A call that has not ended has no answer and has registered nobody.
UnendedAreFresh ==
  \A c \in Calls : pc[c] # "done" =>
    answer[c] = NoAnswer /\ ~Registered(c)

\* Revocations are never taken back.
DeadStayRevoked == \A c \in Calls : dead[c] \subseteq revoked

\* A registration leaves an account, and one address has one registration; an
\* account comes from one, or was there, and only an account makes one fail.
Registrations ==
  /\ \A e \in Emails : account[e] # "none" <=>
       e \in Known \/ \E c \in Calls : call[c].email = e /\ Registered(c)
  /\ \A c \in Calls :
       /\ answer[c] = 201 <=> Registered(c)
       /\ answer[c] \in {409, 500} /\ call[c].kind = "register" => account[call[c].email] # "none"
       /\ \A d \in Calls :
            /\ Registered(c) /\ Registered(d)
            /\ call[c].email = call[d].email
            => c = d

\* No profile has an empty list of payment methods.
HasMethods(p) == "payment_methods" \in Fields => p.field["payment_methods"] # "[]"

\* A save that has loaded a profile writes to what it has loaded, and profiles
\* do not go away.
Saves ==
  /\ \A e \in Emails : profile[e] # NoProfile => HasMethods(profile[e])
  /\ \A c \in Calls :
       /\ seen[c] # NoProfile => HasMethods(seen[c])
       /\ pc[c] = "write" /\ seen[c] # NoProfile => base[c] = seen[c]
       /\ pc[c] = "merge" /\ seen[c] # NoProfile => profile[Owner(c)] # NoProfile
       /\ pc[c] = "write" /\ base[c] # NoProfile => profile[Owner(c)] # NoProfile

IInv ==
  /\ clock \in Time
  /\ TablesTyped
  /\ CallsTyped
  /\ TokensIssued
  /\ UnendedAreFresh
  /\ DeadStayRevoked
  /\ RevokedStayOut
  /\ Registrations
  /\ Saves

-----------------------------------------------------------------------------
(* Types *)

\* What a save stores is a value.
LEMMA StoredIsAValue ==
  ASSUME CallsTyped, NEW c \in Calls, NEW f \in Fields
  PROVE  Stored(c, f) \in Values
<1>1. call[c].update \in [Fields -> Values \union {Omitted}]
  BY DEF CallsTyped, Request, Update
<1>2. seen[c] # NoProfile => seen[c].field \in [Fields -> Values]
  BY DEF CallsTyped, Profile
<1>3. Given(c, f) \in Values
  BY <1>1, <1>2, ProfileAssumption DEF Given
<1> QED
  BY <1>3, ProfileAssumption DEF Stored

\* A service that has just started is typed.
LEMMA InitTyped == Init => clock \in Time /\ TablesTyped /\ CallsTyped
<1> SUFFICES ASSUME Init PROVE clock \in Time /\ TablesTyped /\ CallsTyped
  OBVIOUS
<1>1. clock \in Time
  BY TimeAssumption DEF Init, Time
<1>2. TablesTyped
  <2>1. account \in [Emails -> Status]
    BY DEF Init, Status
  <2>2. token \in [Tokens -> [email : Emails, expires : Nat] \union {NoToken}]
    BY TokenAssumption, TimeAssumption DEF Init
  <2>3. profile \in [Emails -> Profile \union {NoProfile}]
    BY ProfileAssumption DEF Init, Profile
  <2> QED
    BY <2>1, <2>2, <2>3 DEF Init, TablesTyped
<1>3. CallsTyped
  <2>1. (CHOOSE r \in Requests : TRUE) \in Request
    BY RequestAssumption
  <2> QED
    BY <2>1 DEF Init, CallsTyped, NoAnswer, Codes
<1> QED
  BY <1>1, <1>2, <1>3

\* A call that moves on, or is answered, keeps the types of pc and answer.
LEMMA GotoTyped ==
  ASSUME CallsTyped, NEW c \in Calls, NEW phase \in Working, Goto(c, phase)
  PROVE  /\ pc' \in [Calls -> {"idle", "done", "lost"} \union Working]
         /\ answer' \in [Calls -> Codes \union {NoAnswer}]
BY DEF CallsTyped, Goto

\* A call that is answered keeps them too.
LEMMA FinishTyped ==
  ASSUME CallsTyped, NEW c \in Calls, NEW code \in Codes, Finish(c, code)
  PROVE  /\ pc' \in [Calls -> {"idle", "done", "lost"} \union Working]
         /\ answer' \in [Calls -> Codes \union {NoAnswer}]
BY DEF CallsTyped, Finish

\* The steps of a call that write no table and load nothing.
LEMMA PlainStepTyped ==
  ASSUME TablesTyped, CallsTyped, clock \in Time, NEW c \in Calls,
         \/ \E phase \in Working : Goto(c, phase)
         \/ \E code \in Codes : Finish(c, code),
         UNCHANGED <<tables, clock, call, seen, base, dead>>
  PROVE  clock' \in Time /\ TablesTyped' /\ CallsTyped'
<1>1. /\ pc' \in [Calls -> {"idle", "done", "lost"} \union Working]
      /\ answer' \in [Calls -> Codes \union {NoAnswer}]
  BY GotoTyped, FinishTyped
<1>2. TablesTyped'
  BY DEF TablesTyped, tables
<1> QED
  BY <1>1, <1>2 DEF CallsTyped

\* A save has an owner.
LEMMA OwnerTyped ==
  ASSUME TablesTyped, CallsTyped, TokensIssued, NEW c \in Calls,
         pc[c] \in Owned
  PROVE  Owner(c) \in Emails
<1>1. call[c].token \in Tokens
  BY DEF CallsTyped, Request, Tokens, TokensIssued, Owned
<1>2. token[call[c].token] \in [email : Emails, expires : Nat]
  BY <1>1 DEF TablesTyped, TokensIssued, Owned
<1> QED
  BY <1>2 DEF Owner

\* Every step keeps the types.
LEMMA NextTyped ==
  ASSUME TablesTyped, CallsTyped, TokensIssued, Saves, clock \in Time, [Next]_vars
  PROVE  clock' \in Time /\ TablesTyped' /\ CallsTyped'
<1> USE DEF Codes, Working, Owned
<1>1. ASSUME NEW c \in Calls, NEW r \in Requests, Arrive(c, r)
      PROVE  clock' \in Time /\ TablesTyped' /\ CallsTyped'
  <2>1. Goto(c, Proceed(r.kind)) \/ Finish(c, 429)
    BY <1>1 DEF Arrive
  <2>2. Proceed(r.kind) \in Working
    BY DEF Proceed
  <2>3. /\ pc' \in [Calls -> {"idle", "done", "lost"} \union Working]
        /\ answer' \in [Calls -> Codes \union {NoAnswer}]
    BY <2>1, <2>2, GotoTyped, FinishTyped
  <2>4. call' \in [Calls -> Request] /\ dead' \in [Calls -> SUBSET Tokens]
    BY <1>1, RequestAssumption DEF Arrive, CallsTyped, TablesTyped
  <2> QED
    BY <1>1, <2>3, <2>4 DEF Arrive, TablesTyped, CallsTyped, tables
<1>2. ASSUME NEW c \in Calls, CheckToken(c)
      PROVE  clock' \in Time /\ TablesTyped' /\ CallsTyped'
  BY <1>2, PlainStepTyped DEF CheckToken, history
<1>3. ASSUME NEW c \in Calls, ResolveUser(c)
      PROVE  clock' \in Time /\ TablesTyped' /\ CallsTyped'
  <2>1. CASE account[Owner(c)] = "active"
    <3>1. call[c].kind \in {"logout", "show", "save"}
      BY <1>3 DEF ResolveUser, TokensIssued
    <3> QED
      BY <1>3, <2>1, <3>1, PlainStepTyped DEF ResolveUser, history
  <2>2. CASE account[Owner(c)] # "active"
    BY <1>3, <2>2, PlainStepTyped DEF ResolveUser, history
  <2> QED
    BY <2>1, <2>2
<1>4. ASSUME NEW c \in Calls, LookupEmail(c)
      PROVE  clock' \in Time /\ TablesTyped' /\ CallsTyped'
  BY <1>4, PlainStepTyped DEF LookupEmail, history
<1>5. ASSUME NEW c \in Calls, CreateUser(c)
      PROVE  clock' \in Time /\ TablesTyped' /\ CallsTyped'
  <2>1. account' \in [Emails -> Status] /\ audit' \subseteq Events \X Calls
    BY <1>5 DEF CreateUser, TablesTyped, Status, Log, Events
  <2>2. Finish(c, 201) \/ Finish(c, 500)
    BY <1>5 DEF CreateUser
  <2>3. /\ pc' \in [Calls -> {"idle", "done", "lost"} \union Working]
        /\ answer' \in [Calls -> Codes \union {NoAnswer}]
    BY <2>2, FinishTyped
  <2> QED
    BY <1>5, <2>1, <2>3 DEF CreateUser, TablesTyped, CallsTyped, history
<1>6. ASSUME NEW c \in Calls, CheckThrottle(c)
      PROVE  clock' \in Time /\ TablesTyped' /\ CallsTyped'
  BY <1>6, PlainStepTyped DEF CheckThrottle
<1>7. ASSUME NEW c \in Calls, CountLogin(c)
      PROVE  clock' \in Time /\ TablesTyped' /\ CallsTyped'
  BY <1>7, PlainStepTyped DEF CountLogin
<1>8. ASSUME NEW c \in Calls, VerifyPassword(c)
      PROVE  clock' \in Time /\ TablesTyped' /\ CallsTyped'
  <2>1. Finish(c, 401) \/ Finish(c, 403) \/ Finish(c, 200)
    BY <1>8 DEF VerifyPassword, RejectLogin, AcceptLogin
  <2>2. /\ pc' \in [Calls -> {"idle", "done", "lost"} \union Working]
        /\ answer' \in [Calls -> Codes \union {NoAnswer}]
    BY <2>1, FinishTyped
  <2>3. audit' \subseteq Events \X Calls
    BY <1>8 DEF VerifyPassword, RejectLogin, AcceptLogin, TablesTyped, Log, Events
  <2>4. token' \in [Tokens -> [email : Emails, expires : Nat] \union {NoToken}]
    <3>1. call[c].email \in Emails
      BY DEF CallsTyped, Request
    <3>2. clock + TokenLife \in Nat
      BY TimeAssumption DEF Time
    <3>3. UNCHANGED token \/ AcceptLogin(c)
      BY <1>8 DEF VerifyPassword, RejectLogin
    <3> QED
      BY <3>1, <3>2, <3>3 DEF AcceptLogin, TablesTyped, Tokens
  <2> QED
    BY <1>8, <2>2, <2>3, <2>4 DEF VerifyPassword, TablesTyped, CallsTyped
<1>9. ASSUME NEW c \in Calls, Revoke(c)
      PROVE  clock' \in Time /\ TablesTyped' /\ CallsTyped'
  <2>1. Finish(c, 401) \/ Finish(c, 500) \/ Finish(c, 200)
    BY <1>9 DEF Revoke
  <2>2. /\ pc' \in [Calls -> {"idle", "done", "lost"} \union Working]
        /\ answer' \in [Calls -> Codes \union {NoAnswer}]
    BY <2>1, FinishTyped
  <2>3. call[c].token \in Tokens
    BY <1>9 DEF Revoke, CallsTyped, Request, TokensIssued, Tokens
  <2>4. revoked' \subseteq Tokens /\ audit' \subseteq Events \X Calls
    BY <1>9, <2>3 DEF Revoke, TablesTyped, Log, Events
  <2> QED
    BY <1>9, <2>2, <2>4 DEF Revoke, TablesTyped, CallsTyped, history
<1>10. ASSUME NEW c \in Calls, ShowProfile(c)
       PROVE  clock' \in Time /\ TablesTyped' /\ CallsTyped'
  BY <1>10, PlainStepTyped DEF ShowProfile, history
<1>11. ASSUME NEW c \in Calls, LoadProfile(c) \/ MergeProfile(c)
       PROVE  clock' \in Time /\ TablesTyped' /\ CallsTyped'
  <2>1. Owner(c) \in Emails
    BY <1>11, OwnerTyped DEF LoadProfile, MergeProfile
  <2>2. Goto(c, "merge") \/ Goto(c, "write")
    BY <1>11 DEF LoadProfile, MergeProfile
  <2>3. /\ pc' \in [Calls -> {"idle", "done", "lost"} \union Working]
        /\ answer' \in [Calls -> Codes \union {NoAnswer}]
    BY <2>2, GotoTyped
  <2>4. profile[Owner(c)] \in Profile \union {NoProfile}
    BY <2>1 DEF TablesTyped
  <2>5. /\ seen' \in [Calls -> Profile \union {NoProfile}]
        /\ base' \in [Calls -> Profile \union {NoProfile}]
    BY <1>11, <2>4 DEF LoadProfile, MergeProfile, CallsTyped, tables
  <2> QED
    BY <1>11, <2>3, <2>5 DEF LoadProfile, MergeProfile, TablesTyped, CallsTyped, tables, history
<1>12. ASSUME NEW c \in Calls, SaveProfile(c)
       PROVE  clock' \in Time /\ TablesTyped' /\ CallsTyped'
  <2>1. Owner(c) \in Emails
    BY <1>12, OwnerTyped DEF SaveProfile
  <2>2. Finish(c, 200) \/ Finish(c, 500)
    BY <1>12 DEF SaveProfile, InsertProfile, UpdateProfile
  <2>3. /\ pc' \in [Calls -> {"idle", "done", "lost"} \union Working]
        /\ answer' \in [Calls -> Codes \union {NoAnswer}]
    BY <2>2, FinishTyped
  <2>4. profile' \in [Emails -> Profile \union {NoProfile}]
    <3>1. CASE InsertProfile(c)
      <4>1. [version |-> 1, field |-> [f \in Fields |-> Stored(c, f)]] \in Profile
        BY StoredIsAValue DEF Profile
      <4> QED
        BY <3>1, <4>1 DEF InsertProfile, TablesTyped
    <3>2. CASE UpdateProfile(c)
      <4>1. base[c].version + 1 \in Nat \ {0}
        BY <3>2 DEF UpdateProfile, CallsTyped, Profile
      <4>2. profile[Owner(c)].field \in [Fields -> Values]
        BY <1>12, <2>1, <3>2 DEF SaveProfile, UpdateProfile, Saves, TablesTyped, Profile
      <4>3. [version |-> base[c].version + 1,
             field |-> [f \in Fields |-> IF f \in Written(c) THEN Stored(c, f)
                                         ELSE profile[Owner(c)].field[f]]] \in Profile
        BY <4>1, <4>2, StoredIsAValue DEF Profile
      <4> QED
        BY <3>2, <4>3 DEF UpdateProfile, TablesTyped
    <3> QED
      BY <1>12, <3>1, <3>2 DEF SaveProfile
  <2>5. /\ seen' \in [Calls -> Profile \union {NoProfile}]
        /\ base' \in [Calls -> Profile \union {NoProfile}]
    BY <1>12 DEF SaveProfile, Forget, CallsTyped
  <2> QED
    BY <1>12, <2>3, <2>4, <2>5 DEF SaveProfile, TablesTyped, CallsTyped, history
<1>13. ASSUME NEW e \in Emails, Suspend(e)
       PROVE  clock' \in Time /\ TablesTyped' /\ CallsTyped'
  BY <1>13 DEF Suspend, TablesTyped, CallsTyped, Status, history
<1>14. CASE Tick
  BY <1>14, TimeAssumption DEF Tick, Time, TablesTyped, CallsTyped, tables, history
<1>15. CASE Restart
  BY <1>15 DEF Restart, Forget, TablesTyped, CallsTyped, tables
<1>16. CASE UNCHANGED vars
  BY <1>16 DEF vars, TablesTyped, CallsTyped
<1> QED
  BY <1>1, <1>2, <1>3, <1>4, <1>5, <1>6, <1>7, <1>8, <1>9, <1>10, <1>11, <1>12, <1>13,
     <1>14, <1>15, <1>16 DEF Next, Step

-----------------------------------------------------------------------------
(* Tokens *)

\* An accepted login is the only step that changes table token, and it issues a
\* token that was not there.
LEMMA TokensChange ==
  ASSUME clock \in Time, CallsTyped, TablesTyped, TokensIssued, [Next]_vars
  PROVE  \/ UNCHANGED token
         \/ \E c \in Calls : /\ pc[c] = "verify" /\ pc'[c] = "done" /\ UNCHANGED call
                             /\ token[c] = NoToken /\ token'[c] # NoToken
                             /\ \A t \in Tokens \ {c} : token'[t] = token[t]
                             /\ \A d \in Calls \ {c} : pc'[d] = pc[d]
<1>1. ASSUME NEW c \in Calls, VerifyPassword(c), AcceptLogin(c)
      PROVE  /\ pc[c] = "verify" /\ pc'[c] = "done" /\ UNCHANGED call
             /\ token[c] = NoToken /\ token'[c] # NoToken
             /\ \A t \in Tokens \ {c} : token'[t] = token[t]
             /\ \A d \in Calls \ {c} : pc'[d] = pc[d]
  <2>1. c \in Tokens
    BY DEF Tokens
  <2>2. pc[c] = "verify" /\ UNCHANGED call
    BY <1>1 DEF VerifyPassword
  <2>3. pc' = [pc EXCEPT ![c] = "done"]
    BY <1>1 DEF AcceptLogin, Finish
  <2>4. token[c] = NoToken
    BY <2>2 DEF TokensIssued
  <2>5. token' = [token EXCEPT ![c] = [email |-> call[c].email, expires |-> clock + TokenLife]]
    BY <1>1 DEF AcceptLogin
  <2>6. token'[c] # NoToken
    <3>1. call[c].email \in Emails
      BY DEF CallsTyped, Request
    <3>2. token'[c] = [email |-> call[c].email, expires |-> clock + TokenLife]
      BY <2>1, <2>5 DEF TablesTyped
    <3>3. clock + TokenLife \in Nat
      BY TimeAssumption DEF Time
    <3> QED
      BY <3>1, <3>2, <3>3, TokenAssumption
  <2> QED
    BY <2>1, <2>2, <2>3, <2>4, <2>5, <2>6 DEF TablesTyped, CallsTyped
<1>2. ASSUME NEW c \in Calls, VerifyPassword(c), ~AcceptLogin(c)
      PROVE  UNCHANGED token
  BY <1>2 DEF VerifyPassword, RejectLogin
<1>3. ASSUME NEW c \in Calls, Step(c), ~VerifyPassword(c)
      PROVE  UNCHANGED token
  BY <1>3 DEF Step, CheckToken, ResolveUser, LookupEmail, CreateUser, CheckThrottle, CountLogin,
              Revoke, ShowProfile, LoadProfile, MergeProfile, SaveProfile, tables
<1>4. ASSUME NEW c \in Calls, NEW r \in Requests, Arrive(c, r)
      PROVE  UNCHANGED token
  BY <1>4 DEF Arrive, tables
<1>5. ASSUME (\E e \in Emails : Suspend(e)) \/ Tick \/ Restart \/ UNCHANGED vars
      PROVE  UNCHANGED token
  BY <1>5 DEF Suspend, Tick, Restart, vars, tables
<1> QED
  BY <1>1, <1>2, <1>3, <1>4, <1>5 DEF Next, Step

\* Every step keeps what calls know of their tokens.
LEMMA TokensKept ==
  ASSUME clock \in Time, CallsTyped, TablesTyped, TokensIssued, [Next]_vars
  PROVE  TokensIssued'
<1>1. ASSUME UNCHANGED token,
             \A c \in Calls :
               /\ pc'[c] # "idle" /\ call'[c].token # NoToken => token[call'[c].token] # NoToken
               /\ pc'[c] \in Owned => call'[c].token # NoToken
               /\ pc'[c] \in Owned \union {"token"} => call'[c].kind \in {"logout", "show", "save"}
               /\ pc[c] = "done" => pc'[c] = "done"
      PROVE  TokensIssued'
  BY <1>1 DEF TokensIssued
<1>2. ASSUME NEW c \in Calls, NEW r \in Requests, Arrive(c, r)
      PROVE  TokensIssued'
  <2>1. /\ pc[c] = "idle" /\ call' = [call EXCEPT ![c] = r] /\ UNCHANGED token
        /\ r.token # NoToken => token[r.token] # NoToken
    BY <1>2 DEF Arrive, tables
  <2>2. \/ pc' = [pc EXCEPT ![c] = "done"]
        \/ pc' = [pc EXCEPT ![c] = Proceed(r.kind)]
    BY <1>2 DEF Arrive, Goto, Finish
  <2>3. /\ Proceed(r.kind) \notin Owned
        /\ Proceed(r.kind) = "token" => r.kind \in {"logout", "show", "save"}
    BY RequestAssumption DEF Proceed, Owned, Request, Kinds
  <2>4. call'[c] = r /\ \A d \in Calls \ {c} : call'[d] = call[d] /\ pc'[d] = pc[d]
    BY <2>1, <2>2 DEF CallsTyped
  <2> QED
    BY <1>1, <2>1, <2>2, <2>3, <2>4 DEF TokensIssued, CallsTyped, Owned
<1>3. ASSUME NEW c \in Calls, CheckToken(c)
      PROVE  TokensIssued'
  BY <1>3, <1>1 DEF CheckToken, Acceptable, Goto, Finish, TokensIssued, CallsTyped, Owned, tables
<1>4. ASSUME NEW c \in Calls, \/ ResolveUser(c) \/ Revoke(c) \/ ShowProfile(c)
                              \/ LoadProfile(c) \/ MergeProfile(c)
      PROVE  TokensIssued'
  <2>1. /\ pc[c] \in Owned /\ UNCHANGED <<call, token>>
        /\ \/ \E phase \in Owned : pc' = [pc EXCEPT ![c] = phase]
           \/ pc' = [pc EXCEPT ![c] = "done"]
    BY <1>4 DEF ResolveUser, Revoke, ShowProfile, LoadProfile, MergeProfile, Goto, Finish,
                TokensIssued, Owned, tables
  <2>2. pc[c] # "done" /\ pc[c] # "idle"
    BY <2>1 DEF Owned
  <2>3. \A d \in Calls : d # c => pc'[d] = pc[d]
    BY <2>1 DEF CallsTyped
  <2>4. pc'[c] \in Owned \union {"done"}
    BY <2>1 DEF CallsTyped
  <2> QED
    BY <2>1, <2>2, <2>3, <2>4, <1>1 DEF TokensIssued, Owned
<1>5. ASSUME NEW c \in Calls, SaveProfile(c)
      PROVE  TokensIssued'
  <2>1. pc[c] = "write" /\ UNCHANGED <<call, token>> /\ pc' = [pc EXCEPT ![c] = "done"]
    BY <1>5 DEF SaveProfile, InsertProfile, UpdateProfile, Finish
  <2> QED
    BY <2>1, <1>1 DEF TokensIssued, CallsTyped, Owned
<1>6. ASSUME NEW c \in Calls, LookupEmail(c) \/ CreateUser(c) \/ CheckThrottle(c) \/ CountLogin(c)
      PROVE  TokensIssued'
  <2>1. /\ pc[c] # "idle" /\ UNCHANGED <<call, token>>
        /\ \E phase \in {"create", "count", "verify", "done"} : pc' = [pc EXCEPT ![c] = phase]
    BY <1>6 DEF LookupEmail, CreateUser, CheckThrottle, CountLogin, Goto, Finish, tables
  <2>2. pc[c] # "done"
    BY <1>6 DEF LookupEmail, CreateUser, CheckThrottle, CountLogin
  <2> QED
    BY <2>1, <2>2, <1>1 DEF TokensIssued, CallsTyped, Owned
<1>7. ASSUME NEW c \in Calls, VerifyPassword(c)
      PROVE  TokensIssued'
  <2>1. /\ pc[c] = "verify" /\ pc' = [pc EXCEPT ![c] = "done"] /\ UNCHANGED call
    BY <1>7 DEF VerifyPassword, RejectLogin, AcceptLogin, Finish
  <2>2. CASE UNCHANGED token
    BY <2>1, <2>2, <1>1 DEF TokensIssued, CallsTyped, Owned
  <2>3. ASSUME NEW a \in Calls, pc'[a] = "done", token'[a] # NoToken,
               \A t \in Tokens \ {a} : token'[t] = token[t]
        PROVE  TokensIssued'
    <3>1. ASSUME NEW d \in Calls, pc'[d] # "idle", call[d].token # NoToken
          PROVE  token'[call[d].token] # NoToken
      <4>1. call[d].token \in Tokens
        BY <3>1 DEF CallsTyped, Request, Tokens
      <4>2. token[call[d].token] # NoToken
        BY <2>1, <3>1 DEF TokensIssued, CallsTyped
      <4> QED
        BY <2>3, <4>1, <4>2
    <3>2. \A d \in Calls : token'[d] # NoToken => pc'[d] = "done"
      BY <2>1, <2>3 DEF TokensIssued, CallsTyped, Tokens
    <3> QED
      BY <2>1, <3>1, <3>2 DEF TokensIssued, CallsTyped, Owned
  <2> QED
    BY <2>2, <2>3, TokensChange
<1>8. ASSUME (\E e \in Emails : Suspend(e)) \/ Tick \/ UNCHANGED vars
      PROVE  TokensIssued'
  BY <1>8, <1>1 DEF Suspend, Tick, vars, tables, TokensIssued
<1>9. CASE Restart
  <2>1. UNCHANGED <<call, token>> /\ \A c \in Calls : pc'[c] = pc[c] \/ (pc[c] \in Working /\ pc'[c] = "lost")
    BY <1>9 DEF Restart, tables
  <2>2. \A c \in Calls : pc[c] = "done" => pc'[c] = "done"
    BY <2>1 DEF Working
  <2> QED
    BY <2>1, <2>2, <1>1 DEF TokensIssued, Owned, Working
<1> QED
  BY <1>2, <1>3, <1>4, <1>5, <1>6, <1>7, <1>8, <1>9 DEF Next, Step

-----------------------------------------------------------------------------
(* Revocations *)

\* A call that names a token revoked before it came gets no further than its check.
LEMMA RevokedKept ==
  ASSUME CallsTyped, UnendedAreFresh, DeadStayRevoked, RevokedStayOut, [Next]_vars
  PROVE  DeadStayRevoked' /\ RevokedStayOut'
<1>1. revoked \subseteq revoked'
  BY ZenonT(40) DEF Next, Step, Arrive, CheckToken, ResolveUser, LookupEmail, CreateUser, CheckThrottle,
         CountLogin, VerifyPassword, Revoke, ShowProfile, LoadProfile, MergeProfile, SaveProfile,
         Suspend, Tick, Restart, vars, tables
<1>2. ASSUME NEW c \in Calls, NEW r \in Requests, Arrive(c, r)
      PROVE  DeadStayRevoked' /\ RevokedStayOut'
  <2>1. /\ pc[c] = "idle" /\ call' = [call EXCEPT ![c] = r]
        /\ dead' = [dead EXCEPT ![c] = revoked] /\ UNCHANGED revoked
    BY <1>2 DEF Arrive, tables
  <2>2. \/ pc' = [pc EXCEPT ![c] = "done"] /\ answer' = [answer EXCEPT ![c] = 429]
        \/ pc' = [pc EXCEPT ![c] = Proceed(r.kind)] /\ UNCHANGED answer
    BY <1>2 DEF Arrive, Goto, Finish
  <2>3. r.kind \notin {"register", "login"} => Proceed(r.kind) = "token"
    BY DEF Proceed
  <2>4. answer[c] = NoAnswer
    BY <2>1 DEF UnendedAreFresh
  <2>5. DeadStayRevoked'
    BY <2>1 DEF DeadStayRevoked, CallsTyped
  <2>6. ASSUME NEW d \in Calls, d # c
        PROVE  /\ pc'[d] = pc[d] /\ call'[d] = call[d] /\ dead'[d] = dead[d] /\ answer'[d] = answer[d]
    BY <2>1, <2>2, <2>6 DEF CallsTyped
  <2>7. /\ call'[c] = r
        /\ r.kind \notin {"register", "login"} =>
             pc'[c] \in {"done", "token"} /\ answer'[c] \in {429, NoAnswer}
    BY <2>1, <2>2, <2>3, <2>4 DEF CallsTyped
  <2> QED
    BY <2>5, <2>6, <2>7 DEF RevokedStayOut
<1>3. ASSUME NEW c \in Calls, Step(c)
      PROVE  DeadStayRevoked' /\ RevokedStayOut'
  <2>1. UNCHANGED <<call, dead>> /\ \A d \in Calls : d # c => pc'[d] = pc[d] /\ answer'[d] = answer[d]
    BY <1>3 DEF Step, CheckToken, ResolveUser, LookupEmail, CreateUser, CheckThrottle, CountLogin,
                VerifyPassword, RejectLogin, AcceptLogin, Revoke, ShowProfile, LoadProfile,
                MergeProfile, SaveProfile, InsertProfile, UpdateProfile, Goto, Finish, history, CallsTyped
  <2>2. CASE CheckToken(c) /\ call[c].token \in dead[c]
    <3>1. Finish(c, 401)
      BY <2>2 DEF CheckToken, Acceptable, DeadStayRevoked
    <3>2. pc'[c] = "done" /\ answer'[c] = 401
      BY <3>1 DEF Finish, CallsTyped
    <3> QED
      BY <1>1, <2>1, <3>2 DEF DeadStayRevoked, RevokedStayOut
  <2>3. CASE call[c].token \notin dead[c]
    BY <1>1, <2>1, <2>3 DEF DeadStayRevoked, RevokedStayOut, CallsTyped
  <2>4. CASE ~CheckToken(c) /\ call[c].token \in dead[c]
    <3>1. pc[c] \notin {"idle", "token", "done", "lost"}
      BY <1>3, <2>4 DEF Step, ResolveUser, LookupEmail, CreateUser, CheckThrottle, CountLogin,
                        VerifyPassword, Revoke, ShowProfile, LoadProfile, MergeProfile, SaveProfile
    <3>2. call[c].kind \in {"register", "login"}
      BY <2>4, <3>1 DEF RevokedStayOut
    <3> QED
      BY <1>1, <2>1, <3>2 DEF DeadStayRevoked, RevokedStayOut
  <2> QED
    BY <2>2, <2>3, <2>4
<1>4. CASE Restart
  <2>1. UNCHANGED <<call, dead, answer, revoked>>
    BY <1>4 DEF Restart, tables
  <2>2. \A c \in Calls : /\ pc'[c] = "idle" <=> pc[c] = "idle"
                         /\ pc[c] \in {"token", "done", "lost"} => pc'[c] \in {"token", "done", "lost"}
    BY <1>4 DEF Restart, Working
  <2> QED
    BY <2>1, <2>2 DEF DeadStayRevoked, RevokedStayOut
<1>5. ASSUME (\E e \in Emails : Suspend(e)) \/ Tick \/ UNCHANGED vars
      PROVE  DeadStayRevoked' /\ RevokedStayOut'
  BY <1>5 DEF Suspend, Tick, vars, tables, history, DeadStayRevoked, RevokedStayOut
<1> QED
  BY <1>2, <1>3, <1>4, <1>5 DEF Next

-----------------------------------------------------------------------------
(* Registrations *)

\* What the steps do to the accounts, the registrations on record and the answers.
LEMMA RegistrationsChange ==
  ASSUME CallsTyped, TokensIssued, UnendedAreFresh, NEW c \in Calls, Step(c), ~CreateUser(c)
  PROVE  /\ UNCHANGED <<account, call>>
         /\ pc'[c] # "done" => answer'[c] = NoAnswer /\ ~Registered(c)'
         /\ answer[c] # 201 /\ answer'[c] # 201
         /\ answer'[c] \in {409, 500} /\ call[c].kind = "register" => account[call[c].email] # "none"
         /\ \A d \in Calls : Registered(d)' <=> Registered(d)
         /\ \A d \in Calls : d # c => pc'[d] = pc[d] /\ answer'[d] = answer[d]
<1>1. /\ UNCHANGED <<account, call>> /\ pc[c] # "done"
  BY DEF Step, CheckToken, ResolveUser, LookupEmail, CheckThrottle, CountLogin, VerifyPassword,
         Revoke, ShowProfile, LoadProfile, MergeProfile, SaveProfile, tables
<1>2. \/ \E phase \in Working : Goto(c, phase)
      \/ \E code \in Codes \ {201} :
           /\ Finish(c, code)
           /\ code \in {409, 500} /\ call[c].kind = "register" => account[call[c].email] # "none"
  <2> USE DEF Codes, Working
  <2>1. CASE ResolveUser(c)
    <3>1. call[c].kind \in {"logout", "show", "save"}
      BY <2>1 DEF ResolveUser, TokensIssued, Owned
    <3> QED
      BY <2>1, <3>1 DEF ResolveUser
  <2>2. CASE CheckToken(c) \/ LookupEmail(c) \/ CheckThrottle(c) \/ CountLogin(c)
    BY <2>2 DEF CheckToken, LookupEmail, CheckThrottle, CountLogin
  <2>3. CASE VerifyPassword(c)
    BY <2>3 DEF VerifyPassword, RejectLogin, AcceptLogin
  <2>4. CASE ShowProfile(c) \/ LoadProfile(c) \/ MergeProfile(c)
    BY <2>4 DEF ShowProfile, LoadProfile, MergeProfile
  <2>5. CASE Revoke(c) \/ SaveProfile(c)
    <3>1. call[c].kind # "register"
      BY <2>5 DEF Revoke, SaveProfile, TokensIssued, Owned
    <3> QED
      BY <2>5, <3>1 DEF Revoke, SaveProfile, InsertProfile, UpdateProfile
  <2> QED
    BY <2>1, <2>2, <2>3, <2>4, <2>5 DEF Step
<1>3. \A d \in Calls : Registered(d)' <=> Registered(d)
  BY DEF Registered, Step, CheckToken, ResolveUser, LookupEmail, CheckThrottle, CountLogin, VerifyPassword,
         RejectLogin, AcceptLogin, Log,
         Revoke, ShowProfile, LoadProfile, MergeProfile, SaveProfile, tables
<1>4. answer[c] = NoAnswer /\ ~Registered(c)
  BY <1>1 DEF UnendedAreFresh
<1>5. CASE \E phase \in Working : Goto(c, phase)
  BY <1>1, <1>3, <1>4, <1>5 DEF Goto, CallsTyped, NoAnswer
<1>6. CASE \E code \in Codes \ {201} :
             /\ Finish(c, code)
             /\ code \in {409, 500} /\ call[c].kind = "register" => account[call[c].email] # "none"
  BY <1>1, <1>3, <1>4, <1>6 DEF Finish, CallsTyped, NoAnswer
<1> QED
  BY <1>2, <1>5, <1>6

\* Every step keeps one registration of an address.
LEMMA RegistrationsKept ==
  ASSUME CallsTyped, TablesTyped, TokensIssued, UnendedAreFresh, Registrations, [Next]_vars
  PROVE  UnendedAreFresh' /\ Registrations'
<1>1. ASSUME NEW c \in Calls, NEW r \in Requests, Arrive(c, r)
      PROVE  UnendedAreFresh' /\ Registrations'
  <2>1. /\ pc[c] = "idle" /\ call' = [call EXCEPT ![c] = r] /\ UNCHANGED <<account, audit>>
    BY <1>1 DEF Arrive, tables
  <2>2. \/ pc' = [pc EXCEPT ![c] = "done"] /\ answer' = [answer EXCEPT ![c] = 429]
        \/ pc' = [pc EXCEPT ![c] = Proceed(r.kind)] /\ UNCHANGED answer
    BY <1>1 DEF Arrive, Goto, Finish
  <2>3. answer[c] = NoAnswer /\ ~Registered(c) /\ \A d \in Calls : Registered(d)' <=> Registered(d)
    BY <2>1 DEF UnendedAreFresh, Registered
  <2>4. answer'[c] \in {NoAnswer, 429} /\ (pc'[c] # "done" => answer'[c] = NoAnswer)
    BY <2>2, <2>3 DEF CallsTyped
  <2>5. \A d \in Calls : d # c => pc'[d] = pc[d] /\ call'[d] = call[d] /\ answer'[d] = answer[d]
    BY <2>1, <2>2 DEF CallsTyped
  <2>6. UnendedAreFresh'
    BY <2>3, <2>4, <2>5 DEF UnendedAreFresh
  <2>7. Registrations'
    BY <2>1, <2>3, <2>4, <2>5 DEF Registrations, NoAnswer
  <2> QED
    BY <2>6, <2>7
<1>2. ASSUME NEW c \in Calls, CreateUser(c)
      PROVE  UnendedAreFresh' /\ Registrations'
  <2>1. pc[c] = "create" /\ UNCHANGED call /\ answer[c] = NoAnswer /\ ~Registered(c)
    BY <1>2 DEF CreateUser, UnendedAreFresh
  <2>2. CASE /\ account[call[c].email] = "none"
             /\ account' = [account EXCEPT ![call[c].email] = "active"]
             /\ audit' = audit \union {<<"user_registered", c>>}
             /\ Finish(c, 201)
    <3>1. \A d \in Calls : call[d].email \in Emails
      BY DEF CallsTyped, Request
    <3>2. /\ account'[call[c].email] # "none"
          /\ \A e \in Emails : e # call[c].email => account'[e] = account[e]
      BY <2>2, <3>1 DEF TablesTyped
    <3>3. /\ pc'[c] = "done" /\ answer'[c] = 201
          /\ \A d \in Calls : d # c => pc'[d] = pc[d] /\ answer'[d] = answer[d]
      BY <2>2 DEF Finish, CallsTyped
    <3>4. \A d \in Calls : Registered(d)' <=> d = c \/ Registered(d)
      BY <2>2 DEF Registered
    <3>5. \A d \in Calls : call[d].email = call[c].email => ~Registered(d)
      BY <2>2, <3>1 DEF Registrations
    <3>6. UnendedAreFresh'
      BY <3>3, <3>4 DEF UnendedAreFresh
    <3>7. ASSUME NEW e \in Emails
          PROVE  account'[e] # "none" <=>
                   e \in Known \/ \E d \in Calls : call'[d].email = e /\ Registered(d)'
      <4>1. CASE e = call[c].email
        BY <2>1, <3>2, <3>4, <4>1
      <4>2. CASE e # call[c].email
        BY <2>1, <3>2, <3>4, <4>2 DEF Registrations
      <4> QED
        BY <4>1, <4>2
    <3>8. ASSUME NEW d \in Calls
          PROVE  /\ answer'[d] = 201 <=> Registered(d)'
                 /\ answer'[d] \in {409, 500} /\ call'[d].kind = "register" =>
                      account'[call'[d].email] # "none"
                 /\ \A x \in Calls : Registered(d)' /\ Registered(x)' /\ call'[d].email = call'[x].email => d = x
      BY <2>1, <3>1, <3>2, <3>3, <3>4, <3>5 DEF Registrations
    <3> QED
      BY <3>6, <3>7, <3>8 DEF Registrations
  <2>3. CASE account[call[c].email] # "none" /\ Finish(c, 500) /\ UNCHANGED <<account, audit>>
    <3>1. \A d \in Calls : Registered(d)' <=> Registered(d)
      BY <2>3 DEF Registered
    <3>2. /\ pc'[c] = "done" /\ answer'[c] = 500
          /\ \A d \in Calls : d # c => pc'[d] = pc[d] /\ answer'[d] = answer[d]
      BY <2>3 DEF Finish, CallsTyped
    <3>3. UnendedAreFresh'
      BY <3>1, <3>2 DEF UnendedAreFresh
    <3>4. Registrations'
      BY <2>1, <2>3, <3>1, <3>2 DEF Registrations
    <3> QED
      BY <3>3, <3>4
  <2> QED
    BY <1>2, <2>2, <2>3 DEF CreateUser, Unique, Log
<1>3. ASSUME NEW c \in Calls, Step(c), ~CreateUser(c)
      PROVE  UnendedAreFresh' /\ Registrations'
  <2>1. UnendedAreFresh'
    BY <1>3, RegistrationsChange DEF UnendedAreFresh
  <2>2. Registrations'
    BY <1>3, RegistrationsChange DEF Registrations
  <2> QED
    BY <2>1, <2>2
<1>4. ASSUME NEW e \in Emails, Suspend(e)
      PROVE  UnendedAreFresh' /\ Registrations'
  <2>1. \A x \in Emails : account'[x] # "none" <=> account[x] # "none"
    BY <1>4 DEF Suspend, TablesTyped
  <2>2. UNCHANGED <<pc, call, answer, audit>>
    BY <1>4 DEF Suspend
  <2>3. \A c \in Calls : call[c].email \in Emails
    BY DEF CallsTyped, Request
  <2>4. \A c \in Calls : Registered(c)' <=> Registered(c)
    BY <2>2 DEF Registered
  <2>5. UnendedAreFresh'
    BY <2>2, <2>4 DEF UnendedAreFresh
  <2>6. Registrations'
    BY <2>1, <2>2, <2>3, <2>4 DEF Registrations
  <2> QED
    BY <2>5, <2>6
<1>5. CASE Tick \/ UNCHANGED vars
  <2>1. UNCHANGED <<pc, call, answer, audit, account>>
    BY <1>5 DEF Tick, vars, tables
  <2>2. \A c \in Calls : Registered(c)' <=> Registered(c)
    BY <2>1 DEF Registered
  <2> QED
    BY <2>1, <2>2 DEF UnendedAreFresh, Registrations
<1>6. CASE Restart
  <2>1. UNCHANGED <<call, answer, audit, account>>
    BY <1>6 DEF Restart, tables
  <2>2. \A c \in Calls : pc[c] = "done" => pc'[c] = "done"
    BY <1>6 DEF Restart, Working
  <2>3. \A c \in Calls : Registered(c)' <=> Registered(c)
    BY <2>1 DEF Registered
  <2> QED
    BY <2>1, <2>2, <2>3 DEF UnendedAreFresh, Registrations
<1> QED
  BY <1>1, <1>2, <1>3, <1>4, <1>5, <1>6 DEF Next

-----------------------------------------------------------------------------
(* Profiles *)

\* Whose profile a save writes does not change on the way.
LEMMA OwnerStays ==
  ASSUME clock \in Time, CallsTyped, TablesTyped, TokensIssued, [Next]_vars,
         NEW c \in Calls, pc[c] \in Owned, call'[c] = call[c]
  PROVE  Owner(c)' = Owner(c)
<1>1. call[c].token \in Tokens /\ token[call[c].token] # NoToken
  BY DEF CallsTyped, Request, Tokens, TokensIssued, Owned
<1>2. token'[call[c].token] = token[call[c].token]
  BY <1>1, TokensChange
<1> QED
  BY <1>2 DEF Owner

\* An empty list of methods is not stored.
LEMMA StoredHasMethods ==
  ASSUME NEW c \in Calls, "payment_methods" \in Fields
  PROVE  Stored(c, "payment_methods") # "[]"
BY ProfileAssumption DEF Stored

\* The steps of a call that leave profiles and what was loaded of them alone, and
\* do not come to a merge or a write.
LEMMA SavesUntouched ==
  ASSUME clock \in Time, CallsTyped, TablesTyped, TokensIssued, Saves, [Next]_vars,
         UNCHANGED <<profile, seen, base>>,
         \A c \in Calls : pc'[c] \in {"merge", "write"} => pc'[c] = pc[c] /\ call'[c] = call[c]
  PROVE  Saves'
<1>1. ASSUME NEW c \in Calls, pc'[c] \in {"merge", "write"}
      PROVE  pc'[c] = pc[c] /\ Owner(c)' = Owner(c)
  BY <1>1, OwnerStays DEF Owned
<1>2. \A e \in Emails : profile'[e] # NoProfile => HasMethods(profile'[e])
  BY DEF Saves
<1>3. \A c \in Calls : seen'[c] # NoProfile => HasMethods(seen'[c])
  BY DEF Saves
<1> QED
  BY <1>1, <1>2, <1>3 DEF Saves

\* Every step keeps what a save has loaded and will write.
LEMMA SavesKept ==
  ASSUME clock \in Time, CallsTyped, TablesTyped, TokensIssued, Saves, [Next]_vars
  PROVE  Saves'
<1>1. ASSUME NEW c \in Calls, NEW r \in Requests, Arrive(c, r)
      PROVE  Saves'
  <2>1. /\ UNCHANGED <<profile, seen, base>> /\ call' = [call EXCEPT ![c] = r]
        /\ \/ pc' = [pc EXCEPT ![c] = "done"]
           \/ pc' = [pc EXCEPT ![c] = Proceed(r.kind)]
    BY <1>1 DEF Arrive, Goto, Finish, tables
  <2>2. Proceed(r.kind) \notin {"merge", "write"}
    BY DEF Proceed
  <2> QED
    BY <2>1, <2>2, SavesUntouched DEF CallsTyped
<1>2. ASSUME NEW c \in Calls, Step(c), ~LoadProfile(c), ~MergeProfile(c), ~SaveProfile(c)
      PROVE  Saves'
  <2>1. UNCHANGED <<profile, seen, base, call>>
    BY <1>2 DEF Step, CheckToken, ResolveUser, LookupEmail, CreateUser, CheckThrottle, CountLogin,
                VerifyPassword, Revoke, ShowProfile, tables
  <2>2. \E phase : phase \notin {"merge", "write"} /\ pc' = [pc EXCEPT ![c] = phase]
    <3>1. CASE ResolveUser(c)
      <4>1. call[c].kind \in {"logout", "show", "save"}
        BY <3>1 DEF ResolveUser, TokensIssued, Owned
      <4> QED
        BY <3>1, <4>1 DEF ResolveUser, Goto, Finish
    <3>2. CASE ~ResolveUser(c)
      BY <1>2, <3>2 DEF Step, CheckToken, LookupEmail, CreateUser, CheckThrottle, CountLogin,
                        VerifyPassword, RejectLogin, AcceptLogin, Revoke, ShowProfile, Goto, Finish
    <3> QED
      BY <3>1, <3>2
  <2> QED
    BY <2>1, <2>2, SavesUntouched DEF CallsTyped
<1>3. ASSUME NEW c \in Calls, LoadProfile(c)
      PROVE  Saves'
  <2>1. /\ pc[c] = "load" /\ pc' = [pc EXCEPT ![c] = "merge"] /\ UNCHANGED <<profile, base, call>>
        /\ seen' = [seen EXCEPT ![c] = profile[Owner(c)]]
    BY <1>3 DEF LoadProfile, Goto, tables
  <2>2. Owner(c) \in Emails
    BY <2>1, OwnerTyped DEF Owned
  <2>3. \A d \in Calls : pc'[d] \in {"merge", "write"} => Owner(d)' = Owner(d)
    BY <2>1, OwnerStays DEF Owned, CallsTyped
  <2>4. seen'[c] = profile[Owner(c)] /\ \A d \in Calls : d # c => seen'[d] = seen[d] /\ pc'[d] = pc[d]
    BY <2>1 DEF CallsTyped
  <2>5. pc'[c] = "merge"
    BY <2>1 DEF CallsTyped
  <2> QED
    BY <2>1, <2>2, <2>3, <2>4, <2>5 DEF Saves
<1>4. ASSUME NEW c \in Calls, MergeProfile(c)
      PROVE  Saves'
  <2>1. /\ pc[c] = "merge" /\ pc' = [pc EXCEPT ![c] = "write"] /\ UNCHANGED <<profile, seen, call>>
        /\ base' = [base EXCEPT ![c] = IF seen[c] = NoProfile THEN profile[Owner(c)] ELSE seen[c]]
    BY <1>4 DEF MergeProfile, Goto, tables
  <2>2. \A d \in Calls : pc'[d] \in {"merge", "write"} => Owner(d)' = Owner(d)
    BY <2>1, OwnerStays DEF Owned, CallsTyped
  <2>3. /\ base'[c] = IF seen[c] = NoProfile THEN profile[Owner(c)] ELSE seen[c]
        /\ \A d \in Calls : d # c => base'[d] = base[d] /\ pc'[d] = pc[d]
        /\ pc'[c] = "write"
    BY <2>1 DEF CallsTyped
  <2> QED
    BY <2>1, <2>2, <2>3 DEF Saves
<1>5. ASSUME NEW c \in Calls, SaveProfile(c)
      PROVE  Saves'
  <2>1. /\ pc[c] = "write" /\ pc' = [pc EXCEPT ![c] = "done"] /\ UNCHANGED call
        /\ seen' = [d \in Calls |-> IF d = c THEN NoProfile ELSE seen[d]]
        /\ base' = [d \in Calls |-> IF d = c THEN NoProfile ELSE base[d]]
    BY <1>5 DEF SaveProfile, InsertProfile, UpdateProfile, Finish, Forget
  <2>2. \A d \in Calls : pc'[d] \in {"merge", "write"} => Owner(d)' = Owner(d)
    BY <2>1, OwnerStays DEF Owned, CallsTyped
  <2>3. Owner(c) \in Emails
    BY <2>1, OwnerTyped DEF Owned
  <2>4. /\ \A e \in Emails : profile[e] # NoProfile => profile'[e] # NoProfile
        /\ \A e \in Emails : profile'[e] # NoProfile => HasMethods(profile'[e])
    <3>1. CASE InsertProfile(c) /\ profile[Owner(c)] = NoProfile
      <4>1. /\ profile'[Owner(c)].field = [f \in Fields |-> Stored(c, f)]
            /\ \A e \in Emails : e # Owner(c) => profile'[e] = profile[e]
        BY <2>3, <3>1 DEF InsertProfile, TablesTyped
      <4>2. HasMethods(profile'[Owner(c)])
        BY <4>1, StoredHasMethods DEF HasMethods
      <4> QED
        BY <3>1, <4>1, <4>2 DEF Saves
    <3>2. CASE InsertProfile(c) /\ profile[Owner(c)] # NoProfile
      BY <3>2 DEF InsertProfile, Saves
    <3>3. CASE UpdateProfile(c)
      <4>1. profile[Owner(c)] # NoProfile
        BY <2>1, <3>3 DEF UpdateProfile, Saves
      <4>2. /\ profile'[Owner(c)] =
                 [version |-> base[c].version + 1,
                  field |-> [f \in Fields |-> IF f \in Written(c) THEN Stored(c, f)
                                              ELSE profile[Owner(c)].field[f]]]
            /\ \A e \in Emails : e # Owner(c) => profile'[e] = profile[e]
        BY <2>3, <3>3 DEF UpdateProfile, TablesTyped
      <4>3. HasMethods(profile'[Owner(c)])
        BY <2>3, <4>1, <4>2, StoredHasMethods DEF HasMethods, Saves
      <4>4. profile'[Owner(c)] # NoProfile
        <5>1. base[c].version + 1 \in Nat \ {0}
          BY <3>3 DEF UpdateProfile, CallsTyped, Profile
        <5>2. profile[Owner(c)].field \in [Fields -> Values]
          BY <2>3, <4>1 DEF TablesTyped, Profile
        <5>3. profile'[Owner(c)] \in Profile
          BY <4>2, <5>1, <5>2, StoredIsAValue DEF Profile
        <5> QED
          BY <5>3, ProfileAssumption
      <4> QED
        BY <4>2, <4>3, <4>4 DEF Saves
    <3> QED
      BY <1>5, <3>1, <3>2, <3>3 DEF SaveProfile
  <2>5. /\ pc'[c] = "done" /\ seen'[c] = NoProfile /\ base'[c] = NoProfile
        /\ \A d \in Calls : d # c => pc'[d] = pc[d] /\ seen'[d] = seen[d] /\ base'[d] = base[d]
    BY <2>1 DEF CallsTyped
  <2>6. \A d \in Calls : pc[d] \in Owned => Owner(d) \in Emails
    BY OwnerTyped
  <2> QED
    BY <2>2, <2>4, <2>5, <2>6 DEF Saves, Owned
<1>6. ASSUME NEW e \in Emails, Suspend(e)
      PROVE  Saves'
  BY <1>6, SavesUntouched DEF Suspend
<1>7. CASE Tick \/ UNCHANGED vars
  BY <1>7, SavesUntouched DEF Tick, vars, tables
<1>8. CASE Restart
  <2>1. /\ UNCHANGED profile /\ \A c \in Calls : seen'[c] = NoProfile /\ base'[c] = NoProfile
    BY <1>8 DEF Restart, Forget, tables
  <2> QED
    BY <2>1 DEF Saves
<1> QED
  BY <1>1, <1>2, <1>3, <1>4, <1>5, <1>6, <1>7, <1>8 DEF Next, Step

\* Only a save changes a profile, and it keeps what its request leaves out.
LEMMA FieldsKept ==
  ASSUME TablesTyped, CallsTyped, TokensIssued, Saves, [Next]_vars,
         NEW e \in Emails, NEW f \in Fields,
         profile[e] # NoProfile, profile'[e].field[f] # profile[e].field[f]
  PROVE  \E c \in Calls : /\ pc[c] = "write" /\ pc'[c] = "done" /\ Owner(c) = e
                          /\ (call[c].update[f] # Omitted \/ seen[c] = NoProfile)
<1>1. PICK c \in Calls : SaveProfile(c)
  <2>1. ~UNCHANGED profile
    OBVIOUS
  <2> QED
    BY <2>1, ZenonT(40) DEF Next, Step, vars, tables, Arrive, CheckToken, ResolveUser, LookupEmail, CreateUser,
                CheckThrottle, CountLogin, VerifyPassword, Revoke, ShowProfile, LoadProfile,
                MergeProfile, Suspend, Tick, Restart
<1>2. pc[c] = "write" /\ pc'[c] = "done"
  BY <1>1 DEF SaveProfile, InsertProfile, UpdateProfile, Finish, CallsTyped
<1>3. Owner(c) \in Emails
  BY <1>2, OwnerTyped DEF Owned
<1>4. Owner(c) = e
  BY <1>1, <1>3 DEF SaveProfile, InsertProfile, UpdateProfile, TablesTyped
<1>5. UpdateProfile(c)
  BY <1>1, <1>4 DEF SaveProfile, InsertProfile
<1>6. profile'[e].field =
        [g \in Fields |-> IF g \in Written(c) THEN Stored(c, g) ELSE profile[e].field[g]]
  BY <1>4, <1>5 DEF UpdateProfile, TablesTyped
<1>7. Stored(c, f) # base[c].field[f]
  BY <1>6 DEF Written
<1>8. ASSUME call[c].update[f] = Omitted, seen[c] # NoProfile
      PROVE  FALSE
  <2>1. base[c] = seen[c] /\ HasMethods(seen[c])
    BY <1>2, <1>8 DEF Saves
  <2>2. Stored(c, f) = seen[c].field[f]
    BY <1>8, <2>1 DEF Stored, Given, HasMethods
  <2> QED
    BY <1>7, <2>1, <2>2
<1> QED
  BY <1>2, <1>4, <1>8

-----------------------------------------------------------------------------
(* Theorems *)

\* The invariant holds at the start,
LEMMA InitIInv == Init => IInv
<1> SUFFICES ASSUME Init PROVE IInv
  OBVIOUS
<1>1. \A c \in Calls : pc[c] = "idle" /\ answer[c] = NoAnswer /\ dead[c] = {}
                     /\ seen[c] = NoProfile /\ base[c] = NoProfile /\ ~Registered(c)
  BY DEF Init, Registered
<1>2. TokensIssued
  <2>1. \A c \in Calls : token[c] = NoToken
    BY DEF Init, Tokens
  <2> QED
    BY <1>1, <2>1 DEF TokensIssued, Owned
<1>3. UnendedAreFresh /\ DeadStayRevoked /\ RevokedStayOut
  BY <1>1 DEF UnendedAreFresh, DeadStayRevoked, RevokedStayOut
<1>4. Registrations
  BY <1>1 DEF Init, Registrations, NoAnswer
<1>5. Saves
  <2>1. \A e \in Emails : profile[e] # NoProfile => profile[e].field = InitialProfile
    BY DEF Init
  <2> QED
    BY <1>1, <2>1, ProfileAssumption DEF Saves, HasMethods
<1> QED
  BY InitTyped, <1>2, <1>3, <1>4, <1>5 DEF IInv

\* every step keeps it,
LEMMA NextIInv == IInv /\ [Next]_vars => IInv'
BY NextTyped, TokensKept, RevokedKept, RegistrationsKept, SavesKept DEF IInv

\* and so it holds always.
LEMMA InvHolds == Spec => []IInv
BY InitIInv, NextIInv, PTL DEF Spec

\* The tables and the calls keep their types (auth.py, profile.py).
THEOREM TablesAndCallsTyped == Spec => [](TablesTyped /\ CallsTyped)
<1>1. IInv => TablesTyped /\ CallsTyped
  BY DEF IInv
<1> QED
  BY <1>1, InvHolds, PTL

\* However many calls are under way, a token revoked before one of them arrived
\* does not get it past get_current_user (dependencies.py:141, auth.py:213).
THEOREM RevokedNeverEnter == Spec => []RevokedStayOut
<1>1. IInv => RevokedStayOut
  BY DEF IInv
<1> QED
  BY <1>1, InvHolds, PTL

\* However many registrations of an address overlap, at most one of them creates the
\* account, with its audit event and the answer 201; one that is a duplicate, or
\* fails on the unique index, leaves nothing, and there is an account: if it was not
\* there before the behaviour, one of them has created it (auth.py:57, auth.py:79).
THEOREM AddressesRegisteredOnce == Spec => []RegisteredOnce
<1>1. IInv => RegisteredOnce
  <2> SUFFICES ASSUME IInv, NEW e \in Emails
               PROVE  LET created == {c \in Calls : /\ call[c].email = e
                                                    /\ <<"user_registered", c>> \in audit}
                      IN  /\ Cardinality(created) <= 1
                          /\ account[e] # "none" <=> e \in Known \/ created # {}
                          /\ \A c \in Calls : call[c].email = e /\ call[c].kind = "register" =>
                               /\ answer[c] = 201 <=> c \in created
                               /\ answer[c] \in {409, 500} => account[e] # "none" /\ c \notin created
    BY DEF RegisteredOnce
  <2> DEFINE created == {c \in Calls : call[c].email = e /\ Registered(c)}
  <2>1. created = {c \in Calls : call[c].email = e /\ <<"user_registered", c>> \in audit}
    BY DEF Registered
  <2>2. Cardinality(created) <= 1
    <3>1. CASE created = {}
      <4>1. Cardinality({}) = 0
        BY FS_EmptySet
      <4> HIDE DEF created
      <4> QED
        BY <3>1, <4>1
    <3>2. CASE created # {}
      <4>1. PICK c : c \in created
        BY <3>2
      <4>2. created = {c}
        BY <4>1 DEF IInv, Registrations
      <4> HIDE DEF created
      <4>3. Cardinality({c}) = 1
        BY FS_Singleton
      <4> QED
        BY <4>2, <4>3
    <3> QED
      BY <3>1, <3>2
  <2>3. account[e] # "none" <=> e \in Known \/ created # {}
    BY DEF IInv, Registrations
  <2>4. \A c \in Calls : call[c].email = e /\ call[c].kind = "register" =>
          /\ answer[c] = 201 <=> c \in created
          /\ answer[c] \in {409, 500} => account[e] # "none" /\ c \notin created
    BY DEF IInv, Registrations
  <2> HIDE DEF created
  <2> QED
    BY <2>1, <2>2, <2>3, <2>4
<1> QED
  BY <1>1, InvHolds, PTL

\* However many saves of a profile overlap, a field none of them names keeps its
\* value, once there is a profile to begin with (profile.py:52, profile.py:60).
THEOREM UnnamedFieldsAlwaysKept == Spec => UnnamedFieldsKept
<1>1. IInv /\ [Next]_vars =>
        [\A e \in Emails, f \in Fields :
           profile[e] # NoProfile /\ profile'[e].field[f] # profile[e].field[f] =>
             \E c \in Calls : /\ pc[c] = "write" /\ pc'[c] = "done" /\ Owner(c) = e
                              /\ (call[c].update[f] # Omitted \/ seen[c] = NoProfile)]_vars
  BY FieldsKept DEF IInv
<1> QED
  BY <1>1, InvHolds, PTL DEF Spec, UnnamedFieldsKept

-----------------------------------------------------------------------------
(* Lists of times *)

Sorted(times) == \A i, j \in DOMAIN times : i <= j => times[i] <= times[j]

\* A set of natural numbers that is not empty has a least one.
LEMMA LeastOfNaturals ==
  ASSUME NEW S \in SUBSET Nat, S # {}
  PROVE  \E m \in S : \A n \in S : m <= n
<1> DEFINE less == OpToRel(<, Nat)
<1>1. \A x, y \in Nat : x < y => <<x, y>> \in less
  BY DEF OpToRel
<1>2. IsWellFoundedOn(less, Nat)
  BY NatLessThanWellFounded
<1> HIDE DEF less
<1>3. PICK m \in S : \A n \in S : ~(<<n, m>> \in less)
  BY <1>2, WFMin
<1>4. \A n \in S : m \in Nat /\ n \in Nat /\ (m <= n \/ n < m)
  OBVIOUS
<1> QED
  BY <1>1, <1>3, <1>4

\* Times are integers.
LEMMA SeqOfIntegers ==
  ASSUME NEW S, S \subseteq Int, NEW times \in Seq(S)
  PROVE  /\ times \in Seq(Int)
         /\ Len(times) \in Nat /\ DOMAIN times = 1 .. Len(times)
         /\ \A i \in 1 .. Len(times) : times[i] \in S
<1>1. Len(times) \in Nat /\ DOMAIN times = 1 .. Len(times)
  OBVIOUS
<1>2. \A i \in 1 .. Len(times) : times[i] \in S
  OBVIOUS
<1>3. times = [i \in 1 .. Len(times) |-> times[i]]
  BY <1>1
<1>4. times \in Seq(Int)
  BY <1>1, <1>2, <1>3
<1> QED
  BY <1>1, <1>2, <1>4

\* In a list sorted by time, what is newer than t is the end of the list.
LEMMA NewerAtTheEnd ==
  ASSUME NEW times \in Seq(Int), Sorted(times), NEW t \in Int
  PROVE  /\ IsFiniteSet(Newer(times, t))
         /\ Cardinality(Newer(times, t)) \in 0 .. Len(times)
         /\ Newer(times, t) = (Len(times) - Cardinality(Newer(times, t)) + 1) .. Len(times)
<1>1. DOMAIN times = 1 .. Len(times) /\ Len(times) \in Nat
  OBVIOUS
<1>2. CASE Newer(times, t) = {}
  <2>1. IsFiniteSet({}) /\ Cardinality({}) = 0
    BY FS_EmptySet
  <2> QED
    BY <1>1, <1>2, <2>1
<1>3. CASE Newer(times, t) # {}
  <2>1. Newer(times, t) \subseteq Nat
    BY <1>1 DEF Newer
  <2>2. PICK m \in Newer(times, t) : \A i \in Newer(times, t) : m <= i
    BY <1>3, <2>1, LeastOfNaturals
  <2>3. \A i \in Newer(times, t) : m <= i
    BY <2>2
  <2>4. \A i \in m .. Len(times) : times[i] > t
    BY <1>1 DEF Newer, Sorted
  <2>5. m \in 1 .. Len(times)
    BY <1>1 DEF Newer
  <2>6. Newer(times, t) = m .. Len(times)
    BY <1>1, <2>3, <2>4, <2>5 DEF Newer
  <2>7. IsFiniteSet(m .. Len(times)) /\ Cardinality(m .. Len(times)) = Len(times) - m + 1
    BY <1>1, <2>5, FS_Interval
  <2> QED
    BY <1>1, <2>5, <2>6, <2>7, SMTT(30)
<1> QED
  BY <1>2, <1>3

\* The last n entries of a list.
LEMMA LatestEntries ==
  ASSUME NEW S, NEW times \in Seq(S), NEW n \in 0 .. Len(times)
  PROVE  /\ Latest(times, n) \in Seq(S)
         /\ Len(Latest(times, n)) = n
         /\ DOMAIN Latest(times, n) = 1 .. n
         /\ \A i \in 1 .. n : Latest(times, n)[i] = times[Len(times) - n + i]
BY DEF Latest

\* The recent part of a sorted list is sorted, holds what is newer than the span
\* and nothing else, and agrees with the list on everything newer than that.
LEMMA RecentEntries ==
  ASSUME clock \in Nat, NEW span \in Nat, NEW S, S \subseteq Int, NEW times \in Seq(S), Sorted(times)
  PROVE  /\ Recent(times, span) \in Seq(S)
         /\ Sorted(Recent(times, span))
         /\ Len(Recent(times, span)) = Cardinality(Newer(times, clock - span))
         /\ \A i \in DOMAIN Recent(times, span) :
              /\ Recent(times, span)[i] > clock - span
              /\ \E j \in DOMAIN times : Recent(times, span)[i] = times[j]
         /\ \A t \in Int : t >= clock - span =>
              Cardinality(Newer(Recent(times, span), t)) = Cardinality(Newer(times, t))
<1> DEFINE n == Cardinality(Newer(times, clock - span))
           r == Recent(times, span)
           L == Len(times)
<1>1. times \in Seq(Int) /\ L \in Nat /\ DOMAIN times = 1 .. L
  BY SeqOfIntegers
<1>2. n \in 0 .. L /\ Newer(times, clock - span) = (L - n + 1) .. L
  <2>1. clock - span \in Int
    OBVIOUS
  <2> QED
    BY <1>1, <2>1, NewerAtTheEnd
<1>3. r = Latest(times, n)
  BY DEF Recent
<1> HIDE DEF n, r
<1>4. /\ r \in Seq(S) /\ Len(r) = n /\ DOMAIN r = 1 .. n
      /\ \A i \in 1 .. n : r[i] = times[L - n + i]
  BY <1>2, <1>3, LatestEntries
<1>5. Sorted(r)
  <2> SUFFICES ASSUME NEW i \in 1 .. n, NEW j \in 1 .. n, i <= j
               PROVE  r[i] <= r[j]
    BY <1>4 DEF Sorted
  <2>1. L - n + i \in 1 .. L /\ L - n + j \in 1 .. L /\ L - n + i <= L - n + j
    BY <1>1, <1>2
  <2> QED
    BY <1>1, <1>4, <2>1 DEF Sorted
<1>6. \A i \in 1 .. n : r[i] > clock - span /\ \E j \in 1 .. L : r[i] = times[j]
  <2> TAKE i \in 1 .. n
  <2>1. L - n + i \in (L - n + 1) .. L /\ L - n + i \in 1 .. L
    BY <1>1, <1>2
  <2> QED
    BY <1>2, <1>4, <2>1 DEF Newer
<1>7. ASSUME NEW t \in Int, t >= clock - span
      PROVE  Cardinality(Newer(r, t)) = Cardinality(Newer(times, t))
  <2> DEFINE k == Cardinality(Newer(times, t))
  <2>1. k \in 0 .. L /\ Newer(times, t) = (L - k + 1) .. L
    BY <1>1, NewerAtTheEnd
  <2> HIDE DEF k
  <2>2. Newer(times, t) \subseteq Newer(times, clock - span)
    <3>1. \A i \in 1 .. L : times[i] \in Int
      BY <1>1
    <3> QED
      BY <1>1, <1>7, <3>1 DEF Newer
  <2>3. k <= n
    <3>1. CASE k = 0
      BY <1>2, <3>1
    <3>2. CASE k # 0
      <4>1. L - k + 1 \in (L - k + 1) .. L
        BY <1>1, <2>1, <3>2
      <4>2. L - k + 1 \in Newer(times, clock - span)
        BY <2>1, <2>2, <4>1
      <4>3. L - k + 1 \in (L - n + 1) .. L
        BY <1>2, <4>2
      <4> QED
        BY <1>1, <1>2, <2>1, <4>3
    <3> QED
      BY <3>1, <3>2
  <2>4. \A i \in 1 .. n : r[i] > t <=> i >= n - k + 1
    <3> TAKE i \in 1 .. n
    <3>1. L - n + i \in 1 .. L
      BY <1>1, <1>2
    <3>2. times[L - n + i] > t <=> L - n + i \in (L - k + 1) .. L
      BY <1>1, <2>1, <3>1 DEF Newer
    <3> QED
      BY <1>1, <1>2, <1>4, <2>1, <3>1, <3>2, SMTT(30)
  <2>5. Newer(r, t) = (n - k + 1) .. n
    BY <1>2, <1>4, <2>1, <2>3, <2>4 DEF Newer
  <2>6. Cardinality((n - k + 1) .. n) = k
    BY <1>2, <2>1, <2>3, FS_Interval
  <2> QED
    BY <2>5, <2>6 DEF k
<1>8. Len(r) = Cardinality(Newer(times, clock - span))
  BY <1>4 DEF n
<1> QED
  BY <1>1, <1>4, <1>5, <1>6, <1>7, <1>8 DEF r

\* A time appended to a list that has none later keeps it sorted, and is newer
\* than whatever is before it.
LEMMA AppendedEntries ==
  ASSUME NEW S, S \subseteq Int, NEW times \in Seq(S), Sorted(times), NEW now \in S,
         \A i \in DOMAIN times : times[i] <= now
  PROVE  /\ Append(times, now) \in Seq(S)
         /\ Sorted(Append(times, now))
         /\ \A i \in DOMAIN Append(times, now) : Append(times, now)[i] <= now
         /\ \A t \in Int : Cardinality(Newer(Append(times, now), t)) =
              IF now > t THEN Cardinality(Newer(times, t)) + 1 ELSE 0
<1> DEFINE L == Len(times)
           a == Append(times, now)
<1>1. /\ times \in Seq(Int) /\ L \in Nat /\ DOMAIN times = 1 .. L
      /\ a \in Seq(S) /\ DOMAIN a = 1 .. (L + 1)
      /\ a[L + 1] = now /\ \A i \in 1 .. L : a[i] = times[i]
  <2>1. times \in Seq(Int) /\ L \in Nat /\ DOMAIN times = 1 .. L
    BY SeqOfIntegers
  <2>2. a \in Seq(S) /\ Len(a) = L + 1
    OBVIOUS
  <2>3. DOMAIN a = 1 .. (L + 1)
    BY <2>2
  <2>4. a[L + 1] = now /\ \A i \in 1 .. L : a[i] = times[i]
    BY <2>1
  <2> QED
    BY <2>1, <2>2, <2>3, <2>4
<1> HIDE DEF a, L
<1>2. \A i \in 1 .. (L + 1) : i = L + 1 \/ i \in 1 .. L
  BY <1>1
<1>3. \A i \in 1 .. (L + 1) : a[i] <= now /\ a[i] \in Int
  BY <1>1, <1>2
<1>4. Sorted(a)
  <2> SUFFICES ASSUME NEW i \in 1 .. (L + 1), NEW j \in 1 .. (L + 1), i <= j
               PROVE  a[i] <= a[j]
    BY <1>1 DEF Sorted
  <2>1. CASE j = L + 1
    BY <1>1, <1>3, <2>1
  <2>2. CASE j \in 1 .. L
    BY <1>1, <2>2 DEF Sorted
  <2> QED
    BY <1>2, <2>1, <2>2
<1>5. ASSUME NEW t \in Int
      PROVE  Cardinality(Newer(a, t)) = IF now > t THEN Cardinality(Newer(times, t)) + 1 ELSE 0
  <2>1. CASE now > t
    <3>1. Newer(a, t) = Newer(times, t) \cup {L + 1}
      BY <1>1, <1>2, <2>1 DEF Newer
    <3>2. L + 1 \notin Newer(times, t)
      BY <1>1 DEF Newer
    <3>3. IsFiniteSet(Newer(times, t))
      BY <1>1, NewerAtTheEnd
    <3> QED
      BY <2>1, <3>1, <3>2, <3>3, FS_AddElement
  <2>2. CASE ~(now > t)
    <3>1. Newer(a, t) = {}
      BY <1>1, <1>3, <2>2 DEF Newer
    <3> QED
      BY <2>2, <3>1, FS_EmptySet
  <2> QED
    BY <2>1, <2>2
<1> QED
  BY <1>1, <1>3, <1>4, <1>5 DEF a

-----------------------------------------------------------------------------
(* The inductive invariant *)

\* A list of the limiter holds times up to the present, oldest first.
InOrder(times) ==
  times \in Seq(Time) /\ Sorted(times) /\ \A i \in DOMAIN times : times[i] <= clock

Lists ==
  /\ window \in [Buckets -> Seq(Time)] /\ \A b \in Buckets : InOrder(window[b])
  /\ failed \in [Keys -> Seq(Time)] /\ \A k \in Keys : InOrder(failed[k])

\* Where a call cannot be any more, or not yet, once the limits have said this of it.
Before(what) ==
  CASE what = "recounted" -> {"idle", "throttle", "count"}
    [] what = "failure" -> {"idle", "throttle", "count", "verify"}
    [] OTHER -> {"idle"}

LogTyped ==
  /\ IsFiniteSet(log)
  /\ log \subseteq [call : Calls, what : Limiting, at : Time]
  /\ \A l \in log : l.at <= clock /\ pc[l.call] \notin Before(l.what)

CountsIn(l, b) ==
  \/ l.what = "counted" /\ Bucket(call[l.call]) = b
  \/ l.what = "recounted" /\ <<"auth", call[l.call].from, FALSE>> = b
CountedSince(b, t) == {l \in log : CountsIn(l, b) /\ l.at > t}

FailsAs(l, k) == l.what = "failure" /\ <<call[l.call].from, call[l.call].email>> = k
FailedSince(k, t) == {l \in log : FailsAs(l, k) /\ l.at > t}

\* As far back as a window reaches it holds what was counted, one entry for each.
WindowsCount ==
  \A b \in Buckets, t \in Int : t >= clock - Window =>
    Cardinality(Newer(window[b], t)) = Cardinality(CountedSince(b, t))

\* The failures held are failures, but a login that succeeds forgets them.
FailuresCount ==
  \A k \in Keys, t \in Int : t >= clock - FailureSpan =>
    Cardinality(Newer(failed[k], t)) <= Cardinality(FailedSince(k, t))

LimitsInv ==
  /\ Lists
  /\ LogTyped
  /\ WindowsCount
  /\ FailuresCount
  /\ QuotaHolds
  /\ RefusalsHaveCauses

-----------------------------------------------------------------------------
(* How a list changes *)

\* Spans and windows are natural numbers, and the clock is a time.
LEMMA Spans ==
  ASSUME clock \in Time
  PROVE  /\ clock \in Nat /\ Time \subseteq Nat /\ Time \subseteq Int
         /\ Window \in Nat \ {0} /\ FailureSpan \in Nat \ {0} /\ Cooldown \in Nat \ {0}
         /\ MaxFailures \in Nat \ {0}
         /\ \A b \in Buckets : b[1] \in {"auth", "general"} /\ Limit[b[1]] \in Nat \ {0}
BY TimeAssumption DEF Time, Buckets

\* What has expired is dropped, without a change to the rest ...
LEMMA ListPruned ==
  ASSUME clock \in Time, NEW span \in Nat, NEW times, InOrder(times)
  PROVE  /\ InOrder(Recent(times, span))
         /\ Len(Recent(times, span)) = Cardinality(Newer(times, clock - span))
         /\ \A i \in DOMAIN Recent(times, span) : Recent(times, span)[i] > clock - span
         /\ \A t \in Int : t >= clock - span =>
              Cardinality(Newer(Recent(times, span), t)) = Cardinality(Newer(times, t))
<1>1. clock \in Nat /\ Time \subseteq Int
  BY Spans
<1>2. times \in Seq(Time) /\ Sorted(times) /\ \A i \in DOMAIN times : times[i] <= clock
  BY DEF InOrder
<1>3. /\ Recent(times, span) \in Seq(Time)
      /\ Sorted(Recent(times, span))
      /\ Len(Recent(times, span)) = Cardinality(Newer(times, clock - span))
      /\ \A i \in DOMAIN Recent(times, span) :
           /\ Recent(times, span)[i] > clock - span
           /\ \E j \in DOMAIN times : Recent(times, span)[i] = times[j]
      /\ \A t \in Int : t >= clock - span =>
           Cardinality(Newer(Recent(times, span), t)) = Cardinality(Newer(times, t))
  BY <1>1, <1>2, RecentEntries
<1>4. \A i \in DOMAIN Recent(times, span) : Recent(times, span)[i] <= clock
  BY <1>2, <1>3
<1> QED
  BY <1>3, <1>4 DEF InOrder

\* ... and the present time is added.
LEMMA ListExtended ==
  ASSUME clock \in Time, NEW span \in Nat, NEW times, InOrder(times)
  PROVE  /\ InOrder(Append(Recent(times, span), clock))
         /\ \A t \in Int : t >= clock - span =>
              Cardinality(Newer(Append(Recent(times, span), clock), t)) =
                IF clock > t THEN Cardinality(Newer(times, t)) + 1 ELSE 0
<1> DEFINE recent == Recent(times, span)
<1>1. clock \in Nat /\ Time \subseteq Int
  BY Spans
<1>2. /\ InOrder(recent)
      /\ \A t \in Int : t >= clock - span =>
           Cardinality(Newer(recent, t)) = Cardinality(Newer(times, t))
  BY ListPruned
<1> HIDE DEF recent
<1>3. recent \in Seq(Time) /\ Sorted(recent) /\ \A i \in DOMAIN recent : recent[i] <= clock
  BY <1>2 DEF InOrder
<1>4. /\ Append(recent, clock) \in Seq(Time)
      /\ Sorted(Append(recent, clock))
      /\ \A i \in DOMAIN Append(recent, clock) : Append(recent, clock)[i] <= clock
      /\ \A t \in Int : Cardinality(Newer(Append(recent, clock), t)) =
           IF clock > t THEN Cardinality(Newer(recent, t)) + 1 ELSE 0
  BY <1>1, <1>3, AppendedEntries
<1>5. InOrder(Append(recent, clock))
  BY <1>4 DEF InOrder
<1>6. \A t \in Int : t >= clock - span =>
        Cardinality(Newer(Append(recent, clock), t)) =
          IF clock > t THEN Cardinality(Newer(times, t)) + 1 ELSE 0
  BY <1>2, <1>4
<1> QED
  BY <1>5, <1>6 DEF recent

\* Nothing in a list is later than the present.
LEMMA NothingLater ==
  ASSUME clock \in Time, NEW times, InOrder(times), NEW t \in Int, t >= clock
  PROVE  Cardinality(Newer(times, t)) = 0
<1>1. Newer(times, t) = {}
  <2>1. clock \in Int /\ Time \subseteq Int
    BY Spans
  <2>2. \A i \in DOMAIN times : times[i] \in Int /\ times[i] <= clock
    <3>1. times \in Seq(Time)
      BY DEF InOrder
    <3> QED
      BY <2>1, <3>1, SeqOfIntegers DEF InOrder
  <2> QED
    BY <2>1, <2>2 DEF Newer
<1> QED
  BY <1>1, FS_EmptySet

-----------------------------------------------------------------------------
(* How the log changes *)

\* A call never goes back, and what it asks for is settled when it arrives.
LEMMA CallsGoForward ==
  ASSUME CallsTyped, TokensIssued, [Next]_vars, NEW c \in Calls
  PROVE  /\ pc[c] # "idle" => call'[c] = call[c] /\ pc'[c] # "idle"
         /\ pc'[c] = "throttle" => pc[c] \in {"idle", "throttle"}
         /\ pc'[c] = "count" => pc[c] \in {"throttle", "count"}
         /\ pc'[c] = "verify" => pc[c] \in {"count", "verify"}
<1>1. ASSUME NEW d \in Calls, NEW r \in Requests, Arrive(d, r)
      PROVE  /\ pc[c] # "idle" => call'[c] = call[c] /\ pc'[c] # "idle"
             /\ pc'[c] = "throttle" => pc[c] \in {"idle", "throttle"}
             /\ pc'[c] = "count" => pc[c] \in {"throttle", "count"}
             /\ pc'[c] = "verify" => pc[c] \in {"count", "verify"}
  <2>1. /\ pc[d] = "idle" /\ call' = [call EXCEPT ![d] = r]
        /\ pc' = [pc EXCEPT ![d] = "done"] \/ pc' = [pc EXCEPT ![d] = Proceed(r.kind)]
    BY <1>1 DEF Arrive, Goto, Finish
  <2>2. Proceed(r.kind) \in {"lookup", "throttle", "token"}
    BY DEF Proceed
  <2> QED
    BY <2>1, <2>2 DEF CallsTyped
<1>2. ASSUME NEW d \in Calls, Step(d)
      PROVE  /\ UNCHANGED call /\ pc[d] # "idle"
             /\ \E phase : /\ pc' = [pc EXCEPT ![d] = phase] /\ phase \notin {"idle", "throttle"}
                           /\ phase = "count" => pc[d] = "throttle"
                           /\ phase = "verify" => pc[d] = "count"
  <2>1. CASE ResolveUser(d)
    <3>1. pc[d] = "user" /\ call[d].kind \in {"logout", "show", "save"} /\ UNCHANGED call
      BY <2>1 DEF ResolveUser, TokensIssued, Owned
    <3> QED
      BY <2>1, <3>1 DEF ResolveUser, Goto, Finish
  <2>2. CASE CheckToken(d) \/ LookupEmail(d) \/ CreateUser(d) \/ ShowProfile(d)
             \/ LoadProfile(d) \/ MergeProfile(d)
    BY <2>2 DEF CheckToken, LookupEmail, CreateUser, ShowProfile, LoadProfile, MergeProfile,
                Goto, Finish
  <2>3. CASE SaveProfile(d)
    BY <2>3 DEF SaveProfile, InsertProfile, UpdateProfile, Finish
  <2>4. CASE CheckThrottle(d) \/ CountLogin(d) \/ Revoke(d)
    BY <2>4 DEF CheckThrottle, CountLogin, Revoke, Goto, Finish
  <2>5. CASE VerifyPassword(d)
    <3>1. pc[d] = "verify" /\ UNCHANGED call
      BY <2>5 DEF VerifyPassword
    <3>2. pc' = [pc EXCEPT ![d] = "done"]
      BY <2>5 DEF VerifyPassword, RejectLogin, AcceptLogin, Finish
    <3>3. /\ pc' = [pc EXCEPT ![d] = "done"] /\ "done" \notin {"idle", "throttle"}
          /\ "done" = "count" => pc[d] = "throttle"
          /\ "done" = "verify" => pc[d] = "count"
      BY <3>2
    <3> QED
      BY <3>1, <3>3, Zenon
  <2> QED
    BY <1>2, <2>1, <2>2, <2>3, <2>4, <2>5 DEF Step
<1>3. CASE \E d \in Calls : Step(d)
  BY <1>2, <1>3 DEF CallsTyped
<1>4. CASE (\E e \in Emails : Suspend(e)) \/ Tick \/ UNCHANGED vars
  BY <1>4 DEF Suspend, Tick, vars
<1>5. CASE Restart
  BY <1>5 DEF Restart, Working
<1> QED
  BY <1>1, <1>3, <1>4, <1>5 DEF Next

\* What the log says of a call stays true of it.
Settled == \A l \in log : call'[l.call] = call[l.call] /\ pc'[l.call] \notin Before(l.what)

\* No step unsettles it.
LEMMA LogSettled ==
  ASSUME CallsTyped, TokensIssued, LogTyped, [Next]_vars
  PROVE  Settled
<1> SUFFICES ASSUME NEW l \in log
             PROVE  call'[l.call] = call[l.call] /\ pc'[l.call] \notin Before(l.what)
  BY DEF Settled
<1>1. l.call \in Calls /\ pc[l.call] \notin Before(l.what)
  BY DEF LogTyped
<1>2. pc[l.call] # "idle"
  BY <1>1 DEF Before
<1> QED
  BY <1>1, <1>2, CallsGoForward DEF Before

\* So what is logged counts where it did.
LEMMA CountsStay ==
  ASSUME Settled
  PROVE  \A l \in log : /\ \A b \in Buckets : CountsIn(l, b)' <=> CountsIn(l, b)
                        /\ \A k \in Keys : FailsAs(l, k)' <=> FailsAs(l, k)
BY DEF Settled, CountsIn, FailsAs, Bucket

\* What a refusal was for.
FailuresOf(c, t, span) ==
  {f \in Within(t, span) : FailsAs(f, <<call[c].from, call[c].email>>)}
HasCause(l) ==
  /\ l.what = "refused" =>
       Cardinality(Entries(Bucket(call[l.call]), l.at)) >= Limit[Category(call[l.call].kind)]
  /\ l.what = "rerefused" =>
       Cardinality(Entries(<<"auth", call[l.call].from, FALSE>>, l.at)) >= Limit["auth"]
  /\ l.what = "throttled" => /\ Cardinality(FailuresOf(l.call, l.at, FailureSpan)) >= MaxFailures
                             /\ FailuresOf(l.call, l.at, Cooldown) # {}

\* The property, one refusal at a time.
LEMMA CausesOfRefusals == RefusalsHaveCauses <=> \A l \in log : HasCause(l)
<1>1. ASSUME NEW l \in log, NEW span
      PROVE  FailuresOf(l.call, l.at, span) =
               {f \in Within(l.at, span) :
                  /\ f.what = "failure"
                  /\ <<call[f.call].from, call[f.call].email>> = <<call[l.call].from, call[l.call].email>>}
  BY DEF FailuresOf, FailsAs
<1> QED
  BY <1>1 DEF RefusalsHaveCauses, HasCause

\* The log only grows, and so do the causes.
LEMMA CausesStay ==
  ASSUME clock \in Time, CallsTyped, LogTyped, RefusalsHaveCauses, Settled,
         log \subseteq log', IsFiniteSet(log'),
         \A l \in log' : l \in log \/ HasCause(l)'
  PROVE  RefusalsHaveCauses'
<1>1. /\ Window \in Nat /\ FailureSpan \in Nat /\ Cooldown \in Nat /\ Time \subseteq Int
      /\ MaxFailures \in Nat
  BY Spans
<1>2. ASSUME NEW b \in Buckets, NEW t \in Time
      PROVE  /\ Entries(b, t) \subseteq Entries(b, t)'
             /\ Cardinality(Entries(b, t)) <= Cardinality(Entries(b, t)')
             /\ Cardinality(Entries(b, t)) \in Nat /\ Cardinality(Entries(b, t)') \in Nat
  <2>1. Entries(b, t) \subseteq Entries(b, t)'
    BY CountsStay DEF Entries, Within, CountsIn
  <2>2. IsFiniteSet(Entries(b, t)')
    <3>1. Entries(b, t)' \subseteq log'
      BY DEF Entries, Within
    <3> QED
      BY <3>1, FS_Subset
  <2> QED
    BY <2>1, <2>2, FS_Subset, FS_CardinalityType
<1>3. ASSUME NEW c \in Calls, call'[c] = call[c], NEW t \in Time, NEW span
      PROVE  /\ FailuresOf(c, t, span) \subseteq FailuresOf(c, t, span)'
             /\ Cardinality(FailuresOf(c, t, span)) <= Cardinality(FailuresOf(c, t, span)')
             /\ Cardinality(FailuresOf(c, t, span)) \in Nat /\ Cardinality(FailuresOf(c, t, span)') \in Nat
  <2>1. <<call[c].from, call[c].email>> \in Keys
    BY DEF CallsTyped, Request, Keys
  <2>2. FailuresOf(c, t, span) \subseteq FailuresOf(c, t, span)'
    BY <1>3, <2>1, CountsStay DEF FailuresOf, Within
  <2>3. IsFiniteSet(FailuresOf(c, t, span)')
    <3>1. FailuresOf(c, t, span)' \subseteq log'
      BY DEF FailuresOf, Within
    <3> QED
      BY <3>1, FS_Subset
  <2> QED
    BY <2>2, <2>3, FS_Subset, FS_CardinalityType
<1>4. ASSUME NEW l \in log
      PROVE  HasCause(l)'
  <2>1. /\ HasCause(l) /\ l.call \in Calls /\ l.at \in Time
        /\ call'[l.call] = call[l.call] /\ call[l.call] \in Request
    BY CausesOfRefusals DEF LogTyped, Settled, CallsTyped
  <2>2. /\ Bucket(call[l.call]) \in Buckets /\ <<"auth", call[l.call].from, FALSE>> \in Buckets
        /\ Limit[Category(call[l.call].kind)] \in Nat /\ Limit["auth"] \in Nat
    BY <2>1, TimeAssumption DEF Buckets, Bucket, Category, Request
  <2> DEFINE r == call[l.call]
  <2>3. ASSUME NEW b \in Buckets, NEW n \in Nat, Cardinality(Entries(b, l.at)) >= n
        PROVE  Cardinality(Entries(b, l.at)') >= n
    BY <1>2, <2>1, <2>3
  <2>4. /\ l.what = "refused" =>
             \A b \in Buckets : b = Bucket(r) =>
               Cardinality(Entries(b, l.at)') >= Limit[Category(r.kind)]
        /\ l.what = "rerefused" =>
             \A b \in Buckets : b = <<"auth", r.from, FALSE>> =>
               Cardinality(Entries(b, l.at)') >= Limit["auth"]
    <3>1. l.what = "refused" => Cardinality(Entries(Bucket(r), l.at)) >= Limit[Category(r.kind)]
      BY <2>1 DEF HasCause
    <3>2. l.what = "rerefused" => Cardinality(Entries(<<"auth", r.from, FALSE>>, l.at)) >= Limit["auth"]
      BY <2>1 DEF HasCause
    <3> QED
      BY <2>2, <2>3, <3>1, <3>2
  <2>5. l.what = "throttled" =>
          /\ Cardinality(FailuresOf(l.call, l.at, FailureSpan)') >= MaxFailures
          /\ FailuresOf(l.call, l.at, Cooldown)' # {}
    <3>1. ASSUME l.what = "throttled"
          PROVE  /\ Cardinality(FailuresOf(l.call, l.at, FailureSpan)) >= MaxFailures
                 /\ FailuresOf(l.call, l.at, Cooldown) # {}
      BY <2>1, <3>1 DEF HasCause
    <3>2. /\ Cardinality(FailuresOf(l.call, l.at, FailureSpan)) <=
                Cardinality(FailuresOf(l.call, l.at, FailureSpan)')
          /\ Cardinality(FailuresOf(l.call, l.at, FailureSpan)) \in Nat
          /\ Cardinality(FailuresOf(l.call, l.at, FailureSpan)') \in Nat
      BY <1>3, <2>1
    <3>3. FailuresOf(l.call, l.at, Cooldown) \subseteq FailuresOf(l.call, l.at, Cooldown)'
      BY <1>3, <2>1
    <3> QED
      BY <1>1, <3>1, <3>2, <3>3
  <2>6. Bucket(r) \in Buckets /\ <<"auth", r.from, FALSE>> \in Buckets /\ call'[l.call] = r
    BY <2>1, <2>2
  <2>7. Bucket(call[l.call])' = Bucket(r) /\ Category(call[l.call].kind)' = Category(r.kind)
    BY <2>1 DEF Bucket
  <2> HIDE DEF r
  <2> QED
    BY <2>4, <2>5, <2>6, <2>7 DEF HasCause
<1>5. \A l \in log' : HasCause(l)'
  BY <1>4
<1>6. (RefusalsHaveCauses <=> \A l \in log : HasCause(l))'
  BY CausesOfRefusals, PTL
<1> QED
  BY <1>5, <1>6

\* A later present has a later cutoff.
LEMMA LaterCutoff ==
  ASSUME NEW now \in Int, NEW later \in Int, later >= now, NEW span \in Int
  PROVE  \A t \in Int : t >= later - span => t >= now - span
OBVIOUS

\* Parts of a list can be counted.
LEMMA ListCountable ==
  ASSUME clock \in Time, NEW times, InOrder(times), NEW t \in Int
  PROVE  IsFiniteSet(Newer(times, t)) /\ Cardinality(Newer(times, t)) \in Nat
<1>1. times \in Seq(Int) /\ Len(times) \in Nat /\ Sorted(times)
  BY Spans, SeqOfIntegers DEF InOrder
<1>2. IsFiniteSet(Newer(times, t))
  BY <1>1, NewerAtTheEnd
<1> QED
  BY <1>2, FS_CardinalityType

\* Parts of the log can be counted.
LEMMA LogCountable ==
  ASSUME LogTyped
  PROVE  /\ \A b \in Buckets, t \in Int : /\ IsFiniteSet(CountedSince(b, t))
                                          /\ Cardinality(CountedSince(b, t)) \in Nat
         /\ \A k \in Keys, t \in Int : /\ IsFiniteSet(FailedSince(k, t))
                                       /\ Cardinality(FailedSince(k, t)) \in Nat
<1>1. \A b, t : CountedSince(b, t) \subseteq log /\ FailedSince(b, t) \subseteq log
  BY DEF CountedSince, FailedSince
<1>2. \A b, t : IsFiniteSet(CountedSince(b, t)) /\ IsFiniteSet(FailedSince(b, t))
  BY <1>1, FS_Subset DEF LogTyped
<1> QED
  BY <1>2, FS_CardinalityType

\* Time may pass, and failed logins may be forgotten, as long as nothing else
\* happens to the lists and the log.
LEMMA QuietStep ==
  ASSUME clock \in Time, CallsTyped, LimitsInv, Settled,
         UNCHANGED <<window, log>>, clock' \in Time, clock' >= clock,
         failed' \in [Keys -> Seq(Time)],
         \A k \in Keys : InOrder(failed'[k])
                         /\ \A t \in Int : t >= clock - FailureSpan =>
                              Cardinality(Newer(failed'[k], t)) <= Cardinality(Newer(failed[k], t))
  PROVE  LimitsInv'
<1>0. clock \in Int /\ clock' \in Int /\ Window \in Int /\ FailureSpan \in Int /\ clock' >= clock
  BY Spans DEF Time
<1>1. clock \in Int /\ clock' \in Int /\ Window \in Int /\ FailureSpan \in Int /\ Time \subseteq Int
  BY Spans DEF Time
<1>2. Lists'
  <2>1. ASSUME NEW k \in Keys PROVE InOrder(failed[k])'
    <3>1. /\ failed'[k] \in Seq(Time) /\ Sorted(failed'[k])
          /\ \A i \in DOMAIN failed'[k] : failed'[k][i] <= clock
      BY DEF InOrder
    <3>2. \A i \in DOMAIN failed'[k] : failed'[k][i] \in Int
      BY <1>1, <3>1, SeqOfIntegers
    <3> QED
      BY <1>0, <3>1, <3>2 DEF InOrder, Sorted
  <2>2. ASSUME NEW b \in Buckets PROVE InOrder(window[b])'
    <3>1. /\ window[b] \in Seq(Time) /\ Sorted(window[b])
          /\ \A i \in DOMAIN window[b] : window[b][i] <= clock
      BY DEF InOrder, LimitsInv, Lists
    <3>2. \A i \in DOMAIN window[b] : window[b][i] \in Int
      BY <1>1, <3>1, SeqOfIntegers
    <3> QED
      BY <1>0, <3>1, <3>2 DEF InOrder, Sorted
  <2> QED
    BY <2>1, <2>2 DEF Lists, LimitsInv
<1>3. LogTyped'
  <2>1. \A l \in log : l.at \in Int
    BY <1>1 DEF LimitsInv, LogTyped
  <2> QED
    BY <1>1, <2>1 DEF LimitsInv, LogTyped, Settled
<1>4. \A b \in Buckets, t \in Int : CountedSince(b, t)' = CountedSince(b, t)
  BY CountsStay DEF CountedSince
<1>5. \A k \in Keys, t \in Int : FailedSince(k, t)' = FailedSince(k, t)
  BY CountsStay DEF FailedSince
<1>6. WindowsCount'
  <2>1. \A t \in Int : t >= clock' - Window => t >= clock - Window
    BY <1>0, LaterCutoff
  <2>2. \A b \in Buckets, t \in Int : Newer(window[b], t)' = Newer(window[b], t)
    BY DEF Newer
  <2> QED
    BY <1>4, <2>1, <2>2 DEF LimitsInv, WindowsCount
<1>7. FailuresCount'
  <2>1. \A t \in Int : t >= clock' - FailureSpan => t >= clock - FailureSpan
    BY <1>0, LaterCutoff
  <2> SUFFICES ASSUME NEW k \in Keys, NEW t \in Int, t >= clock' - FailureSpan
               PROVE  Cardinality(Newer(failed'[k], t)) <= Cardinality(FailedSince(k, t)')
    BY DEF FailuresCount, Newer
  <2>2. /\ Cardinality(Newer(failed'[k], t)) <= Cardinality(Newer(failed[k], t))
        /\ Cardinality(Newer(failed[k], t)) <= Cardinality(FailedSince(k, t))
    BY <2>1 DEF LimitsInv, FailuresCount
  <2>3. /\ Cardinality(Newer(failed'[k], t)) \in Nat /\ Cardinality(Newer(failed[k], t)) \in Nat
        /\ Cardinality(FailedSince(k, t)) \in Nat
    BY ListCountable, LogCountable DEF LimitsInv, Lists
  <2> QED
    BY <1>5, <2>2, <2>3
<1>8. \A b \in Buckets, t \in Time : Entries(b, t)' = Entries(b, t)
  BY CountsStay DEF Entries, Within, CountsIn
<1>9. QuotaHolds'
  BY <1>8 DEF LimitsInv, QuotaHolds
<1>10. RefusalsHaveCauses'
  BY CausesStay DEF LimitsInv, LogTyped
<1> QED
  BY <1>2, <1>3, <1>6, <1>7, <1>9, <1>10 DEF LimitsInv
-----------------------------------------------------------------------------
(* Something is noted in the log *)

\* An entry of this moment, of a call that has gone on.
NewEntry(e) ==
  /\ log' = log \union {e}
  /\ e \in [call : Calls, what : Limiting, at : {clock}]
  /\ pc'[e.call] \notin Before(e.what)
  /\ UNCHANGED clock

\* The log stays well formed.
LEMMA LogStaysTyped ==
  ASSUME clock \in Time, LogTyped, Settled, NEW e, NewEntry(e)
  PROVE  LogTyped'
<1>1. IsFiniteSet(log')
  BY FS_AddElement DEF LogTyped, NewEntry
<1>2. /\ e.call \in Calls /\ e.what \in Limiting /\ e.at = clock
      /\ e = [call |-> e.call, what |-> e.what, at |-> e.at]
  BY DEF NewEntry
<1>3. e \in [call : Calls, what : Limiting, at : Time]
  BY <1>2
<1>4. clock <= clock
  BY Spans
<1> QED
  BY <1>1, <1>2, <1>3, <1>4 DEF LogTyped, NewEntry, Settled

\* Who counts in a bucket after it, and who has failed.
LEMMA CountedWithEntry ==
  ASSUME clock \in Time, LogTyped, Settled, NEW e, NewEntry(e)
  PROVE  /\ \A b \in Buckets, t \in Int :
              CountedSince(b, t)' =
                IF CountsIn(e, b)' /\ clock > t THEN CountedSince(b, t) \union {e} ELSE CountedSince(b, t)
         /\ \A k \in Keys, t \in Int :
              FailedSince(k, t)' =
                IF FailsAs(e, k)' /\ clock > t THEN FailedSince(k, t) \union {e} ELSE FailedSince(k, t)
<1>1. e.at = clock /\ log' = log \union {e}
  BY DEF NewEntry
<1>2. ASSUME NEW b \in Buckets, NEW t \in Int
      PROVE  CountedSince(b, t)' =
               IF CountsIn(e, b)' /\ clock > t THEN CountedSince(b, t) \union {e} ELSE CountedSince(b, t)
  <2>1. \A l \in log : CountsIn(l, b)' <=> CountsIn(l, b)
    BY CountsStay
  <2>2. CountedSince(b, t)' = {l \in log \union {e} : CountsIn(l, b)' /\ l.at > t}
    BY <1>1 DEF CountedSince
  <2> HIDE DEF CountsIn
  <2>3. e \in log => CountsIn(e, b)' <=> CountsIn(e, b)
    BY <2>1
  <2> QED
    BY <1>1, <2>1, <2>2, <2>3 DEF CountedSince
<1>3. ASSUME NEW k \in Keys, NEW t \in Int
      PROVE  FailedSince(k, t)' =
               IF FailsAs(e, k)' /\ clock > t THEN FailedSince(k, t) \union {e} ELSE FailedSince(k, t)
  <2>1. \A l \in log : FailsAs(l, k)' <=> FailsAs(l, k)
    BY CountsStay
  <2>2. FailedSince(k, t)' = {l \in log \union {e} : FailsAs(l, k)' /\ l.at > t}
    BY <1>1 DEF FailedSince
  <2> QED
    BY <1>1, <2>1, <2>2 DEF FailedSince
<1> QED
  BY <1>2, <1>3

\* Failures are counted as before by a step that adds none and drops what expired.
LEMMA FailuresPruned ==
  ASSUME clock \in Time, LogTyped, Lists, FailuresCount, NEW k \in Keys, UNCHANGED clock,
         \/ UNCHANGED failed
         \/ failed' = [failed EXCEPT ![k] = Recent(@, FailureSpan)],
         \A x \in Keys, t \in Int : Cardinality(FailedSince(x, t)') = Cardinality(FailedSince(x, t))
  PROVE  /\ failed' \in [Keys -> Seq(Time)]
         /\ \A x \in Keys : InOrder(failed[x])'
         /\ FailuresCount'
<1>1. ASSUME NEW x \in Keys
      PROVE  /\ failed'[x] \in Seq(Time) /\ InOrder(failed[x])'
             /\ \A t \in Int : t >= clock - FailureSpan =>
                  Cardinality(Newer(failed'[x], t)) = Cardinality(Newer(failed[x], t))
  <2>1. InOrder(failed[x])
    BY DEF Lists
  <2>2. CASE failed'[x] = failed[x]
    BY <2>1, <2>2 DEF InOrder
  <2>3. CASE failed'[x] = Recent(failed[x], FailureSpan)
    <3>1. /\ InOrder(failed'[x])
          /\ \A t \in Int : t >= clock - FailureSpan =>
               Cardinality(Newer(failed'[x], t)) = Cardinality(Newer(failed[x], t))
      BY <2>1, <2>3, ListPruned, Spans
    <3> QED
      BY <3>1 DEF InOrder
  <2> QED
    BY <2>2, <2>3 DEF Lists
<1>2. failed' \in [Keys -> Seq(Time)]
  BY <1>1 DEF Lists
<1>3. FailuresCount'
  BY <1>1 DEF FailuresCount, Newer
<1> QED
  BY <1>1, <1>2, <1>3

\* What is counted in a bucket within a window's length is in its list.
LEMMA CountedNow ==
  ASSUME clock \in Time, LimitsInv, NEW b \in Buckets
  PROVE  /\ Len(Recent(window[b], Window)) = Cardinality(CountedSince(b, clock - Window))
         /\ CountedSince(b, clock - Window) = Entries(b, clock)
<1>1. clock \in Int /\ Window \in Nat /\ Time \subseteq Int
  BY Spans
<1>2. InOrder(window[b])
  BY DEF LimitsInv, Lists
<1>3. Len(Recent(window[b], Window)) = Cardinality(Newer(window[b], clock - Window))
  BY <1>1, <1>2, ListPruned
<1>4. clock - Window \in Int /\ clock - Window >= clock - Window
  BY <1>1
<1>5. CountedSince(b, clock - Window) = Entries(b, clock)
  <2>1. \A l \in log : l.at \in Int /\ l.at <= clock
    BY <1>1 DEF LimitsInv, LogTyped
  <2>2. \A l \in log : l.at > clock - Window <=> clock - Window < l.at /\ l.at <= clock
    BY <1>1, <2>1
  <2> QED
    BY <2>2 DEF CountedSince, Entries, Within, CountsIn
<1> QED
  BY <1>3, <1>4, <1>5 DEF LimitsInv, WindowsCount

\* A call that is let through is counted in one bucket, which had room for it.
LEMMA AdmittedStep ==
  ASSUME clock \in Time, CallsTyped, LimitsInv, Settled, NEW b \in Buckets,
         Len(Recent(window[b], Window)) < Limit[b[1]], Count(b, TRUE), UNCHANGED failed,
         NEW e, NewEntry(e), e \notin log, e.what \in {"counted", "recounted"},
         \A x \in Buckets : CountsIn(e, x)' <=> x = b
  PROVE  LimitsInv'
<1> DEFINE grown == Append(Recent(window[b], Window), clock)
<1>1. clock \in Int /\ Window \in Nat \ {0} /\ Time \subseteq Int
  BY Spans
<1>2. UNCHANGED clock /\ log' = log \union {e} /\ e.at = clock
  BY DEF NewEntry
<1>3. /\ window' = [window EXCEPT ![b] = grown]
      /\ window'[b] = grown /\ \A x \in Buckets : x # b => window'[x] = window[x]
  BY DEF Count, LimitsInv, Lists
<1>4. /\ InOrder(grown)
      /\ \A t \in Int : t >= clock - Window =>
           Cardinality(Newer(grown, t)) = IF clock > t THEN Cardinality(Newer(window[b], t)) + 1 ELSE 0
  BY <1>1, ListExtended DEF LimitsInv, Lists
<1> HIDE DEF grown
<1>5. LogTyped'
  BY LogStaysTyped DEF LimitsInv
<1>6. \A k \in Keys : ~FailsAs(e, k)'
  BY DEF FailsAs
<1>7. Lists' /\ FailuresCount'
  <2>1. \A x \in Keys, t \in Int : Cardinality(FailedSince(x, t)') = Cardinality(FailedSince(x, t))
    BY <1>6, CountedWithEntry DEF LimitsInv
  <2>2. \A x \in Buckets : InOrder(window'[x]) /\ InOrder(window[x])
    BY <1>3, <1>4 DEF LimitsInv, Lists
  <2>3. window' \in [Buckets -> Seq(Time)]
    BY <1>3, <1>4 DEF InOrder, LimitsInv, Lists
  <2>4. \A x \in Buckets : InOrder(window[x])'
    BY <1>2, <2>2 DEF InOrder
  <2>5. \A k \in Keys : InOrder(failed[k])'
    BY <1>2 DEF LimitsInv, Lists, InOrder
  <2>6. FailuresCount'
    BY <1>2, <2>1 DEF LimitsInv, FailuresCount, Newer
  <2> QED
    BY <2>3, <2>4, <2>5, <2>6 DEF LimitsInv, Lists
<1>8. ASSUME NEW x \in Buckets, NEW t \in Int
      PROVE  CountedSince(x, t)' =
               IF x = b /\ clock > t THEN CountedSince(x, t) \union {e} ELSE CountedSince(x, t)
  BY CountedWithEntry DEF LimitsInv
<1>9. ASSUME NEW t \in Int, clock > t
      PROVE  Cardinality(CountedSince(b, t)') = Cardinality(CountedSince(b, t)) + 1
  <2>1. e \notin CountedSince(b, t) /\ IsFiniteSet(CountedSince(b, t))
    BY LogCountable DEF CountedSince, LimitsInv
  <2> QED
    BY <1>8, <1>9, <2>1, FS_AddElement
<1>10. WindowsCount'
  <2> SUFFICES ASSUME NEW x \in Buckets, NEW t \in Int, t >= clock - Window
               PROVE  Cardinality(Newer(window'[x], t)) = Cardinality(CountedSince(x, t)')
    BY <1>2 DEF WindowsCount, Newer
  <2>1. Cardinality(Newer(window[x], t)) = Cardinality(CountedSince(x, t))
    BY DEF LimitsInv, WindowsCount
  <2>2. CASE x # b
    BY <1>3, <1>8, <2>1, <2>2
  <2>3. CASE x = b /\ clock > t
    BY <1>3, <1>4, <1>9, <2>1, <2>3
  <2>4. CASE x = b /\ ~(clock > t)
    <3>1. Cardinality(Newer(window[x], t)) = 0
      BY <1>1, <2>4, NothingLater DEF LimitsInv, Lists
    <3>2. Cardinality(CountedSince(x, t)') = 0
      BY <1>8, <2>1, <2>4, <3>1
    <3> QED
      BY <1>3, <1>4, <2>4, <3>2
  <2> QED
    BY <2>2, <2>3, <2>4
<1>11. QuotaHolds'
  <2> SUFFICES ASSUME NEW x \in Buckets, NEW t \in Time
               PROVE  Cardinality(Entries(x, t)') <= Limit[x[1]]
    BY DEF QuotaHolds
  <2>1. Cardinality(Entries(x, t)) <= Limit[x[1]]
    BY DEF LimitsInv, QuotaHolds
  <2>2. \A l \in log : CountsIn(l, x)' <=> CountsIn(l, x)
    BY CountsStay
  <2>3. Entries(x, t)' = {l \in log \union {e} : CountsIn(l, x)' /\ t - Window < l.at /\ l.at <= t}
    BY <1>2 DEF Entries, Within, CountsIn
  <2>4. Entries(x, t) = {l \in log : CountsIn(l, x) /\ t - Window < l.at /\ l.at <= t}
    BY DEF Entries, Within, CountsIn
  <2>5. CASE x # b \/ t < clock
    <3>1. ~(CountsIn(e, x)' /\ e.at <= t)
      BY <1>1, <1>2, <2>5
    <3>2. Entries(x, t)' = Entries(x, t)
      BY <2>2, <2>3, <2>4, <3>1
    <3> QED
      BY <2>1, <3>2
  <2>6. CASE x = b /\ ~(t < clock)
    <3> PICK u \in Int : u = clock - Window
      BY <1>1
    <3>1. Entries(x, t)' \subseteq CountedSince(b, u)'
      <4>1. \A l \in log' : l.at \in Int
        BY <1>1, <1>5 DEF LogTyped
      <4>2. \A l \in log' : t - Window < l.at => l.at > u
        BY <1>1, <2>6, <4>1
      <4> QED
        BY <1>2, <2>3, <2>6, <4>2 DEF CountedSince
    <3>2. Cardinality(CountedSince(b, u)') = Len(Recent(window[b], Window)) + 1
      <4>1. u = clock - Window /\ clock > u
        BY <1>1
      <4> QED
        BY <1>9, <4>1, CountedNow
    <3>3. IsFiniteSet(CountedSince(b, u)')
      <4>1. IsFiniteSet(log') /\ CountedSince(b, u)' \subseteq log'
        BY <1>5 DEF LogTyped, CountedSince
      <4> QED
        BY <4>1, FS_Subset
    <3>4. Cardinality(Entries(x, t)') <= Cardinality(CountedSince(b, u)')
      BY <3>1, <3>3, FS_Subset
    <3>5. /\ Len(Recent(window[b], Window)) \in Nat /\ Limit[b[1]] \in Nat
          /\ Cardinality(Entries(x, t)') \in Nat
      <4>1. InOrder(Recent(window[b], Window))
        BY <1>1, ListPruned DEF LimitsInv, Lists
      <4>2. Len(Recent(window[b], Window)) \in Nat
        BY <4>1 DEF InOrder
      <4> QED
        BY <3>1, <3>3, <4>2, FS_Subset, FS_CardinalityType, Spans
    <3> QED
      BY <2>6, <3>2, <3>4, <3>5
  <2> QED
    BY <1>1, <2>5, <2>6
<1>12. RefusalsHaveCauses'
  <2>1. HasCause(e)'
    BY DEF HasCause
  <2> QED
    BY <1>2, <1>5, <2>1, CausesStay DEF LimitsInv, LogTyped
<1> QED
  BY <1>5, <1>7, <1>10, <1>11, <1>12 DEF LimitsInv

\* A step that counts nothing leaves what has been counted.
LEMMA UncountedStep ==
  ASSUME clock \in Time, CallsTyped, LimitsInv, Settled, NEW e, NewEntry(e),
         \A x \in Buckets : ~CountsIn(e, x)',
         window' \in [Buckets -> Seq(Time)],
         \A x \in Buckets : InOrder(window'[x])
                            /\ \A t \in Int : t >= clock - Window =>
                                 Cardinality(Newer(window'[x], t)) = Cardinality(Newer(window[x], t))
  PROVE  /\ \A x \in Buckets : InOrder(window[x])'
         /\ \A x \in Buckets, t \in Time : Entries(x, t) = Entries(x, t)'
         /\ WindowsCount' /\ QuotaHolds'
<1>1. UNCHANGED clock /\ log' = log \union {e}
  BY DEF NewEntry
<1>2. \A x \in Buckets, t \in Int : CountedSince(x, t)' = CountedSince(x, t)
  BY CountedWithEntry DEF LimitsInv
<1>3. WindowsCount'
  BY <1>1, <1>2 DEF LimitsInv, WindowsCount, Newer
<1>4. ASSUME NEW x \in Buckets, NEW t \in Time
      PROVE  Entries(x, t)' = Entries(x, t)
  <2>1. \A l \in log : CountsIn(l, x)' <=> CountsIn(l, x)
    BY CountsStay
  <2>2. Entries(x, t)' = {l \in log \union {e} : CountsIn(l, x)' /\ t - Window < l.at /\ l.at <= t}
    BY <1>1 DEF Entries, Within, CountsIn
  <2>3. Entries(x, t) = {l \in log : CountsIn(l, x) /\ t - Window < l.at /\ l.at <= t}
    BY DEF Entries, Within, CountsIn
  <2> QED
    BY <2>1, <2>2, <2>3
<1>5. QuotaHolds'
  BY <1>4 DEF LimitsInv, QuotaHolds
<1>6. \A x \in Buckets : InOrder(window[x])'
  BY <1>1 DEF InOrder
<1> QED
  BY <1>3, <1>4, <1>5, <1>6

\* A call that is refused finds its bucket full.
LEMMA RefusedStep ==
  ASSUME clock \in Time, CallsTyped, LimitsInv, Settled, NEW b \in Buckets,
         Len(Recent(window[b], Window)) >= Limit[b[1]], Count(b, FALSE), UNCHANGED failed,
         NEW e, NewEntry(e), call'[e.call] \in Request,
         \/ /\ e.what = "refused"
            /\ b = Bucket(call'[e.call]) /\ b[1] = Category(call'[e.call].kind)
         \/ e.what = "rerefused" /\ b = <<"auth", call'[e.call].from, FALSE>>
  PROVE  LimitsInv'
<1>1. clock \in Int /\ Window \in Nat \ {0} /\ Time \subseteq Int
  BY Spans
<1>2. UNCHANGED clock /\ log' = log \union {e} /\ e.at = clock
  BY DEF NewEntry
<1>3. /\ window' = [window EXCEPT ![b] = Recent(window[b], Window)]
      /\ window'[b] = Recent(window[b], Window) /\ \A x \in Buckets : x # b => window'[x] = window[x]
  BY DEF Count, LimitsInv, Lists
<1>4. ASSUME NEW x \in Buckets
      PROVE  /\ InOrder(window'[x])
             /\ \A t \in Int : t >= clock - Window =>
                  Cardinality(Newer(window'[x], t)) = Cardinality(Newer(window[x], t))
  <2>1. InOrder(window[x])
    BY DEF LimitsInv, Lists
  <2> QED
    BY <1>1, <1>3, <2>1, ListPruned
<1>5. window' \in [Buckets -> Seq(Time)]
  BY <1>3, <1>4 DEF InOrder, LimitsInv, Lists
<1>6. \A x \in Buckets : ~CountsIn(e, x)'
  BY DEF CountsIn
<1>7. LogTyped'
  BY LogStaysTyped DEF LimitsInv
<1>8. /\ \A x \in Buckets : InOrder(window[x])'
      /\ \A x \in Buckets, t \in Time : Entries(x, t) = Entries(x, t)'
      /\ WindowsCount' /\ QuotaHolds'
  BY <1>4, <1>5, <1>6, UncountedStep
<1>9. Lists' /\ FailuresCount'
  <2>1. \A k \in Keys : ~FailsAs(e, k)'
    BY DEF FailsAs
  <2>2. \A x \in Keys, t \in Int : Cardinality(FailedSince(x, t)') = Cardinality(FailedSince(x, t))
    BY <2>1, CountedWithEntry DEF LimitsInv
  <2>3. \A k \in Keys : InOrder(failed[k])'
    BY <1>2 DEF LimitsInv, Lists, InOrder
  <2>4. FailuresCount'
    BY <1>2, <2>2 DEF LimitsInv, FailuresCount, Newer
  <2> QED
    BY <1>5, <1>8, <2>3, <2>4 DEF LimitsInv, Lists
<1>10. HasCause(e)'
  <2>1. ASSUME NEW t \in Time, t = e.at
        PROVE  Cardinality(Entries(b, t)') >= Limit[b[1]]
    <3>1. Cardinality(Entries(b, t)) >= Limit[b[1]]
      BY <1>2, <2>1, CountedNow
    <3>2. Entries(b, t)' = Entries(b, t)
      BY <1>8
    <3> QED
      BY <3>1, <3>2
  <2>2. CASE e.what = "refused"
    BY <1>2, <2>1, <2>2 DEF HasCause
  <2>3. CASE e.what = "rerefused"
    <3>1. b[1] = "auth" /\ b = <<"auth", call'[e.call].from, FALSE>>
      <4> DEFINE from == call'[e.call].from
      <4>1. b = <<"auth", from, FALSE>>
        BY <2>3
      <4> HIDE DEF from
      <4>2. b[1] = "auth"
        BY <4>1
      <4> QED
        BY <4>1, <4>2 DEF from
    <3> QED
      BY <1>2, <2>1, <2>3, <3>1 DEF HasCause
  <2> QED
    BY <2>2, <2>3
<1>11. RefusalsHaveCauses'
  BY <1>2, <1>7, <1>10, CausesStay DEF LimitsInv, LogTyped
<1> QED
  BY <1>7, <1>8, <1>9, <1>11 DEF LimitsInv

\* Of two integers, one is at least both.
LEMMA LaterOfTwo ==
  ASSUME NEW a \in Int, NEW b \in Int
  PROVE  \E t \in Int : t >= a /\ t >= b /\ (t = a \/ t = b)
OBVIOUS

\* A login that is refused for failures finds enough of them, the last of them
\* within the cooldown.
LEMMA ThrottledStep ==
  ASSUME clock \in Time, CallsTyped, LimitsInv, Settled, NEW c \in Calls, UNCHANGED window,
         Throttled(Key(c)), failed' = [failed EXCEPT ![Key(c)] = Recent(@, FailureSpan)],
         NEW e, NewEntry(e), e.what = "throttled", e.call = c, call'[c] = call[c]
  PROVE  LimitsInv'
<1>0. PICK k \in Keys : k = Key(c)
  BY DEF CallsTyped, Request, Keys, Key
<1> DEFINE recent == Recent(failed[k], FailureSpan)
<1>1. /\ clock \in Int /\ FailureSpan \in Nat \ {0} /\ Cooldown \in Nat \ {0} /\ Time \subseteq Int
      /\ MaxFailures \in Nat \ {0}
  BY Spans
<1>2. UNCHANGED clock /\ log' = log \union {e} /\ e.at = clock
  BY DEF NewEntry
<1>3. k = <<call[c].from, call[c].email>>
  BY <1>0 DEF Key
<1>4. LogTyped'
  BY LogStaysTyped DEF LimitsInv
<1>5. (\A x \in Buckets : ~CountsIn(e, x)') /\ \A x \in Keys : ~FailsAs(e, x)'
  BY DEF CountsIn, FailsAs
<1>6. /\ \A x \in Buckets : InOrder(window[x])'
      /\ WindowsCount' /\ QuotaHolds'
  <2>1. window' \in [Buckets -> Seq(Time)] /\ \A x \in Buckets : InOrder(window'[x])
    BY DEF LimitsInv, Lists
  <2> QED
    BY <1>5, <2>1, UncountedStep
<1>7. \A x \in Keys, t \in Int : FailedSince(x, t)' = FailedSince(x, t)
  BY <1>5, CountedWithEntry DEF LimitsInv
<1>8. Lists' /\ FailuresCount'
  <2>1. \A x \in Keys, t \in Int : Cardinality(FailedSince(x, t)') = Cardinality(FailedSince(x, t))
    BY <1>7
  <2>2. /\ failed' \in [Keys -> Seq(Time)]
        /\ \A x \in Keys : InOrder(failed[x])'
        /\ FailuresCount'
    BY <1>0, <1>2, <2>1, FailuresPruned DEF LimitsInv
  <2> QED
    BY <1>6, <2>2 DEF LimitsInv, Lists
<1>9. /\ InOrder(failed[k]) /\ InOrder(recent)
      /\ Len(recent) = Cardinality(Newer(failed[k], clock - FailureSpan))
      /\ \A i \in DOMAIN recent : recent[i] > clock - FailureSpan
      /\ \A t \in Int : t >= clock - FailureSpan =>
           Cardinality(Newer(recent, t)) = Cardinality(Newer(failed[k], t))
  <2>1. InOrder(failed[k]) /\ FailureSpan \in Nat
    BY <1>0, <1>1 DEF LimitsInv, Lists
  <2> QED
    BY <2>1, ListPruned
<1>10. Len(recent) >= MaxFailures /\ clock - recent[Len(recent)] < Cooldown
  BY <1>0 DEF Throttled, Last
<1> HIDE DEF recent
<1>11. ASSUME NEW t \in Int, t >= clock - FailureSpan
       PROVE  /\ Cardinality(Newer(recent, t)) <= Cardinality(FailedSince(k, t))
              /\ Cardinality(Newer(recent, t)) \in Nat /\ Cardinality(FailedSince(k, t)) \in Nat
  <2>1. Cardinality(Newer(failed[k], t)) <= Cardinality(FailedSince(k, t))
    BY <1>3, <1>11 DEF LimitsInv, FailuresCount
  <2> QED
    BY <1>3, <1>9, <1>11, <2>1, ListCountable, LogCountable DEF LimitsInv
<1>12. ASSUME NEW span \in Nat, NEW t \in Time, t = clock
       PROVE  FailuresOf(c, t, span)' = FailedSince(k, clock - span)
  <2>1. \A l \in log : l.at \in Int /\ l.at <= clock
    BY <1>1 DEF LimitsInv, LogTyped
  <2>2. \A l \in log : t - span < l.at /\ l.at <= t <=> l.at > clock - span
    BY <1>1, <1>12, <2>1
  <2>3. \A l \in log : FailsAs(l, k)' <=> FailsAs(l, k)
    BY <1>3, CountsStay
  <2>4. \A l \in log : FailsAs(l, <<call[c].from, call[c].email>>)' <=> FailsAs(l, k)
    BY <1>3, <2>3 DEF FailsAs
  <2>5. ~FailsAs(e, <<call[c].from, call[c].email>>)'
    BY DEF FailsAs
  <2>6. FailuresOf(c, t, span)' =
          {l \in log \union {e} : /\ FailsAs(l, <<call[c].from, call[c].email>>)'
                                 /\ t - span < l.at /\ l.at <= t}
    BY <1>2 DEF FailuresOf, Within
  <2> QED
    BY <2>2, <2>4, <2>5, <2>6 DEF FailedSince
<1>13. HasCause(e)'
  <2>1. Cardinality(FailedSince(k, clock - FailureSpan)) >= MaxFailures
    <3>1. clock - FailureSpan \in Int /\ clock - FailureSpan >= clock - FailureSpan
      BY <1>1
    <3>2. Len(recent) <= Cardinality(FailedSince(k, clock - FailureSpan))
      BY <1>9, <1>11, <3>1
    <3> QED
      BY <1>1, <1>10, <1>11, <3>1, <3>2, <1>9
  <2>2. FailedSince(k, clock - Cooldown) # {}
    <3>1. PICK t \in Int : /\ t >= clock - FailureSpan /\ t >= clock - Cooldown
                           /\ t = clock - FailureSpan \/ t = clock - Cooldown
      <4>1. clock - FailureSpan \in Int /\ clock - Cooldown \in Int
        BY <1>1
      <4> QED
        BY <4>1, LaterOfTwo
    <3>2. Len(recent) \in DOMAIN recent /\ recent[Len(recent)] \in Int
      <4>1. recent \in Seq(Time)
        BY <1>9 DEF InOrder
      <4>2. Len(recent) \in Nat /\ Len(recent) >= 1
        BY <1>1, <1>10, <4>1
      <4> QED
        <5>1. recent \in Seq(Int) /\ DOMAIN recent = 1 .. Len(recent)
          BY <1>1, <4>1, SeqOfIntegers
        <5>2. Len(recent) \in 1 .. Len(recent)
          BY <4>2
        <5> QED
          BY <5>1, <5>2
    <3>3. recent[Len(recent)] > t
      BY <1>1, <1>9, <1>10, <3>1, <3>2
    <3>4. Newer(recent, t) # {}
      BY <3>2, <3>3 DEF Newer
    <3>5. Cardinality(Newer(recent, t)) # 0
      BY <1>9, <3>4, ListCountable, FS_EmptySet
    <3>6. FailedSince(k, t) # {}
      <4>1. Cardinality(FailedSince(k, t)) # 0
        BY <1>11, <3>1, <3>5
      <4> QED
        BY <4>1, FS_EmptySet
    <3>7. FailedSince(k, t) \subseteq FailedSince(k, clock - Cooldown)
      <4>1. \A l \in log : l.at \in Int
        BY <1>1 DEF LimitsInv, LogTyped
      <4> QED
        BY <1>1, <3>1, <4>1 DEF FailedSince
    <3> QED
      BY <3>6, <3>7
  <2>3. \A t \in Time : t = clock =>
          /\ FailuresOf(c, t, FailureSpan)' = FailedSince(k, clock - FailureSpan)
          /\ FailuresOf(c, t, Cooldown)' = FailedSince(k, clock - Cooldown)
    BY <1>1, <1>12
  <2>4. \A t \in Time : t = clock =>
          /\ Cardinality(FailuresOf(c, t, FailureSpan)') >= MaxFailures
          /\ FailuresOf(c, t, Cooldown)' # {}
    BY <2>1, <2>2, <2>3
  <2> QED
    BY <1>2, <2>4 DEF HasCause
<1>14. RefusalsHaveCauses'
  BY <1>2, <1>4, <1>13, CausesStay DEF LimitsInv, LogTyped
<1> QED
  BY <1>4, <1>6, <1>8, <1>14 DEF LimitsInv

\* A failed login is remembered.
LEMMA FailedStep ==
  ASSUME clock \in Time, CallsTyped, LimitsInv, Settled, NEW k \in Keys, UNCHANGED window,
         failed' = [failed EXCEPT ![k] = Append(Recent(@, FailureSpan), clock)],
         NEW e, NewEntry(e), e \notin log, e.what = "failure", FailsAs(e, k)'
  PROVE  LimitsInv'
<1> DEFINE grown == Append(Recent(failed[k], FailureSpan), clock)
<1>1. clock \in Int /\ FailureSpan \in Nat \ {0} /\ Time \subseteq Int
  BY Spans
<1>2. UNCHANGED clock /\ log' = log \union {e} /\ e.at = clock
  BY DEF NewEntry
<1>3. /\ failed' = [failed EXCEPT ![k] = grown]
      /\ failed'[k] = grown /\ \A x \in Keys : x # k => failed'[x] = failed[x]
  BY DEF LimitsInv, Lists
<1>4. /\ InOrder(grown)
      /\ \A t \in Int : t >= clock - FailureSpan =>
           Cardinality(Newer(grown, t)) = IF clock > t THEN Cardinality(Newer(failed[k], t)) + 1 ELSE 0
  BY <1>1, ListExtended DEF LimitsInv, Lists
<1> HIDE DEF grown
<1>5. LogTyped'
  BY LogStaysTyped DEF LimitsInv
<1>6. \A x \in Buckets : ~CountsIn(e, x)'
  BY DEF CountsIn
<1>7. \A x \in Keys : FailsAs(e, x)' => x = k
  BY DEF FailsAs
<1>8. /\ \A x \in Buckets : InOrder(window[x])'
      /\ WindowsCount' /\ QuotaHolds'
  <2>1. window' \in [Buckets -> Seq(Time)] /\ \A x \in Buckets : InOrder(window'[x])
    BY DEF LimitsInv, Lists
  <2> QED
    BY <1>6, <2>1, UncountedStep
<1>9. Lists'
  <2>1. \A x \in Keys : InOrder(failed'[x])
    BY <1>3, <1>4 DEF LimitsInv, Lists
  <2>2. failed' \in [Keys -> Seq(Time)]
    BY <1>3, <1>4 DEF InOrder, LimitsInv, Lists
  <2>3. \A x \in Keys : InOrder(failed[x])'
    BY <1>2, <2>1 DEF InOrder
  <2> QED
    BY <1>8, <2>2, <2>3 DEF LimitsInv, Lists
<1>10. FailuresCount'
  <2> SUFFICES ASSUME NEW x \in Keys, NEW t \in Int, t >= clock - FailureSpan
               PROVE  Cardinality(Newer(failed'[x], t)) <= Cardinality(FailedSince(x, t)')
    BY <1>2 DEF FailuresCount, Newer
  <2>1. /\ Cardinality(Newer(failed[x], t)) <= Cardinality(FailedSince(x, t))
        /\ Cardinality(Newer(failed[x], t)) \in Nat /\ Cardinality(FailedSince(x, t)) \in Nat
    BY ListCountable, LogCountable DEF LimitsInv, FailuresCount, Lists
  <2>2. FailedSince(x, t)' =
          IF FailsAs(e, x)' /\ clock > t THEN FailedSince(x, t) \union {e} ELSE FailedSince(x, t)
    BY CountedWithEntry DEF LimitsInv
  <2>3. CASE x # k
    BY <1>3, <1>7, <2>1, <2>2, <2>3
  <2>4. CASE x = k /\ clock > t
    <3>1. e \notin FailedSince(x, t) /\ IsFiniteSet(FailedSince(x, t))
      BY LogCountable DEF FailedSince, LimitsInv
    <3>2. Cardinality(FailedSince(x, t)') = Cardinality(FailedSince(x, t)) + 1
      BY <2>2, <2>4, <3>1, FS_AddElement
    <3> QED
      <4>1. Cardinality(Newer(failed'[x], t)) = Cardinality(Newer(failed[x], t)) + 1
        BY <1>3, <1>4, <2>4
      <4> QED
        BY <2>1, <3>2, <4>1
  <2>5. CASE x = k /\ ~(clock > t)
    <3>1. Cardinality(Newer(failed'[x], t)) = 0
      BY <1>3, <1>4, <2>5
    <3>2. FailedSince(x, t)' = FailedSince(x, t)
      BY <2>2, <2>5
    <3> QED
      BY <2>1, <3>1, <3>2
  <2> QED
    BY <2>3, <2>4, <2>5
<1>11. RefusalsHaveCauses'
  <2>1. HasCause(e)'
    BY DEF HasCause
  <2> QED
    BY <1>2, <1>5, <2>1, CausesStay DEF LimitsInv, LogTyped
<1> QED
  BY <1>5, <1>8, <1>9, <1>10, <1>11 DEF LimitsInv

\* A new process has empty lists and an empty log.
LEMMA EmptyLimits ==
  /\ clock \in Time /\ log = {}
  /\ window = [b \in Buckets |-> <<>>] /\ failed = [k \in Keys |-> <<>>]
  => LimitsInv
<1> SUFFICES ASSUME clock \in Time, log = {},
                    window = [b \in Buckets |-> <<>>], failed = [k \in Keys |-> <<>>]
             PROVE  LimitsInv
  OBVIOUS
<1>1. /\ <<>> \in Seq(Time) /\ DOMAIN <<>> = {}
      /\ \A t \in Int : Newer(<<>>, t) = {}
  BY DEF Newer
<1>2. Lists
  BY <1>1 DEF Lists, InOrder, Sorted
<1>3. LogTyped
  BY FS_EmptySet DEF LogTyped
<1>4. \A b, t : CountedSince(b, t) = {} /\ FailedSince(b, t) = {} /\ Entries(b, t) = {}
  BY DEF CountedSince, FailedSince, Entries, Within
<1>5. Cardinality({}) = 0 /\ 0 <= 0
  BY FS_EmptySet
<1>6. WindowsCount
  BY <1>1, <1>4 DEF WindowsCount
<1>7. FailuresCount
  BY <1>1, <1>4, <1>5 DEF FailuresCount
<1>8. QuotaHolds
  <2>1. \A b \in Buckets : 0 <= Limit[b[1]]
    BY Spans
  <2> QED
    BY <1>4, <1>5, <2>1 DEF QuotaHolds
<1>9. RefusalsHaveCauses
  BY DEF RefusalsHaveCauses
<1> QED
  BY <1>2, <1>3, <1>6, <1>7, <1>8, <1>9 DEF LimitsInv

-----------------------------------------------------------------------------
(* Theorems *)

\* An entry that is not in the log yet: its call has not been there.
LEMMA EntryIsNew ==
  ASSUME clock \in Time, LogTyped, NEW c \in Calls, NEW what \in Limiting,
         pc'[c] \notin Before(what), Note(c, what), UNCHANGED clock
  PROVE  /\ NewEntry([call |-> c, what |-> what, at |-> clock])
         /\ pc[c] \in Before(what) => [call |-> c, what |-> what, at |-> clock] \notin log
BY DEF NewEntry, Note, LogTyped

\* The middleware admits or refuses.
LEMMA ArriveKeepsLimits ==
  ASSUME clock \in Time, CallsTyped, LimitsInv, Settled, NEW c \in Calls, NEW r \in Requests,
         Arrive(c, r)
  PROVE  LimitsInv'
<1> DEFINE b == Bucket(r)
<1>1. r \in Request /\ b \in Buckets /\ b[1] = Category(r.kind)
  BY RequestAssumption DEF Request, Buckets, Bucket, Category
<1>2. /\ pc[c] = "idle" /\ UNCHANGED <<failed, clock>> /\ call'[c] = r
  BY DEF Arrive, CallsTyped
<1>3. CASE Admits(b, Category(r.kind))
  <2>0. PICK e : e = [call |-> c, what |-> "counted", at |-> clock]
    OBVIOUS
  <2>1. Len(Recent(window[b], Window)) < Limit[b[1]]
    BY <1>1, <1>3 DEF Admits
  <2>2. Count(b, TRUE) /\ Note(c, "counted") /\ pc'[c] = Proceed(r.kind)
    BY <1>3 DEF Arrive, Goto, CallsTyped, Count
  <2>3. pc'[c] \notin Before("counted") /\ pc[c] \in Before("counted")
    BY <1>2, <2>2 DEF Before, Proceed
  <2>4. NewEntry(e) /\ e \notin log
    BY <1>2, <2>0, <2>2, <2>3, EntryIsNew DEF LimitsInv, Limiting
  <2>5. \A x \in Buckets : CountsIn(e, x)' <=> x = b
    BY <1>2, <2>0 DEF CountsIn, Bucket
  <2>6. e.what = "counted"
    BY <2>0
  <2> HIDE DEF b
  <2> QED
    BY <1>1, <1>2, <2>1, <2>2, <2>4, <2>5, <2>6, AdmittedStep
<1>4. CASE ~Admits(b, Category(r.kind))
  <2>0. PICK e : e = [call |-> c, what |-> "refused", at |-> clock]
    OBVIOUS
  <2>1. Len(Recent(window[b], Window)) >= Limit[b[1]]
    <3>1. InOrder(Recent(window[b], Window))
      BY <1>1, Spans, ListPruned DEF LimitsInv, Lists
    <3>2. Len(Recent(window[b], Window)) \in Nat /\ Limit[b[1]] \in Nat
      BY <1>1, <3>1, Spans DEF InOrder
    <3> QED
      BY <1>1, <1>4, <3>2 DEF Admits
  <2>2. Count(b, FALSE) /\ Note(c, "refused") /\ pc'[c] = "done"
    BY <1>4 DEF Arrive, Finish, CallsTyped, Count
  <2>3. pc'[c] \notin Before("refused")
    BY <2>2 DEF Before
  <2>4. NewEntry(e)
    BY <1>2, <2>0, <2>2, <2>3, EntryIsNew DEF LimitsInv, Limiting
  <2>5. /\ e.what = "refused" /\ e.call = c
        /\ b = Bucket(call'[c]) /\ b[1] = Category(call'[c].kind)
    BY <1>1, <1>2, <2>0
  <2> HIDE DEF b
  <2> QED
    BY <1>1, <1>2, <2>1, <2>2, <2>4, <2>5, RefusedStep
<1> QED
  BY <1>3, <1>4

\* The login handler counts once more.
LEMMA CountLoginKeepsLimits ==
  ASSUME clock \in Time, CallsTyped, LimitsInv, Settled, NEW c \in Calls, CountLogin(c)
  PROVE  LimitsInv'
<1> DEFINE b == <<"auth", call[c].from, FALSE>>
<1>1. call[c] \in Request /\ b \in Buckets /\ b[1] = "auth"
  BY DEF CallsTyped, Request, Buckets
<1>2. /\ pc[c] = "count" /\ UNCHANGED <<failed, clock, call>> /\ call'[c] = call[c]
  BY DEF CountLogin
<1>3. CASE Admits(b, "auth")
  <2>0. PICK e : e = [call |-> c, what |-> "recounted", at |-> clock]
    OBVIOUS
  <2>1. Len(Recent(window[b], Window)) < Limit[b[1]]
    BY <1>1, <1>3 DEF Admits
  <2>2. Count(b, TRUE) /\ Note(c, "recounted") /\ pc'[c] = "verify"
    BY <1>3 DEF CountLogin, Goto, CallsTyped, Count
  <2>3. pc'[c] \notin Before("recounted") /\ pc[c] \in Before("recounted")
    BY <1>2, <2>2 DEF Before
  <2>4. NewEntry(e) /\ e \notin log
    BY <1>2, <2>0, <2>2, <2>3, EntryIsNew DEF LimitsInv, Limiting
  <2>5. \A x \in Buckets : CountsIn(e, x)' <=> x = b
    BY <1>2, <2>0 DEF CountsIn
  <2>6. e.what = "recounted"
    BY <2>0
  <2> HIDE DEF b
  <2> QED
    BY <1>1, <1>2, <2>1, <2>2, <2>4, <2>5, <2>6, AdmittedStep
<1>4. CASE ~Admits(b, "auth")
  <2>0. PICK e : e = [call |-> c, what |-> "rerefused", at |-> clock]
    OBVIOUS
  <2>1. Len(Recent(window[b], Window)) >= Limit[b[1]]
    <3>1. InOrder(Recent(window[b], Window))
      BY <1>1, Spans, ListPruned DEF LimitsInv, Lists
    <3>2. Len(Recent(window[b], Window)) \in Nat /\ Limit[b[1]] \in Nat
      BY <1>1, <3>1, Spans DEF InOrder
    <3> QED
      BY <1>1, <1>4, <3>2 DEF Admits
  <2>2. Count(b, FALSE) /\ Note(c, "rerefused") /\ pc'[c] = "done"
    BY <1>4 DEF CountLogin, Finish, CallsTyped, Count
  <2>3. pc'[c] \notin Before("rerefused")
    BY <2>2 DEF Before
  <2>4. NewEntry(e)
    BY <1>2, <2>0, <2>2, <2>3, EntryIsNew DEF LimitsInv, Limiting
  <2>5. /\ e.what = "rerefused" /\ e.call = c
        /\ b = <<"auth", call'[c].from, FALSE>>
    BY <1>2, <2>0
  <2> HIDE DEF b
  <2> QED
    BY <1>1, <1>2, <2>1, <2>2, <2>4, <2>5, RefusedStep
<1> QED
  BY <1>3, <1>4

\* The login handler looks at the failures.
LEMMA CheckThrottleKeepsLimits ==
  ASSUME clock \in Time, CallsTyped, LimitsInv, Settled, NEW c \in Calls, CheckThrottle(c)
  PROVE  LimitsInv'
<1>1. /\ pc[c] = "throttle" /\ UNCHANGED <<window, clock, call>>
      /\ failed' = [failed EXCEPT ![Key(c)] = Recent(@, FailureSpan)]
  BY DEF CheckThrottle
<1>2. CASE Throttled(Key(c))
  <2> DEFINE e == [call |-> c, what |-> "throttled", at |-> clock]
  <2>1. Note(c, "throttled") /\ pc'[c] = "done"
    BY <1>2 DEF CheckThrottle, Finish, CallsTyped
  <2>2. NewEntry(e)
    BY <1>1, <2>1, EntryIsNew DEF LimitsInv, Limiting, Before
  <2>3. e.what = "throttled" /\ e.call = c
    OBVIOUS
  <2> HIDE DEF e
  <2> QED
    BY <1>1, <1>2, <2>2, <2>3, ThrottledStep
<1>3. CASE ~Throttled(Key(c))
  <2>1. UNCHANGED log
    BY <1>3 DEF CheckThrottle
  <2>2. ASSUME NEW k \in Keys
        PROVE  /\ InOrder(failed'[k])
               /\ \A t \in Int : t >= clock - FailureSpan =>
                    Cardinality(Newer(failed'[k], t)) <= Cardinality(Newer(failed[k], t))
    <3>1. InOrder(failed[k])
      BY DEF LimitsInv, Lists
    <3>2. failed'[k] = failed[k] \/ failed'[k] = Recent(failed[k], FailureSpan)
      BY <1>1 DEF LimitsInv, Lists
    <3>3. /\ InOrder(failed'[k])
          /\ \A t \in Int : t >= clock - FailureSpan =>
               Cardinality(Newer(failed'[k], t)) = Cardinality(Newer(failed[k], t))
      BY <3>1, <3>2, ListPruned, Spans
    <3>4. \A t \in Int : Cardinality(Newer(failed[k], t)) \in Nat
      BY <3>1, ListCountable
    <3> QED
      BY <3>3, <3>4
  <2>3. failed' \in [Keys -> Seq(Time)]
    <3>1. \A k \in Keys : failed'[k] \in Seq(Time)
      BY <2>2 DEF InOrder
    <3> QED
      BY <1>1, <3>1 DEF LimitsInv, Lists
  <2> QED
    BY <1>1, <2>1, <2>2, <2>3, QuietStep, Spans
<1> QED
  BY <1>2, <1>3

\* The steps that leave the limits alone.
LEMMA OtherStepKeepsLimits ==
  ASSUME clock \in Time, CallsTyped, LimitsInv, Settled,
         UNCHANGED <<window, failed, log>>, clock' \in Time, clock' >= clock
  PROVE  LimitsInv'
<1>1. ASSUME NEW k \in Keys
      PROVE  /\ InOrder(failed'[k])
             /\ \A t \in Int : t >= clock - FailureSpan =>
                  Cardinality(Newer(failed'[k], t)) <= Cardinality(Newer(failed[k], t))
  <2>1. InOrder(failed[k]) /\ failed'[k] = failed[k]
    BY DEF LimitsInv, Lists
  <2>2. \A t \in Int : Cardinality(Newer(failed[k], t)) \in Nat
    BY <2>1, ListCountable
  <2> QED
    BY <2>1, <2>2
<1> QED
  BY <1>1, QuietStep DEF LimitsInv, Lists

\* A failed login is added, a good one clears the list.
LEMMA VerifyPasswordKeepsLimits ==
  ASSUME clock \in Time, CallsTyped, LimitsInv, Settled, NEW c \in Calls, VerifyPassword(c)
  PROVE  LimitsInv'
<1>0. PICK k \in Keys : k = Key(c)
  BY DEF CallsTyped, Request, Keys, Key
<1>1. pc[c] = "verify" /\ UNCHANGED <<window, clock, call>> /\ clock' >= clock
  BY Spans DEF VerifyPassword
<1>2. CASE RejectLogin(c)
  <2>0. PICK e : e = [call |-> c, what |-> "failure", at |-> clock]
    OBVIOUS
  <2>1. /\ Note(c, "failure") /\ pc'[c] = "done"
        /\ failed' = [failed EXCEPT ![k] = Append(Recent(@, FailureSpan), clock)]
    BY <1>0, <1>2 DEF RejectLogin, Finish, CallsTyped
  <2>2. NewEntry(e) /\ e \notin log
    BY <1>1, <2>0, <2>1, EntryIsNew DEF LimitsInv, Limiting, Before
  <2>3. e.what = "failure" /\ FailsAs(e, k)'
    BY <1>0, <1>1, <2>0 DEF FailsAs, Key
  <2> QED
    BY <1>1, <2>1, <2>2, <2>3, FailedStep
<1>3. CASE UNCHANGED <<failed, log>>
  BY <1>1, <1>3, OtherStepKeepsLimits
<1>4. CASE AcceptLogin(c)
  <2>1. UNCHANGED log /\ failed' = [failed EXCEPT ![k] = <<>>]
    BY <1>0, <1>4 DEF AcceptLogin
  <2>2. ASSUME NEW x \in Keys
        PROVE  /\ InOrder(failed'[x])
               /\ \A t \in Int : t >= clock - FailureSpan =>
                    Cardinality(Newer(failed'[x], t)) <= Cardinality(Newer(failed[x], t))
    <3>1. InOrder(failed[x])
      BY DEF LimitsInv, Lists
    <3>2. \A t \in Int : Cardinality(Newer(failed[x], t)) \in Nat
      BY <3>1, ListCountable
    <3>3. CASE failed'[x] = failed[x]
      BY <3>1, <3>2, <3>3
    <3>4. CASE failed'[x] = <<>>
      <4>1. \A t \in Int : Newer(failed'[x], t) = {}
        BY <3>4 DEF Newer
      <4>2. \A t \in Int : Cardinality(Newer(failed'[x], t)) = 0
        BY <4>1, FS_EmptySet
      <4>3. InOrder(failed'[x])
        BY <3>4 DEF InOrder, Sorted
      <4> QED
        BY <3>2, <4>2, <4>3
    <3> QED
      BY <2>1, <3>3, <3>4 DEF LimitsInv, Lists
  <2>3. failed' \in [Keys -> Seq(Time)]
    BY <2>1 DEF LimitsInv, Lists
  <2> QED
    BY <1>1, <2>1, <2>2, <2>3, QuietStep
<1> QED
  BY <1>2, <1>3, <1>4 DEF VerifyPassword

\* Every step keeps the invariant.
LEMMA LimitsKept ==
  ASSUME IInv, LimitsInv, [Next]_vars
  PROVE  LimitsInv'
<1>1. clock \in Time /\ CallsTyped /\ TokensIssued /\ clock' \in Time /\ CallsTyped'
  BY NextIInv DEF IInv
<1>2. Settled
  BY <1>1, LogSettled DEF LimitsInv
<1>3. ASSUME NEW c \in Calls, Step(c)
      PROVE  LimitsInv'
  <2>1. CASE CheckThrottle(c)
    BY <1>1, <1>2, <2>1, CheckThrottleKeepsLimits
  <2>2. CASE CountLogin(c)
    BY <1>1, <1>2, <2>2, CountLoginKeepsLimits
  <2>3. CASE VerifyPassword(c)
    BY <1>1, <1>2, <2>3, VerifyPasswordKeepsLimits
  <2>4. CASE ~CheckThrottle(c) /\ ~CountLogin(c) /\ ~VerifyPassword(c)
    <3>1. UNCHANGED <<window, failed, log, clock>>
      BY <1>3, <2>4 DEF Step, CheckToken, ResolveUser, LookupEmail, CreateUser, Revoke, ShowProfile,
                        LoadProfile, MergeProfile, SaveProfile, memory, history
    <3> QED
      BY <1>1, <1>2, <3>1, OtherStepKeepsLimits, Spans
  <2> QED
    BY <2>1, <2>2, <2>3, <2>4
<1>4. ASSUME NEW c \in Calls, NEW r \in Requests, Arrive(c, r)
      PROVE  LimitsInv'
  BY <1>1, <1>2, <1>4, ArriveKeepsLimits
<1>5. CASE (\E e \in Emails : Suspend(e)) \/ Tick \/ UNCHANGED vars
  <2>1. UNCHANGED <<window, failed, log>>
    BY <1>5 DEF Suspend, Tick, vars, memory, history
  <2>2. clock' >= clock
    BY <1>1, <1>5, Spans DEF Suspend, Tick, vars
  <2> QED
    BY <1>1, <1>2, <2>1, <2>2, OtherStepKeepsLimits
<1>6. CASE Restart
  <2>1. /\ window' = [b \in Buckets |-> <<>>] /\ failed' = [k \in Keys |-> <<>>] /\ log' = {}
    BY <1>6 DEF Restart
  <2>2. (/\ clock \in Time /\ log = {}
         /\ window = [b \in Buckets |-> <<>>] /\ failed = [k \in Keys |-> <<>>]
         => LimitsInv)'
    BY EmptyLimits, PTL
  <2> QED
    BY <1>1, <2>1, <2>2
<1> QED
  BY <1>3, <1>4, <1>5, <1>6 DEF Next

\* So it always holds.
LEMMA LimitsHold == Spec => [](IInv /\ LimitsInv)
<1>1. Init => IInv /\ LimitsInv
  <2>1. Init => clock \in Time
    BY InitTyped
  <2> QED
    BY <2>1, InitIInv, EmptyLimits DEF Init
<1>2. IInv /\ LimitsInv /\ [Next]_vars => (IInv /\ LimitsInv)'
  BY NextIInv, LimitsKept
<1> QED
  BY <1>1, <1>2, PTL DEF Spec

\* Everything the service keeps has its type, the windows and the failed logins too
\* (rate_limiter.py:31).
THEOREM EverythingTyped == Spec => []TypeOK
<1>1. IInv /\ LimitsInv => TypeOK
  BY DEF IInv, LimitsInv, Lists, LogTyped, TypeOK
<1> QED
  BY <1>1, LimitsHold, PTL

\* However the checks of the middleware and of the login handler interleave, and
\* wherever the window begins, no more calls of a bucket are let through in it than
\* its limit (rate_limiter.py:40, middleware.py).
THEOREM QuotasHold == Spec => []QuotaHolds
<1>1. IInv /\ LimitsInv => QuotaHolds
  BY DEF LimitsInv
<1> QED
  BY <1>1, LimitsHold, PTL

\* Every refusal has its cause in what was let through, or failed, in the time the
\* limit looks back; refusals are no causes (rate_limiter.py:56, rate_limiter.py:114).
THEOREM RefusalsAreCaused == Spec => []RefusalsHaveCauses
<1>1. IInv /\ LimitsInv => RefusalsHaveCauses
  BY DEF LimitsInv
<1> QED
  BY <1>1, LimitsHold, PTL
=============================================================================
