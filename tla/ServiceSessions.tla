--------------------------- MODULE ServiceSessions ---------------------------
(***************************************************************************)
(* Who may call the service, how often, and what a call does to the user's  *)
(* account, tokens and profile.                                             *)
(*                                                                          *)
(* Every request passes RateLimitMiddleware, which counts it in a sliding   *)
(* window in memory, and, unless it registers or logs in, get_current_user, *)
(* which checks its token.  The handlers of routers/auth.py and             *)
(* routers/profile.py are plain defs in a thread pool: they overlap, each   *)
(* with a session of its own, and commit once.                              *)
(*                                                                          *)
(* A token is named by the login that issues it (its jti is a new uuid).    *)
(* The bucket of a request is its address, together with the first sixteen  *)
(* characters of its bearer token, if any.  Those are the base64 of the     *)
(* beginning of the JWT header, the same for every token, so a bucket is    *)
(* an address and whether there is a token.                                 *)
(***************************************************************************)
EXTENDS Integers, Sequences, FiniteSets, SequencesExt

CONSTANTS
  Emails, Addresses,
  Known,           \* who has registered before the behaviour starts
  Fields, Values,  \* the fields of a profile and what they may hold
  InitialProfile,  \* what a field holds before it is ever given
  Omitted,         \* a field that a request leaves out
  NoProfile,
  Calls,           \* HTTP calls; bounds their number
  Earlier,         \* tokens issued before the behaviour starts
  NoToken,
  Requests,        \* what a client may ask for
  Limit,           \* calls per window, for each category
  Window,          \* 60 s
  MaxFailures,     \* 5 failed logins ...
  FailureSpan,     \* ... in 300 s ...
  Cooldown,        \* ... are followed by 60 s of refusals
  TokenLife,       \* ACCESS_TOKEN_EXPIRE_MINUTES
  MaxTime          \* the last instant of the clock: a bound

Tokens == Calls \union Earlier
Kinds == {"register", "login", "logout", "show", "save"}
Update == [Fields -> Values \union {Omitted}]
Profile == [version : Nat \ {0}, field : [Fields -> Values]]
\* good: the password is strong (register) or the right one (login).
Request == [kind : Kinds, from : Addresses, email : Emails,
            token : Earlier \union Calls \union {NoToken}, good : BOOLEAN, update : Update]

ASSUME TokenAssumption ==
  /\ Calls \intersect Earlier = {}
  /\ NoToken \notin Tokens \union [email : Emails, expires : Nat]
  /\ Known \subseteq Emails
ASSUME ProfileAssumption ==
  /\ InitialProfile \in [Fields -> Values]
  /\ "payment_methods" \in Fields => InitialProfile["payment_methods"] # "[]"
  /\ Omitted \notin Values
  /\ NoProfile \notin Profile
ASSUME RequestAssumption == Requests \subseteq Request /\ Requests # {}
ASSUME TimeAssumption ==
  /\ Limit \in [{"auth", "general"} -> Nat \ {0}]
  /\ {Window, MaxFailures, FailureSpan, Cooldown, TokenLife, MaxTime} \subseteq Nat \ {0}

VARIABLES
  clock,
  account,   \* table users: the status of an address, or "none"
  token,     \* tokens issued: whose, and when they expire
  revoked,   \* table revoked_tokens
  profile,   \* table financial_profiles
  audit,     \* table audit_events, of these handlers
  window,    \* RateLimiter._windows
  failed,    \* RateLimiter._failed_logins
  pc,        \* where each call is
  call,      \* what it asks for
  seen,      \* the profile a save read first
  base,      \* the profile object it writes to
  answer,    \* the status code it was given
  dead,      \* the tokens revoked before it arrived
  log        \* what the limits did in this process, and when (history)

vars == <<clock, account, token, revoked, profile, audit, window, failed, pc, call,
          seen, base, answer, dead, log>>
tables == <<account, token, revoked, profile, audit>>
memory == <<window, failed>>
history == <<dead, log>>

-----------------------------------------------------------------------------
Time == 0 .. MaxTime
Category(kind) == IF kind \in {"show", "save"} THEN "general" ELSE "auth"
Bucket(r) == <<Category(r.kind), r.from, r.token # NoToken>>
Buckets == {"auth", "general"} \X Addresses \X BOOLEAN
Keys == Addresses \X Emails
Events == {"user_registered", "login_failed", "login_success", "logout"}
Working == {"lookup", "create", "throttle", "count", "verify", "token", "user",
            "revoke", "show", "load", "merge", "write"}
\* "counted" and "refused" by the middleware, again by the login handler, by
\* the login throttle, and a login that failed.
Limiting == {"counted", "refused", "recounted", "rerefused", "throttled", "failure"}
Codes == {200, 201, 401, 403, 404, 409, 422, 429, 500}
NoAnswer == 0
Status == {"none", "active", "suspended"}

TablesTyped ==
  /\ account \in [Emails -> Status]
  /\ token \in [Tokens -> [email : Emails, expires : Nat] \union {NoToken}]
  /\ revoked \subseteq Tokens
  /\ profile \in [Emails -> Profile \union {NoProfile}]
  /\ audit \subseteq Events \X Calls

CallsTyped ==
  /\ pc \in [Calls -> {"idle", "done", "lost"} \union Working]
  /\ call \in [Calls -> Request]
  /\ seen \in [Calls -> Profile \union {NoProfile}]
  /\ base \in [Calls -> Profile \union {NoProfile}]
  /\ answer \in [Calls -> Codes \union {NoAnswer}]
  /\ dead \in [Calls -> SUBSET Tokens]

TypeOK ==
  /\ clock \in Time
  /\ TablesTyped
  /\ CallsTyped
  /\ window \in [Buckets -> Seq(Time)]
  /\ failed \in [Keys -> Seq(Time)]
  /\ log \subseteq [call : Calls, what : Limiting, at : Time]

-----------------------------------------------------------------------------
(* RateLimiter: both lists hold times, oldest first, since a time is only ever *)
(* appended and is the present one: what is newer than some time is at the end. *)

Newer(times, t) == {i \in DOMAIN times : times[i] > t}
Latest(times, n) == SubSeq(times, Len(times) - n + 1, Len(times))

\* Mutant: what happened this very second is forgotten too.
Recent_Early(times, span) == Latest(times, Cardinality(Newer(times, clock - span + 1)))

\* An entry exactly as old as the window has left it.
Recent(times, span) == Latest(times, Cardinality(Newer(times, clock - span)))

\* Mutant: one call too many.
Admits_OneMore(bucket, category) == Len(Recent(window[bucket], Window)) <= Limit[category]

Admits(bucket, category) == Len(Recent(window[bucket], Window)) < Limit[category]

\* Only what is admitted is counted, or a client that retries is never served.
Count(bucket, admitted) ==
  window' = [window EXCEPT ![bucket] =
               LET recent == Recent(@, Window)
               IN  IF admitted THEN Append(recent, clock) ELSE recent]

\* Mutant: the refusals last as long as the failures are remembered.
Throttled_Forever(key) == Len(Recent(failed[key], FailureSpan)) >= MaxFailures

\* is_login_throttled: failures are counted over FailureSpan, but the refusals
\* end Cooldown after the last of them.
Throttled(key) ==
  LET failures == Recent(failed[key], FailureSpan)
  IN  /\ Len(failures) >= MaxFailures
      /\ clock - Last(failures) < Cooldown

-----------------------------------------------------------------------------
(* Steps of a call *)

Goto(c, phase) == pc' = [pc EXCEPT ![c] = phase] /\ UNCHANGED answer
Finish(c, code) == pc' = [pc EXCEPT ![c] = "done"] /\ answer' = [answer EXCEPT ![c] = code]
Note(c, what) == log' = log \union {[call |-> c, what |-> what, at |-> clock]}
Log(event, c) == audit' = audit \union {<<event, c>>}
Key(c) == <<call[c].from, call[c].email>>
Owner(c) == token[call[c].token].email
Proceed(kind) ==
  CASE kind = "register" -> "lookup" [] kind = "login" -> "throttle" [] OTHER -> "token"

\* RateLimitMiddleware.dispatch.  A client can only name a token it was given.
Arrive(c, r) ==
  LET bucket == Bucket(r)
      admitted == Admits(bucket, Category(r.kind))
  IN  /\ pc[c] = "idle"
      /\ r.token # NoToken => token[r.token] # NoToken
      /\ call' = [call EXCEPT ![c] = r]
      /\ dead' = [dead EXCEPT ![c] = revoked]
      /\ Count(bucket, admitted)
      /\ IF admitted
         THEN Goto(c, Proceed(r.kind)) /\ Note(c, "counted")
         ELSE Finish(c, 429) /\ Note(c, "refused")
      /\ UNCHANGED <<tables, failed, clock, seen, base>>

\* Mutant: the table of revoked tokens is not asked.
Acceptable_Revoked(t) == t # NoToken /\ clock < token[t].expires

\* get_current_user up to the revocation check: there is a token, it has not
\* expired (PyJWT refuses it from the second of its exp on), nobody revoked it.
Acceptable(t) == t # NoToken /\ clock < token[t].expires /\ t \notin revoked

CheckToken(c) ==
  /\ pc[c] = "token"
  /\ IF Acceptable(call[c].token) THEN Goto(c, "user") ELSE Finish(c, 401)
  /\ UNCHANGED <<tables, memory, clock, call, seen, base, history>>

\* The rest of it, and the choice of the handler.
ResolveUser(c) ==
  /\ pc[c] = "user"
  /\ LET status == account[Owner(c)]
     IN  IF status = "active"
         THEN Goto(c, CASE call[c].kind = "logout" -> "revoke"
                        [] call[c].kind = "show" -> "show"
                        [] call[c].kind = "save" -> "load")
         ELSE Finish(c, IF status = "none" THEN 401 ELSE 403)
  /\ UNCHANGED <<tables, memory, clock, call, seen, base, history>>

-----------------------------------------------------------------------------
(* routers/auth.py *)

\* The address is free, and then the password is judged.
LookupEmail(c) ==
  /\ pc[c] = "lookup"
  /\ IF account[call[c].email] # "none" THEN Finish(c, 409)
     ELSE IF ~call[c].good THEN Finish(c, 422)
     ELSE Goto(c, "create")
  /\ UNCHANGED <<tables, memory, clock, call, seen, base, history>>

\* Mutant: users.email has no unique index.
Unique_Not(email) == TRUE

\* The unique index on users.email.
Unique(email) == account[email] = "none"

\* The row is flushed and committed with its audit event; the index makes the
\* second of two that found the address free fail.
CreateUser(c) ==
  /\ pc[c] = "create"
  /\ IF Unique(call[c].email)
     THEN /\ account' = [account EXCEPT ![call[c].email] = "active"]
          /\ Log("user_registered", c)
          /\ Finish(c, 201)
     ELSE /\ Finish(c, 500)
          /\ UNCHANGED <<account, audit>>
  /\ UNCHANGED <<token, revoked, profile, memory, clock, call, seen, base, history>>

CheckThrottle(c) ==
  /\ pc[c] = "throttle"
  /\ failed' = [failed EXCEPT ![Key(c)] = Recent(@, FailureSpan)]
  /\ IF Throttled(Key(c))
     THEN Finish(c, 429) /\ Note(c, "throttled")
     ELSE Goto(c, "count") /\ UNCHANGED log
  /\ UNCHANGED <<tables, window, clock, call, seen, base, dead>>

\* The handler's own check counts a login a second time, always in the bucket
\* of its address.
CountLogin(c) ==
  LET bucket == <<"auth", call[c].from, FALSE>>
      admitted == Admits(bucket, "auth")
  IN  /\ pc[c] = "count"
      /\ Count(bucket, admitted)
      /\ IF admitted
         THEN Goto(c, "verify") /\ Note(c, "recounted")
         ELSE Finish(c, 429) /\ Note(c, "rerefused")
      /\ UNCHANGED <<tables, failed, clock, call, seen, base, dead>>

\* record_failed_login, and the audit event if there is a user to own it.
RejectLogin(c) ==
  /\ failed' = [failed EXCEPT ![Key(c)] = Append(Recent(@, FailureSpan), clock)]
  /\ IF account[call[c].email] # "none" THEN Log("login_failed", c) ELSE UNCHANGED audit
  /\ Finish(c, 401)
  /\ Note(c, "failure")
  /\ UNCHANGED token

\* clear_failed_login, create_access_token and the audit event.
AcceptLogin(c) ==
  /\ failed' = [failed EXCEPT ![Key(c)] = <<>>]
  /\ token' = [token EXCEPT ![c] = [email |-> call[c].email, expires |-> clock + TokenLife]]
  /\ Log("login_success", c)
  /\ Finish(c, 200)
  /\ UNCHANGED log

\* A suspended user with the right password is turned away; the failures stay.
VerifyPassword(c) ==
  /\ pc[c] = "verify"
  /\ LET status == account[call[c].email]
     IN  \/ /\ status = "none" \/ ~call[c].good
            /\ RejectLogin(c)
         \/ /\ status = "suspended" /\ call[c].good
            /\ Finish(c, 403)
            /\ UNCHANGED <<failed, token, audit, log>>
         \/ /\ status = "active" /\ call[c].good
            /\ AcceptLogin(c)
  /\ UNCHANGED <<account, revoked, profile, window, clock, call, seen, base, dead>>

\* The token is decoded again; its jti is the primary key of revoked_tokens, so
\* the second of two overlapping logouts fails.
Revoke(c) ==
  /\ pc[c] = "revoke"
  /\ LET t == call[c].token
     IN  \/ /\ clock >= token[t].expires
            /\ Finish(c, 401)
            /\ UNCHANGED <<revoked, audit>>
         \/ /\ clock < token[t].expires /\ t \in revoked
            /\ Finish(c, 500)
            /\ UNCHANGED <<revoked, audit>>
         \/ /\ clock < token[t].expires /\ t \notin revoked
            /\ revoked' = revoked \union {t}
            /\ Log("logout", c)
            /\ Finish(c, 200)
  /\ UNCHANGED <<account, token, profile, memory, clock, call, seen, base, history>>

-----------------------------------------------------------------------------
(* routers/profile.py *)

ShowProfile(c) ==
  /\ pc[c] = "show"
  /\ Finish(c, IF profile[Owner(c)] = NoProfile THEN 404 ELSE 200)
  /\ UNCHANGED <<tables, memory, clock, call, seen, base, history>>

\* update_profile reads the profile its omitted fields are taken from.
LoadProfile(c) ==
  /\ pc[c] = "load"
  /\ seen' = [seen EXCEPT ![c] = profile[Owner(c)]]
  /\ Goto(c, "merge")
  /\ UNCHANGED <<tables, memory, clock, call, base, history>>

\* save_or_update queries again.  An object the session has already loaded keeps
\* its attributes; a row that has come into being is loaded now.
MergeProfile(c) ==
  /\ pc[c] = "merge"
  /\ base' = [base EXCEPT ![c] = IF seen[c] = NoProfile THEN profile[Owner(c)] ELSE seen[c]]
  /\ Goto(c, "write")
  /\ UNCHANGED <<tables, memory, clock, call, seen, history>>

Given(c, f) ==
  IF call[c].update[f] # Omitted THEN call[c].update[f]
  ELSE IF seen[c] # NoProfile THEN seen[c].field[f]
  ELSE InitialProfile[f]

\* An empty list of payment methods is replaced by all of them.
Stored(c, f) ==
  IF f = "payment_methods" /\ Given(c, f) = "[]" THEN InitialProfile[f] ELSE Given(c, f)

\* Mutant: the whole row is written.
Written_All(c) == Fields

\* SQLAlchemy writes the columns whose value is not the one that was loaded.
Written(c) == {f \in Fields : Stored(c, f) # base[c].field[f]}

\* The session of a call ends with it.
Forget(calls) ==
  /\ seen' = [c \in Calls |-> IF c \in calls THEN NoProfile ELSE seen[c]]
  /\ base' = [c \in Calls |-> IF c \in calls THEN NoProfile ELSE base[c]]

InsertProfile(c) ==
  /\ base[c] = NoProfile
  /\ IF profile[Owner(c)] = NoProfile
     THEN /\ profile' = [profile EXCEPT ![Owner(c)] =
                [version |-> 1, field |-> [f \in Fields |-> Stored(c, f)]]]
          /\ Finish(c, 200)
     ELSE /\ Finish(c, 500)
          /\ UNCHANGED profile

UpdateProfile(c) ==
  /\ base[c] # NoProfile
  /\ profile' = [profile EXCEPT ![Owner(c)] =
       [version |-> base[c].version + 1,
        field |-> [f \in Fields |-> IF f \in Written(c) THEN Stored(c, f) ELSE @.field[f]]]]
  /\ Finish(c, 200)

SaveProfile(c) ==
  /\ pc[c] = "write"
  /\ InsertProfile(c) \/ UpdateProfile(c)
  /\ Forget({c})
  /\ UNCHANGED <<account, token, revoked, audit, memory, clock, call, history>>

-----------------------------------------------------------------------------
(* Around the calls *)

Tick ==
  /\ clock < MaxTime
  /\ clock' = clock + 1
  /\ UNCHANGED <<tables, memory, pc, call, seen, base, answer, history>>

\* An operator changes users.status; nothing in the service does.
Suspend(e) ==
  /\ account[e] = "active"
  /\ account' = [account EXCEPT ![e] = "suspended"]
  /\ UNCHANGED <<token, revoked, profile, audit, memory, clock, pc, call, seen, base,
                 answer, history>>

\* The windows and the failed logins are forgotten, and calls in flight die.
Restart ==
  /\ window' = [b \in Buckets |-> <<>>]
  /\ failed' = [k \in Keys |-> <<>>]
  /\ pc' = [c \in Calls |-> IF pc[c] \in Working THEN "lost" ELSE pc[c]]
  /\ log' = {}
  /\ Forget(Calls)
  /\ UNCHANGED <<tables, clock, call, answer, dead>>

Init ==
  /\ clock = 0
  /\ account = [e \in Emails |-> IF e \in Known THEN "active" ELSE "none"]
  /\ token \in [Tokens -> [email : Known, expires : {TokenLife}] \union {NoToken}]
  /\ \A t \in Tokens : token[t] = NoToken <=> t \in Calls
  /\ profile \in [Emails -> {[version |-> 1, field |-> InitialProfile], NoProfile}]
  /\ \A e \in Emails : account[e] = "none" => profile[e] = NoProfile
  /\ revoked = {}
  /\ audit = {}
  /\ window = [b \in Buckets |-> <<>>]
  /\ failed = [k \in Keys |-> <<>>]
  /\ pc = [c \in Calls |-> "idle"]
  /\ call = [c \in Calls |-> CHOOSE r \in Requests : TRUE]
  /\ seen = [c \in Calls |-> NoProfile]
  /\ base = [c \in Calls |-> NoProfile]
  /\ answer = [c \in Calls |-> NoAnswer]
  /\ dead = [c \in Calls |-> {}]
  /\ log = {}

Step(c) ==
  \/ CheckToken(c) \/ ResolveUser(c)
  \/ LookupEmail(c) \/ CreateUser(c)
  \/ CheckThrottle(c) \/ CountLogin(c) \/ VerifyPassword(c)
  \/ Revoke(c)
  \/ ShowProfile(c) \/ LoadProfile(c) \/ MergeProfile(c) \/ SaveProfile(c)

Next ==
  \/ \E c \in Calls : Step(c) \/ \E r \in Requests : Arrive(c, r)
  \/ \E e \in Emails : Suspend(e)
  \/ Tick
  \/ Restart

Spec == Init /\ [][Next]_vars

-----------------------------------------------------------------------------
(* Properties *)

\* A token that was revoked before a call arrived opens nothing to it, whatever
\* else was under way: docs/FINAL_ARCHITECTURE.md, "logout blacklists token
\* immediately" (dependencies.py:141, auth.py:213).
RevokedStayOut ==
  \A c \in Calls : pc[c] # "idle" /\ call[c].token \in dead[c] =>
    \/ call[c].kind \in {"register", "login"}
    \/ answer[c] \in {NoAnswer, 401, 429} /\ pc[c] \in {"token", "done", "lost"}

\* What the limits counted in a bucket in the last Window seconds before t.
Within(t, span) == {l \in log : t - span < l.at /\ l.at <= t}
Entries(bucket, t) ==
  {l \in Within(t, Window) :
     \/ l.what = "counted" /\ Bucket(call[l.call]) = bucket
     \/ l.what = "recounted" /\ <<"auth", call[l.call].from, FALSE>> = bucket}

\* No process lets more than the limit through in any window, wherever the window
\* begins and however the checks of the middleware and of the login handler
\* interleave (rate_limiter.py:40).
QuotaHolds ==
  \A bucket \in Buckets, t \in Time : Cardinality(Entries(bucket, t)) <= Limit[bucket[1]]

\* Who is refused is refused for calls of the same bucket that were let through
\* within the window, or for failed logins of the same address and e-mail, the
\* last of them within the cooldown: refused calls do not prolong the refusal
\* (rate_limiter.py:56, rate_limiter.py:114).
RefusalsHaveCauses ==
  \A l \in log :
    LET r == call[l.call]
        failures(span) ==
          {f \in Within(l.at, span) : /\ f.what = "failure"
                                      /\ <<call[f.call].from, call[f.call].email>> = <<r.from, r.email>>}
    IN  /\ l.what = "refused" => Cardinality(Entries(Bucket(r), l.at)) >= Limit[Category(r.kind)]
        /\ l.what = "rerefused" =>
             Cardinality(Entries(<<"auth", r.from, FALSE>>, l.at)) >= Limit["auth"]
        /\ l.what = "throttled" => /\ Cardinality(failures(FailureSpan)) >= MaxFailures
                                   /\ failures(Cooldown) # {}

\* Of the registrations of one address, however they overlap, at most one creates
\* its account, which leaves an audit event and is told 201; and one is turned away
\* as a duplicate, or fails on the unique index, only when another has created the
\* account before it, so that not all of them fail (auth.py:57, auth.py:79).
RegisteredOnce ==
  \A e \in Emails :
    LET created == {c \in Calls : call[c].email = e /\ <<"user_registered", c>> \in audit}
    IN  /\ Cardinality(created) <= 1
        /\ account[e] # "none" <=> e \in Known \/ created # {}
        /\ \A c \in Calls : call[c].email = e /\ call[c].kind = "register" =>
             /\ answer[c] = 201 <=> c \in created
             /\ answer[c] \in {409, 500} => account[e] # "none" /\ c \notin created

\* A save changes the fields its request names and no others, whatever saves
\* overlap it, unless there was no profile when it began (profile.py:52,
\* profile_repository.py:39).
UnnamedFieldsKept ==
  [][\A e \in Emails, f \in Fields :
       profile[e] # NoProfile /\ profile'[e].field[f] # profile[e].field[f] =>
         \E c \in Calls : /\ pc[c] = "write" /\ pc'[c] = "done" /\ Owner(c) = e
                          /\ (call[c].update[f] # Omitted \/ seen[c] = NoProfile)]_vars
=============================================================================
