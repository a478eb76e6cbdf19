---------------------------- MODULE EvaluationApi ----------------------------
(***************************************************************************)
(* POST /purchases/evaluate with and without X-Idempotency-Key.             *)
(*                                                                          *)
(* backend/api/routers/purchases.py looks the key up, lets DecisionService  *)
(* evaluate and persist, and records the answer under the key.  The service *)
(* commits what it persists (decision_service.py), the router commits the   *)
(* record: two transactions, with nothing that holds the key in between.    *)
(* The handler is a plain def and runs in the thread pool, so calls overlap.*)
(*                                                                          *)
(* An answer is named by the call that computed it: its decision_id and     *)
(* created_at are that call's own.  Payloads are the ones that pass the     *)
(* validators; the others are answered before anything is read or written.  *)
(***************************************************************************)
EXTENDS Naturals, FiniteSets

CONSTANTS
  Users, Keys, Payloads,
  Fragile,    \* the payloads that the engine may fail on
  NoKey,      \* the header is absent
  Calls,      \* HTTP calls; bounds their number
  NoAnswer,   \* a call that has told its client nothing
  SameKeyOverlaps, \* may two calls with one key be in flight together?
  MayCrash         \* may the process die, or a commit fail?

ASSUME NoKeyAssumption == NoKey \notin Keys
ASSUME NoAnswerAssumption == NoAnswer # [code |-> 409]
ASSUME PayloadAssumption == Users # {} /\ Payloads # {} /\ Fragile \subseteq Payloads
ASSUME SwitchAssumption == SameKeyOverlaps \in BOOLEAN /\ MayCrash \in BOOLEAN

VARIABLES
  data,       \* what is stored about a user: enough to evaluate, or too little
  purchases,  \* tables purchase_requests and decisions, one row of each
  rejections, \* audit events "purchase_evaluation_rejected"
  records,    \* table idempotency_records
  pc,         \* where each call is
  call,       \* its user, key and payload
  found,      \* the data it evaluated
  answer      \* the response it has sent

vars == <<data, purchases, rejections, records, pc, call, found, answer>>

-----------------------------------------------------------------------------
Data == {"sufficient", "insufficient"}
Call == [user : Users, key : Keys \union {NoKey}, payload : Payloads]
\* 200 with a decision or 422 DATA_INSUFFICIENT, computed by a call.
Response == [code : {200, 422}, by : Calls]
Conflict == [code |-> 409]
Record == [user : Users, key : Keys, payload : Payloads, response : Response]
Purchase == [user : Users, payload : Payloads, by : Calls]
Rejection == [user : Users, by : Calls]

Working == {"lookup", "load", "persist", "record"}
InFlight(c) == pc[c] \in Working

TypeOK ==
  /\ data \in [Users -> Data]
  /\ purchases \subseteq Purchase
  /\ rejections \subseteq Rejection
  /\ records \subseteq Record
  /\ pc \in [Calls -> {"idle", "done", "failed", "lost"} \union Working]
  /\ call \in [Calls -> Call]
  /\ found \in [Calls -> Data]
  /\ answer \in [Calls -> Response \union {Conflict, NoAnswer}]

-----------------------------------------------------------------------------
(* The handler *)

\* The session is opened and the user known.
Receive(c, u, k, p) ==
  /\ pc[c] = "idle"
  /\ SameKeyOverlaps \/ k = NoKey
     \/ \A d \in Calls : InFlight(d) => call[d].user # u \/ call[d].key # k
  /\ call' = [call EXCEPT ![c] = [user |-> u, key |-> k, payload |-> p]]
  /\ pc' = [pc EXCEPT ![c] = "lookup"]
  /\ UNCHANGED <<data, purchases, rejections, records, found, answer>>

\* Mutant: the key is looked up without its user.
RecordsOf_AnyUser(u, k) == {i \in records : i.key = k}

\* Mutant: only the answers of successful evaluations are found again.
RecordsOf_200(u, k) == {i \in records : i.user = u /\ i.key = k /\ i.response.code = 200}

\* IdempotencyRepository.get_by_key
RecordsOf(u, k) == {i \in records : i.user = u /\ i.key = k}

\* Mutant: the payload hash is not compared.
SamePayload_Ignored(i, p) == TRUE

SamePayload(i, p) == i.payload = p

LookupKey(c) ==
  /\ pc[c] = "lookup"
  /\ LET cached == RecordsOf(call[c].user, call[c].key)
     IN  \/ /\ cached = {}
            /\ pc' = [pc EXCEPT ![c] = "load"]
            /\ UNCHANGED answer
         \/ \E i \in cached :
              /\ answer' = [answer EXCEPT ![c] =
                   IF SamePayload(i, call[c].payload) THEN i.response ELSE Conflict]
              /\ pc' = [pc EXCEPT ![c] = "done"]
  /\ UNCHANGED <<data, purchases, rejections, records, call, found>>

\* The profile, accounts and transactions are read, and judged by
\* DataQualityEvaluator; the engine computes on what was read.
Load(c) ==
  /\ pc[c] = "load"
  /\ found' = [found EXCEPT ![c] = data[call[c].user]]
  /\ pc' = [pc EXCEPT ![c] = "persist"]
  /\ UNCHANGED <<data, purchases, rejections, records, call, answer>>

\* Mutant: DATA_INSUFFICIENT is a 400.
Code_BadRequest(c) == IF found[c] = "sufficient" THEN 200 ELSE 400

Code(c) == IF found[c] = "sufficient" THEN 200 ELSE 422

\* Mutant: only the answers of successful evaluations are recorded.
Conclude_Skips422(c) ==
  IF call[c].key = NoKey \/ found[c] = "insufficient"
  THEN /\ pc' = [pc EXCEPT ![c] = "done"]
       /\ answer' = [answer EXCEPT ![c] =
            [code |-> Code(c), by |-> c]]
  ELSE /\ pc' = [pc EXCEPT ![c] = "record"]
       /\ UNCHANGED answer

\* A call with a key goes on to record its answer, another one gives it.
Conclude(c) ==
  IF call[c].key = NoKey
  THEN /\ pc' = [pc EXCEPT ![c] = "done"]
       /\ answer' = [answer EXCEPT ![c] = [code |-> Code(c), by |-> c]]
  ELSE /\ pc' = [pc EXCEPT ![c] = "record"]
       /\ UNCHANGED answer

\* First commit: the purchase and its decision, or the audited rejection.
Persist(c) ==
  /\ pc[c] = "persist"
  /\ IF found[c] = "sufficient"
     THEN /\ purchases' = purchases \union
               {[user |-> call[c].user, payload |-> call[c].payload, by |-> c]}
          /\ UNCHANGED rejections
     ELSE /\ rejections' = rejections \union {[user |-> call[c].user, by |-> c]}
          /\ UNCHANGED purchases
  /\ Conclude(c)
  /\ UNCHANGED <<data, records, call, found>>

Fail(c) ==
  /\ pc' = [pc EXCEPT ![c] = "failed"]
  /\ UNCHANGED <<data, purchases, rejections, records, call, found, answer>>

\* DecisionEngineError, 500, before anything is written: the payload and the profile
\* are enough for it, such as an option of a payment method the user accepts whose
\* payments all lie before the request, or a price that converts to nothing.
EngineFails(c) ==
  /\ pc[c] = "persist"
  /\ found[c] = "sufficient" /\ call[c].payload \in Fragile
  /\ Fail(c)

\* PersistenceError: rolled back, 500.
PersistFails(c) ==
  /\ MayCrash
  /\ pc[c] = "persist"
  /\ Fail(c)

\* Mutant: ix_user_idempotency_key is not unique.
KeyIsFree_Always(u, k) == TRUE

KeyIsFree(u, k) == ~\E i \in records : i.user = u /\ i.key = k

\* Second commit: the unique index ix_user_idempotency_key lets one of several
\* records in; for the others the IntegrityError is not handled, 500.
RecordAnswer(c) ==
  /\ pc[c] = "record"
  /\ LET q == call[c]
         a == [code |-> Code(c), by |-> c]
     IN  IF KeyIsFree(q.user, q.key)
         THEN /\ records' = records \union
                   {[user |-> q.user, key |-> q.key, payload |-> q.payload, response |-> a]}
              /\ answer' = [answer EXCEPT ![c] = a]
              /\ pc' = [pc EXCEPT ![c] = "done"]
         ELSE /\ pc' = [pc EXCEPT ![c] = "failed"]
              /\ UNCHANGED <<records, answer>>
  /\ UNCHANGED <<data, purchases, rejections, call, found>>

\* The commit of the record fails, which nothing handles: 500.
RecordFails(c) ==
  /\ MayCrash
  /\ pc[c] = "record"
  /\ Fail(c)

-----------------------------------------------------------------------------
(* What else happens *)

\* The user imports statements or edits the profile; time makes data stale.
DataChanges(u) ==
  /\ data' = [data EXCEPT ![u] = IF @ = "sufficient" THEN "insufficient" ELSE "sufficient"]
  /\ UNCHANGED <<purchases, rejections, records, pc, call, found, answer>>

\* The process dies; only what was committed is left.
Restart ==
  /\ MayCrash
  /\ pc' = [c \in Calls |-> IF InFlight(c) THEN "lost" ELSE pc[c]]
  /\ UNCHANGED <<data, purchases, rejections, records, call, found, answer>>

NoCall ==
  [user |-> CHOOSE u \in Users : TRUE, key |-> NoKey,
   payload |-> CHOOSE p \in Payloads : TRUE]

Init ==
  /\ data \in [Users -> Data]
  /\ purchases = {} /\ rejections = {} /\ records = {}
  /\ pc = [c \in Calls |-> "idle"]
  /\ call = [c \in Calls |-> NoCall]
  /\ found = [c \in Calls |-> "insufficient"]
  /\ answer = [c \in Calls |-> NoAnswer]

Step(c) ==
  \/ LookupKey(c)
  \/ Load(c)
  \/ Persist(c)
  \/ EngineFails(c) \/ PersistFails(c)
  \/ RecordAnswer(c) \/ RecordFails(c)

Next ==
  \/ \E c \in Calls :
       \/ \E u \in Users, k \in Keys \union {NoKey}, p \in Payloads : Receive(c, u, k, p)
       \/ Step(c)
  \/ \E u \in Users : DataChanges(u)
  \/ Restart

Spec == Init /\ [][Next]_vars

-----------------------------------------------------------------------------
(* Properties *)

Answered(c) == answer[c] # NoAnswer
SameName(c, d) == call[c].user = call[d].user /\ call[c].key = call[d].key /\ call[c].key # NoKey
Persisted(c) == (\E p \in purchases : p.by = c) \/ (\E r \in rejections : r.by = c)

\* However calls overlap and whenever the process dies, the clients that used
\* one key of a user and were not told of a conflict were given one answer, to
\* one payload (API_RUNTIME.md, 5: the cached response; purchases.py).
AnswersAgree ==
  \A c, d \in Calls :
    /\ SameName(c, d)
    /\ Answered(c) /\ answer[c] # Conflict
    /\ Answered(d) /\ answer[d] # Conflict
    => answer[c] = answer[d] /\ call[c].payload = call[d].payload

\* An answer, replayed or not, was computed by a call of the same user with the
\* same key and payload, and what it says was persisted and is still there: the
\* decision of a 200, the audited rejection of a 422.
AnswersAreFounded ==
  \A c \in Calls :
    Answered(c) /\ answer[c] # Conflict =>
      LET d == answer[c].by IN
        /\ call[d] = call[c]
        /\ answer[c].code = 200 =>
             [user |-> call[c].user, payload |-> call[c].payload, by |-> d] \in purchases
        /\ answer[c].code = 422 => [user |-> call[c].user, by |-> d] \in rejections

\* A client is told of a conflict only if the key is recorded, for this user,
\* with another payload: no other tenant's key gets in the way.
ConflictsAreReal ==
  \A c \in Calls :
    answer[c] = Conflict =>
      \E i \in records : /\ i.user = call[c].user /\ i.key = call[c].key
                         /\ i.payload # call[c].payload

\* A key is evaluated and persisted once (API_RUNTIME.md:121, "To prevent
\* duplicate purchases caused by network retries or double-clicks").
OneEvaluationPerKey ==
  \A c, d \in Calls : SameName(c, d) /\ Persisted(c) /\ Persisted(d) => c = d

\* A call that ends in an internal error has stored nothing, and its payload is one
\* that the engine fails on: it never has its purchase stored and is refused by the
\* unique index for an answer the look-up has overlooked (purchases.py:47, :195).
FailuresStoreNothing ==
  \A c \in Calls : pc[c] = "failed" => ~Persisted(c) /\ call[c].payload \in Fragile

-----------------------------------------------------------------------------
(* What the header promises: AnswerOnce *)

Names == [user : Users, key : Keys \union {NoKey}]
Unnamed == [user : Users, key : {NoKey}]
NameOf(q) == [user |-> q.user, key |-> q.key]

Asked ==
  [c \in {d \in Calls : pc[d] # "idle"} |->
     [name |-> NameOf(call[c]), payload |-> call[c].payload]]
Bound ==
  {[name |-> NameOf(i), payload |-> i.payload, answer |-> i.response] : i \in records}

Once ==
  INSTANCE AnswerOnce WITH
    Call <- Calls, Name <- Names, Payload <- Payloads, Answer <- Response,
    asked <- Asked, bound <- Bound, reply <- answer

\* The handler keeps that promise: each record binds a free key together with
\* the answer it gives, and the other answers repeat or refuse by a record.
ImplementsAnswerOnce == Once!Spec
=============================================================================
