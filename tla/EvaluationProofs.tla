--------------------------- MODULE EvaluationProofs ---------------------------
(* Theorems about EvaluationApi and its refinement of AnswerOnce. *)
EXTENDS EvaluationApi, TLAPS

-----------------------------------------------------------------------------
(* The inductive invariant, however calls overlap and whenever the process dies *)

\* What an answer of a code, computed by call d, claims to have stored.
Stored(d, code) ==
  /\ code = 200 => [user |-> call[d].user, payload |-> call[d].payload, by |-> d] \in purchases
  /\ code = 422 => [user |-> call[d].user, by |-> d] \in rejections

\* Only a call that is done has said anything.
SilentUntilDone == \A c \in Calls : pc[c] # "done" => answer[c] = NoAnswer

\* A call about to record its answer has a key and has stored its result.
RecordAfterStore ==
  \A c \in Calls : pc[c] = "record" => call[c].key # NoKey /\ Stored(c, Code(c))

\* A record is the answer of a call that is done and asked just that.
RecordsFounded ==
  \A i \in records :
    /\ pc[i.response.by] = "done"
    /\ call[i.response.by] = [user |-> i.user, key |-> i.key, payload |-> i.payload]
    /\ Stored(i.response.by, i.response.code)

\* The unique index.
RecordsUnique == \A i, j \in records : i.user = j.user /\ i.key = j.key => i = j

\* Is the answer of call c the one in record i?
Recorded(c, i) ==
  /\ call[c] = [user |-> i.user, key |-> i.key, payload |-> i.payload]
  /\ answer[c] = i.response

\* An answer under a key is a record's, another one is the call's own.
AnswersRecorded ==
  \A c \in Calls : Answered(c) /\ answer[c] # Conflict =>
    /\ call[c].key # NoKey => \E i \in records : Recorded(c, i)
    /\ call[c].key = NoKey => answer[c].by = c /\ Stored(c, answer[c].code)

IInv ==
  /\ TypeOK
  /\ SilentUntilDone
  /\ RecordAfterStore
  /\ RecordsFounded
  /\ RecordsUnique
  /\ AnswersRecorded
  /\ ConflictsAreReal

-----------------------------------------------------------------------------
(* Type correctness *)

\* The placeholder for a call not made yet is well typed.
LEMMA NoCallTyped == NoCall \in Call
<1>1. (CHOOSE u \in Users : TRUE) \in Users
  BY PayloadAssumption
<1>2. (CHOOSE p \in Payloads : TRUE) \in Payloads
  BY PayloadAssumption
<1> QED
  BY <1>1, <1>2 DEF NoCall, Call

\* A computed response is 200 or 422 and names the call that computed it.
LEMMA AnswerTyped ==
  ASSUME NEW c \in Calls
  PROVE  [code |-> Code(c), by |-> c] \in Response
BY DEF Code, Response

\* Every step keeps the types.
LEMMA TypeStep == IInv /\ [Next]_vars => TypeOK'
<1> SUFFICES ASSUME IInv, [Next]_vars
             PROVE  TypeOK'
  OBVIOUS
<1> USE DEF IInv, TypeOK, Working
<1>1. ASSUME NEW c \in Calls, NEW u \in Users, NEW k \in Keys \union {NoKey},
             NEW p \in Payloads, Receive(c, u, k, p)
      PROVE  TypeOK'
  BY <1>1 DEF Receive, Call
<1>2. ASSUME NEW c \in Calls, LookupKey(c)
      PROVE  TypeOK'
  BY <1>2 DEF LookupKey, RecordsOf, Record
<1>3. ASSUME NEW c \in Calls, Load(c)
      PROVE  TypeOK'
  BY <1>3 DEF Load, Call
<1>4. ASSUME NEW c \in Calls, Persist(c)
      PROVE  TypeOK'
  <2>1. /\ pc' \in [Calls -> {"idle", "done", "failed", "lost"} \union Working]
        /\ answer' \in [Calls -> Response \union {Conflict, NoAnswer}]
    BY <1>4, AnswerTyped DEF Persist, Conclude
  <2>2. purchases' \subseteq Purchase /\ rejections' \subseteq Rejection
    BY <1>4 DEF Persist, Purchase, Rejection, Call
  <2> QED
    BY <1>4, <2>1, <2>2 DEF Persist
<1>5. ASSUME NEW c \in Calls, EngineFails(c) \/ PersistFails(c) \/ RecordFails(c)
      PROVE  TypeOK'
  BY <1>5 DEF EngineFails, PersistFails, RecordFails, Fail
<1>6. ASSUME NEW c \in Calls, RecordAnswer(c)
      PROVE  TypeOK'
  <2>1. [user |-> call[c].user, key |-> call[c].key, payload |-> call[c].payload,
         response |-> [code |-> Code(c), by |-> c]] \in Record
    BY <1>6, AnswerTyped DEF RecordAnswer, RecordAfterStore, Record, Call
  <2> QED
    BY <1>6, <2>1, AnswerTyped DEF RecordAnswer
<1>7. ASSUME NEW u \in Users, DataChanges(u)
      PROVE  TypeOK'
  BY <1>7 DEF DataChanges, Data
<1>8. CASE Restart
  BY <1>8 DEF Restart
<1>9. CASE UNCHANGED vars
  BY <1>9 DEF vars
<1> QED
  BY <1>1, <1>2, <1>3, <1>4, <1>5, <1>6, <1>7, <1>8, <1>9 DEF Next, Step

-----------------------------------------------------------------------------
(* The invariant *)

\* The invariant holds before the first call.
LEMMA InitEstablishes == Init => IInv
<1> SUFFICES ASSUME Init PROVE IInv
  OBVIOUS
<1>1. TypeOK
  BY NoCallTyped DEF Init, TypeOK, Data
<1>2. \A c \in Calls : pc[c] = "idle" /\ answer[c] = NoAnswer
  BY DEF Init
<1>3. records = {}
  BY DEF Init
<1>4. AnswersRecorded /\ ConflictsAreReal
  BY <1>2, NoAnswerAssumption DEF AnswersRecorded, Answered, ConflictsAreReal, Conflict
<1> QED
  BY <1>1, <1>2, <1>3, <1>4
  DEF IInv, SilentUntilDone, RecordAfterStore, RecordsFounded, RecordsUnique

\* Stored rows stay, so a claim about a call already made stays true.
LEMMA StoredStays ==
  ASSUME purchases \subseteq purchases', rejections \subseteq rejections',
         NEW d, NEW code, call'[d] = call[d], Stored(d, code)
  PROVE  Stored(d, code)'
BY DEF Stored

\* Receiving a call keeps the invariant.
LEMMA ReceiveKeeps ==
  ASSUME IInv, TypeOK', NEW c \in Calls, NEW u \in Users, NEW k \in Keys \union {NoKey},
         NEW p \in Payloads, Receive(c, u, k, p)
  PROVE  IInv'
<1> USE DEF IInv, Receive
<1>1. \A d \in Calls : d # c => call'[d] = call[d] /\ pc'[d] = pc[d]
  BY DEF TypeOK
<1>2. pc[c] = "idle" /\ pc'[c] = "lookup" /\ answer[c] = NoAnswer
  BY DEF TypeOK, SilentUntilDone
<1>3. SilentUntilDone'
  BY <1>1, <1>2 DEF SilentUntilDone
<1>4. RecordAfterStore'
  BY <1>1, <1>2 DEF RecordAfterStore, Stored, Code
<1>5. \A i \in records : i.response.by \in Calls \ {c}
  BY <1>2, ZenonT(40) DEF RecordsFounded, TypeOK, Record, Response
<1>6. RecordsFounded'
  <2> SUFFICES ASSUME NEW i \in records
               PROVE  /\ pc'[i.response.by] = "done"
                      /\ call'[i.response.by] =
                           [user |-> i.user, key |-> i.key, payload |-> i.payload]
                      /\ Stored(i.response.by, i.response.code)'
    BY DEF RecordsFounded
  <2>1. call'[i.response.by] = call[i.response.by] /\ pc'[i.response.by] = pc[i.response.by]
    BY <1>1, <1>5
  <2> QED
    BY <2>1, StoredStays DEF RecordsFounded
<1>7. RecordsUnique'
  BY DEF RecordsUnique
<1>8. AnswersRecorded'
  BY <1>1, <1>2 DEF AnswersRecorded, Answered, Recorded, Stored
<1>9. ConflictsAreReal'
  BY <1>1, <1>2, NoAnswerAssumption DEF ConflictsAreReal, Conflict
<1> QED
  BY <1>3, <1>4, <1>6, <1>7, <1>8, <1>9

\* Steps of a call that say nothing, store nothing and do not reach "record".
LEMMA QuietStepKeeps ==
  ASSUME IInv, TypeOK', UNCHANGED <<purchases, rejections, records, call, answer>>,
         \A d \in Calls : pc[d] = "done" <=> pc'[d] = "done",
         \A d \in Calls : pc'[d] = "record" => pc[d] = "record" /\ Code(d)' = Code(d)
  PROVE  IInv'
<1> USE DEF IInv
<1>1. SilentUntilDone'
  BY DEF SilentUntilDone
<1>2. RecordAfterStore'
  BY DEF RecordAfterStore, Stored
<1>3. RecordsFounded'
  <2> SUFFICES ASSUME NEW i \in records
               PROVE  /\ pc'[i.response.by] = "done"
                      /\ call'[i.response.by] =
                           [user |-> i.user, key |-> i.key, payload |-> i.payload]
                      /\ Stored(i.response.by, i.response.code)'
    BY DEF RecordsFounded
  <2>1. i.response.by \in Calls
    BY DEF TypeOK, Record, Response
  <2> QED
    BY <2>1, StoredStays DEF RecordsFounded
<1>4. RecordsUnique' /\ ConflictsAreReal'
  BY DEF RecordsUnique, ConflictsAreReal
<1>5. AnswersRecorded'
  BY DEF AnswersRecorded, Answered, Recorded, Stored
<1> QED
  BY <1>1, <1>2, <1>3, <1>4, <1>5

\* The look-up of the key, with its three outcomes, keeps the invariant.
LEMMA LookupKeeps ==
  ASSUME IInv, TypeOK', NEW c \in Calls, LookupKey(c)
  PROVE  IInv'
<1> USE DEF IInv
<1>1. pc[c] = "lookup" /\ UNCHANGED <<data, purchases, rejections, records, call, found>>
  BY DEF LookupKey
<1>2. CASE pc' = [pc EXCEPT ![c] = "load"] /\ UNCHANGED answer
  BY <1>1, <1>2, QuietStepKeeps DEF TypeOK, Code
<1>3. ASSUME NEW i \in RecordsOf(call[c].user, call[c].key),
             answer' = [answer EXCEPT ![c] =
               IF SamePayload(i, call[c].payload) THEN i.response ELSE Conflict],
             pc' = [pc EXCEPT ![c] = "done"]
      PROVE  IInv'
  <2>1. /\ i \in records /\ i.user = call[c].user /\ i.key = call[c].key
        /\ call[c].key # NoKey
    BY NoKeyAssumption DEF RecordsOf, TypeOK, Record
  <2>2. /\ pc'[c] = "done"
        /\ answer'[c] = IF i.payload = call[c].payload THEN i.response ELSE Conflict
    BY <1>3 DEF TypeOK, SamePayload
  <2>3. \A d \in Calls : d # c => pc'[d] = pc[d] /\ answer'[d] = answer[d]
    BY <1>3 DEF TypeOK
  <2>4. \A d, code : Stored(d, code)' <=> Stored(d, code)
    BY <1>1 DEF Stored
  <2>5. \A d \in Calls : Code(d)' = Code(d)
    BY <1>1 DEF Code
  <2>6. SilentUntilDone' /\ RecordAfterStore'
    BY <1>1, <2>2, <2>3, <2>4, <2>5 DEF SilentUntilDone, RecordAfterStore
  <2>7. RecordsFounded'
    <3> SUFFICES ASSUME NEW j \in records
                 PROVE  /\ pc'[j.response.by] = "done"
                        /\ call'[j.response.by] =
                             [user |-> j.user, key |-> j.key, payload |-> j.payload]
                        /\ Stored(j.response.by, j.response.code)'
      BY <1>1 DEF RecordsFounded
    <3>1. j.response.by \in Calls /\ pc[j.response.by] = "done"
      BY DEF TypeOK, Record, Response, RecordsFounded
    <3> QED
      BY <1>1, <2>3, <2>4, <3>1 DEF RecordsFounded
  <2>8. RecordsUnique'
    BY <1>1 DEF RecordsUnique
  <2>9. AnswersRecorded'
    <3>1. ASSUME answer'[c] # Conflict
          PROVE  Recorded(c, i)'
      <4>1. i.payload = call[c].payload /\ answer'[c] = i.response
        BY <2>2, <3>1
      <4> QED
        BY <1>1, <2>1, <4>1 DEF Recorded, TypeOK, Call
    <3> QED
      BY <1>1, <2>1, <2>3, <2>4, <3>1 DEF AnswersRecorded, Answered, Recorded
  <2>10. ConflictsAreReal'
    <3>1. ASSUME answer'[c] = Conflict
          PROVE  i.payload # call[c].payload
      <4>1. i.response.code \in {200, 422} /\ Conflict.code = 409
        BY <2>1 DEF TypeOK, Record, Response, Conflict
      <4> QED
        BY <2>2, <3>1, <4>1
    <3> QED
      BY <1>1, <2>1, <2>3, <3>1 DEF ConflictsAreReal
  <2> QED
    BY <2>6, <2>7, <2>8, <2>9, <2>10
<1> QED
  BY <1>2, <1>3 DEF LookupKey

\* The commit of a purchase and its decision keeps the invariant.
LEMMA PersistKeeps ==
  ASSUME IInv, TypeOK', NEW c \in Calls, Persist(c)
  PROVE  IInv'
<1> USE DEF IInv
<1>1. /\ pc[c] = "persist"
      /\ purchases \subseteq purchases' /\ rejections \subseteq rejections'
      /\ UNCHANGED <<data, records, call, found>>
  BY DEF Persist
<1>2. /\ \A d, code : Stored(d, code) => Stored(d, code)'
      /\ \A d \in Calls : Code(d)' = Code(d)
  BY <1>1 DEF Stored, Code
<1>3. Stored(c, Code(c))'
  BY <1>1 DEF Persist, Stored, Code
<1>4. \A d \in Calls : d # c => pc'[d] = pc[d] /\ answer'[d] = answer[d]
  BY DEF Persist, Conclude, TypeOK
<1>5. IF call[c].key = NoKey
      THEN pc'[c] = "done" /\ answer'[c] = [code |-> Code(c), by |-> c]
      ELSE pc'[c] = "record" /\ answer'[c] = answer[c]
  BY DEF Persist, Conclude, TypeOK
<1>6. answer[c] = NoAnswer
  BY <1>1 DEF SilentUntilDone
<1>7. SilentUntilDone'
  BY <1>4, <1>5, <1>6 DEF SilentUntilDone
<1>8. RecordAfterStore'
  BY <1>1, <1>2, <1>3, <1>4, <1>5 DEF RecordAfterStore
<1>9. RecordsFounded'
  <2> SUFFICES ASSUME NEW i \in records
               PROVE  /\ pc'[i.response.by] = "done"
                      /\ call'[i.response.by] =
                           [user |-> i.user, key |-> i.key, payload |-> i.payload]
                      /\ Stored(i.response.by, i.response.code)'
    BY <1>1 DEF RecordsFounded
  <2>1. i.response.by \in Calls \ {c}
    BY <1>1 DEF TypeOK, Record, Response, RecordsFounded
  <2> QED
    BY <1>1, <1>2, <1>4, <2>1 DEF RecordsFounded
<1>10. RecordsUnique'
  BY <1>1 DEF RecordsUnique
<1>11. AnswersRecorded'
  <2>1. ASSUME NEW d \in Calls, d # c, answer'[d] # NoAnswer, answer'[d] # Conflict
        PROVE  /\ call'[d].key # NoKey => \E i \in records' : Recorded(d, i)'
               /\ call'[d].key = NoKey => (answer[d].by = d /\ Stored(d, answer[d].code))'
    BY <1>1, <1>2, <1>4, <2>1 DEF AnswersRecorded, Answered, Recorded
  <2>2. call[c].key # NoKey => answer'[c] = NoAnswer
    BY <1>5, <1>6
  <2>3. call[c].key = NoKey => (answer[c].by = c /\ Stored(c, answer[c].code))'
    <3> SUFFICES ASSUME call[c].key = NoKey
                 PROVE  (answer[c].by = c /\ Stored(c, answer[c].code))'
      OBVIOUS
    <3>1. answer'[c].by = c /\ answer'[c].code = Code(c)' /\ call'[c] = call[c]
      BY <1>1, <1>2, <1>5
    <3> QED
      BY <1>3, <3>1
  <2> QED
    BY <1>1, <2>1, <2>2, <2>3 DEF AnswersRecorded, Answered
<1>12. ConflictsAreReal'
  <2>1. Conflict.code # [code |-> Code(c), by |-> c].code
    BY DEF Conflict, Code
  <2>2. answer'[c] # Conflict
    BY <1>5, <1>6, <2>1, NoAnswerAssumption DEF Conflict
  <2> QED
    BY <1>1, <1>4, <2>2 DEF ConflictsAreReal
<1> QED
  BY <1>7, <1>8, <1>9, <1>10, <1>11, <1>12

\* The record of an answer, or its refusal by the unique index, keeps the invariant.
LEMMA RecordKeeps ==
  ASSUME IInv, TypeOK', NEW c \in Calls, RecordAnswer(c)
  PROVE  IInv'
<1> USE DEF IInv
<1> PICK q : q = call[c]
  OBVIOUS
<1> PICK a : a = [code |-> Code(c), by |-> c]
  OBVIOUS
<1> PICK r : r = [user |-> q.user, key |-> q.key, payload |-> q.payload, response |-> a]
  OBVIOUS
<1>1. pc[c] = "record" /\ UNCHANGED <<data, purchases, rejections, call, found>>
  BY DEF RecordAnswer
<1>2. CASE ~KeyIsFree(q.user, q.key)
  <2>1. pc' = [pc EXCEPT ![c] = "failed"] /\ UNCHANGED <<records, answer>>
    BY <1>2 DEF RecordAnswer
  <2> QED
    BY <1>1, <2>1, QuietStepKeeps DEF TypeOK, Code
<1>3. CASE KeyIsFree(q.user, q.key)
  <2>1. /\ records' = records \union {r}
        /\ answer' = [answer EXCEPT ![c] = a]
        /\ pc' = [pc EXCEPT ![c] = "done"]
    BY <1>3 DEF RecordAnswer
  <2>2. pc'[c] = "done" /\ answer'[c] = a
    BY <2>1 DEF TypeOK
  <2>3. \A d \in Calls : d # c => pc'[d] = pc[d] /\ answer'[d] = answer[d]
    BY <2>1 DEF TypeOK
  <2>4. /\ \A d, code : Stored(d, code)' <=> Stored(d, code)
        /\ \A d \in Calls : Code(d)' = Code(d)
    BY <1>1 DEF Stored, Code
  <2>5. q.key # NoKey /\ Stored(c, Code(c))
    BY <1>1 DEF RecordAfterStore
  <2>6. q = [user |-> q.user, key |-> q.key, payload |-> q.payload]
    BY DEF TypeOK, Call
  <2>7. SilentUntilDone' /\ RecordAfterStore'
    BY <1>1, <2>2, <2>3, <2>4 DEF SilentUntilDone, RecordAfterStore
  <2>8. RecordsFounded'
    <3>1. ASSUME NEW i \in records
          PROVE  /\ pc'[i.response.by] = "done"
                 /\ call'[i.response.by] =
                      [user |-> i.user, key |-> i.key, payload |-> i.payload]
                 /\ Stored(i.response.by, i.response.code)'
      <4>1. i.response.by \in Calls \ {c}
        BY <1>1 DEF TypeOK, Record, Response, RecordsFounded
      <4> QED
        BY <1>1, <2>3, <2>4, <4>1 DEF RecordsFounded
    <3>2. r.response.by = c /\ r.response.code = Code(c)
      OBVIOUS
    <3>3. /\ pc'[r.response.by] = "done"
          /\ call'[r.response.by] = [user |-> r.user, key |-> r.key, payload |-> r.payload]
          /\ Stored(r.response.by, r.response.code)'
      BY <1>1, <2>2, <2>4, <2>5, <2>6, <3>2
    <3> QED
      BY <2>1, <3>1, <3>3 DEF RecordsFounded
  <2>9. RecordsUnique'
    BY <1>3, <2>1 DEF RecordsUnique, KeyIsFree
  <2>10. AnswersRecorded'
    <3>1. Recorded(c, r)'
      BY <1>1, <2>2, <2>6 DEF Recorded
    <3>2. ASSUME NEW d \in Calls, d # c, answer'[d] # NoAnswer, answer'[d] # Conflict
          PROVE  /\ call'[d].key # NoKey => \E i \in records' : Recorded(d, i)'
                 /\ call'[d].key = NoKey => (answer[d].by = d /\ Stored(d, answer[d].code))'
      BY <1>1, <2>1, <2>3, <2>4, <3>2 DEF AnswersRecorded, Answered, Recorded
    <3> QED
      BY <1>1, <2>1, <2>5, <3>1, <3>2 DEF AnswersRecorded, Answered
  <2>11. ConflictsAreReal'
    <3>1. Conflict.code # a.code
      BY DEF Conflict, Code
    <3>2. answer'[c] # Conflict
      BY <2>2, <3>1
    <3> QED
      BY <1>1, <2>1, <2>3, <3>2 DEF ConflictsAreReal
  <2> QED
    BY <2>7, <2>8, <2>9, <2>10, <2>11
<1> QED
  BY <1>2, <1>3

\* The invariant is inductive.
LEMMA NextKeeps == IInv /\ [Next]_vars => IInv'
<1> SUFFICES ASSUME IInv, [Next]_vars
             PROVE  IInv'
  OBVIOUS
<1>1. TypeOK'
  BY TypeStep
<1>2. ASSUME NEW c \in Calls, Load(c)
      PROVE  IInv'
  BY <1>1, <1>2, QuietStepKeeps DEF Load, IInv, TypeOK, Code
<1>3. ASSUME NEW c \in Calls, EngineFails(c) \/ PersistFails(c) \/ RecordFails(c)
      PROVE  IInv'
  BY <1>1, <1>3, QuietStepKeeps DEF EngineFails, PersistFails, RecordFails, Fail, IInv, TypeOK, Code
<1>4. ASSUME NEW u \in Users, DataChanges(u)
      PROVE  IInv'
  BY <1>1, <1>4, QuietStepKeeps DEF DataChanges, Code
<1>5. CASE Restart
  BY <1>1, <1>5, QuietStepKeeps DEF Restart, InFlight, Working, IInv, TypeOK, Code
<1>6. CASE UNCHANGED vars
  BY <1>1, <1>6, QuietStepKeeps DEF vars, Code
<1> QED
  BY <1>1, <1>2, <1>3, <1>4, <1>5, <1>6, ReceiveKeeps, LookupKeeps, PersistKeeps, RecordKeeps
  DEF Next, Step

\* The inductive invariant holds throughout.
THEOREM InvHolds == Spec => []IInv
BY InitEstablishes, NextKeeps, PTL DEF Spec

\* Type correctness of EvaluationApi.
THEOREM TypeCorrect == Spec => []TypeOK
<1>1. IInv => TypeOK
  BY DEF IInv
<1> QED
  BY <1>1, InvHolds, PTL

\* The clients of a key that were not told of a conflict were told one answer.
THEOREM AnswersAlwaysAgree == Spec => []AnswersAgree
<1>1. ASSUME IInv, NEW c \in Calls, NEW d \in Calls, SameName(c, d),
             Answered(c), answer[c] # Conflict, Answered(d), answer[d] # Conflict
      PROVE  answer[c] = answer[d] /\ call[c].payload = call[d].payload
  <2>1. PICK i \in records : Recorded(c, i)
    BY <1>1 DEF IInv, AnswersRecorded, SameName
  <2>2. PICK j \in records : Recorded(d, j)
    BY <1>1 DEF IInv, AnswersRecorded, SameName
  <2>3. i.user = j.user /\ i.key = j.key
    BY <1>1, <2>1, <2>2 DEF Recorded, SameName
  <2>4. i = j
    BY <1>1, <2>3 DEF IInv, RecordsUnique
  <2> QED
    BY <2>1, <2>2, <2>4 DEF Recorded
<1>2. IInv => AnswersAgree
  BY <1>1 DEF AnswersAgree
<1> QED
  BY <1>2, InvHolds, PTL

\* What an answer says was computed by a call like the one answered and stored.
THEOREM AnswersAlwaysFounded == Spec => []AnswersAreFounded
<1>1. ASSUME IInv, NEW c \in Calls, Answered(c), answer[c] # Conflict
      PROVE  call[answer[c].by] = call[c] /\ Stored(answer[c].by, answer[c].code)
  <2>1. CASE call[c].key = NoKey
    BY <1>1, <2>1 DEF IInv, AnswersRecorded
  <2>2. CASE call[c].key # NoKey
    <3>1. PICK i \in records : Recorded(c, i)
      BY <1>1, <2>2 DEF IInv, AnswersRecorded
    <3> QED
      BY <1>1, <3>1 DEF IInv, Recorded, RecordsFounded
  <2> QED
    BY <2>1, <2>2
<1>2. IInv => AnswersAreFounded
  BY <1>1 DEF AnswersAreFounded, Stored
<1> QED
  BY <1>2, InvHolds, PTL

\* A conflict is with a record of the same user and key and another payload.
THEOREM ConflictsAlwaysReal == Spec => []ConflictsAreReal
<1>1. IInv => ConflictsAreReal
  BY DEF IInv
<1> QED
  BY <1>1, InvHolds, PTL

-----------------------------------------------------------------------------
(* Without overlap and crashes: a key is evaluated once *)

\* The discipline itself.
KeysDoNotOverlap ==
  \A c, d \in Calls : InFlight(c) /\ InFlight(d) /\ SameName(c, d) => c = d

\* A call past its lookup works for a key that has no record.
WorksForFreeKey ==
  \A c \in Calls :
    pc[c] \in {"load", "persist", "record"} /\ call[c].key # NoKey =>
      KeyIsFree(call[c].user, call[c].key)

\* A call that has stored something is about to record it, or its key is bound.
StoredIsRecorded ==
  \A c \in Calls :
    Persisted(c) /\ call[c].key # NoKey =>
      pc[c] = "record" \/ ~KeyIsFree(call[c].user, call[c].key)

\* A call stores nothing before its persist step.
NothingStoredYet ==
  \A c \in Calls : pc[c] \in {"idle", "lookup", "load", "persist"} => ~Persisted(c)

SerialInv ==
  /\ KeysDoNotOverlap
  /\ WorksForFreeKey
  /\ StoredIsRecorded
  /\ NothingStoredYet
  /\ OneEvaluationPerKey
  /\ FailuresStoreNothing

\* The serial strengthening holds before the first call.
LEMMA InitSerial == Init => SerialInv
BY DEF Init, SerialInv, KeysDoNotOverlap, WorksForFreeKey, StoredIsRecorded, NothingStoredYet,
       OneEvaluationPerKey, FailuresStoreNothing, InFlight, Working, Persisted

\* Steps that move a call on and store, bind and fail nothing.
LEMMA MoveKeepsSerial ==
  ASSUME SerialInv, UNCHANGED <<purchases, rejections, records, call>>,
         \A d \in Calls : InFlight(d)' => InFlight(d),
         \A d \in Calls : pc[d] = "record" <=> pc'[d] = "record",
         \A d \in Calls : pc'[d] \in {"idle", "lookup", "load", "persist"} =>
           pc[d] \in {"idle", "lookup", "load", "persist"},
         \A d \in Calls : pc'[d] \in {"load", "persist"} =>
           pc[d] \in {"load", "persist"} \/ call[d].key = NoKey
             \/ KeyIsFree(call[d].user, call[d].key),
         \A d \in Calls : pc'[d] = "failed" =>
           pc[d] = "failed" \/ (pc[d] = "persist" /\ call[d].payload \in Fragile)
  PROVE  SerialInv'
<1> USE DEF SerialInv
<1>1. \A c, d \in Calls : SameName(c, d)' <=> SameName(c, d)
  BY DEF SameName
<1>2. \A u, k : KeyIsFree(u, k)' <=> KeyIsFree(u, k)
  BY DEF KeyIsFree
<1>3. \A c \in Calls : Persisted(c)' <=> Persisted(c)
  BY DEF Persisted
<1>4. KeysDoNotOverlap'
  BY <1>1 DEF KeysDoNotOverlap
<1>5. WorksForFreeKey'
  BY <1>2 DEF WorksForFreeKey
<1>6. StoredIsRecorded'
  BY <1>2, <1>3 DEF StoredIsRecorded
<1>7. NothingStoredYet'
  BY <1>3 DEF NothingStoredYet
<1>8. OneEvaluationPerKey' /\ FailuresStoreNothing'
  BY <1>1, <1>3 DEF OneEvaluationPerKey, FailuresStoreNothing, NothingStoredYet
<1> QED
  BY <1>4, <1>5, <1>6, <1>7, <1>8

\* A call that does not overlap another of its key keeps the strengthening.
LEMMA ReceiveKeepsSerial ==
  ASSUME SameKeyOverlaps = FALSE, IInv, SerialInv, NEW c \in Calls, NEW u \in Users,
         NEW k \in Keys \union {NoKey}, NEW p \in Payloads, Receive(c, u, k, p)
  PROVE  SerialInv'
<1> USE DEF SerialInv
<1>1. /\ pc[c] = "idle" /\ pc'[c] = "lookup"
      /\ call'[c] = [user |-> u, key |-> k, payload |-> p]
      /\ UNCHANGED <<purchases, rejections, records>>
  BY DEF Receive, IInv, TypeOK
<1>2. \A d \in Calls : d # c => pc'[d] = pc[d] /\ call'[d] = call[d]
  BY DEF Receive, IInv, TypeOK
<1>3. k # NoKey => \A d \in Calls : InFlight(d) => call[d].user # u \/ call[d].key # k
  BY DEF Receive
<1>4. \A d \in Calls : d # c => (InFlight(d)' <=> InFlight(d))
  BY <1>2 DEF InFlight
<1>5. KeysDoNotOverlap'
  BY <1>1, <1>2, <1>3, <1>4 DEF KeysDoNotOverlap, SameName
<1>6. \A d \in Calls : Persisted(d)' <=> Persisted(d)
  BY <1>1 DEF Persisted
<1>7. ~Persisted(c)
  BY <1>1 DEF NothingStoredYet
<1>8. WorksForFreeKey'
  BY <1>1, <1>2 DEF WorksForFreeKey, KeyIsFree
<1>9. StoredIsRecorded'
  BY <1>1, <1>2, <1>6, <1>7 DEF StoredIsRecorded, KeyIsFree
<1>10. NothingStoredYet'
  BY <1>1, <1>2, <1>6, <1>7 DEF NothingStoredYet
<1>11. OneEvaluationPerKey' /\ FailuresStoreNothing'
  BY <1>1, <1>2, <1>6, <1>7 DEF OneEvaluationPerKey, FailuresStoreNothing, SameName
<1> QED
  BY <1>5, <1>8, <1>9, <1>10, <1>11

\* Its evaluation is the first of the key to be stored.
LEMMA PersistKeepsSerial ==
  ASSUME IInv, SerialInv, NEW c \in Calls, Persist(c)
  PROVE  SerialInv'
<1> USE DEF SerialInv
<1>1. pc[c] = "persist" /\ UNCHANGED <<records, call>>
  BY DEF Persist
<1>2. IF call[c].key = NoKey THEN pc'[c] = "done" ELSE pc'[c] = "record"
  BY DEF Persist, Conclude, IInv, TypeOK
<1>3. \A d \in Calls : d # c => pc'[d] = pc[d] /\ (Persisted(d)' <=> Persisted(d))
  BY DEF Persist, Conclude, IInv, TypeOK, Persisted
<1>4. /\ \A d \in Calls : InFlight(d)' => InFlight(d)
      /\ \A d, e \in Calls : SameName(d, e)' <=> SameName(d, e)
  BY <1>1, <1>2, <1>3 DEF InFlight, Working, SameName
<1>5. KeysDoNotOverlap'
  BY <1>4 DEF KeysDoNotOverlap
<1>6. WorksForFreeKey' /\ StoredIsRecorded' /\ NothingStoredYet'
  BY <1>1, <1>2, <1>3 DEF WorksForFreeKey, StoredIsRecorded, NothingStoredYet, KeyIsFree
<1>7. ASSUME NEW d \in Calls, SameName(c, d), Persisted(d)
      PROVE  d = c
  <2>1. KeyIsFree(call[d].user, call[d].key) /\ call[d].key # NoKey
    BY <1>1, <1>7 DEF WorksForFreeKey, SameName
  <2>2. pc[d] = "record"
    BY <1>7, <2>1 DEF StoredIsRecorded
  <2> QED
    BY <1>1, <1>7, <2>2 DEF KeysDoNotOverlap, InFlight, Working
<1>8. OneEvaluationPerKey'
  BY <1>3, <1>4, <1>7 DEF OneEvaluationPerKey, SameName
<1>9. FailuresStoreNothing'
  BY <1>1, <1>2, <1>3 DEF FailuresStoreNothing
<1> QED
  BY <1>5, <1>6, <1>8, <1>9

\* Its record finds the key free.
LEMMA RecordKeepsSerial ==
  ASSUME IInv, SerialInv, NEW c \in Calls, RecordAnswer(c)
  PROVE  SerialInv'
<1> USE DEF SerialInv
<1>1. pc[c] = "record" /\ UNCHANGED <<purchases, rejections, call>>
  BY DEF RecordAnswer
<1>2. call[c].key # NoKey /\ KeyIsFree(call[c].user, call[c].key)
  BY <1>1 DEF WorksForFreeKey, IInv, RecordAfterStore
<1> PICK r : r = [user |-> call[c].user, key |-> call[c].key, payload |-> call[c].payload,
                  response |-> [code |-> Code(c), by |-> c]]
  OBVIOUS
<1>3. /\ records' = records \union {r}
      /\ r.user = call[c].user /\ r.key = call[c].key
  BY <1>2 DEF RecordAnswer
<1>4. pc'[c] = "done" /\ \A d \in Calls : d # c => pc'[d] = pc[d]
  BY <1>2 DEF RecordAnswer, IInv, TypeOK
<1>5. \A u, k : KeyIsFree(u, k)' <=>
        KeyIsFree(u, k) /\ ~(u = call[c].user /\ k = call[c].key)
  BY <1>3 DEF KeyIsFree
<1>6. /\ \A d \in Calls : InFlight(d)' => InFlight(d)
      /\ \A d, e \in Calls : SameName(d, e)' <=> SameName(d, e)
      /\ \A d \in Calls : Persisted(d)' <=> Persisted(d)
  BY <1>1, <1>4 DEF InFlight, Working, SameName, Persisted
<1>7. KeysDoNotOverlap'
  BY <1>6 DEF KeysDoNotOverlap
<1>8. ASSUME NEW d \in Calls, d # c, pc[d] \in {"load", "persist", "record"},
             call[d].key # NoKey
      PROVE  ~(call[d].user = call[c].user /\ call[d].key = call[c].key)
  BY <1>1, <1>8 DEF KeysDoNotOverlap, SameName, InFlight, Working
<1>9. WorksForFreeKey'
  BY <1>1, <1>4, <1>5, <1>8 DEF WorksForFreeKey
<1>10. StoredIsRecorded' /\ NothingStoredYet'
  BY <1>1, <1>4, <1>5, <1>6 DEF StoredIsRecorded, NothingStoredYet
<1>11. OneEvaluationPerKey' /\ FailuresStoreNothing'
  BY <1>1, <1>4, <1>6 DEF OneEvaluationPerKey, FailuresStoreNothing
<1> QED
  BY <1>7, <1>9, <1>10, <1>11

\* The strengthening is inductive where calls of one key do not overlap and nothing dies.
LEMMA NextSerial ==
  ASSUME SameKeyOverlaps = FALSE, MayCrash = FALSE, IInv, SerialInv, [Next]_vars
  PROVE  SerialInv'
<1> USE DEF InFlight, Working
<1>1. ASSUME NEW c \in Calls, LookupKey(c)
      PROVE  SerialInv'
  <2>1. \/ pc' = [pc EXCEPT ![c] = "load"] /\ RecordsOf(call[c].user, call[c].key) = {}
        \/ pc' = [pc EXCEPT ![c] = "done"]
    BY <1>1 DEF LookupKey
  <2>2. pc'[c] = "load" => KeyIsFree(call[c].user, call[c].key)
    BY <2>1 DEF RecordsOf, KeyIsFree, IInv, TypeOK
  <2> QED
    BY <1>1, <2>1, <2>2, MoveKeepsSerial DEF LookupKey, IInv, TypeOK
<1>2. ASSUME NEW c \in Calls, Load(c)
      PROVE  SerialInv'
  BY <1>2, MoveKeepsSerial DEF Load, IInv, TypeOK
<1>3. ASSUME NEW u \in Users, DataChanges(u)
      PROVE  SerialInv'
  BY <1>3, MoveKeepsSerial DEF DataChanges
<1>4. CASE UNCHANGED vars
  BY <1>4, MoveKeepsSerial DEF vars
<1>5. ~Restart /\ \A c \in Calls : ~PersistFails(c) /\ ~RecordFails(c)
  BY DEF Restart, PersistFails, RecordFails
<1>6. ASSUME NEW c \in Calls, EngineFails(c)
      PROVE  SerialInv'
  BY <1>6, MoveKeepsSerial DEF EngineFails, Fail, IInv, TypeOK
<1> QED
  BY <1>1, <1>2, <1>3, <1>4, <1>5, <1>6, ReceiveKeepsSerial, PersistKeepsSerial, RecordKeepsSerial
  DEF Next, Step

\* The serial strengthening holds throughout in that case.
LEMMA SerialHolds ==
  ASSUME SameKeyOverlaps = FALSE, MayCrash = FALSE
  PROVE  Spec => []SerialInv
<1>1. IInv /\ SerialInv /\ [Next]_vars => SerialInv'
  BY NextSerial
<1> QED
  BY <1>1, InvHolds, InitSerial, PTL DEF Spec

\* If calls with one key do not overlap and nothing dies between the two
\* commits, a key is evaluated and stored once (purchases.py:63).
THEOREM SerialKeysEvaluateOnce ==
  ASSUME SameKeyOverlaps = FALSE, MayCrash = FALSE
  PROVE  Spec => []OneEvaluationPerKey
<1>1. SerialInv => OneEvaluationPerKey
  BY DEF SerialInv
<1> QED
  BY <1>1, SerialHolds, PTL

\* Under the same assumptions a call that fails has stored nothing, and only the
\* engine fails, on a payload it cannot evaluate: the unique index never meets a
\* second record of a key (purchases.py:193, decision_service.py:274).
THEOREM SerialFailuresStoreNothing ==
  ASSUME SameKeyOverlaps = FALSE, MayCrash = FALSE
  PROVE  Spec => []FailuresStoreNothing
<1>1. SerialInv => FailuresStoreNothing
  BY DEF SerialInv
<1> QED
  BY <1>1, SerialHolds, PTL

-----------------------------------------------------------------------------
(* The handler implements AnswerOnce *)

\* The binding a record stands for.
Binding(i) == [name |-> NameOf(i), payload |-> i.payload, answer |-> i.response]

\* The initial state maps to an initial state of AnswerOnce.
LEMMA InitRefines == Init => Once!Init
BY DEF Init, Once!Init, Asked, Bound

\* Steps that show nothing to a client.
LEMMA HiddenStep ==
  ASSUME UNCHANGED <<records, call, answer>>,
         \A c \in Calls : pc[c] = "idle" <=> pc'[c] = "idle"
  PROVE  UNCHANGED <<Asked, Bound, answer>>
<1>1. {d \in Calls : pc[d] # "idle"} = {d \in Calls : pc'[d] # "idle"}
  OBVIOUS
<1>2. Asked' = Asked
  BY <1>1 DEF Asked
<1>3. Bound' = Bound
  BY DEF Bound
<1> QED
  BY <1>2, <1>3

\* What a call past "idle" is known to have asked.
LEMMA AskedOf ==
  ASSUME NEW c \in Calls, pc[c] # "idle"
  PROVE  /\ c \in DOMAIN Asked
         /\ Asked[c].name = NameOf(call[c]) /\ Asked[c].payload = call[c].payload
BY DEF Asked

\* Receiving a call is the Ask of AnswerOnce.
LEMMA ReceiveAsks ==
  ASSUME IInv, NEW c \in Calls, NEW u \in Users, NEW k \in Keys \union {NoKey},
         NEW p \in Payloads, Receive(c, u, k, p)
  PROVE  Once!Ask(c, [user |-> u, key |-> k], p)
<1> DEFINE made == {d \in Calls : pc[d] # "idle"}
<1>1. pc[c] = "idle" /\ pc'[c] = "lookup"
  BY DEF Receive, IInv, TypeOK
<1>2. \A d \in Calls : d # c => pc'[d] = pc[d] /\ call'[d] = call[d]
  BY DEF Receive, IInv, TypeOK
<1>3. call'[c] = [user |-> u, key |-> k, payload |-> p]
  BY DEF Receive, IInv, TypeOK
<1>4. c \notin DOMAIN Asked /\ DOMAIN Asked = made
  BY <1>1 DEF Asked
<1>5. {d \in Calls : pc'[d] # "idle"} = made \union {c}
  BY <1>1, <1>2
<1>6. Asked' = [d \in made \union {c} |->
                  IF d = c THEN [name |-> [user |-> u, key |-> k], payload |-> p] ELSE Asked[d]]
  <2>1. Asked' = [d \in made \union {c} |->
                    [name |-> NameOf(call'[d]), payload |-> call'[d].payload]]
    BY <1>5 DEF Asked, NameOf
  <2>2. NameOf(call'[c]) = [user |-> u, key |-> k] /\ call'[c].payload = p
    BY <1>3 DEF NameOf
  <2>3. \A d \in made : d # c /\ call'[d] = call[d]
    BY <1>1, <1>2
  <2>4. \A d \in made : Asked[d] = [name |-> NameOf(call'[d]), payload |-> call'[d].payload]
    BY <2>3 DEF Asked
  <2> HIDE DEF made
  <2> QED
    BY <2>1, <2>2, <2>3, <2>4
<1>7. UNCHANGED <<Bound, answer>>
  BY DEF Receive, Bound
<1> QED
  BY <1>4, <1>6, <1>7 DEF Once!Ask

\* A look-up answers from the binding, reports a conflict, or shows nothing.
LEMMA LookupRefines ==
  ASSUME IInv, NEW c \in Calls, LookupKey(c)
  PROVE  Once!Repeat(c) \/ Once!Refuse(c) \/ UNCHANGED <<Asked, Bound, answer>>
<1>1. /\ pc[c] = "lookup" /\ answer[c] = NoAnswer
      /\ UNCHANGED <<records, call>>
  BY DEF LookupKey, IInv, SilentUntilDone
<1>2. \A d \in Calls : pc[d] = "idle" <=> pc'[d] = "idle"
  BY <1>1 DEF LookupKey, IInv, TypeOK
<1>3. UNCHANGED <<Asked, Bound>>
  <2>1. {d \in Calls : pc[d] # "idle"} = {d \in Calls : pc'[d] # "idle"}
    BY <1>2
  <2> QED
    BY <1>1, <2>1 DEF Asked, Bound
<1>4. ASSUME NEW i \in RecordsOf(call[c].user, call[c].key),
             answer' = [answer EXCEPT ![c] =
               IF SamePayload(i, call[c].payload) THEN i.response ELSE Conflict]
      PROVE  Once!Repeat(c) \/ Once!Refuse(c)
  <2>1. i \in records /\ NameOf(i) = Asked[c].name
    BY <1>1, AskedOf DEF RecordsOf, NameOf
  <2>2. PICK b : b = Binding(i)
    OBVIOUS
  <2>3. /\ b \in Bound /\ b.name = Asked[c].name
        /\ b.payload = i.payload /\ b.answer = i.response
    BY <2>1, <2>2 DEF Binding, Bound
  <2>4. c \in DOMAIN Asked /\ Asked[c].payload = call[c].payload
    BY <1>1, AskedOf
  <2>5. CASE i.payload = call[c].payload
    <3>1. answer' = [answer EXCEPT ![c] = b.answer]
      BY <1>4, <2>3, <2>5 DEF SamePayload
    <3> QED
      BY <1>1, <1>3, <2>3, <2>4, <2>5, <3>1 DEF Once!Repeat, Once!Reply
  <2>6. CASE i.payload # call[c].payload
    <3>1. answer' = [answer EXCEPT ![c] = Conflict]
      BY <1>4, <2>6 DEF SamePayload
    <3> QED
      BY <1>1, <1>3, <2>3, <2>4, <2>6, <3>1 DEF Once!Refuse, Once!Reply
  <2> QED
    BY <2>5, <2>6
<1> QED
  BY <1>3, <1>4 DEF LookupKey

\* Storing an evaluation answers a call without a key and shows nothing of another.
LEMMA PersistRefines ==
  ASSUME IInv, NEW c \in Calls, Persist(c)
  PROVE  (\E a \in Response : Once!AnswerUnnamed(c, a)) \/ UNCHANGED <<Asked, Bound, answer>>
<1>1. pc[c] = "persist" /\ answer[c] = NoAnswer /\ UNCHANGED <<records, call>>
  BY DEF Persist, IInv, SilentUntilDone
<1>2. \A d \in Calls : pc[d] = "idle" <=> pc'[d] = "idle"
  BY <1>1 DEF Persist, Conclude, IInv, TypeOK
<1>3. UNCHANGED <<Asked, Bound>>
  <2>1. {d \in Calls : pc[d] # "idle"} = {d \in Calls : pc'[d] # "idle"}
    BY <1>2
  <2> QED
    BY <1>1, <2>1 DEF Asked, Bound
<1>4. CASE call[c].key # NoKey
  BY <1>3, <1>4 DEF Persist, Conclude
<1>5. CASE call[c].key = NoKey
  <2>1. PICK a \in Response : answer' = [answer EXCEPT ![c] = a]
    BY <1>5, AnswerTyped DEF Persist, Conclude
  <2>2. c \in DOMAIN Asked /\ Asked[c].name \in Unnamed
    <3>1. call[c].user \in Users
      BY DEF IInv, TypeOK, Call
    <3>2. NameOf(call[c]) \in Unnamed
      BY <1>5, <3>1 DEF NameOf, Unnamed
    <3> QED
      BY <1>1, <3>2, AskedOf
  <2> QED
    BY <1>1, <1>3, <2>1, <2>2 DEF Once!AnswerUnnamed, Once!Reply
<1> QED
  BY <1>4, <1>5

\* A record binds the name and answers in one step.
LEMMA RecordRefines ==
  ASSUME IInv, NEW c \in Calls, RecordAnswer(c)
  PROVE  (\E a \in Response : Once!Bind(c, a)) \/ UNCHANGED <<Asked, Bound, answer>>
<1>1. pc[c] = "record" /\ answer[c] = NoAnswer /\ UNCHANGED call /\ call[c].key # NoKey
  BY DEF RecordAnswer, IInv, SilentUntilDone, RecordAfterStore
<1>2. \A d \in Calls : pc[d] = "idle" <=> pc'[d] = "idle"
  BY <1>1 DEF RecordAnswer, IInv, TypeOK
<1>3. Asked' = Asked
  <2>1. {d \in Calls : pc[d] # "idle"} = {d \in Calls : pc'[d] # "idle"}
    BY <1>2
  <2> QED
    BY <1>1, <2>1 DEF Asked
<1>4. CASE ~KeyIsFree(call[c].user, call[c].key)
  BY <1>3, <1>4 DEF RecordAnswer, Bound
<1>5. CASE KeyIsFree(call[c].user, call[c].key)
  <2> PICK a : a = [code |-> Code(c), by |-> c]
    OBVIOUS
  <2> PICK r : r = [user |-> call[c].user, key |-> call[c].key, payload |-> call[c].payload,
                    response |-> a]
    OBVIOUS
  <2>1. a \in Response /\ records' = records \union {r} /\ answer' = [answer EXCEPT ![c] = a]
    BY <1>5, AnswerTyped DEF RecordAnswer
  <2>2. /\ c \in DOMAIN Asked
        /\ Asked[c].name = NameOf(call[c]) /\ Asked[c].payload = call[c].payload
    BY <1>1, AskedOf
  <2>3. Asked[c].name \notin Unnamed
    BY <1>1, <2>2 DEF NameOf, Unnamed
  <2>4. ~Once!Taken(Asked[c].name)
    BY <1>5, <2>2 DEF Once!Taken, Bound, NameOf, KeyIsFree
  <2>5. Binding(r) = [name |-> Asked[c].name, payload |-> Asked[c].payload, answer |-> a]
    BY <2>2 DEF Binding, NameOf
  <2>6. Bound' = Bound \union {Binding(r)}
    BY <2>1 DEF Bound, Binding
  <2> QED
    BY <1>1, <1>3, <2>1, <2>2, <2>3, <2>4, <2>5, <2>6 DEF Once!Bind, Once!Reply
<1> QED
  BY <1>4, <1>5

\* Every step maps to a step of AnswerOnce or to a stutter.
LEMMA NextRefines == IInv /\ [Next]_vars => [Once!Next]_<<Asked, Bound, answer>>
<1> SUFFICES ASSUME IInv, [Next]_vars
             PROVE  Once!Next \/ UNCHANGED <<Asked, Bound, answer>>
  OBVIOUS
<1>1. ASSUME NEW c \in Calls, NEW u \in Users, NEW k \in Keys \union {NoKey},
             NEW p \in Payloads, Receive(c, u, k, p)
      PROVE  Once!Next
  <2>1. [user |-> u, key |-> k] \in Names
    BY DEF Names
  <2> QED
    BY <1>1, <2>1, ReceiveAsks DEF Once!Next
<1>2. ASSUME NEW c \in Calls, LookupKey(c)
      PROVE  Once!Next \/ UNCHANGED <<Asked, Bound, answer>>
  BY <1>2, LookupRefines DEF Once!Next
<1>3. ASSUME NEW c \in Calls, Persist(c)
      PROVE  Once!Next \/ UNCHANGED <<Asked, Bound, answer>>
  BY <1>3, PersistRefines DEF Once!Next
<1>4. ASSUME NEW c \in Calls, RecordAnswer(c)
      PROVE  Once!Next \/ UNCHANGED <<Asked, Bound, answer>>
  BY <1>4, RecordRefines DEF Once!Next
<1>5. ASSUME NEW c \in Calls, Load(c) \/ EngineFails(c) \/ PersistFails(c) \/ RecordFails(c)
      PROVE  UNCHANGED <<Asked, Bound, answer>>
  BY <1>5, HiddenStep DEF Load, EngineFails, PersistFails, RecordFails, Fail, IInv, TypeOK
<1>6. ASSUME NEW u \in Users, DataChanges(u)
      PROVE  UNCHANGED <<Asked, Bound, answer>>
  BY <1>6, HiddenStep DEF DataChanges
<1>7. CASE Restart
  BY <1>7, HiddenStep DEF Restart, InFlight, Working, IInv, TypeOK
<1>8. CASE UNCHANGED vars
  BY <1>8, HiddenStep DEF vars
<1> QED
  BY <1>1, <1>2, <1>3, <1>4, <1>5, <1>6, <1>7, <1>8 DEF Next, Step

\* However calls overlap and whenever the process dies, the handler implements
\* AnswerOnce: one binding per key, and every answer is the binding's.
THEOREM HandlerImplementsAnswerOnce == Spec => ImplementsAnswerOnce
BY InvHolds, InitRefines, NextRefines, PTL DEF Spec, ImplementsAnswerOnce, Once!Spec
=============================================================================
