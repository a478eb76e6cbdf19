---------------------------- MODULE ImportProofs ----------------------------
(* Theorems about ImportPipeline and its refinement of StatementBook, and about
   what is in the ledger once a statement is committed, what its batch says of
   it, and why calls fail; at the end, about what StatementParsing reads of the
   statements that banks print. *)
EXTENDS StatementImport, FiniteSums, SequenceTheorems, TLAPS

USE DEF UploadPhase, VerifyPhase, Finished

-----------------------------------------------------------------------------
(* The inductive invariant, whatever the overlap of calls *)

\* The sets of picked lines stay finite, so that the row counts are numbers.
PickedFinite == \A r \in Requests : IsFiniteSet(picked[r])

\* What a request has touched depends on how far it is.
Progress ==
  \A r \in Requests :
    /\ pc[r] \in {"idle", "classify", "cache", "lookup"} => picked[r] = {}
    /\ pc[r] \in {"idle", "classify"} => batch[r].status = "absent"
    /\ pc[r] = "idle" => normalized[r] = <<>> /\ line[r] = 1
    /\ pc[r] = "classify" => Len(normalized[r]) = line[r] - 1
    /\ batch[r].status # "absent" =>
         batch[r].user = task[r].user /\ batch[r].file = task[r].file

\* Normalized rows come from the file, in order, with the hash their status implies.
NormalizedRows ==
  \A r \in Requests : \A i \in 1..Len(normalized[r]) :
    /\ i \in 1..Len(Content[task[r].file])
    /\ normalized[r][i].status \in {"ambiguous", "rejected"} =>
         normalized[r][i].hash = NoHash
    /\ normalized[r][i].status = "verified" =>
         normalized[r][i].hash =
           TxHash(task[r].user, task[r].account, Content[task[r].file][i].key)

\* A verify call works on a visible batch of its own user.
VerifiesOwnBatch ==
  \A r \in Requests : pc[r] \in VerifyPhase => OwnedBy(task[r].user, task[r].batch)

\* Picked lines are lines of the staged preview that may be committed.
PickedLines ==
  \A r \in Requests : pc[r] = "recheck" => \A i \in picked[r] :
    /\ i \in 1..Len(normalized[task[r].batch])
    /\ CanCommit(normalized[task[r].batch][i], task[r].override)

\* A ledger row was posted by a call past its commit, from a committed batch.
PostedRows ==
  \A t \in ledger :
    /\ pc[t.by] \in {"pop"} \union Finished
    /\ task[t.by].user = t.user
    /\ batch[t.batch].status = "committed"
    /\ batch[t.batch].user = t.user
    /\ t.line \in 1..Len(normalized[t.batch])
    /\ normalized[t.batch][t.line].hash = t.hash
    /\ CanCommit(normalized[t.batch][t.line], task[t.by].override)

IInv ==
  /\ TypeOK
  /\ PickedFinite
  /\ Progress
  /\ NormalizedRows
  /\ VerifiesOwnBatch
  /\ PickedLines
  /\ PostedRows

-----------------------------------------------------------------------------
(* The additional invariant when a user has one verify call at a time *)

\* The serialisation itself.
OneVerifyPerUser ==
  \A r, q \in Requests :
    /\ pc[r] \in VerifyPhase /\ pc[q] \in VerifyPhase
    /\ task[r].user = task[q].user
    => r = q

\* The status a verify call has read is still the status of the batch.
LoadedIsCurrent ==
  \A r \in Requests :
    /\ pc[r] \in {"lookup", "recheck"} => task[r].loaded = batch[task[r].batch].status
    /\ pc[r] = "recheck" => task[r].loaded # "committed"

\* What a verify call has picked is not in its user's ledger.
PickedAreFresh ==
  \A r \in Requests : pc[r] = "recheck" =>
    \A i \in picked[r] : \A t \in ledger :
      t.user = task[r].user => t.hash # normalized[task[r].batch][i].hash

\* No two accepted rows of a preview have the same hash.
AcceptedRowsDiffer ==
  \A r \in Requests : \A i, j \in 1..Len(normalized[r]) :
    /\ normalized[r][i].status = "verified"
    /\ normalized[r][j].status = "verified"
    /\ normalized[r][i].hash = normalized[r][j].hash
    => i = j

\* The ledger has at most one row per user and real hash.
HashesUnique ==
  \A t1, t2 \in ledger :
    t1.user = t2.user /\ t1.hash = t2.hash /\ t1.hash # NoHash => t1 = t2

SerialInv ==
  /\ OneVerifyPerUser
  /\ LoadedIsCurrent
  /\ PickedAreFresh
  /\ AcceptedRowsDiffer
  /\ HashesUnique

-----------------------------------------------------------------------------
(* Type correctness *)

\* There is a user, a file and an account for the placeholders to name.
LEMMA DefaultsTyped ==
  /\ (CHOOSE u \in Users : TRUE) \in Users
  /\ (CHOOSE f \in Files : TRUE) \in Files
  /\ (CHOOSE a \in Accounts : TRUE) \in Accounts
BY NonEmptyAssumption

\* The invariant holds before the first request.
LEMMA InitInv == Init => IInv
<1> SUFFICES ASSUME Init PROVE IInv
  OBVIOUS
<1>1. NoBatch \in Batch /\ NoBatch.status = "absent"
  BY DefaultsTyped DEF NoBatch, Batch, BatchStatus
<1>2. \A r \in Requests : NoTask(r) \in Task
  BY DefaultsTyped DEF NoTask, Task, BatchStatus
<1>3. TypeOK
  BY <1>1, <1>2 DEF Init, TypeOK
<1>4. PickedFinite
  BY FS_EmptySet DEF Init, PickedFinite
<1>5. Progress /\ NormalizedRows
  BY <1>1 DEF Init, Progress, NormalizedRows
<1>6. VerifiesOwnBatch /\ PickedLines /\ PostedRows
  BY DEF Init, VerifiesOwnBatch, PickedLines, PostedRows
<1>7. QED
  BY <1>3, <1>4, <1>5, <1>6 DEF IInv

\* Every source row is classified into a well-formed normalized row.
LEMMA ClassifiedTyped ==
  ASSUME TypeOK, NEW r \in Requests, NEW row \in SourceRow
  PROVE  Classified(r, row) \in NormalizedRow
<1>1. TxHash(task[r].user, task[r].account, row.key) \in Hashes
  BY DEF TypeOK, Task, SourceRow, TxHash, Hashes
<1>2. row.kind \in {"clean", "ambiguous", "unreadable"}
  BY DEF SourceRow
<1>3. NoHash \in Hashes
  BY DEF Hashes
<1>4. QED
  BY <1>1, <1>2, <1>3 DEF Classified, NormalizedRow

\* The row being classified is a row of the file.
LEMMA SourceRowTyped ==
  ASSUME TypeOK, NEW r \in Requests, line[r] <= Len(Content[task[r].file])
  PROVE  Content[task[r].file][line[r]] \in SourceRow
<1>1. Content[task[r].file] \in Seq(SourceRow)
  BY ContentAssumption DEF TypeOK, Task
<1>2. line[r] \in Nat \ {0}
  BY DEF TypeOK
<1>3. QED
  BY <1>1, <1>2


\* The steps of IInv, one lemma per action.

\* Receiving an upload keeps the invariant.
LEMMA BeginUploadInv ==
  ASSUME IInv, NEW r \in Requests, NEW u \in Users, NEW f \in Files, NEW a \in Accounts,
         BeginUpload(r, u, f, a)
  PROVE  IInv'
<1> USE DEF IInv, BeginUpload
<1>1. TypeOK' /\ PickedFinite'
  <2>1. task' \in [Requests -> Task]
    BY DEF TypeOK, Task, BatchStatus
  <2>2. pc' \in [Requests -> {"idle"} \union UploadPhase \union VerifyPhase \union Finished]
    BY DEF TypeOK
  <2>3. QED
    BY <2>1, <2>2 DEF TypeOK, PickedFinite
<1>2. Progress'
  BY DEF Progress, TypeOK
<1>3. NormalizedRows'
  BY DEF NormalizedRows, Progress, TypeOK
<1>4. VerifiesOwnBatch'
  BY DEF VerifiesOwnBatch, OwnedBy, TypeOK
<1>5. PickedLines'
  BY DEF PickedLines, TypeOK
<1>6. PostedRows'
  BY DEF PostedRows, TypeOK, LedgerRow
<1>7. QED
  BY <1>1, <1>2, <1>3, <1>4, <1>5, <1>6

\* Receiving a verify call keeps the invariant.
LEMMA BeginVerifyInv ==
  ASSUME IInv, NEW r \in Requests, NEW u \in Users, NEW b \in Requests, NEW o \in BOOLEAN,
         BeginVerify(r, u, b, o)
  PROVE  IInv'
<1> USE DEF IInv, BeginVerify
<1>1. TypeOK' /\ PickedFinite'
  <2>1. batch[b].status \in BatchStatus /\ task[r].file \in Files /\ task[r].account \in Accounts
    BY DEF TypeOK, Batch, Task
  <2>2. task' \in [Requests -> Task]
    BY <2>1 DEF TypeOK, Task
  <2>3. pc' \in [Requests -> {"idle"} \union UploadPhase \union VerifyPhase \union Finished]
    BY DEF TypeOK
  <2>4. QED
    BY <2>2, <2>3 DEF TypeOK, PickedFinite
<1>2. Progress'
  BY DEF Progress, TypeOK
<1>3. NormalizedRows'
  BY DEF NormalizedRows, Progress, TypeOK
<1>4. VerifiesOwnBatch'
  BY DEF VerifiesOwnBatch, OwnedBy, TypeOK
<1>5. PickedLines'
  BY DEF PickedLines, TypeOK
<1>6. PostedRows'
  BY DEF PostedRows, TypeOK, LedgerRow
<1>7. QED
  BY <1>1, <1>2, <1>3, <1>4, <1>5, <1>6

\* The rows of an upload grow at the end; those of every other request stay.
LEMMA ClassifyRowEffect ==
  ASSUME IInv, NEW r \in Requests, ClassifyRow(r)
  PROVE  /\ normalized' \in [Requests -> Seq(NormalizedRow)]
         /\ line' \in [Requests -> Nat \ {0}]
         /\ \A q \in Requests : /\ Len(normalized[q]) <= Len(normalized'[q])
                                /\ \A i \in 1..Len(normalized[q]) :
                                     normalized'[q][i] = normalized[q][i]
                                /\ q # r => normalized'[q] = normalized[q]
         /\ \/ normalized' = normalized /\ line' = line /\ pc' = [pc EXCEPT ![r] = "failed"]
            \/ /\ pc' = pc
               /\ line' = [line EXCEPT ![r] = @ + 1]
               /\ Len(normalized'[r]) = Len(normalized[r]) + 1
               /\ normalized'[r][Len(normalized[r]) + 1] =
                    Classified(r, Content[task[r].file][line[r]])
<1> DEFINE row == Content[task[r].file][line[r]]
<1>1. Classified(r, row) \in NormalizedRow
  BY SourceRowTyped, ClassifiedTyped DEF IInv, ClassifyRow
<1>2. CASE normalized' = normalized /\ line' = line /\ pc' = [pc EXCEPT ![r] = "failed"]
  BY <1>2 DEF IInv, TypeOK
<1>3. CASE /\ normalized' = [normalized EXCEPT ![r] = Append(@, Classified(r, row))]
           /\ line' = [line EXCEPT ![r] = @ + 1]
           /\ pc' = pc
  <2>1. normalized[r] \in Seq(NormalizedRow) /\ line[r] \in Nat \ {0}
    BY DEF IInv, TypeOK
  <2>2. /\ Append(normalized[r], Classified(r, row)) \in Seq(NormalizedRow)
        /\ Len(Append(normalized[r], Classified(r, row))) = Len(normalized[r]) + 1
        /\ \A i \in 1..Len(normalized[r]) :
             Append(normalized[r], Classified(r, row))[i] = normalized[r][i]
        /\ Append(normalized[r], Classified(r, row))[Len(normalized[r]) + 1] = Classified(r, row)
    BY <1>1, <2>1
  <2>3. /\ normalized'[r] = Append(normalized[r], Classified(r, row))
        /\ \A q \in Requests : q # r => normalized'[q] = normalized[q]
    BY <1>3 DEF IInv, TypeOK
  <2>4. Len(normalized[r]) \in Nat
    BY <2>1
  <2>5. /\ normalized' \in [Requests -> Seq(NormalizedRow)]
        /\ line' \in [Requests -> Nat \ {0}]
    BY <1>3, <2>1, <2>2 DEF IInv, TypeOK
  <2>6. \A q \in Requests : Len(normalized[q]) \in Nat
    BY DEF IInv, TypeOK
  <2>7. QED
    BY <1>3, <2>2, <2>3, <2>5, <2>6
<1>4. QED
  BY <1>2, <1>3 DEF ClassifyRow

\* Classifying one row keeps the invariant.
LEMMA ClassifyRowInv ==
  ASSUME IInv, NEW r \in Requests, ClassifyRow(r)
  PROVE  IInv'
<1>0. \A q \in Requests : /\ Len(normalized[q]) <= Len(normalized'[q])
                          /\ \A i \in 1..Len(normalized[q]) :
                               normalized'[q][i] = normalized[q][i]
                          /\ q # r => normalized'[q] = normalized[q]
  BY ClassifyRowEffect
<1>1. TypeOK' /\ PickedFinite'
  <2>1. pc' \in [Requests -> {"idle"} \union UploadPhase \union VerifyPhase \union Finished]
    BY DEF IInv, ClassifyRow, TypeOK
  <2>2. QED
    BY <2>1, ClassifyRowEffect DEF IInv, ClassifyRow, TypeOK, PickedFinite
<1>2. Progress'
  <2>1. \A q \in Requests : Len(normalized[q]) \in Nat /\ line[q] \in Nat
    BY DEF IInv, ClassifyRow, TypeOK
  <2>2. QED
    BY <2>1, ClassifyRowEffect DEF IInv, ClassifyRow, Progress, TypeOK
<1>3. NormalizedRows'
  <2> DEFINE row == Content[task[r].file][line[r]]
             n == Len(normalized[r]) + 1
  <2>1. CASE normalized' = normalized
    BY <2>1 DEF IInv, ClassifyRow, NormalizedRows
  <2>2. CASE /\ line' = [line EXCEPT ![r] = @ + 1]
             /\ Len(normalized'[r]) = n
             /\ normalized'[r][n] = Classified(r, row)
    <3>1. n = line[r] /\ n \in 1..Len(Content[task[r].file])
      <4>1. Len(Content[task[r].file]) \in Nat /\ line[r] \in Nat \ {0}
        BY ContentAssumption DEF IInv, ClassifyRow, TypeOK, Task
      <4>2. QED
        BY <4>1 DEF IInv, ClassifyRow, Progress
    <3>2. row \in SourceRow
      BY SourceRowTyped DEF IInv, ClassifyRow
    <3>3. /\ Classified(r, row).status \in {"ambiguous", "rejected"} =>
               Classified(r, row).hash = NoHash
          /\ Classified(r, row).status = "verified" =>
               Classified(r, row).hash = TxHash(task[r].user, task[r].account, row.key)
      BY <3>2 DEF IInv, ClassifyRow, Classified, SourceRow
    <3>4. \A q \in Requests : Len(normalized[q]) \in Nat /\ Len(normalized'[q]) \in Nat
      BY ClassifyRowEffect DEF IInv, ClassifyRow, TypeOK
    <3>5. \A q \in Requests : \A i \in 1..Len(normalized'[q]) :
             \/ i \in 1..Len(normalized[q]) /\ normalized'[q][i] = normalized[q][i]
             \/ q = r /\ i = n
      BY <1>0, <2>2, <3>4
    <3>6. task' = task
      BY DEF ClassifyRow
    <3>7. SUFFICES ASSUME NEW q \in Requests, NEW i \in 1..Len(normalized'[q])
                   PROVE  /\ i \in 1..Len(Content[task[q].file])
                          /\ normalized'[q][i].status \in {"ambiguous", "rejected"} =>
                               normalized'[q][i].hash = NoHash
                          /\ normalized'[q][i].status = "verified" =>
                               normalized'[q][i].hash =
                                 TxHash(task[q].user, task[q].account, Content[task[q].file][i].key)
      BY <3>6 DEF IInv, ClassifyRow, NormalizedRows, TxHash
    <3>8. CASE i \in 1..Len(normalized[q]) /\ normalized'[q][i] = normalized[q][i]
      BY <3>8 DEF IInv, ClassifyRow, NormalizedRows
    <3>9. CASE q = r /\ i = n
      BY <2>2, <3>1, <3>3, <3>9 DEF IInv, ClassifyRow
    <3>10. QED
      BY <3>5, <3>8, <3>9 DEF IInv, ClassifyRow
  <2>3. QED
    BY <2>1, <2>2, ClassifyRowEffect DEF IInv, ClassifyRow
<1>4. VerifiesOwnBatch'
  BY DEF IInv, ClassifyRow, VerifiesOwnBatch, OwnedBy, TypeOK
<1>5. PickedLines'
  <2>1. \A q \in Requests : pc'[q] = "recheck" => pc[q] = "recheck"
    BY DEF IInv, ClassifyRow, TypeOK
  <2>2. \A q \in Requests : task[q].batch \in Requests
    BY DEF IInv, ClassifyRow, TypeOK, Task
  <2>3. \A q \in Requests : Len(normalized[q]) \in Nat /\ Len(normalized'[q]) \in Nat
    BY ClassifyRowEffect DEF IInv, ClassifyRow, TypeOK
  <2>4. QED
    <3>2. SUFFICES ASSUME NEW q \in Requests, pc'[q] = "recheck", NEW i \in picked[q]
                   PROVE  /\ i \in 1..Len(normalized'[task[q].batch])
                          /\ CanCommit(normalized'[task[q].batch][i], task[q].override)
      BY DEF IInv, ClassifyRow, PickedLines, CanCommit
    <3>3. /\ i \in 1..Len(normalized[task[q].batch])
          /\ CanCommit(normalized[task[q].batch][i], task[q].override)
      BY <2>1, <3>2 DEF IInv, ClassifyRow, PickedLines
    <3>4. QED
      BY <2>2, <2>3, <1>0, <3>3
<1>6. PostedRows'
  <2>1. \A q \in Requests : Len(normalized[q]) \in Nat /\ Len(normalized'[q]) \in Nat
    BY ClassifyRowEffect DEF IInv, ClassifyRow, TypeOK
  <2>2. \A t \in ledger : t.batch \in Requests /\ t.by \in Requests
    BY DEF IInv, ClassifyRow, TypeOK, LedgerRow
  <2>3. \A q \in Requests : pc'[q] = pc[q] \/ pc'[q] \in Finished
    BY DEF IInv, ClassifyRow, TypeOK
  <2>4. QED
    <3>2. SUFFICES ASSUME NEW t \in ledger PROVE PostedRows!(t)'
      BY DEF IInv, ClassifyRow, PostedRows
    <3>3. t.line \in 1..Len(normalized[t.batch])
      BY DEF IInv, ClassifyRow, PostedRows
    <3>4. t.line \in 1..Len(normalized'[t.batch])
      BY <2>1, <2>2, <1>0, <3>3
    <3>5. normalized'[t.batch][t.line] = normalized[t.batch][t.line]
      BY <2>2, <1>0, <3>3
    <3>6. QED
      BY <2>2, <2>3, <3>4, <3>5 DEF IInv, ClassifyRow, PostedRows, CanCommit
<1>7. QED
  BY <1>1, <1>2, <1>3, <1>4, <1>5, <1>6 DEF IInv, ClassifyRow

\* The commit of an upload keeps the invariant.
LEMMA CommitUploadInv ==
  ASSUME IInv, NEW r \in Requests, CommitUpload(r)
  PROVE  IInv'
<1> USE DEF IInv, CommitUpload
<1>1. TypeOK' /\ PickedFinite'
  BY DEF TypeOK, PickedFinite, Task, Batch, BatchStatus, StagedState
<1>2. Progress'
  BY DEF Progress, TypeOK
<1>3. NormalizedRows'
  BY DEF NormalizedRows
<1>4. VerifiesOwnBatch'
  BY DEF VerifiesOwnBatch, Progress, OwnedBy, TypeOK, Task
<1>5. PickedLines'
  BY DEF PickedLines, TypeOK
<1>6. PostedRows'
  BY DEF PostedRows, Progress, TypeOK, LedgerRow
<1>7. QED
  BY <1>1, <1>2, <1>3, <1>4, <1>5, <1>6

\* Staging the preview keeps the invariant.
LEMMA CachePreviewInv ==
  ASSUME IInv, NEW r \in Requests, CachePreview(r)
  PROVE  IInv'
<1> USE DEF IInv, CachePreview
<1>1. TypeOK' /\ PickedFinite'
  BY DEF TypeOK, PickedFinite
<1>2. Progress' /\ NormalizedRows'
  BY DEF Progress, NormalizedRows, TypeOK
<1>3. VerifiesOwnBatch' /\ PickedLines'
  BY DEF VerifiesOwnBatch, OwnedBy, PickedLines, TypeOK
<1>4. PostedRows'
  BY DEF PostedRows, TypeOK, LedgerRow
<1>5. QED
  BY <1>1, <1>2, <1>3, <1>4

\* The look-up of a staged preview keeps the invariant.
LEMMA LookupStagedInv ==
  ASSUME IInv, NEW r \in Requests, LookupStaged(r)
  PROVE  IInv'
<1> USE DEF IInv, LookupStaged
<1>1. TypeOK' /\ PickedFinite'
  BY DEF TypeOK, PickedFinite
<1>2. Progress' /\ NormalizedRows'
  BY DEF Progress, NormalizedRows, TypeOK
<1>3. VerifiesOwnBatch' /\ PickedLines'
  BY DEF VerifiesOwnBatch, OwnedBy, PickedLines, Progress, TypeOK
<1>4. PostedRows'
  BY DEF PostedRows, TypeOK, LedgerRow
<1>5. QED
  BY <1>1, <1>2, <1>3, <1>4

\* Re-checking one row against the ledger keeps the invariant.
LEMMA RecheckRowInv ==
  ASSUME IInv, NEW r \in Requests, RecheckRow(r)
  PROVE  IInv'
<1> USE DEF IInv, RecheckRow
<1>1. \/ picked' = picked /\ line' = line
      \/ /\ \/ picked' = picked
            \/ /\ picked' = [picked EXCEPT ![r] = @ \union {line[r]}]
               /\ CanCommit(normalized[task[r].batch][line[r]], task[r].override)
         /\ line' = [line EXCEPT ![r] = @ + 1]
  <2>1. picked = [picked EXCEPT ![r] = @]
    BY DEF TypeOK
  <2>2. QED
    BY <2>1
<1>2. line[r] \in Nat \ {0} /\ line[r] + 1 \in Nat \ {0}
  BY DEF TypeOK
<1>3. pc' \in [Requests -> {"idle"} \union UploadPhase \union VerifyPhase \union Finished]
  BY DEF TypeOK
<1>4. picked' \in [Requests -> SUBSET (Nat \ {0})]
  <2>1. picked[r] \union {line[r]} \in SUBSET (Nat \ {0})
    BY <1>2 DEF TypeOK
  <2>2. CASE picked' = picked
    BY <2>2 DEF TypeOK
  <2>3. CASE picked' = [picked EXCEPT ![r] = @ \union {line[r]}]
    BY <2>1, <2>3 DEF TypeOK
  <2>4. QED
    BY <1>1, <2>2, <2>3
<1>5. line' \in [Requests -> Nat \ {0}]
  BY <1>1, <1>2 DEF TypeOK
<1>6. TypeOK'
  BY <1>3, <1>4, <1>5 DEF TypeOK
<1>7. PickedFinite'
  <2>1. IsFiniteSet(picked[r] \union {line[r]})
    BY FS_AddElement DEF PickedFinite
  <2>2. QED
    BY <1>1, <2>1 DEF TypeOK, PickedFinite
<1>8. Progress'
  <2>1. pc'[r] \in {"recheck", "failed"} /\ pc[r] = "recheck"
    BY DEF TypeOK
  <2>2. \A q \in Requests : q # r =>
           pc'[q] = pc[q] /\ picked'[q] = picked[q] /\ line'[q] = line[q]
    BY <1>1 DEF TypeOK
  <2>3. QED
    BY <2>1, <2>2 DEF Progress
<1>9. NormalizedRows' /\ VerifiesOwnBatch'
  BY DEF NormalizedRows, VerifiesOwnBatch, OwnedBy, TypeOK
<1>10. PickedLines'
  <2>1. line[r] \in 1..Len(normalized[task[r].batch])
    <3>1. Len(normalized[task[r].batch]) \in Nat
      BY DEF TypeOK, Task
    <3>2. QED
      BY <1>2, <3>1
  <2>2. \A q \in Requests : pc'[q] = "recheck" => pc[q] = "recheck"
    BY DEF TypeOK
  <2>3. \A q \in Requests : \A i \in picked'[q] : i \in picked[q] \/
           /\ q = r /\ i = line[r]
           /\ CanCommit(normalized[task[r].batch][line[r]], task[r].override)
    BY <1>1 DEF TypeOK
  <2>4. QED
    BY <2>1, <2>2, <2>3 DEF PickedLines
<1>11. PostedRows'
  BY DEF PostedRows, TypeOK, LedgerRow
<1>12. QED
  BY <1>6, <1>7, <1>8, <1>9, <1>10, <1>11

\* The rows a commit adds are well typed and satisfy what PostedRows asks.
LEMMA PostingsSound ==
  ASSUME IInv, NEW r \in Requests, pc[r] = "recheck", NEW t \in Postings(r)
  PROVE  /\ t \in LedgerRow
         /\ t.by = r /\ t.batch = task[r].batch /\ t.user = task[r].user
         /\ t.line \in picked[r]
         /\ t.line \in 1..Len(normalized[t.batch])
         /\ normalized[t.batch][t.line].hash = t.hash
         /\ CanCommit(normalized[t.batch][t.line], task[r].override)
<1> DEFINE b == task[r].batch
<1>1. PICK i \in picked[r] :
        t = [user |-> task[r].user, batch |-> b, line |-> i,
             hash |-> normalized[b][i].hash, by |-> r]
  BY DEF Postings
<1>2. b \in Requests /\ task[r].user \in Users
  BY DEF IInv, TypeOK, Task
<1>3. /\ i \in 1..Len(normalized[b])
      /\ CanCommit(normalized[b][i], task[r].override)
  BY <1>1 DEF IInv, PickedLines
<1>4. normalized[b][i] \in NormalizedRow
  BY <1>2, <1>3 DEF IInv, TypeOK
<1>5. QED
  BY <1>1, <1>2, <1>3, <1>4 DEF LedgerRow, NormalizedRow, IInv, TypeOK

\* The commit of a batch keeps the invariant.
LEMMA CommitBatchInv ==
  ASSUME IInv, NEW r \in Requests, CommitBatch(r)
  PROVE  IInv'
<1> DEFINE b == task[r].batch
<1> USE DEF IInv, CommitBatch
<1>0. b \in Requests /\ task[r].user \in Users /\ CommittedRows(r) \in Nat
  BY FS_CardinalityType DEF CommittedRows, PickedFinite, TypeOK, Task
<1>1. TypeOK' /\ PickedFinite'
  <2>1. batch' \in [Requests -> Batch]
    <3>1. batch[b] \in Batch
      BY <1>0 DEF TypeOK
    <3>2. QED
      BY <1>0, <3>1 DEF Closed, TypeOK, Batch, BatchStatus
  <2>2. ledger' \subseteq LedgerRow
    BY PostingsSound DEF TypeOK
  <2>3. audit' \subseteq AuditEvent
    BY <1>0 DEF TypeOK, AuditEvent
  <2>4. QED
    BY <2>1, <2>2, <2>3 DEF TypeOK, PickedFinite
<1>2. \A q \in Requests : /\ batch'[q].user = batch[q].user
                          /\ batch'[q].file = batch[q].file
                          /\ batch'[q].status = IF q = b THEN "committed" ELSE batch[q].status
  BY <1>0 DEF Closed, TypeOK, Batch
<1>3. batch[b].status # "absent" /\ batch[b].user = task[r].user
  BY DEF VerifiesOwnBatch, OwnedBy
<1>4. Progress'
  <2>1. \A q \in Requests : pc'[q] = pc[q] \/ pc'[q] = "pop"
    BY DEF TypeOK
  <2>2. pc[b] \notin {"idle", "classify"}
    BY <1>0, <1>3 DEF Progress
  <2>3. QED
    BY <1>2, <1>3, <2>1, <2>2 DEF Progress
<1>5. NormalizedRows'
  BY DEF NormalizedRows
<1>6. VerifiesOwnBatch'
  <2>1. \A q \in Requests : pc'[q] \in VerifyPhase => pc[q] \in VerifyPhase
    BY DEF TypeOK
  <2>2. \A q \in Requests : task[q].batch \in Requests
    BY DEF TypeOK, Task
  <2>3. QED
    BY <1>2, <2>1, <2>2 DEF VerifiesOwnBatch, OwnedBy
<1>7. PickedLines'
  BY DEF PickedLines, TypeOK
<1>8. PostedRows'
  <2> SUFFICES ASSUME NEW t \in ledger' PROVE PostedRows!(t)'
    BY DEF PostedRows
  <2>1. CASE t \in ledger
    BY <1>2, <2>1 DEF PostedRows, TypeOK, LedgerRow
  <2>2. CASE t \in Postings(r)
    BY <1>0, <1>2, <1>3, <2>2, PostingsSound DEF TypeOK
  <2>3. QED
    BY <2>1, <2>2
<1>9. QED
  BY <1>1, <1>4, <1>5, <1>6, <1>7, <1>8

\* Removing a committed batch from the staging cache keeps the invariant.
LEMMA PopStagedInv ==
  ASSUME IInv, NEW r \in Requests, PopStaged(r)
  PROVE  IInv'
<1> USE DEF IInv, PopStaged
<1>1. TypeOK' /\ PickedFinite'
  BY DEF TypeOK, PickedFinite
<1>2. Progress' /\ NormalizedRows'
  BY DEF Progress, NormalizedRows, TypeOK
<1>3. VerifiesOwnBatch' /\ PickedLines'
  BY DEF VerifiesOwnBatch, OwnedBy, PickedLines, TypeOK
<1>4. PostedRows'
  BY DEF PostedRows, TypeOK, LedgerRow
<1>5. QED
  BY <1>1, <1>2, <1>3, <1>4

\* A restart, which loses calls and the cache, keeps the invariant.
LEMMA RestartInv == IInv /\ Restart => IInv'
<1> SUFFICES ASSUME IInv, Restart PROVE IInv'
  OBVIOUS
<1> USE DEF IInv, Restart, InFlight
<1>1. TypeOK' /\ PickedFinite'
  BY DEF TypeOK, PickedFinite
<1>2. Progress' /\ NormalizedRows'
  BY DEF Progress, NormalizedRows, TypeOK
<1>3. VerifiesOwnBatch' /\ PickedLines'
  BY DEF VerifiesOwnBatch, OwnedBy, PickedLines, TypeOK
<1>4. PostedRows'
  BY DEF PostedRows, TypeOK, LedgerRow
<1>5. QED
  BY <1>1, <1>2, <1>3, <1>4

\* The invariant is inductive.
LEMMA NextInv == IInv /\ [Next]_vars => IInv'
<1> SUFFICES ASSUME IInv, [Next]_vars PROVE IInv'
  OBVIOUS
<1>1. CASE Next
  BY <1>1, BeginUploadInv, BeginVerifyInv, ClassifyRowInv, CommitUploadInv, CachePreviewInv,
     LookupStagedInv, RecheckRowInv, CommitBatchInv, PopStagedInv, RestartInv
  DEF Next, Continue
<1>2. CASE UNCHANGED vars
  BY <1>2 DEF vars, IInv, TypeOK, PickedFinite, Progress, NormalizedRows, VerifiesOwnBatch,
              OwnedBy, PickedLines, PostedRows
<1>3. QED
  BY <1>1, <1>2

\* The inductive invariant holds throughout.
LEMMA InvHolds == Spec => []IInv
BY InitInv, NextInv, PTL DEF Spec

-----------------------------------------------------------------------------
(* Theorems about every interleaving of calls and restarts *)

\* Every variable keeps its type.
THEOREM TypeCorrect == Spec => []TypeOK
<1>1. IInv => TypeOK
  BY DEF IInv
<1>2. QED
  BY <1>1, InvHolds, PTL

\* No call ever posts into another tenant's ledger: the tenant checks of
\* imports.py and service.py suffice under every interleaving.
THEOREM TenantsIsolated == Spec => []TenantIsolation
<1>1. IInv => TenantIsolation
  BY DEF IInv, PostedRows, TenantIsolation
<1>2. QED
  BY <1>1, InvHolds, PTL

\* A reader never finds rows of a batch that is not committed.
THEOREM RowsFollowBatches == Spec => []RowsOnlyOfCommittedBatches
<1>1. IInv => RowsOnlyOfCommittedBatches
  BY DEF IInv, PostedRows, RowsOnlyOfCommittedBatches
<1>2. QED
  BY <1>1, InvHolds, PTL

\* Only reviewed rows reach the ledger, overridden ones by the call that asked.
THEOREM RowsAreReviewed == Spec => []OnlyReviewedRows
<1>1. IInv => OnlyReviewedRows
  BY DEF IInv, PostedRows, OnlyReviewedRows, CanCommit
<1>2. QED
  BY <1>1, InvHolds, PTL

-----------------------------------------------------------------------------
(* One verify call at a time per user: steps of SerialInv *)

\* The serial strengthening holds before the first request.
LEMMA InitSerial == Init => SerialInv
BY DEF Init, SerialInv, OneVerifyPerUser, LoadedIsCurrent, PickedAreFresh, AcceptedRowsDiffer,
       HashesUnique

\* A step that leaves the ledger and the batches alone, and in which no request
\* starts to verify, keeps everything but the previews.
LEMMA QuietStep ==
  ASSUME IInv, SerialInv, UNCHANGED <<normalized, ledger, batch>>,
         \A q \in Requests :
           /\ pc'[q] \in VerifyPhase => pc[q] \in VerifyPhase /\ task'[q] = task[q]
           /\ pc'[q] \in {"lookup", "recheck"} => pc[q] \in {"lookup", "recheck"}
           /\ pc'[q] = "recheck" => picked'[q] = picked[q] /\ task[q].loaded # "committed"
           /\ pc'[q] = "recheck" => pc[q] = "recheck" \/ picked[q] = {}
  PROVE  SerialInv'
<1>1. OneVerifyPerUser'
  BY DEF SerialInv, OneVerifyPerUser
<1>2. LoadedIsCurrent'
  BY DEF SerialInv, LoadedIsCurrent
<1>3. PickedAreFresh'
  BY DEF SerialInv, PickedAreFresh
<1>4. AcceptedRowsDiffer' /\ HashesUnique'
  BY DEF SerialInv, AcceptedRowsDiffer, HashesUnique
<1>5. QED
  BY <1>1, <1>2, <1>3, <1>4 DEF SerialInv

\* Receiving an upload keeps the strengthening.
LEMMA BeginUploadSerial ==
  ASSUME IInv, SerialInv, NEW r \in Requests, NEW u \in Users, NEW f \in Files,
         NEW a \in Accounts, BeginUpload(r, u, f, a)
  PROVE  SerialInv'
BY QuietStep DEF BeginUpload, IInv, TypeOK, SerialInv, LoadedIsCurrent

\* A verify call of a user who has no other under way keeps it.
LEMMA BeginVerifySerial ==
  ASSUME IInv, SerialInv, OverlappingVerifies = FALSE,
         NEW r \in Requests, NEW u \in Users, NEW b \in Requests, NEW o \in BOOLEAN,
         BeginVerify(r, u, b, o)
  PROVE  SerialInv'
<1>1. /\ \A q \in Requests : q # r => pc'[q] = pc[q] /\ task'[q] = task[q]
      /\ pc'[r] \in {"lookup", "refused"}
      /\ task'[r].user = u /\ task'[r].batch = b /\ task'[r].loaded = batch[b].status
      /\ \A q \in Requests : pc[q] \in VerifyPhase => task[q].user # u
  BY DEF BeginVerify, IInv, TypeOK
<1>2. UNCHANGED <<normalized, ledger, batch, picked>>
  BY DEF BeginVerify
<1>3. OneVerifyPerUser'
  BY <1>1 DEF SerialInv, OneVerifyPerUser
<1>4. LoadedIsCurrent'
  BY <1>1, <1>2 DEF SerialInv, LoadedIsCurrent
<1>5. PickedAreFresh'
  BY <1>1, <1>2 DEF SerialInv, PickedAreFresh
<1>6. AcceptedRowsDiffer' /\ HashesUnique'
  BY <1>2 DEF SerialInv, AcceptedRowsDiffer, HashesUnique
<1>7. QED
  BY <1>3, <1>4, <1>5, <1>6 DEF SerialInv

\* Classifying one row keeps the strengthening.
LEMMA ClassifyRowSerial ==
  ASSUME IInv, SerialInv, NEW r \in Requests, ClassifyRow(r)
  PROVE  SerialInv'
<1> DEFINE row == Content[task[r].file][line[r]]
           n   == Len(normalized[r]) + 1
<1>1. /\ \A q \in Requests : /\ Len(normalized[q]) <= Len(normalized'[q])
                             /\ \A i \in 1..Len(normalized[q]) :
                                  normalized'[q][i] = normalized[q][i]
                             /\ q # r => normalized'[q] = normalized[q]
      /\ \/ normalized' = normalized
         \/ Len(normalized'[r]) = n /\ normalized'[r][n] = Classified(r, row)
  BY ClassifyRowEffect
<1>2. UNCHANGED <<ledger, batch, picked, task>>
  BY DEF ClassifyRow
<1>3. \A q \in Requests : pc'[q] = pc[q] \/ pc'[q] = "failed"
  BY DEF ClassifyRow, IInv, TypeOK
<1>4. OneVerifyPerUser' /\ LoadedIsCurrent' /\ HashesUnique'
  BY <1>2, <1>3 DEF SerialInv, OneVerifyPerUser, LoadedIsCurrent, HashesUnique
<1>5. PickedAreFresh'
  <2> SUFFICES ASSUME NEW q \in Requests, pc'[q] = "recheck", NEW i \in picked[q],
                      NEW t \in ledger, t.user = task[q].user
               PROVE  t.hash # normalized'[task[q].batch][i].hash
    BY <1>2 DEF PickedAreFresh
  <2>1. pc[q] = "recheck"
    BY <1>3
  <2>2. task[q].batch \in Requests /\ i \in 1..Len(normalized[task[q].batch])
    BY <2>1 DEF IInv, TypeOK, Task, PickedLines
  <2>3. normalized'[task[q].batch][i] = normalized[task[q].batch][i]
    BY <1>1, <2>2
  <2>4. QED
    BY <2>1, <2>3 DEF SerialInv, PickedAreFresh
<1>6. AcceptedRowsDiffer'
  <2>1. CASE normalized' = normalized
    BY <2>1 DEF SerialInv, AcceptedRowsDiffer
  <2>2. CASE Len(normalized'[r]) = n /\ normalized'[r][n] = Classified(r, row)
    <3>1. \A q \in Requests : Len(normalized[q]) \in Nat /\ Len(normalized'[q]) \in Nat
      BY ClassifyRowEffect DEF IInv, TypeOK
    <3>2. row \in SourceRow
      BY SourceRowTyped DEF ClassifyRow, IInv
    <3>3. ASSUME NEW i \in 1..Len(normalized[r]),
                 normalized[r][i].status = "verified",
                 Classified(r, row).status = "verified",
                 normalized[r][i].hash = Classified(r, row).hash
          PROVE  FALSE
      <4> DEFINE h == TxHash(task[r].user, task[r].account, row.key)
      <4>1. Classified(r, row).hash = h /\ ~SeenInBatch(r, h)
        BY <3>2, <3>3 DEF Classified, SourceRow
      <4>2. normalized[r][i] \in NormalizedRow
        BY DEF IInv, TypeOK
      <4>3. normalized[r][i] = [hash |-> h, status |-> "verified"]
        BY <3>3, <4>1, <4>2 DEF NormalizedRow
      <4>4. QED
        BY <4>1, <4>3 DEF SeenInBatch
    <3>4. SUFFICES ASSUME NEW q \in Requests,
                          NEW i \in 1..Len(normalized'[q]), NEW j \in 1..Len(normalized'[q]),
                          normalized'[q][i].status = "verified",
                          normalized'[q][j].status = "verified",
                          normalized'[q][i].hash = normalized'[q][j].hash
                   PROVE  i = j
      BY DEF AcceptedRowsDiffer
    <3>5. CASE i \in 1..Len(normalized[q]) /\ j \in 1..Len(normalized[q])
      BY <1>1, <3>4, <3>5 DEF SerialInv, AcceptedRowsDiffer
    <3>6. CASE q = r /\ i \in 1..Len(normalized[r]) /\ j = n
      BY <1>1, <2>2, <3>3, <3>4, <3>6
    <3>7. CASE q = r /\ j \in 1..Len(normalized[r]) /\ i = n
      BY <1>1, <2>2, <3>3, <3>4, <3>7
    <3>8. CASE q = r /\ i = n /\ j = n
      BY <3>8
    <3>9. QED
      BY <1>1, <2>2, <3>1, <3>5, <3>6, <3>7, <3>8
  <2>3. QED
    BY <1>1, <2>1, <2>2
<1>7. QED
  BY <1>4, <1>5, <1>6 DEF SerialInv

\* The commit of an upload keeps it: no row of the new batch is in the ledger.
LEMMA CommitUploadSerial ==
  ASSUME IInv, SerialInv, NEW r \in Requests, CommitUpload(r)
  PROVE  SerialInv'
<1>1. UNCHANGED <<normalized, ledger, picked, task>>
  BY DEF CommitUpload
<1>2. \A q \in Requests : pc'[q] = pc[q] \/ pc'[q] = "cache"
  BY DEF CommitUpload, IInv, TypeOK
<1>3. \A q \in Requests : pc[q] \in VerifyPhase =>
         task[q].batch # r /\ batch'[task[q].batch] = batch[task[q].batch]
  <2>1. batch[r].status = "absent"
    BY DEF CommitUpload, IInv, Progress
  <2>2. \A q \in Requests : pc[q] \in VerifyPhase => task[q].batch # r
    BY <2>1 DEF IInv, VerifiesOwnBatch, OwnedBy
  <2>3. \A b \in Requests : b # r => batch'[b] = batch[b]
    BY DEF CommitUpload, IInv, TypeOK
  <2>4. \A q \in Requests : task[q].batch \in Requests
    BY DEF IInv, TypeOK, Task
  <2>5. QED
    BY <2>2, <2>3, <2>4
<1>4. OneVerifyPerUser' /\ AcceptedRowsDiffer' /\ HashesUnique'
  BY <1>1, <1>2 DEF SerialInv, OneVerifyPerUser, AcceptedRowsDiffer, HashesUnique
<1>5. LoadedIsCurrent'
  BY <1>1, <1>2, <1>3 DEF SerialInv, LoadedIsCurrent
<1>6. PickedAreFresh'
  BY <1>1, <1>2 DEF SerialInv, PickedAreFresh
<1>7. QED
  BY <1>4, <1>5, <1>6 DEF SerialInv

\* Staging the preview keeps it.
LEMMA CachePreviewSerial ==
  ASSUME IInv, SerialInv, NEW r \in Requests, CachePreview(r)
  PROVE  SerialInv'
BY QuietStep DEF CachePreview, IInv, TypeOK, SerialInv, LoadedIsCurrent

\* The look-up of a staged preview keeps it.
LEMMA LookupStagedSerial ==
  ASSUME IInv, SerialInv, NEW r \in Requests, LookupStaged(r)
  PROVE  SerialInv'
<1>1. UNCHANGED <<normalized, ledger, batch, task, picked>> /\ picked[r] = {}
  BY DEF LookupStaged, IInv, Progress
<1>2. pc[r] = "lookup" /\ \A q \in Requests : q # r => pc'[q] = pc[q]
  BY DEF LookupStaged, IInv, TypeOK
<1>3. pc'[r] = "recheck" => task[r].loaded # "committed"
  BY DEF LookupStaged, IInv, TypeOK
<1>4. pc'[r] \in {"refused", "failed", "recheck"}
  BY DEF LookupStaged, IInv, TypeOK
<1>5. QED
  BY <1>1, <1>2, <1>3, <1>4, QuietStep DEF SerialInv, LoadedIsCurrent

\* A row that passes the re-check is of a hash the ledger does not have.
LEMMA RecheckRowSerial ==
  ASSUME IInv, SerialInv, NEW r \in Requests, RecheckRow(r)
  PROVE  SerialInv'
<1> DEFINE row == normalized[task[r].batch][line[r]]
<1>1. UNCHANGED <<normalized, ledger, batch, task>> /\ pc[r] = "recheck"
  BY DEF RecheckRow
<1>2. \A q \in Requests : pc'[q] = pc[q] \/ pc'[q] = "failed"
  BY DEF RecheckRow, IInv, TypeOK
<1>3. \A q \in Requests : \A i \in picked'[q] :
         i \in picked[q] \/ (q = r /\ i = line[r] /\ ~IsDuplicate(task[r].user, row.hash))
  BY DEF RecheckRow, IInv, TypeOK
<1>4. OneVerifyPerUser' /\ LoadedIsCurrent' /\ AcceptedRowsDiffer' /\ HashesUnique'
  BY <1>1, <1>2
  DEF SerialInv, OneVerifyPerUser, LoadedIsCurrent, AcceptedRowsDiffer, HashesUnique
<1>5. PickedAreFresh'
  BY <1>1, <1>2, <1>3 DEF SerialInv, PickedAreFresh, IsDuplicate, Hits
<1>6. QED
  BY <1>4, <1>5 DEF SerialInv

\* Two different picked lines of one preview never have the same real hash.
LEMMA PickedHashesDiffer ==
  ASSUME IInv, SerialInv, NEW r \in Requests, pc[r] = "recheck",
         NEW i \in picked[r], NEW j \in picked[r],
         normalized[task[r].batch][i].hash = normalized[task[r].batch][j].hash,
         normalized[task[r].batch][i].hash # NoHash
  PROVE  i = j
<1> DEFINE b == task[r].batch
<1>1. b \in Requests
  BY DEF IInv, TypeOK, Task
<1>2. /\ i \in 1..Len(normalized[b]) /\ j \in 1..Len(normalized[b])
      /\ normalized[b][i].status = "verified" \/ normalized[b][i].status = "ambiguous"
      /\ normalized[b][j].status = "verified" \/ normalized[b][j].status = "ambiguous"
  BY DEF IInv, PickedLines, CanCommit
<1>3. normalized[b][i].status = "verified" /\ normalized[b][j].status = "verified"
  BY <1>1, <1>2 DEF IInv, NormalizedRows
<1>4. QED
  BY <1>1, <1>2, <1>3 DEF SerialInv, AcceptedRowsDiffer

\* The rows a commit adds are new to the ledger of their user.
LEMMA CommitBatchSerial ==
  ASSUME IInv, SerialInv, NEW r \in Requests, CommitBatch(r)
  PROVE  SerialInv'
<1> DEFINE b == task[r].batch
<1>1. /\ UNCHANGED <<normalized, picked, task>> /\ pc[r] = "recheck"
      /\ pc' = [pc EXCEPT ![r] = "pop"]
      /\ ledger' = ledger \union Postings(r)
      /\ batch' = Closed(b, CommittedRows(r))
  BY DEF CommitBatch
<1>2. /\ b \in Requests
      /\ \A q \in Requests : q # b => batch'[q] = batch[q]
  BY <1>1 DEF Closed, IInv, TypeOK, Task
<1>3. \A q \in Requests : pc'[q] = IF q = r THEN "pop" ELSE pc[q]
  BY <1>1 DEF IInv, TypeOK
<1>4. \A q \in Requests : q # r /\ pc[q] \in VerifyPhase =>
         task[q].user # task[r].user /\ task[q].batch # b
  BY <1>1 DEF SerialInv, OneVerifyPerUser, IInv, VerifiesOwnBatch, OwnedBy
<1>5. OneVerifyPerUser' /\ AcceptedRowsDiffer'
  BY <1>1, <1>3 DEF SerialInv, OneVerifyPerUser, AcceptedRowsDiffer
<1>6. LoadedIsCurrent'
  <2>1. \A q \in Requests : task[q].batch \in Requests
    BY DEF IInv, TypeOK, Task
  <2>2. QED
    BY <1>1, <1>2, <1>3, <1>4, <2>1 DEF SerialInv, LoadedIsCurrent
<1>7. PickedAreFresh'
  <2>1. \A t \in Postings(r) : t.user = task[r].user
    BY <1>1, PostingsSound
  <2>2. QED
    BY <1>1, <1>3, <1>4, <2>1 DEF SerialInv, PickedAreFresh
<1>8. HashesUnique'
  <2> SUFFICES ASSUME NEW t1 \in ledger', NEW t2 \in ledger',
                      t1.user = t2.user, t1.hash = t2.hash, t1.hash # NoHash
               PROVE  t1 = t2
    BY DEF HashesUnique
  <2>1. \A t \in Postings(r) :
           /\ t.user = task[r].user /\ t.line \in picked[r]
           /\ t.hash = normalized[b][t.line].hash
           /\ t = [user |-> task[r].user, batch |-> b, line |-> t.line,
                   hash |-> normalized[b][t.line].hash, by |-> r]
    BY DEF Postings
  <2>2. CASE t1 \in ledger /\ t2 \in ledger
    BY <2>2 DEF SerialInv, HashesUnique
  <2>3. CASE t1 \in ledger /\ t2 \in Postings(r)
    BY <1>1, <2>1, <2>3 DEF SerialInv, PickedAreFresh
  <2>4. CASE t1 \in Postings(r) /\ t2 \in ledger
    BY <1>1, <2>1, <2>4 DEF SerialInv, PickedAreFresh
  <2>5. CASE t1 \in Postings(r) /\ t2 \in Postings(r)
    <3>1. t1.line = t2.line
      BY <1>1, <2>1, <2>5, PickedHashesDiffer
    <3>2. QED
      BY <2>1, <2>5, <3>1
  <2>6. QED
    BY <1>1, <2>2, <2>3, <2>4, <2>5
<1>9. QED
  BY <1>5, <1>6, <1>7, <1>8 DEF SerialInv

\* Removing a committed batch from the cache keeps it.
LEMMA PopStagedSerial ==
  ASSUME IInv, SerialInv, NEW r \in Requests, PopStaged(r)
  PROVE  SerialInv'
BY QuietStep DEF PopStaged, IInv, TypeOK, SerialInv, LoadedIsCurrent

\* A restart keeps it.
LEMMA RestartSerial == IInv /\ SerialInv /\ Restart => SerialInv'
<1> SUFFICES ASSUME IInv, SerialInv, Restart PROVE SerialInv'
  OBVIOUS
<1>1. UNCHANGED <<normalized, ledger, batch, task, picked>>
  BY DEF Restart
<1>2. \A q \in Requests : pc'[q] \notin VerifyPhase
  BY DEF Restart, InFlight
<1>3. QED
  BY <1>1, <1>2, QuietStep

\* The strengthening is inductive where verify calls of one user do not overlap.
LEMMA NextSerial ==
  ASSUME OverlappingVerifies = FALSE
  PROVE  IInv /\ SerialInv /\ [Next]_vars => SerialInv'
<1> SUFFICES ASSUME IInv, SerialInv, [Next]_vars PROVE SerialInv'
  OBVIOUS
<1>1. CASE Next
  BY <1>1, BeginUploadSerial, BeginVerifySerial, ClassifyRowSerial, CommitUploadSerial,
     CachePreviewSerial, LookupStagedSerial, RecheckRowSerial, CommitBatchSerial,
     PopStagedSerial, RestartSerial
  DEF Next, Continue
<1>2. CASE UNCHANGED vars
  BY <1>2 DEF vars, SerialInv, OneVerifyPerUser, LoadedIsCurrent, PickedAreFresh,
              AcceptedRowsDiffer, HashesUnique
<1>3. QED
  BY <1>1, <1>2

\* The strengthening holds throughout in that case.
LEMMA SerialHolds ==
  ASSUME OverlappingVerifies = FALSE
  PROVE  Spec => []SerialInv
BY InitInv, NextInv, InitSerial, NextSerial, PTL DEF Spec

\* While a user has at most one verify call in flight, no movement of an
\* account is ever counted twice, whatever uploads and other tenants do.
THEOREM CountedOnce ==
  ASSUME OverlappingVerifies = FALSE
  PROVE  Spec => []NoDoubleCounting
<1>1. IInv /\ SerialInv => NoDoubleCounting
  <2> SUFFICES ASSUME IInv, SerialInv, NEW t1 \in ledger, NEW t2 \in ledger,
                      t1.hash # NoHash, t2.hash # NoHash,
                      Identity(t1.batch, t1.line) = Identity(t2.batch, t2.line)
               PROVE  t1 = t2
    BY DEF NoDoubleCounting
  <2>1. \A t \in ledger : t.hash # NoHash =>
           t.hash = Identity(t.batch, t.line) /\ t.user = batch[t.batch].user
    <3> SUFFICES ASSUME NEW t \in ledger, t.hash # NoHash
                 PROVE  t.hash = Identity(t.batch, t.line) /\ t.user = batch[t.batch].user
      OBVIOUS
    <3> DEFINE row == normalized[t.batch][t.line]
    <3>1. /\ t.batch \in Requests /\ t.line \in 1..Len(normalized[t.batch])
          /\ row.hash = t.hash /\ t.user = batch[t.batch].user
          /\ batch[t.batch].status = "committed"
          /\ row.status = "verified" \/ row.status = "ambiguous"
      BY DEF IInv, PostedRows, CanCommit, TypeOK, LedgerRow
    <3>2. row.status = "verified" /\
          t.hash = TxHash(task[t.batch].user, task[t.batch].account,
                          Content[task[t.batch].file][t.line].key)
      BY <3>1 DEF IInv, NormalizedRows
    <3>3. batch[t.batch].user = task[t.batch].user /\ batch[t.batch].file = task[t.batch].file
      BY <3>1 DEF IInv, Progress
    <3>4. QED
      BY <3>1, <3>2, <3>3 DEF Identity, Source, TxHash
  <2>2. t1.hash = t2.hash /\ t1.user = t2.user
    BY <2>1 DEF Identity
  <2>3. QED
    BY <2>2 DEF SerialInv, HashesUnique
<1>2. QED
  BY <1>1, InvHolds, SerialHolds, PTL

-----------------------------------------------------------------------------
(* Refinement *)

\* The initial state maps to an empty book.
LEMMA InitRefines == Init => Book!Init
BY DEF Init, NoBatch, Book!Init, BookOf, ClosedStatements

\* CommitBatch is the only step that moves the book.
LEMMA CommitBatchRefines ==
  ASSUME IInv, SerialInv, SerialInv', NEW r \in Requests, CommitBatch(r)
  PROVE  Book!Close(task[r].batch)
<1> DEFINE b == task[r].batch
<1>1. /\ pc[r] = "recheck" /\ ledger' = ledger \union Postings(r)
      /\ batch' = Closed(b, CommittedRows(r)) /\ b \in Requests
  BY DEF CommitBatch, IInv, TypeOK, Task
<1>2. b \notin ClosedStatements
  BY <1>1 DEF SerialInv, LoadedIsCurrent, ClosedStatements
<1>3. ClosedStatements' = ClosedStatements \union {b}
  BY <1>1 DEF ClosedStatements, Closed, IInv, TypeOK, Batch
<1>4. BookOf(ledger) \subseteq BookOf(ledger')
  BY <1>1 DEF BookOf
<1>5. ASSUME NEW e \in BookOf(ledger') \ BookOf(ledger)
      PROVE  /\ e \in Book!Entry
             /\ e.statement = b
             /\ \A d \in BookOf(ledger') : Book!SameMovement(e, d) => d = e
  <2>1. PICK t \in Postings(r) : t.hash # NoHash /\ e = BookEntry(t)
    BY <1>1 DEF BookOf
  <2>2. t \in LedgerRow /\ t.batch = b /\ t \in ledger'
    BY <1>1, <2>1, PostingsSound
  <2>3. e \in Book!Entry /\ e.statement = b
    BY <2>1, <2>2 DEF Book!Entry, BookEntry, LedgerRow
  <2>4. ASSUME NEW d \in BookOf(ledger'), Book!SameMovement(e, d)
        PROVE  d = e
    <3>1. PICK x \in ledger' : x.hash # NoHash /\ d = BookEntry(x)
      BY DEF BookOf
    <3>2. x.user = t.user /\ x.hash = t.hash
      BY <2>1, <2>4, <3>1 DEF Book!SameMovement, BookEntry
    <3>3. x = t
      BY <2>1, <2>2, <3>2, SMTT(30) DEF SerialInv, HashesUnique
    <3>4. QED
      BY <2>1, <3>1, <3>3
  <2>5. QED
    BY <2>3, <2>4
<1>6. QED
  BY <1>2, <1>3, <1>4, <1>5 DEF Book!Close

\* Every step maps to a step of the book or to a stutter.
LEMMA NextRefines ==
  IInv /\ SerialInv /\ SerialInv' /\ [Next]_vars => [Book!Next]_<<BookOf(ledger), ClosedStatements>>
<1> SUFFICES ASSUME IInv, SerialInv, SerialInv', [Next]_vars
             PROVE  Book!Next \/ UNCHANGED <<BookOf(ledger), ClosedStatements>>
  OBVIOUS
<1>1. ASSUME NEW r \in Requests, CommitBatch(r)
      PROVE  Book!Next
  <2>1. task[r].batch \in Requests
    BY DEF IInv, TypeOK, Task
  <2>2. QED
    BY <1>1, <2>1, CommitBatchRefines DEF Book!Next
<1>2. ASSUME NEW r \in Requests, CommitUpload(r)
      PROVE  UNCHANGED <<BookOf(ledger), ClosedStatements>>
  <2>1. ClosedStatements' = ClosedStatements
    BY <1>2 DEF CommitUpload, ClosedStatements, IInv, Progress, TypeOK, StagedState
  <2>2. ledger' = ledger
    BY <1>2 DEF CommitUpload
  <2>3. QED
    BY <2>1, <2>2 DEF BookOf
<1>3. CASE UNCHANGED <<ledger, batch>>
  BY <1>3 DEF BookOf, ClosedStatements
<1>4. QED
  BY <1>1, <1>2, <1>3 DEF Next, Continue, BeginUpload, BeginVerify, ClassifyRow, CachePreview,
                          LookupStaged, RecheckRow, PopStaged, Restart, vars

\* While a user has at most one verify call in flight, every behaviour of the
\* pipeline is one of StatementBook: each statement is closed at most once, in
\* one step, with rows nobody has posted before.
THEOREM PipelineImplementsBook ==
  ASSUME OverlappingVerifies = FALSE
  PROVE  Spec => ImplementsBook
BY InvHolds, SerialHolds, InitRefines, NextRefines, PTL DEF Spec, ImplementsBook, Book!Spec

-----------------------------------------------------------------------------
(* No clean row is lost: the strengthening *)

InLedger(u, h) == \E t \in ledger : t.user = u /\ t.hash = h

HashOf(r, i) == TxHash(task[r].user, task[r].account, Content[task[r].file][i].key)

\* A statement that is staged was read to its end.
FullPreviews ==
  \A r \in Requests : batch[r].status # "absent" =>
    Len(normalized[r]) = Len(Content[task[r].file])

\* Accepted rows are clean; a clean row is accepted, repeats an accepted one, or
\* was in the ledger.
CleanRows ==
  \A r \in Requests : \A i \in 1..Len(normalized[r]) :
    /\ normalized[r][i].status = "verified" => Content[task[r].file][i].kind = "clean"
    /\ Content[task[r].file][i].kind = "clean" =>
         \/ InLedger(task[r].user, HashOf(r, i))
         \/ \E j \in 1..Len(normalized[r]) :
              normalized[r][j].status = "verified" /\ normalized[r][j].hash = HashOf(r, i)

\* The accepted rows of b up to line n are picked by r or in the ledger.
Covered(r, b, n) ==
  \A i \in 1..Len(normalized[b]) : i < n /\ normalized[b][i].status = "verified" =>
    i \in picked[r] \/ InLedger(task[r].user, normalized[b][i].hash)

\* A verify call has picked what it has looked at, or found it in the ledger.
Rechecked ==
  \A r \in Requests :
    /\ pc[r] = "lookup" => line[r] = 1
    /\ pc[r] = "recheck" => Covered(r, task[r].batch, line[r])

\* What was accepted of a committed statement is in the ledger.
AcceptedPosted ==
  \A b \in Requests : batch[b].status = "committed" =>
    \A i \in 1..Len(normalized[b]) : normalized[b][i].status = "verified" =>
      InLedger(batch[b].user, normalized[b][i].hash)

LossInv ==
  /\ FullPreviews
  /\ CleanRows
  /\ Rechecked
  /\ AcceptedPosted

-----------------------------------------------------------------------------
(* Its steps *)

\* Before the first request nothing is staged and nothing is committed.
LEMMA InitLoss == Init => LossInv
<1> SUFFICES ASSUME Init PROVE LossInv
  OBVIOUS
<1>1. \A r \in Requests : /\ batch[r].status = "absent" /\ normalized[r] = <<>>
                          /\ pc[r] = "idle" /\ Len(normalized[r]) = 0
  BY DEF Init, NoBatch
<1> QED
  BY <1>1 DEF LossInv, FullPreviews, CleanRows, Rechecked, AcceptedPosted

\* A step that leaves the previews, the ledger and the batches alone.
RowsUntouched ==
  /\ UNCHANGED <<normalized, ledger, batch>>
  /\ \A q \in Requests :
       /\ task'[q] = task[q] \/ (normalized[q] = <<>> /\ batch[q].status = "absent")
       /\ pc'[q] = "lookup" => line'[q] = 1
       /\ pc'[q] = "recheck" =>
            /\ task'[q] = task[q] /\ line'[q] = line[q] /\ picked'[q] = picked[q]
            /\ pc[q] = "recheck" \/ line[q] = 1

\* Such a step keeps what is known of the rows.
LEMMA QuietLoss ==
  ASSUME IInv, LossInv, RowsUntouched
  PROVE  LossInv'
<1> USE DEF RowsUntouched
<1>1. \A u, h : InLedger(u, h)' <=> InLedger(u, h)
  BY DEF InLedger
<1>2. FullPreviews'
  BY DEF LossInv, FullPreviews
<1>3. CleanRows'
  <2> SUFFICES ASSUME NEW q \in Requests, NEW i \in 1..Len(normalized[q])
               PROVE  CleanRows!(q)!(i)'
    BY DEF CleanRows
  <2>1. task'[q] = task[q]
    OBVIOUS
  <2>2. HashOf(q, i)' = HashOf(q, i)
    BY <2>1 DEF HashOf, TxHash
  <2> QED
    BY <1>1, <2>1, <2>2 DEF LossInv, CleanRows
<1>4. Rechecked'
  <2>1. ASSUME NEW q \in Requests, pc'[q] = "recheck", pc[q] = "recheck"
        PROVE  Covered(q, task[q].batch, line[q])'
    BY <1>1, <2>1 DEF LossInv, Rechecked, Covered
  <2>2. ASSUME NEW q \in Requests, pc'[q] = "recheck", line[q] = 1
        PROVE  Covered(q, task[q].batch, line[q])'
    BY <2>2 DEF Covered
  <2> QED
    BY <2>1, <2>2 DEF Rechecked
<1>5. AcceptedPosted'
  BY <1>1 DEF LossInv, AcceptedPosted
<1> QED
  BY <1>2, <1>3, <1>4, <1>5 DEF LossInv

\* A clean row that is not accepted repeats an accepted one or a ledger row.
LEMMA ClassifyRowLoss ==
  ASSUME IInv, LossInv, NEW r \in Requests, ClassifyRow(r)
  PROVE  LossInv'
<1> DEFINE row == Content[task[r].file][line[r]]
           n   == Len(normalized[r]) + 1
<1>1. /\ UNCHANGED <<ledger, batch, picked, task>> /\ batch[r].status = "absent"
      /\ line[r] = n /\ row \in SourceRow
  BY SourceRowTyped DEF ClassifyRow, IInv, Progress, TypeOK
<1>2. /\ \A q \in Requests : q # r => normalized'[q] = normalized[q]
      /\ \A i \in 1..Len(normalized[r]) : normalized'[r][i] = normalized[r][i]
      /\ \/ normalized'[r] = normalized[r]
         \/ Len(normalized'[r]) = n /\ normalized'[r][n] = Classified(r, row)
  BY ClassifyRowEffect, <1>1
<1>3. \A q \in Requests : /\ pc'[q] \in {"lookup", "recheck"} => pc'[q] = pc[q] /\ q # r
                          /\ q # r => line'[q] = line[q]
  BY DEF ClassifyRow, IInv, TypeOK
<1>4. \A u, h : InLedger(u, h)' <=> InLedger(u, h)
  BY <1>1 DEF InLedger
<1>5. FullPreviews' /\ AcceptedPosted'
  BY <1>1, <1>2, <1>4 DEF LossInv, FullPreviews, AcceptedPosted
<1>6. CleanRows'
  <2> SUFFICES ASSUME NEW q \in Requests, NEW i \in 1..Len(normalized'[q])
               PROVE  CleanRows!(q)!(i)'
    BY DEF CleanRows
  <2>0. Len(normalized[r]) \in Nat /\ Len(normalized'[r]) \in Nat
    BY ClassifyRowEffect DEF IInv, TypeOK
  <2>1. HashOf(q, i)' = HashOf(q, i)
    BY <1>1 DEF HashOf, TxHash
  <2>2. CASE q # r \/ normalized'[r] = normalized[r]
    <3>1. normalized'[q] = normalized[q]
      BY <1>2, <2>2
    <3> QED
      BY <1>1, <1>4, <2>1, <3>1 DEF LossInv, CleanRows
  <2>3. CASE q = r /\ i \in 1..Len(normalized[r])
    <3>1. Len(normalized[r]) <= Len(normalized'[r])
      BY ClassifyRowEffect
    <3> QED
      BY <1>1, <1>2, <1>4, <2>0, <2>1, <2>3, <3>1 DEF LossInv, CleanRows
  <2>4. CASE q = r /\ i = n /\ Len(normalized'[r]) = n /\ normalized'[r][n] = Classified(r, row)
    <3> DEFINE h == TxHash(task[r].user, task[r].account, row.key)
    <3>1. HashOf(r, n) = h
      BY <1>1 DEF HashOf
    <3>2. row.kind \in {"clean", "ambiguous", "unreadable"}
      BY <1>1 DEF SourceRow
    <3>3. Classified(r, row).status = "verified" => row.kind = "clean"
      BY <3>2 DEF Classified
    <3>4. ASSUME row.kind = "clean"
          PROVE  \/ InLedger(task[r].user, h)
                 \/ \E j \in 1..Len(normalized'[r]) :
                      normalized'[r][j].status = "verified" /\ normalized'[r][j].hash = h
      <4>1. CASE SeenInBatch(r, h)
        <5>1. PICK j \in 1..Len(normalized[r]) : normalized[r][j] = [hash |-> h, status |-> "verified"]
          BY <4>1 DEF SeenInBatch
        <5>2. j \in 1..Len(normalized'[r]) /\ normalized'[r][j] = [hash |-> h, status |-> "verified"]
          BY <1>2, <2>0, <2>4, <5>1
        <5> QED
          BY <5>2
      <4>2. CASE IsDuplicate(task[r].user, h)
        BY <4>2 DEF IsDuplicate, Hits, InLedger
      <4>3. CASE ~SeenInBatch(r, h) /\ ~IsDuplicate(task[r].user, h)
        <5>1. Classified(r, row) = [hash |-> h, status |-> "verified"]
          BY <3>4, <4>3 DEF Classified
        <5> QED
          BY <2>0, <2>4, <5>1
      <4> QED
        BY <4>1, <4>2, <4>3
    <3> QED
      BY <1>1, <1>4, <2>1, <2>4, <3>1, <3>3, <3>4
  <2> QED
    BY <1>2, <2>0, <2>2, <2>3, <2>4
<1>7. Rechecked'
  <2>1. ASSUME NEW q \in Requests, pc'[q] = "recheck"
        PROVE  normalized'[task[q].batch] = normalized[task[q].batch]
    <3>1. pc[q] = "recheck"
      BY <1>3, <2>1
    <3>2. batch[task[q].batch].status # "absent"
      BY <3>1 DEF IInv, VerifiesOwnBatch, OwnedBy
    <3>3. task[q].batch \in Requests
      BY DEF IInv, TypeOK, Task
    <3> QED
      BY <1>1, <1>2, <3>2, <3>3
  <2> QED
    BY <1>1, <1>3, <1>4, <2>1 DEF LossInv, Rechecked, Covered
<1> QED
  BY <1>5, <1>6, <1>7 DEF LossInv

\* An upload is committed only when every row of its file has been classified.
LEMMA CommitUploadLoss ==
  ASSUME IInv, LossInv, NEW r \in Requests, CommitUpload(r)
  PROVE  LossInv'
<1>1. /\ UNCHANGED <<normalized, ledger, task, line, picked>>
      /\ batch'[r].status \in {"verified", "needs_review"}
      /\ \A q \in Requests : q # r => batch'[q] = batch[q]
      /\ \A q \in Requests : pc'[q] = pc[q] \/ pc'[q] = "cache"
  BY DEF CommitUpload, StagedState, IInv, TypeOK
<1>2. \A u, h : InLedger(u, h)' <=> InLedger(u, h)
  BY <1>1 DEF InLedger
<1>3. Len(normalized[r]) = Len(Content[task[r].file])
  <2>1. /\ Len(normalized[r]) = line[r] - 1 /\ line[r] \in Nat
        /\ line[r] > Len(Content[task[r].file])
    BY DEF CommitUpload, IInv, Progress, TypeOK
  <2>2. Len(Content[task[r].file]) \in Nat
    BY ContentAssumption DEF IInv, TypeOK, Task
  <2>3. \A i \in 1..Len(normalized[r]) : i \in 1..Len(Content[task[r].file])
    BY DEF IInv, NormalizedRows
  <2> QED
    BY <2>1, <2>2, <2>3
<1>4. FullPreviews'
  BY <1>1, <1>3 DEF LossInv, FullPreviews
<1>5. CleanRows' /\ Rechecked'
  BY <1>1, <1>2 DEF LossInv, CleanRows, Rechecked, Covered, HashOf
<1>6. AcceptedPosted'
  BY <1>1, <1>2 DEF LossInv, AcceptedPosted
<1> QED
  BY <1>4, <1>5, <1>6 DEF LossInv

\* A row a verify call passes over is picked, not to be posted, or in the ledger.
LEMMA RecheckRowLoss ==
  ASSUME IInv, LossInv, NEW r \in Requests, RecheckRow(r)
  PROVE  LossInv'
<1> DEFINE b == task[r].batch
           u == task[r].user
<1>1. /\ UNCHANGED <<normalized, ledger, batch, task>> /\ pc[r] = "recheck"
      /\ \A q \in Requests : q # r => /\ pc'[q] = pc[q] /\ line'[q] = line[q]
                                      /\ picked'[q] = picked[q]
      /\ line[r] \in Nat
  BY DEF RecheckRow, IInv, TypeOK
<1>2. \A v, h : InLedger(v, h)' <=> InLedger(v, h)
  BY <1>1 DEF InLedger
<1>3. FullPreviews' /\ CleanRows' /\ AcceptedPosted'
  BY <1>1, <1>2 DEF LossInv, FullPreviews, CleanRows, AcceptedPosted, HashOf
<1>4. pc'[r] # "lookup"
  BY DEF RecheckRow, IInv, TypeOK
<1>5. ASSUME pc'[r] = "recheck" PROVE Covered(r, b, line[r])'
  <2>1. line'[r] = line[r] + 1
    BY <1>5 DEF RecheckRow, IInv, TypeOK
  <2>2. picked[r] \subseteq picked'[r]
    BY DEF RecheckRow, IInv, TypeOK
  <2>3. normalized[b][line[r]].status = "verified" =>
          line[r] \in picked'[r] \/ InLedger(u, normalized[b][line[r]].hash)
    <3>1. CASE IsDuplicate(u, normalized[b][line[r]].hash)
      BY <3>1 DEF IsDuplicate, Hits, InLedger
    <3>2. CASE ~IsDuplicate(u, normalized[b][line[r]].hash)
      BY <1>5, <3>2 DEF RecheckRow, CanCommit, IInv, TypeOK
    <3> QED
      BY <3>1, <3>2
  <2>4. Covered(r, b, line[r])
    BY <1>1 DEF LossInv, Rechecked
  <2> QED
    BY <1>1, <1>2, <2>1, <2>2, <2>3, <2>4 DEF Covered
<1>6. Rechecked'
  BY <1>1, <1>2, <1>4, <1>5 DEF LossInv, Rechecked, Covered
<1> QED
  BY <1>3, <1>6 DEF LossInv

\* A commit posts every accepted row that was not in the ledger.
LEMMA CommitBatchLoss ==
  ASSUME IInv, LossInv, NEW r \in Requests, CommitBatch(r)
  PROVE  LossInv'
<1> DEFINE b == task[r].batch
<1>1. /\ UNCHANGED <<normalized, task, line, picked>> /\ pc[r] = "recheck"
      /\ ledger' = ledger \union Postings(r)
      /\ b \in Requests /\ line[r] > Len(normalized[b]) /\ line[r] \in Nat
      /\ batch[b].status # "absent" /\ batch[b].user = task[r].user
  <2>1. /\ UNCHANGED <<normalized, task, line, picked>> /\ pc[r] = "recheck"
        /\ ledger' = ledger \union Postings(r) /\ line[r] > Len(normalized[b])
    BY DEF CommitBatch
  <2>2. OwnedBy(task[r].user, b)
    BY <2>1 DEF IInv, VerifiesOwnBatch
  <2>3. b \in Requests /\ line[r] \in Nat
    BY DEF IInv, TypeOK, Task
  <2> QED
    BY <2>1, <2>2, <2>3 DEF OwnedBy
<1>2. \A q \in Requests : /\ batch'[q].user = batch[q].user
                          /\ batch'[q].status = IF q = b THEN "committed" ELSE batch[q].status
                          /\ pc'[q] = pc[q] \/ pc'[q] = "pop"
  <2>1. \A q \in Requests : batch[q] \in Batch
    BY DEF IInv, TypeOK
  <2> QED
    BY <1>1, <2>1 DEF CommitBatch, Closed, IInv, TypeOK, Batch
<1>3. \A u, h : InLedger(u, h) => InLedger(u, h)'
  BY <1>1 DEF InLedger
<1>4. FullPreviews' /\ CleanRows' /\ Rechecked'
  <2>1. FullPreviews'
    <3>1. \A q \in Requests : batch'[q].status # "absent" => batch[q].status # "absent"
      BY <1>1, <1>2
    <3> QED
      BY <1>1, <3>1 DEF LossInv, FullPreviews
  <2>2. CleanRows'
    BY <1>1, <1>3 DEF LossInv, CleanRows, HashOf
  <2>3. Rechecked'
    BY <1>1, <1>2, <1>3 DEF LossInv, Rechecked, Covered
  <2> QED
    BY <2>1, <2>2, <2>3
<1>5. ASSUME NEW i \in 1..Len(normalized[b]), normalized[b][i].status = "verified"
      PROVE  InLedger(task[r].user, normalized[b][i].hash)'
  <2>1. i \in picked[r] \/ InLedger(task[r].user, normalized[b][i].hash)
    BY <1>1, <1>5 DEF LossInv, Rechecked, Covered, IInv, TypeOK
  <2>2. CASE i \in picked[r]
    <3>1. [user |-> task[r].user, batch |-> b, line |-> i,
           hash |-> normalized[b][i].hash, by |-> r] \in ledger'
      BY <1>1, <2>2 DEF Postings
    <3> QED
      BY <1>1, <3>1 DEF InLedger
  <2> QED
    BY <1>1, <1>3, <2>1, <2>2
<1>6. AcceptedPosted'
  BY <1>1, <1>2, <1>3, <1>5 DEF LossInv, AcceptedPosted
<1> QED
  BY <1>4, <1>6 DEF LossInv

\* No step loses a row.
LEMMA NextLoss == IInv /\ LossInv /\ [Next]_vars => LossInv'
<1> SUFFICES ASSUME IInv, LossInv, [Next]_vars PROVE LossInv'
  OBVIOUS
<1>0. \A q \in Requests : /\ pc[q] = "idle" => /\ normalized[q] = <<>> /\ line[q] = 1
                                               /\ batch[q].status = "absent"
                          /\ pc[q] = "lookup" => line[q] = 1
  BY DEF IInv, Progress, LossInv, Rechecked
<1>t. pc \in [Requests -> {"idle"} \union UploadPhase \union VerifyPhase \union Finished]
      /\ DOMAIN task = Requests
  BY DEF IInv, TypeOK
<1>1. ASSUME NEW r \in Requests, NEW u \in Users, NEW f \in Files, NEW a \in Accounts,
             BeginUpload(r, u, f, a)
      PROVE  LossInv'
  <2>1. UNCHANGED <<normalized, ledger, batch, line, picked>> /\ pc[r] = "idle"
    BY <1>1 DEF BeginUpload
  <2>2. \A q \in Requests : /\ q # r => task'[q] = task[q] /\ pc'[q] = pc[q]
                            /\ pc'[r] \notin {"lookup", "recheck"}
    BY <1>1, <1>t DEF BeginUpload
  <2>3. RowsUntouched
    BY <1>0, <2>1, <2>2 DEF RowsUntouched
  <2> QED
    BY <2>3, QuietLoss
<1>2. ASSUME NEW r \in Requests, NEW u \in Users, NEW b \in Requests, NEW o \in BOOLEAN,
             BeginVerify(r, u, b, o)
      PROVE  LossInv'
  <2>1. UNCHANGED <<normalized, ledger, batch, line, picked>> /\ pc[r] = "idle"
    BY <1>2 DEF BeginVerify
  <2>2. \A q \in Requests : /\ q # r => task'[q] = task[q] /\ pc'[q] = pc[q]
                            /\ pc'[r] # "recheck"
    BY <1>2, <1>t DEF BeginVerify
  <2>3. RowsUntouched
    BY <1>0, <2>1, <2>2 DEF RowsUntouched
  <2> QED
    BY <2>3, QuietLoss
<1>3. ASSUME NEW r \in Requests, CachePreview(r) \/ LookupStaged(r) \/ PopStaged(r)
      PROVE  LossInv'
  <2>1. UNCHANGED <<normalized, ledger, batch, line, picked, task>>
    BY <1>3 DEF CachePreview, LookupStaged, PopStaged
  <2>2. \A q \in Requests : /\ q # r => pc'[q] = pc[q]
                            /\ pc'[r] # "lookup"
                            /\ pc'[r] = "recheck" => pc[r] = "lookup"
    BY <1>3, <1>t DEF CachePreview, LookupStaged, PopStaged
  <2>3. RowsUntouched
    BY <1>0, <2>1, <2>2 DEF RowsUntouched
  <2> QED
    BY <2>3, QuietLoss
<1>4. CASE Restart
  <2>1. UNCHANGED <<normalized, ledger, batch, line, picked, task>>
    BY <1>4 DEF Restart
  <2>2. \A q \in Requests : pc'[q] \in {"lookup", "recheck"} => pc'[q] = pc[q]
    BY <1>4 DEF Restart, InFlight
  <2>3. RowsUntouched
    BY <1>0, <2>1, <2>2 DEF RowsUntouched
  <2> QED
    BY <2>3, QuietLoss
<1>5. CASE UNCHANGED vars
  <2>1. UNCHANGED <<normalized, ledger, batch, line, picked, task, pc>>
    BY <1>5 DEF vars
  <2>2. RowsUntouched
    BY <1>0, <2>1 DEF RowsUntouched
  <2> QED
    BY <2>2, QuietLoss
<1> QED
  BY <1>1, <1>2, <1>3, <1>4, <1>5, ClassifyRowLoss, CommitUploadLoss, RecheckRowLoss,
     CommitBatchLoss DEF Next, Continue

\* Whatever calls overlap and whatever is lost in a restart, every clean row of a
\* committed statement is in its owner's ledger (service.py:371, service.py:396).
THEOREM NothingEverLost == Spec => []NothingLost
<1>1. ASSUME IInv, LossInv PROVE NothingLost
  <2> SUFFICES ASSUME NEW b \in Requests, batch[b].status = "committed",
                      NEW i \in 1..Len(Content[batch[b].file]), Source(b, i).kind = "clean"
               PROVE  \E t \in ledger : /\ t.user = batch[b].user
                                        /\ Source(t.batch, t.line).kind = "clean"
                                        /\ Identity(t.batch, t.line) = Identity(b, i)
    BY DEF NothingLost
  <2>1. batch[b].user = task[b].user /\ batch[b].file = task[b].file
    BY <1>1 DEF IInv, Progress
  <2>2. HashOf(b, i) = Identity(b, i) /\ i \in 1..Len(normalized[b])
    BY <1>1, <2>1 DEF HashOf, TxHash, Identity, Source, LossInv, FullPreviews
  <2>3. InLedger(batch[b].user, HashOf(b, i))
    BY <1>1, <2>1, <2>2 DEF LossInv, CleanRows, AcceptedPosted, Source
  <2>4. PICK t \in ledger : t.user = batch[b].user /\ t.hash = HashOf(b, i)
    BY <2>3 DEF InLedger
  <2>5. t.hash # NoHash
    <3>1. Source(b, i) \in SourceRow
      BY <1>1, ContentAssumption DEF Source, IInv, TypeOK, Batch
    <3>2. HashOf(b, i) \in Users \X Accounts \X Keys
      BY <1>1, <2>1, <3>1 DEF HashOf, TxHash, Source, SourceRow, IInv, TypeOK, Task
    <3> QED
      BY <2>4, <3>2, NoHashAssumption
  <2>6. /\ t.batch \in Requests /\ t.line \in 1..Len(normalized[t.batch])
        /\ batch[t.batch].status = "committed"
        /\ normalized[t.batch][t.line].hash = t.hash
        /\ normalized[t.batch][t.line].status \in {"verified", "ambiguous"}
    BY <1>1 DEF IInv, PostedRows, CanCommit, TypeOK, LedgerRow
  <2>7. normalized[t.batch][t.line].status = "verified" /\ t.hash = HashOf(t.batch, t.line)
    BY <1>1, <2>5, <2>6 DEF IInv, NormalizedRows, HashOf
  <2>8. batch[t.batch].user = task[t.batch].user /\ batch[t.batch].file = task[t.batch].file
    BY <1>1, <2>6 DEF IInv, Progress
  <2>9. Source(t.batch, t.line).kind = "clean" /\ Identity(t.batch, t.line) = t.hash
    <3>1. Content[task[t.batch].file][t.line].kind = "clean"
      BY <1>1, <2>6, <2>7 DEF LossInv, CleanRows
    <3>2. Identity(t.batch, t.line) = HashOf(t.batch, t.line)
      BY <2>8 DEF Identity, Source, HashOf, TxHash
    <3> QED
      BY <2>7, <2>8, <3>1, <3>2 DEF Source
  <2> QED
    BY <2>2, <2>4, <2>9
<1> QED
  BY <1>1, InitInv, NextInv, InitLoss, NextLoss, PTL DEF Spec

-----------------------------------------------------------------------------
(* Why calls fail, when a user has one verify call at a time *)

\* A hash that is unique in the ledger has at most one hit.
LEMMA RealHashHasOneHit ==
  ASSUME HashesUnique, NEW u, NEW h, h # NoHash
  PROVE  ~TooManyHits(u, h)
BY DEF HashesUnique, TooManyHits, Hits

\* An upload only asks for real hashes: it never raises.
LEMMA ClassifyRowNeverFails ==
  ASSUME IInv, SerialInv, NEW r \in Requests, ClassifyRow(r)
  PROVE  pc' = pc
<1> DEFINE row == Content[task[r].file][line[r]]
           h   == TxHash(task[r].user, task[r].account, row.key)
<1>1. row \in SourceRow
  BY SourceRowTyped DEF ClassifyRow, IInv
<1>2. h \in Users \X Accounts \X Keys
  BY <1>1 DEF TxHash, SourceRow, IInv, TypeOK, Task
<1>3. ~TooManyHits(task[r].user, h)
  BY <1>2, NoHashAssumption, RealHashHasOneHit DEF SerialInv
<1> QED
  BY <1>3 DEF ClassifyRow

\* A verify call raises only over rows without identity, which it posts on override.
LEMMA RecheckRowFailsOverridden ==
  ASSUME IInv, SerialInv, NEW r \in Requests, RecheckRow(r)
  PROVE  pc' = pc \/ (pc' = [pc EXCEPT ![r] = "failed"] /\ task[r].override)
<1> DEFINE b   == task[r].batch
           row == normalized[b][line[r]]
<1>1. b \in Requests /\ line[r] \in 1..Len(normalized[b])
  BY DEF RecheckRow, IInv, TypeOK, Task
<1>2. CASE row.status = "verified"
  <2>1. /\ line[r] \in 1..Len(Content[task[b].file])
        /\ row.hash = TxHash(task[b].user, task[b].account, Content[task[b].file][line[r]].key)
    BY <1>1, <1>2 DEF IInv, NormalizedRows
  <2>2. Content[task[b].file][line[r]] \in SourceRow
    BY <1>1, <2>1, ContentAssumption DEF IInv, TypeOK, Task
  <2>3. row.hash # NoHash
    BY <1>1, <2>1, <2>2, NoHashAssumption DEF TxHash, SourceRow, IInv, TypeOK, Task
  <2> QED
    BY <2>3, RealHashHasOneHit DEF SerialInv, RecheckRow
<1>3. CASE row.status # "verified"
  BY <1>3 DEF RecheckRow, CanCommit
<1> QED
  BY <1>2, <1>3

\* While a user has at most one verify call in flight, a call that ends in an
\* unhandled exception had asked for the override or named a committed batch:
\* scalar_one_or_none() meets at most one row (deduplicator.py:78, service.py:371).
THEOREM OnlyOverridesRaise ==
  ASSUME OverlappingVerifies = FALSE
  PROVE  Spec => []OnlyOverridesFail
<1>1. Init => OnlyOverridesFail
  BY DEF Init, OnlyOverridesFail
<1>2. IInv /\ SerialInv /\ OnlyOverridesFail /\ [Next]_vars => OnlyOverridesFail'
  <2> SUFFICES ASSUME IInv, SerialInv, OnlyOverridesFail, [Next]_vars
               PROVE  OnlyOverridesFail'
    OBVIOUS
  <2>t. pc \in [Requests -> {"idle"} \union UploadPhase \union VerifyPhase \union Finished]
        /\ DOMAIN task = Requests
    BY DEF IInv, TypeOK
  <2>1. ASSUME NEW r \in Requests, NEW u \in Users, NEW f \in Files, NEW a \in Accounts,
               BeginUpload(r, u, f, a)
        PROVE  OnlyOverridesFail'
    BY <2>1, <2>t DEF BeginUpload, OnlyOverridesFail
  <2>2. ASSUME NEW r \in Requests, NEW u \in Users, NEW b \in Requests, NEW o \in BOOLEAN,
               BeginVerify(r, u, b, o)
        PROVE  OnlyOverridesFail'
    BY <2>2, <2>t DEF BeginVerify, OnlyOverridesFail
  <2>3. ASSUME NEW r \in Requests, Continue(r)
        PROVE  OnlyOverridesFail'
    <3>1. CASE ClassifyRow(r)
      BY <3>1, ClassifyRowNeverFails DEF ClassifyRow, OnlyOverridesFail
    <3>2. CASE RecheckRow(r)
      BY <2>t, <3>2, RecheckRowFailsOverridden DEF RecheckRow, OnlyOverridesFail
    <3>3. CASE LookupStaged(r)
      BY <2>t, <3>3 DEF LookupStaged, OnlyOverridesFail
    <3>4. CASE CommitUpload(r) \/ CachePreview(r) \/ CommitBatch(r) \/ PopStaged(r)
      BY <2>t, <3>4 DEF CommitUpload, CachePreview, CommitBatch, PopStaged, OnlyOverridesFail
    <3> QED
      BY <2>3, <3>1, <3>2, <3>3, <3>4 DEF Continue
  <2>4. CASE Restart
    BY <2>4 DEF Restart, OnlyOverridesFail
  <2>5. CASE UNCHANGED vars
    BY <2>5 DEF vars, OnlyOverridesFail
  <2> QED
    BY <2>1, <2>2, <2>3, <2>4, <2>5 DEF Next
<1> QED
  BY <1>1, <1>2, InvHolds, SerialHolds, PTL DEF Spec

-----------------------------------------------------------------------------
(* What a batch says of its rows, when a user has one verify call at a time *)

RowsOf(b) == {t \in ledger : t.batch = b}

\* Only a committed batch counts rows, and it counts them right.
Counted ==
  \A b \in Requests :
    batch[b].imported = IF batch[b].status = "committed" THEN Cardinality(RowsOf(b)) ELSE 0

\* A commit posts one row for each line it has picked.
LEMMA PostingsCounted ==
  ASSUME IInv, NEW r \in Requests
  PROVE  /\ IsFiniteSet(Postings(r))
         /\ Cardinality(Postings(r)) = Cardinality(picked[r])
<1> DEFINE b == task[r].batch
           Row(i) == [user |-> task[r].user, batch |-> b, line |-> i,
                      hash |-> normalized[b][i].hash, by |-> r]
           f == [i \in picked[r] |-> Row(i)]
<1>1. Postings(r) = {Row(i) : i \in picked[r]}
  BY DEF Postings
<1>2. f \in [picked[r] -> Postings(r)]
  BY <1>1
<1>3. \A i, j \in picked[r] : f[i] = f[j] => i = j
  <2>1. \A i \in picked[r] : f[i].line = i
    OBVIOUS
  <2> QED
    BY <2>1
<1>4. \A t \in Postings(r) : \E i \in picked[r] : f[i] = t
  BY <1>1
<1>5. f \in Bijection(picked[r], Postings(r))
  <2> HIDE DEF f
  <2> QED
    BY <1>2, <1>3, <1>4 DEF Bijection, Injection, Surjection, IsInjective
<1>6. ExistsBijection(picked[r], Postings(r)) /\ IsFiniteSet(picked[r])
  BY <1>5 DEF ExistsBijection, IInv, PickedFinite
<1> QED
  BY <1>6, FS_Bijection

\* A commit counts the rows of a batch that had none.
LEMMA CommitBatchCounted ==
  ASSUME IInv, SerialInv, Counted, NEW r \in Requests, CommitBatch(r)
  PROVE  Counted'
<1> DEFINE b == task[r].batch
           n == Cardinality(picked[r])
<1>1. /\ b \in Requests /\ batch[b].status # "committed" /\ pc[r] = "recheck"
      /\ batch \in [Requests -> Batch]
  BY DEF CommitBatch, IInv, TypeOK, Task, SerialInv, LoadedIsCurrent
<1>2. RowsOf(b) = {} /\ batch[b].imported = 0
  BY <1>1 DEF RowsOf, IInv, PostedRows, Counted
<1>3. ledger' = ledger \union Postings(r)
  BY DEF CommitBatch
<1>4. \A t \in Postings(r) : t.batch = b
  BY DEF Postings
<1>5. \A q \in Requests : RowsOf(q)' = IF q = b THEN Postings(r) ELSE RowsOf(q)
  <2> SUFFICES ASSUME NEW q \in Requests
               PROVE  RowsOf(q)' = IF q = b THEN Postings(r) ELSE RowsOf(q)
    OBVIOUS
  <2>1. RowsOf(q)' = RowsOf(q) \union {t \in Postings(r) : t.batch = q}
    BY <1>3 DEF RowsOf
  <2>2. {t \in Postings(r) : t.batch = q} = IF q = b THEN Postings(r) ELSE {}
    BY <1>4
  <2> QED
    BY <1>2, <2>1, <2>2
<1>6. \A q \in Requests :
        /\ batch'[q].status = IF q = b THEN "committed" ELSE batch[q].status
        /\ batch'[q].imported = IF q = b THEN n ELSE batch[q].imported
  BY <1>1, <1>2 DEF CommitBatch, Closed, CommittedRows, Batch
<1>7. Cardinality(Postings(r)) = n
  BY PostingsCounted
<1> SUFFICES ASSUME NEW q \in Requests
             PROVE  batch'[q].imported =
                      IF batch'[q].status = "committed" THEN Cardinality(RowsOf(q)') ELSE 0
  BY DEF Counted
<1> QED
  BY <1>1, <1>5, <1>6, <1>7 DEF Counted

\* While a user has at most one verify call in flight, imported_rows of a
\* committed batch is the number of ledger rows it has (service.py:401).
THEOREM ImportedRowsCounted ==
  ASSUME OverlappingVerifies = FALSE
  PROVE  Spec => []ImportedRowsMatchLedger
<1>1. Init => Counted
  BY DEF Init, NoBatch, Counted
<1>2. IInv /\ SerialInv /\ Counted /\ [Next]_vars => Counted'
  <2> SUFFICES ASSUME IInv, SerialInv, Counted, [Next]_vars PROVE Counted'
    OBVIOUS
  <2>1. CASE UNCHANGED <<ledger, batch>>
    BY <2>1 DEF Counted, RowsOf
  <2>2. ASSUME NEW r \in Requests, CommitUpload(r) PROVE Counted'
    <3>1. /\ ledger' = ledger /\ batch'[r].imported = 0 /\ batch'[r].status # "committed"
          /\ \A q \in Requests : q # r => batch'[q] = batch[q]
      BY <2>2, SMTT(30) DEF CommitUpload, StagedState, IInv, TypeOK
    <3> QED
      BY <3>1 DEF Counted, RowsOf
  <2>3. \/ UNCHANGED <<ledger, batch>>
        \/ \E r \in Requests : CommitUpload(r) \/ CommitBatch(r)
    BY DEF Next, Continue, vars, BeginUpload, BeginVerify, ClassifyRow, CachePreview,
           LookupStaged, RecheckRow, PopStaged, Restart
  <2> QED
    BY <2>1, <2>2, <2>3, CommitBatchCounted
<1>3. Counted => ImportedRowsMatchLedger
  BY DEF Counted, RowsOf, ImportedRowsMatchLedger
<1> QED
  BY <1>1, <1>2, <1>3, InvHolds, SerialHolds, PTL DEF Spec

-----------------------------------------------------------------------------
(* What a committed statement is stays so, when a user has one verify call at a time *)

\* A posted row and an audit event are never taken back or changed, and the
\* batch, the preview, the rows of a committed statement and what they stand for
\* stay as they were: it is not committed again (service.py:351), and no upload
\* or verify call writes to a batch that is not its own.
HistoryStays ==
  /\ ledger \subseteq ledger'
  /\ audit \subseteq audit'
  /\ \A b \in Requests : batch[b].status = "committed" =>
       /\ batch'[b] = batch[b]
       /\ normalized'[b] = normalized[b]
       /\ RowsOf(b)' = RowsOf(b)
       /\ \A i \in 1..Len(normalized[b]) : Identity(b, i)' = Identity(b, i)

\* A step that writes neither to the ledger nor to a batch that is committed,
\* nor to its preview, nor to what its upload was asked for.
LEMMA OtherStatementsStay ==
  ASSUME UNCHANGED <<ledger, audit>>,
         \A b \in Requests : batch[b].status = "committed" =>
           batch'[b] = batch[b] /\ normalized'[b] = normalized[b] /\ task'[b] = task[b]
  PROVE  HistoryStays
BY DEF HistoryStays, RowsOf, Identity, Source

\* A commit adds rows of a statement that is not committed yet.
LEMMA CommitBatchHistory ==
  ASSUME IInv, SerialInv, NEW r \in Requests, CommitBatch(r)
  PROVE  HistoryStays
<1> DEFINE b == task[r].batch
<1>1. /\ b \in Requests /\ batch[b].status # "committed"
      /\ batch \in [Requests -> Batch]
  BY DEF CommitBatch, IInv, TypeOK, Task, SerialInv, LoadedIsCurrent
<1>2. /\ ledger' = ledger \union Postings(r) /\ audit \subseteq audit'
      /\ UNCHANGED <<normalized, task>>
  BY DEF CommitBatch
<1>3. \A t \in Postings(r) : t.batch = b
  BY DEF Postings
<1>4. \A q \in Requests : q # b => batch'[q] = batch[q] /\ RowsOf(q)' = RowsOf(q)
  <2>1. \A q \in Requests : q # b => batch'[q] = batch[q]
    BY <1>1 DEF CommitBatch, Closed
  <2>2. \A q \in Requests : q # b => RowsOf(q)' = RowsOf(q)
    BY <1>2, <1>3 DEF RowsOf
  <2> QED
    BY <2>1, <2>2
<1> QED
  BY <1>1, <1>2, <1>4 DEF HistoryStays, Identity, Source

\* While a user has at most one verify call in flight, a committed statement is
\* final: its batch, its preview, its rows and their identities never change.
THEOREM CommittedIsFinal ==
  ASSUME OverlappingVerifies = FALSE
  PROVE  Spec => [][HistoryStays]_vars
<1>1. IInv /\ SerialInv /\ [Next]_vars => [HistoryStays]_vars
  <2> SUFFICES ASSUME IInv, SerialInv, Next PROVE HistoryStays
    OBVIOUS
  <2>t. /\ DOMAIN task = Requests /\ DOMAIN batch = Requests /\ DOMAIN normalized = Requests
        /\ \A r \in Requests : pc[r] \in {"idle", "classify"} => batch[r].status = "absent"
    BY DEF IInv, TypeOK, Progress
  <2>1. ASSUME NEW r \in Requests, NEW u \in Users, NEW f \in Files, NEW a \in Accounts,
               BeginUpload(r, u, f, a)
        PROVE  HistoryStays
    BY <2>1, <2>t, OtherStatementsStay DEF BeginUpload
  <2>2. ASSUME NEW r \in Requests, NEW u \in Users, NEW b \in Requests, NEW o \in BOOLEAN,
               BeginVerify(r, u, b, o)
        PROVE  HistoryStays
    BY <2>2, <2>t, OtherStatementsStay DEF BeginVerify
  <2>3. ASSUME NEW r \in Requests, Continue(r) PROVE HistoryStays
    <3>1. CASE ClassifyRow(r)
      BY <3>1, <2>t, OtherStatementsStay DEF ClassifyRow
    <3>2. CASE CommitUpload(r)
      BY <3>2, <2>t, OtherStatementsStay DEF CommitUpload
    <3>3. CASE CachePreview(r) \/ LookupStaged(r) \/ RecheckRow(r) \/ PopStaged(r)
      BY <3>3, OtherStatementsStay DEF CachePreview, LookupStaged, RecheckRow, PopStaged
    <3>4. CASE CommitBatch(r)
      BY <3>4, CommitBatchHistory
    <3> QED
      BY <2>3, <3>1, <3>2, <3>3, <3>4 DEF Continue
  <2>4. CASE Restart
    BY <2>4, OtherStatementsStay DEF Restart
  <2> QED
    BY <2>1, <2>2, <2>3, <2>4 DEF Next
<1> QED
  BY <1>1, InvHolds, SerialHolds, PTL DEF Spec

-----------------------------------------------------------------------------
(* What is read of a statement: columns *)

\* The titles that name a role, and no other role that is free where they are clear.
Own ==
  [date        |-> DateTitles,
   description |-> TextTitles,
   debit       |-> OutTitles,
   credit      |-> InTitles,
   amount      |-> {"Amount"},
   currency    |-> {"Currency"},
   category    |-> {"Type"},
   balance     |-> {"Balance"}]

RoleNames == DOMAIN Synonyms

Untaken == [r \in RoleNames |-> 0]

\* The roles are those that are tried, each once.
LEMMA RolesAre ==
  /\ Len(Roles) = 8 /\ \A k \in 1..8 : Roles[k] \in RoleNames
  /\ \A r \in RoleNames : \E k \in 1..8 : Roles[k] = r
  /\ \A k, l \in 1..8 : Roles[k] = Roles[l] => k = l
  /\ DOMAIN Own = RoleNames
BY DEF Roles, RoleNames, Synonyms, Own

\* A title takes the first role it matches that is free, or none.
LEMMA TakeIs ==
  ASSUME NEW cols, NEW title, NEW i
  PROVE  /\ \A k \in 1..8 :
              /\ cols[Roles[k]] = 0 /\ title \in Synonyms[Roles[k]]
              /\ \A l \in 1..8 : l < k => ~(cols[Roles[l]] = 0 /\ title \in Synonyms[Roles[l]])
              => Take(cols, title, i) = [cols EXCEPT ![Roles[k]] = i]
         /\ (\A k \in 1..8 : ~(cols[Roles[k]] = 0 /\ title \in Synonyms[Roles[k]])) =>
              Take(cols, title, i) = cols
<1>1. PICK I : I = {k \in 1..8 : cols[Roles[k]] = 0 /\ title \in Synonyms[Roles[k]]}
  OBVIOUS
<1>2. Take(cols, title, i) = LET role == IF I # {} THEN Min(I) ELSE 0
                             IN  IF role = 0 THEN cols ELSE [cols EXCEPT ![Roles[role]] = i]
  <2>1. Len(Roles) = 8
    BY RolesAre
  <2> QED
    BY <1>1, <2>1 DEF Take, SelectInSeq, MatchColumn
<1>3. ASSUME NEW k \in 1..8, cols[Roles[k]] = 0, title \in Synonyms[Roles[k]],
             \A l \in 1..8 : l < k => ~(cols[Roles[l]] = 0 /\ title \in Synonyms[Roles[l]])
      PROVE  Take(cols, title, i) = [cols EXCEPT ![Roles[k]] = i]
  <2>1. k \in I /\ \A l \in I : l \in 1..8 /\ k <= l
    BY <1>1, <1>3
  <2>2. \A x \in I : (\A y \in I : x <= y) <=> x = k
    <3>1. \A x \in I : x \in Int /\ k \in Int
      BY <2>1
    <3> QED
      BY <2>1, <3>1
  <2>3. Min(I) = k
    <3>1. Min(I) = CHOOSE x \in I : x = k
      BY <2>2 DEF Min
    <3> QED
      BY <2>1, <3>1
  <2>4. I # {} /\ k # 0
    BY <2>1
  <2> QED
    BY <1>2, <2>3, <2>4
<1>4. ASSUME \A k \in 1..8 : ~(cols[Roles[k]] = 0 /\ title \in Synonyms[Roles[k]])
      PROVE  Take(cols, title, i) = cols
  <2>1. I = {}
    BY <1>1, <1>4
  <2> QED
    BY <1>2, <2>1
<1> QED
  BY <1>3, <1>4

\* The roles after each of some titles exist.
LEMMA TakenExists ==
  ASSUME NEW titles, NEW N \in Nat
  PROVE  \E g : g = [i \in 0..N |-> IF i = 0 THEN Untaken ELSE Take(g[i - 1], titles[i], i)]
<1> DEFINE Then(g, i) == IF i = 0 THEN Untaken ELSE Take(g[i - 1], titles[i], i)
           H == {n \in Nat : \E g : \A i \in 0..n : g[i] = Then(g, i)}
<1>1. 0 \in H
  <2>1. PICK g : g = [i \in {0} |-> Untaken]
    OBVIOUS
  <2>2. \A i \in 0..0 : g[i] = Then(g, i)
    BY <2>1
  <2> QED
    BY <2>2
<1>2. ASSUME NEW n \in Nat, n \in H PROVE n + 1 \in H
  <2>1. PICK g : \A i \in 0..n : g[i] = Then(g, i)
    BY <1>2
  <2>2. PICK h : h = [i \in 0..(n + 1) |-> IF i <= n THEN g[i] ELSE Then(g, i)]
    OBVIOUS
  <2>3. \A i \in 0..n : h[i] = g[i]
    BY <2>2
  <2>4. ASSUME NEW i \in 0..(n + 1) PROVE h[i] = Then(h, i)
    <3>1. i = 0 \/ i - 1 \in 0..n
      OBVIOUS
    <3>2. i \in 0..n \/ (i = n + 1 /\ ~(i <= n))
      OBVIOUS
    <3> QED
      BY <2>1, <2>2, <2>3, <3>1, <3>2
  <2> QED
    BY <2>4
<1> HIDE DEF H
<1>3. N \in H
  BY <1>1, <1>2, NumbersByInduction
<1>4. PICK g : \A i \in 0..N : g[i] = Then(g, i)
  BY <1>3 DEF H
<1>5. PICK h : h = [i \in 0..N |-> g[i]]
  OBVIOUS
<1>6. \A i \in 0..N : h[i] = Then(h, i)
  <2>1. \A i \in 0..N : i = 0 \/ i - 1 \in 0..N
    OBVIOUS
  <2> QED
    BY <1>4, <1>5, <2>1
<1>7. h = [i \in 0..N |-> Then(h, i)]
  BY <1>5, <1>6
<1> QED
  BY <1>7

\* The columns of titles that include a description are taken one by one.
LEMMA ColumnsTaken ==
  ASSUME NEW titles \in Seq(STRING)
  PROVE  \E g : /\ g[0] = Untaken
                /\ \A i \in 1..Len(titles) : g[i] = Take(g[i - 1], titles[i], i)
                /\ g[Len(titles)]["description"] # 0 => Columns(titles) = g[Len(titles)]
<1>1. Len(titles) \in Nat
  OBVIOUS
<1>2. PICK g : g = CHOOSE f : f = [i \in 0..Len(titles) |-> IF i = 0 THEN Untaken ELSE Take(f[i - 1], titles[i], i)]
  OBVIOUS
<1>3. g = [i \in 0..Len(titles) |-> IF i = 0 THEN Untaken ELSE Take(g[i - 1], titles[i], i)]
  BY <1>1, <1>2, TakenExists
<1>4. g[Len(titles)]["description"] # 0 => Columns(titles) = g[Len(titles)]
  BY <1>2 DEF Columns, Untaken, RoleNames
<1>5. g[0] = Untaken /\ \A i \in 1..Len(titles) : g[i] = Take(g[i - 1], titles[i], i)
  BY <1>1, <1>3
<1> QED
  BY <1>4, <1>5

\* A title of a role's own matches that role, and none before it; if it is not one
\* of a date or a description, no other.  Most other titles match none.
LEMMA TitlesMatch ==
  /\ \A r \in RoleNames : \A t \in Own[r] : t \in Synonyms[r]
  /\ \A k, l \in 1..8 : \A t \in Own[Roles[k]] : l < k => t \notin Synonyms[Roles[l]]
  /\ \A r \in RoleNames \ {"date", "description"}, q \in RoleNames : \A t \in Own[r] : q # r => t \notin Synonyms[q]
  /\ \A q \in RoleNames : \A t \in Synonyms[q] \ {"Dr/Cr", "Reference"} : \E r \in RoleNames : t \in Own[r]
<1>1. RoleNames = {"date", "description", "debit", "credit", "amount", "currency", "category", "balance"}
  BY DEF RoleNames, Synonyms
<1>2. /\ Own["date"] = DateTitles /\ Own["description"] = TextTitles
      /\ Own["debit"] = OutTitles /\ Own["credit"] = InTitles /\ Own["amount"] = {"Amount"}
      /\ Own["currency"] = {"Currency"} /\ Own["category"] = {"Type"} /\ Own["balance"] = {"Balance"}
  BY DEF Own
<1>3. /\ Synonyms["date"] = DateTitles /\ Synonyms["description"] = TextTitles \union {"Reference"}
      /\ Synonyms["debit"] = OutTitles \union {"Dr/Cr"}
      /\ Synonyms["credit"] = InTitles \union {"Dr/Cr", "Description"}
      /\ Synonyms["amount"] = {"Amount", "Value Date"} /\ Synonyms["currency"] = {"Currency"}
      /\ Synonyms["category"] = {"Type"} /\ Synonyms["balance"] = {"Balance"}
  BY DEF Synonyms, DateTitles, TextTitles, OutTitles, InTitles
<1>4. \A r \in RoleNames : \A t \in Own[r] : t \in Synonyms[r]
  BY <1>1, <1>2, <1>3
<1>5. ASSUME NEW r \in RoleNames \ {"date", "description"}, NEW q \in RoleNames, NEW t \in Own[r], q # r
      PROVE  t \notin Synonyms[q]
  <2>1. t \notin DateTitles \union TextTitles \union {"Reference", "Dr/Cr"}
    BY <1>1, <1>2, <1>5 DEF DateTitles, TextTitles, OutTitles, InTitles
  <2>2. "Value Date" \in DateTitles /\ "Description" \in TextTitles
    BY DEF DateTitles, TextTitles
  <2> QED
    <3>1. \A a \in OutTitles, b \in InTitles : a # b
      BY DEF OutTitles, InTitles
    <3>2. \A a \in OutTitles \union InTitles : a \notin {"Amount", "Currency", "Type", "Balance"}
      BY DEF OutTitles, InTitles
    <3>3. q \notin {"date", "description"} /\ t \in Synonyms[q] => t \in Own[q]
      <4>1. /\ t \in Synonyms["debit"] => t \in Own["debit"]
            /\ t \in Synonyms["credit"] => t \in Own["credit"]
            /\ t \in Synonyms["amount"] => t \in Own["amount"]
        BY <1>2, <1>3, <2>1, <2>2
      <4>2. /\ Synonyms["currency"] = Own["currency"] /\ Synonyms["category"] = Own["category"]
            /\ Synonyms["balance"] = Own["balance"]
        BY <1>2, <1>3
      <4> QED
        BY <1>1, <4>1, <4>2
    <3>4. q \in {"date", "description"} => t \notin Synonyms[q]
      BY <1>3, <2>1
    <3>5. q \notin {"date", "description"} => t \notin Own[q]
      BY <1>1, <1>2, <1>5, <3>1, <3>2
    <3> QED
      BY <3>3, <3>4, <3>5
<1>6. \A t \in TextTitles : t \notin Synonyms["date"]
  BY <1>3 DEF DateTitles, TextTitles
<1>7. ASSUME NEW k \in 1..8, NEW l \in 1..8, l < k, NEW t \in Own[Roles[k]]
      PROVE  t \notin Synonyms[Roles[l]]
  <2>1. Roles[k] # Roles[l] /\ Roles[k] \in RoleNames /\ Roles[l] \in RoleNames
    BY <1>7, RolesAre
  <2>2. k # 1 /\ (k = 2 => l = 1)
    BY <1>7
  <2>3. Roles[1] = "date" /\ Roles[2] = "description"
    BY DEF Roles
  <2>4. CASE k = 2
    BY <1>2, <1>6, <1>7, <2>2, <2>3, <2>4
  <2>5. CASE k # 2
    <3>1. Roles[k] \notin {"date", "description"}
      BY <2>2, <2>3, <2>5, RolesAre
    <3> QED
      BY <1>5, <1>7, <2>1, <3>1
  <2> QED
    BY <2>4, <2>5
<1>8. ASSUME NEW q \in RoleNames, NEW t \in Synonyms[q] \ {"Dr/Cr", "Reference"}
      PROVE  \E r \in RoleNames : t \in Own[r]
  <2>1. "Value Date" \in Own["date"] /\ "Description" \in Own["description"]
    BY <1>2 DEF DateTitles, TextTitles
  <2> QED
    BY <1>1, <1>2, <1>3, <1>8, <2>1
<1> QED
  BY <1>4, <1>5, <1>7, <1>8

\* The titles up to i of a role's own.
OwnUpto(titles, r, i) == {j \in 1..i : titles[j] \in Own[r]}

\* Each role has a column of its own, if there is one among the first i.
Told(titles, cols, i) ==
  \A r \in RoleNames :
    IF OwnUpto(titles, r, i) = {} THEN cols[r] = 0 ELSE cols[r] \in OwnUpto(titles, r, i)

\* One title more, of which dates and descriptions have only one.
LEMMA ToldOn ==
  ASSUME NEW titles, NEW i \in Nat, NEW cols, DOMAIN cols = RoleNames, Told(titles, cols, i),
         titles[i + 1] \notin {"Dr/Cr", "Reference"},
         \A r \in {"date", "description"} :
           titles[i + 1] \in Own[r] => OwnUpto(titles, r, i) = {}
  PROVE  /\ Told(titles, Take(cols, titles[i + 1], i + 1), i + 1)
         /\ DOMAIN Take(cols, titles[i + 1], i + 1) = RoleNames
<1>1. PICK t, n, after : t = titles[i + 1] /\ n = i + 1 /\ after = Take(cols, t, n)
  OBVIOUS
<1>2. \A r \in RoleNames : OwnUpto(titles, r, n) =
        IF t \in Own[r] THEN OwnUpto(titles, r, i) \union {n} ELSE OwnUpto(titles, r, i)
  <2>1. 1..n = (1..i) \union {n} /\ n \notin 1..i
    BY <1>1
  <2> QED
    BY <1>1, <2>1 DEF OwnUpto
<1>3. \A r \in RoleNames : 0 \notin OwnUpto(titles, r, i)
  BY DEF OwnUpto
<1>4. ASSUME NEW r \in RoleNames, t \in Own[r], OwnUpto(titles, r, i) = {}
      PROVE  Told(titles, after, n) /\ DOMAIN after = RoleNames
  <2>1. PICK k \in 1..8 : Roles[k] = r
    BY RolesAre
  <2>2. cols[r] = 0
    BY <1>4 DEF Told
  <2>3. after = [cols EXCEPT ![r] = n]
    <3>1. cols[Roles[k]] = 0 /\ t \in Synonyms[Roles[k]]
      BY <1>4, <2>1, <2>2, TitlesMatch
    <3>2. \A l \in 1..8 : l < k => t \notin Synonyms[Roles[l]]
      BY <1>4, <2>1, TitlesMatch
    <3>3. \A l \in 1..8 : l < k => ~(cols[Roles[l]] = 0 /\ t \in Synonyms[Roles[l]])
      BY <3>2
    <3>4. Take(cols, t, n) = [cols EXCEPT ![Roles[k]] = n]
      BY <3>1, <3>3, TakeIs
    <3> QED
      BY <1>1, <2>1, <3>4
  <2>4. ASSUME NEW q \in RoleNames, q # r, t \in Own[q] PROVE FALSE
    <3>1. PICK l \in 1..8 : Roles[l] = q
      BY RolesAre
    <3>2. l < k \/ k < l
      BY <2>1, <2>4, <3>1
    <3> QED
      BY <1>4, <2>1, <2>4, <3>1, <3>2, TitlesMatch
  <2>5. ASSUME NEW q \in RoleNames
        PROVE  IF OwnUpto(titles, q, n) = {} THEN after[q] = 0 ELSE after[q] \in OwnUpto(titles, q, n)
    <3>1. CASE q = r
      BY <1>2, <1>4, <2>3, <3>1
    <3>2. CASE q # r
      <4>1. OwnUpto(titles, q, n) = OwnUpto(titles, q, i) /\ after[q] = cols[q]
        BY <1>2, <2>3, <2>4, <3>2
      <4> QED
        BY <4>1 DEF Told
    <3> QED
      BY <3>1, <3>2
  <2> QED
    BY <2>3, <2>5 DEF Told
<1>5. ASSUME NEW r \in RoleNames, t \in Own[r], OwnUpto(titles, r, i) # {}
      PROVE  Told(titles, after, n) /\ DOMAIN after = RoleNames
  <2>1. r \notin {"date", "description"}
    BY <1>1, <1>5
  <2>2. cols[r] # 0
    BY <1>3, <1>5 DEF Told
  <2>3. \A k \in 1..8 : ~(cols[Roles[k]] = 0 /\ t \in Synonyms[Roles[k]])
    BY <1>5, <2>1, <2>2, RolesAre, TitlesMatch
  <2>4. after = cols
    BY <1>1, <2>3, TakeIs
  <2>5. ASSUME NEW q \in RoleNames
        PROVE  IF OwnUpto(titles, q, n) = {} THEN cols[q] = 0 ELSE cols[q] \in OwnUpto(titles, q, n)
    <3>1. CASE q = r
      BY <1>2, <1>5, <3>1 DEF Told
    <3>2. CASE q # r
      <4>1. t \notin Own[q]
        BY <1>5, <2>1, <3>2, TitlesMatch
      <4> QED
        BY <1>2, <4>1 DEF Told
    <3> QED
      BY <3>1, <3>2
  <2> QED
    BY <2>4, <2>5 DEF Told
<1>6. ASSUME \A r \in RoleNames : t \notin Own[r]
      PROVE  Told(titles, after, n) /\ DOMAIN after = RoleNames
  <2>1. \A k \in 1..8 : t \notin Synonyms[Roles[k]]
    BY <1>1, <1>6, RolesAre, TitlesMatch
  <2>2. after = cols
    BY <1>1, <2>1, TakeIs
  <2>3. \A r \in RoleNames : OwnUpto(titles, r, n) = OwnUpto(titles, r, i)
    BY <1>2, <1>6
  <2> QED
    BY <2>2, <2>3 DEF Told
<1> QED
  BY <1>1, <1>4, <1>5, <1>6

\* A set of numbers up to n that has one element.
LEMMA OneIndex ==
  ASSUME NEW n \in Nat, NEW S \in SUBSET (1..n), Cardinality(S) = 1
  PROVE  \E x \in 1..n : S = {x}
<1>1. IsFiniteSet(S)
  <2>1. IsFiniteSet(1..n)
    BY FS_Interval
  <2> QED
    BY <2>1, FS_Subset
<1>2. PICK x : S = {x}
  BY <1>1, FS_Singleton
<1> QED
  BY <1>2

\* Where they are clear, each role has a column of its own if there is one.
LEMMA ColumnsTold ==
  ASSUME NEW style, IsStyle(style), ColumnsAreClear(style)
  PROVE  /\ \A r \in RoleNames :
              IF Titled(style, Own[r]) = {} THEN Columns(style.titles)[r] = 0
              ELSE Columns(style.titles)[r] \in Titled(style, Own[r])
         /\ \E d \in 1..Len(style.titles) : Titled(style, DateTitles) = {d}
         /\ \E x \in 1..Len(style.titles) : Titled(style, TextTitles) = {x}
<1>1. PICK titles, N : titles = style.titles /\ N = Len(titles)
  OBVIOUS
<1>2. titles \in Seq(STRING) /\ N \in Nat
  <2>1. titles \in Seq(STRING)
    BY <1>1 DEF IsStyle
  <2> QED
    BY <1>1, <2>1
<1>0. \A T : Titled(style, T) \in SUBSET (1..N)
  BY <1>1 DEF Titled
<1>3. PICK d \in 1..N : Titled(style, DateTitles) = {d}
  BY <1>2, <1>0, OneIndex DEF ColumnsAreClear
<1>4. PICK x \in 1..N : Titled(style, TextTitles \union {"Reference"}) = {x}
  BY <1>2, <1>0, OneIndex DEF ColumnsAreClear
<1>5. Titled(style, TextTitles) = {x}
  BY <1>4 DEF IsStyle, Titled
<1>6. ASSUME NEW j \in 1..N
      PROVE  titles[j] \notin {"Dr/Cr", "Reference"}
  <2>1. titles[j] # "Dr/Cr"
    BY <1>1 DEF ColumnsAreClear, Titled
  <2>2. ASSUME titles[j] = "Reference" PROVE FALSE
    <3>1. j = x
      BY <1>1, <1>4, <2>2 DEF Titled
    <3>2. titles[x] \in TextTitles
      BY <1>1, <1>5 DEF Titled
    <3> QED
      BY <2>2, <3>1, <3>2 DEF TextTitles
  <2> QED
    BY <2>1, <2>2
<1>7. PICK g : /\ g[0] = Untaken
               /\ \A i \in 1..N : g[i] = Take(g[i - 1], titles[i], i)
               /\ g[N]["description"] # 0 => Columns(titles) = g[N]
  BY <1>1, <1>2, ColumnsTaken
<1> DEFINE H == {i \in Nat : i <= N => Told(titles, g[i], i) /\ DOMAIN g[i] = RoleNames}
<1>8. 0 \in H
  <2>1. \A r \in RoleNames : OwnUpto(titles, r, 0) = {}
    BY DEF OwnUpto
  <2> QED
    BY <1>7, <2>1 DEF Told, Untaken
<1>9. ASSUME NEW i \in Nat, i \in H PROVE i + 1 \in H
  <2> SUFFICES ASSUME i + 1 <= N
               PROVE  Told(titles, g[i + 1], i + 1) /\ DOMAIN g[i + 1] = RoleNames
    OBVIOUS
  <2>1. i <= N /\ i + 1 \in 1..N /\ (i + 1) - 1 = i /\ \A j \in 1..i : j \in 1..N /\ j # i + 1
    BY <1>2
  <2>2. g[i + 1] = Take(g[i], titles[i + 1], i + 1)
    BY <1>7, <2>1
  <2>3. Told(titles, g[i], i) /\ DOMAIN g[i] = RoleNames
    BY <1>9, <2>1
  <2>4. titles[i + 1] \notin {"Dr/Cr", "Reference"}
    BY <1>6, <2>1
  <2>5. Own["date"] = DateTitles /\ Own["description"] = TextTitles
    BY DEF Own
  <2>6. ASSUME NEW r \in {"date", "description"}, titles[i + 1] \in Own[r] PROVE OwnUpto(titles, r, i) = {}
    <3>1. \E y : Titled(style, Own[r]) = {y}
      BY <1>3, <1>5, <2>5
    <3>2. \A j \in OwnUpto(titles, r, i) : j \in Titled(style, Own[r]) /\ j # i + 1
      BY <1>1, <2>1 DEF OwnUpto, Titled
    <3>3. i + 1 \in Titled(style, Own[r])
      BY <1>1, <2>1, <2>6 DEF Titled
    <3> QED
      BY <3>1, <3>2, <3>3
  <2> QED
    BY <2>2, <2>3, <2>4, <2>6, ToldOn
<1> HIDE DEF H
<1>10. Told(titles, g[N], N)
  <2>1. N \in H
    BY <1>2, <1>8, <1>9, NumbersByInduction
  <2> QED
    BY <1>2, <2>1 DEF H
<1>11. \A r \in RoleNames : OwnUpto(titles, r, N) = Titled(style, Own[r])
  BY <1>1 DEF OwnUpto, Titled
<1>12. Columns(titles) = g[N]
  <2>1. "description" \in RoleNames /\ Own["description"] = TextTitles
    BY DEF RoleNames, Synonyms, Own
  <2>2. g[N]["description"] \in {x}
    BY <1>5, <1>10, <1>11, <2>1 DEF Told
  <2> QED
    BY <1>7, <2>2
<1> QED
  BY <1>1, <1>3, <1>5, <1>10, <1>11, <1>12 DEF Told

-----------------------------------------------------------------------------
(* What is read of a statement: cells *)

\* What is in a printed row is one cell for each title.
LEMMA RowPrinted ==
  ASSUME NEW style, IsStyle(style), NEW m
  PROVE  /\ Len(style.titles) \in Nat
         /\ DOMAIN PrintedRow(style, m) = 1..Len(style.titles) /\ Len(PrintedRow(style, m)) = Len(style.titles)
         /\ \A i \in 1..Len(style.titles) :
              /\ PrintedRow(style, m)[i] = PrintedCell(style, m, style.titles[i])
              /\ Cell(PrintedRow(style, m), i) = PrintedCell(style, m, style.titles[i])
         /\ Cell(PrintedRow(style, m), 0) = Blank
<1>1. style.titles \in Seq(STRING)
  BY DEF IsStyle
<1>2. Len(style.titles) \in Nat
  BY <1>1
<1>3. PICK row : row = PrintedRow(style, m)
  OBVIOUS
<1>4. row = [i \in 1..Len(style.titles) |-> PrintedCell(style, m, style.titles[i])]
  BY <1>3 DEF PrintedRow
<1>5. DOMAIN row = 1..Len(style.titles) /\ Len(row) = Len(style.titles)
  BY <1>2, <1>4
<1>6. 0 \notin 1..Len(row)
  BY <1>2, <1>5
<1> QED
  BY <1>2, <1>3, <1>4, <1>5, <1>6 DEF Cell

\* What is printed under each title.
LEMMA CellsPrinted ==
  ASSUME NEW style, NEW m, NEW title
  PROVE  /\ title \in DateTitles => PrintedCell(style, m, title) = PrintedDate(style, m)
         /\ title \in TextTitles => PrintedCell(style, m, title) = Text(m.name)
         /\ title \in OutTitles => PrintedCell(style, m, title) =
              IF m.cents < 0 THEN PrintedNumber(style, m, FALSE) ELSE Other(style)
         /\ title \in InTitles => PrintedCell(style, m, title) =
              IF m.cents > 0 THEN PrintedNumber(style, m, FALSE) ELSE Other(style)
         /\ title = "Amount" => PrintedCell(style, m, title) =
              PrintedNumber(style, m, CASE style.signs = "minus"    -> m.cents < 0
                                        [] style.signs = "inverted" -> m.cents > 0
                                        [] OTHER                    -> FALSE)
         /\ title = "Type" /\ style.signs # "words" =>
              PrintedCell(style, m, title) = CategoryCell(Mentions[m.name])
         /\ title \in {"Type", "Dr/Cr"} /\ style.signs = "words" =>
              PrintedCell(style, m, title) = Indicator(IF m.cents < 0 THEN "DR" ELSE "CR")
         /\ title = "Currency" => PrintedCell(style, m, title) = CurrencyCell(style.currency)
         /\ title = "Balance" =>
              PrintedCell(style, m, title) = Number(Size(m.balance), m.balance < 0, style.mark)
         /\ title \notin DateTitles \union TextTitles \union OutTitles \union InTitles
                           \union {"Amount", "Type", "Dr/Cr", "Currency", "Balance"} =>
              PrintedCell(style, m, title) = Blank
<1> USE DEF DateTitles, TextTitles, OutTitles, InTitles
<1>1. title \in DateTitles => PrintedCell(style, m, title) = PrintedDate(style, m)
  BY DEF PrintedCell
<1>2. title \in TextTitles => PrintedCell(style, m, title) = Text(m.name)
  BY DEF PrintedCell
<1>3. title \in OutTitles => PrintedCell(style, m, title) =
        IF m.cents < 0 THEN PrintedNumber(style, m, FALSE) ELSE Other(style)
  BY DEF PrintedCell
<1>4. title \in InTitles => PrintedCell(style, m, title) =
        IF m.cents > 0 THEN PrintedNumber(style, m, FALSE) ELSE Other(style)
  BY DEF PrintedCell
<1>5. title = "Amount" => PrintedCell(style, m, title) =
        PrintedNumber(style, m, CASE style.signs = "minus"    -> m.cents < 0
                                  [] style.signs = "inverted" -> m.cents > 0
                                  [] OTHER                    -> FALSE)
  BY DEF PrintedCell
<1>6. title = "Type" /\ style.signs # "words" =>
        PrintedCell(style, m, title) = CategoryCell(Mentions[m.name])
  BY DEF PrintedCell
<1>7. title \in {"Type", "Dr/Cr"} /\ style.signs = "words" =>
        PrintedCell(style, m, title) = Indicator(IF m.cents < 0 THEN "DR" ELSE "CR")
  BY DEF PrintedCell
<1>8. title = "Currency" => PrintedCell(style, m, title) = CurrencyCell(style.currency)
  BY DEF PrintedCell
<1>9. title = "Balance" =>
        PrintedCell(style, m, title) = Number(Size(m.balance), m.balance < 0, style.mark)
  BY DEF PrintedCell
<1>10. title \notin DateTitles \union TextTitles \union OutTitles \union InTitles
                      \union {"Amount", "Type", "Dr/Cr", "Currency", "Balance"} =>
         PrintedCell(style, m, title) = Blank
  BY DEF PrintedCell
<1> QED
  BY <1>1, <1>2, <1>3, <1>4, <1>5, <1>6, <1>7, <1>8, <1>9, <1>10

-----------------------------------------------------------------------------
(* What is read of a statement: dates *)

Slashed(dayFirst) == [sep |-> "slash", dayFirst |-> dayFirst]

\* The formats that are tried, the one that was told first.
LEMMA FormatsAre ==
  ASSUME NEW F, NEW formats, formats = Formats(F)
  PROVE  /\ Len(formats) = 6
         /\ formats[1] = F /\ formats[2] = Iso /\ formats[3] = Slashed(TRUE) /\ formats[4] = Slashed(FALSE)
         /\ formats[5] = [sep |-> "hyphen", dayFirst |-> TRUE] /\ formats[6] = [sep |-> "dot", dayFirst |-> TRUE]
<1>1. PICK hyphens, dots : hyphens = [sep |-> "hyphen", dayFirst |-> TRUE] /\ dots = [sep |-> "dot", dayFirst |-> TRUE]
  OBVIOUS
<1>2. PICK one, two, three : one = Iso /\ two = Slashed(TRUE) /\ three = Slashed(FALSE)
  OBVIOUS
<1>3. FallbackFormats = <<one, two, three, hyphens, dots>> /\ formats = <<F>> \o FallbackFormats
  BY <1>1, <1>2 DEF FallbackFormats, Slashed, Formats
<1>4. PICK S : S = {F, one, two, three, hyphens, dots}
  OBVIOUS
<1>5. <<F>> \in Seq(S) /\ <<one, two, three, hyphens, dots>> \in Seq(S)
  BY <1>4
<1>6. Len(<<F>>) = 1 /\ Len(<<one, two, three, hyphens, dots>>) = 5
  OBVIOUS
<1>7. /\ Len(formats) = 6
      /\ \A k \in 1..6 : formats[k] = IF k <= 1 THEN <<F>>[k] ELSE <<one, two, three, hyphens, dots>>[k - 1]
  BY <1>3, <1>5, <1>6, ConcatProperties
<1>8. /\ formats[1] = F /\ formats[2] = one /\ formats[3] = two /\ formats[4] = three
      /\ formats[5] = hyphens /\ formats[6] = dots
  BY <1>7
<1> QED
  BY <1>1, <1>2, <1>7, <1>8

ReadAs(c, format) ==
  IF format.dayFirst THEN [month |-> c.second, day |-> c.first] ELSE [month |-> c.first, day |-> c.second]

\* Format k is the first that the date fits.
FitsFirst(c, formats, k) == Fits(c, formats[k]) /\ \A l \in 1..6 : l < k => ~Fits(c, formats[l])

\* A date is read in the first format that it fits.
LEMMA FirstFormat ==
  ASSUME NEW c, c.kind = "date", NEW F, NEW formats, formats = Formats(F),
         NEW k \in 1..6, FitsFirst(c, formats, k)
  PROVE  ParseDate(c, F) = {ReadAs(c, formats[k])}
<1>1. Len(formats) = 6
  BY FormatsAre
<1>2. PICK I : I = {i \in 1..Len(formats) : Fits(c, formats[i])}
  OBVIOUS
<1>3. k \in I /\ \A l \in I : l \in Int /\ k \in Int /\ k <= l
  BY <1>1, <1>2 DEF FitsFirst
<1>4. Min(I) = k
  <2>1. \A x \in I : (\A y \in I : x <= y) <=> x = k
    BY <1>3
  <2>2. Min(I) = CHOOSE x \in I : x = k
    BY <2>1 DEF Min
  <2> QED
    BY <1>3, <2>2
<1>5. ParseDate(c, F) = LET i == IF I # {} THEN Min(I) ELSE 0
                        IN  IF i = 0 THEN {} ELSE {ReadAs(c, formats[i])}
  BY <1>2 DEF ParseDate, SelectInSeq, ReadAs
<1>6. I # {} /\ k # 0
  BY <1>3
<1> QED
  BY <1>4, <1>5, <1>6

\* What a printed date is.
LEMMA DatePrinted ==
  ASSUME NEW style, NEW m \in Movement
  PROVE  /\ m.day \in 1..31 /\ m.month \in 1..12 /\ m.cents \in Int /\ m.cents # 0
         /\ PrintedDate(style, m).kind = "date" /\ PrintedDate(style, m).sep = style.sep
         /\ PrintedDate(style, m).first = IF style.order = "DMY" THEN m.day ELSE m.month
         /\ PrintedDate(style, m).second = IF style.order = "DMY" THEN m.month ELSE m.day
BY DEF Movement, Amounts, PrintedDate, DateCell

\* The format told from the first rows is one of the bank's, or none.
LEMMA FormatTold ==
  ASSUME NEW style, IsStyle(style), NEW d \in 1..Len(style.titles), style.titles[d] \in DateTitles,
         NEW ms \in Seq(Movement), NEW rows, rows = [i \in 1..Len(ms) |-> PrintedRow(style, ms[i])]
  PROVE  LET F == DetectDateFormat(rows, d)
         IN  /\ \/ F = Iso
                \/ style.order = "DMY" /\ F = Slashed(TRUE)
                \/ style.order = "MDY" /\ F = Slashed(FALSE)
             /\ style.order = "MDY" /\ (\E j \in 1..Len(ms) : j <= Sampled /\ ms[j].day > 12) =>
                  F = Slashed(FALSE)
<1>1. Len(ms) \in Nat /\ Len(rows) = Len(ms) /\ \A j \in 1..Len(ms) : ms[j] \in Movement
  OBVIOUS
<1>2. ASSUME NEW j \in 1..Len(ms) PROVE Cell(rows[j], d) = PrintedDate(style, ms[j])
  <2>1. rows[j] = PrintedRow(style, ms[j])
    OBVIOUS
  <2>2. Cell(rows[j], d) = PrintedCell(style, ms[j], style.titles[d])
    BY <2>1, RowPrinted
  <2> QED
    BY <2>2, CellsPrinted
<1>3. PICK sample : sample = {j \in 1..Len(ms) : j <= Sampled /\ Decides(PrintedDate(style, ms[j]))}
  OBVIOUS
<1>4. {i \in 1..Len(rows) : i <= Sampled /\ Decides(Cell(rows[i], d))} = sample
  BY <1>1, <1>2, <1>3
<1>5. PICK F, i : F = DetectDateFormat(rows, d) /\ i = CHOOSE x \in sample : \A y \in sample : x <= y
  OBVIOUS
<1>6. F = LET first == Cell(rows[i], d)
          IN  IF sample = {} \/ first.sep = "iso" THEN Iso ELSE [sep |-> "slash", dayFirst |-> first.first > 12]
  BY <1>4, <1>5 DEF DetectDateFormat
<1>7. sample # {} => i \in sample
  <2>1. sample \in SUBSET Nat
    BY <1>1, <1>3
  <2> QED
    BY <1>5, <2>1, LeastNatural
<1>8. (style.order \in {"DMY", "MDY"} /\ style.sep # "iso") \/ (style.order = "YMD" /\ style.sep = "iso")
  BY DEF IsStyle
<1>9. ASSUME sample # {}, style.sep # "iso"
      PROVE  F = Slashed(style.order = "DMY")
  <2>1. PICK m : m = ms[i] /\ m \in Movement /\ Decides(PrintedDate(style, m)) /\ Cell(rows[i], d) = PrintedDate(style, m)
    BY <1>1, <1>2, <1>3, <1>7, <1>9
  <2>2. F = Slashed(PrintedDate(style, m).first > 12)
    BY <1>6, <1>9, <2>1, DatePrinted DEF Slashed
  <2>3. PrintedDate(style, m).first > 12 <=> style.order = "DMY"
    <3>1. PrintedDate(style, m).first > 12 \/ PrintedDate(style, m).second > 12
      BY <1>9, <2>1, DatePrinted DEF Decides
    <3>2. m.day \in 1..31 /\ m.month \in 1..12
      BY <2>1, DatePrinted
    <3>3. PICK first, second : first = PrintedDate(style, m).first /\ second = PrintedDate(style, m).second
      OBVIOUS
    <3>4. /\ first = IF style.order = "DMY" THEN m.day ELSE m.month
          /\ second = IF style.order = "DMY" THEN m.month ELSE m.day
      BY <2>1, <3>3, DatePrinted
    <3>5. first > 12 \/ second > 12
      BY <3>1, <3>3
    <3>6. CASE style.order = "DMY"
      BY <3>2, <3>3, <3>4, <3>5, <3>6
    <3>7. CASE style.order # "DMY"
      BY <3>2, <3>3, <3>4, <3>5, <3>7
    <3> QED
      BY <3>6, <3>7
  <2>4. (PrintedDate(style, m).first > 12) = (style.order = "DMY")
    BY <2>3
  <2> QED
    BY <2>2, <2>4
<1>10. \/ F = Iso
       \/ style.order = "DMY" /\ F = Slashed(TRUE)
       \/ style.order = "MDY" /\ F = Slashed(FALSE)
  <2>1. CASE sample = {}
    BY <1>6, <2>1
  <2>2. CASE sample # {} /\ style.sep = "iso"
    <3>1. Cell(rows[i], d).sep = "iso"
      BY <1>1, <1>2, <1>3, <1>7, <2>2, DatePrinted
    <3> QED
      BY <1>6, <3>1
  <2>3. CASE sample # {} /\ style.sep # "iso"
    BY <1>8, <1>9, <2>3
  <2> QED
    BY <2>1, <2>2, <2>3
<1>11. ASSUME style.order = "MDY", NEW j \in 1..Len(ms), j <= Sampled, ms[j].day > 12
       PROVE  F = Slashed(FALSE)
  <2>1. Decides(PrintedDate(style, ms[j]))
    <3>1. ms[j] \in Movement /\ style.order # "DMY"
      BY <1>1, <1>11
    <3>2. PrintedDate(style, ms[j]).kind = "date" /\ PrintedDate(style, ms[j]).second > 12
      BY <1>11, <3>1, DatePrinted
    <3> QED
      BY <3>2 DEF Decides
  <2>2. sample # {} /\ style.sep # "iso"
    BY <1>3, <1>8, <1>11, <2>1
  <2>3. (style.order = "DMY") = FALSE
    BY <1>11
  <2> QED
    BY <1>9, <2>2, <2>3
<1> QED
  BY <1>5, <1>10, <1>11

\* A date printed in some order, and a format told of it or of others.
Telling(day, month, order, sep, F, c, first, second) ==
  /\ day \in 1..31 /\ month \in 1..12 /\ c.sep = sep /\ c.first = first /\ c.second = second
  /\ order = "DMY" => first = day /\ second = month
  /\ order # "DMY" => first = month /\ second = day
  /\ F = Iso \/ (order = "DMY" /\ F = Slashed(TRUE)) \/ (order = "MDY" /\ F = Slashed(FALSE))
  /\ (order \in {"DMY", "MDY"} /\ sep \in {"slash", "hyphen", "dot"}) \/ (order = "YMD" /\ sep = "iso")
  /\ order # "MDY" \/ day = month \/ (sep = "slash" /\ (day > 12 \/ F = Slashed(FALSE)))

\* Of the formats, the first that fits a date reads it as it was meant, if one that
\* has the month first can be told to be such.
LEMMA SomeFormatFits ==
  ASSUME NEW day, NEW month, NEW order, NEW sep, NEW F, NEW formats, NEW c, NEW first, NEW second,
         Telling(day, month, order, sep, F, c, first, second), formats = Formats(F)
  PROVE  \E k \in 1..6 : FitsFirst(c, formats, k) /\ ReadAs(c, formats[k]) = [month |-> month, day |-> day]
<1> USE DEF Telling
<1>1. /\ formats[1] = F /\ formats[2] = Iso /\ formats[3] = Slashed(TRUE) /\ formats[4] = Slashed(FALSE)
      /\ formats[5] = [sep |-> "hyphen", dayFirst |-> TRUE] /\ formats[6] = [sep |-> "dot", dayFirst |-> TRUE]
  BY FormatsAre
<1>2. /\ Fits(c, Iso) <=> sep = "iso" /\ first <= 12
      /\ Fits(c, Slashed(TRUE)) <=> sep = "slash" /\ second <= 12
      /\ Fits(c, Slashed(FALSE)) <=> sep = "slash" /\ first <= 12
      /\ Fits(c, formats[5]) <=> sep = "hyphen" /\ second <= 12
      /\ Fits(c, formats[6]) <=> sep = "dot" /\ second <= 12
  BY <1>1 DEF Fits, Iso, Slashed
<1>3. /\ ReadAs(c, Iso) = [month |-> first, day |-> second]
      /\ ReadAs(c, Slashed(TRUE)) = [month |-> second, day |-> first]
      /\ ReadAs(c, Slashed(FALSE)) = [month |-> first, day |-> second]
      /\ ReadAs(c, formats[5]) = [month |-> second, day |-> first]
      /\ ReadAs(c, formats[6]) = [month |-> second, day |-> first]
  BY <1>1 DEF ReadAs, Iso, Slashed
<1>4. /\ \A k \in 1..6 : k < 1 => FALSE
      /\ \A k \in 1..6 : k < 3 => k = 1 \/ k = 2
      /\ \A k \in 1..6 : k < 4 => k = 1 \/ k = 2 \/ k = 3
      /\ \A k \in 1..6 : k < 5 => k = 1 \/ k = 2 \/ k = 3 \/ k = 4
      /\ \A k \in 1..6 : k < 6 => k = 1 \/ k = 2 \/ k = 3 \/ k = 4 \/ k = 5
  OBVIOUS
<1>5. month <= 12 /\ (day > 12 => ~(day <= 12))
  OBVIOUS
<1>6. /\ Fits(c, F) => FitsFirst(c, formats, 1)
      /\ ~Fits(c, F) /\ ~Fits(c, Iso) /\ Fits(c, Slashed(TRUE)) => FitsFirst(c, formats, 3)
      /\ ~Fits(c, F) /\ ~Fits(c, Iso) /\ ~Fits(c, Slashed(TRUE)) /\ Fits(c, Slashed(FALSE)) => FitsFirst(c, formats, 4)
      /\ /\ ~Fits(c, F) /\ ~Fits(c, Iso) /\ ~Fits(c, Slashed(TRUE)) /\ ~Fits(c, Slashed(FALSE))
         /\ Fits(c, formats[5])
         => FitsFirst(c, formats, 5)
      /\ /\ ~Fits(c, F) /\ ~Fits(c, Iso) /\ ~Fits(c, Slashed(TRUE)) /\ ~Fits(c, Slashed(FALSE))
         /\ ~Fits(c, formats[5]) /\ Fits(c, formats[6])
         => FitsFirst(c, formats, 6)
  BY <1>1, <1>4, Zenon DEF FitsFirst
<1>7. CASE sep = "iso"
  <2>1. F = Iso /\ first = month /\ second = day
    BY <1>7
  <2>2. Fits(c, F)
    BY <1>2, <1>5, <1>7, <2>1
  <2> QED
    BY <1>1, <1>3, <1>6, <2>1, <2>2
<1>8. CASE sep = "slash" /\ order = "DMY"
  <2>1. first = day /\ second = month /\ (F = Iso \/ F = Slashed(TRUE))
    BY <1>8
  <2>2. ~Fits(c, Iso) /\ Fits(c, Slashed(TRUE))
    BY <1>2, <1>5, <1>8, <2>1
  <2>3. (FitsFirst(c, formats, 1) /\ F = Slashed(TRUE)) \/ FitsFirst(c, formats, 3)
    BY <1>6, <2>1, <2>2
  <2>4. ReadAs(c, Slashed(TRUE)) = [month |-> month, day |-> day]
    BY <1>3, <2>1
  <2>5. CASE FitsFirst(c, formats, 1) /\ F = Slashed(TRUE)
    <3>1. ReadAs(c, formats[1]) = [month |-> month, day |-> day]
      BY <1>1, <2>4, <2>5, Zenon
    <3>2. 1 \in 1..6
      OBVIOUS
    <3> QED
      BY <2>5, <3>1, <3>2, Zenon
  <2>6. CASE FitsFirst(c, formats, 3)
    <3>1. ReadAs(c, formats[3]) = [month |-> month, day |-> day]
      BY <1>1, <2>4, Zenon
    <3>2. 3 \in 1..6
      OBVIOUS
    <3> QED
      BY <2>6, <3>1, <3>2, Zenon
  <2> QED
    BY <2>3, <2>5, <2>6
<1>9. CASE sep = "slash" /\ order = "MDY"
  <2>1. first = month /\ second = day
    BY <1>9
  <2>2. ~Fits(c, Iso) /\ Fits(c, Slashed(FALSE))
    BY <1>2, <1>5, <1>9, <2>1
  <2>3. ReadAs(c, Slashed(FALSE)) = [month |-> month, day |-> day]
    BY <1>3, <2>1
  <2>4. CASE F = Slashed(FALSE)
    <3>1. FitsFirst(c, formats, 1)
      BY <1>6, <2>2, <2>4
    <3> QED
      <4>1. ReadAs(c, formats[1]) = [month |-> month, day |-> day]
        BY <1>1, <2>3, <2>4, Zenon
      <4>2. 1 \in 1..6
        OBVIOUS
      <4> QED
        BY <3>1, <4>1, <4>2, Zenon
  <2>5. CASE F = Iso /\ day > 12
    <3>1. ~Fits(c, Slashed(TRUE))
      BY <1>2, <1>5, <2>1, <2>5
    <3>2. FitsFirst(c, formats, 4)
      BY <1>6, <2>2, <2>5, <3>1
    <3> QED
      <4>1. ReadAs(c, formats[4]) = [month |-> month, day |-> day]
        BY <1>1, <2>3, Zenon
      <4>2. 4 \in 1..6
        OBVIOUS
      <4> QED
        BY <3>2, <4>1, <4>2, Zenon
  <2>6. CASE F = Iso /\ day = month
    <3>1. Fits(c, Slashed(TRUE))
      BY <1>2, <1>5, <1>9, <2>1, <2>6
    <3>2. FitsFirst(c, formats, 3)
      BY <1>6, <2>2, <2>6, <3>1
    <3>3. ReadAs(c, Slashed(TRUE)) = [month |-> month, day |-> day]
      BY <1>3, <2>1, <2>6
    <3> QED
      <4>1. ReadAs(c, formats[3]) = [month |-> month, day |-> day]
        BY <1>1, <3>3, Zenon
      <4>2. 3 \in 1..6
        OBVIOUS
      <4> QED
        BY <3>2, <4>1, <4>2, Zenon
  <2>7. F = Slashed(FALSE) \/ (F = Iso /\ (day = month \/ day > 12))
    BY <1>9
  <2> QED
    BY <2>4, <2>5, <2>6, <2>7
<1>10. CASE sep \in {"hyphen", "dot"}
  <2>1. first = day /\ second = month
    BY <1>10
  <2>2. ~Fits(c, F) /\ ~Fits(c, Iso) /\ ~Fits(c, Slashed(TRUE)) /\ ~Fits(c, Slashed(FALSE))
    BY <1>2, <1>10
  <2>3. CASE sep = "hyphen"
    <3>1. Fits(c, formats[5])
      BY <1>2, <1>5, <2>1, <2>3
    <3>2. FitsFirst(c, formats, 5)
      BY <1>6, <2>2, <3>1
    <3>3. ReadAs(c, formats[5]) = [month |-> month, day |-> day]
      BY <1>3, <2>1
    <3> QED
      BY <3>2, <3>3
  <2>4. CASE sep = "dot"
    <3>1. ~Fits(c, formats[5]) /\ Fits(c, formats[6])
      BY <1>2, <1>5, <2>1, <2>4
    <3>2. FitsFirst(c, formats, 6)
      BY <1>6, <2>2, <3>1
    <3>3. ReadAs(c, formats[6]) = [month |-> month, day |-> day]
      BY <1>3, <2>1
    <3> QED
      BY <3>2, <3>3
  <2> QED
    BY <1>10, <2>3, <2>4
<1> QED
  BY <1>7, <1>8, <1>9, <1>10

\* A clear date is read as it was meant, whatever the format told from the others.
LEMMA DateRead ==
  ASSUME NEW style, IsStyle(style), NEW d \in 1..Len(style.titles), style.titles[d] \in DateTitles,
         NEW ms \in Seq(Movement), NEW rows, rows = [i \in 1..Len(ms) |-> PrintedRow(style, ms[i])],
         NEW i \in 1..Len(ms), DateIsClear(style, ms, i)
  PROVE  ParseDate(Cell(rows[i], d), DetectDateFormat(rows, d)) = {[month |-> ms[i].month, day |-> ms[i].day]}
<1>1. PICK m, c, F : m = ms[i] /\ c = PrintedDate(style, m) /\ F = DetectDateFormat(rows, d)
  OBVIOUS
<1>2. m \in Movement /\ Cell(rows[i], d) = c
  <2>1. rows[i] = PrintedRow(style, m) /\ m \in Movement
    BY <1>1
  <2>2. Cell(rows[i], d) = PrintedCell(style, m, style.titles[d])
    BY <2>1, RowPrinted
  <2> QED
    BY <1>1, <2>1, <2>2, CellsPrinted
<1>3. /\ m.day \in 1..31 /\ m.month \in 1..12 /\ c.kind = "date" /\ c.sep = style.sep
      /\ c.first = IF style.order = "DMY" THEN m.day ELSE m.month
      /\ c.second = IF style.order = "DMY" THEN m.month ELSE m.day
  BY <1>1, <1>2, DatePrinted
<1>4. PICK formats : formats = Formats(F)
  OBVIOUS
<1>5. F = Iso \/ (style.order = "DMY" /\ F = Slashed(TRUE)) \/ (style.order = "MDY" /\ F = Slashed(FALSE))
  BY <1>1, FormatTold
<1>6. \/ style.order \in {"DMY", "MDY"} /\ style.sep \in {"slash", "hyphen", "dot"}
      \/ style.order = "YMD" /\ style.sep = "iso"
  BY DEF IsStyle
<1>7. style.order # "MDY" \/ m.day = m.month \/ (style.sep = "slash" /\ (m.day > 12 \/ F = Slashed(FALSE)))
  BY <1>1, FormatTold DEF DateIsClear
<1>8. PICK k \in 1..6 : FitsFirst(c, formats, k) /\ ReadAs(c, formats[k]) = [month |-> m.month, day |-> m.day]
  <2>1. PICK day, month, order, sep, first, second :
           /\ day = m.day /\ month = m.month /\ order = style.order /\ sep = style.sep
           /\ first = c.first /\ second = c.second
    OBVIOUS
  <2>2. day \in 1..31 /\ month \in 1..12 /\ c.sep = sep
    BY <1>3, <2>1
  <2>3. (order = "DMY" => first = day /\ second = month) /\ (order # "DMY" => first = month /\ second = day)
    BY <1>3, <2>1
  <2>4. /\ F = Iso \/ (order = "DMY" /\ F = Slashed(TRUE)) \/ (order = "MDY" /\ F = Slashed(FALSE))
        /\ (order \in {"DMY", "MDY"} /\ sep \in {"slash", "hyphen", "dot"}) \/ (order = "YMD" /\ sep = "iso")
        /\ order # "MDY" \/ day = month \/ (sep = "slash" /\ (day > 12 \/ F = Slashed(FALSE)))
    BY <1>5, <1>6, <1>7, <2>1
  <2>5. Telling(day, month, order, sep, F, c, first, second)
    BY <2>1, <2>2, <2>3, <2>4 DEF Telling
  <2>6. \E k \in 1..6 : FitsFirst(c, formats, k) /\ ReadAs(c, formats[k]) = [month |-> month, day |-> day]
    BY <1>4, <2>5, SomeFormatFits
  <2> QED
    BY <2>1, <2>6
<1>9. ParseDate(c, F) = {ReadAs(c, formats[k])}
  BY <1>3, <1>4, <1>8, FirstFormat
<1> QED
  BY <1>1, <1>2, <1>8, <1>9

-----------------------------------------------------------------------------
(* What is read of a statement: amounts *)

\* What is read of a printed number.
LEMMA NumberRead ==
  ASSUME NEW style, style.mark = "point", NEW m \in Movement, NEW negative \in BOOLEAN
  PROVE  ParseCleanDecimal(PrintedNumber(style, m, negative)) =
           {IF negative THEN -(Size(m.cents) * 100) ELSE Size(m.cents) * 100}
<1>1. PICK c : c = PrintedNumber(style, m, negative)
  OBVIOUS
<1>2. c.kind = "number" /\ c.mark = "point" /\ c.cents = Size(m.cents) /\ c.negative = negative
  BY <1>1 DEF PrintedNumber, Number
<1>3. ParseCleanDecimal(c) = {IF negative THEN -(Size(m.cents) * 100) ELSE Size(m.cents) * 100}
  BY <1>2 DEF ParseCleanDecimal
<1> QED
  BY <1>1, <1>3

\* Nothing, or zero, is read of the column that does not apply.
LEMMA OtherRead ==
  ASSUME NEW style, style.mark = "point"
  PROVE  ParseCleanDecimal(Other(style)) \ {0} = {}
<1>1. PICK c : c = Other(style)
  OBVIOUS
<1>2. c.kind = "blank" \/ (c.kind = "number" /\ c.mark = "point" /\ c.cents = 0 /\ c.negative = FALSE)
  BY <1>1 DEF Other, Blank, Number
<1>3. ParseCleanDecimal(c) \ {0} = {}
  BY <1>2 DEF ParseCleanDecimal
<1> QED
  BY <1>1, <1>3

\* The size of an amount in the finer unit.
LEMMA SizeScales ==
  ASSUME NEW c \in Int, c # 0
  PROVE  LET a == Size(c) * 100
         IN  /\ a \in Int /\ a # 0 /\ Size(a) = a /\ Size(-a) = a
             /\ c < 0 => -a = c * 100
             /\ ~(c < 0) => a = c * 100
BY DEF Size

\* What the one or two columns of amounts hold.
Unsigned(style, m) == PrintedNumber(style, m, FALSE)

Signed(style, m) ==
  PrintedNumber(style, m, CASE style.signs = "minus"    -> m.cents < 0
                            [] style.signs = "inverted" -> m.cents > 0
                            [] OTHER                    -> FALSE)

\* Of two columns, the one that is not empty tells the direction.
LEMMA TwoColumnsRead ==
  ASSUME NEW style, style.mark = "point", NEW m \in Movement, NEW debit, NEW credit,
         debit = IF m.cents < 0 THEN Unsigned(style, m) ELSE Other(style),
         credit = IF m.cents > 0 THEN Unsigned(style, m) ELSE Other(style)
  PROVE  TwoColumnAmount(debit, credit) = [status |-> "verified", amount |-> m.cents * 100]
<1>1. m.cents \in Int /\ m.cents # 0
  BY DatePrinted
<1>2. PICK a : a = Size(m.cents) * 100
  OBVIOUS
<1>3. PICK out, in : out = ParseCleanDecimal(debit) \ {0} /\ in = ParseCleanDecimal(credit) \ {0}
  OBVIOUS
<1>4. /\ ParseCleanDecimal(Unsigned(style, m)) = {a}
      /\ ParseCleanDecimal(Other(style)) \ {0} = {}
  <2>1. PICK c : c = Unsigned(style, m)
    OBVIOUS
  <2>2. c.kind = "number" /\ c.mark = "point" /\ c.cents = Size(m.cents) /\ c.negative = FALSE
    BY <2>1 DEF Unsigned, PrintedNumber, Number
  <2>3. ParseCleanDecimal(c) = {Size(m.cents) * 100}
    BY <2>2 DEF ParseCleanDecimal
  <2> QED
    BY <1>2, <2>1, <2>3, OtherRead
<1>5. a \in Int /\ a # 0 /\ Size(a) = a /\ (m.cents < 0 => -a = m.cents * 100) /\ (~(m.cents < 0) => a = m.cents * 100)
  BY <1>1, <1>2, SizeScales
<1>6. CASE m.cents < 0
  <2>1. out = {a} /\ in = {}
    <3>1. debit = Unsigned(style, m) /\ credit = Other(style)
      BY <1>1, <1>6
    <3> QED
      BY <1>3, <1>4, <1>5, <3>1
  <2>2. (CHOOSE x \in out : TRUE) = a
    BY <2>1
  <2>3. TwoColumnAmount(debit, credit) = [status |-> "verified", amount |-> -Size(a)]
    BY <1>3, <2>1, <2>2 DEF TwoColumnAmount
  <2> QED
    BY <1>5, <1>6, <2>3
<1>7. CASE ~(m.cents < 0)
  <2>1. out = {} /\ in = {a}
    <3>1. debit = Other(style) /\ credit = Unsigned(style, m)
      BY <1>1, <1>7
    <3> QED
      BY <1>3, <1>4, <1>5, <3>1
  <2>2. (CHOOSE x \in in : TRUE) = a
    BY <2>1
  <2>3. TwoColumnAmount(debit, credit) = [status |-> "verified", amount |-> Size(a)]
    BY <1>3, <2>1, <2>2 DEF TwoColumnAmount
  <2> QED
    BY <1>5, <1>7, <2>3
<1> QED
  BY <1>6, <1>7

\* The words of one cell.
WordsOf(c) ==
  CASE c.kind = "text" -> Mentions[c.name] \intersect {"DR", "CR"}
    [] c.kind = "indicator" -> {c.word}
    [] OTHER -> {}

\* The word of a movement's direction.
WordOf(m) == IF m.cents < 0 THEN "DR" ELSE "CR"

\* The words of a printed cell.
LEMMA CellsWorded ==
  ASSUME NEW style, NEW m, NEW title, title # "Dr/Cr"
  PROVE  WordsOf(PrintedCell(style, m, title)) =
           IF title \in TextTitles THEN Mentions[m.name] \intersect {"DR", "CR"}
           ELSE IF title = "Type" /\ style.signs = "words" THEN {WordOf(m)} ELSE {}
<1>1. PICK c : c = PrintedCell(style, m, title)
  OBVIOUS
<1>2. CASE title \in TextTitles
  <2>1. c = Text(m.name)
    BY <1>1, <1>2, CellsPrinted
  <2>2. c.kind = "text" /\ c.name = m.name
    BY <2>1 DEF Text
  <2> QED
    BY <1>1, <1>2, <2>2 DEF WordsOf
<1>3. CASE title = "Type" /\ style.signs = "words"
  <2>1. c = Indicator(WordOf(m))
    BY <1>1, <1>3, CellsPrinted DEF WordOf
  <2>2. c.kind = "indicator" /\ c.word = WordOf(m)
    BY <2>1 DEF Indicator
  <2>3. title \notin TextTitles
    BY <1>3 DEF TextTitles
  <2> QED
    BY <1>1, <1>3, <2>2, <2>3 DEF WordsOf
<1>4. CASE title \notin TextTitles /\ ~(title = "Type" /\ style.signs = "words")
  <2>1. c.kind \notin {"text", "indicator"}
    <3>1. CASE title \in DateTitles
      <4>1. c = PrintedDate(style, m)
        BY <1>1, <3>1, CellsPrinted
      <4> QED
        BY <4>1 DEF PrintedDate, DateCell
    <3>2. CASE title \in OutTitles \union InTitles \union {"Amount"}
      <4>1. c = Other(style) \/ \E b : c = PrintedNumber(style, m, b)
        BY <1>1, <3>2, CellsPrinted
      <4> QED
        BY <4>1 DEF Other, Blank, PrintedNumber, Number
    <3>3. CASE title = "Type"
      <4>1. c = CategoryCell(Mentions[m.name])
        BY <1>1, <1>4, <3>3, CellsPrinted
      <4> QED
        BY <4>1 DEF CategoryCell
    <3>4. CASE title = "Currency"
      <4>1. c = CurrencyCell(style.currency)
        BY <1>1, <3>4, CellsPrinted
      <4> QED
        BY <4>1 DEF CurrencyCell
    <3>5. CASE title \notin DateTitles \union TextTitles \union OutTitles \union InTitles
                              \union {"Amount", "Type", "Dr/Cr", "Currency", "Balance"}
      <4>1. c = Blank
        BY <1>1, <3>5, CellsPrinted
      <4> QED
        BY <4>1 DEF Blank
    <3>6. title # "Dr/Cr"
      OBVIOUS
    <3>7. CASE title = "Balance"
      <4>1. c = Number(Size(m.balance), m.balance < 0, style.mark)
        BY <1>1, <3>7, CellsPrinted
      <4> QED
        BY <4>1 DEF Number
    <3> QED
      BY <1>4, <3>1, <3>2, <3>3, <3>4, <3>5, <3>6, <3>7
  <2> QED
    BY <1>1, <1>4, <2>1 DEF WordsOf
<1> QED
  BY <1>2, <1>3, <1>4

\* The words of a printed row: those of the description, and the direction's where
\* it is printed as a word.
LEMMA RowWorded ==
  ASSUME NEW style, IsStyle(style), ColumnsAreClear(style), NEW m,
         Titled(style, {"Amount"}) # {}
  PROVE  DirectionWords(PrintedRow(style, m)) =
           (Mentions[m.name] \intersect {"DR", "CR"}) \union (IF style.signs = "words" THEN {WordOf(m)} ELSE {})
<1>1. PICK row, N : row = PrintedRow(style, m) /\ N = Len(style.titles)
  OBVIOUS
<1>2. DOMAIN row = 1..N /\ \A i \in 1..N : row[i] = PrintedCell(style, m, style.titles[i])
  BY <1>1, RowPrinted
<1>3. \A i \in 1..N : style.titles[i] # "Dr/Cr"
  BY <1>1 DEF ColumnsAreClear, Titled
<1>4. DirectionWords(row) = UNION {WordsOf(c) : c \in ToSet(row)}
  BY DEF DirectionWords, WordsOf
<1>5. DirectionWords(row) = UNION {WordsOf(row[i]) : i \in 1..N}
  <2>1. ToSet(row) = {row[i] : i \in 1..N}
    BY <1>2 DEF ToSet
  <2> QED
    BY <1>4, <2>1
<1>6. \A i \in 1..N : WordsOf(row[i]) =
        IF style.titles[i] \in TextTitles THEN Mentions[m.name] \intersect {"DR", "CR"}
        ELSE IF style.titles[i] = "Type" /\ style.signs = "words" THEN {WordOf(m)} ELSE {}
  BY <1>2, <1>3, CellsWorded
<1>7. PICK x \in 1..N : style.titles[x] \in TextTitles
  BY <1>1 DEF IsStyle, Titled
<1>8. style.signs = "words" => \E y \in 1..N : style.titles[y] = "Type"
  <2>1. style.signs = "words" => Titled(style, {"Type", "Dr/Cr"}) # {}
    BY DEF IsStyle, AmountsArePrinted
  <2> QED
    BY <1>1, <1>3, <2>1 DEF Titled
<1>9. "Type" \notin TextTitles
  BY DEF TextTitles
<1>10. ASSUME NEW w
       PROVE  w \in DirectionWords(row) <=>
                w \in (Mentions[m.name] \intersect {"DR", "CR"}) \union (IF style.signs = "words" THEN {WordOf(m)} ELSE {})
  <2>1. w \in DirectionWords(row) <=> \E i \in 1..N : w \in WordsOf(row[i])
    BY <1>5
  <2>2. ASSUME NEW i \in 1..N, w \in WordsOf(row[i])
        PROVE  w \in (Mentions[m.name] \intersect {"DR", "CR"}) \union (IF style.signs = "words" THEN {WordOf(m)} ELSE {})
    BY <1>6, <2>2
  <2>3. ASSUME w \in Mentions[m.name] \intersect {"DR", "CR"} PROVE w \in WordsOf(row[x])
    BY <1>6, <1>7, <2>3
  <2>4. ASSUME style.signs = "words", w = WordOf(m) PROVE \E y \in 1..N : w \in WordsOf(row[y])
    <3>1. PICK y \in 1..N : style.titles[y] = "Type"
      BY <1>8, <2>4
    <3>2. WordsOf(row[y]) = {WordOf(m)}
      BY <1>6, <1>9, <2>4, <3>1
    <3> QED
      BY <2>4, <3>2
  <2> QED
    BY <2>1, <2>2, <2>3, <2>4
<1> QED
  BY <1>1, <1>10

\* One column, whose sign or the row's words tell the direction.
LEMMA OneColumnRead ==
  ASSUME NEW style, style.mark = "point", style.signs \in {"minus", "inverted", "words"},
         NEW m \in Movement, NEW words, NEW cell,
         words = (Mentions[m.name] \intersect {"DR", "CR"}) \union (IF style.signs = "words" THEN {WordOf(m)} ELSE {}),
         \/ Mentions[m.name] \intersect {"DR", "CR"} \subseteq {WordOf(m)}
         \/ style.signs = "words" /\ m.cents > 0,
         cell = Signed(style, m)
  PROVE  OneColumnAmount(cell, words, style.signs = "inverted") = [status |-> "verified", amount |-> m.cents * 100]
<1>1. m.cents \in Int /\ m.cents # 0 /\ (m.cents > 0 <=> ~(m.cents < 0))
  BY DatePrinted
<1>2. PICK s, out, inverted : s = Size(m.cents) * 100 /\ out = (m.cents < 0) /\ inverted = (style.signs = "inverted")
  OBVIOUS
<1>3. s \in Int /\ s # 0 /\ Size(s) = s /\ Size(-s) = s /\ (out => -s = m.cents * 100) /\ (~out => s = m.cents * 100)
  BY <1>1, <1>2, SizeScales
<1>4. PICK negative : /\ negative \in BOOLEAN
                      /\ style.signs = "minus" => (negative <=> out)
                      /\ style.signs = "inverted" => (negative <=> ~out)
                      /\ style.signs = "words" => ~negative
                      /\ cell = PrintedNumber(style, m, negative)
  <2>1. CASE style.signs = "minus"
    <3>1. cell = PrintedNumber(style, m, m.cents < 0)
      BY <2>1 DEF Signed
    <3>2. (m.cents < 0) \in BOOLEAN
      OBVIOUS
    <3> QED
      BY <1>2, <2>1, <3>1, <3>2, Zenon
  <2>2. CASE style.signs = "inverted"
    <3>1. cell = PrintedNumber(style, m, m.cents > 0)
      BY <2>2 DEF Signed
    <3>2. (m.cents > 0) \in BOOLEAN
      OBVIOUS
    <3> QED
      BY <1>1, <1>2, <2>2, <3>1, <3>2, Zenon
  <2>3. CASE style.signs = "words"
    <3>1. cell = PrintedNumber(style, m, FALSE)
      BY <2>3 DEF Signed
    <3> QED
      BY <2>3, <3>1
  <2> QED
    BY <2>1, <2>2, <2>3
<1>5. PICK a : a = IF negative THEN -s ELSE s
  OBVIOUS
<1>6. ParseCleanDecimal(cell) = {a}
  <2>1. ParseCleanDecimal(PrintedNumber(style, m, negative)) = {IF negative THEN -s ELSE s}
    BY <1>2, <1>4, NumberRead
  <2> QED
    BY <1>4, <1>5, <2>1
<1>7. OneColumnAmount(cell, words, inverted) =
        [status |-> "verified", amount |-> CASE words = {"DR"} -> -Size(a) [] words = {"CR"} -> Size(a)
                                             [] OTHER -> IF inverted THEN -a ELSE a]
  <2>1. (CHOOSE x \in ParseCleanDecimal(cell) : TRUE) = a /\ ParseCleanDecimal(cell) # {}
    BY <1>6
  <2> QED
    BY <2>1 DEF OneColumnAmount
<1>8. Size(a) = s
  BY <1>3, <1>5
<1>9. WordOf(m) = IF out THEN "DR" ELSE "CR"
  BY <1>2 DEF WordOf
<1>10. ASSUME words = {WordOf(m)} PROVE OneColumnAmount(cell, words, inverted) = [status |-> "verified", amount |-> m.cents * 100]
  <2>1. CASE out
    BY <1>3, <1>7, <1>8, <1>9, <1>10, <2>1
  <2>2. CASE ~out
    <3>1. words = {"CR"} /\ words # {"DR"}
      BY <1>9, <1>10, <2>2
    <3> QED
      BY <1>3, <1>7, <1>8, <2>2, <3>1
  <2> QED
    BY <2>1, <2>2
<1>11. ASSUME words # {"DR"}, words # {"CR"} PROVE OneColumnAmount(cell, words, inverted) = [status |-> "verified", amount |-> m.cents * 100]
  <2>1. OneColumnAmount(cell, words, inverted) = [status |-> "verified", amount |-> IF inverted THEN -a ELSE a]
    BY <1>7, <1>11
  <2>2. style.signs # "words" => words = {}
    BY <1>9, <1>11
  <2>3. style.signs = "words" => ~out
    <3>1. style.signs = "words" => WordOf(m) \in words
      OBVIOUS
    <3>2. style.signs = "words" => ~(Mentions[m.name] \intersect {"DR", "CR"} \subseteq {WordOf(m)})
      BY <1>9, <1>11
    <3> QED
      BY <1>1, <1>2, <3>2
  <2>4. (IF inverted THEN -a ELSE a) = m.cents * 100
    <3>1. CASE style.signs = "minus"
      BY <1>2, <1>3, <1>4, <1>5, <3>1
    <3>2. CASE style.signs = "inverted"
      BY <1>2, <1>3, <1>4, <1>5, <3>2
    <3>3. CASE style.signs = "words"
      BY <1>2, <1>3, <1>4, <1>5, <2>3, <3>3
    <3> QED
      BY <3>1, <3>2, <3>3
  <2> QED
    BY <2>1, <2>4
<1>12. words = {WordOf(m)} \/ (words # {"DR"} /\ words # {"CR"})
  <2>1. CASE style.signs = "words"
    <3>1. WordOf(m) \in words
      BY <2>1
    <3>2. words = {"DR"} \/ words = {"CR"} => words = {WordOf(m)}
      BY <3>1
    <3> QED
      BY <3>2
  <2>2. CASE style.signs # "words"
    <3>1. words \subseteq {WordOf(m)}
      BY <2>2
    <3> QED
      BY <3>1
  <2> QED
    BY <2>1, <2>2
<1> QED
  BY <1>2, <1>10, <1>11, <1>12

\* A clear amount is read with its size and its direction.
LEMMA MoneyRead ==
  ASSUME NEW style, IsStyle(style), ColumnsAreClear(style), style.mark = "point",
         NEW m \in Movement, DirectionIsClear(style, m)
  PROVE  ResolveAmountAndDirection(PrintedRow(style, m), Columns(style.titles), style.signs = "inverted") =
           [status |-> "verified", amount |-> m.cents * 100]
<1>1. PICK cols, row, N : cols = Columns(style.titles) /\ row = PrintedRow(style, m) /\ N = Len(style.titles)
  OBVIOUS
<1>2. {"debit", "credit", "amount"} \subseteq RoleNames
  BY DEF RoleNames, Synonyms
<1>3. \A r \in {"debit", "credit", "amount"} :
        IF Titled(style, Own[r]) = {} THEN cols[r] = 0 ELSE cols[r] \in Titled(style, Own[r])
  BY <1>1, <1>2, ColumnsTold
<1>4. Own["debit"] = OutTitles /\ Own["credit"] = InTitles /\ Own["amount"] = {"Amount"}
  BY DEF Own
<1>5. \A T : \A i \in Titled(style, T) :
        i \in 1..N /\ i # 0 /\ style.titles[i] \in T /\ Cell(row, i) = PrintedCell(style, m, style.titles[i])
  <2>1. N \in Nat /\ \A i \in 1..N : Cell(row, i) = PrintedCell(style, m, style.titles[i])
    BY <1>1, RowPrinted
  <2> QED
    BY <1>1, <2>1 DEF Titled
<1>6. CASE Titled(style, OutTitles) # {} /\ Titled(style, InTitles) # {}
  <2>1. cols["debit"] \in Titled(style, OutTitles) /\ cols["credit"] \in Titled(style, InTitles)
    BY <1>3, <1>4, <1>6
  <2>2. Cell(row, cols["debit"]) = IF m.cents < 0 THEN Unsigned(style, m) ELSE Other(style)
    <3>1. PICK title : title \in OutTitles /\ Cell(row, cols["debit"]) = PrintedCell(style, m, title)
      BY <1>5, <2>1
    <3> QED
      BY <3>1, CellsPrinted DEF Unsigned
  <2>3. Cell(row, cols["credit"]) = IF m.cents > 0 THEN Unsigned(style, m) ELSE Other(style)
    <3>1. PICK title : title \in InTitles /\ Cell(row, cols["credit"]) = PrintedCell(style, m, title)
      BY <1>5, <2>1
    <3> QED
      BY <3>1, CellsPrinted DEF Unsigned
  <2>4. cols["debit"] # 0
    BY <1>5, <2>1
  <2>5. TwoColumnAmount(Cell(row, cols["debit"]), Cell(row, cols["credit"])) = [status |-> "verified", amount |-> m.cents * 100]
    <3>1. PICK debit, credit : debit = Cell(row, cols["debit"]) /\ credit = Cell(row, cols["credit"])
      OBVIOUS
    <3>2. /\ debit = IF m.cents < 0 THEN Unsigned(style, m) ELSE Other(style)
          /\ credit = IF m.cents > 0 THEN Unsigned(style, m) ELSE Other(style)
      BY <2>2, <2>3, <3>1
    <3>3. TwoColumnAmount(debit, credit) = [status |-> "verified", amount |-> m.cents * 100]
      BY <3>2, TwoColumnsRead
    <3> QED
      BY <3>1, <3>3
  <2> QED
    BY <1>1, <2>4, <2>5 DEF ResolveAmountAndDirection
<1>7. CASE /\ style.signs \in {"minus", "inverted", "words"}
           /\ Titled(style, OutTitles) = {} /\ Titled(style, InTitles) = {} /\ Titled(style, {"Amount"}) # {}
  <2>1. cols["debit"] = 0 /\ cols["credit"] = 0 /\ cols["amount"] \in Titled(style, {"Amount"})
    BY <1>3, <1>4, <1>7
  <2>2. PICK i : i = cols["amount"] /\ style.titles[i] = "Amount" /\ Cell(row, i) = PrintedCell(style, m, style.titles[i])
    BY <1>5, <2>1
  <2>3. Cell(row, cols["amount"]) = Signed(style, m)
    BY <2>2, CellsPrinted DEF Signed
  <2>4. PICK words : /\ words = DirectionWords(row)
                     /\ words = (Mentions[m.name] \intersect {"DR", "CR"}) \union (IF style.signs = "words" THEN {WordOf(m)} ELSE {})
    BY <1>1, <1>7, RowWorded
  <2>5. \/ Mentions[m.name] \intersect {"DR", "CR"} \subseteq {WordOf(m)}
        \/ style.signs = "words" /\ m.cents > 0
    BY <1>7 DEF DirectionIsClear, WordOf
  <2>6. OneColumnAmount(Cell(row, cols["amount"]), words, style.signs = "inverted") = [status |-> "verified", amount |-> m.cents * 100]
    <3>1. PICK cell : cell = Cell(row, cols["amount"])
      OBVIOUS
    <3>2. cell = Signed(style, m)
      BY <2>3, <3>1
    <3>3. OneColumnAmount(cell, words, style.signs = "inverted") = [status |-> "verified", amount |-> m.cents * 100]
      BY <1>7, <2>4, <2>5, <3>2, OneColumnRead
    <3> QED
      BY <3>1, <3>3
  <2> QED
    BY <1>1, <2>1, <2>4, <2>6 DEF ResolveAmountAndDirection
<1> QED
  <2>1. \A T : Cardinality(Titled(style, T)) = 1 => Titled(style, T) # {}
    BY FS_EmptySet
  <2> QED
    BY <1>6, <1>7, <2>1 DEF IsStyle, AmountsArePrinted

-----------------------------------------------------------------------------
(* What is read of a statement: purposes and currencies *)

\* A category that repeats what the description says makes no difference.
LEMMA CategoryRepeats ==
  ASSUME NEW n, NEW cell, cell.kind # "category" \/ cell.names = Mentions[n]
  PROVE  LeftOut(n, cell) <=> LeftOut(n, Blank)
<1>1. SelectInSeq(Rules, LAMBDA r : r \in {}) = 0
  BY DEF SelectInSeq
<1>2. PICK j : j = SelectInSeq(Rules, LAMBDA r : r \in Mentions[n])
  OBVIOUS
<1>3. Blank.kind # "category"
  BY DEF Blank
<1>4. Categorize(n, Blank) = IF j # 0 THEN Rules[j] ELSE "other"
  <2>1. Categorize(n, Blank) = CASE 0 # 0 -> Rules[0] [] 0 = 0 /\ j # 0 -> Rules[j] [] OTHER -> "other"
    BY <1>1, <1>2, <1>3 DEF Categorize
  <2> QED
    BY <2>1
<1>5. CASE cell.kind # "category"
  <2>1. Categorize(n, cell) = CASE 0 # 0 -> Rules[0] [] 0 = 0 /\ j # 0 -> Rules[j] [] OTHER -> "other"
    BY <1>1, <1>2, <1>5 DEF Categorize
  <2>2. Categorize(n, cell) = IF j # 0 THEN Rules[j] ELSE "other"
    BY <2>1
  <2> QED
    BY <1>4, <2>2 DEF LeftOut
<1>6. CASE cell.kind = "category" /\ cell.names = Mentions[n]
  <2>1. Categorize(n, cell) = CASE j # 0 -> Rules[j] [] j = 0 /\ j # 0 -> Rules[j] [] OTHER -> "other"
    BY <1>2, <1>6 DEF Categorize
  <2>2. Categorize(n, cell) = IF j # 0 THEN Rules[j] ELSE "other"
    BY <2>1
  <2> QED
    BY <1>4, <2>2 DEF LeftOut
<1> QED
  BY <1>5, <1>6

\* A row is left out if its description says so, and has the account's currency.
LEMMA PurposeRead ==
  ASSUME NEW style, IsStyle(style), ColumnsAreClear(style), NEW m, CurrencyIsClear(style)
  PROVE  LET cols == Columns(style.titles)
             row == PrintedRow(style, m)
         IN  /\ LeftOut(m.name, Cell(row, cols["category"])) <=> LeftOut(m.name, Blank)
             /\ CurrencyOf(Cell(row, cols["currency"])) = style.currency
<1>1. PICK cols, row, N : cols = Columns(style.titles) /\ row = PrintedRow(style, m) /\ N = Len(style.titles)
  OBVIOUS
<1>2. {"category", "currency"} \subseteq RoleNames /\ Own["category"] = {"Type"} /\ Own["currency"] = {"Currency"}
  BY DEF RoleNames, Synonyms, Own
<1>3. /\ cols["category"] = 0 \/ cols["category"] \in Titled(style, {"Type"})
      /\ (cols["currency"] = 0 /\ Titled(style, {"Currency"}) = {}) \/ cols["currency"] \in Titled(style, {"Currency"})
  BY <1>1, <1>2, ColumnsTold
<1>4. \A i \in 1..N : Cell(row, i) = PrintedCell(style, m, style.titles[i])
  BY <1>1, RowPrinted
<1>5. Cell(row, 0) = Blank
  BY <1>1, RowPrinted
<1>6. PICK cell : cell = Cell(row, cols["category"])
  OBVIOUS
<1>7. cell.kind # "category" \/ cell.names = Mentions[m.name]
  <2>1. CASE cols["category"] = 0
    BY <1>5, <1>6, <2>1 DEF Blank
  <2>2. CASE cols["category"] \in Titled(style, {"Type"})
    <3>1. cell = PrintedCell(style, m, "Type")
      BY <1>1, <1>4, <1>6, <2>2 DEF Titled
    <3>2. CASE style.signs = "words"
      <4>1. cell = Indicator(IF m.cents < 0 THEN "DR" ELSE "CR")
        BY <3>1, <3>2, CellsPrinted
      <4> QED
        BY <4>1 DEF Indicator
    <3>3. CASE style.signs # "words"
      <4>1. cell = CategoryCell(Mentions[m.name])
        BY <3>1, <3>3, CellsPrinted
      <4> QED
        BY <4>1 DEF CategoryCell
    <3> QED
      BY <3>2, <3>3
  <2> QED
    BY <1>3, <2>1, <2>2
<1>8. LeftOut(m.name, cell) <=> LeftOut(m.name, Blank)
  BY <1>7, CategoryRepeats
<1>9. CurrencyOf(Cell(row, cols["currency"])) = style.currency
  <2>1. CASE cols["currency"] = 0 /\ Titled(style, {"Currency"}) = {}
    <3>1. style.currency = "USD" /\ Cell(row, cols["currency"]) = Blank
      BY <1>5, <2>1 DEF CurrencyIsClear
    <3>2. CurrencyOf(Blank) = "USD"
      BY DEF CurrencyOf, Blank
    <3> QED
      BY <3>1, <3>2
  <2>2. CASE cols["currency"] \in Titled(style, {"Currency"})
    <3>1. Cell(row, cols["currency"]) = PrintedCell(style, m, "Currency")
      BY <1>1, <1>4, <2>2 DEF Titled
    <3>2. Cell(row, cols["currency"]) = CurrencyCell(style.currency)
      BY <3>1, CellsPrinted
    <3> QED
      BY <3>2 DEF CurrencyOf, CurrencyCell
  <2> QED
    BY <1>3, <2>1, <2>2
<1> QED
  BY <1>1, <1>6, <1>8, <1>9

-----------------------------------------------------------------------------
(* What is read of a statement: the separator *)

\* What is printed as a text is the name of the movement.
LEMMA NamesPrinted ==
  ASSUME NEW style, NEW m, NEW title
  PROVE  PrintedCell(style, m, title).kind = "text" => PrintedCell(style, m, title).name = m.name
<1>1. PICK c : c = PrintedCell(style, m, title)
  OBVIOUS
<1>2. CASE title \in TextTitles
  <2>1. c = Text(m.name)
    BY <1>1, <1>2, CellsPrinted
  <2> QED
    BY <1>1, <2>1 DEF Text
<1>3. CASE title \notin TextTitles
  <2>1. c.kind # "text"
    <3>1. CASE title \in DateTitles
      <4>1. c = PrintedDate(style, m)
        BY <1>1, <3>1, CellsPrinted
      <4> QED
        BY <4>1 DEF PrintedDate, DateCell
    <3>2. CASE title \in OutTitles \union InTitles \union {"Amount"}
      <4>1. c = Other(style) \/ \E b : c = PrintedNumber(style, m, b)
        BY <1>1, <3>2, CellsPrinted
      <4> QED
        BY <4>1 DEF Other, Blank, PrintedNumber, Number
    <3>3. CASE title = "Type" /\ style.signs # "words"
      <4>1. c = CategoryCell(Mentions[m.name])
        BY <1>1, <3>3, CellsPrinted
      <4> QED
        BY <4>1 DEF CategoryCell
    <3>4. CASE title \in {"Type", "Dr/Cr"} /\ style.signs = "words"
      <4>1. c = Indicator(IF m.cents < 0 THEN "DR" ELSE "CR")
        BY <1>1, <3>4, CellsPrinted
      <4> QED
        BY <4>1 DEF Indicator
    <3>5. CASE title = "Currency"
      <4>1. c = CurrencyCell(style.currency)
        BY <1>1, <3>5, CellsPrinted
      <4> QED
        BY <4>1 DEF CurrencyCell
    <3>6. CASE title = "Balance"
      <4>1. c = Number(Size(m.balance), m.balance < 0, style.mark)
        BY <1>1, <3>6, CellsPrinted
      <4> QED
        BY <4>1 DEF Number
    <3>7. CASE title = "Dr/Cr" /\ style.signs # "words"
      <4>1. c = Blank
        BY <1>1, <3>7 DEF PrintedCell, DateTitles, TextTitles, OutTitles, InTitles
      <4> QED
        BY <4>1 DEF Blank
    <3>8. CASE title \notin DateTitles \union TextTitles \union OutTitles \union InTitles
                              \union {"Amount", "Type", "Dr/Cr", "Currency", "Balance"}
      <4>1. c = Blank
        BY <1>1, <3>8, CellsPrinted
      <4> QED
        BY <4>1 DEF Blank
    <3> QED
      BY <1>3, <3>1, <3>2, <3>3, <3>4, <3>5, <3>6, <3>7, <3>8
  <2> QED
    BY <1>1, <2>1
<1> QED
  BY <1>2, <1>3

\* There are no fewer than none of a candidate in a row.
LEMMA HeldIsNatural ==
  ASSUME NEW style, IsStyle(style), NEW m \in Movement, NEW c \in ToSet(Delimiters)
  PROVE  HeldIn(PrintedRow(style, m), c) \in Nat
<1>1. PICK row, N : row = PrintedRow(style, m) /\ N = Len(style.titles)
  OBVIOUS
<1>2. DOMAIN row = 1..N /\ N \in Nat /\ \A i \in 1..N : row[i] = PrintedCell(style, m, style.titles[i])
  BY <1>1, RowPrinted
<1>3. \A cents : Thousands(cents) \in Nat
  <2> SUFFICES ASSUME NEW cents PROVE Thousands(cents) \in Nat
    OBVIOUS
  <2>1. 1 \in Int /\ 3 \in Int
    OBVIOUS
  <2>2. IsFiniteSet(1..3)
    BY <2>1, FS_Interval
  <2>3. IsFiniteSet({k \in 1..3 : 1000 ^ k <= cents \div 100})
    BY <2>2, FS_Subset
  <2> QED
    BY <2>3, FS_CardinalityType DEF Thousands
<1>4. ASSUME NEW cell, cell.kind = "text" => cell.name \in Names PROVE Held(cell, c) \in Nat
  <2>1. CASE cell.kind = "text"
    <3>1. Held(cell, c) = Separators[cell.name][c]
      BY <2>1 DEF Held
    <3> QED
      BY <1>4, <2>1, <3>1, SeparatorsAssumption
  <2>2. CASE cell.kind # "text"
    <3>1. Held(cell, c) \in {0, 1, Thousands(cell.cents)}
      BY <2>2 DEF Held
    <3> QED
      BY <1>3, <3>1
  <2> QED
    BY <2>1, <2>2
<1>5. ASSUME NEW i \in 1..N PROVE row[i].kind = "text" => row[i].name \in Names
  <2>1. row[i].kind = "text" => row[i].name = m.name
    BY <1>2, <1>5, NamesPrinted
  <2> QED
    BY <2>1 DEF Movement
<1>6. PICK f : f = [i \in 1..N |-> Held(row[i], c)]
  OBVIOUS
<1>7. \A i \in 1..N : f[i] \in Nat
  BY <1>4, <1>5, <1>6
<1>8. HeldIn(row, c) = SumFunctionOnSet(f, 1..N)
  BY <1>2, <1>6 DEF HeldIn, SumFunction
<1>9. IsFiniteSet(1..N)
  BY <1>2, FS_Interval
<1>10. SumFunctionOnSet(f, 1..N) \in Nat
  BY <1>7, <1>9, SumIsNatural
<1> QED
  BY <1>1, <1>8, <1>10

\* The separator is told where it is clear.
LEMMA SeparatorTold ==
  ASSUME NEW style, IsStyle(style), ColumnsAreClear(style), NEW ms \in Seq(Movement), SeparatorIsClear(style, ms)
  PROVE  DetectDelimiter(Printed(style, ms)) = style.separator
<1>1. PICK s, L, M, sep : s = Printed(style, ms) /\ L = Len(style.titles) /\ M = Len(ms) /\ sep = style.separator
  OBVIOUS
<1>2. M \in Nat /\ L \in Nat /\ sep \in ToSet(Delimiters)
  <2>1. L \in Nat
    BY <1>1, RowPrinted
  <2> QED
    BY <1>1, <2>1 DEF IsStyle
<1>3. s.titles = style.titles /\ s.separator = sep /\ s.rows = [i \in 1..M |-> PrintedRow(style, ms[i])]
  BY <1>1 DEF Printed
<1>4. L >= 2
  <2>1. PICK d \in 1..L, x \in 1..L : Titled(style, DateTitles) = {d} /\ Titled(style, TextTitles) = {x}
    BY <1>1, ColumnsTold
  <2>2. style.titles[d] \in DateTitles /\ style.titles[x] \in TextTitles
    BY <2>1 DEF Titled
  <2>3. d # x
    BY <2>2 DEF DateTitles, TextTitles
  <2> QED
    BY <1>2, <2>1, <2>3
<1>5. PICK k : k = IF M < 4 THEN M ELSE 4
  OBVIOUS
<1>6. k \in 0..4 /\ k <= M
  BY <1>2, <1>5
<1>7. PICK top : top = SubSeq(s.rows, 1, k)
  OBVIOUS
<1>8. Top(s) = top
  <2>1. Len(s.rows) = M
    BY <1>2, <1>3
  <2> QED
    BY <1>5, <1>7, <2>1 DEF Top
<1>9. Len(top) = k /\ DOMAIN top = 1..k /\ \A i \in 1..k : top[i] = PrintedRow(style, ms[i])
  <2>1. Len(top) = k /\ DOMAIN top = 1..k /\ \A i \in 1..k : top[i] = s.rows[i]
    <3>1. PICK S, rows : rows = s.rows /\ S = {rows[i] : i \in 1..k}
      OBVIOUS
    <3>2. \A i \in 1..k : rows[i] \in S
      BY <3>1
    <3>3. /\ SubSeq(rows, 1, k) \in Seq(S) /\ Len(SubSeq(rows, 1, k)) = IF 1 <= k THEN k - 1 + 1 ELSE 0
          /\ \A i \in 1..(k - 1 + 1) : SubSeq(rows, 1, k)[i] = rows[1 + i - 1]
      BY <1>6, <3>2, SubSeqProperties
    <3>4. top \in Seq(S) /\ Len(top) = k
      BY <1>6, <1>7, <3>1, <3>3
    <3>5. \A i \in 1..k : i \in 1..(k - 1 + 1) /\ 1 + i - 1 = i
      BY <1>6
    <3>6. \A i \in 1..k : top[i] = s.rows[i]
      BY <1>7, <3>1, <3>3, <3>5
    <3> QED
      BY <3>4, <3>6
  <2>2. \A i \in 1..k : i \in 1..M
    BY <1>2, <1>6
  <2> QED
    BY <1>3, <1>6, <2>1, <2>2
<1>10. PICK own : own = (L - 1) * (1 + k)
  OBVIOUS
<1>11. own \in Int /\ own > k * (L - 1)
  <2>1. own = (L - 1) + k * (L - 1)
    BY <1>2, <1>6, <1>10
  <2>2. k * (L - 1) \in Int
    BY <1>2, <1>6
  <2> QED
    BY <1>2, <1>4, <2>1, <2>2
<1>12. IsFiniteSet(1..k)
  BY <1>6, FS_Interval
<1>13. ASSUME NEW c \in ToSet(Delimiters)
       PROVE  /\ Score(s, c) \in Int
              /\ c = sep => Score(s, c) >= own
              /\ c # sep => Score(s, c) < own
  <2>1. PICK f : f = [i \in 1..k |-> HeldIn(top[i], c)]
    OBVIOUS
  <2>2. PICK n : n = SumFunctionOnSet(f, 1..k)
    OBVIOUS
  <2>3. ASSUME NEW i \in 1..k PROVE f[i] \in Nat /\ (c # sep => f[i] <= L - 1)
    <3>1. PICK m : m = ms[i] /\ m \in Movement /\ f[i] = HeldIn(PrintedRow(style, m), c) /\ i \in 1..M /\ i <= 4
      <4>1. i \in 1..Len(ms) /\ i <= 4
        BY <1>1, <1>2, <1>6
      <4>2. ms[i] \in Movement
        BY <4>1
      <4>3. f[i] = HeldIn(PrintedRow(style, ms[i]), c)
        BY <1>9, <2>1
      <4> QED
        BY <1>1, <4>1, <4>2, <4>3
    <3>2. f[i] \in Nat
      BY <3>1, HeldIsNatural
    <3>3. c # sep => HeldIn(PrintedRow(style, ms[i]), c) <= L - 1
      BY <1>1, <3>1 DEF SeparatorIsClear
    <3> QED
      BY <3>1, <3>2, <3>3
  <2>4. n \in Nat
    BY <1>12, <2>2, <2>3, SumIsNatural
  <2>5. c # sep => n <= k * (L - 1)
    <3>1. PICK g : g = [i \in 1..k |-> L - 1]
      OBVIOUS
    <3>2. L - 1 \in Int /\ k \in Nat
      BY <1>2, <1>6
    <3>3. SumFunctionOnSet(g, 1..k) = k * (L - 1)
      BY <3>1, <3>2, SumOfEqual
    <3>4. c # sep => \A i \in 1..k : f[i] \in Int /\ g[i] \in Int /\ f[i] <= g[i]
      BY <2>3, <3>1, <3>2
    <3>5. c # sep => SumFunctionOnSet(f, 1..k) <= SumFunctionOnSet(g, 1..k)
      BY <1>12, <3>4, SumMonotonic
    <3> QED
      BY <2>2, <3>3, <3>5
  <2>6. Score(s, c) = (IF c = sep THEN own ELSE 0) + n
    <3>1. SumFunction([i \in DOMAIN top |-> HeldIn(top[i], c)]) = n
      BY <1>9, <2>1, <2>2 DEF SumFunction
    <3> QED
      BY <1>1, <1>3, <1>8, <1>9, <1>10, <3>1 DEF Score
  <2>7. k * (L - 1) \in Int
    BY <1>2, <1>6
  <2> QED
    BY <1>11, <2>4, <2>5, <2>6, <2>7
<1>14. DOMAIN Delimiters = 1..4 /\ ToSet(Delimiters) = {Delimiters[i] : i \in 1..4}
  BY DEF Delimiters, ToSet
<1>15. \A i, j \in 1..4 : Delimiters[i] = Delimiters[j] => i = j
  BY DEF Delimiters
<1>16. PICK o \in 1..4 : Delimiters[o] = sep
  BY <1>2, <1>14
<1>17. PICK e : e = [i \in 1..4 |-> Score(s, Delimiters[i])]
  OBVIOUS
<1>18. \A i \in 1..4 : e[i] \in Int /\ (i = o => e[i] >= own) /\ (i # o => e[i] < own)
  BY <1>13, <1>14, <1>15, <1>16, <1>17
<1>19. \A i \in 1..4 : (\A j \in 1..4 : e[j] < e[i] \/ (e[j] = e[i] /\ i <= j)) <=> i = o
  BY <1>11, <1>16, <1>18
<1>20. DetectDelimiter(s) =
         Delimiters[CHOOSE i \in 1..4 : \A j \in 1..4 : e[j] < e[i] \/ (e[j] = e[i] /\ i <= j)]
  BY <1>14, <1>17 DEF DetectDelimiter
<1>21. (CHOOSE i \in 1..4 : \A j \in 1..4 : e[j] < e[i] \/ (e[j] = e[i] /\ i <= j)) = o
  BY <1>16, <1>19
<1> QED
  BY <1>1, <1>16, <1>20, <1>21

-----------------------------------------------------------------------------
(* What is read of a statement *)

\* A clear row is read as it was meant.
LEMMA RowRead ==
  ASSUME NEW style, IsStyle(style), NEW ms \in Seq(Movement), NEW i \in 1..Len(ms), IsClear(style, ms, i),
         NEW rows, rows = [j \in 1..Len(ms) |-> PrintedRow(style, ms[j])],
         NEW cols, cols = Columns(style.titles)
  PROVE  ReadRow(rows[i], cols, DetectDateFormat(rows, cols["date"]), style.signs = "inverted") = Meant(style, ms[i])
<1>1. /\ ColumnsAreClear(style) /\ NumbersAreClear(style) /\ DateIsClear(style, ms, i)
      /\ DirectionIsClear(style, ms[i]) /\ CurrencyIsClear(style) /\ PurposeIsClear(ms[i])
  BY DEF IsClear
<1>2. PICK m, row, format, inverted, money :
        /\ m = ms[i] /\ row = rows[i] /\ format = DetectDateFormat(rows, cols["date"])
        /\ inverted = (style.signs = "inverted") /\ money = ResolveAmountAndDirection(row, cols, inverted)
  OBVIOUS
<1>3. m \in Movement /\ row = PrintedRow(style, m)
  BY <1>2
<1>4. {"date", "description"} \subseteq RoleNames /\ Own["date"] = DateTitles /\ Own["description"] = TextTitles
  BY DEF RoleNames, Synonyms, Own
<1>5. PICK d \in 1..Len(style.titles), x \in 1..Len(style.titles) :
        Titled(style, DateTitles) = {d} /\ Titled(style, TextTitles) = {x}
  BY <1>1, ColumnsTold
<1>6. cols["date"] = d /\ cols["description"] = x
  BY <1>1, <1>4, <1>5, ColumnsTold
<1>7. style.titles[d] \in DateTitles /\ style.titles[x] \in TextTitles
  BY <1>5 DEF Titled
<1>8. PICK date : date = [month |-> m.month, day |-> m.day]
  OBVIOUS
<1>9. ParseDate(Cell(row, cols["date"]), format) = {date}
  <2>1. ParseDate(Cell(rows[i], d), DetectDateFormat(rows, d)) = {[month |-> ms[i].month, day |-> ms[i].day]}
    BY <1>1, <1>7, DateRead
  <2> QED
    BY <1>2, <1>6, <1>8, <2>1
<1>10. money = [status |-> "verified", amount |-> m.cents * 100]
  <2>1. ResolveAmountAndDirection(PrintedRow(style, m), Columns(style.titles), style.signs = "inverted") =
          [status |-> "verified", amount |-> m.cents * 100]
    BY <1>1, <1>2, <1>3, MoneyRead DEF NumbersAreClear
  <2> QED
    BY <1>2, <1>3, <2>1
<1>11. PICK text : text = Cell(row, cols["description"]) /\ text = Text(m.name)
  <2>1. Cell(row, x) = PrintedCell(style, m, style.titles[x])
    BY <1>3, RowPrinted
  <2>2. Cell(row, x) = Text(m.name)
    BY <1>7, <2>1, CellsPrinted
  <2> QED
    BY <1>6, <2>2
<1>12. text.kind = "text" /\ text.name = m.name
  BY <1>11 DEF Text
<1>13. PICK category, currency : category = Cell(row, cols["category"]) /\ currency = Cell(row, cols["currency"])
  OBVIOUS
<1>14. CurrencyOf(currency) = style.currency /\ (LeftOut(m.name, category) <=> m.name \in Transfers)
  <2>1. /\ LeftOut(m.name, category) <=> LeftOut(m.name, Blank)
        /\ CurrencyOf(currency) = style.currency
    BY <1>1, <1>3, <1>13, PurposeRead
  <2> QED
    BY <1>1, <1>2, <2>1 DEF PurposeIsClear
<1>15. ReadRow(row, cols, format, inverted) =
         [kind |-> "clean", date |-> CHOOSE e \in {date} : TRUE, amount |-> money.amount,
          text |-> text, currency |-> CurrencyOf(currency),
          leftOut |-> text.kind = "text" /\ LeftOut(text.name, category)]
  <2>1. {date} # {} /\ money.status = "verified"
    BY <1>10
  <2> QED
    BY <1>2, <1>9, <1>11, <1>13, <2>1 DEF ReadRow
<1>16. (CHOOSE e \in {date} : TRUE) = date
  OBVIOUS
<1>17. money.amount = m.cents * 100
  BY <1>10
<1>18. (text.kind = "text" /\ LeftOut(text.name, category)) = (m.name \in Transfers)
  BY <1>12, <1>14
<1>19. Meant(style, m) =
         [kind |-> "clean", date |-> date, amount |-> m.cents * 100, text |-> text,
          currency |-> style.currency, leftOut |-> m.name \in Transfers]
  BY <1>8, <1>11 DEF Meant
<1>20. ReadRow(row, cols, format, inverted) = Meant(style, m)
  BY <1>14, <1>15, <1>16, <1>17, <1>18, <1>19
<1> QED
  BY <1>2, <1>20

\* A date and an amount are told.
LEMMA ColumnsAreThere ==
  ASSUME NEW style, IsStyle(style), ColumnsAreClear(style)
  PROVE  HasColumns(Columns(style.titles))
<1>1. PICK cols : cols = Columns(style.titles)
  OBVIOUS
<1>2. {"date", "debit", "amount"} \subseteq RoleNames
  BY DEF RoleNames, Synonyms
<1>3. Own["date"] = DateTitles /\ Own["debit"] = OutTitles /\ Own["amount"] = {"Amount"}
  BY DEF Own
<1>4. \A T : 0 \notin Titled(style, T)
  BY DEF Titled
<1>5. /\ Titled(style, DateTitles) # {} => cols["date"] # 0
      /\ Titled(style, OutTitles) # {} => cols["debit"] # 0
      /\ Titled(style, {"Amount"}) # {} => cols["amount"] # 0
  <2>1. \A r \in {"date", "debit", "amount"} : Titled(style, Own[r]) # {} => cols[r] \in Titled(style, Own[r])
    BY <1>1, <1>2, ColumnsTold
  <2> QED
    BY <1>3, <1>4, <2>1
<1>6. Titled(style, DateTitles) # {}
  BY ColumnsTold
<1>7. Titled(style, OutTitles) # {} \/ Titled(style, {"Amount"}) # {}
  <2>1. \A T : Cardinality(Titled(style, T)) = 1 => Titled(style, T) # {}
    BY FS_EmptySet
  <2> QED
    BY <2>1 DEF IsStyle, AmountsArePrinted
<1> QED
  BY <1>1, <1>5, <1>6, <1>7 DEF HasColumns

\* The clear rows of a statement of any style and length are read as they were meant.
LEMMA StatementRead ==
  ASSUME NEW style, IsStyle(style), NEW ms \in Seq(Movement)
  PROVE  ReadAsMeant(style, ms)
<1> SUFFICES ASSUME NEW i \in 1..Len(ms), IsClear(style, ms, i)
             PROVE  i \in DOMAIN Upload(style, ms) /\ Upload(style, ms)[i] = Meant(style, ms[i])
  BY DEF ReadAsMeant
<1>1. ColumnsAreClear(style) /\ SeparatorIsClear(style, ms)
  BY DEF IsClear
<1>2. PICK s, cols, rows : /\ s = Printed(style, ms) /\ cols = Columns(style.titles)
                           /\ rows = [j \in 1..Len(ms) |-> PrintedRow(style, ms[j])]
  OBVIOUS
<1>3. s.titles = style.titles /\ s.separator = style.separator /\ s.rows = rows
  BY <1>2 DEF Printed
<1>4. DetectDelimiter(s) = s.separator
  BY <1>1, <1>2, <1>3, SeparatorTold
<1>5. HasColumns(cols)
  BY <1>1, <1>2, ColumnsAreThere
<1>6. PICK inverted, format : inverted = (style.signs = "inverted") /\ format = DetectDateFormat(rows, cols["date"])
  OBVIOUS
<1>7. Upload(style, ms) = [j \in 1..Len(rows) |-> ReadRow(rows[j], cols, format, inverted)]
  <2>1. Upload(style, ms) = ReadStatement(s, inverted)
    BY <1>2, <1>6 DEF Upload
  <2>2. Columns(s.titles) = cols
    BY <1>2, <1>3
  <2> QED
    BY <1>3, <1>4, <1>5, <1>6, <2>1, <2>2 DEF ReadStatement
<1>8. Len(rows) = Len(ms)
  <2>1. Len(ms) \in Nat
    OBVIOUS
  <2> QED
    BY <1>2, <2>1
<1>9. ReadRow(rows[i], cols, format, inverted) = Meant(style, ms[i])
  BY <1>2, <1>6, RowRead
<1> QED
  BY <1>7, <1>8, <1>9

\* Of any bank statement, every clear row is read as the bank meant it.
THEOREM ClearStatementsAreRead == Spec => []StatementsReadAsMeant
<1>1. StatementsReadAsMeant
  BY StatementsAssumption, StylesAssumption, StatementRead DEF StatementsReadAsMeant
<1> QED
  BY <1>1, PTL
=============================================================================
