--------------------------- MODULE ImportPipeline ---------------------------
(***************************************************************************)
(* The statement import pipeline: upload -> staged preview -> verify.       *)
(*                                                                          *)
(* backend/api/routers/imports.py owns the in-memory cache of staged        *)
(* previews, backend/ingestion/service.py the two operations behind it, and *)
(* backend/ingestion/deduplicator.py the two duplicate checks.  Upload runs *)
(* on the event loop (async def, no await after the file is read), verify   *)
(* in the thread pool (plain def), each with a database session of its own: *)
(* every query sees the rows committed so far, and nothing a request writes *)
(* is visible before its session.commit().                                  *)
(*                                                                          *)
(* A request is a member of Requests and is made at most once.  A batch is  *)
(* named by the upload request that creates it (its uuid4 is fresh).        *)
(***************************************************************************)
EXTENDS Naturals, Sequences, FiniteSets

CONSTANTS
  Users,               \* tenants
  Files,               \* uploaded byte contents, up to their SHA-256
  Accounts,            \* values of the account_id form field, None included
  Keys,                \* what identifies a source row: date, amount, description
  Content,             \* Content[f]: the parsed rows of file f
  Requests,            \* HTTP requests; bounds the number of calls
  OverlappingVerifies, \* may one user have two verify calls in flight?
  NoHash               \* the dedup_hash "" of a row that has no identity

SourceRow == [kind : {"clean", "ambiguous", "unreadable"}, key : Keys]

ASSUME NonEmptyAssumption == Users # {} /\ Files # {} /\ Accounts # {}
ASSUME ContentAssumption == Content \in [Files -> Seq(SourceRow)]
ASSUME OverlapAssumption == OverlappingVerifies \in BOOLEAN
ASSUME NoHashAssumption  == NoHash \notin Users \X Accounts \X Keys

VARIABLES
  batch,      \* table import_batches; status "absent": no such row
  normalized, \* the normalized rows an upload produced, in file order
  staged,     \* keys of _STAGED_IMPORTS; the entry of b holds normalized[b]
  ledger,     \* table transactions
  audit,      \* audit events "statement_batch_committed"
  pc,         \* where each request is
  task,       \* the arguments of a request, and what it read first
  line,       \* next row a request will look at
  picked      \* rows a verify request has added to to_commit

vars == <<batch, normalized, staged, ledger, audit, pc, task, line, picked>>

-----------------------------------------------------------------------------
(* Types *)

Hashes == (Users \X Accounts \X Keys) \union {NoHash}
NormalizedRow ==
  [hash : Hashes, status : {"verified", "ambiguous", "rejected", "duplicate"}]
BatchStatus == {"absent", "needs_review", "verified", "committed"}
Batch ==
  [status : BatchStatus, user : Users, file : Files, imported : Nat]
LedgerRow ==
  [user : Users, batch : Requests, line : Nat \ {0}, hash : Hashes, by : Requests]
AuditEvent == [user : Users, batch : Requests, by : Requests, rows : Nat]
Task ==
  [user : Users, file : Files, account : Accounts, batch : Requests,
   override : BOOLEAN, loaded : BatchStatus]

UploadPhase == {"classify", "cache"}
VerifyPhase == {"lookup", "recheck", "pop"}
\* done: 2xx; refused: 4xx; failed: unhandled exception, 500; lost: restart.
Finished == {"done", "refused", "failed", "lost"}
InFlight(r) == pc[r] \in UploadPhase \union VerifyPhase

TypeOK ==
  /\ batch \in [Requests -> Batch]
  /\ normalized \in [Requests -> Seq(NormalizedRow)]
  /\ staged \subseteq Requests
  /\ ledger \subseteq LedgerRow
  /\ audit \subseteq AuditEvent
  /\ pc \in [Requests -> {"idle"} \union UploadPhase \union VerifyPhase \union Finished]
  /\ task \in [Requests -> Task]
  /\ line \in [Requests -> Nat \ {0}]
  /\ picked \in [Requests -> SUBSET (Nat \ {0})]

-----------------------------------------------------------------------------
(* Duplicate checks: deduplicator.py *)

\* Mutant: date, amount and description are left out of the hashed key.
TxHash_AccountOnly(u, a, key) == <<u, a, CHOOSE k \in Keys : TRUE>>

TxHash(u, a, key) == <<u, a, key>>

\* is_duplicate_file: a needs_review batch of the same file does not count.
DuplicateFile(u, f) ==
  \E b \in Requests : /\ batch[b].user = u
                      /\ batch[b].file = f
                      /\ batch[b].status \in {"committed", "verified"}

Hits(u, h) == {t \in ledger : t.user = u /\ t.hash = h}

\* Mutant: the ledger is not asked again.
IsDuplicate_Never(u, h) == FALSE

\* is_duplicate_transaction ends in scalar_one_or_none(): one row is a
\* duplicate, and more than one raises MultipleResultsFound.
IsDuplicate(u, h) == Hits(u, h) # {}
TooManyHits(u, h) == \E t1, t2 \in Hits(u, h) : t1 # t2

\* Mutant: the batch is fetched by its id alone.
OwnedBy_AnyTenant(u, b) == batch[b].status # "absent"

OwnedBy(u, b) == batch[b].status # "absent" /\ batch[b].user = u

-----------------------------------------------------------------------------
(* Upload: stage_and_preview_statement, then the cache entry *)

\* The event loop runs one upload handler at a time once the body is read.
EventLoopFree == \A r \in Requests : pc[r] \notin UploadPhase

\* Duplicate-file check, then the flushed but uncommitted batch row.
BeginUpload(r, u, f, a) ==
  /\ pc[r] = "idle"
  /\ EventLoopFree
  /\ task' = [task EXCEPT ![r] =
       [user |-> u, file |-> f, account |-> a,
        batch |-> r, override |-> FALSE, loaded |-> "absent"]]
  /\ pc' = [pc EXCEPT ![r] = IF DuplicateFile(u, f) THEN "refused" ELSE "classify"]
  /\ UNCHANGED <<batch, normalized, staged, ledger, audit, line, picked>>

\* Mutant: seen_in_batch_hashes is never filled.
SeenInBatch_Never(r, h) == FALSE

SeenInBatch(r, h) ==
  \E i \in 1..Len(normalized[r]) : normalized[r][i] = [hash |-> h, status |-> "verified"]

\* The verification status of the next row of an upload.
Classified(r, row) ==
  LET h == TxHash(task[r].user, task[r].account, row.key)
  IN  CASE row.kind = "unreadable" -> [hash |-> NoHash, status |-> "rejected"]
        [] row.kind = "ambiguous"  -> [hash |-> NoHash, status |-> "ambiguous"]
        [] row.kind = "clean"      ->
             [hash   |-> h,
              status |-> IF SeenInBatch(r, h) \/ IsDuplicate(task[r].user, h)
                         THEN "duplicate" ELSE "verified"]

\* One turn of the row loop; each clean row queries the ledger as it is now.
ClassifyRow(r) ==
  /\ pc[r] = "classify"
  /\ line[r] <= Len(Content[task[r].file])
  /\ LET row == Content[task[r].file][line[r]]
         h   == TxHash(task[r].user, task[r].account, row.key)
     IN  IF row.kind = "clean" /\ ~SeenInBatch(r, h) /\ TooManyHits(task[r].user, h)
         THEN /\ pc' = [pc EXCEPT ![r] = "failed"]
              /\ UNCHANGED <<normalized, line>>
         ELSE /\ normalized' = [normalized EXCEPT ![r] = Append(@, Classified(r, row))]
              /\ line' = [line EXCEPT ![r] = @ + 1]
              /\ UNCHANGED pc
  /\ UNCHANGED <<batch, staged, ledger, audit, task, picked>>

RequiresReview(rows) == \E i \in 1..Len(rows) : rows[i].status # "verified"

\* Mutant: the batch is left in the intermediate state of the documentation.
StagedState_Parsed(rows) == IF RequiresReview(rows) THEN "parsed" ELSE "verified"

StagedState(rows) == IF RequiresReview(rows) THEN "needs_review" ELSE "verified"

\* The batch row becomes visible with its final state.
CommitUpload(r) ==
  /\ pc[r] = "classify"
  /\ line[r] > Len(Content[task[r].file])
  /\ batch' = [batch EXCEPT ![r] =
       [status   |-> StagedState(normalized[r]),
        user     |-> task[r].user,
        file     |-> task[r].file,
        imported |-> 0]]
  /\ pc' = [pc EXCEPT ![r] = "cache"]
  /\ UNCHANGED <<normalized, staged, ledger, audit, task, line, picked>>

CachePreview(r) ==
  /\ pc[r] = "cache"
  /\ staged' = staged \union {r}
  /\ pc' = [pc EXCEPT ![r] = "done"]
  /\ UNCHANGED <<batch, normalized, ledger, audit, task, line, picked>>

-----------------------------------------------------------------------------
(* Verify: verify_and_commit_import and commit_statement_batch *)

\* ImportBatchRepository.get_by_id.  The session keeps this object: the second
\* SELECT in commit_statement_batch returns it without refreshing its status.
BeginVerify(r, u, b, override) ==
  /\ pc[r] = "idle"
  /\ OverlappingVerifies
     \/ \A q \in Requests : pc[q] \in VerifyPhase => task[q].user # u
  /\ task' = [task EXCEPT ![r] =
       [user |-> u, file |-> task[r].file, account |-> task[r].account,
        batch |-> b, override |-> override, loaded |-> batch[b].status]]
  /\ pc' = [pc EXCEPT ![r] = IF OwnedBy(u, b) THEN "lookup" ELSE "refused"]
  /\ UNCHANGED <<batch, normalized, staged, ledger, audit, line, picked>>

\* Mutant: a call that finds no cache entry waits for one.
LookupStaged_Waits(r) ==
  /\ pc[r] = "lookup"
  /\ task[r].batch \in staged
  /\ pc' = [pc EXCEPT ![r] = "recheck"]
  /\ UNCHANGED <<batch, normalized, staged, ledger, audit, task, line, picked>>

\* The cache entry, then the two checks of commit_statement_batch.
LookupStaged(r) ==
  /\ pc[r] = "lookup"
  /\ LET b  == task[r].batch
         ok == b \in staged /\ OwnedBy(task[r].user, b)
     IN  pc' = [pc EXCEPT ![r] = CASE ~ok -> "refused"
                                   [] ok /\ task[r].loaded = "committed" -> "failed"
                                   [] OTHER -> "recheck"]
  /\ UNCHANGED <<batch, normalized, staged, ledger, audit, task, line, picked>>

\* Mutant: only rejected rows are kept out.
CanCommit_Lenient(row, override) ==
  row.status # "rejected" /\ (row.status = "ambiguous" => override)

CanCommit(row, override) ==
  row.status = "verified" \/ (row.status = "ambiguous" /\ override)

\* One turn of the commit loop: the duplicate check is made again, against the
\* ledger without the rows this request has picked (autoflush is off).
RecheckRow(r) ==
  /\ pc[r] = "recheck"
  /\ line[r] <= Len(normalized[task[r].batch])
  /\ LET u   == task[r].user
         row == normalized[task[r].batch][line[r]]
     IN  IF CanCommit(row, task[r].override) /\ TooManyHits(u, row.hash)
         THEN /\ pc' = [pc EXCEPT ![r] = "failed"]
              /\ UNCHANGED <<line, picked>>
         ELSE /\ picked' = [picked EXCEPT ![r] =
                   IF CanCommit(row, task[r].override) /\ ~IsDuplicate(u, row.hash)
                   THEN @ \union {line[r]} ELSE @]
              /\ line' = [line EXCEPT ![r] = @ + 1]
              /\ UNCHANGED pc
  /\ UNCHANGED <<batch, normalized, staged, ledger, audit, task>>

\* Mutant: every previewed row is counted, the skipped ones too.
CommittedRows_AllPreviewed(r) == Len(normalized[task[r].batch])

CommittedRows(r) == Cardinality(picked[r])

\* Mutant: the rows are added and the batch keeps its status.
Closed_StatusKept(b, n) == [batch EXCEPT ![b].imported = IF n = 0 THEN @ ELSE n]

\* The UPDATE leaves imported_rows out when the loaded 0 is assigned again.
Closed(b, n) ==
  [batch EXCEPT ![b].status = "committed", ![b].imported = IF n = 0 THEN @ ELSE n]

Postings(r) ==
  LET b == task[r].batch
  IN  {[user |-> task[r].user, batch |-> b, line |-> i,
        hash |-> normalized[b][i].hash, by |-> r] : i \in picked[r]}

\* One database transaction: the rows, the batch and the audit event.
CommitBatch(r) ==
  /\ pc[r] = "recheck"
  /\ line[r] > Len(normalized[task[r].batch])
  /\ LET b == task[r].batch
         n == CommittedRows(r)
     IN  /\ ledger' = ledger \union Postings(r)
         /\ batch' = Closed(b, n)
         /\ audit' = audit \union
              {[user |-> task[r].user, batch |-> b, by |-> r, rows |-> n]}
  /\ pc' = [pc EXCEPT ![r] = "pop"]
  /\ UNCHANGED <<normalized, staged, task, line, picked>>

PopStaged(r) ==
  /\ pc[r] = "pop"
  /\ staged' = staged \ {task[r].batch}
  /\ pc' = [pc EXCEPT ![r] = "done"]
  /\ UNCHANGED <<batch, normalized, ledger, audit, task, line, picked>>

-----------------------------------------------------------------------------
\* The process dies: the cache and the open transactions are gone.
Restart ==
  /\ staged' = {}
  /\ pc' = [r \in Requests |-> IF InFlight(r) THEN "lost" ELSE pc[r]]
  /\ UNCHANGED <<batch, normalized, ledger, audit, task, line, picked>>

NoBatch ==
  [status |-> "absent", user |-> CHOOSE u \in Users : TRUE,
   file |-> CHOOSE f \in Files : TRUE, imported |-> 0]
NoTask(r) ==
  [user |-> CHOOSE u \in Users : TRUE, file |-> CHOOSE f \in Files : TRUE,
   account |-> CHOOSE a \in Accounts : TRUE, batch |-> r,
   override |-> FALSE, loaded |-> "absent"]

Init ==
  /\ batch = [r \in Requests |-> NoBatch]
  /\ normalized = [r \in Requests |-> <<>>]
  /\ staged = {}
  /\ ledger = {}
  /\ audit = {}
  /\ pc = [r \in Requests |-> "idle"]
  /\ task = [r \in Requests |-> NoTask(r)]
  /\ line = [r \in Requests |-> 1]
  /\ picked = [r \in Requests |-> {}]

Continue(r) ==
  \/ ClassifyRow(r)
  \/ CommitUpload(r)
  \/ CachePreview(r)
  \/ LookupStaged(r)
  \/ RecheckRow(r)
  \/ CommitBatch(r)
  \/ PopStaged(r)

Next ==
  \/ \E r \in Requests :
       \/ \E u \in Users, f \in Files, a \in Accounts : BeginUpload(r, u, f, a)
       \/ \E u \in Users, b \in Requests, o \in BOOLEAN : BeginVerify(r, u, b, o)
       \/ Continue(r)
  \/ Restart

Spec == Init /\ [][Next]_vars

\* A handler that has started is run to its end by the loop or its thread.
FairSpec == Spec /\ \A r \in Requests : WF_vars(Continue(r))
-----------------------------------------------------------------------------
(* Properties that hold however calls overlap *)

\* The source row behind a ledger row, and the row identity deduplication is
\* meant to recognise: the account and the date, amount and description.
Source(b, i) == Content[batch[b].file][i]
Identity(b, i) == <<batch[b].user, task[b].account, Source(b, i).key>>

\* A verify call, whoever makes it and whatever id it names, posts rows only
\* into its caller's ledger and only from a statement its caller uploaded
\* (the tenant checks of imports.py and commit_statement_batch).
TenantIsolation ==
  \A t \in ledger : t.user = batch[t.batch].user /\ t.user = task[t.by].user

\* Rows and batch status become visible together: no reader finds ledger rows
\* of a batch that is not committed, whatever restarts cut a call short
\* (the single session.commit() of commit_statement_batch).
RowsOnlyOfCommittedBatches ==
  \A t \in ledger : batch[t.batch].status = "committed"

\* Zero silent guessing: a ledger row was accepted in the preview, or was
\* ambiguous and the very call that posted it asked for the override.
OnlyReviewedRows ==
  \A t \in ledger :
    LET row == normalized[t.batch][t.line]
    IN  /\ t.line \in 1..Len(normalized[t.batch])
        /\ row.hash = t.hash
        /\ \/ row.status = "verified"
           \/ row.status = "ambiguous" /\ task[t.by].override

\* Deduplication never drops money: every clean source row of a committed
\* statement is in its owner's ledger, from this statement or another one.
NothingLost ==
  \A b \in Requests : batch[b].status = "committed" =>
    \A i \in 1..Len(Content[batch[b].file]) : Source(b, i).kind = "clean" =>
      \E t \in ledger : /\ t.user = batch[b].user
                        /\ Source(t.batch, t.line).kind = "clean"
                        /\ Identity(t.batch, t.line) = Identity(b, i)

-----------------------------------------------------------------------------
(* Properties that need one verify call at a time per user *)

\* No transaction is counted twice: two ledger rows never stand for the same
\* dated amount and description on the same account (the two deduplication
\* tiers of deduplicator.py together with the re-check before insertion).
NoDoubleCounting ==
  \A t1, t2 \in ledger :
    /\ t1.hash # NoHash
    /\ Identity(t1.batch, t1.line) = Identity(t2.batch, t2.line)
    /\ t2.hash # NoHash
    => t1 = t2

\* imported_rows of a committed batch is the number of ledger rows it has.
ImportedRowsMatchLedger ==
  \A b \in Requests : batch[b].status = "committed" =>
    batch[b].imported = Cardinality({t \in ledger : t.batch = b})

\* Nobody but an overriding verify call ever ends in an unhandled exception:
\* is_duplicate_transaction finds at most one row for a real hash.
OnlyOverridesFail ==
  \A r \in Requests : pc[r] = "failed" =>
    task[r].override \/ task[r].loaded = "committed"

\* Every call that has started comes to an end.
CallsEnd == \A r \in Requests : InFlight(r) ~> pc[r] \in Finished

-----------------------------------------------------------------------------
(* What documents and comments say, and the code does not do *)

\* service.py:339: unverified rows are rejected "unless explicitly overridden".
OverriddenRowsPosted ==
  \A e \in audit : task[e.by].override =>
    \A i \in 1..Len(normalized[e.batch]) :
      normalized[e.batch][i].status = "ambiguous" =>
        \E t \in ledger : t.batch = e.batch /\ t.line = i

\* INGESTION.md:93: the rejection is there to prevent a second processing, so
\* the file it refers to has been posted or can still be verified.
RejectedFileIsReachable ==
  \A b \in Requests : batch[b].status = "verified" =>
    b \in staged \/ \E r \in Requests : InFlight(r) /\ (r = b \/ task[r].batch = b)
=============================================================================
