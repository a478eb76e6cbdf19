# Verification of the Buy-or-Wait advisor

TLA+ modules of the purchase advisor under `src/`, the TLC configurations that
check them on small instances, and theorems about them checked by TLAPS.
Definitions keep the names of the code where TLA+ allows it; `PROJECT.json`
maps every definition that models code to its lines.

Contents: 1 the system, 2 the modules, 3 statement import, 4 purchase
evaluation, 5 the decision engine, 6 batch planning and risk, 7 sessions, quotas
and profiles, 8 from transactions to a forecast and back, 9 what is only
model-checked, 10 what is not modelled, 11 findings, 12 plan, 13 how to run it.

## 1. The system

A web service (FastAPI over SQLAlchemy) around a pure decision engine. A user
uploads bank statements, confirms the staged rows, keeps a profile, and asks
whether a purchase should be made now, later, in parts, or not at all.

| part | source | state it keeps | operations |
|---|---|---|---|
| Statement import | `backend/api/routers/imports.py`, `backend/ingestion/` | `_STAGED_IMPORTS` in memory; tables `import_batches`, `transactions`, `audit_events` | upload, preview, verify, get |
| Purchase evaluation API | `backend/api/routers/purchases.py`, `idempotency_repository.py` | tables `idempotency_records`, `purchase_requests`, `decisions` | evaluate |
| Decision service | `backend/services/decision_service.py` | none; writes the two tables above | load, convert, evaluate, persist |
| Data gates, state adapter, purchase validation | `backend/services/` | none | accept or reject the data of an evaluation |
| Engine | `buyorwait_engine/engine.py`, `decision/`, `forecast/` | none outlives a call | ledger, safe amount, earliest date, candidates, ranking, verdict |
| State builder, FX, recurrence, risk | `buyorwait_engine/state`, `currency`, `recurrence`, `risk` | none | derive the financial state and stress it |
| Accounts and tokens | `routers/auth.py`, `backend/auth/` | tables `users`, `revoked_tokens` | register, login, logout, check of a token |
| Quotas and throttling | `auth/rate_limiter.py`, `middleware/rate_limit.py` | windows of request times in memory | count, refuse |
| Profile and accounts | `routers/profile.py`, `accounts.py` | tables `financial_profiles`, `accounts` | read, partial update |
| Explanations, observability, static page | | counters and logs | wording |
| Batch pipelines | `code/`, `v3/`, `dataset/`, `evaluation/` | files of a run | the engine's predecessors over CSV, training of forecasts |

How they interact. An upload runs on the event loop (`async def`, and no await
once the file is read), so uploads exclude each other; verify and evaluate are
plain `def` handlers and run in a thread pool, so they overlap everything. Each
request has a session of its own: its queries see what others have committed,
and what it writes is invisible until its `commit()`. The staging cache is
shared memory and is gone after a restart; the tables stay. Import and
evaluation meet only in the ledger table: a commit of an import changes the data
the next evaluation loads. The engine is called with values and calls nothing back.

What is hard about it:

* check-then-act across transactions: the duplicate check and the insertion of a
  row, the look-up of an idempotency key and its record, the read and the write
  of a profile. Nothing is locked and most of what is checked has no unique index;
* objects loaded before another request commits and used afterwards
  (`batch.status` in `commit_statement_batch`);
* two stores with different lifetimes (the cache and the batch table), and two
  commits of one call with a possible crash between them;
* a forecast evaluated many times, with and without spending changes, from which
  one decision quotes different numbers;
* boundaries: the day of the request, of the deadline, the last day of the
  horizon, a one-cent tolerance, payments before the request; entries exactly as
  old as a window; months that have no 31st; rounding of every conversion;
* the same rules written three times (`code/code`, `code`, `buyorwait_engine`),
  and two services of recurrence that are meant to agree;
* histories: a bill is announced, settled, withdrawn or refunded in any order,
  and each of its rows links to another.

What makes each part correct:

* Import: a row enters its owner's ledger at most once and none is lost; only
  reviewed rows do; rows, batch status and audit event appear together; tenants
  are kept apart; a call comes to an end.
* Evaluation API: all answers to one key agree and rest on something stored;
  conflicts are real; a key is evaluated once.
* Engine: ledgers are the forecast; the safe amount is the largest; plans keep
  the minimum balance and pay in full; nothing better was possible; the parts of
  the answer agree.
* Sessions: no call passes with a revoked token; a window lets through what its
  limit says; a refusal has a cause; an address is registered once; a save
  changes what it names.
* Data path: every bill counts once, whatever became of it; a forecast that
  comes true is made again; nothing is missing behind the gate; what is reported
  of a foreign purchase pays for it.
* Risk and batch programs: the programs agree; the tier says what it means; a
  plan taken for its resistance to stress resists it.
* Statement parsing: what is clear is read as the bank meant it.

`PROJECT.json` lists every part with its status, and under `hazards` each of the
places where one of these things can go wrong.

## 2. The modules

| module | what it is |
|---|---|
| `StatementBook` | abstract: what the import pipeline promises |
| `ImportPipeline` | upload, staging and verify as interleaved requests with restarts |
| `ImportBook` | `ImportPipeline` with its refinement mapping to `StatementBook` |
| `ImportProofs` | theorems about both, about what a committed statement leaves in the ledger, and about what is read of a file |
| `StatementParsing` | from the cells of a file to rows: dialect, dates, amounts, directions, categories |
| `PrintedStatements` | what banks print, and when it is clear what they meant |
| `StatementImport` | the import pipeline with the files that are uploaded to it |
| `AnswerOnce` | abstract: what an idempotency key promises a client |
| `EvaluationApi` | the evaluate handler, its two transactions, crashes; maps to `AnswerOnce` |
| `EvaluationProofs` | theorems about it |
| `DecisionEngine` | one evaluation step by step, and the life of a user who follows the decision |
| `EngineProofs` | theorems about it |
| `BatchPlanning` | the planners of both batch programs as operators on the engine's input |
| `RiskLayer` | stressed states, tiers and policies, and the V3 batch run |
| `FiniteSums` | for the proofs: induction over the subsets of a finite set, sums over finite sets, largest and least numbers |
| `PlanningProofs` | theorems about ledgers as sums, the older batch program and the policies |
| `ParityProofs` | theorems that the engine decides as V2 does and that the tier tells the truth |
| `ServiceSessions` | rate limits, throttling, tokens, registration, profile updates as overlapping calls |
| `SessionsProofs` | theorems about its tokens, registrations, profiles and limits |
| `CalendarDays` | days, months of unequal length |
| `ExchangeRates` | dated rates: direct, reciprocal, bridged, rounded |
| `CashHistory` | transactions, events, what replaces what, home amounts |
| `CashForecast` | the projections of the state builder |
| `RecurringStreams` | recurrence detection and the next dates of a stream |
| `BatchForecast` | the same forecast as the batch programs make it, with messages and pictures |
| `PurchaseService` | a user's money over time and the decision service's evaluations of it |
| `PurchaseProofs` | theorems about it: rates, rounding, reports, the gate, what becomes of bills, and forecasts that come true |
| `MCImport`, `MCEvaluation`, `MCEngine`, `MCSessions`, `MCPurchases` | instances for TLC |

Composition: `ImportBook` and `EvaluationApi` instantiate their abstractions;
`RiskLayer` extends `BatchPlanning`, which extends `DecisionEngine`, so one run
asks all three the same question; `PurchaseService` extends the five modules of the
data path; `StatementImport` puts `ImportBook` and `PrintedStatements` side by side, and
`MCImport` makes the rows of the import runs by reading printed statements with
`StatementParsing`.

A definition named `X_Something` right before `X`, with a comment that begins
"Mutant:", is a plausible bug in the code that `X` models: with it in place of
`X` some property fails. Every checked property has one (`mutants`). No action
uses these definitions.

## 3. Statement import (`ImportPipeline`)

State and code:

| variable | code |
|---|---|
| `batch` | rows of `import_batches`: status, owner, file hash, imported rows |
| `staged` | the keys of `_STAGED_IMPORTS` |
| `normalized` | the rows of a preview, with `dedup_hash` and status |
| `ledger` | rows of `transactions` that have an import batch |
| `audit` | audit events `statement_batch_committed` |
| `pc`, `task`, `line`, `picked` | where a request is, its arguments and the batch status it loaded, the row it looks at, and `to_commit` |

Actions: `BeginUpload` (with the duplicate-file check), `ClassifyRow` (one row of
`stage_and_preview_statement`: hash, in-file duplicate, ledger duplicate,
ambiguity), `CommitUpload`, `CachePreview`, `BeginVerify` (the router's tenant
check and the load of the batch), `LookupStaged` (cache miss, unparsed batch,
status check), `RecheckRow` (one row of `commit_statement_batch`, with the query
against the ledger that may fail), `CommitBatch` (rows, batch and audit event in
one `commit()`), `PopStaged`, `Restart`. A restart may come between any two.

Abstractions. A source row is clean, ambiguous or unreadable, with a key that
stands for its date, amount and description; `StatementParsing` (below) says how a
file becomes such rows, and the runs take theirs from it. A batch is named by
the upload that creates it. The GET endpoints change nothing and are left out.

Runs:

* `import_any_order`: two users, two accounts, one file with each kind of row and
  a repeated one, three requests, all overlaps and restarts. `TypeOK`,
  `TenantIsolation`, `RowsOnlyOfCommittedBatches`, `OnlyReviewedRows`,
  `NothingLost`, `StatementsReadAsMeant` (below), and `CallsEnd` under fairness.
* `import_user_serial`: one user, two statements that overlap in a row, four
  requests, no two verify calls at a time. `NoDoubleCounting`,
  `ImportedRowsMatchLedger`, `OnlyOverridesFail`, `ImplementsBook`.
* `import_double_commit`, `import_override_lost`, `import_stranded_file`:
  counterexamples, section 11.

Bounds. Three requests are an upload and two calls that interfere with it, or two
uploads and a verify; four are two uploads and a verify of each, the shortest
history in which the second statement meets rows of the first. Two keys are
enough for a row that is shared and one that is not. Two tenants and two accounts
are enough for one to be mistaken for the other. Deadlock is not checked in
these runs: once the requests are used up the model stops.

Fairness: weak fairness of `Continue(r)`, the next step of a request that has
started. The event loop or a thread of the pool runs a handler to its end; no
step of a handler waits for another request, except that the loop runs one upload
at a time. Nothing is assumed of arrivals and restarts.

Proved, for any sets of users, files, contents, accounts and requests:
`TypeCorrect`, `TenantsIsolated`, `RowsFollowBatches`, `RowsAreReviewed`,
`NothingEverLost`, and under `OverlappingVerifies = FALSE` `CountedOnce` (no
movement of an account is counted twice), `ImportedRowsCounted`,
`OnlyOverridesRaise`, `PipelineImplementsBook` and `CommittedIsFinal` (an action property: the
batch, the preview and the rows of a committed statement, and what the rows stand for, never
change again; TLC finds it violated when two verify calls of a user overlap).
Assumptions: the named ones of the module (no set is empty, contents are sequences of
source rows, `NoHash` is not a hash).

The argument. `OnlyReviewedRows` and the others speak of the ledger, but whether
a row that is posted was reviewed is decided earlier, from `picked`, and the
tenant of a row from `task`. So `IInv` adds what a request in flight knows:
`Progress` (how much of the preview exists at each phase, and that a batch
belongs to the user and file of its upload), `NormalizedRows` (a preview has its
rows in file order, each with the hash its status implies), `VerifiesOwnBatch`,
`PickedLines` (each picked line passes `CanCommit` under this call's override)
and `PostedRows` (what was true of a picked line is true of its ledger row). For
double counting that is not enough: `SerialInv` adds that a user has one verify
call, `LoadedIsCurrent` (the status it loaded is still the batch's),
`PickedAreFresh` (what it has picked is not in the ledger), `AcceptedRowsDiffer`
(accepted rows of one preview have different hashes) and `HashesUnique`.
`LoadedIsCurrent` and `PickedAreFresh` are what fails when two calls overlap, and
`import_double_commit` shows them failing.

`NothingLost` needs a history of its own, `LossInv`, whatever overlaps: the preview of
a staged statement covers its whole file (`FullPreviews`); a clean row is accepted,
repeats an accepted row or was in the ledger (`CleanRows`), which never shrinks; a
verify call has picked every accepted row it has passed, or has met it in the ledger
(`Rechecked`); so what a commit leaves out is there already (`AcceptedPosted`). The
serial case adds two facts. The hashes asked for by an upload, and by a verify call that
does not override, are real, and by `HashesUnique` a real hash has one hit, so
`scalar_one_or_none()` does not raise. And a batch that is not committed has no rows and
counts none (`Counted`), so that the one commit it gets counts exactly its postings, one
for each picked line.

`StatementBook` is the promise in one page: a statement is closed once, in one
step, with entries that repeat no earlier one. The mapping reads `book` off the
ledger rows that have a hash and `closed` off the batch status. All steps but
`CommitBatch` are stutters, restarts included.

### Reading a statement (`StatementParsing`, `PrintedStatements`)

`StatementParsing` is the code of `dialect.py`, `parser.py`, `normalizer.py` and
`categorizer.py` as operators: `DetectDelimiter`, `Columns` (with the substring
matching of titles), `DetectDateFormat` and `ParseDate` (first format that fits),
`ParseCleanDecimal`, `ResolveAmountAndDirection`, `Categorize`, `ReadStatement`. A
cell is what it looks like: a date with a separator and two numbers, a number with
its notation, a text with the rules it matches. `DetectDelimiter` counts a candidate
where the code finds it, between the cells and in them: `Thousands` in a number, `Separators`
(a constant, any numbers) in a description. `PrintedStatements` turns it round:
a *style* is how a bank prints (`Printed`), `Meant` is what a row should be read as,
and `IsClear` says when nobody could read it otherwise: one column per role, in no row
of the first four more of another candidate than there are separators, a decimal point, a date order that the row or the sampled rows show, no word of the
other direction in a description, a currency that is given or is the default, a
description that is worded like a transfer only if it is one.

`StatementsReadAsMeant` says that clear rows are read with the date, sign, amount,
currency and purpose that were meant, whatever the other rows make of the
format. It speaks of the constants `Styles` and `Statements`: a style is what `IsStyle`
says (some date order with a separator, amounts in two columns or in one with signs or
words), a statement a sequence of movements, each with an amount and the balance after it, both
below a million million. `import_any_order` evaluates it once, before
any request: 784 styles (the layouts of `Layouts`, two separators, seven spellings of
dates, two decimal marks, two currencies) and statements of one of 54 movements, of two,
the second of them one of 6, or of three to five alike whose amounts, balances and
descriptions have commas enough to outvote the semicolons of a narrow file.
`Sampled` is 1 where the code samples ten rows: the second row is then outside the
sample, as an eleventh would be. It is a property of a pure function; what it excludes as
unclear is listed in section 11.

Proved: `ClearStatementsAreRead`, for any styles, statements of any length, descriptions
and number of sampled rows. Assumptions: `StylesAssumption` and `StatementsAssumption`,
which say that styles and statements are of these kinds.

The argument goes from the header to the rows. *Columns*: title by title, each role has a
column of its own as soon as there is one (`Told`, kept by each title in `ToldOn`); a
title of one role may match another, but by then the earlier role takes it, and a second
date or description, which would take another's, is what `ColumnsAreClear` excludes.
*Dates*: the format told from the sample is the bank's or none (`FormatTold`), and whichever
it is, the first of the six that fits a clear date reads it as meant (`SomeFormatFits`).
*Amounts*: one of two columns is blank or nothing (`TwoColumnsRead`); in one column either
the sign tells, or the words of the row, which are those of the description and the
direction's (`RowWorded`, `OneColumnRead`). *Separator*: the titles hold one separator
less than there are columns and nothing of another candidate; each row holds as many
between its cells and, where `SeparatorIsClear`, no more of another in them; so no other
candidate reaches the score of the separator, whatever more of its own the cells hold
(`SeparatorTold`, a sum over the rows, `SumIsNatural`). The clause cannot be weaker by one
per row: TLC then finds a file that is misread.

## 4. Purchase evaluation (`EvaluationApi`)

State and code: `records` is `idempotency_records` (unique per user and key),
`purchases` the rows of `purchase_requests` and `decisions`, `rejections` the
audit events of data that did not suffice, `data` whether a user's stored data
suffices, `pc`, `call`, `found`, `answer` where a call is, what it was given, what
it loaded and what it answered.

Actions: `Receive`, `LookupKey` (replay, conflict or miss), `Load`, `Persist` (the
service's commit, of a decision or of a rejection), `EngineFails` (an error of the
engine, which the payload and the data are enough for), `PersistFails` (rollback and
error), `RecordAnswer` (the router's commit; the unique index refuses a second
record and the call ends in an internal error), `RecordFails` (that commit fails), `DataChanges` (imports and profile
updates between and during calls), `Restart`. An answer is named by the call that
computed it, since its `decision_id` and `created_at` are that call's own: two
answers are equal only if one was replayed.

Abstractions. Payloads are those that pass the validators. What is computed is
reduced to sufficient or insufficient data; sections 5 and 8 model the computation.
`Fragile` are the payloads that the engine may fail on (`decision_service.py:274`), with no
crash: an option whose payments all lie before the request, a price that converts to
nothing. Whether it does is left open, as it hangs on the profile and the rate too. A
commit fails only where `MayCrash`.

Runs:

* `evaluation_any_order`: two users, one key, two payloads, three calls, crashes,
  all overlaps. `TypeOK`, `AnswersAgree`, `AnswersAreFounded`, `ConflictsAreReal`
  and the refinement `ImplementsAnswerOnce`.
* `evaluation_serial`: two users, two keys, calls of one key one after the other,
  no crash; the engine may fail. `OneEvaluationPerKey`, and `FailuresStoreNothing`: a
  call that ends in an internal error has stored nothing and had a fragile payload.
* `evaluation_double_click`: a counterexample, section 11.

Bounds. Three calls are the first evaluation, one that races it and a retry of
either; a fourth would repeat one of these roles. One key shared by two users
shows the tenants apart; two payloads show the conflict. Calls run out only in
states where nothing but a change of data or a restart is left, both of which
are always possible, so deadlock is checked. Permuting calls and keys is sound: no
definition names one.

No fairness is assumed and no liveness is stated: a call that dies is never
answered, and a call that lives has no step that waits.

Proved, for any number of users, keys, payloads and calls: `TypeCorrect`,
`AnswersAlwaysAgree`, `AnswersAlwaysFounded`, `ConflictsAlwaysReal`,
`HandlerImplementsAnswerOnce`, and for serial calls without crashes
`SerialKeysEvaluateOnce` and `SerialFailuresStoreNothing`: the engine is the only reason to
fail, so no such call stores its evaluation and is then refused by the unique index, as the
overlapping ones of section 11 are. Assumptions: a key is not the missing key, no answer is
not an answer, users and payloads exist.

The argument. Agreement of answers cannot be shown from answers alone, as two
calls may hold two different results until the unique index lets one of them in.
`IInv` therefore says: a call tells its client nothing before it is done; it
reaches `record` only with its evaluation stored; records are founded on a stored
evaluation and unique per user and key; every answer to a call with a key is the
one recorded. From the last two agreement follows. The serial invariant adds that a
call that has looked up its key in vain finds the key free, and nobody else's
evaluation of it stored, until its own record.

## 5. The decision engine (`DecisionEngine`)

State and code. `in` is the `FinancialState` and the `PurchaseProposal`; `todo` the
combinations of `enumerate_spending_change_combos` still to be evaluated;
`changes` the present one; `toAdd`, `net` the daily maps under construction;
`current`, `running`, `ledger`, `lowest` the loop of `build_ledger`; `built` the
finished ledgers; `candidates` the list `all_candidates`; `decision` the result.
`forecast`, `today` and `balance` are no code: they are the life of a user who does
as told while the forecast comes true, which is what the documents promise
something about.

Actions: `StartLedger`, `AddStream` (one debit stream on its way into the maps,
stopped or reduced), `OpenLedger`, `CloseDay` (one day), `GenerateCandidates`
(safe amount, earliest date and the four kinds of plan), `Fail` (an option whose
payments all lie before the request leaves `min()` nothing to look at),
`Recommend` (ranking, verdict and report), `Advise` (no feasible plan), then
`Accept` and `LiveDay`. The order in which streams are added is any order.

Abstractions. Money is whole in the smallest unit, days count from the request. A
plan is a function from a day to what has been paid by its end. Of the earliest
date the model asks what `find_earliest_full_payment_date` returns, the first
solvent day, without its loop. Credits and debits that no change can touch are
given as one net flow. Texts are left out; the risk layer, which with the default
policy changes nothing of the decision, is `RiskLayer` (section 6). Ties of equal
rank and equal method are broken in any way, where the code keeps the user's order.

Runs:

* `engine_mixed`: some five thousand evaluations (three balances, incomes and
  debits around the amounts, two amounts, three deadlines, three mixes of methods,
  protected and stoppable categories, options that are cheap, dear, late or in the
  past), each from the first combination to the last day of the life after it. Of
  the engine: `TypeOK`, `LedgersAreForecasts`, `ChangesNeverHurt`,
  `PlansKeepTheFloor`, `InstallmentsKeepTheFloor`, `SafeAmountIsLargest`,
  `PlansPayInFull`, `NoMissedChance`; the rest is section 6.
* `engine_wait`: a counterexample, section 11.

Bounds. The horizon is three days instead of 90, which leaves a first day, a last
day, a deadline between them and a payment after a deadline. The
tolerance is one unit. Two spending changes at once, of three streams that
differ in flexibility and category, give single, combined and useless changes. The
balances, incomes and debits put the lowest balance of a ledger today, in the
middle or last, above and below what the purchase needs. The theorems hold without these bounds.

Proved, for any horizon, tolerance, number of changes, streams and inputs:
`TypeCorrect`, `SafeAmountAlwaysLargest`, `NoChanceEverMissed`,
`BuyAlwaysMeansNow`, `PlansAlwaysPayInFull`, `PlansAlwaysKeepTheFloor`,
`InstallmentsAlwaysKeepTheFloor` (`EngineProofs`), `LedgersAlwaysForecasts` and
`ChangesNeverMakeWorse` (`PlanningProofs`). Assumptions: the horizon, the tolerance and the
number of changes are natural numbers, there are finitely many streams (the state
holds a list of them), "no date" is not a number, and inputs are
of the type the domain classes and the state builder give them. In particular
nothing falls due on the day of the request (`builder.py` projects from the next day).

The argument. The properties speak of the decision and the life after it, the
code decides on ledgers that are gone by then. So `IInv` keeps them:
`ScanInv` (the days closed so far, each the day before plus its net, with the
lowest), `BuiltInv` and `BuiltOnce` (each combination has one finished ledger,
complete and with its earliest date), `CandidatesSound` (a feasible candidate
keeps the floor on the ledger of its own changes, to the horizon or, of
installments, to the last payment), `CandidatesComplete` (where a full payment is
possible in time a feasible candidate for it exists), `DecisionSound` and
`LifeInv` (the balance is the ledger of the changes made, less what was paid).
That the earliest date is solvent to the last day is why partial plans and waits
keep the floor beyond their last payment; installments have no such argument:
`is_plan_safe` looks at the balances up to the last payment only
(`safe_amount.py:74`), and `InstallmentsKeepTheFloor` promises no more.
`NoMissedChance` combines completeness with the order of `_rank_key`
(`BestIsNoWorse`): where the full amount can be paid on some day up to the deadline, the
purchase is recommended and paid by the deadline. Unless the plan does without changes that
the payment on that day needs, it costs no more than the price and a wait goes no further
than that day. If that day needs no changes, none are asked for, nor is the second of two
parts later. Of installments it names no day but the deadline.
`BuyMeansNow` (a BUY is a full payment today without changes) is
proved, and checked as a part of `RiskTierHolds`.

That a ledger is the forecast compares a loop over streams and days with a sum over
both. `MapsInv` says of the daily maps under construction that each day holds its flow
less the debits of the streams added so far, `NetsInv` that each finished ledger was
closed over complete maps. The sums are folds, which the library defines by recursion
over a chosen element: `FiniteSums` shows that such a sum exists, does not depend on
the choice (`SumTakes`), grows by what is added (`SumAdds`) and is monotonic. With that,
the balance of a day is the day before plus its net (`ForecastSteps`), and the ledger
is the forecast by induction on the days (`LedgerIsForecast`). As an eligible change never makes
a debit larger (`ChangesSave`), more changes lower the sums, and no balance falls
(`ForecastsRise`).

`FloorIsKept` is what a document says (section 11). Two properties tell what of it is
true: `PlansKeepTheFloor` for those who make the planned changes, and
`InstallmentsKeepTheFloor` up to the last payment.

## 6. Batch planning and risk (`BatchPlanning`, `RiskLayer`)

`BatchPlanning` is the planner of `src/code` (V2) and of the older `src/code/code`,
from the state to the validated row of `output.csv`: `EligibleChanges`,
`ChangeCombos`, `DebitMap` and `BuildLedger`, `SafeToPay`, `PlanIsSafe`, the four
kinds of plan, `SelectBest`, `MakeDecision`, `OlderDecision`, `Coerced`,
`ValidationErrors`, and `Answers`, where an exception becomes an answer. The
programs keep nothing between requests, so these are operators on an `Input` of
`DecisionEngine`, written from their own code: they put the payments of a plan into
the daily maps, where the engine subtracts them from a finished ledger. The two
differ in the tolerance of `is_plan_safe`, in the changes announced with a wait and
in the date named with a refusal.

`RiskLayer` adds the stressed state (`StateWith`: the recurring debits of some
streams at their P90, all amounts in thousandths so that the factors are whole),
the tier (`ClassifyRisk`), the three policies (`ApplyRiskPolicy`), and the run of
`main_v3.py` (`V3Answers`), which an exception stops.

They are checked on every decision of `engine_mixed`:

* `AgreesWithBatch`: for whatever the engine decides, V2 has the same method, status,
  plan, changes, amount and date, and validates it without complaint; where the
  engine fails V2 answers with an error. Parity is a promise of
  `ENGINE_CONTRACT.md`, tested by examples.
* `OlderIsStricter`: what the older program recommends keeps the minimum balance to
  the cent with the changes it announces, and V2's recommendation is no worse.
* `RiskTierHolds`: stress never raises the safe amount; at LOW_RISK the price can
  be paid today whichever subset of the recurring expenses turns out at its P90; the
  breach is reported exactly above it; BUY is never HIGH_RISK; what is not HIGH_RISK
  and may be paid in full is not put off.
* `PoliciesWithstandStress`: a policy other than the shadow policy pays at once and
  without conditions only at LOW_RISK, and a plan it puts in the place of V2's is
  safe in the stressed forecast.

Bounds: those of section 5, with the factor 1.25 on one category and one below 1 on
the other, which the code ignores; two of three streams recur, the third is
scheduled and stays unstressed.

All four are proved, for any horizon, tolerance, streams, factors and inputs:
`EngineAlwaysAgreesWithBatch`, `TierAlwaysTellsTheTruth` (`ParityProofs`),
`OlderAlwaysStricter`, `PoliciesAlwaysWithstandStress` (`PlanningProofs`). Assumptions:
those of section 5; a thousandth is a positive part of a unit, factors are natural
numbers, recurring streams are streams.

Parity, the argument. Each program builds ledgers of its own, so first the ledgers: the
engine's is the one of V2 without payments (`LedgersAgree`), hence safe amounts, solvent
days and earliest dates agree. Then the payments. V2 debits the dict of a plan's payments
in the daily map, the engine subtracts from a closed balance what the plan has paid by
that day: both are the same number (`PaymentsLower`), and the dict of an option, which
adds up instalments of one day, pays what the engine's plan says (`OptionIsPaid`, by
counting instalments). So a plan is safe for one if it is for the other, the tolerance
included (`SafetyAgrees`), and for each combination the feasible candidates are the
feasible plans (`CandidatesAgree`). `SearchInv` carries this through the search, one
combination after the other, until none is left; `DecisionInv` keeps what a decision was
made of. The two rank by different keys (V2 by a tuple of tuples), which are shown to
order alike (`KeysCompare`, `RanksAgree`). Last, what V2 does to its answer afterwards,
coercion and validation, changes nothing and finds nothing (`CoercionKeeps`). V2 falls back
exactly where the engine fails: an option that ends before the request, and nothing else
(`OutcomeInv`, `RaisesIsPast`).

The others. A plan of the older program keeps the minimum to the cent, so it keeps it
within the tolerance (`OlderPlansAreFeasible`), and the best plan of V2 ranks no worse
than one of its own plans. The answer of a policy is the decision for the stressed
state or that of V2 (`PolicyTakes`), and what the program decides was found safe in the
state it was given (`AnswerOf`, `FeasibleIsSafe`). For the tier: the more streams are hit,
the more falls due on every day (`StressCosts`, a monotonic sum) and the lower are all
balances (`StressLowers`), so at LOW_RISK, where all are hit, each subset can be afforded;
and the state in thousandths is the state times a thousand, sums included
(`BalancesScale`), so that the tier speaks of the engine's own decision.

## 7. Sessions, quotas and profiles (`ServiceSessions`)

State and code: `account` is `users.status`, `token` what `create_access_token`
issued, `revoked` the table `revoked_tokens`, `profile` the table
`financial_profiles`, `audit` its events, `window` and `failed` the two dictionaries
of `RateLimiter`; `clock` counts seconds; `pc`, `call`, `answer` where a call is and
what it asked and got; `seen` and `base` the profile that a save loaded and the
object it writes to. `dead` (tokens revoked before the call arrived) and `log` (what
the limits did) are history.

Actions: `Arrive` (the middleware's count or refusal), `CheckToken` and
`ResolveUser` (`get_current_user`), `LookupEmail` and `CreateUser`,
`CheckThrottle`, `CountLogin` (the handler counts a login again),
`VerifyPassword`, `Revoke`, `ShowProfile`, `LoadProfile`, `MergeProfile` (the second
query of `save_or_update`, which returns the loaded object, or a row that has come
into being), `SaveProfile` (the flush writes the columns that differ from what was
loaded), `Tick`, `Suspend` (by an operator; no endpoint does it), `Restart`.

Abstractions. Passwords are strong or weak, right or wrong. A bucket is an address
and whether a token is sent, since the sixteen characters the middleware takes of a
token are the same in every JWT. Of the four categories two are modelled; they
differ in their limit only.

Run `sessions_any_order`: two users, two addresses, three calls, all overlaps, two
seconds, a suspension, restarts: about a million states.

* `RevokedStayOut`: a token revoked before a call arrived opens nothing to it.
* `QuotaHolds`: no window, wherever it begins, lets more through than its limit.
* `RefusalsHaveCauses`: who is refused is refused for calls that were let through
  within the window, or for failed logins within the cooldown, not for refused ones.
* `RegisteredOnce`: of overlapping registrations of an address at most one succeeds, with
  its account and its audit event, and one is turned away or fails only because another
  has made the account before: they do not all fail.
* `UnnamedFieldsKept` (action property): whatever saves overlap, a field changes
  only by a save that names it, or that began when there was no profile.

Bounds. The limits are 2 and 5 for a window of two seconds: three calls reach the
first, logins, which count twice, the second. Two failures within two seconds
throttle for one. Two seconds let an entry become exactly as old as its window and a
token expire. The constraint `OneStory` keeps the calls of a behaviour within one of
four mixes (registering and logging in; good and failed logins; log-ins, log-outs and
reads; saves, a log-out and a refused call): calls of different mixes share no state.
Permuting calls is sound: no definition names one. Deadlock is not
checked: calls run out. No fairness is assumed: a call that dies is never answered.

Proved, for any number of users, addresses, calls, tokens, fields and requests and
any limits: `EverythingTyped`, `RevokedNeverEnter`, `AddressesRegisteredOnce`,
`UnnamedFieldsAlwaysKept`, `QuotasHold`, `RefusalsAreCaused`. Assumptions: tokens of calls and earlier ones differ,
"no token", "no profile" and "omitted" are none of their kind, and the default
payment methods are not the empty list.

The argument. A revoked token is named by a call that was counted before, so
`IInv` says that the tokens revoked at its arrival stay revoked (`DeadStayRevoked`)
and that beyond `token` no call with one of them is (`RevokedStayOut` itself). For
registrations it adds that whoever is on record has an account, and that two on
record with one address are one (`Registrations`); the unique index is what keeps
this. For saves it says (`Saves`) that a save with a loaded profile writes to that
very profile, and that no stored profile has an empty list of methods: otherwise a
save that names nothing would replace the list by the default and so change it.

The limits have an inductive invariant of their own on top of it, `LimitsInv`. The limiter keeps lists of times and forgets what has left the
window; the properties speak of what was let through, which `log` remembers. The lists
are in the order of time (`Lists`), so what is recent is their end. As far back as a
window reaches, a list holds as many times as the log has requests
(`WindowsCount`); a list of failed logins holds at most those, since a good login
clears it (`FailuresCount`). `LogTyped` says that a call in the log has passed the point
where it was logged: an entry is never made twice, which would be lost in a set. An
interval of the window's length ends, for each of its requests, no later than at the
clock; so it holds no more than a list did when the last of them was let through.
The model reads the clock and takes the lock in one step; the code reads the
time just before the lock (`rate_limiter.py`).

## 8. From transactions to a forecast and back (`PurchaseService`)

State and code: `world` is a user with what they may ask and live through, `rows`
the table `transactions`, `cash` the balance the user keeps in the profile, `stage`
what became of each bill, `today` the date; `pc`, `ask`, `worth`, `state`,
`decision`, `answer` are an evaluation by `decision_service.py`; `batch` is the state
of the batch program; `lived` what is left of the forecast the user lives after.

Actions: `Announce`, `Confirm` (a scheduled bill is announced again as pending), `Settle`,
`Withdraw`, `Refund` write the rows of a bill, each linked to the one before; `PassDay` pays what the last forecast says of the day;
`Ask` (validation), `Gate` (`DataQualityEvaluator`), `Convert` (to the home
currency), `Build` (reconciled balance, filtered rows, resolved events, projections)
or `Hang` (a projection that does not end), `Decide` (any decision of the kinds the
engine makes) or `EngineFails` (an option that ended before the request), `Report` (back to the currency of the purchase), `Persist`
(committed, or rolled back), `RunBatch`.

Below them: `CalendarDays`; `ExchangeRates` (`Rate`: the latest on or before the day,
its reciprocal, a bridge over USD, then over EUR, each rounded; `Converted`);
`CashHistory` (`Counts`, `EventOf`, `Replaces`, `CashType`, `Resolved`, and the
batch program's `BatchWorth`); `CashForecast` (`FixedItems`, `Burn`, `SalaryItems`,
`Scheduled`, `Reserved`, `EngineState`); `RecurringStreams` (`StreamsOf`,
`NextDates`); `BatchForecast` (evidence of messages and pictures, the projections of
both batch programs).

Run `data_path`, with the properties

* `CountedOnce`: a bill counts once in the state of the engine and of the batch
  program: as a debit to come, as reserved money, as spending of the past, or not at
  all; after any sequence of announcing once, paying, withdrawing and refunding. A bill
  announced as scheduled and again as pending is the exception, and the property says
  what becomes of it: the code does not let the second row replace the first
  (`builder.py:82`), so until its due day the bill is a debit to come besides whatever
  else it is, even when it has been paid since;
* `ForecastComesTrue`: after days that were lived exactly as forecast, the next
  forecast says the same of every day both look at;
* `GateSuffices`: behind the gate an evaluation fails for four reasons only: a price
  below half a cent at home, an option that ended before the request, a decision whose
  commit is rolled back, and wages less than half a day apart, whose projection does not
  end. No rate of the price or of an account, no balance and no history is missing there.
  The rates of the rows are not the gate's: without one a row keeps its foreign amount;
* `ForeignPlansAddUp`: two parts pay the price exactly, other plans but for
  rounding (a bound derived from the rate), on the days that were decided;
* `StreamsAgreeWithForecast`: the streams shown and the forecast name the same dates
  of a regular monthly bill, except in the month of its last payment.

The worlds (`MCPurchases`). *Lives*: months of rent and wages with changing amounts
and early payments, followed to June after the forecast of the engine or of a batch
program, with messages about pay and rent and a picture for a missing amount. *Bills*:
pairs of three bills due today, tomorrow or later, in any order of events over three
days. *Abroad*: purchases of four amounts in four currencies for three homes on two
days, between which the only rate of one currency appears and that of another moves.
*Doubtful*: every gate shut in turn. *Stale*: the 90th and the 91st day. *Daily*: wages twice a
day. The calendar has nine months of 2026, so that months of 28, 30 and 31 days meet.
The horizon and the look-back are the code's 90 days. `Precision` is 1000 instead of
10^8 and rates are small, since TLC's integers have 32 bits: rounding is then coarser,
and `TwiceLoss` scales with it. The worlds avoid bills on the 31st, months of missed
pay and, for the program V2, bills seen once: there a forecast that comes true is
not repeated, as the most frequent day moves. Trimmed means over symmetric data are
modelled by the median.

No liveness is stated: the evaluation is sequential and `Hang` is its one way not to
end. `Rest` lets a finished world stutter, so deadlock is checked.

Proved, for any rates, precision, calendar, bills and worlds: `ForeignPlansAlwaysAddUp`,
`GateAlwaysSuffices`, `EachBillCountsOnce`, `RegularForecastsComeTrue`,
`RegularStreamsAgree` and `EngineInputsAreTaken`. TLC looks at rounding with a `Precision` of 1000; the theorems
hold for the code's 10^8. Assumptions: the named ones (rates and precision are positive,
months have 28 to 31 days, a world's rows, bills and accounts and the lists of categories
are finite, salary is in neither list, ids and due dates are numbers).

`EachBillCountsOnce` is `Spec => [](Quiet(world) => CountedOnce)`: for any number of bills,
of any amounts and due dates, in any order of what happens to them, with or without a second
announcement, with evaluations and
batch runs anywhere between. `Quiet(w)` says that the bills are all that is still to come,
and recognizable: the older rows are settled, no two have the same identifier, and they
share none, nor a link, nor a category with a bill; transfers, which are filtered out, are
not bills; and the user lives for no longer than spending is looked back on. Without
these clauses the two sides of `CountedOnce` count more than bills (another pending debit,
older spending of the category), or spending has passed out of sight. Nobody reads messages
(an amended rent is another rent) and no forecast is lived after. The assumption
`BilledAreQuiet` of `MCPurchases` shows that the run's users with bills are of this kind.

The argument. `RequestInv` says what each step of an evaluation relies on: behind the gate
that there are rates and balances (`Passed`), after the conversion that `worth` is the
price at home, that a decision is a possible one and an answer the report of it. A
quantized quotient is at most half a unit off (`RoundedIsNear`); the price at home is
converted back at a reciprocal that is rounded too, and the three losses add up to
`TwiceLoss` (`RoundTrip`). A failure is then either a price that rounds to nothing, or came
before the gate. For the projection that does not end: the mean of the intervals of the
recent salaries rounds to no days, so there are more than two of them a day; any such
series has three events within three days (`CrowdedDays`, by induction over the days);
and each event is one of the user's rows, of which there are finitely many (`RowsInv`,
through every action that writes rows, and through the forecasts they are written after).

For the bills `CountedOnce` is not inductive, as it says nothing of rows: `BillsInv` adds
that the rows with a bill's numbers tell its `Story` (what was announced, perhaps twice, then settled or
withdrawn, then refunded, each linked to the one before), and `StatesCurrent` that a state is
the one of the rows there are. Each action of the bank writes the next row of one story and
disturbs no other (`BillSteps`). Then, without time: of the events of a story at most one is
not superseded and not void, and it is the `Outcome` of the bill's stage, but for the first
announcement of a bill announced twice, which is `Kept` (`OutcomesStand`);
resolution keeps it with its amount (`ResolvedIsCleared`, for the engine and for the batch
program); and since outcomes and bills correspond one to one, sums over them agree
(`TotalsOfBills`, from `SumOfImage`), for the reserve, for what is scheduled and for the burn.

`RegularForecastsComeTrue` is `Spec => [](Regular(world) => ForecastComesTrue)`, and
`RegularStreamsAgree` says the same of `StreamsAgreeWithForecast`: for any number of bills
and any pay, over any months, whenever the user asks or the batch program runs. `Regular(w)`
says of the user's history, each clause for a reason:

* the rows are settled incomes and expenses and nothing is announced: nothing else than
  the days that pass changes the rows, or takes one back;
* `Punctual`: each bill, and the pay, has one event a month from some month until now, on
  a day of the month of its own that every month has (1 to 28), and positive amounts. The
  forecast takes the most frequent day of the month: after a payment on the 31st, or a
  month that was missed, the most frequent day may become another;
* the days lived after a forecast are within its `Horizon`;
* for the batch programs, the same amount every time in the home currency, no messages and
  no unread amounts, and for the older one no variable spending. They take the mean of the
  two middle amounts, which moves when it is paid, and read rent and pay from messages. The
  engine takes the upper one of the middle amounts, and its forecasts come true whatever the
  amounts are.

`HabitualAreRegular` in `MCPurchases` shows that the run has users of this kind, one for
the engine and one for each batch program; its other users are beyond the theorem.

The argument. Neither property is inductive: `RegularInv` adds that the history stays
punctual up to today, as each day that passes pays what was due (`DayPays`,
`PunctualGoesOn`), and that a forecast, of the state, of the batch program or the one lived
after, `Tells` just what is due: for each bill its day in each coming month, with the
amount the history gives now. The calendar is an induction over months (`EveIs`, `DateIs`,
`DatesGrow`). The events of a bill are a `Series`, one of each month; the most frequent day
is its day and the last six are those of the last six months. Paying the upper median of a
window leaves the upper median of the next window what it was (`WindowMedianStays`); so the
engine says the same amount after each payment. `EngineForetells` and `BatchForetells` then
compute both projections, and what two forecasts tell of the days both look at is what
`Coming` names, the same for both. For the streams: those of a regular bill are one group
(`GroupOfBill`), and a stream the code takes for monthly is next due on the same day of the
months after its last payment (`StreamOfHabit`), where the forecast has it too.

`EngineInputsAreTaken` is `Spec => []EngineInput` and joins this module to `DecisionEngine`,
whose theorems take their inputs from `Input` (§5). Whatever the user has recorded, lived
through and asked, what passes validation and the gate is of that kind: the balance is a
number and the floor a natural one, the price at home is positive (a price that rounds to
nothing has failed before), what is due falls after today and within the horizon with
amounts that are not negative, and daily spending covers the days after today and no other,
so nothing flows today (`flow[0] = 0`). It holds of every state the adapter builds and as
long as it is kept. Besides `RequestInv` and `RowsInv` the invariant has `MoneyInv` (rows
have amounts, and no bill or pay of a forecast is negative) and `InputInv`; sums over accounts
and the forecasts of streams are taken apart as far as that needs (`RecentOf`, `LastIsOne`).
The streams of the engine are not part of the statement: they are built from the same rows
by `RecurringStreams`, and are compared with the forecast by `RegularStreamsAgree`.

## 9. What is only model-checked

* `CallsEnd`: liveness under fairness is out of the prover's reach.
* `ForecastComesTrue` and `StreamsAgreeWithForecast` of users who are not `Regular`
  (section 8): the run has some who pay early or late, write to the bank, or have a picture
  for an amount. Nobody could prove them for all: they fail for some histories, as said there.
* `CountedOnce` of users who are not `Quiet` (section 8): the run has such users too.

`TypeOK` of `PurchaseService` is stated for the reader.

## 10. What is not modelled, and why

* Read-only endpoints: they change nothing, and show what modelled parts store.
* Explanations, logs, metrics, the web page, migrations: wording or I/O.
* Upload checks and the quarantine copy: size, type and name of a file, and a copy
  that nothing reads.
* Of the batch programs: reading of CSV files, reports, plots, and the training and
  scoring of forecast models (`v3` apart from its risk engine, `evaluation/`).
* Of the profile component: accounts are created and listed, nothing else; imports
  do not change `current_balance` and no endpoint updates it.
* Of validation: the spelling of a request's fields. A request is dated the day it
  is made; the code takes the date from the client.
* Time in the evaluation API: records are looked up whatever their age, as the
  code has no expiry for them (API_SPEC.md:309 speaks of 24 hours).

## 11. Findings

Each has a run in which TLC finds the counterexample.

| run | what the code does | what is said |
|---|---|---|
| `import_double_commit` | overlapping verifies of one statement post every row twice (`service.py:371`) | INGESTION.md:93, :100, `service.py:352` |
| `import_override_lost` | overridden rows share the empty hash: the second one of a user is skipped as a duplicate of the first (`service.py:183`) | `service.py:339` |
| `import_stranded_file` | after a restart a verified batch can neither be verified nor uploaded again (`imports.py:30`) | INGESTION.md:93 |
| `evaluation_double_click` | two overlapping calls with one key both persist (`purchases.py:47`) | API_RUNTIME.md:121 |
| `engine_wait` | a wait computed with spending changes is reported without them (`ranker.py:235`) | DOMAIN_MODEL.md:267 |

Seen while modelling, in the models or beside them, without a run of their own.

Import and evaluation calls:

* two ledger rows with the empty hash make a third override fail with
  `MultipleResultsFound` (`deduplicator.py:78`), which `OnlyOverridesFail` exempts;
  an overridden row has the amount 0 and stays unverified, so no evaluation sees it;
* only verified and committed batches count as a duplicate file: one that needs
  review can be uploaded again;
* a crash between the two commits of an evaluation makes a retry persist a second
  one (`decision_service.py:391`, `purchases.py:195`); the slower of two
  overlapping calls ends in an internal error where API_SPEC.md:313 has a 409.

Reading statements (what `IsClear` leaves out):

* dates that can be read both ways are not flagged, though INGESTION.md:8 has them
  flagged: month-first dates with hyphens, or in files whose sampled rows do not
  decide, are read day-first, and one file may be read in two conventions;
* DR and CR words anywhere in a row turn its sign: "CREDIT CARD PAYMENT" of -50
  becomes +50; a decimal comma is dropped: "12,50" is 1250, "1.234,56" is 1.2346;
* titles match by substring ("cr" in "description"): a second column of dates or
  descriptions may become the amounts, and every row is rejected. A file whose columns
  are not found is staged as verified without rows, and then is a duplicate;
* commas of amounts, balances and descriptions count as separators (`dialect.py:77`):
  where they outnumber the semicolons of the first five lines, the comma is taken for
  the separator, no columns are found and no row is read;
* rows without a currency are taken as USD; payments by Venmo, Zelle or wire are
  categorized as transfers and left out of evaluations; "uber eats" is transport;
* two equal movements of one day are one duplicate, and the hash has no currency.

Engine and risk:

* an installment option that ended before the request fails the whole evaluation;
  in V3 (`main_v3.py:147`) it stops the run with the answers to all other requests;
* debits after the last installment are not looked at (`safe_amount.py:74`);
* a partial plan with changes quotes the safe amount without them
  (`ranker.py:167`), and the date of a wait may differ from
  `earliest_date_for_full_payment` (`ranker.py:230`, EXPLANATIONS.md:15);
* `ledger.py:91` looks for `[daily burn]`, which `builder.py:227` writes as
  `[recurring daily]`; both branches give the same minimum;
* `risk_adaptive` keeps installments of V2 that no stressed forecast was checked for.

Sessions and data path:

* quotas are per address, where FINAL_ARCHITECTURE.md:104 has them per user, and a
  login counts twice in its bucket (DEPLOYMENT.md:64 allows five a minute);
* two saves of one profile write the same version, and the second of two first saves
  overwrites fields of the first with its defaults;
* an amount without a rate is kept as it is (`builder.py`), where
  FINANCIAL_STATE_ADAPTER.md says that no rate is guessed;
* a scheduled bill that is due today or overdue is in no forecast;
* a bill announced as scheduled and again as pending counts twice, also in the batch
  program (`event_lifecycle.py:127`), whose comment on linked events says that they are
  deduplicated and the later status preferred (`event_lifecycle.py:14`): only a settled, void
  or refunded row replaces another;
* a partial plan of a foreign purchase is rewritten from the baseline amounts
  (`decision_service.py:289`): with changes its second date may move past the
  deadline, and the first part may be nothing;
* a raise that was announced is forgotten once an ordinary salary follows; a rent
  amended by a percentage may be amended again.

## 12. Plan

What is left: composition of `ImportPipeline` with `EvaluationApi` over the shared ledger:
an evaluation sees whole statements only.

## 13. Running it

    tlc -workers 2 -config MCImport_anyorder.cfg MCImport
    tlapm EngineProofs.tla

The `about` of each run in `PROJECT.json` says what it shows. The longest runs are
`engine_mixed` (two minutes), `data_path` and `sessions_any_order` (a minute and a
half each) and `import_any_order` (over a minute); the proofs take about a quarter
of an hour, six minutes of it for `PurchaseProofs`.
