# FAB in TLA+

FAB is a local-first bookkeeping automation: it takes in receipts and bank
data, reads them, drafts bookkeeping operations, waits for an operator's
approval, submits to Wave or prepares files for MijnGeldzaken, proves that the
receipt is attached there, and archives the source. This directory holds TLA+
models of the parts where order, failure and concurrency decide whether the
books are right; the TLC configurations that check them; and theorems about
them that TLAPS checks.

Paths are relative to the repository (`src/operations/x.py` is
`src/src/operations/x.py` in the map of `PROJECT.json`).

| Module | Models | Run through | Theorems |
| --- | --- | --- | --- |
| `ExportAttempts` | approval, claim, execution and result of an export | `MCExportAttempts`, `MCExportHistories` | `ExportAttempts_proofs` |
| `AutonomyCycle` | autonomous cycle, emergency stop, workflow recovery | `MCAutonomyCycle`, `MCAutonomyHistories` | `AutonomyCycle_proofs`, `MCAutonomyHistories_proofs` |
| `DriveWaveDelivery` | Wave readback evidence and archiving of Drive sources | `MCDriveWaveDelivery`, `MCWorkerPasses` | `DriveWaveDelivery_proofs` |
| `SourceRecovery` | collection from connectors and its recovery, pass after pass | `MCWorkerPasses` | |
| `HaiCommands`, `RequestJournal` | commands of the HAI connector, and what they promise | `MCServices` | `HaiCommands_proofs`, `MCServices_proofs` |
| `ReceiptExecutor` | work orders of the browser that uploads receipts | `MCServices` | `MCServices_proofs` |
| `BackupRestore` | recovery packages and restores | `MCServices` | `MCServices_proofs` |
| `LedgerSchema` | opening and upgrading the ledger file | `MCServices` | `MCServices_proofs` |
| `WaveMirror` | paged mirror of Wave's entities | `MCServices` | `MCServices_proofs` |
| `GoogleSignIn`, `PhotosPicker` | OAuth token of a Google source, Picker sessions | `MCServices` | |
| `SecretStore` | encrypted secrets and their copies | `MCServices` | |
| `ReportSlots`, `Compliance`, `HealthRules`, `HealthInbox` | scheduled reports, assessments, issues and notifications | `MCServices` | `MCServices_proofs` |
| `RateLimiter` | windows and daily quota of a service | `MCServices` | |
| `ConnectorIntake` | collecting documents from mail and folders | `MCDocuments` | |
| `DocumentPipeline` | from imported document to draft: duplicates and reviews | `MCDocuments` | |
| `LedgerRepairs` | repairs of what earlier versions left | `MCDocuments` | |
| `BankImport`, `Reconciliation` | bank statements and their matches | `MCDocuments` | `MCDocuments_proofs` (imports) |
| `DraftRoutes` | routes and drafts of documents and transactions | `MCDocuments` | `DraftRoutes_proofs`, `MCDocuments_proofs` |
| `LegacyPosting` | posting queue of installations without a ledger | `MCDocuments` | `MCDocuments_proofs` |

`tlc -config X.cfg MCModule` runs a configuration, `tlapm M_proofs.tla` checks
the proofs of a module.

## 1. Inventory

### How the system runs

* One SQLite file, the **operations ledger** (`src/operations/local_ledger.py`),
  holds all shared state. Every ledger call opens a connection and is a
  transaction of its own. Few of them compare before they set: the claim of an
  export attempt, the acquisition of a runtime lease, the claim of a report
  slot. All others write what the caller computed from a row it read earlier.
* The **local API** (`local_api.py`) serves requests on several threads of a
  WSGI server. It has no lock around changes, so two requests run a handler of
  the same service on the same row at the same time.
* The **worker** (`src/worker/scheduler.py`) is a separate process of which one
  instance runs. A pass goes through stages: scheduled backup, workflow recovery,
  connector intake, autonomous cycle, reports, compliance, notifications,
  approved exports, Drive archiving, legacy queue. A stage that raises does not
  stop the others.
* **Command line** entry points (`run_approved_postings.py` and others) call the
  same services from a third process.
* Outside: Google Drive and Gmail, Wave, MijnGeldzaken (files an operator takes
  over by hand), and the HAI connector, a client that drives FAB by commands.

So an actor is always a thread or process in the middle of a handler, the
shared state is tables plus files plus what the providers hold, and there are
no callbacks or queues between actors except rows.

### Components

| Component | State | Operations | What is hard | What makes it correct |
| --- | --- | --- | --- | --- |
| Export attempts (`local_exports.py`) | `export_attempts`, review items, `bookkeeping_records.export_status` | prepare, regenerate, approve, reject, record result, execute, batch | writes without an expected status; provider outcome lost; death between claim and result; draft read twice | every submission is paid for by an approval; nothing is submitted twice; records tell what happened |
| Autonomy (`local_autonomy.py`, `local_autonomy_control.py`) | lease, control, `workflow_runs`, `workflow_steps` | run a cycle of 13 steps, engage and clear the stop | lease without heartbeat; stop between gate and start; a step raises | one cycle; the stop holds; no step or run is left open |
| Workflow recovery (`local_workflow_recovery.py`) | the same, a lease per run | plan, retry, schedule, close interrupted runs | stale listing; two retries; chains of failures | one recovery per run; never across the external step; every run ends; every source is collected |
| Drive to Wave delivery (`drive_wave_delivery.py`, `drive_archiver.py`) | document lifecycle, audit events, review items, lease, the Drive file | record readback, plan, archive, roll back | facts change under the evidence; Drive applies a call that fails; blocked by its own review | archive only after byte for byte readback; ledger and Drive agree; delivery happens |
| Wave receipt executor (`local_wave_receipt_executor.py`) | a JSON state file, leases | register, heartbeat, claim next, release, disconnect | read, change, write of a file without a lock | two browsers never work on one document |
| HAI connector (`local_hai_connector.py`) | audit events by request id, lease | execute a command, replay | duplicates, death in mid-command, lease outlived | at most one execution per request id; answers agree with it |
| Connector intake (`local_connector_intake.py`, fetchers) | connector accounts, cursors, documents, lease | sync sources, register documents, rescan a folder | overlap, partial sync, late messages | no message lost, none registered twice as an original |
| Google Photos Picker (`local_photos_picker.py`) | workflow runs, sessions at Google | create, collect, cancel | failing calls, two requests on one session | a selection is deleted after it was registered |
| Processing and duplicates (`local_processing.py`, `duplicate_detector.py`) | documents, extraction, duplicate candidates, reviews | process, group, hold, decide, repair | correction while a document is processed; repairs under decisions | uncertain documents wait for review; a recognised copy gets no draft |
| Routing and records (`local_routing.py`, `local_bookkeeping_records.py`) | routing attempts, records, lines | build operation, refresh record | stale drafts, two requests | facts are drafted once; who claims a draft has one |
| Review (`local_review.py`, `local_exceptions.py`) | review items, corrections | resolve, correct, bulk | decision on an outdated item | a decision lands on what was shown |
| Reconciliation, bank (`local_reconciliation.py`, `local_bank_transactions.py`) | statements, transactions, matches | import, propose, decide | lines that look alike; decisions under a new run | one row per posting; decisions stand |
| Backup and restore (`local_backup.py`) | archives, live ledger, source tree | create, verify, restore, roll back | death between steps, writers | all or nothing; evidence is never overwritten |
| Ledger schema (`local_ledger.py`) | the ledger file, its version and history | open, back up, upgrade | two processes open at once; every DDL statement commits alone | backed up before it is changed; a version that is declared is complete |
| Reports and compliance (`local_reporting.py`, `local_compliance.py`) | report runs, assessments, findings | claim a slot, generate, assess, decide | two workers, dead worker, facts that change under an assessment | one whole report per slot; findings tell the facts |
| Health and notifications (`local_health.py`, `local_notifications.py`) | notifications, preferences | refresh, acknowledge, mute | refreshes that overlap | the inbox has what is wrong |
| Wave mirror (`data_entry/waveapps_entity_sync.py`) | entities, sync runs | page through Wave, mark the missing | Wave changes between pages | what is in Wave is never called missing |
| Sign-in and secrets (`local_gmail_auth.py`, `local_google_drive_auth.py`, `security/google_oauth_store.py`, `security/local_secret_store.py`) | token, marker, credentials; store and key file | sign in, refresh, install; update, load | files without locks, copies in processes | a good token is used, a withdrawn one is not |
| Legacy posting (`data_entry/posting_executor.py`, `queue/`, `utils/rate_limiter.py`) | legacy queue, rate windows | approve, claim, retry, dead letter, quota | answer lost; windows at their boundary | bounded retries, one posting, bounded rate |
| Readiness, support, dashboards, web client | none of their own | read | | |

`docs/CRITICAL_PATH.md` states the invariants of the whole. The modules are
about its numbers 1 (sources kept), 3 and 4 (duplicates held, uncertain
documents reviewed), 5 and 6 (preparing is not executing; authority and
idempotency), 7 (archive after readback), 8 (emergency stop), 10 and 11
(recovery packages and restore). `PROJECT.json` lists all components, what each one's status is, and the hazards
at their lines.

## 2. The modules

Conventions of all. An action is one transaction of the ledger, one file read
or written, or one group of provider calls. `proc[p]` holds the control state of
process `p` and the local variables that a later step reads; a handler that
reads a row, decides and then writes is therefore several actions, and other
processes act between them. `Crash` (or `Die`) drops a process in the middle of
a handler; what it committed stays. Constants that start with `Max` bound
counters so that TLC ends; the theorems hold for every value of them. Facts and
their digests are revision numbers, because the code only ever compares them.
Observation variables are never read by a guard that models code. An operator
with a suffix after an underscore whose comment begins with "Mutant" is a
defect the corresponding property is known to catch, and is used by nothing.

Each module is followed here by what the code does **not** keep, as far as it
came up while the module was written: the properties say exactly what remains.

### ExportAttempts

State: `row` is the table (status, submission state, draft revision), `record`
and `reviews` the rows that tell the same story elsewhere, `source` the current
facts, `route` where the attempt goes, whether its plan names an action and
whether it is blocked; the first two are chosen at the start, so one instance
covers Wave and MijnGeldzaken attempts, with and without an action.

A handler of the operator (`Prepare`, `Approve`, `Reject`, `RecordResult`,
`Regenerate`) reads once and fills `todo` with the writes it has decided on;
`Commit` carries out one of them at a time, unconditionally, as
`update_export_attempt` and `upsert_export_attempt` do. A row write carries the
metadata that was read, so a late write also brings back an old draft.
`Execute` is the early return of `execute_attempt`, `Claim` the compare and set of
`claim_export_attempt`, `Check` the freshness and plan tests with the release of
the claim, `Dispatch` the Wave call, `SuperviseArtifact` the MijnGeldzaken file,
`LoseArtifact` the return without a file when the draft was regenerated since the
claim and is of another kind by then.
`StartBatch` is the list the worker works through. `WaveOutcomes` are the
results `_map_execution_status` tells apart, with `answer_lost` for a call that
Wave accepted and FAB saw fail.

Left out: the text of payloads and reviews, the time at which a deferred
attempt is due (any moment), audit events, the backup before a batch, the status
`prepared` (in the code's sets, written by nothing).

Not kept: a slow approval reopens a claimed attempt (`OneExecutor`, see below);
a slow rejection overwrites an attempt that Wave has accepted; a regeneration
between the freshness check and `artifact_for_attempt`'s own read puts another
draft into the supervised file. Hence two groups of properties: those of any
interleaving, and those of handlers that do not overlap.

### AutonomyCycle

State: `lease` (one for the cycle, one for the scheduler, one per retried run),
`stop`, `run` with its steps, `stale` (running runs older than the grace period).

`StartCycle` .. `ReleaseCycle` are `run_cycle` and `_run_cycle_once`: lease,
plan, creation of the run and its rows, for each step the gate (`GateStopped`,
`GateSkip`, `GateRun`), the start, the work and its result, the sweep of the steps an
exception leaves behind, the end of the run, the release in `finally`.
`Engage`, `Clear` and `ClearWrite` are the control service; `Retry` .. `UnlockRun`
the recovery of one run; `RunDue` .. `EndDue` the scheduler with the
finalisation of interrupted runs (`Scan`, `Inspect`, `Finalize`).

What a step does is its result. Creating the rows of a run, and closing the
steps of one interrupted run, are single actions: no other process looks at
these rows before the lease is free. Left out: dry runs, forced release of a
lease, the recovery of connector intake runs (`SourceRecovery`), and
a configuration in which recoveries do not record skipped steps (only the
worker's own cycles switch that off). An exception outside a step is
a `Crash` whose process goes on living.

Not kept: no lease is renewed by its holder, so a cycle that outlives it
overlaps the next one; a run that completes between the scan and `Finalize` is
closed as failed; the lease is read before the stop is cleared, so that a cycle
may begin in between and run while the operator is told that none does.

### DriveWaveDelivery

State: `life` (lifecycle in the document's metadata), `evidence` and `fresh`
(digest and age of the latest verified readback event), `blocked` (a review of a
failed archiving), `gated` (every other gate: another review, a record that is
not ready, configuration), `lease`, and on the Drive side `folder` and
`original`.

`Readback` .. `ResolveReviews` are the recording of evidence in its four steps;
`AskArchive` and `ArchiveReady` the two ways in; `Plan`, `AcquireLease`,
`Replan`, `InspectSource`, `FinalPlan`, `MoveFile`, `VerifyMove`, `RestoreFile`,
`CommitArchive`, `EnsureReview`, `ReleaseLease` the archiving. `Fault` lets a
Drive call fail before or after Drive has acted. `UserReplaces` and `UserMoves`
are the Drive user. `WorkOrderOpen` is the condition under which the executor is
asked for another readback.

Left out: Gmail sources, for which the code only makes a plan; the details of
field comparison. The rollback inside `move_file` is folded into the outcome of
that group of calls.

Not kept: a move that fails although Drive applied it stays applied under a
review that says "retained" (`BlockedIsRetained`); a late readback takes an
archived document back to `attachment_verified`.

### SourceRecovery

The worker's connector stages, pass after pass: an ordinary `sync` is a run with a
step per source, failed or skipped sources make it recoverable, and its recovery
is another run that takes its place; meanwhile its sources are held back from the
ordinary sync. `Recover` and `RetryByHand` begin a recovery, `CollectByHand` an
operator's sync; `Ripen` and `Expire` are the clock.

Not kept: when the scheduler is busy it answers without
`connectorSourcesHeldBack`, and the ordinary sync takes the held back sources
too; a run without retries left holds its source back for good (the liveness
property is checked with an operator who may still retry by hand, and a number
of retries that covers the faults).

### HaiCommands and RequestJournal

A delivery of a request: look for a replay, record the request, take the lease
`hai_command:<id>`, look again, run the command, record the outcome, release.
Deliveries repeat, ledger calls fail, threads die, leases lapse.
`RequestJournal` is what a caller may rely on; `OneExecutionPerRequest` is the
refinement, with the journal entry computed from the audit events and leases.

Not kept: the audit event stores a redacted payload, so that a redelivered
command may be answered as a conflict with itself (`RequestIdBound`,
`hai_replay`).

### ReceiptExecutor

`LocalWaveReceiptExecutorService`: the JSON state file is read at the start of a
call and written whole at its end, without a lock; leases per document are rows
of the ledger. `SessionCalls` and `Handle` cover register, heartbeat, claim
next, release and disconnect; `Lapse` is a session that falls silent.

### BackupRestore

A restore is split where files change: safety copy, prepared copy, live copy,
verification, source tree, rollback. The worker lock and maintenance mode are the
guards. Packages are snapshots of the ledger; `replaced` remembers what a
restore has overwritten. Not kept: a restore also brings back an old control
state, so that a stop engaged since is gone afterwards (`StopEndsByClearing`, a
definition that no run checks, says what would have to hold), and approved exports.
An original that was changed since it was registered makes `create_backup` raise,
so that no package is made until it is settled; one that is missing only
keeps a package from being complete.

### LedgerSchema

How `LocalOperationsLedger` opens its file: look, back up, alter column by column
(each DDL statement commits alone), backfill, index, record the version.
Not kept: version and history are read in two reads, so that a second
process may be refused; two processes that add the same column: one fails and
succeeds after its restart; a death between recording and auditing loses the audit
event; double reviews which an older FAB opens between look and index make
the upgrade fail. A transaction opened by an `UPDATE` is treated as committed at
once.

### WaveMirror

`sync` by pages, while Wave's users add and remove entities. Not kept, and
excluded by `disturbed`: an addition that makes up for a removal between two pages is
unseen; two overlapping syncs may each mark as missing what the other one saw.
The next full sync heals both.

### GoogleSignIn, PhotosPicker, SecretStore

`GoogleSignIn`: coordinator (sign-in thread), collectors and the marker that
keeps collectors away. Not kept (`mixed`): a refresh under way while credentials are
replaced saves the old token and clears the marker; a death between saving and
clearing leaves the marker on a good token; `run_local_server` has no timeout.
`PhotosPicker`: create, collect and cancel over session rows and Google's picker
API. Not kept (`disturbed`, `crossed`): cancelling a session while it is created
leaks it at Google; a late cancellation overwrites `completed`; a session that
Google dropped leaves a row that needs attention for good.
`SecretStore`: encrypted file, key file and the copies in the processes. Not
kept (`mixed`): two processes that make the first key make the store unreadable;
a mapping change under way while Wave is disconnected writes the token back;
two API updates may reach the shared configuration in the wrong order. The
environment override is left out, and the read with which an update answers.

### ReportSlots, Compliance, HealthRules, HealthInbox, RateLimiter

`ReportSlots`: a slot is claimed by an insert or a conditional update, then files are
written and the row is completed. Not kept: a claimed slot whose worker dies
stays `running`, and no later call claims it.
`Compliance`: an assessment reads records, the VAT report and files in several
reads, then stores in one transaction and supersedes. Not kept: a file
disturbed between checksum and findings; facts that return to an earlier
checksum are answered with superseded findings; a slow assessment
supersedes a newer one; decisions are lost with a new assessment.
`HealthRules` is the table of what is an issue, `HealthInbox` the refresh, which
computes issues from one snapshot and then writes notification by notification.
Not kept: a changed severity keeps "acknowledged"; the fingerprints of
`master_ledger_blockers` and `api_quota_exhausted` contain data, so that each change is a
new notification; lists end at 500.
`RateLimiter`: two sliding windows and a day's count of one process. It is per
process, so that two processes share no quota.

### ConnectorIntake, DocumentPipeline, LedgerRepairs

`ConnectorIntake`: a Gmail sync with its checkpoint and query window, and folder
rescans, both registering rows by content hash. Not kept (`overlapped`): two
intakes may each register the same bytes as an original.
`DocumentPipeline`: reading, duplicate comparison and holding, decisions, routing
of a document. Not kept (`torn`): two operations on one document, where each
write compares nothing. Not kept (`stale`) either: two decisions on different
documents of one candidate. An approval supersedes the candidates that it listed
before it began, and so rejects one that another operator approved
meanwhile, whose document keeps its link; two such approvals may close a cycle of
links. `OneDraft` is a property of up to three documents. Of four, an approval for one
in the middle supersedes the pair of a newer copy, whose review is then closed by the
rejection of its last, unrelated candidate.
`LedgerRepairs`: the repairs a batch begins and ends with, over rows of
`duplicate_candidates` of three kinds: `hash` claims the same bytes, though the
hashes stored by now do not say so; `current` has the reason that the detector gives
today, `former` another one. A claim of the same bytes is left to operators: no
repair closes it. What reading the type again leaves of the reviews is one
of the six outcomes of `backfill_document_types`.
Not kept: a death between the clearing of a link and the queueing of its review
loses the gate; an approval between plan and apply of a reassessment clears a
confirmed link; a review that a cycle repair queues cannot be decided, because
no candidate is open. The docstring of `_repair_duplicate_cycles` says that
suspects stay held; the reassessment of the same batch may release them (the run
`documents_released`).

### BankImport, Reconciliation, DraftRoutes, LegacyPosting

`BankImport`: lines, fingerprints and references of statements; occurrences
tell identical lines apart. Not kept: a later import sets `reconciliation_status`
back to `not_started` (docs/technical_reference.md:460 calls it idempotent).
`Reconciliation`: matching, decisions and reviews over five tables. Not kept
(`overlapped`): a run that overlaps a decision may lose it; a reconciled document
stays a candidate of other transactions.
`DraftRoutes`: routing of a document or transaction with its gates, and the record
beside it. Not kept (`crossed`): two overlapping routes can make two attempts.
Also: a death between the attempt and the document's update leaves a status that
no later call writes; each refresh of bank records undoes a rejection; a refresh
writes `draft_prepared` over an approved or submitted export state.
`LegacyPosting`: the queue of installations without a ledger: claim, answer, retry,
dead letter. Not kept (`crossed`, `excused`): a due retry re-executes an attempt
in progress; a death between answer and record posts twice; a rejection during
execution is overwritten and retried.

### How they meet

The modules share the ledger's primitives (a lease is taken when it is free or
expired, and belongs to its owner until then) and the actors. They meet in rows that
one of them only reads: an executed export is one of the gates of a delivery (`gated`),
the cycle's steps call handlers of the export service, the row that the intake
registers is the one with which the pipeline begins. These are
environment choices in each module, which is the more general assumption:
whatever holds here holds for any order of the other component's steps.

`MCServices`, `MCDocuments` and `MCWorkerPasses` put several instances in one
state space, with a variable `focus` that says which of them is at work: the
modules share no rows, so a behaviour of the composition is one of a single
module. `MCExportHistories` and `MCAutonomyHistories` do the same with two
instances of one module under different assumptions.

## 3. What the runs check

A configuration takes up to four minutes on two cores.

| Run | Shows |
| --- | --- |
| `export_histories` | focus `race`: two processes on one attempt of either target, with regeneration, late writes and a death, in every order: `TypeOK`, `HandedWithinApprovals`, `ClaimsSpendAuthority`, `ClaimsAccounted`, `SubmittedIsReal`. Focus `sequence`: one handler at a time, longer: `SequenceHandedOnce`, `SequenceAgrees` |
| `autonomy_histories` | focus `steady`: worker and API thread, two dependent steps, stop, retries: `SteadyOneCycle`, `SteadyStopHolds`, `SteadyRunsClosed`. Focus `lapsing`: outlived leases, three runs: `LapsingOneRecovery` |
| `autonomy_recovery` | the worker, three steps of which one is external, a death anywhere: `RecoveryContinues`, `RunsEnd` |
| `delivery_safety` | two API threads and the worker, corrections, a fault, a Drive user, a lapse, a death: `TypeOK`, `ArchiveNeedsReadback`, `LedgerMatchesDrive`, `OneMove`, `MoveMatchesFacts` |
| `worker_live` | the archive stage and the collection stage under faults, deaths and outlived leases: `DeliveryDone`, `SourcesCollected`. The export stage: two processes, a draft that may go stale, no death: `ClaimsResolve` |
| `services` | thirteen foci over the modules of `MCServices`: `TypeOK`, `AnswersAgree`, `OneExecutionPerRequest`, `ExclusiveOrder`, `RestoreAllOrNothing`, `EvidenceNotOverwritten`, `OperatorTold`, `MissingIsGone`, `AccountsRespected`, `SelectionKept`, `SchemaUpgraded` |
| `documents` | thirteen foci over the modules of `MCDocuments`: `TypeOK`, `Collected`, `OneDraft`, `HeldUntilDecided`, `RepairsKeepGates`, `StatementRows`, `DecisionsStand`, `RoutedOnce` |

`export_histories` has 3.3 million distinct states, `documents` 2.1 and
`services` 1.7 million. Some properties of the compositions are conjunctions, one
part per module: `OperatorTold` of `OneWholeReport`, `InboxTold`,
`AnswersApply` and `OneOpenAssessment`; `AccountsRespected` of
`MarkerMeansStale`, `SecretsHeld` and `QuotaHeld`; `SelectionKept` also has
`SessionsAccounted`, `RestoreAllOrNothing` also `ReplacedIsPackaged`; `Collected` is
`MailCollected` and `OneOriginal`; `HeldUntilDecided` also has `LinksEnd`;
`RoutedOnce` is made of `ClaimedDraftsExist`, `RejectionHolds`, `PostedOnce` and
`FailuresCounted`; `SequenceAgrees` is `ArtifactApproved` and `RecordAgrees`;
`SteadyRunsClosed` is `LiveRunsOpen` and `NothingLeftOpen`.

### Disagreements between code and documents

Five runs show a property that a document, message or comment of the repository states and
that the code does not keep. Each is a short behaviour; the findings in
`PROJECT.json` quote the line.

| Run | Property | In short |
| --- | --- | --- |
| `export_double_claim` | `OneExecutor` | a second, slow approval reopens a claimed attempt and two workers execute it |
| `delivery_retained` | `BlockedIsRetained` | a move that fails after Drive applied it stays, under a review that says "retained" |
| `documents_twice` | `OneDraftPerReceipt` | of two files of one receipt in one batch the newer is read first and compared with nothing; both get a draft |
| `documents_released` | `SuspectsHeld` | the reassessment of a batch resolves the duplicate review that the cycle repair of the same batch has queued |
| `hai_replay` | `RequestIdBound` | a redelivered command is answered as a conflict with itself, because its stored payload was redacted |

The first is a race of two writes in two transactions; the remedy is a
comparison in the writing transaction. `HandedWithinApprovals` bounds its
damage: even then no attempt leaves FAB more often than an operator approved it.

### Bounds, and why they are enough

* Processes: two, in `delivery_safety` three. Each conflict in these modules is
  between one process that read and one that wrote since; a third one adds no new
  pair. Processes that behave alike are symmetric.
* Attempts and documents: one where only processes of the same item interact,
  since rows of different items are only linked by batches and leases are per
  item; two or three where items refer to each other (duplicates, matches). In
  `documents` two processes work on three documents that show one receipt (the
  focus `crowd`, without faults) until they meet on the same one, which the foci
  with two documents follow further; faults and deaths are in one with two documents.
  With two documents a behaviour ends where operations meet on the newer one, of
  whose pair no property speaks from there on (`torn`). After a death, repairs and
  reconciliation are followed for three handlers, else for four.
* In `race`, two approvals and two claims let a late write of the first meet the
  second. In `sequence` the question is a long history of handlers, not
  their overlap: two corrections, three approvals, three claims, two deaths.
* The cycle has one to three steps: three when the external step has to lie
  between a failed step and one that depends on it, two for the sweep over steps that
  a sparse cycle has not recorded, one where only runs matter. Two or three
  runs: a run, its recovery and the competing one.
* Faults, lapses, user changes and deaths: up to two, so that a failure can hit the
  handling of a failure. `autonomy_histories` has no death (a cycle that raises
  is there); `autonomy_recovery` has one at every step.
* The windows of the rate limiter are a few ticks long, and its quotas small
  enough to be exhausted in both windows and the day.

Runs whose bounds exhaust (no run, stop, edit or approval left) stop, and say
so with `CHECK_DEADLOCK FALSE`; that no handler gets stuck is the liveness
runs' question.

### Fairness

* `WF(Proceed(p))`: a thread inside a handler goes on, unless it dies. Deaths are
  never required.
* `WF` of the expiry of a lease whose owner died: the clock runs. Leases of the
  living are not assumed to expire.
* `AutonomyCycle`: `WF(GoStale)`, the clock again, and `SF(RunDue)`: the worker
  comes back to its recovery stage on every pass; strong, because another holder of
  the scheduler's lease can make it skip one.
* `SourceRecovery`: `WF(Recover(Worker))`, the pass, `WF(Ripen)`, the clock, and
  `WF(Authorize)`: an operator renews a source that asks for it.
* `DriveWaveDelivery`: `SF(ArchiveReady)`, the worker's archive stage, as
  above, and `SF(AnswerWorkOrder)`: the executor answers the work orders that
  stay open. Drive's faults are bounded: a Drive that always fails delivers
  nothing. Requests over the API are bounded too, and have to be: every
  request on a document that is not ready opens the review again, so an endless stream of
  them can keep a document blocked.

`RunsEnd` needs the scheduler only for runs whose process has died. It is checked
with the worker alone: API requests that plan cycles without end could hold the
cycle's lease at every moment the scheduler wants it, and no fairness the code
justifies excludes them.
`ClaimsResolve` has no death, because after one the attempt stays in execution until an
operator records a result: nothing in the code resubmits it, which is what
`HandedOnce` relies on.

## 4. What is proved

All theorems hold for every value of the constants that meets the named
assumptions of its module (sets are not empty where the code needs a member,
process sets are finite, bounds are natural numbers, process names are none of
the names that stand for nobody). TLC checked each inductive invariant on the runs
above, or on a small instance of its own, before it was proved.

**`ExportAttempts_proofs`.** `TypeCorrect`; its only difficulty is that a
committing process always has a write left. `ClaimsAuthorised`,
`ClaimsEndOnce`, `HandedAuthorised`: `ClaimsSpendAuthority`, `ClaimsAccounted`
and `HandedWithinApprovals` in every interleaving. The inductive invariant is
`IInv == TypeOK /\ TodoLawful /\ ClaimsSpendAuthority /\ ClaimsAccounted`. The
accounts alone are not inductive, because a process could hold a pending write
that makes a row claimable without an approval. `TodoLawful` says which writes
exist: one that makes the row claimable is either an approval's, which is
counted when it lands, or gives a claim back, and only as the first write of a list.
Then `claims <= approvals + requeues` follows step by step,
`handed + requeues + executors <= claims` says that a claim ends once, and both
together give `handed <= approvals`. The executors are counted with
`Cardinality`; `CountStep` says that a step of one process changes the count by
its own share. `SubmissionsAreReal`: `SubmittedIsReal`, by `SInv`: every pending
write that says submitted is the operator's, or backed by a posting that has
left FAB already. `PostedAtMostOnce` and `FilesAndRecordsAgree`:
`SequenceHandedOnce` and `SequenceAgrees`, for histories in which one handler
runs at a time. Three facts make `SeqInv` inductive: the row of a claimed attempt
is nobody else's while its process works (`ClaimKept`); a claimable row holds an
approved draft and a posting that has left FAB is in none of the statuses that
lead back to a claim (`AttemptKept`, `Gone`); and the pending writes of the one
handler do no harm and end in agreement (`Settles`): at most one of them writes the
row and one the record, and what the record will be fits what the row will be,
unless a process has died in between.

**`DriveWaveDelivery_proofs`.** `TypeCorrect`. `ArchiveProved`, `MoveProved`:
`ArchiveNeedsReadback` and `MoveMatchesFacts`, also when leases are outlived,
when Drive fails and when processes die. The strengthening is `EvidenceProved`:
whatever evidence is on record, or about to be recorded, stands for a readback
that really matched; the final plan takes over the revision from there, and only
a process past the final plan moves a file. `OneMoveAtATime`: `OneMove` under
`~ Outlived`, which is needed, since nothing renews the lease of 300 seconds; the
strengthening is `HoldersOwn`: who is past `AcquireLease` owns a live lease.
`LedgerAndDriveAgree`: `LedgerMatchesDrive` under the same assumption, with
`InHand` (whoever works on a document whose file is in the archive is the one who
moved or adopted it) and `Placed` (an archived document's file stays there).

**`HaiCommands_proofs`, `MCServices_proofs`.** `AnswersAlwaysAgree`:
`AnswersAgree`; a thread between its decision and its answer relies on events
that never change (`AnswersTold`) and on the lease that keeps the second runner out
(`DecidersHold`, `RunnersHold`), which is why a thread that looked before the lease
looks again under it (`StillUnrecorded`, `StillMissed`). `ImplementsJournal`: the
refinement `OneExecutionPerRequest` of `RequestJournal`, step by step, from the
same invariant. `ServicesAnswer` and `ServicesJournal` carry the two over to the
composition that TLC runs, with its bounds.

The services below are proved about in `MCServices_proofs` itself, on the
instances that TLC runs, and the sets of processes stay parameters.

**`ServicesExclude`**: `ExclusiveOrder`, although the state file is read and
written without a lock: every session that works on a document owns its lease
(`WorkersHold`), a call that has claimed one still holds it (`ClaimsHold`), a
session is served by one call at a time (`OneCall`), and what a call gives back
is what its session held (`GivesBack`).

**`ServicesRestore`, `ServicesEvidence`**: both parts of `RestoreAllOrNothing`, and
`EvidenceNotOverwritten` step by step. A thread past its lock request holds
`fab-worker.lock` in maintenance mode, so that neither the worker nor the API
nor another restore writes to the ledger (`HoldsAlone`). Hence the ledger is still
the one that was packaged and snapshotted when it is copied over, and a rollback
puts that one back (`Knows`, `Ends`). Every ledger that may come back, from a
package or by a rollback, points to evidence that is there (`AllRooted`).

**`ServicesUpgrade`**: `SchemaUpgraded`, for any processes and
any columns; the proof does not use the numbers that bound the instance. Since the
statements of an upgrade commit one by one, and several processes may be at
it, the invariant says of every process what its place tells about the ledger
(`Reached`: past the copy there is a backup, past the columns all are there), and
nothing in the ledger is ever taken back by an upgrade. What a process has read may
be stale when another one upgrades too, so that `ReadsHold` is for one that is alone;
that is the process of which `AloneOpens` says that it gets through.

**`ServicesMirror`**: `MissingIsGone`, for any page size and any
number of pages, runs, edits and processes. What an undisturbed sync has collected is
part of a collection X that Wave once had, which holds all that stayed and
nothing that never was there (`Traverses`): X is the shelf until something
happens in Wave, after which only additions, or only removals, have changed the
number of entities, so that the next page fails on its total. As many different
entities as the total are all of X. `RunsInOrder` makes the mark of a run its own,
and `OnlyOne` keeps other syncs away from the mirror while it is undisturbed. How
Wave cuts its pages is not needed, only that a page shows what is in Wave.

**`ServicesTell`**: `OperatorTold`, for any processes and formats of reports.
*Reports* (`SlotsInv`): only one process works on a slot (`OneMaker`), because the
claim compares and sets, and its place says which files it has written (`Made`);
so a prepared report has all of them, but for one whose maker died on the way back
(`Whole`). *The inbox* (`InboxInv`): a refresh is not a transaction, so that the
inbox is only right after one that was alone: what such a refresh has not yet
written is exactly what is missing (`Current`). What was acknowledged stays so
because every refresh under way has found the issue and may show it (`Shown`). The
proof asks of the rules that one type of issue has one severity in one status
(`OneSeverity`), and shows it of the rules of the instance. *Assessments*
(`ComplInv`): what an assessment has read is what is there, if nothing disturbed
it (`Fresh`), and the findings under a checksum are those of the facts that it
stands for until a record is written again (`Fits`), which is why an earlier
assessment with the same checksum may be the answer. `OneOpenAssessment` is
inductive as it stands.

**`AutonomyCycle_proofs`, `MCAutonomyHistories_proofs`.** `RecoveredOnce`: a failed run
has one recovery at most, if only the lease of the retried run is not outlived:
between the look and the creation of the recovery nobody else retries the run.
`CyclesNeverOverlap`, `StopLetsOneStepThrough`, `RunsCloseWithTheirCycle`:
`SteadyOneCycle`, `SteadyStopHolds`, `SteadyRunsClosed`, if no cycle outlives its
lease: who is in a cycle owns the lease, a run that is `running` is that of the
owner or was left by a death, the gate was read by the owner, so that after a
stop only a step whose gate was passed before it still starts.
`OneRecoveryThoughLapsing`: `LapsingOneRecovery`.

`RecoveriesContinue`: `RecoveryContinues`, if no cycle outlives its lease. A retry
reads the run before it has the lease of the cycle, and records its own run later;
`Continuing` says why what it read still holds then: a run that a retry selects
steps of is closed (`Selects`), a closed run keeps its steps, so does whatever a
recovery names as its source (`ParentsClosed`), and a cycle has rows only for the
selected steps (`Records`). That a run which closes keeps its steps rests on the
first invariant: whoever writes them is in the only cycle, and its run is
`running`. The hypothesis is needed: a cycle that went on past its lease could
still complete the step that the scheduler closed as failed and a recovery repeats.

**`DraftRoutes_proofs`, `MCDocuments_proofs`.** `RoutesOnce`: `RoutedOnce`. Of the
routes it says that facts are drafted once, a transaction once for Wave, and who
says that there is a draft has one. `RouteInv` adds what every call has still to
do: it keeps at most one attempt, and says that there is a draft only after it
has kept one or has seen one (`Founded`), so that it may die at any step; what it
is about to draft has not been drafted (`Fresh`), since its gates were looked at
with the attempts there were and, while no two calls route the source, nobody
else adds one before it does. Of the postings without a ledger: while one
process alone works on an attempt, its place says what the attempt is (`AtWork`),
an attempt that nobody works on is at rest (`AtRest`), and nobody executes one
that was refused (`RefusedHeld`); an attempt that two processes met at, or that
was left by one that died, is `disputed`, and of it only the refusal is claimed.

`RowsOfStatements`: `StatementRows`, for any processes. An import at work has stored
the lines before its own, each with the number that it has among those that are
alike (`Reads`), whatever other imports store meanwhile, because rows are only
added. So as many rows are there as any finished import has shown (`NoLess`, an
injection of the lines into the rows), and as a row with the number n is only
there because some statement has n such lines (`Backed`), there are no more than
the statement that shows most of them has (`NoMore`). The proof uses of the
statements only that they are sequences (`Shapes`), and does not use the bounds.

Only model-checked: the safety properties of `SourceRecovery`, `GoogleSignIn`,
`PhotosPicker`, `SecretStore`, `RateLimiter`, `ConnectorIntake`,
`DocumentPipeline`, `LedgerRepairs` and `Reconciliation`. Out of reach of the
provers: liveness under fairness (`ClaimsResolve`, `RunsEnd`, `DeliveryDone`,
`SourcesCollected`) and anything about `ENABLED`; and what a recursive
definition computes for every input, such as the closure in `Resumable`.

## 5. Plan

Done, in this order: exports (money), the cycle (unattended work), delivery (the
only copy of a source); then the services around them, the way of a document
from intake to draft, and the legacy queue; then the theorems of section 4.

Next theorems, by what they say about the system: `DecisionsStand` of
`MCDocuments`; then `AccountsRespected`, on the instances in
`MCServices_proofs` as `SchemaUpgraded` and `OperatorTold` are.

Next modules: the supervision of Wave by HAI (`local_wave_control.py`); close
packs and their disclosure of what is unreconciled; the workflow playbook.

## 6. Not modelled, and why

* Recognition, extraction, categorisation, matching scores, report texts:
  functions of data, without a protocol. Their results enter as choices.
* Network clients, encryption, user interface, diagnostics: they change
  no shared state that the modules reason about; their failures enter as outcomes.
* SQLite itself: a transaction is atomic and durable. The ledger uses immediate
  transactions where it compares before it sets; `LedgerSchema` is the one place
  where statements commit one by one.
* Time: expiry, due dates and grace periods may pass at any moment, except that
  a lease of a living process lasts unless `Outlived` says otherwise.
* What `PROJECT.json` lists as `not_modelled`, with the reason for each.
