----------------------------- MODULE MCServices ----------------------------
(***************************************************************************)
(* Small instances of HaiCommands, ReceiptExecutor, BackupRestore,         *)
(* ReportSlots, WaveMirror, GoogleSignIn, PhotosPicker, LedgerSchema,      *)
(* SecretStore, RateLimiter, Compliance and HealthInbox, with HealthRules. *)
(* The services share no rows and no files that the modules speak of, so   *)
(* that a behaviour is one of a single service, which is chosen at the     *)
(* start; the others stay as they are.                                     *)
(***************************************************************************)
EXTENDS HealthRules, Integers, TLC

CONSTANTS
    Procs,      \* threads of the API server and the worker
    Solo,       \* a thread that works alone
    Requests, Contracts, Secretive,
    Sessions, Docs,
    Formats,
    Entities,   \* invoices in Wave
    PageSize, MaxPages, MaxRuns, MaxEdits,  \* of the mirror
    Items, Photos,
    Columns     \* of the tables of the ledger

VARIABLES
    focus,      \* the service that is at work
    \* HaiCommands
    events, cmdLease, cmdProc, runs, deliveries, cmdFaults, cmdCrashes, bound,
    answers, outlived,
    \* ReceiptExecutor
    state, docLease, callProc, order, calls, lapses, callCrashes, late,
    \* BackupRestore
    live, packages, trees, originals, mode, lock, restoreProc, writes,
    restoreFaults, losses, restarts, replaced,
    \* ReportSlots
    run, retryAt, files, slot, reportProc, reportFaults, reportCrashes,
    kept,
    \* WaveMirror
    shelf, mirror, syncRun, syncProc, edits, syncFaults, syncCrashes, always,
    never, since, disturbed,
    \* GoogleSignIn
    client, token, marker, grants, given, collector, signin, expiries,
    revokes, signFaults, signCrashes, refused, mixed,
    \* PhotosPicker
    sessionRun, picker, registered, pickProc, collects, pickFaults,
    pickCrashes, emptied, orphans, crossed, upset,
    \* LedgerSchema
    past, db, backups, audited, opener, starts, openFaults, openCrashes,
    older,
    \* SecretStore
    store, keyFile, own, config, secretProc, made, ops, fileLosses,
    secretCrashes, gone, handed, secretsMixed,
    \* HealthInbox
    row, note, prefs, refresher, changes, refreshes, acts, refreshCrashes,
    settled, acked,
    \* Compliance
    rev, quality, filed, assessments, retained, evidenced, assessor, begun,
    happened, told, reopened,
    \* RateLimiter
    now, today, short, long, day, count, caller, admitted

Hai == INSTANCE HaiCommands WITH
    lease <- cmdLease, proc <- cmdProc, faults <- cmdFaults,
    crashes <- cmdCrashes,
    MaxDeliveries <- 3, MaxFaults <- 1, MaxCrashes <- 1

Receipts == INSTANCE ReceiptExecutor WITH
    lease <- docLease, proc <- callProc, crashes <- callCrashes,
    Threads <- Procs, MaxCalls <- 5, MaxLapses <- 1, MaxCrashes <- 1

Backup == INSTANCE BackupRestore WITH
    proc <- restoreProc, faults <- restoreFaults, crashes <- restarts,
    Threads <- Procs, MaxPackages <- 3, MaxWrites <- 1, MaxFaults <- 1,
    MaxLosses <- 1, MaxCrashes <- 1

Reports == INSTANCE ReportSlots WITH
    proc <- reportProc, faults <- reportFaults, crashes <- reportCrashes,
    MaxSlots <- 2, MaxFaults <- 3, MaxCrashes <- 1

Mirror == INSTANCE WaveMirror WITH
    proc <- syncProc, faults <- syncFaults, crashes <- syncCrashes,
    MaxFaults <- 0, MaxCrashes <- 1

SignIn == INSTANCE GoogleSignIn WITH
    faults <- signFaults, crashes <- signCrashes,
    Collectors <- Procs, MaxClients <- 2, MaxGrants <- 2, MaxExpiries <- 1,
    MaxRevokes <- 1, MaxFaults <- 1, MaxCrashes <- 1

Picker == INSTANCE PhotosPicker WITH
    run <- sessionRun, proc <- pickProc, faults <- pickFaults,
    crashes <- pickCrashes, disturbed <- upset,
    MaxItems <- 1, MaxSessions <- 1, MaxCollects <- 2, MaxFaults <- 1,
    MaxCrashes <- 1

\* One thread, and a second session.
Alone == INSTANCE PhotosPicker WITH
    run <- sessionRun, proc <- pickProc, faults <- pickFaults,
    crashes <- pickCrashes, disturbed <- upset, Procs <- {Solo},
    MaxItems <- 1, MaxSessions <- 2, MaxCollects <- 3, MaxFaults <- 1,
    MaxCrashes <- 1

\* A ledger without a version, with and without tables, and a newer one.
Old == [version |-> 0, history |-> {}, tables |-> TRUE, columns |-> {},
        unhashed |-> TRUE, doubles |-> 1, index |-> FALSE]
New == [Old EXCEPT !.tables = FALSE, !.unhashed = FALSE, !.doubles = 0]
Newer == [Old EXCEPT !.version = 2, !.history = {1, 2}, !.columns = Columns,
                     !.index = TRUE, !.doubles = 0]

Schema == INSTANCE LedgerSchema WITH
    proc <- opener, faults <- openFaults, crashes <- openCrashes,
    Pasts <- {Old, New, Newer}, MaxStarts <- 3, MaxFaults <- 1,
    MaxCrashes <- 1, MaxReviews <- 1

\* The worker is one of the threads, in a process of its own.
Secrets == INSTANCE SecretStore WITH
    proc <- secretProc, losses <- fileLosses, crashes <- secretCrashes,
    mixed <- secretsMixed,
    Threads <- Procs, Worker <- Solo, MaxOps <- 4, MaxLosses <- 1,
    MaxCrashes <- 1

\* A source with issues of two severities, and a report.
Watchlist == [t \in {"source", "report"} |-> RulesOf(t)]

Inbox == INSTANCE HealthInbox WITH
    proc <- refresher, crashes <- refreshCrashes,
    Things <- {"source", "report"},
    Rules <- Watchlist,
    Watched <- {"source_connector_unavailable"},
    MaxChanges <- 2, MaxRefreshes <- 2, MaxActs <- 1, MaxCrashes <- 1

\* The worker and an API thread assess one period.
Compl == INSTANCE Compliance WITH
    events <- happened, answers <- told, audited <- evidenced,
    proc <- assessor,
    Records <- {"record"}, Periods <- {"quarter"},
    Qualities <- {"complete", "excessive", "untaxed"},
    MaxAssessments <- 3, MaxEvents <- 2

Limits == INSTANCE RateLimiter WITH
    Second <- 2, Minute <- 4, PerSecond <- 2, PerMinute <- 3, PerDay <- 4,
    MaxWait <- 3, MaxTime <- 6, MaxDays <- 1

haiVars == <<events, cmdLease, cmdProc, runs, deliveries, cmdFaults,
             cmdCrashes, bound, answers, outlived>>
receiptVars == <<state, docLease, callProc, order, calls, lapses, callCrashes,
                 late>>
backupVars == <<live, packages, trees, originals, mode, lock, restoreProc,
                writes, restoreFaults, losses, restarts, replaced>>
reportVars == <<run, retryAt, files, slot, reportProc, reportFaults,
                reportCrashes, kept>>
mirrorVars == <<shelf, mirror, syncRun, syncProc, edits, syncFaults,
                syncCrashes, always, never, since, disturbed>>
signInVars == <<client, token, marker, grants, given, collector, signin,
                expiries, revokes, signFaults, signCrashes, refused, mixed>>
pickerVars == <<sessionRun, picker, registered, pickProc, collects,
                pickFaults, pickCrashes, emptied, orphans, crossed, upset>>
schemaVars == <<past, db, backups, audited, opener, starts, openFaults,
                openCrashes, older>>
secretVars == <<store, keyFile, own, config, secretProc, made, ops,
                fileLosses, secretCrashes, gone, handed, secretsMixed>>
inboxVars == <<row, note, prefs, refresher, changes, refreshes, acts,
               refreshCrashes, settled, acked>>
localVars == <<haiVars, receiptVars, backupVars, reportVars>>
googleVars == <<signInVars, pickerVars>>
complVars == <<rev, quality, filed, assessments, retained, evidenced,
               assessor, begun, happened, told, reopened>>
limitVars == <<now, today, short, long, day, count, caller, admitted>>
homeVars == <<schemaVars, secretVars, inboxVars, complVars, limitVars>>
otherVars == <<googleVars, homeVars>>
vars == <<focus, localVars, mirrorVars, otherVars>>

\* No process, for the other behaviours.
NoSchema ==
    /\ past = <<>> /\ db = <<>> /\ backups = {} /\ audited = FALSE
    /\ opener = <<>> /\ starts = 0 /\ openFaults = 0 /\ openCrashes = 0
    /\ older = 0

NoSecrets ==
    /\ store = <<>> /\ keyFile = 0 /\ own = "none" /\ config = <<>>
    /\ secretProc = <<>> /\ made = 0 /\ ops = 0 /\ fileLosses = 0
    /\ secretCrashes = 0 /\ gone = FALSE /\ handed = 0
    /\ secretsMixed = FALSE

Init ==
    /\ focus \in {"hai", "receipts", "backup", "reports", "mirror", "signin",
                  "photos", "alone", "schema", "secrets", "inbox",
                  "compliance", "limits"}
    /\ Hai!Init /\ Receipts!Init /\ Backup!Init /\ Reports!Init
    /\ Mirror!Init /\ SignIn!Init
    /\ IF focus = "alone" THEN Alone!Init ELSE Picker!Init
    /\ IF focus = "schema" THEN Schema!Init ELSE NoSchema
    /\ IF focus = "secrets" THEN Secrets!Init ELSE NoSecrets
    /\ Inbox!Init /\ Compl!Init /\ Limits!Init

Next ==
    \/ /\ focus = "hai" /\ Hai!Next
       /\ UNCHANGED <<focus, receiptVars, backupVars, reportVars, mirrorVars,
                      otherVars>>
    \/ /\ focus = "receipts" /\ Receipts!Next
       /\ UNCHANGED <<focus, haiVars, backupVars, reportVars, mirrorVars,
                      otherVars>>
    \/ /\ focus = "backup" /\ Backup!Next
       /\ UNCHANGED <<focus, haiVars, receiptVars, reportVars, mirrorVars,
                      otherVars>>
    \/ /\ focus = "reports" /\ Reports!Next
       /\ UNCHANGED <<focus, haiVars, receiptVars, backupVars, mirrorVars,
                      otherVars>>
    \/ /\ focus = "mirror" /\ Mirror!Next
       /\ UNCHANGED <<focus, localVars, otherVars>>
    \/ /\ focus = "signin" /\ SignIn!Next
       /\ UNCHANGED <<focus, localVars, mirrorVars, pickerVars, homeVars>>
    \/ /\ focus = "photos" /\ Picker!Next
       /\ UNCHANGED <<focus, localVars, mirrorVars, signInVars, homeVars>>
    \/ /\ focus = "alone" /\ Alone!Next
       /\ UNCHANGED <<focus, localVars, mirrorVars, signInVars, homeVars>>
    \/ /\ focus = "schema" /\ Schema!Next
       /\ UNCHANGED <<focus, localVars, mirrorVars, googleVars, secretVars,
                      inboxVars, complVars, limitVars>>
    \/ /\ focus = "secrets" /\ Secrets!Next
       /\ UNCHANGED <<focus, localVars, mirrorVars, googleVars, schemaVars,
                      inboxVars, complVars, limitVars>>
    \/ /\ focus = "inbox" /\ Inbox!Next
       /\ UNCHANGED <<focus, localVars, mirrorVars, googleVars, schemaVars,
                      secretVars, complVars, limitVars>>
    \/ /\ focus = "compliance" /\ Compl!Next
       /\ UNCHANGED <<focus, localVars, mirrorVars, googleVars, schemaVars,
                      secretVars, inboxVars, limitVars>>
    \/ /\ focus = "limits" /\ Limits!Next
       /\ UNCHANGED <<focus, localVars, mirrorVars, googleVars, schemaVars,
                      secretVars, inboxVars, complVars>>

Spec == Init /\ [][Next]_vars

Symmetry == Permutations(Procs)

\* The types, of the service that is at work.
TypeOK ==
    CASE focus = "hai" -> Hai!TypeOK
      [] focus = "receipts" -> Receipts!TypeOK
      [] focus = "backup" -> Backup!TypeOK
      [] focus = "reports" -> Reports!TypeOK
      [] focus = "mirror" -> Mirror!TypeOK
      [] focus = "signin" -> SignIn!TypeOK
      [] focus = "photos" -> Picker!TypeOK
      [] focus = "alone" -> Alone!TypeOK
      [] focus = "schema" -> Schema!TypeOK
      [] focus = "secrets" -> Secrets!TypeOK
      [] focus = "inbox" -> Inbox!TypeOK
      [] focus = "compliance" -> Compl!TypeOK
      [] focus = "limits" -> Limits!TypeOK

\* HaiCommands: answers under one request id tell one story.
AnswersAgree == focus = "hai" => Hai!AnswersAgree

\* HaiCommands implements RequestJournal.
OneExecutionPerRequest == Hai!OneExecutionPerRequest

\* HaiCommands: a conflict is only answered to another contract.
RequestIdBound == Hai!RequestIdBound

\* ReceiptExecutor: two browsers never work on one document.
ExclusiveOrder == focus = "receipts" => Receipts!ExclusiveOrder

\* BackupRestore: a failed restore leaves the ledger as it was, a successful
\* one that of the package; every ledger that was replaced is in a package.
RestoreAllOrNothing ==
    focus = "backup" => Backup!RestoreAllOrNothing /\ Backup!ReplacedIsPackaged

\* BackupRestore: restored evidence is never overwritten.
EvidenceNotOverwritten == Backup!EvidenceNotOverwritten

\* ReportSlots: one process makes the report of a slot; a prepared report has
\* all its files, a failed one none.
\* HealthInbox: the inbox has what is wrong, and what was acknowledged stays.
\* Compliance: an undisturbed assessment is answered with the findings that
\* its facts give rise to, and only the newest of a period is open.
OperatorTold ==
    /\ focus = "reports" => Reports!OneWholeReport
    /\ focus = "inbox" => Inbox!InboxTold
    /\ focus = "compliance" => Compl!AnswersApply /\ Compl!OneOpenAssessment

\* WaveMirror: what is in Wave is never taken for gone.
MissingIsGone == focus = "mirror" => Mirror!MissingIsGone

\* GoogleSignIn: a good token is never held back for good, nor is one of
\* replaced credentials used.
\* SecretStore: a token is gone once Wave is disconnected, the store stays
\* readable, and a secret that was handed out is the one that is kept.
\* RateLimiter: no service is called more often than it may be.
AccountsRespected ==
    /\ focus = "signin" => SignIn!MarkerMeansStale
    /\ focus = "secrets" => Secrets!SecretsHeld
    /\ focus = "limits" => Limits!QuotaHeld

\* PhotosPicker: a selection is only deleted once its photos are documents,
\* and FAB and Google agree on what sessions are open.
SelectionKept ==
    /\ focus = "photos" => Picker!SelectionKept /\ Picker!SessionsAccounted
    /\ focus = "alone" => Alone!SelectionKept /\ Alone!SessionsAccounted

\* LedgerSchema: a ledger is upgraded after its backup, as a whole, and a
\* process that died on the way is no hindrance.
SchemaUpgraded == focus = "schema" => Schema!SchemaUpgraded
=============================================================================
