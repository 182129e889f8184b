---------------------------- MODULE LedgerSchema ----------------------------
(***************************************************************************)
(* How LocalOperationsLedger opens its file: the backup before a schema is *)
(* upgraded, the upgrade, and the history that declares its version.       *)
(*                                                                         *)
(* Every process that opens the ledger, the worker, the API and the        *)
(* command line, runs all of it.  Python's sqlite3 module begins a         *)
(* transaction at an INSERT or UPDATE only: each CREATE or ALTER is        *)
(* committed by itself and what was read before it is read outside of any  *)
(* transaction.  An action is one such statement or one file written.      *)
(***************************************************************************)
EXTENDS Integers, Sequences, FiniteSets

CONSTANTS
    Procs,
    Pasts,      \* ledgers that there may be: see Ledger
    Columns,    \* columns that the baseline has and older ledgers may lack
    MaxStarts,  \* bound: processes that open the ledger
    MaxFaults,  \* bound: backups that fail
    MaxCrashes, \* bound: processes that die while they open it
    MaxReviews  \* bound: reviews that an older FAB still opens meanwhile

VARIABLES
    past,       \* the ledger as it was found
    db,         \* the ledger
    backups,    \* schema_backups: the copies that have their manifest
    audited,    \* pre_migration_backup_created was recorded
    proc,       \* what each process is doing
    starts, faults, crashes,
    older       \* reviews that an older FAB has opened since

vars == <<past, db, backups, audited, proc, starts, faults, crashes, older>>

Supported == 1      \* LEDGER_SCHEMA_VERSION

\* A ledger: PRAGMA user_version, the versions in schema_migrations, whether
\* the tables of the baseline are there, the columns they have, documents
\* whose content hash is only in their metadata, groups of open reviews of
\* one document and reason, and the index that forbids such groups.
Ledger ==
    [version : 0..Supported + 1, history : SUBSET (1..Supported + 1),
     tables : BOOLEAN, columns : SUBSET Columns, unhashed : BOOLEAN,
     doubles : 0..MaxReviews + 1, index : BOOLEAN]

Empty == [version |-> 0, history |-> {}, tables |-> FALSE, columns |-> {},
          unhashed |-> FALSE, doubles |-> 0, index |-> FALSE]

Idle == [at |-> "closed", seen |-> 0, todo |-> {}, copy |-> Empty,
         alone |-> TRUE]

Ends == {"closed", "open", "failed", "unsaved"}
Steps == {"inspect", "copy", "manifest", "version", "history", "tables",
          "look", "alter", "hashes", "doubles", "index", "record", "audit"}

Opening(q) == proc[q].at \in Steps

TypeOK ==
    /\ past \in Pasts /\ db \in Ledger
    /\ backups \subseteq Ledger /\ audited \in BOOLEAN
    /\ proc \in [Procs -> [at : Ends \cup Steps, seen : 0..MaxReviews + 1,
                           todo : SUBSET Columns, copy : Ledger,
                           alone : BOOLEAN]]
    /\ starts \in 0..MaxStarts /\ faults \in 0..MaxFaults
    /\ crashes \in 0..MaxCrashes /\ older \in 0..MaxReviews

Init ==
    /\ past \in Pasts /\ db = past
    /\ backups = {} /\ audited = FALSE
    /\ proc = [p \in Procs |-> Idle]
    /\ starts = 0 /\ faults = 0 /\ crashes = 0 /\ older = 0

Go(p, at) == proc' = [proc EXCEPT ![p].at = at]
Counted == UNCHANGED <<past, starts, faults, crashes, older>>
Ran(p, at) == Go(p, at) /\ Counted

\* A process opens the ledger; whether it is the only one is noted.
Start(p) ==
    LET others == {q \in Procs \ {p} : Opening(q)}
    IN /\ ~Opening(p) /\ starts < MaxStarts
       /\ starts' = starts + 1
       /\ proc' = [q \in Procs |->
              IF q = p THEN [Idle EXCEPT !.at = "inspect",
                                         !.alone = others = {}]
              ELSE [proc[q] EXCEPT !.alone = @ /\ q \notin others]]
       /\ UNCHANGED <<past, db, backups, audited, faults, crashes, older>>

-----------------------------------------------------------------------------
\* _prepare_schema_migration_backup

\* The version of a ledger: the higher one of what it and its history say.
VersionOf(ledger) ==
    CHOOSE v \in ledger.history \cup {ledger.version} :
        \A w \in ledger.history \cup {ledger.version} : w <= v

Inspect(p) ==
    /\ proc[p].at = "inspect"
    /\ Ran(p, CASE VersionOf(db) > Supported -> "failed"
                [] VersionOf(db) < Supported /\ db.tables -> "copy"
                [] OTHER -> "version")
    /\ UNCHANGED <<db, backups, audited>>

\* The copy is one consistent snapshot, and is checked.  Without its manifest,
\* which a death may cost it, it is nobody's backup.
Copy(p) ==
    /\ proc[p].at = "copy"
    /\ proc' = [proc EXCEPT ![p].at = "manifest", ![p].copy = db]
    /\ Counted /\ UNCHANGED <<db, backups, audited>>

\* Mutant: an upgrade goes on without its backup.
BackupFails_GoOn(p) ==
    /\ proc[p].at = "copy" /\ faults < MaxFaults
    /\ faults' = faults + 1
    /\ Go(p, "version")
    /\ UNCHANGED <<past, db, backups, audited, starts, crashes, older>>
\* No space, no access or a copy that is not sound: nothing of it remains.
BackupFails(p) ==
    /\ proc[p].at = "copy" /\ faults < MaxFaults
    /\ faults' = faults + 1
    /\ Go(p, "unsaved")
    /\ UNCHANGED <<past, db, backups, audited, starts, crashes, older>>

\* The manifest takes its place in one step, with the digest of the copy.
Manifest(p) ==
    /\ proc[p].at = "manifest"
    /\ backups' = backups \cup {proc[p].copy}
    /\ Ran(p, "version")
    /\ UNCHANGED <<db, audited>>

-----------------------------------------------------------------------------
\* _validate_schema_migration_history: two reads, outside of a transaction

ReadVersion(p) ==
    /\ proc[p].at = "version"
    /\ IF db.version > Supported THEN Go(p, "failed")
       ELSE proc' = [proc EXCEPT ![p].at = "history", ![p].seen = db.version]
    /\ Counted /\ UNCHANGED <<db, backups, audited>>

ReadHistory(p) ==
    /\ proc[p].at = "history"
    /\ Ran(p, IF db.history = 1..proc[p].seen THEN "tables" ELSE "failed")
    /\ UNCHANGED <<db, backups, audited>>

-----------------------------------------------------------------------------
\* _init_schema

\* CREATE TABLE IF NOT EXISTS: new tables have every column.
CreateTables(p) ==
    /\ proc[p].at = "tables"
    /\ db' = IF db.tables THEN db
             ELSE [db EXCEPT !.tables = TRUE, !.columns = Columns]
    /\ Ran(p, "look")
    /\ UNCHANGED <<backups, audited>>

\* Mutant: columns are added without a look at what is there.
Lacking_All == Columns
Lacking == Columns \ db.columns

\* _ensure_column and its like: the columns are read, and those that are not
\* among them are added; one that is there by then is an error.
Look(p) ==
    /\ proc[p].at = "look"
    /\ proc' = [proc EXCEPT ![p].todo = Lacking,
                            ![p].at = IF Lacking = {} THEN "hashes"
                                      ELSE "alter"]
    /\ Counted /\ UNCHANGED <<db, backups, audited>>

Alter(p) ==
    /\ proc[p].at = "alter"
    /\ \E column \in proc[p].todo :
        IF column \in db.columns THEN Go(p, "failed") /\ UNCHANGED db
        ELSE /\ db' = [db EXCEPT !.columns = @ \cup {column}]
             /\ proc' = [proc EXCEPT
                    ![p].todo = @ \ {column},
                    ![p].at = IF proc[p].todo = {column} THEN "hashes" ELSE @]
    /\ Counted /\ UNCHANGED <<backups, audited>>

\* _backfill_document_content_hashes.
Backfill(p) ==
    /\ proc[p].at = "hashes"
    /\ db' = [db EXCEPT !.unhashed = FALSE]
    /\ Ran(p, "doubles")
    /\ UNCHANGED <<backups, audited>>

\* _ensure_review_item_schema: open reviews of one reason are reduced to the
\* newest one, and an index keeps them so.
LookDoubles(p) ==
    /\ proc[p].at = "doubles"
    /\ proc' = [proc EXCEPT ![p].at = "index", ![p].seen = db.doubles]
    /\ Counted /\ UNCHANGED <<db, backups, audited>>

\* Groups that came since cannot be indexed: all of it is rolled back.
Index(p) ==
    LET left == IF db.doubles > proc[p].seen THEN db.doubles - proc[p].seen
                ELSE 0
    IN /\ proc[p].at = "index"
       /\ IF left > 0 THEN Go(p, "failed") /\ UNCHANGED db
          ELSE Go(p, "record") /\ db' = [db EXCEPT !.doubles = 0,
                                                   !.index = TRUE]
       /\ Counted /\ UNCHANGED <<backups, audited>>

\* _record_schema_migration: history and version in one transaction.
Record(p) ==
    /\ proc[p].at = "record"
    /\ db' = [db EXCEPT !.history = @ \cup 1..Supported,
                        !.version = Supported]
    /\ Ran(p, IF proc[p].copy = Empty THEN "open" ELSE "audit")
    /\ UNCHANGED <<backups, audited>>

Audit(p) ==
    /\ proc[p].at = "audit"
    /\ audited' = TRUE
    /\ Ran(p, "open")
    /\ UNCHANGED <<db, backups>>

-----------------------------------------------------------------------------
\* Around it

\* An older FAB that still runs opens a second review of one reason.
OlderReview ==
    /\ older < MaxReviews /\ db.tables /\ ~db.index
    /\ older' = older + 1
    /\ db' = [db EXCEPT !.doubles = @ + 1]
    /\ proc' = [q \in Procs |-> [proc[q] EXCEPT
                                    !.alone = @ /\ ~Opening(q)]]
    /\ UNCHANGED <<past, backups, audited, starts, faults, crashes>>

Crash(p) ==
    /\ Opening(p) /\ crashes < MaxCrashes
    /\ crashes' = crashes + 1
    /\ proc' = [proc EXCEPT ![p] = Idle]
    /\ UNCHANGED <<past, db, backups, audited, starts, faults, older>>

Next ==
    \/ \E p \in Procs :
        \/ Start(p) \/ Inspect(p) \/ Copy(p) \/ BackupFails(p) \/ Manifest(p)
        \/ ReadVersion(p) \/ ReadHistory(p) \/ CreateTables(p)
        \/ Look(p) \/ Alter(p) \/ Backfill(p) \/ LookDoubles(p) \/ Index(p)
        \/ Record(p) \/ Audit(p) \/ Crash(p)
    \/ OlderReview

-----------------------------------------------------------------------------
\* Properties

\* A ledger but for the reviews that an older FAB may still open in it.
Settled(ledger) == [ledger EXCEPT !.doubles = 0]
Altered == Settled(db) # Settled(past)

\* A ledger that was in use is not upgraded before a copy of it as it was, to
\* the last column, is there with its manifest: over crashes, failed backups
\* and processes that upgrade it at the same time.
BackedUpFirst ==
    past.tables /\ Altered =>
        \E copy \in backups : Settled(copy) = Settled(past)

\* A ledger that declares the supported version has all of it, and a history
\* that says so, whoever died on the way; one that is newer is not touched.
CompleteWhenCurrent ==
    /\ db.version = Supported =>
           /\ db.tables /\ db.columns = Columns /\ ~db.unhashed
           /\ db.index /\ db.doubles = 0
    /\ db.history = 1..db.version
    /\ past.version > Supported => ~Altered

\* A process that opens the ledger while no other one opens or changes it
\* fails only when the ledger is newer, or when the backup cannot be made:
\* what a crash has left half upgraded is upgraded further.
AloneOpens ==
    \A p \in Procs :
        proc[p].at = "failed" /\ proc[p].alone => past.version > Supported

SchemaUpgraded == BackedUpFirst /\ CompleteWhenCurrent /\ AloneOpens
=============================================================================
