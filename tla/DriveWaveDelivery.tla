-------------------------- MODULE DriveWaveDelivery -------------------------
(***************************************************************************)
(* Closing the loop from a Google Drive source to Wave:                    *)
(* DriveWaveDeliveryService over the bookkeeping_documents, audit_events,  *)
(* review_items and runtime_leases tables and the Drive file itself.       *)
(*                                                                         *)
(* A process is a thread of the local API server or the background worker. *)
(* Every action is one ledger transaction or one group of Drive calls, so  *)
(* that other processes, the bookkeeper and the Drive user act in between, *)
(* and a process may die in between.                                       *)
(*                                                                         *)
(* The Wave fields that FAB expects of a document are a revision number,   *)
(* and so is their digest.  What comes back from Wave is reduced to what   *)
(* the evidence gates tell apart.                                          *)
(***************************************************************************)
EXTENDS Integers, FiniteSets

CONSTANTS
    Docs,           \* documents of the configured Drive intake folder
    Threads,        \* threads of the local API server
    Worker,         \* the background worker, of which there is one
    Outlived,       \* may a process outlive its archive lease
    MaxEdits,       \* bound: corrections of a document's facts or gates
    MaxAsks,        \* bound: archivings asked for over the API
    MaxChanges,     \* bound: what the Drive user does to a file
    MaxFaults,      \* bound: Drive calls that fail
    MaxLapses,      \* bound: times evidence grows too old
    MaxCrashes      \* bound: processes that die

ASSUME ProcsAssumption ==
    /\ IsFiniteSet(Threads)
    /\ {Worker, "nobody", "dead"} \cap Threads = {}
    /\ Worker \notin {"nobody", "dead"}
ASSUME DocsAssumption == Docs # {} /\ Outlived \in BOOLEAN
ASSUME BoundsAssumption ==
    /\ MaxEdits \in Nat
    /\ MaxAsks \in Nat
    /\ MaxChanges \in Nat
    /\ MaxFaults \in Nat
    /\ MaxLapses \in Nat
    /\ MaxCrashes \in Nat

VARIABLES
    life,       \* driveWaveLifecycle.status in the document's metadata
    facts,      \* revision of the Wave fields FAB expects
    gated,      \* another review is open, or the record is not ready
    evidence,   \* digest in the latest attachment_verified event
    fresh,      \* that event is recent enough
    blocked,    \* a drive_wave_archive_blocked review item is open
    lease,      \* the runtime lease drive-wave-archive:<document>
    folder,     \* Drive: the folder the file is in
    original,   \* Drive: the file holds the bytes FAB took in
    proc,       \* what each process is doing
    edits, asks, changes, faults, lapses, crashes,
    \* An observation, never read by the code's guards:
    proved      \* revisions for which Wave's copy came back byte for byte

ledger == <<life, evidence, fresh, blocked>>
book == <<facts, gated, edits>>
drive == <<folder, original>>
bounds == <<asks, changes, faults, lapses, crashes>>

vars == <<ledger, book, lease, drive, proc, bounds, proved>>

Procs == Threads \cup {Worker}

Revisions == 0..MaxEdits

NoEvidence == -1

Lives == {"new", "attachment_verified", "archived"}

Folders == {"intake", "archive", "elsewhere"}

LeaseRows == [owner : Procs \cup {"nobody", "dead"}, live : BOOLEAN]

Unheld == [owner |-> "nobody", live |-> FALSE]

(***************************************************************************)
(* Processes.  held tells whether the archive lease was acquired, digest   *)
(* is the revision that a readback was compared with, or that the final    *)
(* plan of a move has seen.                                                *)
(***************************************************************************)
EvidencePCs == {"event", "metadata", "resolve"}

\* From the first look at the Drive file to the last write.
MovePCs == {"inspect", "final", "move", "verify", "restore", "commit"}

PCs == {"idle", "plan", "lease", "replan", "block", "release"} \cup EvidencePCs
            \cup MovePCs

ProcStates == [pc : PCs, on : Docs, held : BOOLEAN, digest : Revisions]

IdleState ==
    [pc |-> "idle", on |-> CHOOSE d \in Docs : TRUE, held |-> FALSE,
     digest |-> 0]

Idle(p) == proc[p].pc = "idle"

Goto(p, pc) == proc' = [proc EXCEPT ![p].pc = pc]

Return(p) == proc' = [proc EXCEPT ![p] = IdleState]

-----------------------------------------------------------------------------
Init ==
    /\ life = [d \in Docs |-> "new"]
    /\ facts = [d \in Docs |-> 0]
    /\ gated \in [Docs -> BOOLEAN]
    /\ evidence = [d \in Docs |-> NoEvidence]
    /\ fresh = [d \in Docs |-> FALSE]
    /\ blocked = [d \in Docs |-> FALSE]
    /\ lease = [d \in Docs |-> Unheld]
    /\ folder = [d \in Docs |-> "intake"]
    /\ original = [d \in Docs |-> TRUE]
    /\ proc = [p \in Procs |-> IdleState]
    /\ edits = 0
    /\ asks = 0
    /\ changes = 0
    /\ faults = 0
    /\ lapses = 0
    /\ crashes = 0
    /\ proved = [d \in Docs |-> {}]

(***************************************************************************)
(* record_attachment_readback and record_attachment_evidence.              *)
(***************************************************************************)
\* What an executor hands in: whether FAB received the bytes or a mere
\* attestation, whether they are the bytes of the source, and the revision
\* that the observed Wave fields agree with.
Readbacks == [bytes : BOOLEAN, same : BOOLEAN, fields : Revisions]

\* Mutant: an attestation of the hash counts as much as the bytes.
EvidenceHolds_Attested(d, r) == r.same /\ r.fields = facts[d]

\* _evidence_reasons finds nothing.
EvidenceHolds(d, r) == r.bytes /\ r.same /\ r.fields = facts[d]

\* The document and its record are read, the evidence is judged.  A rejection
\* only leaves an audit event.
Readback(p, d, r) ==
    /\ Idle(p)
    /\ EvidenceHolds(d, r)
    /\ proc' = [proc EXCEPT ![p] = [pc |-> "event", on |-> d, held |-> FALSE,
                                    digest |-> facts[d]]]
    /\ proved' = [proved EXCEPT
                     ![d] = IF r.bytes /\ r.same THEN @ \cup {r.fields} ELSE @]
    /\ UNCHANGED <<ledger, book, lease, drive, bounds>>

\* The event that later plans look for ...
RecordEvent(p) ==
    /\ proc[p].pc = "event"
    /\ evidence' = [evidence EXCEPT ![proc[p].on] = proc[p].digest]
    /\ fresh' = [fresh EXCEPT ![proc[p].on] = TRUE]
    /\ Goto(p, "metadata")
    /\ UNCHANGED <<life, blocked, book, lease, drive, bounds, proved>>

\* ... the document's metadata, written as a whole from the copy read first ...
RecordLifecycle(p) ==
    /\ proc[p].pc = "metadata"
    /\ life' = [life EXCEPT ![proc[p].on] = "attachment_verified"]
    /\ Goto(p, "resolve")
    /\ UNCHANGED <<evidence, fresh, blocked, book, lease, drive, bounds, proved>>

\* ... and _resolve_archive_review_items.
ResolveReviews(p) ==
    /\ proc[p].pc = "resolve"
    /\ blocked' = [blocked EXCEPT ![proc[p].on] = FALSE]
    /\ Return(p)
    /\ UNCHANGED <<life, evidence, fresh, book, lease, drive, bounds, proved>>

(***************************************************************************)
(* plan_archive: every gate in one look.                                   *)
(***************************************************************************)
\* Mutant: evidence for earlier facts is good enough.
EvidenceCurrent_Any(d) == evidence[d] # NoEvidence /\ fresh[d]

\* _wave_evidence_plan.
EvidenceCurrent(d) == evidence[d] = facts[d] /\ fresh[d]

CanArchive(d) ==
    /\ life[d] # "archived"
    /\ ~ gated[d]
    /\ ~ blocked[d]
    /\ EvidenceCurrent(d)

\* _work_order_stage: the executor is to read the attachment back.  Reviews
\* other than those of a blocked archiving come first.

\* Mutant: an open review is an open review.
WorkOrderOpen_AnyReview(d) ==
    /\ life[d] # "archived"
    /\ ~ gated[d]
    /\ ~ blocked[d]
    /\ ~ CanArchive(d)

WorkOrderOpen(d) ==
    /\ life[d] # "archived"
    /\ ~ gated[d]
    /\ ~ CanArchive(d)

(***************************************************************************)
(* archive_document, asked for over the API or by the worker's stage,      *)
(* whose archive_ready takes the documents that its listing shows ready.   *)
(***************************************************************************)
Enter(p, d) ==
    proc' = [proc EXCEPT ![p] =
               [pc |-> "plan", on |-> d, held |-> FALSE, digest |-> 0]]

AskArchive(p, d) ==
    /\ Idle(p)
    /\ asks < MaxAsks
    /\ asks' = asks + 1
    /\ Enter(p, d)
    /\ UNCHANGED <<ledger, book, lease, drive, changes, faults, lapses, crashes,
                   proved>>

ArchiveReady(d) ==
    /\ Idle(Worker)
    /\ CanArchive(d)
    /\ Enter(Worker, d)
    /\ UNCHANGED <<ledger, book, lease, drive, bounds, proved>>

Plan(p) ==
    LET d == proc[p].on IN
    /\ proc[p].pc = "plan"
    /\ IF life[d] = "archived" THEN Return(p)
       ELSE Goto(p, IF CanArchive(d) THEN "lease" ELSE "block")
    /\ UNCHANGED <<ledger, book, lease, drive, bounds, proved>>

\* Mutant: a lease is taken over whether it has expired or not.
Acquirable_Any(d) == TRUE
Acquirable(d) == lease[d].owner = "nobody" \/ ~ lease[d].live

AcquireLease(p) ==
    LET d == proc[p].on IN
    /\ proc[p].pc = "lease"
    /\ IF Acquirable(d)
       THEN /\ lease' = [lease EXCEPT ![d] = [owner |-> p, live |-> TRUE]]
            /\ proc' = [proc EXCEPT ![p].pc = "replan", ![p].held = TRUE]
       ELSE Return(p) /\ UNCHANGED lease
    /\ UNCHANGED <<ledger, book, drive, bounds, proved>>

\* The plan is made again under the lease.
Replan(p) ==
    /\ proc[p].pc = "replan"
    /\ Goto(p, CASE CanArchive(proc[p].on) -> "inspect"
                 [] life[proc[p].on] = "archived" -> "release"
                 [] OTHER -> "block")
    /\ UNCHANGED <<ledger, book, lease, drive, bounds, proved>>

\* A Drive call fails: no connection, no authorisation, a time limit.
Fault == faults < MaxFaults /\ faults' = faults + 1

NoFault == UNCHANGED faults

\* inspect_file, download_sha256 and _assert_provider_identity.  Where the
\* client cannot even be made, the exception passes the handler by.
InspectSource(p) ==
    /\ proc[p].pc = "inspect"
    /\ \/ NoFault /\ Goto(p, IF original[proc[p].on] THEN "final" ELSE "block")
       \/ Fault /\ (Goto(p, "block") \/ Goto(p, "release"))
    /\ UNCHANGED <<ledger, book, lease, drive, asks, changes, lapses, crashes,
                   proved>>

\* The plan just before the move.
FinalPlan(p) ==
    LET d == proc[p].on IN
    /\ proc[p].pc = "final"
    /\ proc' = [proc EXCEPT
                  ![p].pc = IF CanArchive(d) THEN "move" ELSE "block",
                  ![p].digest = facts[d]]
    /\ UNCHANGED <<ledger, book, lease, drive, bounds, proved>>

\* move_file.  When it raises there is no move_result, so nothing is rolled
\* back, even if Drive had already moved the file.
MoveFile(p) ==
    LET d == proc[p].on IN
    /\ proc[p].pc = "move"
    /\ \/ /\ folder[d] = "elsewhere"
          /\ NoFault
          /\ Goto(p, "block")
          /\ UNCHANGED folder
       \/ /\ folder[d] # "elsewhere"
          /\ NoFault
          /\ Goto(p, "verify")
          /\ folder' = [folder EXCEPT ![d] = "archive"]
       \/ /\ Fault
          /\ Goto(p, "block")
          /\ \/ UNCHANGED folder
             \/ /\ folder[d] = "intake"
                /\ folder' = [folder EXCEPT ![d] = "archive"]
    /\ UNCHANGED <<ledger, book, lease, original, asks, changes, lapses, crashes,
                   proved>>

\* The file is read back and _assert_archive_postcondition holds, or not.
VerifyMove(p) ==
    LET d == proc[p].on IN
    /\ proc[p].pc = "verify"
    /\ \/ /\ NoFault
          /\ Goto(p, IF folder[d] = "archive" /\ original[d] THEN "commit"
                                                             ELSE "restore")
       \/ Fault /\ Goto(p, "restore")
    /\ UNCHANGED <<ledger, book, lease, drive, asks, changes, lapses, crashes,
                   proved>>

\* restore_file: a rollback that fails, before or after Drive moved the file,
\* is only reported.
RestoreFile(p) ==
    LET d == proc[p].on IN
    /\ proc[p].pc = "restore"
    /\ \/ /\ NoFault
          /\ folder' = [folder EXCEPT
                          ![d] = IF @ = "archive" THEN "intake" ELSE @]
       \/ /\ Fault
          /\ \/ UNCHANGED folder
             \/ /\ folder[d] = "archive"
                /\ folder' = [folder EXCEPT ![d] = "intake"]
    /\ Goto(p, "block")
    /\ UNCHANGED <<ledger, book, lease, original, asks, changes, lapses, crashes,
                   proved>>

\* Mutant: the lifecycle takes over the status that the move reported.
CommitArchive_ProviderStatus(p) ==
    /\ proc[p].pc = "commit"
    /\ life' = [life EXCEPT ![proc[p].on] = "already_archived"]
    /\ Goto(p, "release")
    /\ UNCHANGED <<evidence, fresh, blocked, book, lease, drive, bounds, proved>>

\* The lifecycle becomes archived.
CommitArchive(p) ==
    /\ proc[p].pc = "commit"
    /\ life' = [life EXCEPT ![proc[p].on] = "archived"]
    /\ Goto(p, "release")
    /\ UNCHANGED <<evidence, fresh, blocked, book, lease, drive, bounds, proved>>

\* _ensure_review_item, after any gate or call that failed.
EnsureReview(p) ==
    /\ proc[p].pc = "block"
    /\ blocked' = [blocked EXCEPT ![proc[p].on] = TRUE]
    /\ IF proc[p].held THEN Goto(p, "release") ELSE Return(p)
    /\ UNCHANGED <<life, evidence, fresh, book, lease, drive, bounds, proved>>

ReleaseLease(p) ==
    LET d == proc[p].on IN
    /\ proc[p].pc = "release"
    /\ lease' = IF lease[d].owner = p THEN [lease EXCEPT ![d] = Unheld]
                                      ELSE lease
    /\ Return(p)
    /\ UNCHANGED <<ledger, book, drive, bounds, proved>>

(***************************************************************************)
(* The surroundings.                                                       *)
(***************************************************************************)
\* The bookkeeping record is corrected.
EditFacts(d) ==
    /\ edits < MaxEdits
    /\ edits' = edits + 1
    /\ facts' = [facts EXCEPT ![d] = @ + 1]
    /\ UNCHANGED <<gated, ledger, lease, drive, proc, bounds, proved>>

\* Another review opens or closes.
ChangeGate(d) ==
    /\ edits < MaxEdits
    /\ edits' = edits + 1
    /\ gated' = [gated EXCEPT ![d] = ~ @]
    /\ UNCHANGED <<facts, ledger, lease, drive, proc, bounds, proved>>

\* The evidence passes its maximum age.
Lapse(d) ==
    /\ fresh[d]
    /\ lapses < MaxLapses
    /\ lapses' = lapses + 1
    /\ fresh' = [fresh EXCEPT ![d] = FALSE]
    /\ UNCHANGED <<life, evidence, blocked, book, lease, drive, proc, asks,
                   changes, faults, crashes, proved>>

\* The Drive user replaces the bytes, or moves the file.
UserReplaces(d) ==
    /\ changes < MaxChanges
    /\ changes' = changes + 1
    /\ original' = [original EXCEPT ![d] = FALSE]
    /\ UNCHANGED <<ledger, book, lease, folder, proc, asks, faults, lapses, crashes,
                   proved>>

UserMoves(d, f) ==
    /\ changes < MaxChanges
    /\ changes' = changes + 1
    /\ folder' = [folder EXCEPT ![d] = f]
    /\ UNCHANGED <<ledger, book, lease, original, proc, asks, faults, lapses, crashes,
                   proved>>

\* The clock passes expires_at.
Expire(d) ==
    /\ lease[d].live
    /\ lease[d].owner = "dead" \/ Outlived
    /\ lease' = [lease EXCEPT ![d].live = FALSE]
    /\ UNCHANGED <<ledger, book, drive, proc, bounds, proved>>

\* A process dies; its lease stays until it expires.
Crash(p) ==
    /\ ~ Idle(p)
    /\ crashes < MaxCrashes
    /\ crashes' = crashes + 1
    /\ lease' = [d \in Docs |->
                   IF lease[d].owner = p THEN [lease[d] EXCEPT !.owner = "dead"]
                                         ELSE lease[d]]
    /\ Return(p)
    /\ UNCHANGED <<ledger, book, drive, asks, changes, faults, lapses, proved>>

Begin(d) ==
    \/ \E p \in Threads, r \in Readbacks : Readback(p, d, r)
    \/ \E p \in Threads : AskArchive(p, d)
    \/ ArchiveReady(d)

Proceed(p) ==
    \/ RecordEvent(p) \/ RecordLifecycle(p) \/ ResolveReviews(p)
    \/ Plan(p) \/ AcquireLease(p) \/ Replan(p) \/ InspectSource(p) \/ FinalPlan(p)
    \/ MoveFile(p) \/ VerifyMove(p) \/ RestoreFile(p) \/ CommitArchive(p)
    \/ EnsureReview(p) \/ ReleaseLease(p)

Surroundings(d) ==
    \/ EditFacts(d) \/ ChangeGate(d) \/ Lapse(d)
    \/ UserReplaces(d) \/ \E f \in Folders : UserMoves(d, f)
    \/ Expire(d)

Next ==
    \/ \E p \in Procs : Proceed(p) \/ Crash(p)
    \/ \E d \in Docs : Begin(d) \/ Surroundings(d)

Spec == Init /\ [][Next]_vars

AnswerWorkOrder(p, d) ==
    /\ WorkOrderOpen(d)
    /\ Readback(p, d, [bytes |-> TRUE, same |-> TRUE, fields |-> facts[d]])

\* A thread inside a handler goes on unless it dies, a dead process's lease
\* expires, the executor answers open work orders with what Wave holds, and
\* the worker comes back to its archive stage.
FairSpec ==
    /\ Spec
    /\ \A p \in Procs : WF_vars(Proceed(p))
    /\ \A d \in Docs :
        /\ WF_vars(Expire(d) /\ lease[d].owner = "dead")
        /\ SF_vars(\E p \in Threads : AnswerWorkOrder(p, d))
        /\ SF_vars(ArchiveReady(d))

-----------------------------------------------------------------------------
\* Lifecycles, leases and folders hold only what the plans can read, whatever
\* Drive reports about a move.  (_archive_document_with_lease)
TypeOK ==
    /\ life \in [Docs -> Lives]
    /\ facts \in [Docs -> Revisions]
    /\ gated \in [Docs -> BOOLEAN]
    /\ evidence \in [Docs -> Revisions \cup {NoEvidence}]
    /\ fresh \in [Docs -> BOOLEAN]
    /\ blocked \in [Docs -> BOOLEAN]
    /\ lease \in [Docs -> LeaseRows]
    /\ folder \in [Docs -> Folders]
    /\ original \in [Docs -> BOOLEAN]
    /\ proc \in [Procs -> ProcStates]
    /\ edits \in 0..MaxEdits
    /\ asks \in 0..MaxAsks
    /\ changes \in 0..MaxChanges
    /\ faults \in 0..MaxFaults
    /\ lapses \in 0..MaxLapses
    /\ crashes \in 0..MaxCrashes
    /\ proved \in [Docs -> SUBSET Revisions]

\* FAB never moves a source out of the intake folder unless the bytes of its
\* Wave attachment have come back and matched, whatever attestations, edits,
\* failures and deaths came before.  (record_attachment_readback,
\* plan_archive)
ArchiveNeedsReadback ==
    \A d \in Docs :
        \/ folder[d] = "archive" /\ changes = 0
        \/ life[d] = "archived"
        => proved[d] # {}

\* Two archive moves of one document never run at the same time, whoever asked
\* for them and whoever died before.  (archive_document)
OneMove ==
    \A p, q \in Procs :
        /\ proc[p].pc \in MovePCs
        /\ proc[q].pc \in MovePCs
        /\ proc[p].on = proc[q].on
        => p = q

\* A document that the ledger calls archived is in the archive folder unless
\* the Drive user took it out: no rollback of another attempt, and no death,
\* separates the two.  (CommitArchive, RestoreFile under the lease)
LedgerMatchesDrive ==
    changes = 0 =>
        \A d \in Docs : life[d] = "archived" => folder[d] = "archive"

\* A move rests on a byte for byte readback of the very facts that its final
\* plan has seen: an older readback, judged before a correction, does not
\* carry over, in whatever order events are recorded.  (expectedFieldsDigest,
\* _wave_evidence_plan)
MoveMatchesFacts ==
    \A p \in Procs :
        proc[p].pc \in {"move", "verify", "commit"} =>
            proc[p].digest \in proved[proc[p].on]

\* With no process at work, an open archive review means what it says: the
\* source was retained in the intake folder.  (_ensure_review_item)
BlockedIsRetained ==
    (\A p \in Procs : Idle(p)) /\ changes = 0 =>
        \A d \in Docs : blocked[d] => folder[d] = "intake"

\* Once corrections stop, failures of Drive and deaths of processes only
\* delay the delivery of a document whose other gates are open: the review
\* that a failed attempt leaves behind is resolved by the next readback, and
\* a file moved by a process that died is adopted by the next attempt.
\* (_work_order_stage, _resolve_archive_review_items, move_file)
Delivered ==
    \A d \in Docs : <>[](~ gated[d]) => []<>(life[d] = "archived")
=============================================================================
