--------------------------- MODULE ConnectorIntake --------------------------
(***************************************************************************)
(* Collecting documents: LocalConnectorIntakeService.sync for a Gmail      *)
(* account and LocalFolderIntake.rescan for a folder, over the tables      *)
(* source_accounts, bookkeeping_documents, duplicate_candidates and        *)
(* review_items, with the query window of GmailFetcher.fetch_documents.    *)
(*                                                                         *)
(* A process is the worker or a thread of the API server.  A sync holds a  *)
(* lease that nothing renews; a rescan holds none.  Every action is one    *)
(* ledger transaction, or a scan of the outside world.  A message arrives  *)
(* at a time and keeps its bytes; a file may be rewritten.                 *)
(*                                                                         *)
(* Not modelled: target systems and their backfill, download and decoding, *)
(* rejected attachments, the other connectors (no checkpoint), the status  *)
(* of the workflow run, which no later sync reads.                         *)
(***************************************************************************)
EXTENDS Integers, FiniteSets

CONSTANTS
    Procs,      \* the worker and the API threads
    Mails,      \* attachments of messages in the account
    Files,      \* files in the folder
    Contents,   \* the bytes a document may have
    Overlap,    \* gmail_incremental_overlap_seconds
    MaxTime,    \* bound: the clock
    MaxFaults   \* bound: registrations that raise, processes that die and
                \* files that are rewritten

VARIABLES
    clock,
    arrived,    \* when each message arrived, or Never
    bytes,      \* what each document holds now
    row,        \* the document row of each source document and content
    base,       \* the content each source document was first registered with
    checkpoint, \* lastSuccessfulSyncAt of the account, or Never
    holder,     \* of the live lease local_connector_intake, or None
    proc,       \* what each process is doing
    faults,
    \* Observations, never read by the code's guards:
    overlapped, \* two intakes registered documents at the same time
    broken      \* rows whose registration raised or died after the insert

ledger == <<row, base, checkpoint, holder>>
world == <<clock, arrived, bytes>>
seen == <<overlapped, broken>>
vars == <<world, ledger, proc, faults, seen>>

Never == 0
None == "none"
Sources == Mails \cup Files

NoRow == [status |-> None, dup |-> FALSE, candidate |-> FALSE,
          review |-> FALSE]

NoDoc == [id |-> None, content |-> None, revision |-> FALSE, dup |-> FALSE]

Idle == [at |-> "idle", op |-> None, prev |-> Never, listed |-> Never,
         todo |-> {}, doc |-> NoDoc, error |-> FALSE]

Registering == {"look", "insert", "candidate", "review"}

TypeOK ==
    /\ clock \in 1..MaxTime
    /\ arrived \in [Mails -> 0..MaxTime]
    /\ bytes \in [Sources -> Contents]
    /\ row \in [Sources -> [Contents ->
            [status : {None, "imported", "needs_review"},
             dup : BOOLEAN, candidate : BOOLEAN, review : BOOLEAN]]]
    /\ base \in [Sources -> Contents \cup {None}]
    /\ checkpoint \in 0..MaxTime
    /\ holder \in Procs \cup {None}
    /\ \A p \in Procs :
        /\ proc[p].at \in Registering \cup {"idle", "read", "fetch", "next", "finish"}
        /\ proc[p].op \in {None, "sync", "rescan"}
        /\ proc[p].prev \in 0..MaxTime /\ proc[p].listed \in 0..MaxTime
        /\ proc[p].todo \subseteq Sources
        /\ proc[p].doc \in [id : Sources \cup {None},
                            content : Contents \cup {None},
                            revision : BOOLEAN, dup : BOOLEAN]
        /\ proc[p].error \in BOOLEAN

Init ==
    /\ clock = 1
    /\ arrived = [m \in Mails |-> Never]
    /\ \E c \in Contents : bytes = [d \in Sources |-> c]
    /\ row = [d \in Sources |-> [c \in Contents |-> NoRow]]
    /\ base = [d \in Sources |-> None]
    /\ checkpoint = Never
    /\ holder = None
    /\ proc = [p \in Procs |-> Idle]
    /\ faults = 0
    /\ overlapped = FALSE /\ broken = {}

Goto(p, pc) == proc' = [proc EXCEPT ![p].at = pc]

(***************************************************************************)
(* The sync of the account.                                                *)
(***************************************************************************)
StartSync(p) ==
    /\ proc[p] = Idle
    /\ holder = None
    /\ holder' = p
    /\ proc' = [proc EXCEPT ![p] = [Idle EXCEPT !.at = "read", !.op = "sync"]]
    /\ UNCHANGED <<world, row, base, checkpoint, faults, seen>>

Release(p) == IF holder = p THEN None ELSE holder

\* The account's metadata is read and written back with status syncing; one
\* that cannot be synced leaves it at that, and the sync ends.
ReadSource(p) ==
    /\ proc[p].at = "read"
    /\ \/ /\ proc' = [proc EXCEPT ![p].at = "fetch", ![p].prev = checkpoint]
          /\ UNCHANGED holder
       \/ /\ proc' = [proc EXCEPT ![p] = Idle]
          /\ holder' = Release(p)
    /\ UNCHANGED <<world, row, base, checkpoint, faults, seen>>

\* Mutant: the window starts at the checkpoint.
Window_Tight(p) ==
    {m \in Mails : arrived[m] # Never /\ arrived[m] >= proc[p].prev}
Window(p) ==
    {m \in Mails : arrived[m] # Never
                   /\ (proc[p].prev # Never
                            => arrived[m] >= proc[p].prev - Overlap)}

\* Mutant: a scan that reached its cap is a whole one.
Partial_Silent(p, got) == FALSE
Partial(p, got) == got # Window(p)

\* A scan that raises, reaches its page or message cap, or loses a message or
\* an attachment hands over less and says so.
Fetch(p) ==
    /\ proc[p].at = "fetch"
    /\ \E got \in SUBSET Window(p) :
        proc' = [proc EXCEPT ![p].at = "next", ![p].todo = got,
                             ![p].listed = clock,
                             ![p].error = Partial(p, got)]
    /\ UNCHANGED <<world, ledger, faults, seen>>

(***************************************************************************)
(* Registering one document.                                               *)
(***************************************************************************)
Busy(q) == proc[q].at \in Registering

NextDocument(p) ==
    /\ proc[p].at = "next"
    /\ \E d \in proc[p].todo :
        /\ proc' = [proc EXCEPT ![p].at = "look", ![p].todo = @ \ {d},
                        ![p].doc = [NoDoc EXCEPT !.id = d,
                                                 !.content = bytes[d]]]
        /\ overlapped' = (overlapped \/ \E q \in Procs : Busy(q))
    /\ UNCHANGED <<world, ledger, faults, broken>>

Registered(p) ==
    proc' = [proc EXCEPT ![p].at = "next", ![p].doc = NoDoc]

IsNew(d, c) == base[d] = None \/ row[d][c].status = None

\* Mutant: only documents of the same source are compared.
SameContent_SameSource(d, c) ==
    {e \in Sources \ {d} : row[e][c].status # None /\ (e \in Mails <=> d \in Mails)}
SameContent(d, c) == {e \in Sources \ {d} : row[e][c].status # None}

\* The row of the source id; with other bytes it is a revision, which may
\* itself be known.  What is new is compared with all rows by its hash.
Look(p) ==
    LET d == proc[p].doc.id
        c == proc[p].doc.content
    IN
    /\ proc[p].at = "look"
    /\ \/ ~IsNew(d, c) /\ Registered(p)
       \/ /\ IsNew(d, c)
          /\ proc' = [proc EXCEPT ![p].at = "insert",
                            ![p].doc.revision = (base[d] # None),
                            ![p].doc.dup = (SameContent(d, c) # {})]
    /\ UNCHANGED <<world, ledger, faults, seen>>

Held(d) == d.dup \/ d.revision

\* Mutant: the review of a revision is forgotten.
AfterInsert_NoReview(d) == IF d.dup THEN "candidate" ELSE "next"
AfterInsert(d) ==
    IF d.dup THEN "candidate" ELSE IF d.revision THEN "review" ELSE "next"

\* register_document: a row that exists by now is overwritten, except that no
\* link to a duplicate is taken away.
Insert(p) ==
    LET d == proc[p].doc
        next == AfterInsert(d)
    IN
    /\ proc[p].at = "insert"
    /\ row' = [row EXCEPT ![d.id][d.content] =
            [@ EXCEPT !.status = IF Held(d) THEN "needs_review" ELSE "imported",
                      !.dup = @ \/ d.dup]]
    /\ base' = [base EXCEPT ![d.id] = IF @ = None THEN d.content ELSE @]
    /\ IF next = "next" THEN Registered(p) ELSE Goto(p, next)
    /\ UNCHANGED <<world, checkpoint, holder, faults, seen>>

AddCandidate(p) ==
    LET d == proc[p].doc IN
    /\ proc[p].at = "candidate"
    /\ row' = [row EXCEPT ![d.id][d.content].candidate = TRUE]
    /\ Goto(p, "review")
    /\ UNCHANGED <<world, base, checkpoint, holder, faults, seen>>

AddReview(p) ==
    LET d == proc[p].doc IN
    /\ proc[p].at = "review"
    /\ row' = [row EXCEPT ![d.id][d.content].review = TRUE]
    /\ Registered(p)
    /\ UNCHANGED <<world, base, checkpoint, holder, faults, seen>>

Halfway(p) ==
    IF proc[p].at \in {"candidate", "review"}
    THEN broken \cup {<<proc[p].doc.id, proc[p].doc.content>>} ELSE broken

\* A registration raises; a sync counts it and goes on, a rescan gives up.
RegistrationFails(p) ==
    /\ Busy(p)
    /\ faults < MaxFaults
    /\ faults' = faults + 1
    /\ proc' = [proc EXCEPT ![p] =
            IF @.op = "rescan" THEN Idle
            ELSE [@ EXCEPT !.at = "next", !.error = TRUE, !.doc = NoDoc]]
    /\ broken' = Halfway(p)
    /\ UNCHANGED <<world, ledger, overlapped>>

(***************************************************************************)
(* The end of a sync.                                                      *)
(***************************************************************************)
EndScan(p) ==
    /\ proc[p].at = "next" /\ proc[p].todo = {}
    /\ IF proc[p].op = "rescan" THEN proc' = [proc EXCEPT ![p] = Idle]
                                ELSE Goto(p, "finish")
    /\ UNCHANGED <<world, ledger, faults, seen>>

\* Mutant: the checkpoint moves on whatever happened.
NewCheckpoint_Always(p) == clock
\* Mutant: the overlap is added where it should be subtracted.
NewCheckpoint_Ahead(p) ==
    IF proc[p].error THEN proc[p].prev ELSE clock + Overlap
NewCheckpoint(p) == IF proc[p].error THEN proc[p].prev ELSE clock

FinishSource(p) ==
    /\ proc[p].at = "finish"
    /\ checkpoint' = NewCheckpoint(p)
    /\ holder' = Release(p)
    /\ proc' = [proc EXCEPT ![p] = Idle]
    /\ UNCHANGED <<world, row, base, faults, seen>>

Sync(p) ==
    StartSync(p) \/ ReadSource(p) \/ Fetch(p) \/ FinishSource(p)

Register(p) ==
    \/ NextDocument(p) \/ Look(p) \/ Insert(p) \/ AddCandidate(p)
    \/ AddReview(p) \/ RegistrationFails(p) \/ EndScan(p)

(***************************************************************************)
(* The rescan of the folder, and what happens outside.                     *)
(***************************************************************************)
StartRescan(p) ==
    /\ proc[p] = Idle
    /\ proc' = [proc EXCEPT ![p] = [Idle EXCEPT !.at = "next", !.op = "rescan",
                                                !.todo = Files]]
    /\ UNCHANGED <<world, ledger, faults, seen>>

Arrive(m) ==
    /\ arrived[m] = Never
    /\ arrived' = [arrived EXCEPT ![m] = clock]
    /\ \E c \in Contents : bytes' = [bytes EXCEPT ![m] = c]
    /\ UNCHANGED <<clock, ledger, proc, faults, seen>>

Edit(f, c) ==
    /\ faults < MaxFaults
    /\ bytes[f] # c
    /\ bytes' = [bytes EXCEPT ![f] = c]
    /\ faults' = faults + 1
    /\ UNCHANGED <<clock, arrived, ledger, proc, seen>>

\* No sync takes longer than the overlap, a day by default.
InTime(p) == proc[p].listed = Never \/ clock - proc[p].listed < Overlap

Tick ==
    /\ clock < MaxTime
    /\ \A p \in Procs : InTime(p)
    /\ clock' = clock + 1
    /\ UNCHANGED <<arrived, bytes, ledger, proc, faults, seen>>

\* Nobody releases the lease of a dead process, and a sync may outlive its
\* own (fab_connector_intake_lease_seconds, by default six hours).
ExpireLease ==
    /\ holder # None
    /\ holder' = None
    /\ UNCHANGED <<world, row, base, checkpoint, proc, faults, seen>>

Crash(p) ==
    /\ faults < MaxFaults
    /\ proc[p] # Idle
    /\ faults' = faults + 1
    /\ broken' = Halfway(p)
    /\ proc' = [proc EXCEPT ![p] = Idle]
    /\ UNCHANGED <<world, ledger, overlapped>>

Next ==
    \/ \E p \in Procs : Sync(p) \/ Register(p) \/ StartRescan(p) \/ Crash(p)
    \/ \E m \in Mails : Arrive(m)
    \/ \E f \in Files, c \in Contents : Edit(f, c)
    \/ Tick
    \/ ExpireLease

Spec == Init /\ [][Next]_vars

(***************************************************************************)
(* Properties.                                                             *)
(***************************************************************************)

\* No message falls between two syncs: what arrived before the window of the
\* next sync has been registered, although the checkpoint is the time at which
\* the last sync ended, syncs overlap when they outlive their lease, and write
\* the metadata they once read.  Scans take no longer than the overlap.
MailCollected ==
    \A m \in Mails :
        /\ arrived[m] # Never
        /\ checkpoint # Never /\ arrived[m] < checkpoint - Overlap
        => base[m] # None

\* "Exact-content duplicates ... are held in the existing review workflow"
\* (scanner_mailbox_migration.md): of the rows with the same bytes one is taken
\* for the original and all the others are linked to it, wherever they came
\* from; as long as two intakes do not register at the same time.  A document
\* that is held has the review, and a duplicate the candidate that the review
\* decides on; nothing would ever add them later.  What goes on by itself is
\* the first version of a source document: one that was rewritten after its
\* registration is held.
OneOriginal ==
    /\ ~overlapped =>
        \A c \in Contents :
            LET rows == {d \in Sources : row[d][c].status # None} IN
            rows # {} => Cardinality({d \in rows : ~row[d][c].dup}) = 1
    /\ \A d \in Sources, c \in Contents :
        /\ /\ row[d][c].status = "needs_review"
           /\ <<d, c>> \notin broken
           /\ \A p \in Procs : proc[p].doc.id = d => proc[p].doc.content # c
           => row[d][c].review /\ (row[d][c].dup => row[d][c].candidate)
        /\ row[d][c].status = "imported" /\ ~overlapped => base[d] = c
=============================================================================
