----------------------------- MODULE MCDocuments ---------------------------
(***************************************************************************)
(* Small instances of the modules that follow a document and a bank        *)
(* transaction: ConnectorIntake, DocumentPipeline, LedgerRepairs,          *)
(* BankImport, Reconciliation, DraftRoutes and LegacyPosting.  A behaviour *)
(* is one of                                                               *)
(*   "mail"    two processes that sync an account;                         *)
(*   "intake"  two processes that sync an account and rescan a folder, for *)
(*             a shorter time;                                             *)
(*   "pair"    two processes and two documents that show one receipt;      *)
(*   "crowd"   two processes and three documents that show one receipt,    *)
(*             until two operations meet on the same document;             *)
(*   "triple"  one process and three documents that show one receipt;      *)
(*   "similar" one process and three documents that look alike, of which   *)
(*             the second shows another receipt;                           *)
(*   "faulty"  one process that fails and dies, and two documents;         *)
(*   "repairs" repairs of three documents that earlier versions left;      *)
(*   "bank"    two processes that import statements;                       *)
(*   "books"   one process that reconciles two documents with two          *)
(*             transactions;                                               *)
(*   "routes"  two processes that route a document or a transaction;       *)
(*   "drafts"  one process that does so for longer;                        *)
(*   "postings" two processes that post without a ledger.                  *)
(* The intake ends with a row, with which the pipeline begins, and so on;  *)
(* the modules say nothing of each other's rows.                           *)
(***************************************************************************)
EXTENDS Integers, TLC

CONSTANTS
    Procs,      \* the worker and the API threads
    Solo,       \* the process that works alone
    Mails, Files, Contents,
    NoRef       \* a line of a statement without a reference

VARIABLES
    focus,
    \* ConnectorIntake
    clock, arrived, bytes, row, base, checkpoint, holder, intakeProc,
    intakeFaults, overlapped, broken,
    \* DocumentPipeline
    doc, pair, routed, proc, faults, missed, torn, stale,
    \* LedgerRepairs
    old, open, alike, todo, repairOps, repairCrashes, confirmed, suspects,
    claims, reads, met,
    \* BankImport
    rows, imports, importProc, importCrashes,
    \* Reconciliation
    bank, receipt, matches, reviews, bankRec, docRec, matchProc, matchOps,
    matchCrashes, decided, overlap, reset,
    \* DraftRoutes
    kind, source, rec, attempts, routeProc, routeEdits, routeCalls,
    routeCrashes, crossed,
    \* LegacyPosting
    posting, retries, asked, posted, postProc, passes, acts, postCrashes,
    outside, failures, letters, refused, disputed, excused

AnyTwo(d, e) == TRUE
ButTheSecond(d, e) == (d = 2) = (e = 2)

Mail == INSTANCE ConnectorIntake WITH
    proc <- intakeProc, faults <- intakeFaults,
    Files <- {}, Overlap <- 1, MaxTime <- 3, MaxFaults <- 1

Intake == INSTANCE ConnectorIntake WITH
    proc <- intakeProc, faults <- intakeFaults,
    Overlap <- 1, MaxTime <- 1, MaxFaults <- 1

Two == INSTANCE DocumentPipeline WITH
    NDocs <- 2, Same <- AnyTwo, Alike <- AnyTwo, MaxFaults <- 0

\* Where two operations meet on the newer document, no property speaks of the
\* pair any more: behaviours end there.
NewerApart == 2 \notin torn

Faulty == INSTANCE DocumentPipeline WITH
    NDocs <- 2, Same <- AnyTwo, Alike <- AnyTwo, Procs <- {Solo},
    MaxFaults <- 2

Crowd == INSTANCE DocumentPipeline WITH
    NDocs <- 3, Same <- AnyTwo, Alike <- AnyTwo, MaxFaults <- 0

\* Bounds of the crowd: no reading finds another reason for review, and what
\* follows when two operations meet on one document is left to "pair".
CrowdApart ==
    /\ torn = {}
    /\ \A p \in Procs : proc[p].at = "update" => ~ proc[p].flag

Three == INSTANCE DocumentPipeline WITH
    NDocs <- 3, Same <- AnyTwo, Alike <- AnyTwo, Procs <- {Solo},
    MaxFaults <- 0

\* A bound: of three that show one receipt only the newest has another reason
\* for review; in "similar" each may have one.
NewestFlagged ==
    proc[Solo].at = "update" /\ proc[Solo].flag => proc[Solo].d = 3

Similar == INSTANCE DocumentPipeline WITH
    NDocs <- 3, Same <- ButTheSecond, Alike <- AnyTwo, Procs <- {Solo},
    MaxFaults <- 0

\* What earlier versions may have left of three documents: a cycle of two
\* next to a pair that waits, one of three, two copies of one original, rows
\* in both directions next to blank OCR, a row with a reason that the detector
\* no longer gives, and a claim of the same bytes.
\* One document has no type of the present classifier.
Past ==
    LET none == [d \in 1..3 |-> {}]
        past(link, rowsOpen, reviewed, d) ==
            [link |-> link, open |-> rowsOpen, reviews |-> reviewed,
             untyped |-> {d}]
        categoryOf(d) == [none EXCEPT ![d] = {"low_confidence_categorization"}]
    IN {past(<<2, 1, 0>>, {<<3, 1, "current">>}, none, 3),
        past(<<2, 1, 0>>, {<<3, 1, "former">>}, categoryOf(3), 3),
        past(<<2, 3, 1>>, {}, none, 1),
        past(<<0, 1, 1>>, {<<3, 1, "current">>}, categoryOf(1), 3),
        past(<<0, 0, 0>>, {<<1, 3, "current">>, <<3, 1, "current">>},
             [none EXCEPT ![2] = {"empty_ocr_text"}], 3),
        past(<<0, 0, 2>>, {<<2, 1, "former">>}, categoryOf(2), 2),
        past(<<0, 1, 0>>, {<<2, 1, "hash">>}, categoryOf(2), 1)}

Repairs == INSTANCE LedgerRepairs WITH
    doc <- old, ops <- repairOps, crashes <- repairCrashes,
    NDocs <- 3, MaxOps <- 4, MaxCrashes <- 1

\* A bound: a death is followed in histories of three handlers, one without a
\* death has four.
ShortWithDeath(ops, crashes) == crashes = 0 \/ ops <= 3

\* No document, for the other behaviours.
NoRepairs == INSTANCE LedgerRepairs WITH
    doc <- old, ops <- repairOps, crashes <- repairCrashes,
    NDocs <- 1, MaxOps <- 0, MaxCrashes <- 0,
    Past <- {[link |-> <<0>>, open |-> {}, reviews |-> <<{}>>,
              untyped |-> {}]}

\* Statements with two lines that are alike, that overlap, with a line that
\* cannot be read and with lines that the bank identifies.
Statements ==
    LET line(key, ref) == [key |-> key, ref |-> ref, readable |-> TRUE]
        damaged(key) == [key |-> key, ref |-> NoRef, readable |-> FALSE]
        statement(format, lines) == [format |-> format, lines |-> lines]
    IN {statement("csv", <<line("rent", NoRef), line("rent", NoRef),
                           line("fee", NoRef)>>),
        statement("csv", <<line("fee", NoRef), damaged("rent"),
                           line("rent", NoRef)>>),
        statement("camt", <<line("rent", "ref"), line("fee", NoRef)>>),
        statement("mt940", <<line("rent", NoRef)>>)}

Bank == INSTANCE BankImport WITH
    proc <- importProc, crashes <- importCrashes,
    MaxImports <- 3, MaxCrashes <- 1

\* The first transaction fits the first document best, the second one not
\* the second document.
Score == [c \in {"t1", "t2"} \X {"d1", "d2"} |->
            CASE c = <<"t1", "d1">> -> 2 [] c = <<"t2", "d2">> -> 0
              [] OTHER -> 1]

Books == INSTANCE Reconciliation WITH
    doc <- receipt, proc <- matchProc, ops <- matchOps,
    crashes <- matchCrashes, overlapped <- overlap,
    Procs <- {Solo}, Docs <- {"d1", "d2"}, Txs <- {"t1", "t2"},
    MaxMatches <- 4, MaxOps <- 4, MaxCrashes <- 1

Routes == INSTANCE DraftRoutes WITH
    proc <- routeProc, edits <- routeEdits, calls <- routeCalls,
    crashes <- routeCrashes, MaxEdits <- 1, MaxCalls <- 2, MaxCrashes <- 1

Drafts == INSTANCE DraftRoutes WITH
    proc <- routeProc, edits <- routeEdits, calls <- routeCalls,
    crashes <- routeCrashes, Procs <- {Solo},
    MaxEdits <- 1, MaxCalls <- 4, MaxCrashes <- 0

Postings == INSTANCE LegacyPosting WITH
    row <- posting, queue <- retries, review <- asked, doc <- posted,
    proc <- postProc, crashes <- postCrashes, crossed <- disputed,
    Attempts <- {"a"}, MaxAttempts <- 2, MaxPasses <- 3, MaxActs <- 3,
    MaxCrashes <- 1

intakeVars == <<clock, arrived, bytes, row, base, checkpoint, holder,
                intakeProc, intakeFaults, overlapped, broken>>
docVars == <<doc, pair, routed, proc, faults, missed, torn, stale>>
repairVars == <<old, open, alike, todo, repairOps, repairCrashes, confirmed,
                suspects, claims, reads, met>>
bankVars == <<rows, imports, importProc, importCrashes>>
bookVars == <<bank, receipt, matches, reviews, bankRec, docRec, matchProc,
              matchOps, matchCrashes, decided, overlap, reset>>
routeVars == <<kind, source, rec, attempts, routeProc, routeEdits,
               routeCalls, routeCrashes, crossed>>
postVars == <<posting, retries, asked, posted, postProc, passes, acts,
              postCrashes, outside, failures, letters, refused, disputed,
              excused>>
otherVars == <<repairVars, bankVars, bookVars, routeVars, postVars>>
vars == <<focus, intakeVars, docVars, otherVars>>

\* No source, for the other behaviours.
NoRoutes ==
    /\ kind = "bank" /\ source = <<>> /\ rec = <<>> /\ attempts = <<>>
    /\ routeProc = <<>> /\ routeEdits = 0 /\ routeCalls = 0
    /\ routeCrashes = 0 /\ crossed = FALSE

Init ==
    /\ \/ focus = "mail" /\ Mail!Init /\ Two!Init
       \/ focus \in {"intake", "pair", "repairs", "bank", "books",
                      "routes", "drafts", "postings"}
          /\ Intake!Init /\ Two!Init
       \/ focus = "faulty" /\ Intake!Init /\ Faulty!Init
       \/ focus \in {"triple", "similar"} /\ Intake!Init /\ Three!Init
       \/ focus = "crowd" /\ Intake!Init /\ Crowd!Init
    /\ IF focus = "repairs" THEN Repairs!Init ELSE NoRepairs!Init
    /\ Bank!Init /\ Books!Init /\ Postings!Init
    /\ CASE focus = "routes" -> Routes!Init
         [] focus = "drafts" -> Drafts!Init
         [] OTHER -> NoRoutes

\* What stays as it is comes first: TLC then looks at it once in each state.
Next ==
    \/ /\ focus = "mail" /\ UNCHANGED <<focus, docVars, otherVars>>
       /\ Mail!Next
    \/ /\ focus = "intake" /\ UNCHANGED <<focus, docVars, otherVars>>
       /\ Intake!Next
    \/ /\ focus = "pair" /\ UNCHANGED <<focus, intakeVars, otherVars>>
       /\ Two!Next /\ NewerApart'
    \/ /\ focus = "crowd" /\ UNCHANGED <<focus, intakeVars, otherVars>>
       /\ Crowd!Next /\ CrowdApart'
    \/ /\ focus = "triple" /\ UNCHANGED <<focus, intakeVars, otherVars>>
       /\ Three!Next /\ NewestFlagged'
    \/ /\ focus = "similar" /\ UNCHANGED <<focus, intakeVars, otherVars>>
       /\ Similar!Next
    \/ /\ focus = "faulty" /\ UNCHANGED <<focus, intakeVars, otherVars>>
       /\ Faulty!Next
    \/ /\ focus = "repairs"
       /\ UNCHANGED <<focus, intakeVars, docVars, bankVars, bookVars,
                      routeVars, postVars>>
       /\ Repairs!Next /\ ShortWithDeath(repairOps', repairCrashes')
    \/ /\ focus = "bank"
       /\ UNCHANGED <<focus, intakeVars, docVars, repairVars, bookVars,
                      routeVars, postVars>>
       /\ Bank!Next
    \/ /\ focus = "books"
       /\ UNCHANGED <<focus, intakeVars, docVars, repairVars, bankVars,
                      routeVars, postVars>>
       /\ Books!Next /\ ShortWithDeath(matchOps', matchCrashes')
    \/ /\ focus = "routes"
       /\ UNCHANGED <<focus, intakeVars, docVars, repairVars, bankVars,
                      bookVars, postVars>>
       /\ Routes!Next
    \/ /\ focus = "drafts"
       /\ UNCHANGED <<focus, intakeVars, docVars, repairVars, bankVars,
                      bookVars, postVars>>
       /\ Drafts!Next
    \/ /\ focus = "postings"
       /\ UNCHANGED <<focus, intakeVars, docVars, repairVars, bankVars,
                      bookVars, routeVars>>
       /\ Postings!Next

Spec == Init /\ [][Next]_vars

Symmetry == Permutations(Procs) \cup Permutations(Contents)

\* The types, in the instance that is at work.
TypeOK ==
    CASE focus = "mail" -> Mail!TypeOK
      [] focus = "intake" -> Intake!TypeOK
      [] focus = "pair" -> Two!TypeOK
      [] focus = "faulty" -> Faulty!TypeOK
      [] focus = "repairs" -> Repairs!TypeOK
      [] focus = "bank" -> Bank!TypeOK
      [] focus = "books" -> Books!TypeOK
      [] focus = "routes" -> Routes!TypeOK
      [] focus = "drafts" -> Drafts!TypeOK
      [] focus = "postings" -> Postings!TypeOK
      [] focus = "crowd" -> Crowd!TypeOK
      [] OTHER -> Three!TypeOK

\* ConnectorIntake: no message falls between two syncs; of the same bytes one
\* row is the original, and what is held or was rewritten has its review and
\* candidate.
Collected ==
    IF focus = "mail" THEN Mail!MailCollected /\ Mail!OneOriginal
    ELSE Intake!MailCollected /\ Intake!OneOriginal

\* DocumentPipeline: a recognised copy and its original never both get a
\* draft.
OneDraft ==
    CASE focus = "similar" -> Similar!OneDraft
      [] focus = "crowd" -> Crowd!OneDraft
      [] focus = "triple" -> Three!OneDraft
      [] focus = "faulty" -> Faulty!OneDraft
      [] OTHER -> Two!OneDraft

\* DocumentPipeline: an undecided candidate keeps its document in review,
\* candidates and links agree, and links form no cycle.
HeldUntilDecided ==
    CASE focus \in {"triple", "similar"} ->
             Three!HeldUntilDecided /\ Three!LinksEnd
      [] focus = "crowd" -> Crowd!HeldUntilDecided /\ Crowd!LinksEnd
      [] focus = "faulty" -> Faulty!HeldUntilDecided /\ Faulty!LinksEnd
      [] OTHER -> Two!HeldUntilDecided /\ Two!LinksEnd

\* LedgerRepairs: blank OCR is retried once, no repair closes a claim of the
\* same bytes, and repairs that ran to their end keep what operators decided
\* and what holds the copy of a pair that still looks like a duplicate.  What
\* they do not keep says SuspectsHeld.
RepairsKeepGates == focus = "repairs" => Repairs!RepairsKeepGates

\* BankImport: stored transactions are those of the statements.
StatementRows == focus = "bank" => Bank!StatementRows

\* Reconciliation: decisions of matches stand and the books agree with them.
DecisionsStand == focus = "books" => Books!DecisionsStand

\* DraftRoutes: facts are drafted once, a transaction once for Wave, and who
\* says that there is a draft has one.
\* LegacyPosting: an attempt reaches its target once, a rejected one does not,
\* and a failure is counted and followed up.
RoutedOnce ==
    /\ focus = "routes" => Routes!RoutedOnce /\ Routes!ClaimedDraftsExist
    /\ focus = "drafts" => Drafts!RoutedOnce /\ Drafts!ClaimedDraftsExist
    /\ focus = "postings" =>
        Postings!RejectionHolds /\ Postings!PostedOnce /\ Postings!FailuresCounted

\* The claim that the code does not keep, although no operations overlap.
OneDraftPerReceipt ==
    focus = "faulty" /\ torn = {} => Faulty!OneDraftPerReceipt

\* The claim of repair_duplicate_cycles that another repair of the same batch
\* undoes.
SuspectsHeld == focus = "repairs" => Repairs!SuspectsHeld
=============================================================================
