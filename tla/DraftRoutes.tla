----------------------------- MODULE DraftRoutes -----------------------------
(***************************************************************************)
(* How a reviewed document, or a bank transaction, becomes a draft for     *)
(* Wave or MijnGeldzaken: LocalRoutingService, and the normalised record   *)
(* that LocalBookkeepingRecordService keeps beside the evidence.           *)
(*                                                                         *)
(* One source is followed: a document with its record, or a transaction    *)
(* with its record.  A process is the worker or an API thread.  A call is  *)
(* a list of ledger transactions that are still to be done; what the call  *)
(* has read before goes into that list, so that it may be stale by then.   *)
(* What the pipeline, the reviewer and the reconciliation do to the source *)
(* is the environment's (see DocumentPipeline and Reconciliation).         *)
(***************************************************************************)
EXTENDS Integers, Sequences, SequencesExt

CONSTANTS
    Procs,
    MaxEdits,   \* bound: changes of the source, corrections included
    MaxCalls,   \* bound: calls that route, refresh or resolve
    MaxCrashes  \* bound: processes that die

VARIABLES
    kind,       \* what is routed: "document" or "bank"
    source,     \* bookkeeping_documents, or bank_transactions with the rule
                \* for its vendor: status, gates and facts
    rec,        \* bookkeeping_records
    attempts,   \* routing_attempts of the source, newest first
    proc,       \* what each process still has to do
    edits, calls, crashes,
    crossed     \* observation: two calls routed the source at once

vars == <<kind, source, rec, attempts, proc, edits, calls, crashes, crossed>>

Targets == {"wave", "mgz", "other"}
Types == {"posting", "support", "conflict"}
Recons == {"not_started", "missing_receipt", "candidate", "reconciled"}

\* One value for each of the sets ROUTABLE_DOCUMENT_STATUSES and
\* ROUTABLE_BOOKKEEPING_RECORD_STATUSES but for what the code sets itself.
RoutableDocument == {"processed"}
RoutableRecord == {"draft", "ready_to_route"}
RoutableExport == {"not_started", "ready"}

\* Facts: a revision, and how much an action plan finds in them: nothing
\* for a required field, all fields but not a complete plan, or enough.
Facts == [rev : 0..MaxEdits, quality : {"blank", "short", "full"}]
Unknown == [rev |-> 0, quality |-> "blank"]

NoRecord == [status |-> "none", export |-> "none", review |-> FALSE,
             facts |-> Unknown]
Idle == [routes |-> FALSE, held |-> NoRecord, todo |-> <<>>]

-----------------------------------------------------------------------------
\* Drafts

NoOperation == <<"none", Unknown>>
Operation(target, facts) == <<target, facts>>

\* Mutant: what was attempted last decides.
HasDraft_Newest(list, op) ==
    list # <<>> /\ list[1].status = "draft_prepared" /\ list[1].op = op

HasDraft(list, op) ==
    \E i \in 1..Len(list) :
        list[i].status = "draft_prepared" /\ list[i].op = op

HasAnyDraft(list) == \E i \in 1..Len(list) : list[i].status = "draft_prepared"

\* The status of the first check that holds.
FirstOf(checks) ==
    LET hit == SelectInSeq(checks, LAMBDA c : c[1])
    IN IF hit = 0 THEN "draft_prepared" ELSE checks[hit][2]

\* What a document must not be, and the status it is refused with.
Gates(s) ==
    << <<s.dup, "blocked_duplicate">>,
       <<s.status \notin RoutableDocument, "blocked_status">>,
       <<s.open, "blocked_review">> >>

RecordGates(r) ==
    << <<r.review, "blocked_review">>,
       <<r.status \notin RoutableRecord, "blocked_status">>,
       <<r.export \notin RoutableExport, "blocked_export_status">> >>

\* The operation is prepared from the facts, looked for among the attempts,
\* and only then is its plan looked at.
PlanChecks(facts, list, target) ==
    << <<facts.quality = "blank", "needs_review">>,
       <<HasDraft(list, Operation(target, facts)), "already_prepared">>,
       <<facts.quality = "short", "needs_review">> >>

TypeChecks(type, target) ==
    << <<target # "other" /\ type = "support",
         "blocked_non_posting_document_type">>,
       <<target # "other" /\ type = "conflict",
         "blocked_document_type_conflict">> >>

\* What becomes of a document that is routed to a target.
DocumentOutcome(s, list, target) ==
    FirstOf(TypeChecks(s.type, target)
            \o << <<target = "other", "unsupported_target">> >>
            \o Gates(s) \o PlanChecks(s.facts, list, target))

\* What becomes of a transaction's record: for Wave whatever was prepared
\* before counts, and counts first.
RecordOutcome(r, list, target) ==
    FirstOf(<< <<target = "other", "unsupported_target">>,
               <<target = "wave" /\ HasAnyDraft(list), "already_prepared">> >>
            \o RecordGates(r) \o PlanChecks(r.facts, list, target))

ExportOf(outcome) ==
    CASE outcome \in {"blocked_document_type_conflict",
                      "blocked_non_posting_document_type"} -> "not_applicable"
      [] outcome = "needs_review" -> "blocked_by_review"
      [] outcome \in {"blocked_duplicate", "blocked_status"} -> outcome
      [] outcome = "unsupported_target" -> "blocked_unsupported_target"
      [] outcome \in {"draft_prepared", "already_prepared"} ->
             "draft_prepared"
      [] OTHER -> "blocked"

-----------------------------------------------------------------------------
\* The record that follows from the source

Reviewed(s) ==
    \/ s.dup \/ s.open \/ s.status \in {"needs_review", "duplicate"}
    \/ s.type # "support" /\ s.facts.quality = "blank"

StatusOfDocument(s) ==
    CASE s.status \in {"export_draft_prepared", "duplicate"} -> s.status
      [] OTHER -> IF Reviewed(s) THEN "needs_review" ELSE "ready_to_route"

\* The newest attempt decides, then the document.
ExportOfDocument(s, list) ==
    LET latest == IF list = <<>> THEN "none" ELSE list[1].status
    IN CASE s.type = "support" -> "not_applicable"
         [] s.type # "support" /\ latest \notin {"none", "unsupported_target"} ->
                IF latest = "needs_review" THEN "blocked_by_review" ELSE latest
         [] OTHER ->
                CASE s.status = "export_draft_prepared" -> "draft_prepared"
                  [] s.status = "duplicate" -> "blocked_duplicate"
                  [] OTHER -> IF Reviewed(s) THEN "blocked_by_review"
                                             ELSE "ready"

\* A status that the caller gives replaces the one that follows.
DocumentRecord(status) ==
    [status |-> IF status = "none"
                THEN IF source.type = "support" /\ ~Reviewed(source)
                     THEN "supporting_evidence" ELSE StatusOfDocument(source)
                ELSE status,
     export |-> ExportOfDocument(source, attempts),
     review |-> Reviewed(source), facts |-> source.facts]

BankRecord ==
    LET status == CASE source.recon = "reconciled" -> "reconciled"
                    [] source.recon = "missing_receipt" -> "missing_receipt"
                    [] source.recon = "candidate" -> "needs_review"
                    [] OTHER -> "draft"
    IN [status |-> status,
        export |-> CASE source.recon = "reconciled" -> "not_applicable"
                     [] source.recon = "missing_receipt" ->
                            "blocked_missing_receipt"
                     [] source.recon = "candidate" -> "blocked_by_review"
                     [] OTHER -> "not_started",
        review |-> status \in {"needs_review", "missing_receipt"},
        facts |-> source.facts]

-----------------------------------------------------------------------------
\* Steps of a call

Insert(status, op) == [do |-> "attempt", status |-> status, op |-> op]
SetSource(status) == [do |-> "source", status |-> status]
Review == [do |-> "review"]
Derive(status) == [do |-> "derive", status |-> status]
Store == [do |-> "store"]
Export(export, status) ==
    [do |-> "export", export |-> export, status |-> status]
Look(copy, target) == [do |-> "look", copy |-> copy, target |-> target]

Upsert(status) == <<Derive(status), Store>>

\* The status that a routing gives the record: none to a blocked one.
StatusFor(outcome) ==
    CASE outcome \in {"draft_prepared", "already_prepared"} ->
             "export_draft_prepared"
      [] outcome = "needs_review" -> "needs_review"
      [] OTHER -> "none"

\* Mutant: the document is told before the attempt is kept.
DocumentSteps_ToldFirst(s, list, target) ==
    LET outcome == DocumentOutcome(s, list, target)
        status == StatusFor(outcome)
    IN <<SetSource(IF status = "none" THEN s.status ELSE status),
         Insert(outcome, Operation(target, s.facts)),
         Export(ExportOf(outcome), status)>>

\* _record_blocked_attempt and its counterpart for MijnGeldzaken.
Refused(outcome, status) ==
    <<Insert(outcome, NoOperation)>>
    \o (IF outcome = "needs_review" THEN <<SetSource(status)>> ELSE <<>>)

DocumentSteps(s, list, target) ==
    LET outcome == DocumentOutcome(s, list, target)
        status == StatusFor(outcome)
        asks == outcome = "needs_review"
                /\ (s.facts.quality = "blank" \/ target = "wave")
        attempted ==
            CASE outcome = "already_prepared" -> <<>>
              [] outcome = "draft_prepared" ->
                   <<Insert(outcome, Operation(target, s.facts)),
                     SetSource(status)>>
              [] OTHER -> Refused(outcome, status)
    IN (IF asks THEN <<Review>> ELSE <<>>) \o attempted
       \o Upsert(status) \o <<Export(ExportOf(outcome), status)>>

\* A record's route writes the record as it is, without deriving it.
RecordRefused(outcome) ==
    <<Insert(outcome, NoOperation),
      Export(ExportOf(outcome), StatusFor(outcome))>>

RecordSteps(r, list, target) ==
    LET outcome == RecordOutcome(r, list, target)
        told == <<Export("draft_prepared", "export_draft_prepared")>>
    IN CASE outcome = "already_prepared" -> told
         [] outcome = "draft_prepared" ->
              <<Insert(outcome, Operation(target, r.facts))>> \o told
         [] OTHER -> RecordRefused(outcome)

Starts(p, routes, todo) ==
    /\ proc[p] = Idle
    /\ calls < MaxCalls
    /\ calls' = calls + 1
    /\ proc' = [proc EXCEPT ![p] = [Idle EXCEPT !.routes = routes,
                                                !.todo = todo]]
    /\ UNCHANGED <<kind, source, rec, attempts, edits, crashes>>

\* prepare_document_route and prepare_bookkeeping_record_route read the
\* source; what was routed before a record's route reads of its own.
Route(p, target) ==
    /\ Starts(p, TRUE, IF kind = "document"
                       THEN DocumentSteps(source, attempts, target)
                       ELSE <<Look(rec, target)>>)
    /\ crossed' = (crossed \/ \E q \in Procs \ {p} : proc[q].routes)

\* refresh_documents, refresh_bank_transactions: every cycle of the worker,
\* and whoever asks for it.
Refresh(p) == Starts(p, FALSE, Upsert("none")) /\ UNCHANGED crossed

\* resolve_record: the operator decides on the record, perhaps with a
\* correction; the update is made from what was read.
Resolution(decision) ==
    [status |-> IF decision \in {"approved", "resolved"}
                THEN "ready_to_route" ELSE decision,
     export |-> CASE decision \in {"approved", "resolved"} ->
                         IF rec.export = "draft_prepared"
                         THEN rec.export ELSE "ready"
                  [] decision = "needs_review" -> "blocked_by_review"
                  [] OTHER -> "not_applicable",
     review |-> decision = "needs_review", facts |-> Unknown]

Resolve(p, decision, quality) ==
    LET update == Resolution(decision)
        correct == quality # "none"
    IN /\ rec # NoRecord /\ proc[p] = Idle /\ calls < MaxCalls
       /\ correct => edits < MaxEdits
       /\ calls' = calls + 1
       /\ edits' = IF correct THEN edits + 1 ELSE edits
       /\ proc' = [proc EXCEPT ![p] = [Idle EXCEPT
              !.todo = <<Store>>,
              !.held = [update EXCEPT !.facts =
                  IF correct THEN [rev |-> edits + 1, quality |-> quality]
                             ELSE Unknown]]]
       /\ UNCHANGED <<kind, source, rec, attempts, crashes, crossed>>

\* One ledger transaction of a call.
Done(p, held) ==
    LET rest == Tail(proc[p].todo)
    IN proc' = [proc EXCEPT ![p] =
           IF rest = <<>> THEN Idle
           ELSE [proc[p] EXCEPT !.todo = rest, !.held = held]]

Facing(p, do) == proc[p].todo # <<>> /\ Head(proc[p].todo).do = do
Counted == UNCHANGED <<kind, edits, calls, crashes, crossed>>

\* _find_existing_record_attempt: the attempts as they are by now.
LookUp(p) ==
    /\ Facing(p, "look")
    /\ LET step == Head(proc[p].todo)
       IN proc' = [proc EXCEPT ![p].todo =
              RecordSteps(step.copy, attempts, step.target)]
    /\ UNCHANGED <<source, rec, attempts>> /\ Counted

InsertAttempt(p) ==
    /\ Facing(p, "attempt")
    /\ LET step == Head(proc[p].todo)
       IN attempts' = <<[status |-> step.status, op |-> step.op]>> \o attempts
    /\ Done(p, proc[p].held)
    /\ UNCHANGED <<source, rec>> /\ Counted

\* The document becomes what the route says, whatever it has become.
UpdateSource(p) ==
    /\ \/ Facing(p, "source")
          /\ source' = [source EXCEPT !.status = Head(proc[p].todo).status]
       \/ Facing(p, "review") /\ source' = [source EXCEPT !.open = TRUE]
    /\ Done(p, proc[p].held)
    /\ UNCHANGED <<rec, attempts>> /\ Counted

DeriveRecord(p) ==
    /\ Facing(p, "derive")
    /\ Done(p, IF kind = "bank" THEN BankRecord
               ELSE DocumentRecord(Head(proc[p].todo).status))
    /\ UNCHANGED <<source, rec, attempts>> /\ Counted

\* What is not known is not written: a transaction without a rule leaves the
\* record its category, a decision without a correction all its facts.
StoreRecord(p) ==
    LET new == proc[p].held
    IN /\ Facing(p, "store")
       /\ rec' = IF new.facts = Unknown THEN [new EXCEPT !.facts = rec.facts]
                                        ELSE new
       /\ Done(p, new)
       /\ UNCHANGED <<source, attempts>> /\ Counted

\* A blocked source keeps the status of its record.
StoreExport(p) ==
    /\ Facing(p, "export")
    /\ LET step == Head(proc[p].todo)
       IN rec' = [rec EXCEPT !.export = step.export,
                             !.status = IF step.status = "none" THEN @
                                        ELSE step.status]
    /\ Done(p, proc[p].held)
    /\ UNCHANGED <<source, attempts>> /\ Counted

-----------------------------------------------------------------------------
\* The environment

Edited == edits < MaxEdits /\ edits' = edits + 1

\* The reviewer corrects a document, or accepts it as it is.
Correct(facts) ==
    /\ kind = "document" /\ Edited
    /\ source' = [source EXCEPT !.status = "processed", !.open = FALSE,
                                !.dup = FALSE, !.facts = facts]
    /\ UNCHANGED <<kind, rec, attempts, proc, calls, crashes, crossed>>

\* A gate: a review is opened, or the document turns out to be a duplicate.
Gate(dup) ==
    /\ kind = "document" /\ Edited
    /\ source' = [source EXCEPT !.open = TRUE, !.dup = dup,
                     !.status = IF dup THEN "duplicate" ELSE "needs_review"]
    /\ UNCHANGED <<kind, rec, attempts, proc, calls, crashes, crossed>>

\* The reconciliation moves on, or a rule for the vendor is approved.
Reconcile(recon, facts) ==
    /\ kind = "bank" /\ Edited
    /\ source' = [source EXCEPT !.recon = recon, !.facts = facts]
    /\ UNCHANGED <<kind, rec, attempts, proc, calls, crashes, crossed>>

Crash(p) ==
    /\ proc[p] # Idle
    /\ crashes < MaxCrashes
    /\ crashes' = crashes + 1
    /\ proc' = [proc EXCEPT ![p] = Idle]
    /\ UNCHANGED <<kind, source, rec, attempts, edits, calls, crossed>>

\* Facts that an edit leaves: those there were, or new ones.
FactsAfter(facts) ==
    {facts} \cup [rev : {edits + 1}, quality : {"blank", "short", "full"}]

Init ==
    /\ kind \in {"document", "bank"}
    /\ source \in [status : {"processed"}, open : {FALSE}, dup : {FALSE},
                   type : IF kind = "document" THEN Types ELSE {"posting"},
                   recon : {"not_started"},
                   facts : IF kind = "document"
                           THEN [rev : {0}, quality : {"blank", "full"}]
                           ELSE {Unknown}]
    /\ rec = IF kind = "document" THEN NoRecord
             ELSE [status |-> "draft", export |-> "not_started",
                   review |-> FALSE, facts |-> Unknown]
    /\ attempts = <<>>
    /\ proc = [p \in Procs |-> Idle]
    /\ edits = 0 /\ calls = 0 /\ crashes = 0
    /\ crossed = FALSE

Next ==
    \/ \E p \in Procs :
        \/ \E target \in Targets : Route(p, target)
        \/ Refresh(p)
        \/ \E decision \in {"approved", "needs_review", "rejected"},
              quality \in {"none", "full"} : Resolve(p, decision, quality)
        \/ LookUp(p) \/ InsertAttempt(p) \/ UpdateSource(p)
        \/ DeriveRecord(p) \/ StoreRecord(p) \/ StoreExport(p) \/ Crash(p)
    \/ \E facts \in FactsAfter(source.facts) : Correct(facts)
    \/ \E dup \in BOOLEAN : Gate(dup)
    \/ \E recon \in Recons, facts \in FactsAfter(source.facts) :
           Reconcile(recon, facts)

-----------------------------------------------------------------------------
\* Properties

Outcomes ==
    {"draft_prepared", "already_prepared", "needs_review", "unsupported_target",
     "blocked_non_posting_document_type", "blocked_document_type_conflict",
     "blocked_duplicate", "blocked_status", "blocked_review",
     "blocked_export_status"}

\* What the variables are.
TypeOK ==
    /\ kind \in {"document", "bank"}
    /\ source \in
        [status : {"processed", "needs_review", "duplicate",
                   "export_draft_prepared"},
         open : BOOLEAN, dup : BOOLEAN, type : Types, recon : Recons,
         facts : Facts]
    /\ rec.review \in BOOLEAN /\ rec.facts \in Facts
    /\ \A i \in 1..Len(attempts) :
           /\ attempts[i].status \in Outcomes \ {"already_prepared"}
           /\ attempts[i].op \in {NoOperation} \cup (Targets \X Facts)
    /\ \A p \in Procs : proc[p].routes => proc[p].todo # <<>>
    /\ edits \in 0..MaxEdits /\ calls \in 0..MaxCalls
    /\ crashes \in 0..MaxCrashes /\ crossed \in BOOLEAN

\* One set of facts is drafted once for a target, and a bank transaction once
\* for Wave however its facts change: over refreshes that give the record its
\* first state again, refusals in between, corrections, resolutions and
\* crashes between the attempt and the states that tell of it.  Two calls that
\* route the same source at the same time are excluded: neither sees the
\* other's attempt.
RoutedOnce ==
    ~crossed =>
        \A i, j \in 1..Len(attempts) :
            /\ i # j
            /\ attempts[i].status = "draft_prepared"
            /\ attempts[j].status = "draft_prepared"
            => /\ attempts[i].op # attempts[j].op
               /\ ~(kind = "bank" /\ attempts[i].op[1] = "wave"
                                  /\ attempts[j].op[1] = "wave")

\* A document or a record that says a draft was prepared has a draft: the
\* attempt is written first, and a call that dies leaves no claim behind.
ClaimedDraftsExist ==
    source.status = "export_draft_prepared" \/ rec.export = "draft_prepared"
        => HasAnyDraft(attempts)

=============================================================================
