--------------------------- MODULE ExportAttempts ---------------------------
(***************************************************************************)
(* The approval-gated export life cycle: LocalExportAttemptService         *)
(* (src/operations/local_exports.py) over the export_attempts, review and  *)
(* bookkeeping_records tables of the operations ledger.                    *)
(*                                                                         *)
(* A process is a thread of the local API server, the background worker or *)
(* the manual runner.  Every ledger call is a transaction of its own, so a *)
(* handler is one step that reads the row and decides, followed by the     *)
(* list of writes it decided on, committed one transaction at a time       *)
(* (todo).  Other processes run between any two of them, and a process may *)
(* die between any two of them.                                            *)
(*                                                                         *)
(* Data is reduced to what the code tells apart: the facts behind a draft  *)
(* are a revision number, its checksum is that number, a payload is the    *)
(* attempt itself (the operation id is the idempotency key).               *)
(***************************************************************************)
EXTENDS Integers, Sequences, FiniteSets

CONSTANTS
    Attempts,       \* export attempts, one per prepared routing attempt
    Procs,          \* API threads, the worker, the manual runner
    MaxEdits,       \* bound: corrections of an attempt's source facts
    MaxApprovals,   \* bound: approvals requested per attempt
    MaxClaims,      \* bound: executions requested per attempt
    MaxCrashes      \* bound: processes that die in mid-handler

ASSUME AttemptsAssumption == Attempts # {}
ASSUME ProcsAssumption == IsFiniteSet(Procs)
ASSUME BoundsAssumption ==
    /\ MaxEdits \in Nat
    /\ MaxApprovals \in Nat
    /\ MaxClaims \in Nat
    /\ MaxCrashes \in Nat

VARIABLES
    row,        \* the export_attempts table
    source,     \* the current revision of the facts a draft is built from
    route,      \* where the attempt goes, whether its plan names an action,
                \* whether open review or a missing source blocks it
    record,     \* bookkeeping_records.export_status of the attempt's record
    reviews,    \* kinds of open review items that belong to the attempt
    proc,       \* what each process is doing
    crashes,
    \* Observations, never read by the code's own guards:
    approvals,  \* approvals committed
    claims,     \* execution claims won
    requeues,   \* claims put back: released, or deferred by the quota guard
    handed,     \* payloads that left FAB: Wave accepted it, or a file written
    artifact,   \* revision in the last supervised file; NoRevision before
    approvedRevs, \* revisions whose draft an approval has covered
    attested    \* an operator recorded a successful external result

vars == <<row, source, route, record, reviews, proc, crashes, approvals,
          claims, requeues, handed, artifact, approvedRevs, attested>>

observations == <<approvals, claims, requeues, handed, artifact,
                  approvedRevs, attested>>

(***************************************************************************)
(* The statuses of local_exports.py and what each handler accepts.         *)
(* The status "prepared", which the code's sets also name, is left out:    *)
(* nothing writes it into this table.                                      *)
(***************************************************************************)
\* Mutant: a failed attempt can be approved again.
ApprovableStatuses_Failed ==
    {"approval_required", "attention_required", "failed"}
ApprovableStatuses == {"approval_required", "attention_required"}

RejectableStatuses ==
    {"approval_required", "approved", "attention_required", "deferred",
     "supervision_required"}

\* Mutant: a claim does not exclude a second one.
ClaimableStatuses_Running == {"approved", "deferred", "execution_in_progress"}
ClaimableStatuses == {"approved", "deferred"}

SubmittedStatuses == {"executed", "submitted", "queued"}

ResultStatuses == SubmittedStatuses \cup {"failed"}

\* A new route, or one that was blocked when it was last prepared: every
\* other status is preserved or is an unchanged draft.
PreparableStatuses == {"absent", "blocked"}

Statuses ==
    PreparableStatuses \cup ApprovableStatuses \cup RejectableStatuses
        \cup ResultStatuses \cup {"execution_in_progress", "rejected"}

SubmissionStates ==
    {"not_executed", "approved_not_executed", "rejected_not_executed",
     "executed", "queued", "failed"}

SubmittedStates == {"queued", "submitted", "executed"}

RecordStates ==
    {"none", "blocked", "awaiting_approval", "approved_not_submitted",
     "rejected_not_executed", "supervision_required", "attention_required",
     "executed", "queued", "failed"}

Revisions == 0..MaxEdits

NoRevision == -1

ReviewKinds == {"wave", "supervision"}

\* The routing attempt an export attempt is prepared from.
Routes == [target : {"wave", "mijngeldzaken"}, planned : BOOLEAN,
           blocked : BOOLEAN]

WaveAttempts == {a \in Attempts : route[a].target = "wave"}

\* The stored plan names no executable action.
Unplanned == {a \in Attempts : ~ route[a].planned}

Rows == [status : Statuses, submission : SubmissionStates, draft : Revisions]

(***************************************************************************)
(* The writes a handler commits.  A row write always sets the status and   *)
(* the submission state and, when meta holds, replaces the whole metadata  *)
(* by the copy the handler read earlier, the draft in it included.         *)
(***************************************************************************)
Handlers == {"prepare", "approve", "reject", "result", "regenerate",
             "execute", "release"}

RowWrites == [to : {"row"}, by : Handlers, status : Statuses,
              submission : SubmissionStates, meta : BOOLEAN, draft : Revisions]
RecordWrites == [to : {"record"}, value : RecordStates]
ReviewWrites == [to : {"review"}, open : BOOLEAN, kind : ReviewKinds]
Writes == RowWrites \cup RecordWrites \cup ReviewWrites

RowWrite(by, status, submission, draft) ==
    [to |-> "row", by |-> by, status |-> status, submission |-> submission,
     meta |-> TRUE, draft |-> draft]

StatusWrite(by, status, submission) ==
    [to |-> "row", by |-> by, status |-> status, submission |-> submission,
     meta |-> FALSE, draft |-> 0]

RecordWrite(value) == [to |-> "record", value |-> value]

OpenReview(kind) == [to |-> "review", open |-> TRUE, kind |-> kind]
ResolveReview(kind) == [to |-> "review", open |-> FALSE, kind |-> kind]

(***************************************************************************)
(* Processes.  pc says which ledger call comes next: "claim" (about to     *)
(* claim), "check" (claimed, freshness not yet checked), "dispatch" (about *)
(* to call Wave), "artifact" (about to build the supervised file) and      *)
(* "commit" (writes pending).  draft is the draft in the metadata read.    *)
(***************************************************************************)
PCs == {"idle", "claim", "check", "dispatch", "artifact", "commit"}

ProcStates == [pc : PCs, on : Attempts, draft : Revisions,
               todo : Seq(Writes), batch : SUBSET Attempts]

\* A process between two handlers, with the rest of its batch.
Parked(batch) ==
    [pc |-> "idle", on |-> CHOOSE a \in Attempts : TRUE, draft |-> 0,
     todo |-> <<>>, batch |-> batch]

Idle(p) == proc[p].pc = "idle"

\* A process that is not in the middle of a worker batch.
Free(p) == Idle(p) /\ proc[p].batch = {}

\* The handler has decided: what is left are these writes, in this order.
Begin(p, a, writes) ==
    proc' = [proc EXCEPT ![p] =
                [pc |-> "commit", on |-> a, draft |-> proc[p].draft,
                 todo |-> writes, batch |-> proc[p].batch]]

\* The handler returns.
Return(p) == proc' = [proc EXCEPT ![p] = Parked(proc[p].batch)]

\* _master_ledger_freshness: only MijnGeldzaken drafts carry a checksum.
Fresh(a, draft) == a \in WaveAttempts \/ draft = source[a]

-----------------------------------------------------------------------------
Init ==
    /\ row = [a \in Attempts |->
                [status |-> "absent", submission |-> "not_executed",
                 draft |-> 0]]
    /\ source = [a \in Attempts |-> 0]
    /\ route \in [Attempts -> Routes]
    /\ record = [a \in Attempts |-> "none"]
    /\ reviews = [a \in Attempts |-> {}]
    /\ proc = [p \in Procs |-> Parked({})]
    /\ crashes = 0
    /\ approvals = [a \in Attempts |-> 0]
    /\ claims = [a \in Attempts |-> 0]
    /\ requeues = [a \in Attempts |-> 0]
    /\ handed = [a \in Attempts |-> 0]
    /\ artifact = [a \in Attempts |-> NoRevision]
    /\ approvedRevs = [a \in Attempts |-> {}]
    /\ attested = [a \in Attempts |-> FALSE]

(***************************************************************************)
(* The operator's handlers.  Each reads the row once; every condition it   *)
(* tests is a condition on that copy.                                      *)
(***************************************************************************)
\* prepare_from_routing_attempt: the draft comes from the routed operation,
\* planned from revision 0.  The upsert does not look at the status again.
Prepare(p, a) ==
    /\ Free(p)
    /\ row[a].status \in PreparableStatuses
    /\ Begin(p, a,
             IF route[a].blocked
             THEN <<RowWrite("prepare", "blocked", "not_executed", 0),
                    RecordWrite("blocked")>>
             ELSE <<RowWrite("prepare", "approval_required", "not_executed", 0),
                    RecordWrite("awaiting_approval")>>)
    /\ UNCHANGED <<row, source, route, record, reviews, crashes, observations>>

\* approve_attempt: Wave reviews of an attempt that needed attention are
\* resolved before the row is written.
Approve(p, a) ==
    /\ Free(p)
    /\ approvals[a] < MaxApprovals
    /\ row[a].status \in ApprovableStatuses
    /\ Fresh(a, row[a].draft)
    /\ Begin(p, a,
             (IF row[a].status = "attention_required"
              THEN <<ResolveReview("wave")>> ELSE <<>>)
             \o <<RowWrite("approve", "approved", "approved_not_executed",
                           row[a].draft),
                  RecordWrite("approved_not_submitted")>>)
    /\ UNCHANGED <<row, source, route, record, reviews, crashes, observations>>

\* reject_attempt.
Reject(p, a) ==
    /\ Free(p)
    /\ row[a].status \in RejectableStatuses
    /\ row[a].submission \notin SubmittedStates
    /\ Begin(p, a,
             <<RowWrite("reject", "rejected", "rejected_not_executed",
                        row[a].draft)>>
             \o (CASE row[a].status = "supervision_required" ->
                        <<ResolveReview("supervision")>>
                   [] row[a].status = "attention_required" ->
                        <<ResolveReview("wave")>>
                   [] OTHER -> <<>>)
             \o <<RecordWrite("rejected_not_executed")>>)
    /\ UNCHANGED <<row, source, route, record, reviews, crashes, observations>>

\* Mutant: the reported status is stored as it was given.
SubmissionForResult_Raw(s) == s
SubmissionForResult(s) == IF s = "submitted" THEN "executed" ELSE s

\* record_result: the operator reports what happened outside FAB.  A failure
\* is accepted from any status, a success only from two.
RecordResult(p, a, s) ==
    /\ Free(p)
    /\ row[a].status # "absent"
    /\ ~ (row[a].status = "supervision_required" /\ s = "queued")
    /\ s \in SubmittedStatuses =>
          /\ row[a].status \in {"approved", "supervision_required"}
          /\ Fresh(a, row[a].draft)
    /\ Begin(p, a,
             <<RowWrite("result", s, SubmissionForResult(s), row[a].draft)>>
             \o (IF /\ row[a].status = "supervision_required"
                    /\ s \in {"executed", "submitted"}
                 THEN <<ResolveReview("supervision")>> ELSE <<>>)
             \o <<RecordWrite(SubmissionForResult(s))>>)
    /\ UNCHANGED <<row, source, route, record, reviews, crashes, observations>>

\* Mutant: an approval survives the regeneration of its draft.
RegeneratedRow_KeepsApproval(draft) ==
    RowWrite("regenerate", "approved", "approved_not_executed", draft)
RegeneratedRow(draft) ==
    RowWrite("regenerate", "approval_required", "not_executed", draft)

\* regenerate_attempt: a MijnGeldzaken draft is rebuilt from the current
\* source facts and needs approval again.
Regenerate(p, a) ==
    /\ Free(p)
    /\ a \notin WaveAttempts
    /\ row[a].status \notin {"absent", "supervision_required"}
    /\ row[a].submission \notin SubmittedStates
    /\ Begin(p, a,
             <<RegeneratedRow(source[a]), RecordWrite("awaiting_approval")>>)
    /\ UNCHANGED <<row, source, route, record, reviews, crashes, observations>>

(***************************************************************************)
(* Execution: execute_attempt, alone or from the worker's batch.           *)
(***************************************************************************)
\* process_approved_attempts, when it is enabled and its backup succeeded:
\* the worker lists what is claimable now and executes that list.
StartBatch(p) ==
    /\ Free(p)
    /\ LET due == {a \in Attempts : /\ row[a].status \in ClaimableStatuses
                                    /\ claims[a] < MaxClaims}
       IN  /\ due # {}
           /\ proc' = [proc EXCEPT ![p].batch = due]
    /\ UNCHANGED <<row, source, route, record, reviews, crashes, observations>>

\* execute_attempt reads the row; anything but a claimable status returns at
\* once.  When a deferred attempt is due is the clock's choice.
Execute(p, a) ==
    /\ Idle(p)
    /\ proc[p].batch # {} => a \in proc[p].batch
    /\ proc[p].batch # {} \/ claims[a] < MaxClaims
    /\ \/ /\ row[a].status \in ClaimableStatuses
          /\ proc' = [proc EXCEPT ![p] =
                        [pc |-> "claim", on |-> a, draft |-> 0,
                         todo |-> <<>>, batch |-> proc[p].batch \ {a}]]
       \/ /\ a \in proc[p].batch
          /\ row[a].status \notin ClaimableStatuses
          /\ proc' = [proc EXCEPT ![p].batch = @ \ {a}]
    /\ UNCHANGED <<row, source, route, record, reviews, crashes, observations>>

\* claim_export_attempt: compare and set in one transaction.  The metadata of
\* the claimed row is what the rest of the execution works with.
Claim(p) ==
    LET a == proc[p].on IN
    /\ proc[p].pc = "claim"
    /\ IF row[a].status \in ClaimableStatuses
       THEN /\ row' = [row EXCEPT ![a].status = "execution_in_progress"]
            /\ proc' = [proc EXCEPT ![p] =
                          [pc |-> "check", on |-> a, draft |-> row[a].draft,
                           todo |-> <<>>, batch |-> proc[p].batch]]
            /\ claims' = [claims EXCEPT ![a] = @ + 1]
       ELSE /\ Return(p)
            /\ UNCHANGED <<row, claims>>
    /\ UNCHANGED <<source, route, record, reviews, crashes, approvals,
                   requeues, handed, artifact, approvedRevs, attested>>

\* Mutant: a stale draft ends the execution and the claim stays.
Check_KeepsClaim(p) ==
    LET a == proc[p].on IN
    /\ proc[p].pc = "check"
    /\ IF Fresh(a, proc[p].draft) /\ a \notin Unplanned
       THEN proc' = [proc EXCEPT ![p].pc =
                       IF a \in WaveAttempts THEN "dispatch" ELSE "artifact"]
       ELSE Return(p)
    /\ UNCHANGED <<row, source, route, record, reviews, crashes, observations>>

\* The draft must still match the source facts and the plan must name an
\* action; otherwise the claim is released.
Check(p) ==
    LET a == proc[p].on IN
    /\ proc[p].pc = "check"
    /\ IF Fresh(a, proc[p].draft) /\ a \notin Unplanned
       THEN proc' = [proc EXCEPT ![p].pc =
                       IF a \in WaveAttempts THEN "dispatch" ELSE "artifact"]
       ELSE Begin(p, a, <<StatusWrite("release", "approved",
                                      "approved_not_executed")>>)
    /\ UNCHANGED <<row, source, route, record, reviews, crashes, observations>>

(***************************************************************************)
(* What a Wave call can come to: a success; a failure before Wave accepted *)
(* the request; a failure although Wave accepted it (a timeout, a lost     *)
(* answer); no free quota slot, so no request; a policy gate, missing      *)
(* credentials or an unsupported action, so no request.                    *)
(***************************************************************************)
WaveOutcomes == {"success", "failure", "answer_lost", "throttled", "attention"}

\* Mutant: the quota slot is reserved after the request has left.
AcceptedByWave_Throttled(o) == o \in {"success", "answer_lost", "throttled"}
AcceptedByWave(o) == o \in {"success", "answer_lost"}

\* Mutant: whatever Wave answers is reported as queued there.
ExecutionWrites_Queued(o, draft) ==
    <<RowWrite("execute", "queued", "queued", draft), RecordWrite("queued")>>

\* _map_execution_status and the writes that follow it.
ExecutionWrites(o, draft) ==
    CASE o = "success" ->
            <<RowWrite("execute", "executed", "executed", draft),
              RecordWrite("executed")>>
      [] o = "throttled" ->
            <<RowWrite("execute", "deferred", "not_executed", draft)>>
      [] o = "attention" ->
            <<RowWrite("execute", "attention_required", "not_executed", draft),
              OpenReview("wave"), RecordWrite("attention_required")>>
      [] o \in {"failure", "answer_lost"} ->
            <<RowWrite("execute", "failed", "failed", draft),
              OpenReview("wave"), RecordWrite("failed")>>

\* The provider call itself.  Nothing looks at the row between the claim and
\* the write of the result.
Dispatch(p, o) ==
    LET a == proc[p].on IN
    /\ proc[p].pc = "dispatch"
    /\ Begin(p, a, ExecutionWrites(o, proc[p].draft))
    /\ handed' = IF AcceptedByWave(o) THEN [handed EXCEPT ![a] = @ + 1]
                                      ELSE handed
    /\ UNCHANGED <<row, source, route, record, reviews, crashes, approvals,
                   claims, requeues, artifact, approvedRevs, attested>>

\* _prepare_mijngeldzaken_supervision: artifact_for_attempt reads the row
\* again, so the file holds the draft of that moment; the metadata written
\* back is the copy taken at the claim.
SuperviseArtifact(p) ==
    LET a == proc[p].on IN
    /\ proc[p].pc = "artifact"
    /\ \/ /\ Begin(p, a,
                   <<RowWrite("execute", "supervision_required",
                              "not_executed", proc[p].draft),
                     RecordWrite("supervision_required"),
                     OpenReview("supervision")>>)
          /\ handed' = [handed EXCEPT ![a] = @ + 1]
          /\ artifact' = [artifact EXCEPT ![a] = row[a].draft]
       \/ /\ Begin(p, a, <<StatusWrite("execute", "failed", "not_executed")>>)
          /\ UNCHANGED <<handed, artifact>>
    /\ UNCHANGED <<row, source, route, record, reviews, crashes, approvals,
                   claims, requeues, approvedRevs, attested>>

\* The early return of _prepare_mijngeldzaken_supervision: a draft that was
\* regenerated since the claim may be of a kind of which there is no CSV file.
\* Nothing is written; the row already says what regenerate_attempt wrote.
LoseArtifact(p) ==
    /\ proc[p].pc = "artifact"
    /\ row[proc[p].on].draft # proc[p].draft
    /\ Return(p)
    /\ UNCHANGED <<row, source, route, record, reviews, crashes, observations>>

(***************************************************************************)
(* One pending write is committed: update_export_attempt and               *)
(* upsert_export_attempt take no expected status, so the write lands on    *)
(* whatever the row has become since it was read.                          *)
(***************************************************************************)
Requeues(w) == w.to = "row" /\ (w.by = "release" \/ w.status = "deferred")

Written(r, w) ==
    [status |-> w.status, submission |-> w.submission,
     draft |-> IF w.meta THEN w.draft ELSE r.draft]

CommitRow(a, w) ==
    /\ row' = [row EXCEPT ![a] = Written(@, w)]
    /\ approvals' = [approvals EXCEPT
                       ![a] = IF w.by = "approve" THEN @ + 1 ELSE @]
    /\ approvedRevs' = [approvedRevs EXCEPT
                          ![a] = IF w.by = "approve" THEN @ \cup {w.draft}
                                                     ELSE @]
    /\ requeues' = [requeues EXCEPT ![a] = IF Requeues(w) THEN @ + 1 ELSE @]
    /\ attested' = [attested EXCEPT
                      ![a] = @ \/ (w.by = "result"
                                   /\ w.status \in SubmittedStatuses)]
    /\ UNCHANGED <<record, reviews>>

CommitRecord(a, w) ==
    /\ record' = [record EXCEPT ![a] = w.value]
    /\ UNCHANGED <<row, reviews, approvals, approvedRevs, requeues, attested>>

\* create_review_item keeps one open item per document and reason.
CommitReview(a, w) ==
    /\ reviews' = [reviews EXCEPT
                     ![a] = IF w.open THEN @ \cup {w.kind} ELSE @ \ {w.kind}]
    /\ UNCHANGED <<row, record, approvals, approvedRevs, requeues, attested>>

Commit(p) ==
    LET a == proc[p].on
        w == Head(proc[p].todo)
    IN  /\ proc[p].pc = "commit"
        /\ CASE w.to = "row" -> CommitRow(a, w)
             [] w.to = "record" -> CommitRecord(a, w)
             [] w.to = "review" -> CommitReview(a, w)
        /\ IF Len(proc[p].todo) = 1
           THEN Return(p)
           ELSE proc' = [proc EXCEPT ![p].todo = Tail(@)]
        /\ UNCHANGED <<source, route, crashes, claims, handed, artifact>>

\* The process dies: what it had not committed is never written.
Crash(p) ==
    /\ ~ Free(p)
    /\ crashes < MaxCrashes
    /\ crashes' = crashes + 1
    /\ proc' = [proc EXCEPT ![p] = Parked({})]
    /\ UNCHANGED <<row, source, route, record, reviews, observations>>

(***************************************************************************)
(* The rest of FAB: a correction changes the facts a draft was built from, *)
(* and review work opens or closes the route.  Nothing compares a Wave     *)
(* draft with its facts, so their corrections are left out.                *)
(***************************************************************************)
EditSource(a) ==
    /\ a \notin WaveAttempts
    /\ source[a] < MaxEdits
    /\ source' = [source EXCEPT ![a] = @ + 1]
    /\ UNCHANGED <<row, route, record, reviews, proc, crashes, observations>>

ChangeGate(a) ==
    /\ route' = [route EXCEPT ![a].blocked = ~ @]
    /\ UNCHANGED <<row, source, record, reviews, proc, crashes, observations>>

Operate(p, a) ==
    \/ Prepare(p, a)
    \/ Approve(p, a)
    \/ Reject(p, a)
    \/ \E s \in ResultStatuses : RecordResult(p, a, s)
    \/ Regenerate(p, a)
    \/ Execute(p, a)

\* The steps of a handler that has begun: a running thread takes them.
Proceed(p) ==
    \/ Claim(p)
    \/ Check(p)
    \/ \E o \in WaveOutcomes : Dispatch(p, o)
    \/ SuperviseArtifact(p)
    \/ LoseArtifact(p)
    \/ Commit(p)

Next ==
    \/ \E p \in Procs, a \in Attempts : Operate(p, a)
    \/ \E p \in Procs : StartBatch(p) \/ Proceed(p) \/ Crash(p)
    \/ \E a \in Attempts : EditSource(a) \/ ChangeGate(a)

Spec == Init /\ [][Next]_vars

\* A thread that is inside a handler keeps running unless it dies.
FairSpec == Spec /\ \A p \in Procs : WF_vars(Proceed(p))

-----------------------------------------------------------------------------
\* The processes between claiming an attempt and giving the claim up, by
\* handing it out or by writing a status.
Executing(p, a) ==
    /\ proc[p].on = a
    /\ \/ proc[p].pc \in {"check", "dispatch", "artifact"}
       \/ /\ proc[p].pc = "commit"
          /\ Requeues(Head(proc[p].todo))

Executors(a) == {p \in Procs : Executing(p, a)}

(***************************************************************************)
(* Properties that hold however the handlers interleave.                   *)
(***************************************************************************)
\* Rows hold only the statuses and submission states of local_exports.py,
\* whatever results operators report, and no handler is left without writes.
TypeOK ==
    /\ row \in [Attempts -> Rows]
    /\ source \in [Attempts -> Revisions]
    /\ route \in [Attempts -> Routes]
    /\ record \in [Attempts -> RecordStates]
    /\ reviews \in [Attempts -> SUBSET ReviewKinds]
    /\ proc \in [Procs -> ProcStates]
    /\ \A p \in Procs : proc[p].pc = "commit" => proc[p].todo # <<>>
    /\ crashes \in 0..MaxCrashes
    /\ approvals \in [Attempts -> Nat]
    /\ claims \in [Attempts -> Nat]
    /\ requeues \in [Attempts -> Nat]
    /\ handed \in [Attempts -> Nat]
    /\ artifact \in [Attempts -> Revisions \cup {NoRevision}]
    /\ approvedRevs \in [Attempts -> SUBSET Revisions]
    /\ attested \in [Attempts -> BOOLEAN]

\* FAB never hands out an attempt more often than it was approved: every
\* request Wave accepts and every supervised file is paid for by an approval
\* of its own, whatever approvals, rejections, regenerations, deferrals,
\* executions and deaths interleave.  (execute_attempt, claim_export_attempt)
HandedWithinApprovals == \A a \in Attempts : handed[a] <= approvals[a]

\* Each claim spends one approval, or one return of an earlier claim to the
\* queue, and a claimable row is one that is still unspent.
ClaimsSpendAuthority ==
    \A a \in Attempts :
        claims[a] + (IF row[a].status \in ClaimableStatuses THEN 1 ELSE 0)
            <= approvals[a] + requeues[a]

\* Each claim ends in at most one way: the attempt is handed out, the claim
\* goes back to the queue, or its process still works on it.
\* (execute_attempt, _release_execution_claim, _map_execution_status)
ClaimsAccounted ==
    \A a \in Attempts :
        handed[a] + requeues[a] + Cardinality(Executors(a)) <= claims[a]

\* An attempt is marked as submitted only if Wave accepted it or an operator
\* recorded a successful result (_map_execution_status, record_result), and
\* its submission state tells what its status tells: regenerate and reject
\* look at the first where approve and execute look at the second.
\* (update_export_attempt)
SubmittedIsReal ==
    \A a \in Attempts :
        /\ row[a].status \in SubmittedStatuses => handed[a] > 0 \/ attested[a]
        /\ row[a].submission \in SubmittedStates
                <=> row[a].status \in SubmittedStatuses

(***************************************************************************)
(* Properties that need the handlers of one attempt not to overlap.        *)
(***************************************************************************)
\* Two workers never execute the same attempt at the same time.
\* (claim_export_attempt)
OneExecutor ==
    \A a \in Attempts, p, q \in Procs :
        Executing(p, a) /\ Executing(q, a) => p = q

\* A posting is not submitted twice: not after a timeout that left the
\* outcome open, not after a restart in mid-execution (execute_attempt,
\* APPROVABLE_EXPORT_STATUSES); and not at all when it reads as rejected.
\* (reject_attempt)
HandedOnce ==
    \A a \in WaveAttempts :
        /\ handed[a] <= 1
        /\ row[a].status = "rejected" => handed[a] = 0

\* A supervised file holds a draft that an operator approved.
\* (artifact_for_attempt, regenerate_attempt)
ArtifactApproved ==
    \A a \in Attempts :
        artifact[a] # NoRevision => artifact[a] \in approvedRevs[a]

\* What the bookkeeping record should say once the handlers are done.  A
\* deferral and a released claim leave it as the approval left it, a file
\* that could not be stored as well.
RecordFor(r) ==
    CASE r.status = "absent" -> {"none"}
      [] r.status = "blocked" -> {"blocked"}
      [] r.status = "approval_required" -> {"awaiting_approval"}
      [] r.status \in {"approved", "deferred"} -> {"approved_not_submitted"}
      [] r.status = "rejected" -> {"rejected_not_executed"}
      [] r.status = "submitted" -> {"executed"}
      [] r.status = "failed" /\ r.submission = "not_executed" ->
            {"approved_not_submitted"}
      [] OTHER -> {r.status}

\* With no process running and none lost on the way, attempt and bookkeeping
\* record tell one story, after every sequence of handlers.  (record_export_state,
\* _record_attention_state)
RecordAgrees ==
    crashes = 0 /\ (\A p \in Procs : Idle(p)) =>
        \A a \in Attempts : record[a] \in RecordFor(row[a])

(***************************************************************************)
(* Liveness.                                                               *)
(***************************************************************************)
\* A claim is left behind only by a process that died: without a death, an
\* attempt in execution leaves that status.
\* (execute_attempt, _release_execution_claim)
ClaimsResolve ==
    \A a \in Attempts :
        row[a].status = "execution_in_progress" /\ crashes = 0
            ~> row[a].status # "execution_in_progress" \/ crashes > 0
=============================================================================
