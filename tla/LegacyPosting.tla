---------------------------- MODULE LegacyPosting -----------------------------
(***************************************************************************)
(* PostingExecutor, PostingApprovalService and RetryManager: the queue of  *)
(* posting attempts of installations without an operations ledger.         *)
(*                                                                         *)
(* The worker, or a manual run, executes the retries that are due and then *)
(* the approved attempts; the dashboard approves, rejects and completes.   *)
(* Only the claim compares a status with what was read; every other write  *)
(* is a transaction of its own and looks at nothing.                       *)
(***************************************************************************)
EXTENDS Integers, FiniteSets

CONSTANTS
    Procs,       \* threads of the worker, of manual runs and of the dashboard
    Attempts,    \* documents that have an attempt for one target system
    MaxAttempts, \* retry_max_attempts
    MaxPasses,   \* bound: passes of the worker
    MaxActs,     \* bound: actions of the operator
    MaxCrashes   \* bound: processes that die

VARIABLES
    row,     \* status of the posting attempts
    queue,   \* retry_queue: status, attempt_count and whether it is due
    review,  \* pending manual_review_items, by reason
    doc,     \* current_state of the documents
    proc,    \* what each process is about to do
    passes, acts, crashes,
    outside, \* how often the target system has the posting
    failures, \* failures that an execution has met
    letters, \* rows of the dead_letter_queue
    refused, \* attempts whose rejection stands
    crossed, \* attempts that two processes have worked on at once
    excused  \* attempts whose outcome FAB cannot know, or the operator undid

vars == <<row, queue, review, doc, proc, passes, acts, crashes, outside,
          failures, letters, refused, crossed, excused>>

rowVars == <<row, queue, review, doc>>
ghosts == <<outside, failures, letters, refused>>

Approvable == {"dry_run_created", "approval_required", "rejected"}

\* Mutant: whatever the operator rejected may be executed as well.
Claimable_Rejected(status) == status # "posted"
\* _claim_attempt.  Both passes claim with force.
Claimable(status) ==
    status \in {"approved", "posting_failed", "posting_in_progress",
                "posting_deferred", "supervision_required"}

Idle == [at |-> "idle", todo |-> {}]

Init ==
    /\ row = [a \in Attempts |-> "absent"]
    /\ queue = [a \in Attempts |-> [status |-> "none", count |-> 0, due |-> FALSE]]
    /\ review = [a \in Attempts |-> {}]
    /\ doc = [a \in Attempts |-> "received"]
    /\ proc = [p \in Procs |-> Idle]
    /\ passes = 0 /\ acts = 0 /\ crashes = 0
    /\ outside = [a \in Attempts |-> 0]
    /\ failures = [a \in Attempts |-> 0]
    /\ letters = [a \in Attempts |-> 0]
    /\ refused = {} /\ crossed = {} /\ excused = {}

TypeOK ==
    /\ row \in [Attempts -> {"absent", "approved", "posted", "posting_failed",
                    "posting_in_progress", "posting_deferred",
                    "supervision_required"} \cup Approvable]
    /\ queue \in [Attempts ->
           [status : {"none", "pending", "completed", "dead_letter"},
            count : 0..MaxAttempts, due : BOOLEAN]]
    /\ review \in [Attempts -> SUBSET {"execution_failed", "dead_lettered",
                                       "supervision"}]
    /\ doc \in [Attempts -> {"received", "posted",
                             "awaiting_supervised_submission"}]
    /\ \A p \in Procs : proc[p].todo \subseteq Attempts
    /\ \A s \in {refused, crossed, excused} : s \subseteq Attempts

Works(p) == proc[p].at # "idle" /\ "a" \in DOMAIN proc[p]
\* Somebody else works on the attempt.
Others(p, a) == {q \in Procs \ {p} : Works(q) /\ proc[q].a = a}
Meet(p, a) == crossed' = IF Others(p, a) = {} THEN crossed
                                              ELSE crossed \cup {a}

At(p, step) == Works(p) /\ proc[p].at = step

\* The process goes on with the attempt, or is done with it.
Goto(p, step) == proc' = [proc EXCEPT ![p].at = step]
Done(p) == proc' = [proc EXCEPT ![p] =
    [Idle EXCEPT !.todo = proc[p].todo,
                 !.at = IF proc[p].todo = {} THEN "idle" ELSE "pass"]]

-----------------------------------------------------------------------------
\* SafePostingService.create_dry_run: the idempotency key is unique.
CreateDryRun(a) ==
    /\ row[a] = "absent"
    /\ row' = [row EXCEPT ![a] = "dry_run_created"]
    /\ UNCHANGED <<queue, review, doc, proc, passes, acts, crashes, ghosts,
                   crossed, excused>>

-----------------------------------------------------------------------------
\* The operator.  A decision reads the row in one transaction and writes it
\* in another.

Act(p, a, step) ==
    /\ proc[p] = Idle
    /\ acts < MaxActs /\ acts' = acts + 1
    /\ proc' = [proc EXCEPT ![p] = [at |-> step, todo |-> {}, a |-> a]]
    /\ Meet(p, a)
    /\ UNCHANGED <<rowVars, passes, crashes, failures, letters, refused>>

Approve(p, a) ==
    /\ row[a] \in Approvable
    /\ Act(p, a, "approve")
    /\ UNCHANGED <<outside, excused>>

\* A rejection is not refused: that of a posted attempt makes it approvable.
Reject(p, a) ==
    /\ row[a] # "absent"
    /\ Act(p, a, "reject")
    /\ excused' = IF row[a] = "posted" THEN excused \cup {a} ELSE excused
    /\ UNCHANGED outside

\* The user has submitted the file and says so.
Complete(p, a) ==
    /\ row[a] = "supervision_required"
    /\ Act(p, a, "complete")
    /\ outside' = [outside EXCEPT ![a] = @ + 1]
    /\ UNCHANGED excused

Decided(p, status) ==
    /\ row' = [row EXCEPT ![proc[p].a] = status]
    /\ proc' = [proc EXCEPT ![p] = Idle]
    /\ UNCHANGED <<queue, passes, acts, crashes, outside, failures, letters,
                   crossed, excused>>

ApproveWrite(p) ==
    /\ At(p, "approve")
    /\ Decided(p, "approved")
    /\ refused' = refused \ {proc[p].a}
    /\ UNCHANGED <<review, doc>>

\* The rejection stands if nobody was at work on the attempt.
RejectWrite(p) ==
    /\ At(p, "reject")
    /\ Decided(p, "rejected")
    /\ refused' = IF Others(p, proc[p].a) = {} THEN refused \cup {proc[p].a}
                                               ELSE refused
    /\ UNCHANGED <<review, doc>>

CompleteWrite(p) ==
    /\ At(p, "complete")
    /\ Decided(p, "posted")
    /\ review' = [review EXCEPT ![proc[p].a] = @ \ {"supervision"}]
    /\ doc' = [doc EXCEPT ![proc[p].a] = "posted"]
    /\ UNCHANGED refused

-----------------------------------------------------------------------------
\* Execution

\* process_due_retries and process_approved_attempts list what they will try.
Pass(p, listed) ==
    /\ proc[p] = Idle
    /\ passes < MaxPasses /\ passes' = passes + 1
    /\ listed # {}
    /\ proc' = [proc EXCEPT ![p] = [at |-> "pass", todo |-> listed]]
    /\ UNCHANGED <<rowVars, acts, crashes, ghosts, crossed, excused>>

DueItems == {a \in Attempts : queue[a].status = "pending" /\ queue[a].due}
ProcessDueRetries(p) == Pass(p, DueItems)
ProcessApproved(p) == Pass(p, {a \in Attempts : row[a] = "approved"})

\* The next attempt of the list is claimed, or left if its status is another.
Claim(p, a) ==
    LET rest == [at |-> "pass", todo |-> proc[p].todo \ {a}]
    IN  /\ proc[p].at = "pass" /\ a \in proc[p].todo
        /\ IF Claimable(row[a])
           THEN /\ row' = [row EXCEPT ![a] = "posting_in_progress"]
                /\ proc' = [proc EXCEPT ![p] = [at |-> "handle", a |-> a,
                              todo |-> rest.todo, count |-> 0,
                              handler |-> TRUE]]
                /\ Meet(p, a)
           ELSE /\ proc' = [proc EXCEPT ![p] =
                               IF rest.todo = {} THEN Idle ELSE rest]
                /\ UNCHANGED <<row, crossed>>
        /\ UNCHANGED <<queue, review, doc, passes, acts, crashes, ghosts, excused>>

\* enter_data of the handlers.
Answered(p) ==
    /\ At(p, "handle")
    /\ UNCHANGED <<rowVars, passes, acts, crashes, letters, refused, crossed>>
Fails(p) == failures' = [failures EXCEPT ![proc[p].a] = @ + 1]
Arrives(p) == outside' = [outside EXCEPT ![proc[p].a] = @ + 1]

Accept(p) ==
    /\ Answered(p) /\ Goto(p, "posted") /\ Arrives(p)
    /\ UNCHANGED <<failures, excused>>

\* A limit of the provider is met before the call is made.
Throttle(p) ==
    /\ Answered(p) /\ Goto(p, "defer")
    /\ UNCHANGED <<outside, failures, excused>>

\* There is a file for the user to submit.
Supervise(p) ==
    /\ Answered(p) /\ Goto(p, "pause")
    /\ UNCHANGED <<outside, failures, excused>>

\* A call that raises, and any status that the executor does not know, is a
\* failure; so is a target system that has no handler.
Refuse(p) ==
    /\ Answered(p) /\ Fails(p)
    /\ \E handler \in BOOLEAN :
        proc' = [proc EXCEPT ![p].at = "fail", ![p].handler = handler]
    /\ UNCHANGED <<outside, excused>>

\* The target accepts the posting but its answer is lost.
Unheard(p) ==
    /\ Answered(p) /\ Goto(p, "fail") /\ Fails(p) /\ Arrives(p)
    /\ excused' = excused \cup {proc[p].a}

Unchanged == UNCHANGED <<passes, acts, crashes, outside, failures, refused,
                         crossed, excused>>
SetRow(p, status) == row' = [row EXCEPT ![proc[p].a] = status]

MarkExecuted(p) ==
    /\ At(p, "posted")
    /\ SetRow(p, "posted") /\ Goto(p, "complete_retry")
    /\ Unchanged /\ UNCHANGED <<queue, review, doc, letters>>
MarkComplete(p) ==
    /\ At(p, "complete_retry")
    /\ queue' = [queue EXCEPT ![proc[p].a].status =
                    IF @ = "none" THEN "none" ELSE "completed"]
    /\ Goto(p, "tell_document")
    /\ Unchanged /\ UNCHANGED <<row, review, doc, letters>>
MarkDocumentPosted(p) ==
    /\ At(p, "tell_document")
    /\ doc' = [doc EXCEPT ![proc[p].a] = "posted"]
    /\ Done(p)
    /\ Unchanged /\ UNCHANGED <<row, queue, review, letters>>

\* A rate limit: no failure is counted.
Defer(p) ==
    /\ At(p, "defer")
    /\ SetRow(p, "posting_deferred") /\ Goto(p, "defer_retry")
    /\ Unchanged /\ UNCHANGED <<queue, review, doc, letters>>
DeferRetry(p) ==
    /\ At(p, "defer_retry")
    /\ queue' = [queue EXCEPT ![proc[p].a].status = "pending",
                              ![proc[p].a].due = FALSE]
    /\ Done(p)
    /\ Unchanged /\ UNCHANGED <<row, review, doc, letters>>

\* The file waits for the user to submit it.
Pause(p) ==
    /\ At(p, "pause")
    /\ SetRow(p, "supervision_required")
    /\ doc' = [doc EXCEPT ![proc[p].a] = "awaiting_supervised_submission"]
    /\ Goto(p, "ask")
    /\ Unchanged /\ UNCHANGED <<queue, review, letters>>
Ask(p) ==
    /\ At(p, "ask")
    /\ review' = [review EXCEPT ![proc[p].a] = @ \cup {"supervision"}]
    /\ Done(p)
    /\ Unchanged /\ UNCHANGED <<row, queue, doc, letters>>

MarkFailed(p) ==
    /\ At(p, "fail")
    /\ SetRow(p, "posting_failed") /\ Goto(p, "count")
    /\ Unchanged /\ UNCHANGED <<queue, review, doc, letters>>
\* schedule_retry reads the count in one transaction and writes in another.
CountFailure(p) ==
    /\ At(p, "count")
    /\ proc' = [proc EXCEPT ![p].count = queue[proc[p].a].count + 1,
                            ![p].at = "schedule"]
    /\ Unchanged /\ UNCHANGED <<rowVars, letters>>

\* Mutant: an attempt is buried a failure too late.
Exhausted_Late(count) == count > MaxAttempts
Exhausted(count) == count >= MaxAttempts

\* A dead letter leaves the count of the queue's row, if there is one, alone.
MoveToDeadLetter(a) ==
    /\ queue' = [queue EXCEPT ![a].status = IF @ = "none" THEN "none"
                                                         ELSE "dead_letter"]
    /\ letters' = [letters EXCEPT ![a] = @ + 1]

ScheduleRetry(p) ==
    LET a == proc[p].a
    IN  /\ At(p, "schedule")
        /\ IF Exhausted(proc[p].count)
           THEN MoveToDeadLetter(a) /\ Goto(p, "bury")
           ELSE /\ queue' = [queue EXCEPT ![a] =
                       [status |-> "pending", count |-> proc[p].count,
                        due |-> FALSE]]
                /\ IF proc[p].handler THEN Goto(p, "report") ELSE Done(p)
                /\ UNCHANGED letters
        /\ Unchanged /\ UNCHANGED <<row, review, doc>>
Bury(p) ==
    /\ At(p, "bury")
    /\ review' = [review EXCEPT ![proc[p].a] = @ \cup {"dead_lettered"}]
    /\ IF proc[p].handler THEN Goto(p, "report") ELSE Done(p)
    /\ Unchanged /\ UNCHANGED <<row, queue, doc, letters>>
\* A failure of the handler, and not the lack of one, gets a review each time.
ReportFailure(p) ==
    /\ At(p, "report")
    /\ review' = [review EXCEPT ![proc[p].a] = @ \cup {"execution_failed"}]
    /\ Done(p)
    /\ Unchanged /\ UNCHANGED <<row, queue, doc, letters>>

-----------------------------------------------------------------------------
\* next_retry_at has passed.
BecomeDue(a) ==
    /\ queue[a].status = "pending" /\ ~ queue[a].due
    /\ queue' = [queue EXCEPT ![a].due = TRUE]
    /\ UNCHANGED <<row, review, doc, proc, passes, acts, crashes, ghosts,
                   crossed, excused>>

\* What a process leaves behind is as if others had crossed it; a posting of
\* which it had yet to write is one that FAB does not know of.
Crash(p) ==
    /\ proc[p] # Idle /\ crashes < MaxCrashes /\ crashes' = crashes + 1
    /\ proc' = [proc EXCEPT ![p] = Idle]
    /\ crossed' = crossed \cup {a \in Attempts : Works(p) /\ proc[p].a = a}
    /\ excused' = excused \cup
           {a \in Attempts : Works(p) /\ proc[p].a = a
                             /\ proc[p].at \in {"posted", "complete"}}
    /\ UNCHANGED <<rowVars, passes, acts, ghosts>>

Next ==
    \/ \E a \in Attempts : CreateDryRun(a) \/ BecomeDue(a)
    \/ \E p \in Procs, a \in Attempts :
        Approve(p, a) \/ Reject(p, a) \/ Complete(p, a) \/ Claim(p, a)
    \/ \E p \in Procs :
        \/ ApproveWrite(p) \/ RejectWrite(p) \/ CompleteWrite(p)
        \/ ProcessDueRetries(p) \/ ProcessApproved(p)
        \/ Accept(p) \/ Throttle(p) \/ Supervise(p) \/ Refuse(p) \/ Unheard(p)
        \/ MarkExecuted(p) \/ MarkComplete(p) \/ MarkDocumentPosted(p)
        \/ Defer(p) \/ DeferRetry(p) \/ Pause(p) \/ Ask(p)
        \/ MarkFailed(p) \/ CountFailure(p) \/ ScheduleRetry(p)
        \/ Bury(p) \/ ReportFailure(p) \/ Crash(p)

-----------------------------------------------------------------------------
\* The properties

\* reject_attempt: a rejection that overlaps nothing is final until the next
\* approval: neither a pass nor a retry that was already listed or is due
\* executes the attempt.
RejectionHolds == \A a \in refused : row[a] = "rejected"

\* A target system gets a posting once, however often the attempt is deferred,
\* fails, is retried, buried or approved again, and whoever dies.  Left out are
\* attempts that two processes have worked on at once, a posted one that the
\* operator rejects, a call that fails after the target has accepted it, and a
\* death between the answer and its record.
PostedOnce ==
    \A a \in Attempts \ (crossed \cup excused) :
        /\ outside[a] <= 1
        /\ row[a] = "posted" => outside[a] = 1

\* schedule_retry: every failure is counted in the queue or is a dead letter,
\* and an attempt that failed is tried again or has its review.
FailuresCounted ==
    \A a \in Attempts \ crossed :
        \/ \E p \in Procs : Works(p) /\ proc[p].a = a
        \/ /\ failures[a] = queue[a].count + letters[a]
           /\ row[a] = "posting_failed" =>
                \/ queue[a].status = "pending" /\ queue[a].count < MaxAttempts
                \/ "dead_lettered" \in review[a]
===============================================================================
