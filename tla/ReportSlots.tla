----------------------------- MODULE ReportSlots ----------------------------
(***************************************************************************)
(* Scheduled financial reports: LocalScheduledReportService.run_due over   *)
(* the financial_report_runs table and the report directory.               *)
(*                                                                         *)
(* A process is the worker or a thread that runs run_due_reports for HAI   *)
(* or the dashboard.  Every action is one ledger transaction or one file.  *)
(* The slot that is due follows from the time of the call; the report's    *)
(* content is not modelled.                                                *)
(***************************************************************************)
EXTENDS Integers, FiniteSets

CONSTANTS
    Procs,          \* the worker and the API threads
    Formats,        \* report_schedule_formats: "json", "csv"
    MaxSlots,       \* bound: schedule slots that come due
    MaxFaults,      \* bound: files and ledger calls that fail, files that
                    \* cannot be removed
    MaxCrashes      \* bound: processes that die

VARIABLES
    run,        \* the financial_report_runs row of each slot
    retryAt,    \* whether next_retry_at of a failed row has come
    files,      \* the artifacts of each slot's run
    slot,       \* the latest slot that is due
    proc,       \* what each process is doing
    faults, crashes,
    \* Observation: files whose removal failed
    kept

vars == <<run, retryAt, files, slot, proc, faults, crashes, kept>>

Slots == 1..MaxSlots
NoSlot == 0

Idle == [at |-> "idle", slot |-> NoSlot, left |-> {}]

NoRun == [status |-> "none", attempts |-> 0, artifacts |-> {}]

TypeOK ==
    /\ run \in [Slots -> [status : {"none", "running", "prepared", "failed"},
                          attempts : 0..MaxFaults + 1,
                          artifacts : SUBSET Formats]]
    /\ retryAt \in [Slots -> BOOLEAN]
    /\ files \in [Slots -> SUBSET Formats]
    /\ slot \in Slots
    /\ proc \in [Procs -> [at : {"idle", "claim", "write", "complete", "audit",
                                 "undo", "fail", "dead"},
                           slot : Slots \cup {NoSlot}, left : SUBSET Formats]]
    /\ kept \subseteq Slots

Init ==
    /\ run = [s \in Slots |-> NoRun]
    /\ retryAt = [s \in Slots |-> FALSE]
    /\ files = [s \in Slots |-> {}]
    /\ slot = 1
    /\ proc = [p \in Procs |-> Idle]
    /\ faults = 0 /\ crashes = 0
    /\ kept = {}

Goto(p, pc) == proc' = [proc EXCEPT ![p].at = pc]
Done(p) == proc' = [proc EXCEPT ![p] = Idle]

\* _schedule_slot: only the latest due slot is looked at.
Begin(p) ==
    /\ proc[p].at = "idle"
    /\ proc' = [proc EXCEPT ![p] = [at |-> "claim", slot |-> slot,
                                    left |-> Formats]]
    /\ UNCHANGED <<run, retryAt, files, slot, faults, crashes, kept>>

\* Mutant: a run that did not finish is taken over.
Due_Running(s) ==
    \/ run[s].status \in {"none", "running"}
    \/ run[s].status = "failed" /\ retryAt[s]
Due(s) ==
    \/ run[s].status = "none"
    \/ run[s].status = "failed" /\ retryAt[s]

\* claim_financial_report_run, one immediate transaction.
Claim(p) ==
    LET s == proc[p].slot IN
    /\ proc[p].at = "claim"
    /\ IF Due(s)
       THEN /\ run' = [run EXCEPT ![s].status = "running",
                                  ![s].attempts = @ + 1]
            /\ Goto(p, "write")
       ELSE Done(p) /\ UNCHANGED run
    /\ UNCHANGED <<retryAt, files, slot, faults, crashes, kept>>

\* The artifacts of one run have one name, whatever the attempt.
Write(p) ==
    LET s == proc[p].slot IN
    /\ proc[p].at = "write"
    /\ \E f \in proc[p].left :
        /\ files' = [files EXCEPT ![s] = @ \cup {f}]
        /\ proc' = [proc EXCEPT
                ![p].left = @ \ {f},
                ![p].at = IF proc[p].left = {f} THEN "complete" ELSE "write"]
    /\ UNCHANGED <<run, retryAt, slot, faults, crashes, kept>>

Complete(p) ==
    LET s == proc[p].slot IN
    /\ proc[p].at = "complete"
    /\ run' = [run EXCEPT ![s].status = "prepared", ![s].artifacts = Formats]
    /\ Goto(p, "audit")
    /\ UNCHANGED <<retryAt, files, slot, faults, crashes, kept>>

Audit(p) ==
    /\ proc[p].at = "audit"
    /\ Done(p)
    /\ UNCHANGED <<run, retryAt, files, slot, faults, crashes, kept>>

\* Anything above may raise after the claim; the files that were written are
\* removed first, then the row becomes failed and gets its retry time.
Fault(p) ==
    /\ proc[p].at \in {"write", "complete", "audit"}
    /\ faults < MaxFaults
    /\ faults' = faults + 1
    /\ Goto(p, "undo")
    /\ UNCHANGED <<run, retryAt, files, slot, crashes, kept>>

\* Mutant: only the file that failed is removed.
Undo_Last(p) ==
    /\ proc[p].at = "undo"
    /\ Goto(p, "fail")
    /\ UNCHANGED <<run, retryAt, files, slot, faults, crashes, kept>>

Undo(p) ==
    LET s == proc[p].slot IN
    /\ proc[p].at = "undo"
    /\ \/ /\ files' = [files EXCEPT ![s] = @ \cap proc[p].left]
          /\ UNCHANGED <<faults, kept>>
       \/ /\ faults < MaxFaults /\ faults' = faults + 1
          /\ \E stuck \in (SUBSET (files[s] \ proc[p].left)) \ {{}} :
                files' = [files EXCEPT ![s] = @ \cap (proc[p].left \cup stuck)]
          /\ kept' = kept \cup {s}
    /\ Goto(p, "fail")
    /\ UNCHANGED <<run, retryAt, slot, crashes>>

Fail(p) ==
    LET s == proc[p].slot IN
    /\ proc[p].at = "fail"
    /\ \/ /\ run' = [run EXCEPT ![s].status = "failed",
                                ![s].artifacts = {}]
          /\ retryAt' = [retryAt EXCEPT ![s] = FALSE]
          /\ Done(p) /\ UNCHANGED faults
       \/ /\ faults < MaxFaults /\ faults' = faults + 1
          /\ Goto(p, "dead") /\ UNCHANGED <<run, retryAt>>
    /\ UNCHANGED <<files, slot, crashes, kept>>

\* The next slot comes due, or the retry time of a failed one.
NextSlot ==
    /\ slot < MaxSlots
    /\ slot' = slot + 1
    /\ UNCHANGED <<run, retryAt, files, proc, faults, crashes, kept>>

RetryDue(s) ==
    /\ run[s].status = "failed" /\ ~retryAt[s]
    /\ retryAt' = [retryAt EXCEPT ![s] = TRUE]
    /\ UNCHANGED <<run, files, slot, proc, faults, crashes, kept>>

Crash(p) ==
    /\ crashes < MaxCrashes
    /\ proc[p].at \notin {"idle", "dead"}
    /\ crashes' = crashes + 1
    /\ Goto(p, "dead")
    /\ UNCHANGED <<run, retryAt, files, slot, faults, kept>>

Next ==
    \/ \E p \in Procs :
        \/ Begin(p) \/ Claim(p) \/ Write(p) \/ Complete(p) \/ Audit(p)
        \/ Fault(p) \/ Undo(p) \/ Fail(p) \/ Crash(p)
    \/ NextSlot
    \/ \E s \in Slots : RetryDue(s)

Spec == Init /\ [][Next]_vars

(***************************************************************************)
(* Properties.                                                             *)
(***************************************************************************)
At(s, pcs) == {p \in Procs : proc[p].slot = s /\ proc[p].at \in pcs}

\* "overlapping worker launches cannot create duplicate report artifacts"
\* (deployment_guide.md): the report of a slot is made by one process at a
\* time, and a slot that somebody works on is not claimed again.  Row and files of a slot agree: a report that reads as prepared has all its
\* files, unless it is being undone or its failure could not be recorded; one
\* that failed, at whichever file, row or audit event, has left none behind,
\* except those that could not be removed.
OneWholeReport ==
    \A s \in Slots :
        /\ Cardinality(At(s, {"write", "complete", "audit", "undo", "fail"}))
                <= 1
        /\ run[s].status = "prepared" =>
                \/ run[s].artifacts \subseteq files[s]
                \/ At(s, {"undo", "fail", "dead"}) # {}
        /\ run[s].status = "failed" /\ s \notin kept => files[s] = {}
=============================================================================
