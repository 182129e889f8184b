--------------------------- MODULE AutonomyCycle ----------------------------
(***************************************************************************)
(* The autonomous cycle and its governed recovery: LocalAutonomousService, *)
(* LocalAutonomyControlService, LocalWorkflowRecoveryService and           *)
(* LocalWorkflowRecoveryScheduler over the runtime_leases,                 *)
(* runtime_controls, workflow_runs and workflow_steps tables.              *)
(*                                                                         *)
(* A process is a thread of the local API server, the background worker or *)
(* a command line run.  Every action is one ledger transaction, or a       *)
(* transaction together with writes of rows that no other process reads    *)
(* before the next one.  What a step of the cycle does to documents and    *)
(* drafts is left to its result.                                           *)
(***************************************************************************)
EXTENDS Integers, FiniteSets

CONSTANTS
    Procs,          \* API threads, the worker, command line runs
    NSteps,         \* steps of a cycle, in AUTONOMY_EXECUTION_ORDER
    External,       \* the step execute_approved_exports; 0 when there is none
    Deps,           \* AUTONOMY_RECOVERY_DEPENDENCIES
    MaxRetries,     \* fab_workflow_recovery_max_retries
    Sparse,         \* may a cycle leave skipped steps out: {TRUE}, {FALSE}, both
    Results,        \* what the work of a step may report
    Outlived,       \* kinds of lease whose holder may outlive them
    MaxRuns,        \* bound: workflow runs
    MaxStops,       \* bound: times the stop is engaged
    MaxCrashes      \* bound: processes that die

Steps == 1..NSteps
Runs == 1..MaxRuns

ASSUME ProcsAssumption == IsFiniteSet(Procs) /\ {"nobody", "dead"} \cap Procs = {}
ASSUME StepsAssumption ==
    /\ NSteps \in Nat
    /\ External \in 0..NSteps
    /\ Deps \in [Steps -> SUBSET Steps]
RawResults == {"completed", "failed", "partial", "attention_required",
               "skipped"}

ASSUME ResultsAssumption == Sparse \subseteq BOOLEAN /\ Results \subseteq RawResults
ASSUME BoundsAssumption ==
    /\ MaxRetries \in Nat
    /\ MaxRuns \in Nat
    /\ MaxStops \in Nat
    /\ MaxCrashes \in Nat

VARIABLES
    lease,      \* runtime_leases
    stop,       \* the control autonomy_emergency_stop is active
    run,        \* workflow_runs with their workflow_steps
    stale,      \* runs older than the grace period of the scheduler
    proc,       \* what each process is doing
    crashes,
    stops,
    late        \* steps started since the stop was engaged

vars == <<lease, stop, run, stale, proc, crashes, stops, late>>

(***************************************************************************)
(* The tables.                                                             *)
(***************************************************************************)
\* One lease for the cycle, one for the scheduler, one per retried run.
CycleLease == <<"cycle", 0>>
SchedulerLease == <<"scheduler", 0>>
RunLease(r) == <<"run", r>>

Leases == {CycleLease, SchedulerLease} \cup {RunLease(r) : r \in Runs}

\* The owner token is fresh for every acquisition: that of a process which
\* has died belongs to nobody.
LeaseRows == [owner : Procs \cup {"nobody", "dead"}, live : BOOLEAN]

Unheld == [owner |-> "nobody", live |-> FALSE]

RunStatuses == {"absent", "running", "completed", "stopped", "failed",
                "completed_with_errors"}

\* The code also names attention_required, a status of connector runs only.
RecoverableStatuses == {"failed", "completed_with_errors"}

ResultStatuses == {"completed", "failed", "blocked", "skipped"}

StepStatuses == ResultStatuses \cup {"none", "pending", "running", "not_run"}

\* after is the failed step a step was abandoned after; 0 for any other
\* reason.
StepRows == [status : StepStatuses, after : 0..NSteps]

RunRows == [status : RunStatuses, source : 0..MaxRuns, depth : 0..MaxRuns,
            steps : [Steps -> StepRows]]

Step(status) == [status |-> status, after |-> 0]

(***************************************************************************)
(* Processes.  src is the run that a retry is for (0: none), due tells     *)
(* that the scheduler called it, queue holds the scheduler's work list.    *)
(***************************************************************************)
PCs == {"idle", "clear",
        "acquire", "plan", "gate", "start", "work", "sweep", "finish",
        "release",
        "lock", "replan", "settle", "unlock",
        "scan", "inspect", "finalize", "candidates", "due"}

\* The control states in which a process works on the run of its cycle.
RunPCs == {"gate", "start", "work", "sweep", "finish"}

CyclePCs == RunPCs \cup {"plan", "release"}

ProcStates ==
    [pc : PCs, run : 0..MaxRuns, src : 0..MaxRuns, due : BOOLEAN,
     at : 0..NSteps + 1, retry : 0..NSteps, sel : SUBSET Steps,
     sparse : BOOLEAN, outcome : {"completed", "stopped", "failed"},
     failed : 0..NSteps, queue : SUBSET Runs]

IdleState ==
    [pc |-> "idle", run |-> 0, src |-> 0, due |-> FALSE, at |-> 0,
     retry |-> 0, sel |-> {}, sparse |-> FALSE, outcome |-> "completed",
     failed |-> 0, queue |-> {}]

Idle(p) == proc[p].pc = "idle"

Goto(p, pc) == proc' = [proc EXCEPT ![p].pc = pc]

First(S) == CHOOSE i \in S : \A j \in S : i <= j

\* The next selected step after i, or NSteps + 1.
NextStep(sel, i) ==
    LET rest == {j \in sel : j > i}
    IN  IF rest = {} THEN NSteps + 1 ELSE First(rest)

SetStep(r, i, row) == run' = [run EXCEPT ![r].steps[i] = row]

-----------------------------------------------------------------------------
Init ==
    /\ lease = [n \in Leases |-> Unheld]
    /\ stop = FALSE
    /\ run = [r \in Runs |->
                [status |-> "absent", source |-> 0, depth |-> 0,
                 steps |-> [i \in Steps |-> Step("none")]]]
    /\ stale = {}
    /\ proc = [p \in Procs |-> IdleState]
    /\ crashes = 0
    /\ stops = 0
    /\ late = 0

(***************************************************************************)
(* Leases: compare and set in one immediate transaction, release by owner  *)
(* token, expiry by the clock.  Nothing renews a lease.                    *)
(***************************************************************************)
\* Mutant: an existing lease is taken over whether it has expired or not.
Acquirable_Any(n) == TRUE

\* Mutant: an expired lease still blocks.
Acquirable_Unexpired(n) == lease[n].owner = "nobody"

Acquirable(n) == lease[n].owner = "nobody" \/ ~ lease[n].live

Acquire(n, p) ==
    lease' = [lease EXCEPT ![n] = [owner |-> p, live |-> TRUE]]

Release(n, p) ==
    lease' = IF lease[n].owner = p THEN [lease EXCEPT ![n] = Unheld] ELSE lease

\* The clock passes expires_at.
Expire(n) ==
    /\ lease[n].live
    /\ lease[n].owner = "dead" \/ n[1] \in Outlived
    /\ lease' = [lease EXCEPT ![n].live = FALSE]
    /\ UNCHANGED <<stop, run, stale, proc, crashes, stops, late>>

(***************************************************************************)
(* The emergency stop.                                                     *)
(***************************************************************************)
\* engage.
Engage ==
    /\ stops < MaxStops
    /\ stop' = TRUE
    /\ stops' = stops + 1
    /\ late' = 0
    /\ UNCHANGED <<lease, run, stale, proc, crashes>>

\* clear, with the right confirmation: the lease is read first ...
Clear(p) ==
    /\ Idle(p)
    /\ ~ lease[CycleLease].live
    /\ Goto(p, "clear")
    /\ UNCHANGED <<lease, stop, run, stale, crashes, stops, late>>

\* ... and the control is written whatever has happened since.
ClearWrite(p) ==
    /\ proc[p].pc = "clear"
    /\ stop' = FALSE
    /\ late' = 0
    /\ proc' = [proc EXCEPT ![p] = IdleState]
    /\ UNCHANGED <<lease, run, stale, crashes, stops>>

(***************************************************************************)
(* run_cycle.                                                              *)
(***************************************************************************)
\* A request, the worker's schedule or the command line starts a cycle.  The
\* worker does not record skipped steps (sparse).
StartCycle(p, sparse) ==
    /\ Idle(p)
    /\ proc' = [proc EXCEPT ![p] = [IdleState EXCEPT !.pc = "acquire",
                                                     !.sel = Steps,
                                                     !.sparse = sparse]]
    /\ UNCHANGED <<lease, stop, run, stale, crashes, stops, late>>

\* Where run_cycle returns to: the retry that called it, or its caller.
Return(p) ==
    proc' = [proc EXCEPT ![p] = IF proc[p].src = 0 THEN IdleState
                                ELSE [proc[p] EXCEPT !.pc = "settle"]]

AcquireCycle(p) ==
    /\ proc[p].pc = "acquire"
    /\ IF Acquirable(CycleLease)
       THEN Acquire(CycleLease, p) /\ Goto(p, "plan")
       ELSE Return(p) /\ UNCHANGED lease
    /\ UNCHANGED <<stop, run, stale, crashes, stops, late>>

\* The steps a new run starts with: every selected one, or in a sparse cycle
\* those the plan can run.
FreshSteps(sel, recorded) ==
    [i \in Steps |-> IF i \in sel \cap recorded THEN Step("pending")
                                                ELSE Step("none")]

\* The plan is blocked by the stop, readiness, health or, for a retry, by a
\* step that is no longer low risk.
PlanBlocked(p) ==
    /\ proc[p].pc = "plan"
    /\ Goto(p, "release")
    /\ UNCHANGED <<lease, stop, run, stale, crashes, stops, late>>

\* create_workflow_run and create_workflow_step, after a plan that was not
\* blocked.
CreateRun(p, recorded) ==
    LET r == First({x \in Runs : run[x].status = "absent"})
        s == proc[p].src
    IN  /\ proc[p].pc = "plan"
        /\ ~ stop
        /\ \E x \in Runs : run[x].status = "absent"
        /\ proc[p].sparse \/ recorded = Steps
        /\ run' = [run EXCEPT ![r] =
                     [status |-> "running", source |-> s,
                      depth |-> IF s = 0 THEN 0 ELSE run[s].depth + 1,
                      steps |-> FreshSteps(proc[p].sel, recorded)]]
        /\ proc' = [proc EXCEPT ![p] =
                      [proc[p] EXCEPT !.pc = "gate", !.run = r,
                                      !.at = NextStep(proc[p].sel, 0)]]
        /\ UNCHANGED <<lease, stop, stale, crashes, stops, late>>

\* On to the next step; after the last one the cycle is completed.
Advance(p) ==
    proc' = [proc EXCEPT ![p] =
               [proc[p] EXCEPT !.at = NextStep(proc[p].sel, proc[p].at)]]

GateOpen(p) == proc[p].pc = "gate" /\ proc[p].at <= NSteps

\* execute_step finds the stop engaged: the step is not run, nor is any
\* after it.
GateStopped(p) ==
    /\ GateOpen(p)
    /\ stop
    /\ SetStep(proc[p].run, proc[p].at, Step("not_run"))
    /\ proc' = [proc EXCEPT ![p] = [proc[p] EXCEPT !.pc = "sweep",
                                                   !.outcome = "stopped"]]
    /\ UNCHANGED <<lease, stop, stale, crashes, stops, late>>

\* execute_step with nothing to do.  A sparse cycle has no row for the step.
GateSkip(p) ==
    /\ GateOpen(p)
    /\ ~ stop
    /\ IF proc[p].sparse
       THEN /\ run[proc[p].run].steps[proc[p].at].status = "none"
            /\ UNCHANGED run
       ELSE SetStep(proc[p].run, proc[p].at, Step("skipped"))
    /\ Advance(p)
    /\ UNCHANGED <<lease, stop, stale, crashes, stops, late>>

\* Mutant: the stop is only looked at when the cycle is planned.
GateRun_Unstopped(p) ==
    /\ GateOpen(p)
    /\ Goto(p, "start")
    /\ UNCHANGED <<lease, stop, run, stale, crashes, stops, late>>

\* execute_step goes on to run the step ...
GateRun(p) ==
    /\ GateOpen(p)
    /\ ~ stop
    /\ Goto(p, "start")
    /\ UNCHANGED <<lease, stop, run, stale, crashes, stops, late>>

\* ... which it marks in a transaction of its own before the work begins.
StartStep(p) ==
    /\ proc[p].pc = "start"
    /\ SetStep(proc[p].run, proc[p].at, Step("running"))
    /\ late' = IF stop THEN late + 1 ELSE late
    /\ Goto(p, "work")
    /\ UNCHANGED <<lease, stop, stale, crashes, stops>>

\* Mutant: the reported status is stored as it is.
WorkflowStepStatus_Raw(result) == result
\* _workflow_step_status.
WorkflowStepStatus(result) ==
    CASE result \in {"failed", "partial"} -> "failed"
      [] result = "attention_required" -> "blocked"
      [] result = "skipped" -> "skipped"
      [] OTHER -> "completed"

\* The work returns.
StepReturns(p, result) ==
    /\ proc[p].pc = "work"
    /\ SetStep(proc[p].run, proc[p].at, Step(WorkflowStepStatus(result)))
    /\ proc' = [proc EXCEPT ![p] =
                  [proc[p] EXCEPT !.pc = "gate",
                                  !.at = NextStep(proc[p].sel, proc[p].at)]]
    /\ UNCHANGED <<lease, stop, stale, crashes, stops, late>>

\* The work raises: the cycle is abandoned.
StepRaises(p) ==
    /\ proc[p].pc = "work"
    /\ SetStep(proc[p].run, proc[p].at, Step("failed"))
    /\ proc' = [proc EXCEPT ![p] = [proc[p] EXCEPT !.pc = "sweep",
                                                   !.outcome = "failed",
                                                   !.failed = proc[p].at]]
    /\ UNCHANGED <<lease, stop, stale, crashes, stops, late>>

\* Mutant: the steps after a failure stay as they are.
Unswept_Nothing(p) == {}

\* The steps that an abandoned cycle still has to mark.  A sparse cycle
\* creates the missing rows first; those before the failed step never ran.
Unswept(p) ==
    {i \in proc[p].sel : run[proc[p].run].steps[i].status \in {"none", "pending"}}

AbandonedStep(p) == [status |-> "not_run", after |-> proc[p].failed]

\* The handlers of the two exceptions mark one step after the other.
Sweep(p) ==
    /\ proc[p].pc = "sweep"
    /\ IF Unswept(p) # {}
       THEN /\ SetStep(proc[p].run, First(Unswept(p)), AbandonedStep(p))
            /\ UNCHANGED proc
       ELSE /\ Goto(p, "finish")
            /\ UNCHANGED run
    /\ UNCHANGED <<lease, stop, stale, crashes, stops, late>>

LastStepDone(p) ==
    /\ proc[p].pc = "gate"
    /\ proc[p].at = NSteps + 1
    /\ Goto(p, "finish")
    /\ UNCHANGED <<lease, stop, run, stale, crashes, stops, late>>

\* update_workflow_run takes no expected status.
FinishRun(p) ==
    /\ proc[p].pc = "finish"
    /\ run' = [run EXCEPT ![proc[p].run].status = proc[p].outcome]
    /\ stale' = stale \ {proc[p].run}
    /\ Goto(p, "release")
    /\ UNCHANGED <<lease, stop, crashes, stops, late>>

\* The finally clause of run_cycle.
ReleaseCycle(p) ==
    /\ proc[p].pc = "release"
    /\ Release(CycleLease, p)
    /\ Return(p)
    /\ UNCHANGED <<stop, run, stale, crashes, stops, late>>

(***************************************************************************)
(* Recovery: plan and retry of one run.                                    *)
(***************************************************************************)
Children(r) == {c \in Runs : run[c].status # "absent" /\ run[c].source = r}

\* The first failed step; failing that a blocked one, then a skipped one.
FailedStep(r) ==
    LET with(s) == {i \in Steps : run[r].steps[i].status = s}
    IN  CASE with("failed") # {} -> First(with("failed"))
          [] with("failed") = {} /\ with("blocked") # {} ->
                First(with("blocked"))
          [] with("failed") = {} /\ with("blocked") = {}
                /\ with("skipped") # {} -> First(with("skipped"))
          [] OTHER -> 0

\* Mutant: a run that already has a recovery run is planned again.
CanRetry_Again(r) ==
    /\ run[r].status \in RecoverableStatuses
    /\ FailedStep(r) \notin {0, External}
\* What the plan of a retry demands of the run itself.
CanRetry(r) ==
    /\ Children(r) = {}
    /\ run[r].status \in RecoverableStatuses
    /\ FailedStep(r) \notin {0, External}

\* Mutant: whatever depends on the failed step is resumed.
Resumable_Any(r, f) == {i \in Steps : i > f}
\* _autonomy_continuation_steps: what is reached from the failed step over
\* steps that were abandoned because of it.
Resumable(r, f) ==
    LET open == {i \in Steps \ {External} :
                    run[r].steps[i] = [status |-> "not_run", after |-> f]}
        reach[n \in 0..NSteps] ==
            IF n = 0 THEN {f}
            ELSE reach[n - 1] \cup
                 {i \in open : \E j \in reach[n - 1] : i \in Deps[j]}
    IN  open \cap reach[NSteps]

\* retry: the first look, before any lease.  A recovery records every step,
\* which is the configuration's default; only the worker's own cycles do not.
Retry(p, r) ==
    /\ Idle(p)
    /\ CanRetry(r)
    /\ proc' = [proc EXCEPT ![p] = [IdleState EXCEPT !.pc = "lock",
                                                     !.src = r]]
    /\ UNCHANGED <<lease, stop, run, stale, crashes, stops, late>>

\* Where retry returns to.
EndRetry(p) ==
    proc' = [proc EXCEPT ![p] =
               IF proc[p].due
               THEN [IdleState EXCEPT !.pc = "due", !.due = TRUE,
                                      !.queue = proc[p].queue]
               ELSE IdleState]

LockRun(p) ==
    /\ proc[p].pc = "lock"
    /\ IF Acquirable(RunLease(proc[p].src))
       THEN Acquire(RunLease(proc[p].src), p) /\ Goto(p, "replan")
       ELSE EndRetry(p) /\ UNCHANGED lease
    /\ UNCHANGED <<stop, run, stale, crashes, stops, late>>

\* The second look, with the lease.  Whether the step can run now is the
\* current plan's choice.
Replan(p) ==
    LET r == proc[p].src
        f == FailedStep(r)
    IN  /\ proc[p].pc = "replan"
        /\ \/ /\ CanRetry(r)
              /\ proc' = [proc EXCEPT ![p] =
                            [proc[p] EXCEPT !.pc = "acquire", !.retry = f,
                                            !.sel = {f} \cup Resumable(r, f)]]
           \/ Goto(p, "unlock")
        /\ UNCHANGED <<lease, stop, run, stale, crashes, stops, late>>

\* _retry_autonomy judges the new run by its steps.
Settle(p) ==
    LET r == proc[p].run IN
    /\ proc[p].pc = "settle"
    /\ run' = IF /\ r # 0
                 /\ run[r].status = "completed"
                 /\ \/ run[r].steps[proc[p].retry].status # "completed"
                    \/ \E i \in Steps : run[r].steps[i].status
                                            \in {"failed", "blocked", "not_run"}
              THEN [run EXCEPT ![r].status = "completed_with_errors"]
              ELSE run
    /\ Goto(p, "unlock")
    /\ UNCHANGED <<lease, stop, stale, crashes, stops, late>>

UnlockRun(p) ==
    /\ proc[p].pc = "unlock"
    /\ Release(RunLease(proc[p].src), p)
    /\ EndRetry(p)
    /\ UNCHANGED <<stop, run, stale, crashes, stops, late>>

(***************************************************************************)
(* The scheduler: run_due.                                                 *)
(***************************************************************************)
\* The grace period of a running run passes; steps do not refresh it.
GoStale(r) ==
    /\ run[r].status = "running"
    /\ r \notin stale
    /\ stale' = stale \cup {r}
    /\ UNCHANGED <<lease, stop, run, proc, crashes, stops, late>>

RunDue(p) ==
    /\ Idle(p)
    /\ Acquirable(SchedulerLease)
    /\ Acquire(SchedulerLease, p)
    /\ proc' = [proc EXCEPT ![p] = [IdleState EXCEPT !.pc = "scan",
                                                     !.due = TRUE]]
    /\ UNCHANGED <<stop, run, stale, crashes, stops, late>>

\* _finalize_interrupted_runs lists the running runs and keeps the stale.
Scan(p) ==
    /\ proc[p].pc = "scan"
    /\ proc' = [proc EXCEPT ![p] =
                  [proc[p] EXCEPT
                     !.pc = "inspect",
                     !.queue = {r \in stale : run[r].status = "running"}]]
    /\ UNCHANGED <<lease, stop, run, stale, crashes, stops, late>>

\* For each of them the lease is read ...
Inspect(p) ==
    LET r == First(proc[p].queue) IN
    /\ proc[p].pc = "inspect"
    /\ IF proc[p].queue = {}
       THEN Goto(p, "candidates")
       ELSE IF lease[CycleLease].live
       THEN proc' = [proc EXCEPT ![p] = [proc[p] EXCEPT !.queue = @ \ {r}]]
       ELSE proc' = [proc EXCEPT ![p] = [proc[p] EXCEPT !.pc = "finalize",
                                                        !.run = r]]
    /\ UNCHANGED <<lease, stop, run, stale, crashes, stops, late>>

Interrupted(row) ==
    CASE row.status = "running" -> [row EXCEPT !.status = "failed"]
      [] row.status = "pending" -> [row EXCEPT !.status = "not_run"]
      [] OTHER -> row

\* ... and the run and its open steps are closed, whatever the run is now.
Finalize(p) ==
    LET r == proc[p].run IN
    /\ proc[p].pc = "finalize"
    /\ run' = [run EXCEPT
                 ![r] = [run[r] EXCEPT
                           !.status = "failed",
                           !.steps = [i \in Steps |-> Interrupted(run[r].steps[i])]]]
    /\ stale' = stale \ {r}
    /\ proc' = [proc EXCEPT ![p] =
                  [proc[p] EXCEPT !.pc = "inspect", !.run = 0,
                                  !.queue = @ \ {r}]]
    /\ UNCHANGED <<lease, stop, crashes, stops, late>>

\* plan: the candidates below the retry limit.  Which of them are due, and
\* within the batch limit, is the clock's choice.
PlanDue(p, due) ==
    /\ proc[p].pc = "candidates"
    /\ due \subseteq {r \in Runs : CanRetry(r) /\ run[r].depth < MaxRetries}
    /\ proc' = [proc EXCEPT ![p] = [proc[p] EXCEPT !.pc = "due",
                                                   !.queue = due]]
    /\ UNCHANGED <<lease, stop, run, stale, crashes, stops, late>>

\* The candidates are retried in turn.
RetryDue(p, r) ==
    /\ proc[p].pc = "due"
    /\ r \in proc[p].queue
    /\ proc' = [proc EXCEPT ![p] =
                  [proc[p] EXCEPT !.queue = @ \ {r},
                                  !.pc = IF CanRetry(r) THEN "lock" ELSE "due",
                                  !.src = IF CanRetry(r) THEN r ELSE 0]]
    /\ UNCHANGED <<lease, stop, run, stale, crashes, stops, late>>

EndDue(p) ==
    /\ proc[p].pc = "due"
    /\ proc[p].queue = {}
    /\ Release(SchedulerLease, p)
    /\ proc' = [proc EXCEPT ![p] = IdleState]
    /\ UNCHANGED <<stop, run, stale, crashes, stops, late>>

(***************************************************************************)
(* A process dies.  Its leases stay until they expire.                     *)
(***************************************************************************)
Crash(p) ==
    /\ ~ Idle(p)
    /\ crashes < MaxCrashes
    /\ crashes' = crashes + 1
    /\ lease' = [n \in Leases |->
                   IF lease[n].owner = p THEN [lease[n] EXCEPT !.owner = "dead"]
                                         ELSE lease[n]]
    /\ proc' = [proc EXCEPT ![p] = IdleState]
    /\ UNCHANGED <<stop, run, stale, stops, late>>

\* Requests and schedules.
Begin(p) ==
    \/ Clear(p)
    \/ \E sparse \in Sparse : StartCycle(p, sparse)
    \/ \E r \in Runs : Retry(p, r)
    \/ RunDue(p)

\* The steps of a process that has begun.
Cycle(p) ==
    \/ AcquireCycle(p)
    \/ PlanBlocked(p)
    \/ \E recorded \in SUBSET Steps : CreateRun(p, recorded)
    \/ GateStopped(p) \/ GateSkip(p) \/ GateRun(p)
    \/ StartStep(p)
    \/ \E result \in Results : StepReturns(p, result)
    \/ StepRaises(p)
    \/ Sweep(p) \/ LastStepDone(p) \/ FinishRun(p) \/ ReleaseCycle(p)

Recover(p) ==
    \/ LockRun(p) \/ Replan(p) \/ Settle(p) \/ UnlockRun(p)
    \/ Scan(p) \/ Inspect(p) \/ Finalize(p)
    \/ \E due \in SUBSET Runs : PlanDue(p, due)
    \/ \E r \in Runs : RetryDue(p, r)
    \/ EndDue(p)

Proceed(p) == ClearWrite(p) \/ Cycle(p) \/ Recover(p)

Next ==
    \/ Engage
    \/ \E p \in Procs : Begin(p) \/ Proceed(p) \/ Crash(p)
    \/ \E n \in Leases : Expire(n)
    \/ \E r \in Runs : GoStale(r)

Spec == Init /\ [][Next]_vars

\* A process that has begun goes on unless it dies, the clock runs, and the
\* worker comes back to its recovery stage.
FairSpec ==
    /\ Spec
    /\ \A p \in Procs : WF_vars(Proceed(p))
    /\ \A n \in Leases : WF_vars(Expire(n) /\ lease[n].owner = "dead")
    /\ \A r \in Runs : WF_vars(GoStale(r))
    /\ SF_vars(\E p \in Procs : RunDue(p))

-----------------------------------------------------------------------------
\* Runs and steps hold only the statuses the recovery knows, whatever the
\* work of a step reports.  (_workflow_step_status)
TypeOK ==
    /\ lease \in [Leases -> LeaseRows]
    /\ stop \in BOOLEAN
    /\ run \in [Runs -> RunRows]
    /\ stale \subseteq Runs
    /\ proc \in [Procs -> ProcStates]
    /\ crashes \in 0..MaxCrashes
    /\ stops \in 0..MaxStops
    /\ late \in Nat

\* Two cycles never overlap, whoever starts them: worker, command line, API
\* or a recovery.  (run_cycle, acquire_runtime_lease)
OneCycle ==
    \A p, q \in Procs :
        proc[p].pc \in CyclePCs /\ proc[q].pc \in CyclePCs => p = q

\* Once the operator has engaged the stop at most one more step starts: the
\* one whose gate was passed before.  No request, schedule or recovery gets
\* around it.  (execute_step, LocalAutonomyControlService)
StopHolds == late <= 1

\* A run is never closed as interrupted while its process still works on it,
\* however old it is.  (_finalize_interrupted_runs)
LiveRunsOpen ==
    \A p \in Procs :
        proc[p].pc \in RunPCs => run[proc[p].run].status = "running"

\* A failed run is retried by at most one run, even when the scheduler and an
\* operator retry it at the same time and their leases run out under them.
\* (LocalWorkflowRecoveryService.retry)
OneRecovery == \A r \in Runs : Cardinality(Children(r)) <= 1

\* A recovery neither submits anything nor repeats a step: its steps are
\* steps of the run it continues that did not complete there.
\* (_autonomy_plan, _autonomy_continuation_steps)
RecoveryContinues ==
    \A r \in Runs : \A c \in Children(r) : \A i \in Steps :
        run[c].steps[i].status # "none" =>
            /\ i # External
            /\ run[r].steps[i].status \notin {"none", "completed"}

\* When every process has returned and none has died, no run is left open
\* and every step of it has an outcome.  (_run_cycle_once)
NothingLeftOpen ==
    (\A p \in Procs : Idle(p)) /\ crashes = 0 =>
        \A r \in Runs :
            /\ run[r].status # "running"
            /\ \A i \in Steps : run[r].steps[i].status
                                    \notin {"pending", "running"}

\* Every run ends: if its process dies, the scheduler closes it.
\* (_run_cycle_once, _finalize_interrupted_runs)
RunsEnd ==
    \A r \in Runs : run[r].status = "running" ~> run[r].status # "running"
=============================================================================
