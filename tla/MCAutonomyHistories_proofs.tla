--------------------- MODULE MCAutonomyHistories_proofs ---------------------
(***************************************************************************)
(* The properties of the two instances of AutonomyCycle, from its          *)
(* invariant: that of the constants for the steady one, and that of the    *)
(* lapsing one's values for the other.                                     *)
(***************************************************************************)
EXTENDS MCAutonomyHistories, AutonomyCycle_proofs

\* The lapsing instance again, with what is proved of it.
Past == INSTANCE AutonomyCycle_proofs WITH
    NSteps <- 1, External <- 0, Deps <- MCOneStep, MaxRetries <- 1,
    Sparse <- {FALSE}, Results <- {"completed"},
    Outlived <- {"cycle", "scheduler"},
    MaxRuns <- 3, MaxStops <- 0, MaxCrashes <- 0

HistoryInv ==
    /\ focus \in {"steady", "lapsing"}
    /\ focus = "steady" => Inv
    /\ focus = "lapsing" => Past!Inv

LEMMA LapsingInit == ASSUME Lapsing!Init PROVE Past!Init
  BY DEF Lapsing!Steps, Lapsing!Runs, Lapsing!CycleLease,
         Lapsing!SchedulerLease, Lapsing!RunLease, Lapsing!Leases,
         Lapsing!Unheld, Lapsing!Step, Lapsing!IdleState, Lapsing!Init,
         Past!Steps, Past!Runs, Past!CycleLease, Past!SchedulerLease,
         Past!RunLease, Past!Leases, Past!Unheld, Past!Step, Past!IdleState,
         Past!Init

LEMMA LapsingNext == ASSUME Lapsing!Next PROVE Past!Next
  BY Zenon
     DEF Lapsing!Steps, Lapsing!Runs, Lapsing!CycleLease,
         Lapsing!SchedulerLease, Lapsing!RunLease, Lapsing!Leases,
         Lapsing!Unheld, Lapsing!RecoverableStatuses, Lapsing!Step,
         Lapsing!IdleState, Lapsing!Idle, Lapsing!Goto, Lapsing!First,
         Lapsing!NextStep, Lapsing!SetStep, Lapsing!Acquirable,
         Lapsing!Acquire, Lapsing!Release, Lapsing!Expire, Lapsing!Engage,
         Lapsing!Clear, Lapsing!ClearWrite, Lapsing!StartCycle,
         Lapsing!Return, Lapsing!AcquireCycle, Lapsing!FreshSteps,
         Lapsing!PlanBlocked, Lapsing!CreateRun, Lapsing!Advance,
         Lapsing!GateOpen, Lapsing!GateStopped, Lapsing!GateSkip,
         Lapsing!GateRun, Lapsing!StartStep, Lapsing!WorkflowStepStatus,
         Lapsing!StepReturns, Lapsing!StepRaises, Lapsing!Unswept,
         Lapsing!AbandonedStep, Lapsing!Sweep, Lapsing!LastStepDone,
         Lapsing!FinishRun, Lapsing!ReleaseCycle, Lapsing!Children,
         Lapsing!FailedStep, Lapsing!CanRetry, Lapsing!Resumable,
         Lapsing!Retry, Lapsing!EndRetry, Lapsing!LockRun, Lapsing!Replan,
         Lapsing!Settle, Lapsing!UnlockRun, Lapsing!GoStale, Lapsing!RunDue,
         Lapsing!Scan, Lapsing!Inspect, Lapsing!Interrupted,
         Lapsing!Finalize, Lapsing!PlanDue, Lapsing!RetryDue,
         Lapsing!EndDue, Lapsing!Crash, Lapsing!Begin, Lapsing!Cycle,
         Lapsing!Recover, Lapsing!Proceed, Lapsing!Next, Past!Steps,
         Past!Runs, Past!CycleLease, Past!SchedulerLease, Past!RunLease,
         Past!Leases, Past!Unheld, Past!RecoverableStatuses, Past!Step,
         Past!IdleState, Past!Idle, Past!Goto, Past!First, Past!NextStep,
         Past!SetStep, Past!Acquirable, Past!Acquire, Past!Release,
         Past!Expire, Past!Engage, Past!Clear, Past!ClearWrite,
         Past!StartCycle, Past!Return, Past!AcquireCycle, Past!FreshSteps,
         Past!PlanBlocked, Past!CreateRun, Past!Advance, Past!GateOpen,
         Past!GateStopped, Past!GateSkip, Past!GateRun, Past!StartStep,
         Past!WorkflowStepStatus, Past!StepReturns, Past!StepRaises,
         Past!Unswept, Past!AbandonedStep, Past!Sweep, Past!LastStepDone,
         Past!FinishRun, Past!ReleaseCycle, Past!Children, Past!FailedStep,
         Past!CanRetry, Past!Resumable, Past!Retry, Past!EndRetry,
         Past!LockRun, Past!Replan, Past!Settle, Past!UnlockRun,
         Past!GoStale, Past!RunDue, Past!Scan, Past!Inspect,
         Past!Interrupted, Past!Finalize, Past!PlanDue, Past!RetryDue,
         Past!EndDue, Past!Crash, Past!Begin, Past!Cycle, Past!Recover,
         Past!Proceed, Past!Next

LEMMA HistoryInitInv == ASSUME HistoryInit PROVE HistoryInv
  <1>1. CASE focus = "steady" /\ Init
    BY <1>1, InitInv DEF HistoryInv
  <1>2. CASE focus = "lapsing" /\ Lapsing!Init
    <2>1. Past!Inv
      BY <1>2, LapsingInit, Past!InitInv, ProcsAssumption
         DEF Past!Steps, Past!RawResults, Past!IsFiniteSet, IsFiniteSet,
             MCOneStep
    <2> QED
      BY <1>2, <2>1 DEF HistoryInv
  <1> QED
    BY <1>1, <1>2 DEF HistoryInit

LEMMA HistoryNextInv ==
    ASSUME HistoryInv, [HistoryNext]_<<vars, focus>>
    PROVE  HistoryInv'
  <1>1. focus' = focus
    BY DEF HistoryNext
  <1>2. CASE focus = "steady"
    <2>1. [Next]_vars
      BY <1>2 DEF HistoryNext
    <2>2. Inv'
      BY <1>2, <2>1, NextInv DEF HistoryInv
    <2> QED
      BY <1>1, <1>2, <2>2 DEF HistoryInv
  <1>3. CASE focus = "lapsing"
    <2>1. Past!Next \/ UNCHANGED Past!vars
      BY <1>3, LapsingNext DEF HistoryNext, vars, Past!vars
    <2>2. Past!Inv'
      BY <1>3, <2>1, Past!NextInv, ProcsAssumption
         DEF HistoryInv, Past!Steps, Past!RawResults, Past!IsFiniteSet,
             IsFiniteSet, MCOneStep
    <2> QED
      BY <1>1, <1>3, <2>2 DEF HistoryInv
  <1> QED
    BY <1>2, <1>3 DEF HistoryInv

LEMMA HistoryInvariance == HistorySpec => []HistoryInv
  <1>1. HistoryInit => HistoryInv
    BY HistoryInitInv
  <1>2. HistoryInv /\ [HistoryNext]_<<vars, focus>> => HistoryInv'
    BY HistoryNextInv
  <1> QED
    BY <1>1, <1>2, PTL DEF HistorySpec

-----------------------------------------------------------------------------
\* Two cycles never overlap, whoever starts them, as long as none outlives
\* its lease.  (run_cycle, acquire_runtime_lease)
THEOREM CyclesNeverOverlap ==
    ASSUME "cycle" \notin Outlived
    PROVE  HistorySpec => []SteadyOneCycle
  <1>1. HistoryInv => SteadyOneCycle
    BY OneCycleInv DEF HistoryInv, SteadyOneCycle
  <1> QED
    BY <1>1, HistoryInvariance, PTL

\* After the operator engages the stop at most one more step starts.
\* (execute_step, LocalAutonomyControlService)
THEOREM StopLetsOneStepThrough ==
    ASSUME "cycle" \notin Outlived
    PROVE  HistorySpec => []SteadyStopHolds
  <1>1. HistoryInv => SteadyStopHolds
    BY DEF HistoryInv, SteadyStopHolds, Inv, StopsCounted, StopHolds
  <1> QED
    BY <1>1, HistoryInvariance, PTL

\* No run is closed as interrupted under its cycle, and a cycle that returns
\* leaves neither a run nor a step open.
\* (_finalize_interrupted_runs, _run_cycle_once)
THEOREM RunsCloseWithTheirCycle ==
    ASSUME "cycle" \notin Outlived
    PROVE  HistorySpec => []SteadyRunsClosed
  <1>1. HistoryInv => SteadyRunsClosed
    BY RunsClosedInv DEF HistoryInv, SteadyRunsClosed
  <1> QED
    BY <1>1, HistoryInvariance, PTL

\* A failed run has one recovery, also where cycles and schedulers outlive
\* their leases.  (LocalWorkflowRecoveryService.retry)
THEOREM OneRecoveryThoughLapsing == HistorySpec => []LapsingOneRecovery
  <1>1. HistoryInv => LapsingOneRecovery
    <2> SUFFICES ASSUME Past!Inv PROVE Lapsing!OneRecovery
      BY DEF HistoryInv, LapsingOneRecovery
    <2>1. Past!OneRecovery
      BY Past!OneRecoveryInv, ProcsAssumption
         DEF Past!Steps, Past!RawResults, Past!IsFiniteSet, IsFiniteSet,
             MCOneStep
    <2> QED
      BY <2>1 DEF Past!OneRecovery, Lapsing!OneRecovery, Past!Children,
                  Lapsing!Children, Past!Runs, Lapsing!Runs,
                  Past!Cardinality, Lapsing!Cardinality
  <1> QED
    BY <1>1, HistoryInvariance, PTL
=============================================================================
