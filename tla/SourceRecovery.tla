--------------------------- MODULE SourceRecovery ---------------------------
(***************************************************************************)
(* How the worker collects from connectors, pass after pass: the stages    *)
(* workflow_recovery and connector_intake of FabWorker.run, with           *)
(* LocalWorkflowRecoveryScheduler.run_due, LocalWorkflowRecoveryService    *)
(* .retry and LocalConnectorIntakeService.sync.                            *)
(*                                                                         *)
(* A sync is a workflow run with one step for each source.  Failed and     *)
(* skipped steps make the run recoverable; the recovery of it is another   *)
(* run, which takes its place.  As long as a run is recoverable, its       *)
(* sources are held back from the ordinary sync.  What a sync of one       *)
(* source does with documents is ConnectorIntake's.                        *)
(*                                                                         *)
(* The table keeps the runs that some handler still looks for: those that  *)
(* run and those that are recoverable and have no recovery.  Time is       *)
(* reduced to what it brings about: a run becomes ripe (its backoff is     *)
(* over, or it has not been updated for 15 minutes) and a lease expires.   *)
(***************************************************************************)
EXTENDS Integers, FiniteSets

CONSTANTS
    Worker,         \* the background worker
    Threads,        \* threads of the API server
    Sources,        \* enabled connectors
    MaxRetries,     \* fab_workflow_recovery_max_retries
    MaxRuns,        \* bound: runs in the table
    MaxFaults,      \* bound: what goes wrong: syncs that fail, connectors
                    \* that lose their authorisation, processes that die
    MaxManual       \* bound: what operators start

VARIABLES
    runs,       \* workflow_runs with their steps
    ready,      \* sources that can be synced
    leases,     \* runtime_leases: name -> holder
    proc,       \* what each process is doing
    waiting,    \* sources with documents that are not collected yet
    faults, manual

vars == <<runs, ready, leases, proc, waiting, faults, manual>>

Procs == {Worker} \cup Threads
Ids == 1..MaxRuns
None == "none"
Lost == "a process that died"

\* RECOVERABLE_RUN_STATUSES are one status here, and so are the recoverable
\* step statuses failed, skipped and not_run.
NoRun == [status |-> None, steps |-> [s \in Sources |-> None], depth |-> 0,
          ripe |-> FALSE]
\* The leases of the intake and of the scheduler, and one for the recovery of
\* each run.
Intake == -1
Scheduler == -2
LeaseNames == {Intake, Scheduler} \cup Ids

Idle == [at |-> "idle", due |-> {}, held |-> {}, retry |-> 0, sync |-> {},
         run |-> 0, step |-> None]

TypeOK ==
    /\ runs \in [Ids -> [status : {None, "running", "recoverable"},
                         steps : [Sources -> {None, "running", "completed",
                                              "recoverable"}],
                         depth : Nat, ripe : BOOLEAN]]
    /\ ready \subseteq Sources /\ waiting \subseteq Sources
    /\ leases \in [LeaseNames -> Procs \cup {None, Lost}]
    /\ \A p \in Procs :
        /\ proc[p].at \in {"idle", "retry", "planned", "begin", "steps",
                           "end", "intake", "dead"}
        /\ proc[p].due \subseteq Ids /\ proc[p].held \subseteq Sources
        /\ proc[p].run \in 0..MaxRuns /\ proc[p].retry \in 0..MaxRuns

Init ==
    /\ runs = [i \in Ids |-> NoRun]
    /\ ready = Sources
    /\ leases = [l \in LeaseNames |-> None]
    /\ proc = [p \in Procs |-> Idle]
    /\ waiting = Sources
    /\ faults = 0 /\ manual = 0

-----------------------------------------------------------------------------
\* _connector_plan: the sources whose steps did not complete.
Unresolved(i) ==
    IF runs[i].status = "recoverable"
    THEN {s \in Sources : runs[i].steps[s] = "recoverable"} ELSE {}

\* canRetry, with the sources that are ready by now.
Retryable(i) == Unresolved(i) \cap ready # {}

\* Mutant: the last retry is never made.
Exhausted_Early(i) == runs[i].depth + 1 >= MaxRetries
Exhausted(i) == runs[i].depth >= MaxRetries

\* LocalWorkflowRecoveryScheduler.plan.
Due(table) ==
    {i \in Ids : /\ \E s \in ready : table[i].steps[s] = "recoverable"
                 /\ table[i].status = "recoverable"
                 /\ table[i].ripe /\ ~ Exhausted(i)}
HeldBack(table) ==
    {s \in Sources : \E i \in Ids : /\ table[i].status = "recoverable"
                                    /\ table[i].steps[s] = "recoverable"}

\* _finalize_interrupted_runs: steps that ran have failed, those that were
\* not created stay out of the run.
Interrupted(i) ==
    runs[i].status = "running" /\ runs[i].ripe /\ leases[Intake] = None
Finalized ==
    [i \in Ids |->
        IF ~ Interrupted(i) THEN runs[i]
        ELSE [runs[i] EXCEPT
                !.status = "recoverable", !.ripe = FALSE,
                !.steps = [s \in Sources |->
                            IF runs[i].steps[s] = "running" THEN "recoverable"
                            ELSE runs[i].steps[s]]]]

Free(i) == runs[i].status = None /\ \A p \in Procs : proc[p].run # i

-----------------------------------------------------------------------------
\* The pass begins with the recoveries; a busy scheduler answers
\* already_running, with nothing held back.
Recover(p) ==
    /\ proc[p].at = "idle"
    /\ IF p = Worker THEN UNCHANGED manual
                     ELSE manual < MaxManual /\ manual' = manual + 1
    /\ IF leases[Scheduler] # None
       THEN /\ proc' = [proc EXCEPT ![p].at = IF p = Worker THEN "intake"
                                                            ELSE "idle"]
            /\ UNCHANGED <<runs, leases>>
       ELSE /\ leases' = [leases EXCEPT ![Scheduler] = p]
            /\ runs' = Finalized
            /\ proc' = [proc EXCEPT ![p].at = "retry",
                                    ![p].due = Due(Finalized),
                                    ![p].held = HeldBack(Finalized)]
    /\ UNCHANGED <<ready, waiting, faults>>

\* The next recovery that is due, or the end of the stage.
NextRetry(p) ==
    /\ proc[p].at = "retry"
    /\ IF proc[p].due = {}
       THEN /\ leases' = [l \in LeaseNames |->
                            IF l = Scheduler /\ leases[l] = p THEN None
                            ELSE leases[l]]
            /\ proc' = [proc EXCEPT
                    ![p] = IF p = Worker
                           THEN [Idle EXCEPT !.at = "intake", !.held = proc[p].held]
                           ELSE Idle]
       ELSE \E i \in proc[p].due :
            IF Retryable(i) /\ leases[i] = None
            THEN /\ leases' = [leases EXCEPT ![i] = p]
                 /\ proc' = [proc EXCEPT ![p].due = @ \ {i},
                                         ![p].retry = i,
                                         ![p].at = "planned"]
            ELSE /\ proc' = [proc EXCEPT ![p].due = @ \ {i}]
                 /\ UNCHANGED leases
    /\ UNCHANGED <<runs, ready, waiting, faults, manual>>

\* An operator retries a run on the dashboard.
RetryByHand(p, i) ==
    /\ p \in Threads
    /\ proc[p].at = "idle"
    /\ manual < MaxManual /\ manual' = manual + 1
    /\ Retryable(i) /\ leases[i] = None
    /\ leases' = [leases EXCEPT ![i] = p]
    /\ proc' = [proc EXCEPT ![p].retry = i, ![p].at = "planned"]
    /\ UNCHANGED <<runs, ready, waiting, faults>>

\* Under the lease of the run the plan is made again.
Replan(p) ==
    LET i == proc[p].retry IN
    /\ proc[p].at = "planned"
    /\ proc' = [proc EXCEPT ![p].at = IF Retryable(i) THEN "begin" ELSE "end",
                            ![p].sync = Unresolved(i) \cap ready]
    /\ UNCHANGED <<runs, ready, leases, waiting, faults, manual>>

\* The ordinary sync leaves out what is held back.
Collect(p) ==
    /\ proc[p].at = "intake"
    /\ proc' = [proc EXCEPT
            ![p] = IF ready \ @.held = {} THEN Idle
                   ELSE [Idle EXCEPT !.at = "begin",
                                     !.sync = ready \ proc[p].held]]
    /\ UNCHANGED <<runs, ready, leases, waiting, faults, manual>>

\* An operator syncs sources, also such as are held back or not ready.
CollectByHand(p, S) ==
    /\ p \in Threads
    /\ proc[p].at = "idle"
    /\ manual < MaxManual /\ manual' = manual + 1
    /\ S # {}
    /\ proc' = [proc EXCEPT ![p].at = "begin", ![p].sync = S]
    /\ UNCHANGED <<runs, ready, leases, waiting, faults>>

\* sync: the lease, then the run; the recovery of a run takes its place.
Begin(p) ==
    LET i == proc[p].retry IN
    /\ proc[p].at = "begin"
    /\ IF leases[Intake] # None
       THEN /\ proc' = [proc EXCEPT ![p].at = "end"]
            /\ UNCHANGED <<runs, leases>>
       ELSE \E new \in Ids :
            /\ Free(new) /\ \A j \in 1..(new - 1) : ~ Free(j)
            /\ leases' = [leases EXCEPT ![Intake] = p]
            /\ runs' = [j \in Ids |->
                    IF j = new
                    THEN [NoRun EXCEPT !.status = "running",
                            !.depth = IF i = 0 THEN 0 ELSE runs[i].depth + 1]
                    ELSE IF j = i THEN NoRun ELSE runs[j]]
            /\ proc' = [proc EXCEPT ![p].at = "steps", ![p].run = new]
    /\ UNCHANGED <<ready, waiting, faults, manual>>

\* A run that was taken for interrupted may have been replaced.
Mark(i, s, status) ==
    IF runs[i].status = None THEN runs
    ELSE [runs EXCEPT ![i].steps[s] = status]

BeginStep(p) ==
    /\ proc[p].at = "steps" /\ proc[p].step = None
    /\ \E s \in proc[p].sync :
        /\ proc' = [proc EXCEPT ![p].step = s, ![p].sync = @ \ {s}]
        /\ runs' = Mark(proc[p].run, s, "running")
    /\ UNCHANGED <<ready, leases, waiting, faults, manual>>

\* _sync_source: completed, failed, or skipped if the source is not ready; a
\* failure may be that the authorisation is gone.
EndStep(p) ==
    LET s == proc[p].step IN
    /\ proc[p].at = "steps" /\ s # None
    /\ proc' = [proc EXCEPT ![p].step = None]
    /\ \/ /\ s \in ready
          /\ runs' = Mark(proc[p].run, s, "completed")
          /\ waiting' = waiting \ {s}
          /\ UNCHANGED <<ready, faults>>
       \/ /\ s \notin ready
          /\ runs' = Mark(proc[p].run, s, "recoverable")
          /\ UNCHANGED <<ready, waiting, faults>>
       \/ /\ s \in ready
          /\ faults < MaxFaults /\ faults' = faults + 1
          /\ runs' = Mark(proc[p].run, s, "recoverable")
          /\ ready' \in {ready, ready \ {s}}
          /\ UNCHANGED waiting
    /\ UNCHANGED <<leases, manual>>

\* The run gets its status; a completed one interests nobody any more.
EndRun(p) ==
    LET i == proc[p].run IN
    /\ proc[p].at = "steps" /\ proc[p].step = None /\ proc[p].sync = {}
    /\ runs' = IF runs[i].status = None THEN runs
               ELSE IF \A s \in Sources : runs[i].steps[s] \in {None, "completed"}
               THEN [runs EXCEPT ![i] = NoRun]
               ELSE [runs EXCEPT ![i].status = "recoverable",
                                 ![i].ripe = FALSE]
    /\ leases' = [l \in LeaseNames |->
                    IF l = Intake /\ leases[l] = p THEN None ELSE leases[l]]
    /\ proc' = [proc EXCEPT ![p].at = "end", ![p].run = 0]
    /\ UNCHANGED <<ready, waiting, faults, manual>>

\* retry gives its lease back and the scheduler goes on; the ordinary sync
\* ends the pass.
End(p) ==
    /\ proc[p].at = "end"
    /\ leases' = [l \in LeaseNames |->
                    IF l = proc[p].retry /\ leases[l] = p THEN None
                    ELSE leases[l]]
    /\ proc' = [proc EXCEPT
            ![p] = IF leases[Scheduler] = p /\ proc[p].retry # 0
                   THEN [@ EXCEPT !.at = "retry", !.retry = 0, !.sync = {}]
                   ELSE Idle]
    /\ UNCHANGED <<runs, ready, waiting, faults, manual>>

-----------------------------------------------------------------------------
Ripen(i) ==
    /\ runs[i].status # None /\ ~ runs[i].ripe
    /\ runs' = [runs EXCEPT ![i].ripe = TRUE]
    /\ UNCHANGED <<ready, leases, proc, waiting, faults, manual>>

\* The leases of a process that died run out.
Expire(l) ==
    /\ leases[l] = Lost
    /\ leases' = [leases EXCEPT ![l] = None]
    /\ UNCHANGED <<runs, ready, proc, waiting, faults, manual>>

\* A process dies; the worker is started again.
Die(p) ==
    /\ proc[p].at \notin {"idle", "dead"}
    /\ faults < MaxFaults /\ faults' = faults + 1
    /\ proc' = [proc EXCEPT ![p] = [Idle EXCEPT !.at = "dead"]]
    /\ leases' = [l \in LeaseNames |-> IF leases[l] = p THEN Lost
                                                         ELSE leases[l]]
    /\ UNCHANGED <<runs, ready, waiting, manual>>

Restart(p) ==
    /\ proc[p].at = "dead"
    /\ proc' = [proc EXCEPT ![p] = Idle]
    /\ UNCHANGED <<runs, ready, leases, waiting, faults, manual>>

\* The operator signs in again.
Authorize(s) ==
    /\ s \notin ready
    /\ ready' = ready \cup {s}
    /\ UNCHANGED <<runs, leases, proc, waiting, faults, manual>>

Arrive(s) ==
    /\ waiting' = waiting \cup {s}
    /\ waiting' # waiting
    /\ UNCHANGED <<runs, ready, leases, proc, faults, manual>>

Proceed(p) ==
    \/ NextRetry(p) \/ Replan(p) \/ Collect(p) \/ Begin(p)
    \/ BeginStep(p) \/ EndStep(p) \/ EndRun(p) \/ End(p) \/ Restart(p)

Next ==
    \/ \E p \in Procs : Recover(p) \/ Proceed(p) \/ Die(p)
    \/ \E p \in Threads :
        \/ \E i \in Ids : RetryByHand(p, i)
        \/ \E S \in SUBSET Sources : CollectByHand(p, S)
    \/ \E i \in Ids : Ripen(i)
    \/ \E l \in LeaseNames : Expire(l)
    \/ \E s \in Sources : Authorize(s) \/ Arrive(s)

\* The worker goes from pass to pass, threads finish what they began, clocks
\* run, and an operator who is asked to sign in does.
Spec ==
    /\ Init /\ [][Next]_vars
    /\ WF_vars(Recover(Worker))
    /\ \A p \in Procs : WF_vars(Proceed(p))
    /\ \A i \in Ids : WF_vars(Ripen(i))
    /\ WF_vars(\E l \in LeaseNames : Expire(l))
    /\ WF_vars(\E s \in Sources : Authorize(s))

-----------------------------------------------------------------------------
\* What waits at a connector is collected in the end, as long as no more goes
\* wrong than one chain of retries allows for: a failed sync, a lost
\* authorisation, a process that dies in a sync, in a recovery or between,
\* recoveries that are started twice, and leases that outlive their holders
\* only hold a source back for a time, and the recovery that it waits for is
\* never lost with the run that it belongs to.
\* (LocalWorkflowRecoveryScheduler.plan, FabWorker._sync_source_connectors)
SourcesCollected == \A s \in Sources : s \in waiting ~> s \notin waiting
=============================================================================
