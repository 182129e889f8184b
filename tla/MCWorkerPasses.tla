---------------------------- MODULE MCWorkerPasses --------------------------
(***************************************************************************)
(* What the background worker has to get done in the end.  It comes back   *)
(* to its stages pass after pass, and three of them have to make progress  *)
(* against failures, deaths and the API: the archive stage, which is       *)
(* DriveWaveDelivery, the collection from connectors with the recovery of  *)
(* failed collections, which is SourceRecovery, and the execution of       *)
(* approved attempts, which is ExportAttempts.  They share no rows that    *)
(* the modules speak of: a behaviour is one of a single stage, and the     *)
(* others stay as they are.                                                *)
(***************************************************************************)
EXTENDS DriveWaveDelivery

CONSTANTS
    Sources,            \* of the intake
    Attempts            \* of the export

VARIABLES
    focus,              \* the stage that is at work
    \* SourceRecovery
    runs, ready, leases, syncing, waiting, failures, manual,
    \* ExportAttempts
    row, source, route, record, reviews, handlers, deaths, approvals, claims,
    requeues, handed, artifact, approvedRevs, attested

intakeVars == <<runs, ready, leases, syncing, waiting, failures, manual>>
exportVars == <<row, source, route, record, reviews, handlers, deaths,
                approvals, claims, requeues, handed, artifact, approvedRevs,
                attested>>
passVars == <<focus, vars, intakeVars, exportVars>>

Intake == INSTANCE SourceRecovery WITH
    proc <- syncing, faults <- failures,
    MaxRetries <- 1, MaxRuns <- 3, MaxFaults <- 1, MaxManual <- 1

Export == INSTANCE ExportAttempts WITH
    proc <- handlers, crashes <- deaths,
    MaxEdits <- 1, MaxApprovals <- 2, MaxClaims <- 2, MaxCrashes <- 0

PassInit ==
    /\ focus \in {"archive", "intake", "export"}
    /\ Init /\ Intake!Init /\ Export!Init
    /\ focus # "archive" => \A d \in Docs : gated[d]
    /\ focus # "export" =>
        \A a \in Attempts : route[a] = CHOOSE r \in Export!Routes : TRUE

Archiving == focus = "archive" /\ UNCHANGED <<focus, intakeVars, exportVars>>
Collecting == focus = "intake" /\ UNCHANGED <<focus, vars, exportVars>>
Exporting == focus = "export" /\ UNCHANGED <<focus, vars, intakeVars>>

\* A bound: handlers overlap up to the first claim while the facts stay as
\* they are; else one is at work at a time, and facts and gates change.
Overlap ==
    \/ Cardinality({p \in Procs : ~ Export!Idle(p)}) <= 1
    \/ \A a \in Attempts : source[a] = 0 /\ ~ route[a].blocked
                             /\ approvals[a] <= 1 /\ claims[a] <= 1

PassNext ==
    \/ Archiving /\ Next
    \/ Collecting /\ Intake!Next
    \/ Exporting /\ Export!Next /\ Overlap'

\* The fairness of DriveWaveDelivery!FairSpec, of SourceRecovery!Spec and of
\* ExportAttempts!FairSpec.
PassSpec ==
    /\ PassInit /\ [][PassNext]_passVars
    /\ \A p \in Procs :
        /\ WF_passVars(Archiving /\ Proceed(p))
        /\ WF_passVars(Collecting /\ Intake!Proceed(p))
        /\ WF_passVars(Exporting /\ Export!Proceed(p))
    /\ \A d \in Docs :
        /\ WF_passVars(Archiving /\ Expire(d) /\ lease[d].owner = "dead")
        /\ SF_passVars(Archiving /\ \E p \in Threads : AnswerWorkOrder(p, d))
        /\ SF_passVars(Archiving /\ ArchiveReady(d))
    /\ WF_passVars(Collecting /\ Intake!Recover(Worker))
    /\ \A i \in Intake!Ids : WF_passVars(Collecting /\ Intake!Ripen(i))
    /\ WF_passVars(Collecting /\ \E l \in Intake!LeaseNames : Intake!Expire(l))
    /\ WF_passVars(Collecting /\ \E s \in Sources : Intake!Authorize(s))

\* DriveWaveDelivery: documents whose gates stay open are archived.
DeliveryDone == focus = "archive" => Delivered

\* SourceRecovery: what waits at a connector is collected.
SourcesCollected == focus = "intake" => Intake!SourcesCollected

\* ExportAttempts: an attempt in execution leaves that status.
ClaimsResolve == focus = "export" => Export!ClaimsResolve
=============================================================================
