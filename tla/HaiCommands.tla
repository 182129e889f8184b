----------------------------- MODULE HaiCommands ----------------------------
(***************************************************************************)
(* Commands of the HAI connector: HaiConnectorService.execute over the     *)
(* audit_events and runtime_leases tables.                                 *)
(*                                                                         *)
(* A process is a thread of the local API server that handles one          *)
(* delivery of a request.  A caller may deliver the same request id again, *)
(* also while the first delivery is handled, after the server died in the  *)
(* middle of it, or with another command.  Every action is one ledger      *)
(* transaction or the command itself.                                      *)
(***************************************************************************)
EXTENDS Integers, FiniteSets

CONSTANTS
    Requests,       \* request ids
    Contracts,      \* commands with their normalized payloads
    Secretive,      \* those whose payload the ledger redacts when it stores it
    Procs,          \* threads of the API server
    MaxDeliveries,  \* bound: deliveries by the caller
    MaxFaults,      \* bound: ledger calls that fail
    MaxCrashes      \* bound: deaths of the server

VARIABLES
    events,     \* per request id: its requested, completed and failed event
    lease,      \* per request id: the runtime lease hai_command:<id>
    proc,       \* the delivery that each thread handles
    runs,       \* how often a command was started under the request id
    deliveries, faults, crashes,
    \* Observations, never read by the code's guards:
    bound,      \* the contract whose request was recorded
    answers,    \* the answers given
    outlived    \* a command has run for longer than its lease

vars == <<events, lease, proc, runs, deliveries, faults, crashes, bound,
          answers, outlived>>

None == "none"

\* record_audit_event stores the redacted payload, and every later comparison
\* is made with what was stored.
Stored(c) == IF c \in Secretive THEN "redacted" ELSE c
Entries == {Stored(c) : c \in Contracts}

Idle == [at |-> "idle", req |-> None, contract |-> None, stage |-> "first",
         answer |-> None]

LedgerPCs == {"completed", "failed", "acquire", "requested", "record",
              "outcome", "failure", "release"}
PCs == LedgerPCs \cup {"idle", "plan", "run"}

Statuses ==
    {"completed", "already_executed", "failed", "previously_failed",
     "idempotency_conflict", "execution_indeterminate",
     "execution_in_progress", "blocked"}

Unheld == [owner |-> "nobody", live |-> FALSE]

TypeOK ==
    /\ events \in [Requests -> [requested : Entries \cup {None},
                                completed : Entries \cup {None},
                                failed : Entries \cup {None}]]
    /\ lease \in [Requests -> [owner : Procs \cup {"nobody", "dead"},
                               live : BOOLEAN]]
    /\ proc \in [Procs -> [at : PCs, req : Requests \cup {None},
                           contract : Contracts \cup {None},
                           stage : {"first", "busy", "leased"},
                           answer : Statuses \cup {None, "error"}]]
    /\ runs \in [Requests -> 0..MaxDeliveries]
    /\ deliveries \in 0..MaxDeliveries
    /\ faults \in 0..MaxFaults
    /\ crashes \in 0..MaxCrashes
    /\ bound \in [Requests -> Contracts \cup {None}]
    /\ answers \subseteq [req : Requests, contract : Contracts,
                          status : Statuses]
    /\ outlived \in BOOLEAN

Init ==
    /\ events = [r \in Requests |-> [requested |-> None, completed |-> None,
                                     failed |-> None]]
    /\ lease = [r \in Requests |-> Unheld]
    /\ proc = [p \in Procs |-> Idle]
    /\ runs = [r \in Requests |-> 0]
    /\ deliveries = 0 /\ faults = 0 /\ crashes = 0
    /\ bound = [r \in Requests |-> None]
    /\ answers = {}
    /\ outlived = FALSE

Goto(p, pc) == proc' = [proc EXCEPT ![p].at = pc]

\* Under the lease every return passes through the finally clause.
Return(p, status) ==
    IF proc[p].stage = "leased"
    THEN /\ proc' = [proc EXCEPT ![p].at = "release", ![p].answer = status]
         /\ UNCHANGED answers
    ELSE /\ proc' = [proc EXCEPT ![p] = Idle]
         /\ answers' = answers \cup {[req |-> proc[p].req,
                                      contract |-> proc[p].contract,
                                      status |-> status]}

AllButProc == <<events, lease, runs, deliveries, faults, crashes, bound,
                outlived>>

\* The caller delivers a request that passes the checks of its form.
Deliver(p, r, c) ==
    /\ proc[p].at = "idle"
    /\ deliveries < MaxDeliveries
    /\ deliveries' = deliveries + 1
    /\ proc' = [proc EXCEPT ![p] = [Idle EXCEPT !.at = "completed",
                                                !.req = r, !.contract = c]]
    /\ UNCHANGED <<events, lease, runs, faults, crashes, bound, answers,
                   outlived>>

\* Mutant: a recorded outcome is answered to whatever is asked under its id.
AnswerFrom_Unbound(p, entry, status) == Return(p, status)
AnswerFrom(p, entry, status) ==
    Return(p, IF entry # proc[p].contract THEN "idempotency_conflict"
                                          ELSE status)

LookCompleted(p) ==
    /\ proc[p].at = "completed"
    /\ LET entry == events[proc[p].req].completed IN
        \/ entry # None /\ AnswerFrom(p, entry, "already_executed")
        \/ entry = None /\ Goto(p, "failed") /\ UNCHANGED answers
    /\ UNCHANGED AllButProc

AfterLookup(p) ==
    CASE proc[p].stage = "first" -> Goto(p, "plan") /\ UNCHANGED answers
      [] proc[p].stage = "busy" -> Return(p, "execution_in_progress")
      [] OTHER -> Goto(p, "requested") /\ UNCHANGED answers

LookFailed(p) ==
    /\ proc[p].at = "failed"
    /\ LET entry == events[proc[p].req].failed IN
        \/ entry # None /\ AnswerFrom(p, entry, "previously_failed")
        \/ entry = None /\ AfterLookup(p)
    /\ UNCHANGED AllButProc

\* Maintenance, a disabled connector, the allow list or a missing executor
\* block the command; all of them come from the server's configuration.
Plan(p) ==
    /\ proc[p].at = "plan"
    /\ \/ Goto(p, "acquire") /\ UNCHANGED answers
       \/ Return(p, "blocked")
    /\ UNCHANGED AllButProc

\* Mutant: an owner that looks finished is overtaken.
Acquirable_Always(r) == TRUE
Acquirable(r) == lease[r].owner = "nobody" \/ ~lease[r].live

Acquire(p) ==
    LET r == proc[p].req IN
    /\ proc[p].at = "acquire"
    /\ IF Acquirable(r)
       THEN /\ lease' = [lease EXCEPT ![r] = [owner |-> p, live |-> TRUE]]
            /\ proc' = [proc EXCEPT ![p].at = "completed",
                                    ![p].stage = "leased"]
       ELSE /\ proc' = [proc EXCEPT ![p].at = "completed",
                                    ![p].stage = "busy"]
            /\ UNCHANGED lease
    /\ UNCHANGED <<events, runs, deliveries, faults, crashes, bound, answers,
                   outlived>>

\* Mutant: the command is run before its request is recorded.
LookRequested_Unrecorded(p) ==
    /\ proc[p].at = "requested"
    /\ LET entry == events[proc[p].req].requested IN
        \/ entry # None /\ AnswerFrom(p, entry, "execution_indeterminate")
        \/ entry = None /\ Goto(p, "run") /\ UNCHANGED answers
    /\ UNCHANGED AllButProc

LookRequested(p) ==
    /\ proc[p].at = "requested"
    /\ LET entry == events[proc[p].req].requested IN
        \/ entry # None /\ AnswerFrom(p, entry, "execution_indeterminate")
        \/ entry = None /\ Goto(p, "record") /\ UNCHANGED answers
    /\ UNCHANGED AllButProc

RecordRequested(p) ==
    LET r == proc[p].req IN
    /\ proc[p].at = "record"
    /\ events' = [events EXCEPT ![r].requested = Stored(proc[p].contract)]
    /\ bound' = [bound EXCEPT ![r] = proc[p].contract]
    /\ Goto(p, "run")
    /\ UNCHANGED <<lease, runs, deliveries, faults, crashes, answers,
                   outlived>>

\* The executor of the command returns a result or raises.
Run(p) ==
    /\ proc[p].at = "run"
    /\ runs' = [runs EXCEPT ![proc[p].req] = @ + 1]
    /\ \/ Goto(p, "outcome")
       \/ Goto(p, "failure")
    /\ UNCHANGED <<events, lease, deliveries, faults, crashes, bound, answers,
                   outlived>>

RecordOutcome(p) ==
    LET entry == Stored(proc[p].contract)
        r == proc[p].req
    IN
    /\ \/ /\ proc[p].at = "outcome"
          /\ events' = [events EXCEPT ![r].completed = entry]
          /\ Return(p, "completed")
       \/ /\ proc[p].at = "failure"
          /\ events' = [events EXCEPT ![r].failed = entry]
          /\ Return(p, "failed")
    /\ UNCHANGED <<lease, runs, deliveries, faults, crashes, bound, outlived>>

Release(p) ==
    LET r == proc[p].req IN
    /\ proc[p].at = "release"
    /\ lease' = [lease EXCEPT ![r] = IF @.owner = p THEN Unheld ELSE @]
    /\ answers' = IF proc[p].answer = "error" THEN answers
                  ELSE answers \cup {[req |-> r, contract |-> proc[p].contract,
                                      status |-> proc[p].answer]}
    /\ proc' = [proc EXCEPT ![p] = Idle]
    /\ UNCHANGED <<events, runs, deliveries, faults, crashes, bound, outlived>>

\* A ledger call raises and writes nothing.  The finally clause still runs,
\* unless it is the release that raises: no later call has that lease's token.
LedgerFails(p) ==
    LET r == proc[p].req IN
    /\ proc[p].at \in LedgerPCs
    /\ faults < MaxFaults
    /\ faults' = faults + 1
    /\ IF proc[p].stage = "leased" /\ proc[p].at # "release"
       THEN /\ proc' = [proc EXCEPT ![p].at = "release",
                                    ![p].answer = "error"]
            /\ UNCHANGED lease
       ELSE /\ proc' = [proc EXCEPT ![p] = Idle]
            /\ lease' = [lease EXCEPT ![r].owner = IF @ = p THEN "dead" ELSE @]
    /\ UNCHANGED <<events, runs, deliveries, crashes, bound, answers, outlived>>

\* The server dies with all its threads; their leases stay.
Crash ==
    /\ crashes < MaxCrashes
    /\ \E p \in Procs : proc[p] # Idle
    /\ crashes' = crashes + 1
    /\ proc' = [p \in Procs |-> Idle]
    /\ lease' = [r \in Requests |->
                    [lease[r] EXCEPT !.owner = IF @ \in Procs THEN "dead"
                                               ELSE @]]
    /\ UNCHANGED <<events, runs, deliveries, faults, bound, answers, outlived>>

\* A lease runs out: nobody holds its token any more, or the command has been
\* running for longer than fab_hai_command_lease_ttl_seconds (at least a
\* minute, by default six hours).
Expire(r) ==
    /\ lease[r].live
    /\ lease[r].owner \in Procs => proc[lease[r].owner].at = "run"
    /\ lease' = [lease EXCEPT ![r].live = FALSE]
    /\ outlived' = (outlived \/ lease[r].owner # "dead")
    /\ UNCHANGED <<events, proc, runs, deliveries, faults, crashes, bound,
                   answers>>

Step(p) ==
    \/ LookCompleted(p) \/ LookFailed(p) \/ Plan(p) \/ Acquire(p)
    \/ LookRequested(p) \/ RecordRequested(p) \/ Run(p) \/ RecordOutcome(p)
    \/ Release(p)

Next ==
    \/ \E p \in Procs, r \in Requests, c \in Contracts : Deliver(p, r, c)
    \/ \E p \in Procs : Step(p) \/ LedgerFails(p)
    \/ Crash
    \/ \E r \in Requests : Expire(r)

Spec == Init /\ [][Next]_vars

(***************************************************************************)
(* Properties.                                                             *)
(***************************************************************************)

\* Two answers under one request id never tell two stories: what completed
\* once was never reported as failed, whoever asked; an outcome is only
\* reported for the contract that was recorded as requested, and a conflict
\* ("requestId is already bound to a different command or payload") only for
\* another one, if its payload is stored as it came.  A delivery is told
\* execution_indeterminate only when the execution before it is over without
\* an outcome ("A prior execution started without a durable outcome"), as long
\* as no command outlives its lease.
AnswersAgree ==
    \A a \in answers :
        /\ a.status \in {"completed", "already_executed"} =>
                ~ \E b \in answers :
                    b.req = a.req /\ b.status \in {"failed", "previously_failed"}
        /\ a.status \in {"already_executed", "previously_failed",
                         "completed", "failed"}
                => a.contract = bound[a.req]
        /\ a.status = "idempotency_conflict" /\ a.contract \notin Secretive
                => a.contract # bound[a.req]
        /\ a.status = "execution_indeterminate" /\ ~outlived =>
                /\ events[a.req].completed = None
                /\ events[a.req].failed = None
                /\ \A p \in Procs : proc[p].req = a.req =>
                        proc[p].at \notin {"run", "outcome", "failure"}

\* test_request_id_is_bound_to_command_and_normalized_payload: a conflict is
\* only answered to another contract than the one that was requested first,
\* whatever its payload.
RequestIdBound ==
    \A a \in answers :
        a.status = "idempotency_conflict" => bound[a.req] # a.contract

(***************************************************************************)
(* The connector implements the journal of RequestJournal: an answer is    *)
(* given some steps after the event it rests on was read, and the events   *)
(* never take back what they said.                                         *)
(***************************************************************************)
Phase(r) ==
    LET e == events[r] IN
    IF e.completed # None THEN "completed"
    ELSE IF e.failed # None THEN "failed"
    ELSE IF runs[r] > 0 THEN "running"
    ELSE IF e.requested # None THEN "bound" ELSE "open"

Journal == INSTANCE RequestJournal WITH
    journal <- [r \in Requests |-> [phase |-> Phase(r),
                                    contract |-> events[r].requested]],
    replies <- answers

\* Delivered twice, at the same time, after a crash or past its lease, a
\* command runs at most once under its request id, the id stays bound to one
\* contract and has at most one outcome.
OneExecutionPerRequest == Journal!Spec
=============================================================================
