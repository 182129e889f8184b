--------------------------- MODULE ReceiptExecutor --------------------------
(***************************************************************************)
(* Work orders of the supervised browser that uploads receipts to Wave:    *)
(* LocalWaveReceiptExecutorService over its state file and the leases      *)
(* wave-receipt-execution:<document> in the runtime_leases table.          *)
(*                                                                         *)
(* A process is a thread of the API server that handles one call of an     *)
(* executor session.  The state file is read at the start of a call and    *)
(* written whole at its end; nothing locks it in between.  A session may   *)
(* fall silent, another one may then register in its place, and the server *)
(* may die in the middle of a call.                                        *)
(*                                                                         *)
(* Not modelled: a disabled coordinator, a wrong business and missing      *)
(* capabilities, which refuse every call; the order of the work list.      *)
(***************************************************************************)
EXTENDS Integers, FiniteSets

CONSTANTS
    Sessions,   \* executor sessions
    Docs,       \* documents with a claimable work order
    Threads,    \* threads of the API server
    MaxCalls,   \* bound: calls by the sessions
    MaxLapses,  \* bound: times a session is silent past the heartbeat
    MaxCrashes  \* bound: deaths of the server

VARIABLES
    state,      \* the state file
    lease,      \* the runtime lease of each document
    proc,       \* the call that each thread handles
    order,      \* the work order that each session's browser is working on
    calls, lapses, crashes,
    \* Observation: sessions whose lease ran out while they were working
    late

vars == <<state, lease, proc, order, calls, lapses, crashes, late>>
bounds == <<calls, lapses, crashes>>

None == "none"

NoState == [session |-> None, status |-> None, doc |-> None, fresh |-> FALSE]
States == [session : Sessions, status : {"ready", "busy", "error"},
           doc : Docs \cup {None}, fresh : BOOLEAN]

\* "error" stands for authentication_required, error and stopped.
SessionState(s, status, d) ==
    [session |-> s, status |-> status, doc |-> d, fresh |-> TRUE]

Unheld == [owner |-> None, live |-> FALSE]

Idle == [op |-> None, at |-> "idle", session |-> None, status |-> None,
         doc |-> None, todo |-> {}]

TypeOK ==
    /\ state \in States \cup {NoState}
    /\ lease \in [Docs -> [owner : Sessions \cup {None}, live : BOOLEAN]]
    /\ proc \in [Threads ->
                    [op : {None, "register", "claim", "release", "disconnect"},
                     at : {"idle", "load", "lease", "write"},
                     session : Sessions \cup {None},
                     status : {None, "ready", "busy", "error"},
                     doc : Docs \cup {None}, todo : SUBSET Docs]]
    /\ order \in [Sessions -> Docs \cup {None}]
    /\ late \subseteq Sessions

Init ==
    /\ state = NoState
    /\ lease = [d \in Docs |-> Unheld]
    /\ proc = [t \in Threads |-> Idle]
    /\ order = [s \in Sessions |-> None]
    /\ calls = 0 /\ lapses = 0 /\ crashes = 0
    /\ late = {}

Calling(s) == \E t \in Threads : proc[t].session = s

(***************************************************************************)
(* The sessions.  One that works on a document sends busy heartbeats for   *)
(* it or asks for its release; one that does not registers, claims,        *)
(* releases what it is told it still holds, or leaves.  Asking for the     *)
(* release is the end of the work.  A session waits for its answers, until *)
(* the server dies.                                                        *)
(***************************************************************************)
Call(t, s, op, status, d) ==
    /\ proc[t] = Idle /\ ~Calling(s)
    /\ calls < MaxCalls
    /\ calls' = calls + 1
    /\ proc' = [proc EXCEPT ![t] =
                    [Idle EXCEPT !.op = op, !.at = "load", !.session = s,
                                 !.status = status, !.doc = d]]
    /\ UNCHANGED <<state, lease, lapses, crashes>>

StopsWorking(s) ==
    /\ order' = [order EXCEPT ![s] = None]
    /\ late' = late \ {s}

SessionCalls(t, s) ==
    \/ /\ order[s] = None
       /\ \/ \E status \in {"ready", "error"} :
                Call(t, s, "register", status, None)
          \/ Call(t, s, "claim", "busy", None)
       /\ UNCHANGED <<order, late>>
    \/ /\ order[s] # None
       /\ Call(t, s, "register", "busy", order[s])
       /\ UNCHANGED <<order, late>>
    \/ \E d \in Docs, status \in {"ready", "error"} :
            /\ order[s] \in {d, None}
            /\ Call(t, s, "release", status, d)
            /\ StopsWorking(s)
    \/ Call(t, s, "disconnect", None, None) /\ StopsWorking(s)

(***************************************************************************)
(* The handlers.                                                           *)
(***************************************************************************)
Unanswered(t) == proc' = [proc EXCEPT ![t] = Idle]

\* A session whose call is refused works on nothing any more.
Refuse(t) == Unanswered(t) /\ StopsWorking(proc[t].session)

Continue(t, at) ==
    proc' = [proc EXCEPT ![t].at = at] /\ UNCHANGED <<order, late>>

MayRegister(c) ==
    LET same == state.session = c.session
        claimed == same /\ state.status = "busy"
    IN
    /\ same \/ ~state.fresh \/ state.status = "error"
    /\ IF claimed THEN c.status = "busy" /\ c.doc = state.doc
                  ELSE c.status # "busy"

LoadRegister(t) ==
    LET c == proc[t] IN
    /\ c.op = "register" /\ c.at = "load"
    /\ \/ ~MayRegister(c) /\ Refuse(t)
       \/ /\ MayRegister(c)
          /\ Continue(t, IF c.status = "busy" THEN "lease" ELSE "write")
    /\ UNCHANGED <<state, lease, bounds>>

Acquirable(d, s) == lease[d].owner \in {None, s} \/ ~lease[d].live

Renew(t) ==
    LET c == proc[t] IN
    /\ c.op = "register" /\ c.at = "lease"
    /\ \/ ~Acquirable(c.doc, c.session) /\ Refuse(t) /\ UNCHANGED lease
       \/ /\ Acquirable(c.doc, c.session)
          /\ lease' = [lease EXCEPT ![c.doc] = [owner |-> c.session,
                                                live |-> TRUE]]
          /\ Continue(t, "write")
    /\ UNCHANGED <<state, bounds>>

\* The work list holds any of the documents.
LoadClaim(t) ==
    LET c == proc[t] IN
    /\ c.op = "claim" /\ c.at = "load"
    /\ IF state.session = c.session /\ state.fresh /\ state.status = "ready"
       THEN /\ \E listed \in SUBSET Docs :
                    proc' = [proc EXCEPT ![t].at = "lease", ![t].todo = listed]
            /\ UNCHANGED <<order, late>>
       ELSE Refuse(t)
    /\ UNCHANGED <<state, lease, bounds>>

\* Mutant: a document whose session has been replaced is free.
Claimable_Orphaned(d, s) == lease[d].owner # state.session \/ Acquirable(d, s)
Claimable(d, s) == Acquirable(d, s)

TryClaim(t) ==
    LET c == proc[t] IN
    /\ c.op = "claim" /\ c.at = "lease"
    /\ \/ c.todo = {} /\ Refuse(t) /\ UNCHANGED lease
       \/ \E d \in c.todo :
            \/ /\ Claimable(d, c.session)
               /\ lease' = [lease EXCEPT ![d] = [owner |-> c.session,
                                                 live |-> TRUE]]
               /\ proc' = [proc EXCEPT ![t].at = "write", ![t].doc = d,
                                       ![t].todo = {}]
               /\ UNCHANGED <<order, late>>
            \/ /\ ~Claimable(d, c.session)
               /\ proc' = [proc EXCEPT ![t].todo = @ \ {d}]
               /\ UNCHANGED <<lease, order, late>>
    /\ UNCHANGED <<state, bounds>>

Releasable(c) ==
    /\ state.session = c.session
    /\ state.status = "busy" /\ state.doc = c.doc

LoadRelease(t) ==
    /\ proc[t].op = "release" /\ proc[t].at = "load"
    /\ IF Releasable(proc[t]) THEN Continue(t, "lease") ELSE Refuse(t)
    /\ UNCHANGED <<state, lease, bounds>>

\* A disconnect releases the document that the file names.
LoadDisconnect(t) ==
    LET c == proc[t] IN
    /\ c.op = "disconnect" /\ c.at = "load"
    /\ IF state.session = c.session
       THEN /\ proc' = [proc EXCEPT
                    ![t].at = IF state.doc = None THEN "write" ELSE "lease",
                    ![t].doc = state.doc]
            /\ UNCHANGED <<order, late>>
       ELSE Refuse(t)
    /\ UNCHANGED <<state, lease, bounds>>

FreeLease(t) ==
    LET c == proc[t] IN
    /\ c.op \in {"release", "disconnect"} /\ c.at = "lease"
    /\ lease' = [lease EXCEPT ![c.doc] = IF @.owner = c.session THEN Unheld
                                         ELSE @]
    /\ Continue(t, "write")
    /\ UNCHANGED <<state, bounds>>

\* The whole file is replaced by what the handler made of its copy.
Write(t) ==
    LET c == proc[t] IN
    /\ c.at = "write"
    /\ state' = CASE c.op = "disconnect" -> NoState
                  [] c.op = "release" -> SessionState(c.session, c.status, None)
                  [] OTHER -> SessionState(c.session, c.status, c.doc)
    /\ order' = IF c.op = "claim" THEN [order EXCEPT ![c.session] = c.doc]
                                  ELSE order
    /\ Unanswered(t)
    /\ UNCHANGED <<lease, late, bounds>>

Handle(t) ==
    \/ LoadRegister(t) \/ Renew(t) \/ LoadClaim(t) \/ TryClaim(t)
    \/ LoadRelease(t) \/ LoadDisconnect(t) \/ FreeLease(t) \/ Write(t)

(***************************************************************************)
(* Time and failure.                                                       *)
(***************************************************************************)

\* The registered session is silent for wave_receipt_executor_heartbeat_ttl.
Lapse ==
    /\ lapses < MaxLapses
    /\ state.fresh /\ ~Calling(state.session)
    /\ lapses' = lapses + 1
    /\ state' = [state EXCEPT !.fresh = FALSE]
    /\ UNCHANGED <<lease, proc, order, calls, crashes, late>>

\* A lease that nobody renews runs out; it is longer than the heartbeat.
Expire(d) ==
    LET s == lease[d].owner IN
    /\ lease[d].live /\ ~Calling(s)
    /\ ~(state.session = s /\ state.fresh /\ state.doc = d)
    /\ lease' = [lease EXCEPT ![d].live = FALSE]
    /\ late' = IF order[s] = d THEN late \cup {s} ELSE late
    /\ UNCHANGED <<state, proc, order, bounds>>

\* The server dies; no call is answered, the file and the leases stay.
Crash ==
    /\ crashes < MaxCrashes
    /\ \E t \in Threads : proc[t] # Idle
    /\ crashes' = crashes + 1
    /\ proc' = [t \in Threads |-> Idle]
    /\ UNCHANGED <<state, lease, order, calls, lapses, late>>

Next ==
    \/ \E t \in Threads, s \in Sessions : SessionCalls(t, s)
    \/ \E t \in Threads : Handle(t)
    \/ Lapse
    \/ \E d \in Docs : Expire(d)
    \/ Crash

Spec == Init /\ [][Next]_vars

(***************************************************************************)
(* Properties.                                                             *)
(***************************************************************************)

\* Two browsers never work on one document (which would attach the receipt
\* twice) unless one of them has been silent for longer than its lease.
ExclusiveOrder ==
    \A a, b \in Sessions :
        a # b /\ order[a] # None /\ order[a] = order[b]
            => a \in late \/ b \in late
=============================================================================
