-------------------------- MODULE HaiCommands_proofs ------------------------
(***************************************************************************)
(* A command runs at most once under its request id: the proof that the    *)
(* connector implements the request journal, and that its answers agree.   *)
(*                                                                         *)
(* The look at the requested event, and the event that follows, are two    *)
(* transactions.  What makes them one is the lease: it cannot run out      *)
(* before the command runs, and from then on the event itself stops the    *)
(* others.  An answer may be given long after the event it rests on was    *)
(* read; the events never take back what they said.                        *)
(***************************************************************************)
EXTENDS HaiCommands, TLAPS

EventRows == [requested : Entries \cup {None}, completed : Entries \cup {None},
              failed : Entries \cup {None}]
LeaseRows == [owner : Procs \cup {"nobody", "dead"}, live : BOOLEAN]
Deliveries == [at : PCs, req : Requests \cup {None},
               contract : Contracts \cup {None},
               stage : {"first", "busy", "leased"},
               answer : Statuses \cup {None, "error"}]
Answers == [req : Requests, contract : Contracts, status : Statuses]

Types ==
    /\ events \in [Requests -> EventRows]
    /\ lease \in [Requests -> LeaseRows]
    /\ proc \in [Procs -> Deliveries]
    /\ runs \in [Requests -> Nat]
    /\ bound \in [Requests -> Contracts \cup {None}]
    /\ answers \subseteq Answers
    /\ outlived \in BOOLEAN

Executing(p) == proc[p].at \in {"run", "outcome", "failure"}

\* The second look at the events and the decision to run the command.
Deciding(p) ==
    /\ proc[p].at \in {"completed", "failed", "requested", "record"}
    /\ proc[p].stage = "leased"

\* A thread knows what it was asked, and knows under the lease that it is.
Stages ==
    \A p \in Procs :
        /\ proc[p].at # "idle" =>
               proc[p].req \in Requests /\ proc[p].contract \in Contracts
        /\ proc[p].at \in {"requested", "record", "release"} \/ Executing(p) =>
               proc[p].stage = "leased"
        /\ proc[p].at \in {"plan", "acquire"} => proc[p].stage # "leased"
        /\ proc[p].at = "release" => proc[p].answer # None

\* Who decides holds the lease, and so does who runs a command that has not
\* outlived it.
Holds(p) ==
    lease[proc[p].req].owner = p /\ lease[proc[p].req].live

DecidersHold == \A p \in Procs : Deciding(p) => Holds(p)
RunnersHold == ~outlived => \A p \in Procs : Executing(p) => Holds(p)

\* An outcome is one of the contract that was recorded, and of one run.
Recorded ==
    \A r \in Requests :
        LET e == events[r] IN
        /\ e.requested = None =>
               e.completed = None /\ e.failed = None /\ runs[r] = 0
        /\ e.requested # None =>
               bound[r] \in Contracts /\ e.requested = Stored(bound[r])
        /\ e.completed # None =>
               e.completed = e.requested /\ e.failed = None /\ runs[r] = 1
        /\ e.failed # None =>
               e.failed = e.requested /\ e.completed = None /\ runs[r] = 1

\* The command that runs is the recorded one, and has no outcome yet.
RunsRecorded ==
    \A p \in Procs :
        Executing(p) =>
            LET e == events[proc[p].req] IN
            /\ e.requested # None /\ e.completed = None /\ e.failed = None
            /\ bound[proc[p].req] = proc[p].contract
            /\ runs[proc[p].req] = IF proc[p].at = "run" THEN 0 ELSE 1

OneRuns ==
    \A p, q \in Procs :
        p # q /\ Executing(p) /\ Executing(q) => proc[p].req # proc[q].req

\* Nobody else has recorded the request in between.
StillUnrecorded ==
    \A p \in Procs :
        proc[p].at = "record" => events[proc[p].req].requested = None

\* What a thread under the lease has looked for is still not there.
Missed(at, e) ==
    /\ at \in {"failed", "requested"} => e.completed = None
    /\ at = "requested" => e.failed = None

StillMissed ==
    ~outlived =>
        \A p \in Procs :
            proc[p].stage = "leased" => Missed(proc[p].at, events[proc[p].req])

\* What an answer says can be read off the events, for good.
Told(r, c, status) ==
    LET e == events[r] IN
    /\ status \in {"completed", "already_executed"} => e.completed # None
    /\ status \in {"failed", "previously_failed"} => e.failed # None
    /\ status \in {"completed", "already_executed", "failed",
                   "previously_failed"} => c = bound[r]
    /\ status = "idempotency_conflict" =>
           e.requested # None /\ e.requested # c
    /\ status = "execution_indeterminate" =>
           /\ e.requested # None /\ e.requested = c
           /\ ~outlived =>
                  /\ e.completed = None /\ e.failed = None
                  /\ \A p \in Procs : Executing(p) => proc[p].req # r

AnswersTold == \A a \in answers : Told(a.req, a.contract, a.status)
PendingTold ==
    \A p \in Procs :
        proc[p].at = "release" /\ proc[p].answer # "error" =>
            Told(proc[p].req, proc[p].contract, proc[p].answer)

Inv ==
    /\ Types /\ Stages /\ DecidersHold /\ RunnersHold
    /\ Recorded /\ RunsRecorded /\ OneRuns /\ StillUnrecorded /\ StillMissed
    /\ AnswersTold /\ PendingTold

\* No contract is called as a missing or a redacted one is written, and no
\* thread as the owner of a lease that none of them holds.
Names ==
    /\ {None, "redacted"} \cap Contracts = {}
    /\ {"nobody", "dead"} \cap Procs = {}

-----------------------------------------------------------------------------
LEMMA InitInv == Init => Inv
  <1> SUFFICES ASSUME Init PROVE Inv
    OBVIOUS
  <1>1. Idle \in Deliveries
    BY DEF Idle, Deliveries, PCs, None
  <1>2. Unheld \in LeaseRows
    BY DEF Unheld, LeaseRows
  <1>3. Types
    BY <1>1, <1>2 DEF Init, Types, EventRows
  <1>4. Stages /\ DecidersHold /\ RunnersHold /\ RunsRecorded /\ OneRuns
        /\ StillUnrecorded /\ StillMissed /\ PendingTold
    BY DEF Init, Stages, DecidersHold, RunnersHold, RunsRecorded, OneRuns,
           StillUnrecorded, StillMissed, PendingTold, Executing, Deciding, Idle
  <1>5. Recorded /\ AnswersTold
    BY DEF Init, Recorded, AnswersTold
  <1> QED
    BY <1>3, <1>4, <1>5 DEF Inv

\* An answer keeps its ground while the events stay and no command starts.
LEMMA ToldKeeps ==
    ASSUME UNCHANGED <<events, bound>>, outlived => outlived',
           \A q \in Procs :
               Executing(q)' => Executing(q) /\ proc'[q].req = proc[q].req,
           NEW r, NEW c, NEW status, Told(r, c, status)
    PROVE  Told(r, c, status)'
  BY DEF Told

\* A step of a thread that neither records nor runs anything: its call goes
\* on as c, and no other thread loses a lease that it holds.
LEMMA CallGoesOn ==
    ASSUME Inv, NEW p \in Procs, NEW c \in Deliveries,
           proc' = [proc EXCEPT ![p] = c],
           UNCHANGED <<events, runs, bound, outlived>>,
           c.at \notin {"run", "outcome", "failure"},
           c.at # "idle" => c.req \in Requests /\ c.contract \in Contracts,
           c.at \in {"requested", "record", "release"} => c.stage = "leased",
           c.at \in {"plan", "acquire"} => c.stage # "leased",
           c.at = "release" =>
               /\ c.answer # None
               /\ c.answer # "error" => Told(c.req, c.contract, c.answer),
           /\ c.at \in {"completed", "failed", "requested", "record"}
           /\ c.stage = "leased"
           => lease'[c.req].owner = p /\ lease'[c.req].live,
           c.at = "record" => events[c.req].requested = None,
           c.stage = "leased" /\ ~outlived => Missed(c.at, events[c.req]),
           lease' \in [Requests -> LeaseRows],
           \A q \in Procs \ {p} :
               (Deciding(q) \/ Executing(q)) /\ Holds(q) =>
                   lease'[proc[q].req] = lease[proc[q].req],
           answers' \subseteq Answers,
           \A a \in answers' \ answers : Told(a.req, a.contract, a.status)
    PROVE  Inv'
  <1>1. proc'[p] = c /\ \A q \in Procs \ {p} : proc'[q] = proc[q]
    BY DEF Inv, Types
  <1>2. Types'
    BY DEF Inv, Types
  <1>3. \A q \in Procs : Executing(q)' => q # p /\ Executing(q)
    BY <1>1 DEF Executing
  <1>4. Stages'
    BY <1>1 DEF Inv, Stages, Executing
  <1>5. DecidersHold' /\ RunnersHold'
    BY <1>1, <1>3 DEF Inv, DecidersHold, RunnersHold, Deciding, Executing, Holds
  <1>6. Recorded' /\ RunsRecorded' /\ OneRuns' /\ StillUnrecorded'
        /\ StillMissed'
    BY <1>1, <1>3 DEF Inv, Recorded, RunsRecorded, OneRuns, StillUnrecorded,
                      StillMissed, Executing
  <1>7. ASSUME NEW r, NEW d, NEW status, Told(r, d, status)
        PROVE  Told(r, d, status)'
    BY <1>1, <1>3, <1>7, ToldKeeps
  <1>8. AnswersTold'
    BY <1>7 DEF Inv, AnswersTold
  <1>9. PendingTold'
    BY <1>1, <1>7 DEF Inv, PendingTold
  <1> QED
    BY <1>2, <1>4, <1>5, <1>6, <1>8, <1>9 DEF Inv

LEMMA CallType == ASSUME Inv, NEW p \in Procs PROVE proc[p] \in Deliveries
  BY DEF Inv, Types

\* A thread returns from its handler, under the lease through its release.
LEMMA ReturnKeeps ==
    ASSUME Inv, NEW p \in Procs, NEW status \in Statuses,
           proc[p].at # "idle", ~Executing(p), proc[p].at # "release",
           Return(p, status), UNCHANGED AllButProc,
           Told(proc[p].req, proc[p].contract, status)
    PROVE  Inv'
  <1>1. /\ proc[p].req \in Requests /\ proc[p].contract \in Contracts
        /\ lease' \in [Requests -> LeaseRows]
    BY DEF Inv, Stages, Types, AllButProc
  <1>2. CASE proc[p].stage = "leased"
    <2> DEFINE c == [proc[p] EXCEPT !.at = "release", !.answer = status]
    <2>1. proc' = [proc EXCEPT ![p] = c] /\ answers' = answers
      BY <1>2, Zenon DEF Return
    <2>2. c \in Deliveries
      BY CallType DEF Deliveries, PCs, LedgerPCs
    <2>3. /\ c.at = "release" /\ c.answer = status /\ c.stage = "leased"
          /\ c.req = proc[p].req /\ c.contract = proc[p].contract
      BY <1>2, CallType DEF Deliveries
    <2>4. status # None
      BY DEF Statuses, None
    <2> HIDE DEF c
    <2> QED
      BY <1>1, <2>1, <2>2, <2>3, <2>4, CallGoesOn DEF AllButProc, Inv, Types,
                                                      Missed
  <1>3. CASE proc[p].stage # "leased"
    <2> DEFINE a == [req |-> proc[p].req, contract |-> proc[p].contract,
                     status |-> status]
    <2>1. /\ proc' = [proc EXCEPT ![p] = Idle]
          /\ answers' = answers \cup {a}
      BY <1>3 DEF Return
    <2>2. Idle \in Deliveries /\ Idle.at = "idle"
      BY DEF Idle, Deliveries, PCs
    <2>3. /\ a \in Answers
          /\ Told(a.req, a.contract, a.status)
      BY <1>1 DEF Answers
    <2> HIDE DEF a
    <2>4. /\ answers' \subseteq Answers
          /\ \A b \in answers' \ answers : Told(b.req, b.contract, b.status)
      BY <2>1, <2>3 DEF Inv, Types
    <2> QED
      BY <1>1, <2>1, <2>2, <2>4, CallGoesOn DEF AllButProc, Missed
  <1> QED
    BY <1>2, <1>3

\* A thread goes on to a step that neither records nor runs anything.
LEMMA GotoKeeps ==
    ASSUME Inv, NEW p \in Procs,
           NEW pc \in {"failed", "plan", "acquire", "requested", "record"},
           proc[p].at # "idle", Goto(p, pc), UNCHANGED <<answers, AllButProc>>,
           pc \in {"requested", "record"} => proc[p].stage = "leased",
           pc \in {"plan", "acquire"} => proc[p].stage # "leased",
           pc = "record" => events[proc[p].req].requested = None,
           proc[p].stage = "leased" =>
               /\ Holds(p)
               /\ ~outlived => Missed(pc, events[proc[p].req])
    PROVE  Inv'
  <1> DEFINE c == [proc[p] EXCEPT !.at = pc]
  <1>1. proc' = [proc EXCEPT ![p] = c]
    BY Zenon DEF Goto
  <1>2. c \in Deliveries
    BY CallType DEF Deliveries, PCs, LedgerPCs
  <1>3. /\ c.at = pc /\ c.stage = proc[p].stage /\ c.req = proc[p].req
        /\ c.contract = proc[p].contract
    BY CallType DEF Deliveries
  <1>4. /\ proc[p].req \in Requests /\ proc[p].contract \in Contracts
        /\ lease' \in [Requests -> LeaseRows]
        /\ answers' \subseteq Answers /\ answers' \ answers = {}
    BY DEF Inv, Stages, Types, AllButProc
  <1> HIDE DEF c
  <1> QED
    BY <1>1, <1>2, <1>3, <1>4, CallGoesOn DEF AllButProc, Holds

\* What a lookup that finds an entry answers.
LEMMA AnswerFromKeeps ==
    ASSUME Inv, Names, NEW p \in Procs, NEW entry \in Entries,
           NEW status \in {"already_executed", "previously_failed",
                           "execution_indeterminate"},
           proc[p].at \in {"completed", "failed", "requested"},
           AnswerFrom(p, entry, status), UNCHANGED AllButProc,
           entry = events[proc[p].req].requested,
           status = "already_executed" => events[proc[p].req].completed # None,
           status = "previously_failed" => events[proc[p].req].failed # None,
           status = "execution_indeterminate" =>
               proc[p].at = "requested"
    PROVE  Inv'
  <1>1. /\ proc[p].req \in Requests /\ proc[p].contract \in Contracts
        /\ entry # None
    BY DEF Inv, Stages, Types, Names, Entries, Stored, None
  <1>2. entry = Stored(bound[proc[p].req])
    BY <1>1 DEF Inv, Recorded
  <1>3. CASE entry # proc[p].contract
    BY <1>1, <1>3, ReturnKeeps DEF AnswerFrom, Told, Executing, Statuses
  <1>4. CASE entry = proc[p].contract
    <2>1. proc[p].contract = bound[proc[p].req]
      BY <1>1, <1>2, <1>4 DEF Stored, Names
    <2>2. ASSUME status = "execution_indeterminate", ~outlived
          PROVE  /\ events[proc[p].req].completed = None
                 /\ events[proc[p].req].failed = None
                 /\ \A q \in Procs : Executing(q) => proc[q].req # proc[p].req
      <3>1. proc[p].stage = "leased" /\ Deciding(p)
        BY <2>2 DEF Inv, Stages, Deciding
      <3>2. ASSUME NEW q \in Procs, Executing(q)
            PROVE  proc[q].req # proc[p].req
        <4>1. Holds(p) /\ Holds(q) /\ p # q
          BY <2>2, <3>1, <3>2 DEF Inv, DecidersHold, RunnersHold, Executing,
                                  Deciding
        <4> QED
          BY <4>1 DEF Holds
      <3> QED
        BY <2>2, <3>1, <3>2 DEF Inv, StillMissed, Missed
    <2>3. Told(proc[p].req, proc[p].contract, status)
      BY <1>1, <1>4, <2>1, <2>2 DEF Told
    <2> QED
      BY <1>4, <2>3, ReturnKeeps DEF AnswerFrom, Executing, Statuses
  <1> QED
    BY <1>3, <1>4

-----------------------------------------------------------------------------
\* The handlers, one by one.
LEMMA DeliverKeeps ==
    ASSUME Inv, NEW p \in Procs, NEW r \in Requests, NEW d \in Contracts,
           Deliver(p, r, d)
    PROVE  Inv'
  <1> DEFINE c == [Idle EXCEPT !.at = "completed", !.req = r, !.contract = d]
  <1>1. c \in Deliveries /\ c.at = "completed" /\ c.stage = "first"
        /\ c.req = r /\ c.contract = d
    BY DEF Idle, Deliveries, PCs, LedgerPCs
  <1>2. proc' = [proc EXCEPT ![p] = c]
    BY Zenon DEF Deliver
  <1>3. lease' \in [Requests -> LeaseRows] /\ answers' \subseteq Answers
        /\ answers' \ answers = {}
    BY DEF Deliver, Inv, Types
  <1> HIDE DEF c
  <1> QED
    BY <1>1, <1>2, <1>3, CallGoesOn DEF Deliver, Missed

LEMMA LookKeeps ==
    ASSUME Inv, Names, NEW p \in Procs, LookCompleted(p) \/ LookFailed(p)
    PROVE  Inv'
  <1> DEFINE e == events[proc[p].req]
  <1>1. /\ proc[p].req \in Requests /\ e \in EventRows /\ None \notin Entries
        /\ proc[p].stage = "leased" => Holds(p)
    BY DEF LookCompleted, LookFailed, Inv, Stages, DecidersHold, Deciding,
           Types, Names, Entries, Stored, None
  <1>2. CASE LookCompleted(p) /\ e.completed # None
    BY <1>1, <1>2, AnswerFromKeeps DEF LookCompleted, Inv, Recorded, EventRows
  <1>3. CASE LookFailed(p) /\ e.failed # None
    BY <1>1, <1>3, AnswerFromKeeps DEF LookFailed, Inv, Recorded, EventRows
  <1>4. CASE LookCompleted(p) /\ e.completed = None
    BY <1>1, <1>4, GotoKeeps DEF LookCompleted, Missed
  <1>5. CASE LookFailed(p) /\ e.failed = None
    <2>1. AfterLookup(p) /\ UNCHANGED AllButProc /\ proc[p].at = "failed"
      BY <1>5 DEF LookFailed
    <2>2. CASE proc[p].stage = "first"
      BY <1>1, <2>1, <2>2, GotoKeeps DEF AfterLookup
    <2>3. CASE proc[p].stage = "busy"
      BY <1>1, <2>1, <2>3, ReturnKeeps
         DEF AfterLookup, Told, Statuses, Executing
    <2>4. CASE proc[p].stage = "leased"
      BY <1>1, <1>5, <2>1, <2>4, GotoKeeps
         DEF AfterLookup, Inv, StillMissed, Missed
    <2> QED
      BY <2>2, <2>3, <2>4, CallType DEF Deliveries
  <1> QED
    BY <1>2, <1>3, <1>4, <1>5

LEMMA PlanKeeps ==
    ASSUME Inv, NEW p \in Procs, Plan(p)
    PROVE  Inv'
  BY GotoKeeps, ReturnKeeps DEF Plan, Told, Statuses, Executing, Inv, Stages

LEMMA LookRequestedKeeps ==
    ASSUME Inv, Names, NEW p \in Procs, LookRequested(p)
    PROVE  Inv'
  <1> DEFINE e == events[proc[p].req]
  <1>1. /\ proc[p].req \in Requests /\ e \in EventRows /\ None \notin Entries
        /\ proc[p].stage = "leased" /\ Holds(p) /\ proc[p].at = "requested"
    BY DEF LookRequested, Inv, Stages, DecidersHold, Deciding, Types, Names,
           Entries, Stored, None
  <1>2. CASE e.requested # None
    BY <1>1, <1>2, AnswerFromKeeps DEF LookRequested, EventRows
  <1>3. CASE e.requested = None
    BY <1>1, <1>3, GotoKeeps DEF LookRequested, Missed
  <1> QED
    BY <1>2, <1>3

LEMMA AcquireKeeps ==
    ASSUME Inv, Names, NEW p \in Procs, Acquire(p)
    PROVE  Inv'
  <1>1. /\ proc[p].at = "acquire" /\ proc[p].req \in Requests
        /\ proc[p].contract \in Contracts /\ answers' = answers
        /\ answers' \subseteq Answers /\ answers' \ answers = {}
        /\ UNCHANGED <<events, runs, bound, outlived>>
    BY DEF Acquire, Inv, Stages, Types
  <1>2. CASE Acquirable(proc[p].req)
    <2> DEFINE c == [proc[p] EXCEPT !.at = "completed", !.stage = "leased"]
               e == [owner |-> p, live |-> TRUE]
    <2>1. /\ proc' = [proc EXCEPT ![p] = c]
          /\ lease' = [lease EXCEPT ![proc[p].req] = e]
      BY <1>2, Zenon DEF Acquire
    <2>2. /\ c \in Deliveries /\ c.at = "completed" /\ c.stage = "leased"
          /\ c.req = proc[p].req /\ c.contract = proc[p].contract
      BY CallType DEF Deliveries, PCs, LedgerPCs
    <2>3. e \in LeaseRows /\ e.owner = p /\ e.live
      BY DEF LeaseRows
    <2> HIDE DEF c, e
    <2>4. lease' \in [Requests -> LeaseRows] /\ lease'[proc[p].req] = e
      BY <1>1, <2>1, <2>3 DEF Inv, Types
    <2>5. ASSUME NEW q \in Procs \ {p}, Holds(q)
          PROVE  lease'[proc[q].req] = lease[proc[q].req]
      <3>1. proc[q].req # proc[p].req
        BY <1>2, <2>5 DEF Acquirable, Holds, Names
      <3> QED
        BY <2>1, <3>1 DEF Inv, Types
    <2> QED
      BY <1>1, <2>1, <2>2, <2>3, <2>4, <2>5, CallGoesOn DEF Missed
  <1>3. CASE ~Acquirable(proc[p].req)
    <2> DEFINE c == [proc[p] EXCEPT !.at = "completed", !.stage = "busy"]
    <2>1. proc' = [proc EXCEPT ![p] = c] /\ lease' = lease
      BY <1>3, Zenon DEF Acquire
    <2>2. /\ c \in Deliveries /\ c.at = "completed" /\ c.stage = "busy"
          /\ c.req = proc[p].req /\ c.contract = proc[p].contract
      BY CallType DEF Deliveries, PCs, LedgerPCs
    <2> HIDE DEF c
    <2> QED
      BY <1>1, <2>1, <2>2, CallGoesOn DEF Inv, Types
  <1> QED
    BY <1>2, <1>3

\* A call that ends takes at most its own thread's lease with it.
LEMMA EndKeeps ==
    ASSUME Inv, Names, NEW p \in Procs, proc[p].at # "idle",
           NEW e \in LeaseRows,
           proc' = [proc EXCEPT ![p] = Idle],
           lease' = [lease EXCEPT ![proc[p].req] =
                        IF lease[proc[p].req].owner = p THEN e ELSE @],
           UNCHANGED <<events, runs, bound, outlived>>,
           \/ answers' = answers
           \/ \E a \in Answers :
                  Told(a.req, a.contract, a.status) /\ answers' = answers \cup {a}
    PROVE  Inv'
  <1>1. Idle \in Deliveries /\ Idle.at = "idle" /\ Idle.stage = "first"
    BY DEF Idle, Deliveries, PCs
  <1>2. /\ answers' \subseteq Answers
        /\ \A a \in answers' \ answers : Told(a.req, a.contract, a.status)
    BY DEF Inv, Types
  <1>3. proc[p].req \in Requests /\ lease' \in [Requests -> LeaseRows]
    BY DEF Inv, Stages, Types
  <1>4. ASSUME NEW q \in Procs \ {p}, Holds(q)
        PROVE  lease'[proc[q].req] = lease[proc[q].req]
    BY <1>3, <1>4 DEF Inv, Types, Holds
  <1> QED
    BY <1>1, <1>2, <1>3, <1>4, CallGoesOn

LEMMA ReleaseKeeps ==
    ASSUME Inv, Names, NEW p \in Procs, Release(p)
    PROVE  Inv'
  <1> DEFINE a == [req |-> proc[p].req, contract |-> proc[p].contract,
                   status |-> proc[p].answer]
  <1>1. /\ proc[p].at = "release" /\ Unheld \in LeaseRows
        /\ proc' = [proc EXCEPT ![p] = Idle]
        /\ UNCHANGED <<events, runs, bound, outlived>>
        /\ lease' = [lease EXCEPT ![proc[p].req] =
                        IF lease[proc[p].req].owner = p THEN Unheld ELSE @]
    BY DEF Release, Unheld, LeaseRows
  <1>2. CASE proc[p].answer = "error"
    BY <1>1, <1>2, EndKeeps DEF Release
  <1>3. CASE proc[p].answer # "error"
    <2>1. /\ a \in Answers /\ answers' = answers \cup {a}
          /\ Told(a.req, a.contract, a.status)
      BY <1>1, <1>3, CallType
         DEF Release, Inv, Stages, PendingTold, Answers, Deliveries
    <2> QED
      BY <1>1, <2>1, EndKeeps
  <1> QED
    BY <1>2, <1>3

LEMMA LedgerFailsKeeps ==
    ASSUME Inv, Names, NEW p \in Procs, LedgerFails(p)
    PROVE  Inv'
  <1>1. /\ proc[p].at # "idle" /\ proc[p].req \in Requests
        /\ proc[p].contract \in Contracts
        /\ UNCHANGED <<events, runs, bound, answers, outlived>>
    BY DEF LedgerFails, LedgerPCs, Inv, Stages
  <1>2. CASE proc[p].stage = "leased" /\ proc[p].at # "release"
    <2> DEFINE c == [proc[p] EXCEPT !.at = "release", !.answer = "error"]
    <2>1. proc' = [proc EXCEPT ![p] = c] /\ lease' = lease
      BY <1>2, Zenon DEF LedgerFails
    <2>2. /\ c \in Deliveries /\ c.at = "release" /\ c.answer = "error"
          /\ c.req = proc[p].req /\ c.contract = proc[p].contract
          /\ c.stage = "leased" /\ c.answer # None
      BY <1>2, CallType DEF Deliveries, PCs, LedgerPCs, None
    <2> HIDE DEF c
    <2> QED
      BY <1>1, <2>1, <2>2, CallGoesOn DEF Inv, Types, Missed
  <1>3. CASE ~(proc[p].stage = "leased" /\ proc[p].at # "release")
    <2> DEFINE e == [lease[proc[p].req] EXCEPT !.owner = "dead"]
    <2>1. e \in LeaseRows
      BY <1>1, Zenon DEF Inv, Types, LeaseRows
    <2>2. /\ proc' = [proc EXCEPT ![p] = Idle]
          /\ lease' = [lease EXCEPT ![proc[p].req] =
                          IF lease[proc[p].req].owner = p THEN e ELSE @]
      BY <1>1, <1>3 DEF LedgerFails, Inv, Types, LeaseRows
    <2> HIDE DEF e
    <2> QED
      BY <1>1, <2>1, <2>2, EndKeeps
  <1> QED
    BY <1>2, <1>3

\* The request is recorded: nobody else decides on it, and none runs it.
LEMMA RecordRequestedKeeps ==
    ASSUME Inv, Names, NEW p \in Procs, RecordRequested(p)
    PROVE  Inv'
  <1> DEFINE r == proc[p].req
             d == proc[p].contract
             c == [proc[p] EXCEPT !.at = "run"]
             e == [events[r] EXCEPT !.requested = Stored(d)]
  <1>1. /\ proc[p].at = "record" /\ r \in Requests /\ d \in Contracts
        /\ proc[p].stage = "leased" /\ Holds(p)
        /\ events[r].requested = None /\ events[r].completed = None
        /\ events[r].failed = None /\ runs[r] = 0
        /\ UNCHANGED <<lease, runs, answers, outlived>>
        /\ bound' = [bound EXCEPT ![r] = d]
    BY DEF RecordRequested, Inv, Stages, DecidersHold, Deciding,
           StillUnrecorded, Recorded
  <1>2. c \in Deliveries /\ c.at = "run" /\ c.req = r /\ c.contract = d
        /\ c.stage = "leased"
    BY <1>1, CallType DEF Deliveries, PCs, LedgerPCs
  <1>3. e \in EventRows /\ e.requested = Stored(d) /\ e.completed = None
        /\ e.failed = None /\ Stored(d) # None
    BY <1>1 DEF Inv, Types, EventRows, Entries, Names, Stored, None
  <1>4. proc' = [proc EXCEPT ![p] = c] /\ events' = [events EXCEPT ![r] = e]
    BY Zenon DEF RecordRequested, Goto
  <1>5. /\ proc'[p] = c /\ \A q \in Procs \ {p} : proc'[q] = proc[q]
        /\ events'[r] = e /\ \A t \in Requests \ {r} : events'[t] = events[t]
    BY <1>1, <1>4 DEF Inv, Types
  <1> HIDE DEF c, e
  <1>6. Types'
    BY <1>1, <1>2, <1>3, <1>4 DEF Inv, Types
  <1>7. ASSUME NEW q \in Procs \ {p}, Executing(q) PROVE proc[q].req # r
    BY <1>1, <1>7 DEF Inv, RunsRecorded
  <1>8. ASSUME NEW q \in Procs \ {p}, Deciding(q) PROVE proc[q].req # r
    BY <1>1, <1>8 DEF Inv, DecidersHold, Holds
  <1>9. Stages' /\ DecidersHold' /\ RunnersHold'
    BY <1>1, <1>2, <1>5
       DEF Inv, Stages, DecidersHold, RunnersHold, Deciding, Executing, Holds
  <1>10. Recorded' /\ RunsRecorded' /\ OneRuns'
    <2>1. Recorded'
      BY <1>1, <1>3, <1>5 DEF Inv, Types, Recorded
    <2>2. RunsRecorded' /\ OneRuns'
      BY <1>1, <1>2, <1>3, <1>5, <1>7
         DEF Inv, Types, Stages, RunsRecorded, OneRuns, Executing
    <2> QED
      BY <2>1, <2>2
  <1>11. StillUnrecorded' /\ StillMissed'
    BY <1>1, <1>2, <1>3, <1>5, <1>8
       DEF Inv, Stages, StillUnrecorded, StillMissed, Missed, Deciding, Executing
  <1>12. ASSUME NEW t \in Requests, NEW b, NEW status, Told(t, b, status)
         PROVE  Told(t, b, status)'
    <2>1. CASE t = r
      BY <1>1, <1>12, <2>1, <1>3, <1>5 DEF Told
    <2>2. CASE t # r
      BY <1>1, <1>12, <2>2, <1>2, <1>5 DEF Told, Executing, Inv, Types
    <2> QED
      BY <2>1, <2>2
  <1>13. AnswersTold'
    BY <1>1, <1>12 DEF Inv, AnswersTold, Types, Answers
  <1>14. PendingTold'
    BY <1>2, <1>5, <1>12 DEF Inv, PendingTold, Stages
  <1> QED
    BY <1>6, <1>9, <1>10, <1>11, <1>13, <1>14 DEF Inv

\* The command is started once.
LEMMA RunKeeps ==
    ASSUME Inv, Names, NEW p \in Procs, Run(p)
    PROVE  Inv'
  <1>1. PICK pc \in {"outcome", "failure"} : Goto(p, pc)
    BY DEF Run
  <1> DEFINE r == proc[p].req
             c == [proc[p] EXCEPT !.at = pc]
  <1>2. /\ proc[p].at = "run" /\ r \in Requests /\ Executing(p)
        /\ proc[p].contract \in Contracts
        /\ proc[p].stage = "leased" /\ runs[r] = 0
        /\ UNCHANGED <<events, lease, bound, answers, outlived>>
        /\ runs' = [runs EXCEPT ![r] = @ + 1]
    BY DEF Run, Inv, Stages, RunsRecorded, Executing
  <1>3. c \in Deliveries /\ c.at = pc /\ c.req = r
        /\ c.contract = proc[p].contract /\ c.stage = "leased"
    BY <1>2, CallType DEF Deliveries, PCs, LedgerPCs
  <1>4. proc' = [proc EXCEPT ![p] = c]
    BY <1>1, Zenon DEF Goto
  <1>5. proc'[p] = c /\ \A q \in Procs \ {p} : proc'[q] = proc[q]
    BY <1>4 DEF Inv, Types
  <1> HIDE DEF c
  <1>6. Types' /\ runs'[r] = 1 /\ \A t \in Requests \ {r} : runs'[t] = runs[t]
    BY <1>2, <1>3, <1>4 DEF Inv, Types
  <1>7. \A q \in Procs : /\ Executing(q)' <=> Executing(q)
                         /\ proc'[q].req = proc[q].req
                         /\ proc'[q].stage = proc[q].stage
                         /\ proc'[q].contract = proc[q].contract
    BY <1>2, <1>3, <1>5 DEF Executing
  <1>8. Stages' /\ DecidersHold' /\ RunnersHold'
    BY <1>2, <1>3, <1>5, <1>7
       DEF Inv, Stages, DecidersHold, RunnersHold, Deciding, Executing, Holds
  <1>9. Recorded'
    BY <1>2, <1>6 DEF Inv, Recorded, RunsRecorded, Types
  <1>10. RunsRecorded' /\ OneRuns'
    <2>1. OneRuns'
      BY <1>7 DEF Inv, OneRuns
    <2>2. ASSUME NEW q \in Procs \ {p}, Executing(q)
          PROVE  proc[q].req # r /\ proc[q].req \in Requests
      BY <1>2, <2>2 DEF Inv, OneRuns, Stages, Executing
    <2>3. RunsRecorded'
      BY <1>2, <1>3, <1>5, <1>6, <1>7, <2>2 DEF Inv, RunsRecorded, Executing
    <2> QED
      BY <2>1, <2>3
  <1>11. StillUnrecorded' /\ StillMissed'
    BY <1>2, <1>3, <1>5 DEF Inv, StillUnrecorded, StillMissed, Missed
  <1>12. AnswersTold' /\ PendingTold'
    <2>1. ASSUME NEW t, NEW b, NEW status, Told(t, b, status)
          PROVE  Told(t, b, status)'
      BY <1>2, <1>7, <2>1, ToldKeeps
    <2> QED
      BY <1>2, <1>3, <1>5, <2>1 DEF Inv, AnswersTold, PendingTold
  <1> QED
    BY <1>6, <1>8, <1>9, <1>10, <1>11, <1>12 DEF Inv

\* Its outcome is recorded once.
LEMMA RecordOutcomeKeeps ==
    ASSUME Inv, Names, NEW p \in Procs, RecordOutcome(p)
    PROVE  Inv'
  <1> DEFINE r == proc[p].req
             d == proc[p].contract
  <1>1. /\ r \in Requests /\ d \in Contracts /\ Executing(p)
        /\ proc[p].stage = "leased" /\ runs[r] = 1 /\ bound[r] = d
        /\ events[r].requested = Stored(d) /\ events[r].completed = None
        /\ events[r].failed = None /\ Stored(d) \in Entries /\ Stored(d) # None
        /\ UNCHANGED <<lease, runs, bound, outlived>>
    BY DEF RecordOutcome, Inv, Stages, RunsRecorded, Recorded, Executing,
           Names, Entries, Stored, None
  <1>2. PICK status \in {"completed", "failed"}, e \in EventRows :
            /\ events' = [events EXCEPT ![r] = e]
            /\ Return(p, status)
            /\ e.requested = Stored(d)
            /\ status = "completed" => e.completed = Stored(d) /\ e.failed = None
            /\ status = "failed" => e.failed = Stored(d) /\ e.completed = None
    <2>1. CASE proc[p].at = "outcome"
      <3> DEFINE e == [events[r] EXCEPT !.completed = Stored(d)]
      <3>1. events' = [events EXCEPT ![r] = e]
        BY <2>1, Zenon DEF RecordOutcome
      <3>2. e \in EventRows /\ e.requested = Stored(d) /\ e.completed = Stored(d)
            /\ e.failed = None
        BY <1>1 DEF Inv, Types, EventRows
      <3>3. Return(p, "completed")
        BY <2>1 DEF RecordOutcome
      <3> HIDE DEF e
      <3> QED
        BY <3>1, <3>2, <3>3
    <2>2. CASE proc[p].at = "failure"
      <3> DEFINE e == [events[r] EXCEPT !.failed = Stored(d)]
      <3>1. events' = [events EXCEPT ![r] = e]
        BY <2>2, Zenon DEF RecordOutcome
      <3>2. e \in EventRows /\ e.requested = Stored(d) /\ e.failed = Stored(d)
            /\ e.completed = None
        BY <1>1 DEF Inv, Types, EventRows
      <3>3. Return(p, "failed")
        BY <2>2 DEF RecordOutcome
      <3> HIDE DEF e
      <3> QED
        BY <3>1, <3>2, <3>3
    <2> QED
      BY <2>1, <2>2 DEF RecordOutcome
  <1> DEFINE c == [proc[p] EXCEPT !.at = "release", !.answer = status]
  <1>3. c \in Deliveries /\ c.at = "release" /\ c.req = r /\ c.contract = d
        /\ c.stage = "leased" /\ c.answer = status /\ c.answer # None
    BY <1>1, CallType DEF Deliveries, PCs, LedgerPCs, Statuses, None
  <1>4. proc' = [proc EXCEPT ![p] = c] /\ answers' = answers
    BY <1>1, <1>2, Zenon DEF Return
  <1>5. /\ proc'[p] = c /\ \A q \in Procs \ {p} : proc'[q] = proc[q]
        /\ events'[r] = e /\ \A t \in Requests \ {r} : events'[t] = events[t]
    BY <1>1, <1>2, <1>4 DEF Inv, Types
  <1> HIDE DEF c
  <1>6. Types'
    BY <1>1, <1>2, <1>3, <1>4 DEF Inv, Types
  <1>7. \A q \in Procs : Executing(q)' => q # p /\ Executing(q) /\ proc[q].req # r
    BY <1>1, <1>3, <1>5 DEF Executing, Inv, OneRuns
  <1>8. Stages' /\ DecidersHold' /\ RunnersHold'
    BY <1>1, <1>3, <1>5, <1>7
       DEF Inv, Stages, DecidersHold, RunnersHold, Deciding, Executing, Holds
  <1>9. Recorded' /\ RunsRecorded' /\ OneRuns'
    <2>1. Recorded'
      BY <1>1, <1>2, <1>5 DEF Inv, Recorded
    <2>2. RunsRecorded' /\ OneRuns'
      BY <1>1, <1>5, <1>7 DEF Inv, Stages, RunsRecorded, OneRuns, Executing
    <2> QED
      BY <2>1, <2>2
  <1>10. StillUnrecorded'
    BY <1>1, <1>3, <1>5 DEF Inv, Stages, StillUnrecorded, Executing, Names,
                            Entries, Stored, None
  <1>11. StillMissed'
    <2>1. ASSUME ~outlived, NEW q \in Procs \ {p}, proc[q].stage = "leased",
                 proc[q].at \in {"failed", "requested"}
          PROVE  proc[q].req # r /\ proc[q].req \in Requests
      BY <1>1, <2>1
         DEF Inv, RunnersHold, DecidersHold, Deciding, Holds, Stages
    <2> QED
      BY <1>1, <1>3, <1>5, <2>1 DEF Inv, StillMissed, Missed
  <1>12. ASSUME NEW t \in Requests, NEW b, NEW s, Told(t, b, s)
         PROVE  Told(t, b, s)'
    <2>1. CASE t = r
      BY <1>1, <1>2, <1>5, <1>12, <2>1 DEF Told, Executing
    <2>2. CASE t # r
      BY <1>1, <1>5, <1>7, <1>12, <2>2 DEF Told
    <2> QED
      BY <2>1, <2>2
  <1>13. AnswersTold'
    BY <1>4, <1>12 DEF Inv, AnswersTold, Types, Answers
  <1>14. PendingTold'
    <2>1. Told(proc[p].req, proc[p].contract, proc[p].answer)'
      BY <1>1, <1>2, <1>3, <1>5 DEF Told
    <2> QED
      BY <1>3, <1>5, <1>12, <2>1 DEF Inv, PendingTold, Stages
  <1> QED
    BY <1>6, <1>8, <1>9, <1>10, <1>11, <1>13, <1>14 DEF Inv

\* The server dies: nobody decides or runs anything any more.
LEMMA CrashKeeps ==
    ASSUME Inv, Crash
    PROVE  Inv'
  <1>1. \A p \in Procs : proc'[p] = Idle /\ ~Executing(p)'
    BY DEF Crash, Executing, Idle
  <1>2. Types'
    <2>1. proc' \in [Procs -> Deliveries]
      BY DEF Crash, Idle, Deliveries, PCs, None
    <2>2. lease' \in [Requests -> LeaseRows]
      <3>1. ASSUME NEW r \in Requests, NEW o \in {lease[r].owner, "dead"}
            PROVE  [lease[r] EXCEPT !.owner = o] \in LeaseRows
        BY Zenon DEF Inv, Types, LeaseRows
      <3>2. \A r \in Requests : lease'[r] \in LeaseRows
        BY <3>1 DEF Crash
      <3> QED
        BY <3>2 DEF Crash
    <2> QED
      BY <2>1, <2>2 DEF Crash, Inv, Types
  <1>3. Stages' /\ DecidersHold' /\ RunnersHold' /\ RunsRecorded' /\ OneRuns'
        /\ StillUnrecorded' /\ StillMissed' /\ PendingTold'
    BY <1>1 DEF Stages, DecidersHold, Deciding, RunnersHold, RunsRecorded,
                OneRuns, StillUnrecorded, StillMissed, Missed, PendingTold, Idle
  <1>4. Recorded'
    BY DEF Crash, Inv, Recorded
  <1>5. AnswersTold'
    BY <1>1, ToldKeeps DEF Crash, Inv, AnswersTold
  <1> QED
    BY <1>2, <1>3, <1>4, <1>5 DEF Inv

\* A lease that runs out stops nobody who still decides.
LEMMA ExpireKeeps ==
    ASSUME Inv, Names, NEW r \in Requests, Expire(r)
    PROVE  Inv'
  <1> DEFINE e == [lease[r] EXCEPT !.live = FALSE]
  <1>1. e \in LeaseRows
    BY Zenon DEF Inv, Types, LeaseRows
  <1>2. lease' = [lease EXCEPT ![r] = e]
    BY Zenon DEF Expire
  <1> HIDE DEF e
  <1>3. /\ UNCHANGED <<events, proc, runs, bound, answers>>
        /\ outlived => outlived'
        /\ \A t \in Requests \ {r} : lease'[t] = lease[t]
        /\ ~outlived' => lease[r].owner \notin Procs
    BY <1>2 DEF Expire, Inv, Types, Names
  <1>4. Types'
    BY <1>1, <1>2, <1>3 DEF Expire, Inv, Types
  <1>5. Stages' /\ Recorded' /\ RunsRecorded' /\ OneRuns' /\ StillUnrecorded'
        /\ StillMissed'
    BY <1>3 DEF Inv, Stages, Recorded, RunsRecorded, OneRuns, StillUnrecorded,
                StillMissed, Executing
  <1>6. DecidersHold' /\ RunnersHold'
    <2>1. \A p \in Procs : Deciding(p) => proc[p].req # r
      BY DEF Expire, Inv, DecidersHold, Deciding, Holds
    <2> QED
      BY <1>3, <2>1
         DEF Inv, Stages, DecidersHold, RunnersHold, Deciding, Executing, Holds
  <1>7. AnswersTold' /\ PendingTold'
    <2>1. ASSUME NEW t, NEW b, NEW s, Told(t, b, s) PROVE Told(t, b, s)'
      BY <1>3, <2>1, ToldKeeps DEF Executing
    <2> QED
      BY <1>3, <2>1 DEF Inv, AnswersTold, PendingTold
  <1> QED
    BY <1>4, <1>5, <1>6, <1>7 DEF Inv

LEMMA StutterKeeps == ASSUME Inv, UNCHANGED vars PROVE Inv'
  BY DEF vars, Inv, Types, Stages, DecidersHold, RunnersHold, Recorded,
         RunsRecorded, OneRuns, StillUnrecorded, StillMissed, AnswersTold,
         PendingTold, Told, Deciding, Executing, Holds

LEMMA StepInv == ASSUME Inv, Names, [Next]_vars PROVE Inv'
  BY DeliverKeeps, LookKeeps, PlanKeeps, AcquireKeeps, LookRequestedKeeps,
     RecordRequestedKeeps, RunKeeps, RecordOutcomeKeeps, ReleaseKeeps,
     LedgerFailsKeeps, CrashKeeps, ExpireKeeps, StutterKeeps DEF Next, Step

-----------------------------------------------------------------------------
LEMMA AgreeInv == ASSUME Names, Inv PROVE AnswersAgree
  <1> SUFFICES ASSUME NEW a \in answers
               PROVE  AnswersAgree!(a)
    BY DEF AnswersAgree
  <1>1. a \in Answers /\ a.req \in Requests /\ Told(a.req, a.contract, a.status)
    BY DEF Inv, Types, AnswersTold, Answers
  <1>2. \A b \in answers : Told(b.req, b.contract, b.status)
    BY DEF Inv, AnswersTold
  <1>3. /\ events[a.req].completed # None => events[a.req].failed = None
        /\ events[a.req].requested # None =>
               events[a.req].requested = Stored(bound[a.req])
    BY <1>1 DEF Inv, Recorded
  <1> QED
    BY <1>1, <1>2, <1>3 DEF Told, Stored, Executing

(***************************************************************************)
(* The answers under one request id never contradict each other or the     *)
(* ledger, for any number of requests, commands and threads, whatever      *)
(* fails and however often the server dies: what completed was never       *)
(* reported as failed, a conflict is only answered to another contract     *)
(* than the recorded one (if its payload is stored as it came), and        *)
(* execution_indeterminate only when the execution before is over, as long *)
(* as no command outlives its lease.                                       *)
(***************************************************************************)
THEOREM AnswersAlwaysAgree == ASSUME Names PROVE Spec => []AnswersAgree
  <1>1. Inv => AnswersAgree
    BY AgreeInv
  <1>2. Init => Inv
    BY InitInv
  <1>3. Inv /\ [Next]_vars => Inv'
    BY StepInv
  <1> QED
    BY <1>1, <1>2, <1>3, PTL DEF Spec

-----------------------------------------------------------------------------
(***************************************************************************)
(* The refinement: recording the request binds the id, running the command *)
(* starts it, recording its outcome settles it, and every other step       *)
(* leaves the journal as it is and adds at most one answer to it.          *)
(***************************************************************************)
Entry(r) == [phase |-> Phase(r), contract |-> events[r].requested]
Entered == [r \in Requests |-> Entry(r)]

LEMMA PhaseOf ==
    ASSUME Inv, NEW r \in Requests
    PROVE  /\ events[r].requested = None => Phase(r) = "open"
           /\ events[r].requested # None => Phase(r) # "open"
           /\ events[r].completed # None => Phase(r) = "completed"
           /\ events[r].failed # None => Phase(r) = "failed"
  <1>1. /\ events[r].requested = None =>
               events[r].completed = None /\ events[r].failed = None /\ runs[r] = 0
        /\ events[r].failed # None => events[r].completed = None
        /\ runs[r] \in Nat
    BY DEF Inv, Recorded, Types
  <1> QED
    BY <1>1 DEF Phase

\* A step that leaves the events and the runs alone answers at most one call.
LEMMA QuietStep ==
    ASSUME Inv, Inv', UNCHANGED <<events, runs>>,
           \/ answers' = answers
           \/ \E a \in Answers : answers' = answers \cup {a}
    PROVE  [Journal!Next]_(Journal!jvars)
  <1>1. Entered' = Entered
    BY DEF Entered, Entry, Phase
  <1>2. CASE answers' = answers
    BY <1>1, <1>2 DEF Journal!jvars, Entered, Entry
  <1>3. ASSUME NEW a \in Answers, answers' = answers \cup {a},
               answers' # answers
        PROVE  Journal!Next
    <2>1. Told(a.req, a.contract, a.status)'
      BY <1>3 DEF Inv, AnswersTold
    <2>2. Journal!Justified(a.req, a.contract, a.status)
      <3>1. /\ Entered[a.req].phase = Phase(a.req)
            /\ Entered[a.req].contract = events[a.req].requested
            /\ a.req \in Requests /\ a.status \in Statuses
        BY DEF Entered, Entry, Answers
      <3> QED
        BY <2>1, <3>1, PhaseOf
           DEF Told, Statuses, Journal!Justified, Journal!Neutral, Entered, Entry
    <2>3. /\ a = [req |-> a.req, contract |-> a.contract, status |-> a.status]
          /\ a.req \in Requests /\ a.contract \in Contracts
          /\ a.status \in Journal!Statuses
      BY DEF Answers, Statuses, Journal!Statuses, Journal!Neutral
    <2>4. Journal!Answer(a.req, a.contract, a.status)
      BY <1>1, <1>3, <2>2, <2>3 DEF Journal!Answer, Entered, Entry
    <2> QED
      BY <1>3, <2>3, <2>4 DEF Journal!Next
  <1> QED
    BY <1>2, <1>3

LEMMA BindStep ==
    ASSUME Inv, Names, NEW p \in Procs, RecordRequested(p)
    PROVE  Journal!Next
  <1>0. PICK r \in Requests, e \in Entries :
            r = proc[p].req /\ e = Stored(proc[p].contract)
    BY DEF RecordRequested, Inv, Stages, Entries
  <1>1. /\ e # None
        /\ events[r].requested = None /\ events[r].completed = None
        /\ events[r].failed = None /\ runs[r] = 0
        /\ UNCHANGED <<runs, answers>>
        /\ events' = [events EXCEPT ![r].requested = e]
    BY <1>0 DEF RecordRequested, Inv, Stages, StillUnrecorded, Recorded, Entries,
                Names, Stored, None
  <1>2. Entered' = [Entered EXCEPT ![r] = [phase |-> "bound", contract |-> e]]
    <2>1. /\ events'[r].requested = e /\ events'[r].completed = None
          /\ events'[r].failed = None
          /\ \A t \in Requests \ {r} : events'[t] = events[t]
      BY <1>1 DEF Inv, Types, EventRows
    <2>2. Entry(r)' = [phase |-> "bound", contract |-> e]
      BY <1>1, <2>1 DEF Entry, Phase
    <2>3. \A t \in Requests \ {r} : Entry(t)' = Entry(t)
      BY <1>1, <2>1 DEF Entry, Phase
    <2> QED
      BY <1>1, <2>2, <2>3 DEF Entered
  <1>3. Entered[r].phase = "open"
    BY <1>1, PhaseOf DEF Entered, Entry
  <1>4. Journal!Bind(r, e)
    BY <1>1, <1>2, <1>3 DEF Journal!Bind, Entered, Entry
  <1> QED
    BY <1>1, <1>4 DEF Journal!Next

LEMMA StartStep ==
    ASSUME Inv, Inv', NEW p \in Procs, Run(p)
    PROVE  Journal!Next
  <1>0. PICK r \in Requests : r = proc[p].req
    BY DEF Run, Inv, Stages
  <1>1. /\ events[r].requested # None /\ events[r].completed = None
        /\ events[r].failed = None /\ runs[r] = 0
        /\ UNCHANGED <<events, answers>>
        /\ runs' = [runs EXCEPT ![r] = @ + 1]
    BY <1>0 DEF Run, Inv, RunsRecorded, Executing
  <1>2. /\ runs'[r] = 1 /\ \A t \in Requests \ {r} : runs'[t] = runs[t]
    BY <1>1 DEF Inv, Types
  <1>3. Entered' = [Entered EXCEPT ![r].phase = "running"]
    <2>1. Entry(r)' = [phase |-> "running", contract |-> events[r].requested]
      BY <1>1, <1>2 DEF Entry, Phase
    <2>2. \A t \in Requests \ {r} : Entry(t)' = Entry(t)
      BY <1>1, <1>2 DEF Entry, Phase
    <2> QED
      BY <1>1, <2>1, <2>2 DEF Entered, Entry
  <1>4. Entered[r].phase = "bound"
    BY <1>1 DEF Entered, Entry, Phase
  <1>5. Journal!Start(r)
    BY <1>1, <1>3, <1>4 DEF Journal!Start, Entered, Entry
  <1> QED
    BY <1>5 DEF Journal!Next

LEMMA SettleStep ==
    ASSUME Inv, NEW p \in Procs, RecordOutcome(p)
    PROVE  Journal!Next
  <1>0. PICK r \in Requests : r = proc[p].req
    BY DEF RecordOutcome, Inv, Stages
  <1>1. /\ events[r].requested # None /\ events[r].completed = None
        /\ events[r].failed = None /\ runs[r] = 1
        /\ UNCHANGED <<runs, answers>>
        /\ \/ events' = [events EXCEPT ![r].completed = Stored(proc[p].contract)]
           \/ events' = [events EXCEPT ![r].failed = Stored(proc[p].contract)]
    BY <1>0 DEF RecordOutcome, Return, Inv, Stages, RunsRecorded, Executing
  <1>2. Stored(proc[p].contract) # None
    BY <1>0, <1>1 DEF RecordOutcome, Inv, RunsRecorded, Recorded, Executing
  <1>3. PICK outcome \in {"completed", "failed"} :
            Entered' = [Entered EXCEPT ![r].phase = outcome]
    <2>1. \A t \in Requests \ {r} : events'[t] = events[t]
      BY <1>1 DEF Inv, Types
    <2>2. \A t \in Requests \ {r} : Entry(t)' = Entry(t)
      BY <1>1, <2>1 DEF Entry, Phase
    <2>3. PICK outcome \in {"completed", "failed"} :
              Entry(r)' = [phase |-> outcome, contract |-> events[r].requested]
      <3>1. events'[r].requested = events[r].requested
            /\ \/ events'[r].completed # None
               \/ events'[r].completed = None /\ events'[r].failed # None
        BY <1>1, <1>2 DEF Inv, Types, EventRows
      <3> QED
        BY <3>1 DEF Entry, Phase
    <2> QED
      BY <2>2, <2>3 DEF Entered, Entry
  <1>4. Entered[r].phase = "running"
    BY <1>1 DEF Entered, Entry, Phase
  <1>5. Journal!Settle(r)
    BY <1>1, <1>3, <1>4 DEF Journal!Settle, Entered, Entry
  <1> QED
    BY <1>5 DEF Journal!Next

\* Every other step leaves the events alone.
LEMMA OtherStep ==
    ASSUME Inv, Inv', Next,
           \A p \in Procs : ~RecordRequested(p) /\ ~Run(p) /\ ~RecordOutcome(p)
    PROVE  [Journal!Next]_(Journal!jvars)
  <1>1. ASSUME NEW p \in Procs, NEW status, proc[p].at # "idle",
               Return(p, status)
        PROVE  \/ answers' = answers
               \/ answers' = answers \cup {[req |-> proc[p].req,
                                            contract |-> proc[p].contract,
                                            status |-> status]}
    BY <1>1 DEF Return
  <1>2. UNCHANGED <<events, runs>>
    BY DEF Next, Step, Deliver, LookCompleted, LookFailed, Plan, Acquire,
           LookRequested, Release, LedgerFails, Crash, Expire, AllButProc
  <1>3. \/ answers' = answers
        \/ \E a : answers' = answers \cup {a}
    BY <1>1 DEF Next, Step, Deliver, LookCompleted, LookFailed, Plan, Acquire,
           LookRequested, Release, LedgerFails, Crash, Expire, AllButProc,
           AnswerFrom, AfterLookup
  <1>4. \/ answers' = answers
        \/ \E a \in Answers : answers' = answers \cup {a}
    BY <1>3 DEF Inv, Types
  <1> QED
    BY <1>2, <1>4, QuietStep

LEMMA JournalInit == ASSUME Init PROVE Journal!Init
  BY DEF Init, Phase, Journal!Init, Journal!NoContract, None

LEMMA JournalStep ==
    ASSUME Names, Inv, Inv', [Next]_vars
    PROVE  [Journal!Next]_(Journal!jvars)
  <1>1. CASE UNCHANGED vars
    BY <1>1 DEF vars, Journal!jvars, Phase
  <1> QED
    BY <1>1, BindStep, StartStep, SettleStep, OtherStep

(***************************************************************************)
(* However often a command is delivered under one request id, by whatever  *)
(* threads at once, through failures of the ledger, crashes and leases     *)
(* that run out, it runs at most once, is bound to one contract and has    *)
(* at most one outcome.                                                    *)
(***************************************************************************)
THEOREM ImplementsJournal == ASSUME Names PROVE Spec => OneExecutionPerRequest
  <1>1. Init => Journal!Init
    BY JournalInit
  <1>2. Inv /\ Inv' /\ [Next]_vars => [Journal!Next]_(Journal!jvars)
    BY JournalStep
  <1>3. Init => Inv
    BY InitInv
  <1>4. Inv /\ [Next]_vars => Inv'
    BY StepInv
  <1> QED
    BY <1>1, <1>2, <1>3, <1>4, PTL DEF Spec, OneExecutionPerRequest, Journal!Spec
=============================================================================
