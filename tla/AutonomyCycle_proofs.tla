------------------------- MODULE AutonomyCycle_proofs -----------------------
(***************************************************************************)
(* One cycle at a time, one step after the stop, no run closed under its   *)
(* cycle and none left open; one recovery for a run, which submits nothing *)
(* and repeats no completed step: the proofs.                              *)
(*                                                                         *)
(* That a failed run is recovered once needs retries that do not outlive   *)
(* the lease of their run, the other facts need it of the cycles.  One     *)
(* invariant carries all but the last, each part under the lease that it   *)
(* rests on; the last has one of its own on top of it.                     *)
(***************************************************************************)
EXTENDS AutonomyCycle, TLAPS, WellFoundedInduction, FiniteSetTheorems

RunRecords == [status : RunStatuses, source : 0..MaxRuns, depth : Nat,
               steps : [Steps -> StepRows]]

Types ==
    /\ lease \in [Leases -> LeaseRows]
    /\ stop \in BOOLEAN
    /\ run \in [Runs -> RunRecords]
    /\ stale \subseteq Runs
    /\ proc \in [Procs -> ProcStates]
    /\ crashes \in Nat
    /\ late \in Nat

Held(n, p) == lease[n].owner = p /\ lease[n].live
Keeps(n, p) == lease'[n].owner = p /\ lease'[n].live

\* What a process knows of the runs, whoever else is at work.
Knows(c) ==
    /\ c.pc \in {"lock", "replan", "settle", "unlock"} => c.src \in Runs
    /\ c.pc \in RunPCs => c.run \in Runs /\ run[c.run].status # "absent"
    /\ c.pc = "gate" => c.at \in 1..NSteps + 1
    /\ c.pc \in {"start", "work"} => c.at \in Steps
    /\ c.pc \in {"inspect", "finalize"} =>
           \A r \in c.queue : run[r].status # "absent"
    /\ c.pc = "finalize" => c.run \in c.queue

Known == \A p \in Procs : Knows(proc[p])

-----------------------------------------------------------------------------
(***************************************************************************)
(* Of retries that do not outlive the lease of their run.                  *)
(***************************************************************************)
Retrying(c) ==
    \/ c.pc \in {"replan", "settle", "unlock"}
    \/ c.src # 0 /\ c.pc \in CyclePCs \cup {"acquire"}

RetriesHeld ==
    "run" \notin Outlived =>
        \A p \in Procs : Retrying(proc[p]) => Held(RunLease(proc[p].src), p)

\* A retry that may still create its run knows that there is none.
Childless(c) ==
    c.src # 0 /\ c.pc \in {"acquire", "plan"} => Children(c.src) = {}

ChildlessYet ==
    "run" \notin Outlived => \A p \in Procs : Childless(proc[p])

OneChild ==
    "run" \notin Outlived =>
        \A r \in Runs : \A c, d \in Children(r) : c = d

-----------------------------------------------------------------------------
(***************************************************************************)
(* Of cycles that do not outlive theirs.                                   *)
(***************************************************************************)
CyclesHeld ==
    "cycle" \notin Outlived =>
        \A p \in Procs : proc[p].pc \in CyclePCs => Held(CycleLease, p)

\* Where the cycle is: the step it works on runs, those before it are done.
Tracked(c, row) ==
    /\ row.status = "running"
    /\ \A i \in Steps :
        /\ row.steps[i].status = "running" => c.pc = "work" /\ i = c.at
        /\ row.steps[i].status = "pending" =>
               /\ i \in c.sel
               /\ c.pc \in {"gate", "start"} => i >= c.at
               /\ c.pc = "work" => i > c.at
               /\ c.pc # "finish"

CyclesTracked ==
    "cycle" \notin Outlived =>
        \A p \in Procs :
            proc[p].pc \in RunPCs => Tracked(proc[p], run[proc[p].run])

\* Whoever is about to close a run as interrupted closes no cycle's.
Apart(c, d) == c.pc = "finalize" /\ d.pc \in RunPCs => c.run # d.run

RunsApart ==
    "cycle" \notin Outlived => \A p, q \in Procs : Apart(proc[p], proc[q])

StepsClosed(row) ==
    \A i \in Steps : row.steps[i].status \notin {"pending", "running"}

RunsClosed ==
    "cycle" \notin Outlived =>
        \A r \in Runs : run[r].status # "running" => StepsClosed(run[r])

\* As long as no process died, a running run has its cycle.
RunsOwned ==
    "cycle" \notin Outlived /\ crashes = 0 =>
        \A r \in Runs :
            run[r].status = "running" =>
                \E p \in Procs : proc[p].pc \in RunPCs /\ proc[p].run = r

\* A gate that was passed before the stop lets one step through.
StopsCounted ==
    "cycle" \notin Outlived =>
        /\ late <= 1
        /\ ~stop => late = 0
        /\ \A p \in Procs : proc[p].pc = "start" => late = 0

Inv ==
    /\ Types /\ Known
    /\ RetriesHeld /\ ChildlessYet /\ OneChild
    /\ CyclesHeld /\ CyclesTracked /\ RunsApart /\ RunsClosed /\ RunsOwned
    /\ StopsCounted

-----------------------------------------------------------------------------
(***************************************************************************)
(* The least element, and what the operators over steps and runs return.   *)
(***************************************************************************)
LEMMA LeastOf ==
    ASSUME NEW S, S \subseteq Nat, NEW R,
           \A x \in Nat, y \in Nat : <<y, x>> \in R <=> y < x,
           \E x \in S : \A y \in S : ~ (<<y, x>> \in R)
    PROVE  \E i \in S : \A j \in S : i <= j
  <1>1. PICK x \in S : \A y \in S : ~ (<<y, x>> \in R)
    OBVIOUS
  <1>2. ASSUME NEW j \in S PROVE x <= j
    <2>1. ~(j < x) /\ j \in Nat /\ x \in Nat
      BY <1>1, Zenon
    <2> QED
      BY <2>1
  <1> QED
    BY <1>2

LEMMA FirstIs ==
    ASSUME NEW S, S \subseteq Nat, S # {}
    PROVE  First(S) \in S /\ \A j \in S : First(S) <= j
  <1>1. \E x \in S : \A y \in S : ~ (<<y, x>> \in OpToRel(<, Nat))
    BY NatLessThanWellFounded, WFMin
  <1>2. \A x \in Nat, y \in Nat : <<y, x>> \in OpToRel(<, Nat) <=> y < x
    BY DEF OpToRel
  <1>3. \E i \in S : \A j \in S : i <= j
    BY <1>1, <1>2, LeastOf, Zenon
  <1> QED
    BY <1>3 DEF First

LEMMA StepsAre == Steps \subseteq Nat \ {0} /\ NSteps \in Nat
  BY StepsAssumption DEF Steps

LEMMA NextStepIs ==
    ASSUME NEW sel \in SUBSET Steps, NEW i \in 0..NSteps + 1
    PROVE  /\ NextStep(sel, i) \in 1..NSteps + 1
           /\ \A j \in sel : j > i => j >= NextStep(sel, i)
  <1> DEFINE rest == {j \in sel : j > i}
  <1>1. rest \subseteq Nat /\ rest \subseteq sel /\ NSteps \in Nat
    BY StepsAre
  <1>2. CASE rest = {}
    BY <1>1, <1>2 DEF NextStep
  <1>3. CASE rest # {}
    <2>1. NextStep(sel, i) = First(rest)
      BY <1>3 DEF NextStep
    <2>2. First(rest) \in rest /\ \A j \in rest : First(rest) <= j
      BY <1>1, <1>3, FirstIs
    <2> QED
      BY <1>1, <2>1, <2>2 DEF Steps
  <1> QED
    BY <1>2, <1>3

LEMMA FailedStepIs ==
    ASSUME NEW r \in Runs
    PROVE  FailedStep(r) \in 0..NSteps
  <1> DEFINE with(s) == {i \in Steps : run[r].steps[i].status = s}
  <1>1. \A s : with(s) # {} => First(with(s)) \in with(s)
    <2> SUFFICES ASSUME NEW s, with(s) # {} PROVE First(with(s)) \in with(s)
      OBVIOUS
    <2>1. with(s) \subseteq Nat
      BY DEF Steps
    <2> QED
      BY <2>1, FirstIs
  <1>2. /\ with("failed") # {} => First(with("failed")) \in 0..NSteps
        /\ with("blocked") # {} => First(with("blocked")) \in 0..NSteps
        /\ with("skipped") # {} => First(with("skipped")) \in 0..NSteps
        /\ 0 \in 0..NSteps
    <2>1. Steps \subseteq 0..NSteps /\ 0 \in 0..NSteps
      BY StepsAre DEF Steps
    <2>2. \A s : with(s) \subseteq Steps
      OBVIOUS
    <2> HIDE DEF with
    <2> QED
      BY <1>1, <2>1, <2>2, Zenon
  <1>3. \/ FailedStep(r) = First(with("failed")) /\ with("failed") # {}
        \/ FailedStep(r) = First(with("blocked")) /\ with("blocked") # {}
        \/ FailedStep(r) = First(with("skipped")) /\ with("skipped") # {}
        \/ FailedStep(r) = 0
    BY DEF FailedStep
  <1> QED
    BY <1>2, <1>3, Zenon

-----------------------------------------------------------------------------
LEMMA ProcType == ASSUME Types, NEW p \in Procs PROVE proc[p] \in ProcStates
  BY DEF Types

LEMMA IdleType == IdleState \in ProcStates
  BY StepsAssumption, BoundsAssumption DEF IdleState, ProcStates, PCs

(***************************************************************************)
(* A step of a process that leaves the runs and the stop alone: it goes on *)
(* as c, and no other process loses a lease.                               *)
(***************************************************************************)
Others(p) ==
    \A n \in Leases, q \in Procs \ {p} : Held(n, q) => lease'[n] = lease[n]

LEMMA LeaseNames ==
    /\ CycleLease \in Leases /\ SchedulerLease \in Leases
    /\ \A r \in Runs : RunLease(r) \in Leases
  BY DEF Leases

LEMMA MoveKeeps ==
    ASSUME Inv, NEW p \in Procs, NEW c \in ProcStates,
           proc' = [proc EXCEPT ![p] = c],
           UNCHANGED <<stop, run, stale, crashes, late>>,
           lease' \in [Leases -> LeaseRows], Others(p),
           Knows(c), "run" \notin Outlived => Childless(c),
           "run" \notin Outlived /\ Retrying(c) => Keeps(RunLease(c.src), p),
           "cycle" \notin Outlived /\ c.pc \in CyclePCs => Keeps(CycleLease, p),
           "cycle" \notin Outlived /\ c.pc = "start" => late = 0,
           "cycle" \notin Outlived /\ c.pc \in RunPCs => Tracked(c, run[c.run]),
           proc[p].pc \in RunPCs => c.pc \in RunPCs /\ c.run = proc[p].run,
           "cycle" \notin Outlived =>
               \A q \in Procs \ {p} : Apart(c, proc[q]) /\ Apart(proc[q], c)
    PROVE  Inv'
  <1>1. proc'[p] = c /\ \A q \in Procs \ {p} : proc'[q] = proc[q]
    BY DEF Inv, Types
  <1>2. Types' /\ Known'
    BY <1>1 DEF Inv, Types, Known, Knows
  <1>3. RetriesHeld'
    <2> SUFFICES ASSUME "run" \notin Outlived, NEW q \in Procs, Retrying(proc[q])'
                 PROVE  Held(RunLease(proc[q].src), q)'
      BY DEF RetriesHeld
    <2>1. CASE q = p
      BY <1>1, <2>1 DEF Held, Keeps, Retrying, RunLease
    <2>2. CASE q # p
      <3>1. Retrying(proc[q]) /\ proc[q] \in ProcStates
        BY <1>1, <2>2, ProcType DEF Inv, Retrying
      <3>2. proc[q].src \in Runs
        BY <3>1 DEF Inv, Known, Knows, Retrying, ProcStates, Runs
      <3>3. Held(RunLease(proc[q].src), q)
        BY <3>1 DEF Inv, RetriesHeld
      <3> QED
        BY <1>1, <2>2, <3>2, <3>3, LeaseNames DEF Others, Held, Keeps
    <2> QED
      BY <2>1, <2>2
  <1>4. ChildlessYet' /\ OneChild'
    <2>1. \A r : Children(r)' = Children(r)
      BY DEF Children
    <2> QED
      BY <1>1, <2>1 DEF Inv, ChildlessYet, Childless, OneChild
  <1>5. CyclesHeld'
    BY <1>1, LeaseNames DEF Inv, CyclesHeld, Others, Held, Keeps
  <1>6. CyclesTracked' /\ RunsClosed'
    BY <1>1 DEF Inv, CyclesTracked, RunsClosed, StepsClosed, Tracked
  <1>7. RunsApart'
    BY <1>1 DEF Inv, RunsApart, Apart, RunPCs
  <1>8. RunsOwned'
    BY <1>1 DEF Inv, RunsOwned
  <1>9. StopsCounted'
    BY <1>1 DEF Inv, StopsCounted
  <1> QED
    BY <1>2, <1>3, <1>4, <1>5, <1>6, <1>7, <1>8, <1>9 DEF Inv

-----------------------------------------------------------------------------
\* What the compare and set of a lease leaves to the others.
LEMMA AcquireIs ==
    ASSUME Types, NEW p \in Procs, NEW n \in Leases, Acquirable(n), Acquire(n, p)
    PROVE  /\ lease' \in [Leases -> LeaseRows] /\ Others(p)
           /\ Keeps(n, p) /\ \A m \in Leases \ {n} : lease'[m] = lease[m]
  <1> DEFINE e == [owner |-> p, live |-> TRUE]
  <1>1. e \in LeaseRows /\ e.owner = p /\ e.live
    BY DEF LeaseRows
  <1>2. lease' = [lease EXCEPT ![n] = e]
    BY DEF Acquire
  <1> HIDE DEF e
  <1>3. lease' \in [Leases -> LeaseRows] /\ lease'[n] = e
        /\ \A m \in Leases \ {n} : lease'[m] = lease[m]
    BY <1>1, <1>2 DEF Types
  <1>4. Others(p)
    BY <1>3, ProcsAssumption DEF Others, Held, Keeps, Acquirable
  <1> QED
    BY <1>1, <1>3, <1>4 DEF Held, Keeps

LEMMA ReleaseIs ==
    ASSUME Types, NEW p \in Procs, NEW n \in Leases, Release(n, p)
    PROVE  /\ lease' \in [Leases -> LeaseRows] /\ Others(p)
           /\ \A m \in Leases \ {n} : lease'[m] = lease[m]
  <1>1. Unheld \in LeaseRows
    BY DEF Unheld, LeaseRows
  <1> QED
    BY <1>1 DEF Release, Types, Others, Held, Keeps

\* A process that goes on at pc, and is otherwise what it was.
LEMMA AtIs ==
    ASSUME NEW row \in ProcStates, NEW pc \in PCs, NEW c,
           c = [row EXCEPT !.pc = pc]
    PROVE  /\ c \in ProcStates /\ c.pc = pc
           /\ c.run = row.run /\ c.src = row.src /\ c.due = row.due
           /\ c.at = row.at /\ c.retry = row.retry /\ c.sel = row.sel
           /\ c.sparse = row.sparse /\ c.outcome = row.outcome
           /\ c.failed = row.failed /\ c.queue = row.queue
  <1>1. c \in ProcStates
    BY Zenon DEF ProcStates
  <1> QED
    BY <1>1, Zenon DEF ProcStates

\* A call begins, or is over.
LEMMA RestKeeps ==
    ASSUME Inv, NEW p \in Procs, NEW c \in ProcStates,
           proc' = [proc EXCEPT ![p] = c],
           UNCHANGED <<stop, run, stale, crashes, late>>,
           lease' \in [Leases -> LeaseRows], Others(p),
           proc[p].pc \notin RunPCs,
           \/ c.pc \in {"idle", "clear", "scan", "candidates", "due"}
           \/ c.pc = "acquire" /\ c.src = 0
           \/ c.pc = "lock" /\ c.src \in Runs
    PROVE  Inv'
  <1>1. /\ Knows(c) /\ Childless(c) /\ ~Retrying(c)
        /\ c.pc \notin CyclePCs /\ c.pc # "start"
        /\ \A d : Apart(c, d) /\ Apart(d, c)
    BY DEF Knows, Childless, Retrying, CyclePCs, RunPCs, Apart
  <1> QED
    BY <1>1, MoveKeeps DEF CyclePCs

LEMMA BeginKeeps ==
    ASSUME Inv, NEW p \in Procs, Begin(p)
    PROVE  Inv'
  <1>1. proc[p].pc \notin RunPCs /\ Types
    BY DEF Begin, Clear, StartCycle, Retry, RunDue, Idle, RunPCs, Inv
  <1>2. CASE UNCHANGED lease /\ ~RunDue(p)
    <2>1. lease' \in [Leases -> LeaseRows] /\ Others(p)
          /\ UNCHANGED <<stop, run, stale, crashes, late>>
      BY <1>2 DEF Inv, Types, Others, Begin, Clear, StartCycle, Retry
    <2>2. CASE Clear(p)
      <3> DEFINE c == [proc[p] EXCEPT !.pc = "clear"]
      <3>1. proc' = [proc EXCEPT ![p] = c]
        BY <2>2, Zenon DEF Clear, Goto
      <3>2. c \in ProcStates /\ c.pc = "clear"
        BY <1>1, ProcType, AtIs DEF PCs
      <3> HIDE DEF c
      <3> QED
        BY <1>1, <2>1, <3>1, <3>2, RestKeeps
    <2>3. ASSUME NEW sparse \in Sparse, StartCycle(p, sparse) PROVE Inv'
      <3> DEFINE c == [IdleState EXCEPT !.pc = "acquire", !.sel = Steps,
                                        !.sparse = sparse]
      <3>1. proc' = [proc EXCEPT ![p] = c]
        BY <2>3, Zenon DEF StartCycle
      <3>2. sparse \in BOOLEAN /\ "acquire" \in PCs
        BY ResultsAssumption DEF PCs
      <3>3. c \in ProcStates
        BY <3>2, IdleType, Zenon DEF ProcStates
      <3>4. c.pc = "acquire" /\ c.src = 0
        BY DEF IdleState
      <3> HIDE DEF c
      <3> QED
        BY <1>1, <2>1, <3>1, <3>3, <3>4, RestKeeps
    <2>4. ASSUME NEW r \in Runs, Retry(p, r) PROVE Inv'
      <3> DEFINE c == [IdleState EXCEPT !.pc = "lock", !.src = r]
      <3>1. proc' = [proc EXCEPT ![p] = c]
        BY <2>4, Zenon DEF Retry
      <3>2. "lock" \in PCs /\ r \in 0..MaxRuns
        BY BoundsAssumption DEF PCs, Runs
      <3>3. c \in ProcStates
        BY <3>2, IdleType, Zenon DEF ProcStates
      <3>4. c.pc = "lock" /\ c.src = r
        BY DEF IdleState
      <3> HIDE DEF c
      <3> QED
        BY <1>1, <2>1, <3>1, <3>3, <3>4, RestKeeps
    <2> QED
      BY <1>2, <2>2, <2>3, <2>4 DEF Begin
  <1>3. CASE RunDue(p)
    <2> DEFINE c == [IdleState EXCEPT !.pc = "scan", !.due = TRUE]
    <2>1. proc' = [proc EXCEPT ![p] = c]
      BY <1>3, Zenon DEF RunDue
    <2>2. c \in ProcStates
      <3>1. "scan" \in PCs
        BY DEF PCs
      <3> QED
        BY <3>1, IdleType, Zenon DEF ProcStates
    <2>3. c.pc = "scan"
      BY DEF IdleState
    <2>4. lease' \in [Leases -> LeaseRows] /\ Others(p)
      BY <1>1, <1>3, AcquireIs, LeaseNames DEF RunDue
    <2> HIDE DEF c
    <2> QED
      BY <1>1, <1>3, <2>1, <2>2, <2>3, <2>4, RestKeeps DEF RunDue
  <1> QED
    BY <1>2, <1>3 DEF Begin, Clear, StartCycle, Retry

\* The lease of its run stays with a retry.
LEMMA RetryHolds ==
    ASSUME Inv, NEW p \in Procs, "run" \notin Outlived, Retrying(proc[p]),
           lease'[RunLease(proc[p].src)] = lease[RunLease(proc[p].src)]
    PROVE  proc[p].src \in Runs /\ Keeps(RunLease(proc[p].src), p)
  <1>1. proc[p].src \in Runs
    BY ProcType DEF Inv, Known, Knows, Retrying, ProcStates, Runs
  <1>2. Held(RunLease(proc[p].src), p)
    BY DEF Inv, RetriesHeld
  <1> QED
    BY <1>1, <1>2 DEF Held, Keeps, RunLease

LEMMA LeasesDiffer ==
    /\ CycleLease # SchedulerLease
    /\ \A r : RunLease(r) # CycleLease /\ RunLease(r) # SchedulerLease
    /\ \A r, q : RunLease(r) = RunLease(q) => r = q
  BY DEF CycleLease, SchedulerLease, RunLease

\* run_cycle returns to the retry that called it, or to its caller.
LEMMA ReturnKeeps ==
    ASSUME Inv, NEW p \in Procs, proc[p].pc \in {"acquire", "release"},
           Return(p), UNCHANGED <<stop, run, stale, crashes, late>>,
           lease' \in [Leases -> LeaseRows], Others(p),
           \A m \in Leases \ {CycleLease} : lease'[m] = lease[m]
    PROVE  Inv'
  <1>1. proc[p] \in ProcStates /\ proc[p].pc \notin RunPCs
    BY ProcType DEF Inv, RunPCs
  <1>2. CASE proc[p].src = 0
    BY <1>1, <1>2, IdleType, RestKeeps DEF Return, IdleState
  <1>3. CASE proc[p].src # 0
    <2> DEFINE c == [proc[p] EXCEPT !.pc = "settle"]
    <2>1. proc' = [proc EXCEPT ![p] = c]
      BY <1>3, Zenon DEF Return
    <2>2. c \in ProcStates /\ c.pc = "settle" /\ c.src = proc[p].src
      BY <1>1, AtIs DEF PCs
    <2> HIDE DEF c
    <2>3. c.src \in Runs
      BY <1>1, <1>3, <2>2 DEF ProcStates, Runs
    <2>4. ASSUME "run" \notin Outlived PROVE Keeps(RunLease(c.src), p)
      <3>1. Retrying(proc[p])
        BY <1>3 DEF Retrying, CyclePCs
      <3>2. RunLease(proc[p].src) \in Leases \ {CycleLease}
        BY <2>2, <2>3, LeaseNames, LeasesDiffer
      <3> QED
        BY <2>2, <2>4, <3>1, <3>2, RetryHolds DEF Held, Keeps
    <2>5. /\ Knows(c) /\ Childless(c) /\ c.pc \notin CyclePCs
          /\ c.pc \notin RunPCs /\ c.pc # "start"
          /\ \A d : Apart(c, d) /\ Apart(d, c)
      BY <2>2, <2>3 DEF Knows, Childless, CyclePCs, RunPCs, Apart
    <2> QED
      BY <1>1, <2>1, <2>2, <2>4, <2>5, MoveKeeps
  <1> QED
    BY <1>2, <1>3

LEMMA AcquireCycleKeeps ==
    ASSUME Inv, NEW p \in Procs, AcquireCycle(p)
    PROVE  Inv'
  <1>1. /\ proc[p] \in ProcStates /\ proc[p].pc = "acquire" /\ Types
        /\ UNCHANGED <<stop, run, stale, crashes, late>>
    BY ProcType DEF AcquireCycle, Inv
  <1>2. CASE ~Acquirable(CycleLease)
    <2>1. lease' \in [Leases -> LeaseRows] /\ lease' = lease /\ Others(p)
      BY <1>1, <1>2 DEF AcquireCycle, Types, Others
    <2> QED
      BY <1>1, <1>2, <2>1, ReturnKeeps DEF AcquireCycle
  <1>3. CASE Acquirable(CycleLease)
    <2> DEFINE c == [proc[p] EXCEPT !.pc = "plan"]
    <2>1. proc' = [proc EXCEPT ![p] = c] /\ Acquire(CycleLease, p)
      BY <1>3, Zenon DEF AcquireCycle, Goto
    <2>2. c \in ProcStates /\ c.pc = "plan" /\ c.src = proc[p].src
      BY <1>1, AtIs DEF PCs
    <2>3. /\ lease' \in [Leases -> LeaseRows] /\ Others(p)
          /\ Keeps(CycleLease, p)
          /\ \A m \in Leases \ {CycleLease} : lease'[m] = lease[m]
      BY <1>1, <1>3, <2>1, AcquireIs, LeaseNames
    <2> HIDE DEF c
    <2>4. ASSUME "run" \notin Outlived, Retrying(c)
          PROVE  Keeps(RunLease(c.src), p)
      <3>1. Retrying(proc[p]) /\ c.src # 0
        BY <1>1, <2>2, <2>4 DEF Retrying
      <3>2. RunLease(proc[p].src) \in Leases \ {CycleLease}
        BY <1>1, <2>2, <3>1, LeaseNames, LeasesDiffer DEF ProcStates, Runs
      <3> QED
        BY <2>2, <2>3, <2>4, <3>1, <3>2, RetryHolds DEF Held, Keeps
    <2>5. "run" \notin Outlived => Childless(c)
      BY <1>1, <2>2 DEF Inv, ChildlessYet, Childless
    <2>6. /\ Knows(c) /\ c.pc \notin RunPCs /\ c.pc # "start"
          /\ proc[p].pc \notin RunPCs
          /\ \A d : Apart(c, d) /\ Apart(d, c)
      BY <1>1, <2>2 DEF Knows, RunPCs, Apart
    <2> QED
      BY <1>1, <2>1, <2>2, <2>3, <2>4, <2>5, <2>6, MoveKeeps
  <1> QED
    BY <1>2, <1>3

LEMMA ReleaseCycleKeeps ==
    ASSUME Inv, NEW p \in Procs, ReleaseCycle(p)
    PROVE  Inv'
  <1>1. /\ lease' \in [Leases -> LeaseRows] /\ Others(p)
        /\ \A m \in Leases \ {CycleLease} : lease'[m] = lease[m]
    BY ReleaseIs, LeaseNames DEF ReleaseCycle, Inv
  <1> QED
    BY <1>1, ReturnKeeps DEF ReleaseCycle

\* A cycle goes on with its run and its leases.
LEMMA CycleGoesOn ==
    ASSUME Inv, NEW p \in Procs, NEW c \in ProcStates,
           proc' = [proc EXCEPT ![p] = c],
           UNCHANGED <<lease, stop, run, stale, crashes, late>>,
           proc[p].pc \in RunPCs \cup {"plan"},
           c.pc \in IF proc[p].pc = "plan" THEN {"release"} ELSE RunPCs,
           c.run = proc[p].run, c.src = proc[p].src,
           c.pc = "gate" => c.at \in 1..NSteps + 1,
           c.pc \in {"start", "work"} => c.at \in Steps,
           "cycle" \notin Outlived /\ c.pc = "start" => late = 0,
           "cycle" \notin Outlived /\ c.pc \in RunPCs => Tracked(c, run[c.run])
    PROVE  Inv'
  <1>1. lease' \in [Leases -> LeaseRows] /\ Others(p)
    BY DEF Inv, Types, Others
  <1>2. Knows(c)
    BY DEF Inv, Known, Knows, RunPCs
  <1>3. Childless(c)
    BY DEF Childless, RunPCs
  <1>4. ASSUME "run" \notin Outlived, Retrying(c)
        PROVE  Keeps(RunLease(c.src), p)
    <2>1. Retrying(proc[p])
      BY <1>4 DEF Retrying, RunPCs, CyclePCs
    <2> QED
      BY <1>4, <2>1, RetryHolds DEF Held, Keeps
  <1>5. "cycle" \notin Outlived => Keeps(CycleLease, p)
    BY DEF Inv, CyclesHeld, CyclePCs, Held, Keeps
  <1>6. "cycle" \notin Outlived =>
            \A q \in Procs \ {p} : Apart(c, proc[q]) /\ Apart(proc[q], c)
    BY DEF Inv, RunsApart, Apart, RunPCs
  <1>7. proc[p].pc \in RunPCs => c.pc \in RunPCs /\ c.run = proc[p].run
    BY DEF RunPCs
  <1> QED
    BY <1>1, <1>2, <1>3, <1>4, <1>5, <1>6, <1>7, MoveKeeps

\* What the marking of a step does to the row of the run.
LEMMA SetStepIs ==
    ASSUME Types, NEW r \in Runs, NEW i \in Steps, NEW row \in StepRows,
           SetStep(r, i, row)
    PROVE  \E e \in RunRecords :
               /\ run' = [run EXCEPT ![r] = e]
               /\ e.status = run[r].status /\ e.source = run[r].source
               /\ e.steps[i] = row
               /\ \A j \in Steps \ {i} : e.steps[j] = run[r].steps[j]
  <1> DEFINE steps == [run[r].steps EXCEPT ![i] = row]
             e == [run[r] EXCEPT !.steps = steps]
  <1>1. run[r] \in RunRecords
    BY DEF Types
  <1>2. steps \in [Steps -> StepRows] /\ steps[i] = row
        /\ \A j \in Steps \ {i} : steps[j] = run[r].steps[j]
    BY <1>1 DEF RunRecords
  <1>3. run' = [run EXCEPT ![r] = e]
    BY Zenon DEF SetStep
  <1> HIDE DEF steps
  <1>4. e \in RunRecords /\ e.steps = steps /\ e.status = run[r].status
        /\ e.source = run[r].source
    BY <1>1, <1>2 DEF RunRecords
  <1> QED
    BY <1>2, <1>3, <1>4

\* A cycle marks a step of its run, and goes on.
LEMMA RunStepKeeps ==
    ASSUME Inv, NEW p \in Procs, NEW c \in ProcStates, NEW e \in RunRecords,
           proc' = [proc EXCEPT ![p] = c],
           run' = [run EXCEPT ![proc[p].run] = e],
           UNCHANGED <<lease, stop, stale, crashes>>,
           proc[p].pc \in RunPCs, c.pc \in RunPCs \ {"start"},
           c.run = proc[p].run, c.src = proc[p].src,
           e.status = run[proc[p].run].status,
           e.source = run[proc[p].run].source,
           c.pc = "gate" => c.at \in 1..NSteps + 1,
           c.pc = "work" => c.at \in Steps,
           late' \in Nat,
           "cycle" \notin Outlived =>
               /\ \/ late' = late
                  \/ stop /\ proc[p].pc = "start" /\ late' = late + 1
               /\ Tracked(c, e)
    PROVE  Inv'
  <1>1. proc'[p] = c /\ \A q \in Procs \ {p} : proc'[q] = proc[q]
    BY DEF Inv, Types
  <1>2. proc[p].run \in Runs /\ run[proc[p].run].status # "absent"
    BY DEF Inv, Known, Knows
  <1>3. /\ run'[proc[p].run] = e
        /\ \A r \in Runs \ {proc[p].run} : run'[r] = run[r]
        /\ \A r \in Runs : run'[r].status = run[r].status
                           /\ run'[r].source = run[r].source
    BY <1>2 DEF Inv, Types
  <1>4. Types'
    BY <1>2 DEF Inv, Types
  <1>5. Known'
    <2>1. \A q \in Procs \ {p} : Knows(proc[q])'
      BY <1>1, <1>3, ProcType
         DEF Inv, Known, Knows, ProcStates
    <2>2. Knows(proc[p])'
      BY <1>1, <1>2, <1>3 DEF Knows, RunPCs
    <2> QED
      BY <2>1, <2>2 DEF Known
  <1>6. RetriesHeld' /\ CyclesHeld'
    BY <1>1 DEF Inv, RetriesHeld, Retrying, CyclesHeld, CyclePCs, RunPCs, Held,
                RunLease
  <1>7. ChildlessYet' /\ OneChild'
    <2>1. \A r : Children(r)' = Children(r)
      BY <1>3 DEF Children
    <2>2. Childless(c)
      BY DEF Childless, RunPCs
    <2> QED
      BY <1>1, <2>1, <2>2 DEF Inv, ChildlessYet, Childless, OneChild
  <1>8. ASSUME "cycle" \notin Outlived
        PROVE  \A q \in Procs \ {p} : proc[q].pc \notin RunPCs
    BY <1>8 DEF Inv, CyclesHeld, CyclePCs, Held
  <1>9. CyclesTracked'
    BY <1>1, <1>2, <1>3, <1>8 DEF Inv, CyclesTracked
  <1>10. RunsApart'
    BY <1>1 DEF Inv, RunsApart, Apart, RunPCs
  <1>11. RunsClosed' /\ RunsOwned'
    <2>1. "cycle" \notin Outlived => e.status = "running"
      BY DEF Tracked
    <2> QED
      BY <1>1, <1>3, <2>1 DEF Inv, RunsClosed, StepsClosed, RunsOwned
  <1>12. StopsCounted'
    BY <1>1, <1>8, ProcType DEF Inv, StopsCounted, RunPCs, Types
  <1> QED
    BY <1>4, <1>5, <1>6, <1>7, <1>9, <1>10, <1>11, <1>12 DEF Inv

\* A process at one of its steps, and its run.
LEMMA AtStep ==
    ASSUME Inv, NEW p \in Procs, proc[p].pc \in RunPCs
    PROVE  /\ proc[p] \in ProcStates /\ proc[p].run \in Runs
           /\ run[proc[p].run] \in RunRecords /\ Types
           /\ proc[p].sel \in SUBSET Steps /\ proc[p].at \in 0..NSteps + 1
           /\ "cycle" \notin Outlived => Tracked(proc[p], run[proc[p].run])
  BY ProcType DEF Inv, Known, Knows, Types, CyclesTracked, ProcStates

LEMMA GotoStepKeeps ==
    ASSUME Inv, NEW p \in Procs,
           PlanBlocked(p) \/ GateRun(p) \/ LastStepDone(p)
    PROVE  Inv'
  <1>1. PICK pc \in {"release", "start", "finish"} : Goto(p, pc)
    BY DEF PlanBlocked, GateRun, LastStepDone
  <1> DEFINE c == [proc[p] EXCEPT !.pc = pc]
  <1>2. proc' = [proc EXCEPT ![p] = c]
    BY <1>1, Zenon DEF Goto
  <1>3. /\ c \in ProcStates /\ c.pc = pc /\ c.run = proc[p].run
        /\ c.src = proc[p].src /\ c.at = proc[p].at /\ c.sel = proc[p].sel
    BY ProcType, AtIs DEF PCs, Inv
  <1>4. UNCHANGED <<lease, stop, run, stale, crashes, late>>
    BY DEF PlanBlocked, GateRun, LastStepDone
  <1>5. c.pc = proc'[p].pc /\ proc'[p] = c
    BY <1>2, <1>3 DEF Inv, Types
  <1> HIDE DEF c
  <1>6. CASE PlanBlocked(p)
    <2>1. proc[p].pc = "plan" /\ c.pc = "release"
      BY <1>5, <1>6, <1>3 DEF PlanBlocked, Goto, Inv, Types, ProcStates
    <2> QED
      BY <1>2, <1>3, <1>4, <2>1, CycleGoesOn DEF RunPCs
  <1>7. CASE GateRun(p)
    <2>1. proc[p].pc = "gate" /\ c.pc = "start" /\ ~stop /\ proc[p].at \in Steps
      <3>1. proc[p].at \in 1..NSteps + 1 /\ proc[p].at <= NSteps
        BY <1>7 DEF GateRun, GateOpen, Inv, Known, Knows
      <3> QED
        BY <1>5, <1>7, <1>3, <3>1, StepsAre
           DEF GateRun, GateOpen, Goto, Inv, Types, ProcStates, Steps
    <2>2. "cycle" \notin Outlived => Tracked(c, run[c.run]) /\ late = 0
      BY <1>3, <2>1, AtStep DEF Tracked, RunPCs, Inv, StopsCounted
    <2> QED
      BY <1>2, <1>3, <1>4, <2>1, <2>2, CycleGoesOn DEF RunPCs
  <1>8. CASE LastStepDone(p)
    <2>1. proc[p].pc = "gate" /\ c.pc = "finish" /\ proc[p].at = NSteps + 1
      BY <1>5, <1>8, <1>3 DEF LastStepDone, Goto, Inv, Types, ProcStates
    <2>2. "cycle" \notin Outlived => Tracked(c, run[c.run])
      BY <1>3, <2>1, AtStep, StepsAre DEF Tracked, RunPCs, Steps
    <2> QED
      BY <1>2, <1>3, <1>4, <2>1, <2>2, CycleGoesOn DEF RunPCs
  <1> QED
    BY <1>6, <1>7, <1>8

\* A gate that is open is at a step.
LEMMA GateAt ==
    ASSUME Inv, NEW p \in Procs, GateOpen(p)
    PROVE  proc[p].pc = "gate" /\ proc[p].at \in Steps
  <1>1. proc[p].at \in 1..NSteps + 1 /\ proc[p].at <= NSteps
    BY DEF GateOpen, Inv, Known, Knows
  <1> QED
    BY <1>1, StepsAre DEF GateOpen, Steps

\* The row of a process after the step it was at.
AfterStep(c) == [c EXCEPT !.pc = "gate", !.at = NextStep(c.sel, c.at)]

LEMMA AfterStepIs ==
    ASSUME NEW row \in ProcStates, NEW c, c = AfterStep(row), row.at \in Steps
    PROVE  /\ c \in ProcStates /\ c.pc = "gate" /\ c.run = row.run
           /\ c.src = row.src /\ c.sel = row.sel
           /\ c.at \in 1..NSteps + 1
           /\ \A j \in row.sel : j > row.at => j >= c.at
  <1>1. /\ NextStep(row.sel, row.at) \in 1..NSteps + 1
        /\ \A j \in row.sel : j > row.at => j >= NextStep(row.sel, row.at)
    BY NextStepIs, StepsAre DEF ProcStates, Steps
  <1>2. NextStep(row.sel, row.at) \in 0..NSteps + 1 /\ "gate" \in PCs
    BY <1>1, StepsAre DEF PCs
  <1>3. c \in ProcStates
    BY <1>2, Zenon DEF AfterStep, ProcStates
  <1>4. c.pc = "gate" /\ c.run = row.run /\ c.src = row.src /\ c.sel = row.sel
        /\ c.at = NextStep(row.sel, row.at)
    BY Zenon DEF AfterStep, ProcStates
  <1> QED
    BY <1>1, <1>3, <1>4

\* A step is skipped, or its work returns: on to the next one.
LEMMA NextStepKeeps ==
    ASSUME Inv, NEW p \in Procs, proc[p].pc \in {"gate", "work"},
           proc[p].at \in Steps,
           UNCHANGED <<lease, stop, stale, crashes, late>>,
           proc' = [proc EXCEPT ![p] = AfterStep(proc[p])],
           \/ UNCHANGED run /\ proc[p].pc = "gate"
              /\ run[proc[p].run].steps[proc[p].at].status = "none"
           \/ \E status \in {"completed", "failed", "blocked", "skipped"} :
                  SetStep(proc[p].run, proc[p].at, Step(status))
    PROVE  Inv'
  <1> DEFINE c == AfterStep(proc[p])
  <1>0. proc' = [proc EXCEPT ![p] = c]
    OBVIOUS
  <1>1. /\ c \in ProcStates /\ c.pc = "gate" /\ c.run = proc[p].run
        /\ c.src = proc[p].src /\ c.sel = proc[p].sel
        /\ c.at \in 1..NSteps + 1
        /\ \A j \in proc[p].sel : j > proc[p].at => j >= c.at
    BY AfterStepIs, ProcType DEF Inv
  <1>2. /\ proc[p].run \in Runs /\ Types
        /\ "cycle" \notin Outlived => Tracked(proc[p], run[proc[p].run])
    BY AtStep DEF RunPCs
  <1> HIDE DEF c
  <1>3. ASSUME NEW e,
               "cycle" \notin Outlived,
               e.status = run[proc[p].run].status,
               e.steps[proc[p].at].status \notin {"pending", "running"},
               \A j \in Steps \ {proc[p].at} :
                   e.steps[j] = run[proc[p].run].steps[j]
        PROVE  Tracked(c, e)
    <2>1. Tracked(proc[p], run[proc[p].run])
      BY <1>2, <1>3
    <2>2. e.status = "running"
      BY <1>3, <2>1 DEF Tracked
    <2>3. ASSUME NEW i \in Steps, e.steps[i].status = "running" PROVE FALSE
      <3>1. i # proc[p].at /\ run[proc[p].run].steps[i].status = "running"
        BY <1>3, <2>3
      <3> QED
        BY <2>1, <3>1 DEF Tracked
    <2>4. ASSUME NEW i \in Steps, e.steps[i].status = "pending"
          PROVE  i \in c.sel /\ i >= c.at
      <3>1. i # proc[p].at /\ run[proc[p].run].steps[i].status = "pending"
        BY <1>3, <2>4
      <3>2. i \in proc[p].sel /\ (i >= proc[p].at \/ i > proc[p].at)
        BY <2>1, <3>1 DEF Tracked
      <3>3. i \in Nat /\ proc[p].at \in Nat
        BY StepsAre
      <3>4. i > proc[p].at
        BY <3>1, <3>2, <3>3
      <3> QED
        BY <1>1, <3>2, <3>4
    <2> QED
      BY <1>1, <2>2, <2>3, <2>4 DEF Tracked
  <1>4. CASE /\ UNCHANGED run /\ proc[p].pc = "gate"
             /\ run[proc[p].run].steps[proc[p].at].status = "none"
    <2>1. "cycle" \notin Outlived => Tracked(c, run[c.run])
      BY <1>1, <1>3, <1>4
    <2> QED
      BY <1>0, <1>1, <1>4, <2>1, CycleGoesOn DEF RunPCs
  <1>5. ASSUME NEW status \in {"completed", "failed", "blocked", "skipped"},
               SetStep(proc[p].run, proc[p].at, Step(status))
        PROVE  Inv'
    <2>1. Step(status) \in StepRows /\ Step(status).status = status
      BY StepsAre DEF Step, StepRows, StepStatuses, ResultStatuses
    <2>2. PICK e \in RunRecords :
               /\ run' = [run EXCEPT ![proc[p].run] = e]
               /\ e.status = run[proc[p].run].status
               /\ e.source = run[proc[p].run].source
               /\ e.steps[proc[p].at] = Step(status)
               /\ \A j \in Steps \ {proc[p].at} :
                      e.steps[j] = run[proc[p].run].steps[j]
      BY <1>2, <1>5, <2>1, SetStepIs
    <2>3. "cycle" \notin Outlived => Tracked(c, e)
      BY <1>3, <2>1, <2>2
    <2>4. late' = late /\ late' \in Nat
      BY <1>2 DEF Types
    <2>5. /\ c.pc \in RunPCs \ {"start"} /\ c.pc # "work"
          /\ proc[p].pc \in RunPCs /\ UNCHANGED <<lease, stop, stale, crashes>>
      BY <1>1 DEF RunPCs
    <2> QED
      BY <1>0, <1>1, <2>2, <2>3, <2>4, <2>5, RunStepKeeps
  <1> QED
    BY <1>4, <1>5

LEMMA SkipOrReturnKeeps ==
    ASSUME Inv, NEW p \in Procs,
           GateSkip(p) \/ (\E result \in Results : StepReturns(p, result))
    PROVE  Inv'
  <1>1. CASE GateSkip(p)
    <2>1. proc' = [proc EXCEPT ![p] = AfterStep(proc[p])]
      <3>1. Advance(p) /\ proc[p].pc = "gate"
        BY <1>1 DEF GateSkip, GateOpen
      <3>2. [proc[p] EXCEPT !.at = NextStep(proc[p].sel, proc[p].at)]
                = AfterStep(proc[p])
        BY <3>1, ProcType DEF AfterStep, ProcStates, Inv
      <3> QED
        BY <3>1, <3>2, Zenon DEF Advance
    <2>2. proc[p].pc = "gate" /\ proc[p].at \in Steps
      BY <1>1, GateAt DEF GateSkip
    <2>3. UNCHANGED <<lease, stop, stale, crashes, late>>
      BY <1>1 DEF GateSkip
    <2>4. \/ UNCHANGED run
             /\ run[proc[p].run].steps[proc[p].at].status = "none"
          \/ SetStep(proc[p].run, proc[p].at, Step("skipped"))
      BY <1>1 DEF GateSkip
    <2> QED
      BY <2>1, <2>2, <2>3, <2>4, NextStepKeeps
  <1>2. ASSUME NEW result \in Results, StepReturns(p, result) PROVE Inv'
    <2>1. proc' = [proc EXCEPT ![p] = AfterStep(proc[p])]
      BY <1>2, Zenon DEF StepReturns, AfterStep
    <2>2. proc[p].pc = "work" /\ proc[p].at \in Steps
      BY <1>2 DEF StepReturns, Inv, Known, Knows
    <2>3. UNCHANGED <<lease, stop, stale, crashes, late>>
      BY <1>2 DEF StepReturns
    <2>4. WorkflowStepStatus(result) \in {"completed", "failed", "blocked", "skipped"}
      BY DEF WorkflowStepStatus
    <2> QED
      BY <1>2, <2>1, <2>2, <2>3, <2>4, NextStepKeeps DEF StepReturns
  <1> QED
    BY <1>1, <1>2

\* A step is marked running before its work begins.
LEMMA StartStepKeeps ==
    ASSUME Inv, NEW p \in Procs, StartStep(p)
    PROVE  Inv'
  <1> DEFINE c == [proc[p] EXCEPT !.pc = "work"]
  <1>1. proc' = [proc EXCEPT ![p] = c] /\ proc[p].pc = "start"
        /\ proc[p].at \in Steps /\ UNCHANGED <<lease, stop, stale, crashes>>
        /\ SetStep(proc[p].run, proc[p].at, Step("running"))
    BY DEF StartStep, Goto, Inv, Known, Knows
  <1>2. /\ c \in ProcStates /\ c.pc = "work" /\ c.run = proc[p].run
        /\ c.src = proc[p].src /\ c.at = proc[p].at /\ c.sel = proc[p].sel
    BY ProcType, AtIs DEF PCs, Inv
  <1> HIDE DEF c
  <1>3. /\ proc[p].run \in Runs /\ Types
        /\ "cycle" \notin Outlived => Tracked(proc[p], run[proc[p].run])
    BY <1>1, AtStep DEF RunPCs
  <1>4. Step("running") \in StepRows /\ Step("running").status = "running"
    BY StepsAre DEF Step, StepRows, StepStatuses, ResultStatuses
  <1>5. PICK e \in RunRecords :
             /\ run' = [run EXCEPT ![proc[p].run] = e]
             /\ e.status = run[proc[p].run].status
             /\ e.source = run[proc[p].run].source
             /\ e.steps[proc[p].at] = Step("running")
             /\ \A j \in Steps \ {proc[p].at} :
                    e.steps[j] = run[proc[p].run].steps[j]
    BY <1>1, <1>3, <1>4, SetStepIs
  <1>6. ASSUME "cycle" \notin Outlived PROVE Tracked(c, e)
    <2>1. Tracked(proc[p], run[proc[p].run]) /\ e.status = "running"
      BY <1>3, <1>5, <1>6 DEF Tracked
    <2>2. ASSUME NEW i \in Steps, e.steps[i].status = "running"
          PROVE  i = proc[p].at
      BY <1>1, <1>5, <2>1, <2>2 DEF Tracked
    <2>3. ASSUME NEW i \in Steps, e.steps[i].status = "pending"
          PROVE  i \in c.sel /\ i > c.at
      <3>1. i # proc[p].at /\ run[proc[p].run].steps[i].status = "pending"
        BY <1>4, <1>5, <2>3
      <3>2. i \in proc[p].sel /\ i >= proc[p].at
        BY <1>1, <2>1, <3>1 DEF Tracked
      <3>3. i \in Nat /\ proc[p].at \in Nat
        BY <1>1, StepsAre
      <3> QED
        BY <1>2, <3>1, <3>2, <3>3
    <2> QED
      BY <1>2, <2>1, <2>2, <2>3 DEF Tracked
  <1>7. /\ late' \in Nat
        /\ \/ late' = late
           \/ stop /\ late' = late + 1
    BY <1>3 DEF StartStep, Types
  <1>8. c.pc \in RunPCs \ {"start"} /\ proc[p].pc \in RunPCs /\ c.at \in Steps
    BY <1>1, <1>2 DEF RunPCs
  <1> QED
    BY <1>1, <1>2, <1>5, <1>6, <1>7, <1>8, RunStepKeeps

\* The cycle is stopped at a gate, or its step raises.
LEMMA AbandonKeeps ==
    ASSUME Inv, NEW p \in Procs, GateStopped(p) \/ StepRaises(p)
    PROVE  Inv'
  <1>1. PICK status \in {"not_run", "failed"} :
            SetStep(proc[p].run, proc[p].at, Step(status))
    BY DEF GateStopped, StepRaises
  <1>2. PICK c \in ProcStates :
            /\ proc' = [proc EXCEPT ![p] = c]
            /\ c.pc = "sweep" /\ c.run = proc[p].run /\ c.src = proc[p].src
            /\ c.sel = proc[p].sel
    <2>1. proc[p] \in ProcStates /\ "sweep" \in PCs
          /\ "stopped" \in {"completed", "stopped", "failed"}
          /\ "failed" \in {"completed", "stopped", "failed"}
      BY ProcType DEF Inv, PCs
    <2>2. CASE GateStopped(p)
      <3> DEFINE c == [proc[p] EXCEPT !.pc = "sweep", !.outcome = "stopped"]
      <3>1. c \in ProcStates
        BY <2>1, Zenon DEF ProcStates
      <3>2. proc' = [proc EXCEPT ![p] = c]
        BY <2>2, Zenon DEF GateStopped
      <3>3. c.pc = "sweep" /\ c.run = proc[p].run /\ c.src = proc[p].src
            /\ c.sel = proc[p].sel
        BY <2>1, Zenon DEF ProcStates
      <3> HIDE DEF c
      <3> QED
        BY <3>1, <3>2, <3>3
    <2>3. CASE StepRaises(p)
      <3> DEFINE c == [proc[p] EXCEPT !.pc = "sweep", !.outcome = "failed",
                                      !.failed = proc[p].at]
      <3>0. proc[p].at \in 0..NSteps
        BY <2>3, StepsAre DEF StepRaises, Inv, Known, Knows, Steps
      <3>1. c \in ProcStates
        BY <2>1, <3>0, Zenon DEF ProcStates
      <3>2. proc' = [proc EXCEPT ![p] = c]
        BY <2>3, Zenon DEF StepRaises
      <3>3. c.pc = "sweep" /\ c.run = proc[p].run /\ c.src = proc[p].src
            /\ c.sel = proc[p].sel
        BY <2>1, Zenon DEF ProcStates
      <3> HIDE DEF c
      <3> QED
        BY <3>1, <3>2, <3>3
    <2> QED
      BY <2>2, <2>3
  <1>3. proc[p].pc \in {"gate", "work"} /\ proc[p].at \in Steps
        /\ UNCHANGED <<lease, stop, stale, crashes, late>>
    BY GateAt DEF GateStopped, StepRaises, Inv, Known, Knows
  <1>4. /\ proc[p].run \in Runs /\ Types
        /\ "cycle" \notin Outlived => Tracked(proc[p], run[proc[p].run])
    BY <1>3, AtStep DEF RunPCs
  <1>5. Step(status) \in StepRows /\ Step(status).status = status
    BY StepsAre DEF Step, StepRows, StepStatuses, ResultStatuses
  <1>6. PICK e \in RunRecords :
             /\ run' = [run EXCEPT ![proc[p].run] = e]
             /\ e.status = run[proc[p].run].status
             /\ e.source = run[proc[p].run].source
             /\ e.steps[proc[p].at] = Step(status)
             /\ \A j \in Steps \ {proc[p].at} :
                    e.steps[j] = run[proc[p].run].steps[j]
    BY <1>1, <1>3, <1>4, <1>5, SetStepIs
  <1>7. ASSUME "cycle" \notin Outlived PROVE Tracked(c, e)
    BY <1>2, <1>3, <1>4, <1>5, <1>6, <1>7 DEF Tracked
  <1>8. late' \in Nat /\ late' = late /\ c.pc \in RunPCs \ {"start"}
        /\ proc[p].pc \in RunPCs
    BY <1>2, <1>3, <1>4 DEF Types, RunPCs
  <1> QED
    BY <1>2, <1>3, <1>6, <1>7, <1>8, RunStepKeeps

\* The steps that an abandoned cycle leaves are marked one after the other.
LEMMA SweepKeeps ==
    ASSUME Inv, NEW p \in Procs, Sweep(p)
    PROVE  Inv'
  <1>1. /\ proc[p].pc = "sweep" /\ proc[p] \in ProcStates
        /\ UNCHANGED <<lease, stop, stale, crashes, late>>
    BY ProcType DEF Sweep, Inv
  <1>2. /\ proc[p].run \in Runs /\ Types
        /\ "cycle" \notin Outlived => Tracked(proc[p], run[proc[p].run])
    BY <1>1, AtStep DEF RunPCs
  <1>3. CASE Unswept(p) # {}
    <2> DEFINE i == First(Unswept(p))
    <2>1. Unswept(p) \subseteq Steps
      BY <1>1 DEF Unswept, ProcStates
    <2>2. i \in Unswept(p) /\ i \in Steps
      BY <1>3, <2>1, FirstIs, StepsAre
    <2>3. AbandonedStep(p) \in StepRows /\ AbandonedStep(p).status = "not_run"
      BY <1>1 DEF AbandonedStep, StepRows, StepStatuses, ResultStatuses,
                  ProcStates
    <2>4. SetStep(proc[p].run, i, AbandonedStep(p)) /\ proc' = proc
      BY <1>3 DEF Sweep
    <2> HIDE DEF i
    <2>5. PICK e \in RunRecords :
               /\ run' = [run EXCEPT ![proc[p].run] = e]
               /\ e.status = run[proc[p].run].status
               /\ e.source = run[proc[p].run].source
               /\ e.steps[i] = AbandonedStep(p)
               /\ \A j \in Steps \ {i} :
                      e.steps[j] = run[proc[p].run].steps[j]
      BY <1>2, <2>2, <2>3, <2>4, SetStepIs
    <2>6. ASSUME "cycle" \notin Outlived PROVE Tracked(proc[p], e)
      BY <1>1, <1>2, <2>3, <2>5, <2>6 DEF Tracked
    <2>7. proc' = [proc EXCEPT ![p] = proc[p]]
      BY <1>2, <2>4 DEF Types
    <2>8. late' \in Nat /\ late' = late /\ proc[p].pc \in RunPCs \ {"start"}
      BY <1>1, <1>2 DEF Types, RunPCs
    <2> QED
      BY <1>1, <2>5, <2>6, <2>7, <2>8, RunStepKeeps
  <1>4. CASE Unswept(p) = {}
    <2> DEFINE c == [proc[p] EXCEPT !.pc = "finish"]
    <2>1. proc' = [proc EXCEPT ![p] = c] /\ run' = run
      BY <1>4, Zenon DEF Sweep, Goto
    <2>2. /\ c \in ProcStates /\ c.pc = "finish" /\ c.run = proc[p].run
          /\ c.src = proc[p].src
      BY <1>1, AtIs DEF PCs
    <2> HIDE DEF c
    <2>3. ASSUME "cycle" \notin Outlived PROVE Tracked(c, run[c.run])
      <3>1. \A i \in Steps : run[proc[p].run].steps[i].status # "pending"
        <4> SUFFICES ASSUME NEW i \in Steps,
                            run[proc[p].run].steps[i].status = "pending"
                     PROVE  FALSE
          OBVIOUS
        <4>1. i \in proc[p].sel
          BY <1>2, <2>3 DEF Tracked
        <4>2. i \in Unswept(p)
          BY <4>1 DEF Unswept
        <4> QED
          BY <1>4, <4>2
      <3> QED
        BY <1>1, <1>2, <2>2, <2>3, <3>1 DEF Tracked
    <2>4. c.pc \in RunPCs /\ proc[p].pc \in RunPCs
      BY <1>1, <2>2 DEF RunPCs
    <2> QED
      BY <1>1, <2>1, <2>2, <2>3, <2>4, CycleGoesOn
  <1> QED
    BY <1>3, <1>4

\* A cycle creates its run; nothing else knows that run yet.
LEMMA CreateRunKeeps ==
    ASSUME Inv, NEW p \in Procs, NEW recorded \in SUBSET Steps,
           CreateRun(p, recorded)
    PROVE  Inv'
  <1> DEFINE absent == {x \in Runs : run[x].status = "absent"}
             r == First(absent)
             s == proc[p].src
             e == [status |-> "running", source |-> s,
                   depth |-> IF s = 0 THEN 0 ELSE run[s].depth + 1,
                   steps |-> FreshSteps(proc[p].sel, recorded)]
             c == [proc[p] EXCEPT !.pc = "gate", !.run = r,
                                  !.at = NextStep(proc[p].sel, 0)]
  <1>1. /\ proc[p].pc = "plan" /\ proc[p] \in ProcStates /\ Types
        /\ absent # {} /\ run' = [run EXCEPT ![r] = e]
        /\ proc' = [proc EXCEPT ![p] = c]
        /\ UNCHANGED <<lease, stop, stale, crashes, late>>
    BY ProcType DEF CreateRun, Inv
  <1>2. r \in Runs /\ run[r].status = "absent"
    <2>1. absent \subseteq Nat /\ absent \subseteq Runs
      BY BoundsAssumption DEF Runs
    <2>2. r \in absent
      BY <1>1, <2>1, FirstIs
    <2> QED
      BY <2>2
  <1> HIDE DEF absent, r
  <1>3. /\ \A i \in Steps : FreshSteps(proc[p].sel, recorded)[i] \in StepRows
        /\ \A i \in Steps :
               FreshSteps(proc[p].sel, recorded)[i].status \in {"none", "pending"}
        /\ \A i \in Steps :
               FreshSteps(proc[p].sel, recorded)[i].status = "pending" =>
                   i \in proc[p].sel
        /\ FreshSteps(proc[p].sel, recorded) \in [Steps -> StepRows]
    <2>1. Step("none") \in StepRows /\ Step("none").status = "none"
          /\ Step("pending") \in StepRows /\ Step("pending").status = "pending"
      BY StepsAre DEF Step, StepRows, StepStatuses, ResultStatuses
    <2> QED
      BY <2>1 DEF FreshSteps
  <1>4. s \in 0..MaxRuns /\ (s # 0 => s \in Runs)
    BY <1>1 DEF ProcStates, Runs
  <1>5. e \in RunRecords /\ e.status = "running" /\ e.source = s
        /\ e.steps = FreshSteps(proc[p].sel, recorded)
    <2>1. (IF s = 0 THEN 0 ELSE run[s].depth + 1) \in Nat
      BY <1>1, <1>4 DEF Types, RunRecords
    <2> QED
      BY <1>3, <1>4, <2>1 DEF RunRecords, RunStatuses
  <1>6. /\ NextStep(proc[p].sel, 0) \in 1..NSteps + 1
        /\ \A j \in proc[p].sel : j > 0 => j >= NextStep(proc[p].sel, 0)
    BY <1>1, NextStepIs, StepsAre DEF ProcStates
  <1>7. c \in ProcStates
    <2>1. NextStep(proc[p].sel, 0) \in 0..NSteps + 1 /\ "gate" \in PCs
          /\ r \in 0..MaxRuns
      BY <1>2, <1>6, StepsAre, BoundsAssumption DEF PCs, Runs
    <2> QED
      BY <1>1, <2>1, Zenon DEF ProcStates
  <1>8. c.pc = "gate" /\ c.run = r /\ c.at = NextStep(proc[p].sel, 0)
        /\ c.src = s /\ c.sel = proc[p].sel
    BY <1>1, Zenon DEF ProcStates
  <1> HIDE DEF s, e, c
  <1>9. /\ proc'[p] = c /\ \A q \in Procs \ {p} : proc'[q] = proc[q]
        /\ run'[r] = e /\ \A x \in Runs \ {r} : run'[x] = run[x]
    BY <1>1, <1>2 DEF Types
  <1>10. Types'
    BY <1>1, <1>2, <1>5, <1>7 DEF Types
  <1>11. Known'
    <2>1. \A q \in Procs \ {p} : Knows(proc[q])'
      BY <1>2, <1>5, <1>9, ProcType DEF Inv, Known, Knows, ProcStates
    <2>2. Knows(proc[p])'
      BY <1>2, <1>5, <1>6, <1>8, <1>9 DEF Knows, RunPCs
    <2> QED
      BY <2>1, <2>2 DEF Known
  <1>12. RetriesHeld' /\ CyclesHeld'
    <2>1. proc[p].src = s
      BY DEF s
    <2> QED
      BY <1>1, <1>8, <1>9, <2>1
         DEF Inv, RetriesHeld, Retrying, CyclesHeld, CyclePCs, RunPCs, Held,
             RunLease
  <1>13. ASSUME NEW x \in Runs
         PROVE  /\ x # s => Children(x)' = Children(x)
                /\ x = s => Children(x)' \subseteq Children(x) \cup {r}
    BY <1>2, <1>5, <1>9 DEF Children
  <1>14. ASSUME "run" \notin Outlived, s # 0
         PROVE  /\ Children(s) = {}
                /\ \A q \in Procs \ {p} :
                       proc[q].pc \in {"acquire", "plan"} => proc[q].src # s
    <2>1. proc[p].src = s
      BY DEF s
    <2>2. Children(s) = {}
      BY <1>1, <1>14, <2>1 DEF Inv, ChildlessYet, Childless
    <2>3. ASSUME NEW q \in Procs \ {p}, proc[q].pc \in {"acquire", "plan"},
                 proc[q].src = s
          PROVE  FALSE
      <3>1. Retrying(proc[p]) /\ Retrying(proc[q])
        BY <1>1, <1>14, <2>1, <2>3 DEF Retrying, CyclePCs
      <3>2. Held(RunLease(s), p) /\ Held(RunLease(s), q)
        BY <1>14, <2>1, <2>3, <3>1 DEF Inv, RetriesHeld
      <3> QED
        BY <2>3, <3>2 DEF Held
    <2> QED
      BY <2>2, <2>3
  <1>15. ChildlessYet'
    <2> SUFFICES ASSUME "run" \notin Outlived, NEW q \in Procs
                 PROVE  Childless(proc[q])'
      BY DEF ChildlessYet
    <2>1. CASE proc'[q].src # 0 /\ proc'[q].pc \in {"acquire", "plan"}
      <3>1. q # p /\ proc'[q] = proc[q]
        BY <1>8, <1>9, <2>1
      <3>2. PICK x \in Runs : x = proc[q].src
        BY <1>1, <2>1, <3>1, ProcType DEF ProcStates, Runs
      <3>3. Children(x) = {}
        BY <2>1, <3>1, <3>2 DEF Inv, ChildlessYet, Childless
      <3>4. x # s
        BY <1>14, <2>1, <3>1, <3>2
      <3>5. Children(x)' = {}
        BY <1>13, <3>3, <3>4
      <3> QED
        BY <3>1, <3>2, <3>5 DEF Childless, Children
    <2> QED
      BY <2>1 DEF Childless
  <1>16. OneChild'
    <2> SUFFICES ASSUME "run" \notin Outlived, NEW x \in Runs
                 PROVE  \A d1, d2 \in Children(x)' : d1 = d2
      BY DEF OneChild
    <2>1. x = s => s # 0
      BY BoundsAssumption DEF Runs
    <2> QED
      BY <1>13, <1>14, <2>1 DEF Inv, OneChild
  <1>17. ASSUME "cycle" \notin Outlived
         PROVE  \A q \in Procs \ {p} : proc[q].pc \notin RunPCs
    BY <1>1, <1>17 DEF Inv, CyclesHeld, CyclePCs, Held
  <1>18. CyclesTracked'
    <2>1. ASSUME "cycle" \notin Outlived PROVE Tracked(c, e)
      <3>1. \A i \in Steps : i > 0
        BY StepsAre
      <3> QED
        BY <1>3, <1>5, <1>6, <1>8, <3>1 DEF Tracked
    <2>2. CyclesTracked' <=>
             ("cycle" \notin Outlived =>
                \A q \in Procs :
                    proc'[q].pc \in RunPCs => Tracked(proc'[q], run'[proc'[q].run]))
      BY DEF CyclesTracked
    <2> QED
      BY <1>8, <1>9, <1>17, <2>1, <2>2
  <1>19. RunsApart'
    <2>1. \A q \in Procs : proc[q].pc = "finalize" => proc[q].run # r
      BY <1>2 DEF Inv, Known, Knows
    <2> QED
      BY <1>8, <1>9, <2>1 DEF Inv, RunsApart, Apart, RunPCs
  <1>20. RunsClosed' /\ RunsOwned'
    <2>1. RunsClosed'
      BY <1>5, <1>9 DEF Inv, RunsClosed, StepsClosed
    <2>2. RunsOwned'
      BY <1>1, <1>2, <1>8, <1>9 DEF Inv, RunsOwned, RunPCs
    <2> QED
      BY <2>1, <2>2
  <1>21. StopsCounted'
    BY <1>1, <1>8, <1>9 DEF Inv, StopsCounted
  <1> QED
    BY <1>10, <1>11, <1>12, <1>15, <1>16, <1>18, <1>19, <1>20, <1>21 DEF Inv

(***************************************************************************)
(* A run is closed, or its outcome is judged: row r becomes e and the      *)
(* process goes on as c, which is in no step of a cycle.                   *)
(***************************************************************************)
LEMMA CloseKeeps ==
    ASSUME Inv, NEW p \in Procs, NEW c \in ProcStates,
           NEW r \in Runs, NEW e \in RunRecords,
           proc' = [proc EXCEPT ![p] = c], run' = [run EXCEPT ![r] = e],
           UNCHANGED <<lease, stop, crashes, late>>, stale' \subseteq Runs,
           run[r].status # "absent", e.source = run[r].source,
           e.status \notin {"absent", "running"},
           c.pc \in {"release", "unlock", "inspect"}, c.src = proc[p].src,
           c.pc \in {"unlock", "inspect"} => proc[p].pc \notin RunPCs,
           c.pc = "release" => proc[p].pc \in RunPCs /\ proc[p].run = r,
           c.pc = "unlock" => proc[p].pc = "settle",
           c.pc = "inspect" => \A x \in c.queue : run[x].status # "absent",
           "cycle" \notin Outlived =>
               /\ StepsClosed(e)
               /\ \A q \in Procs \ {p} : proc[q].pc \in RunPCs => proc[q].run # r
    PROVE  Inv'
  <1>1. /\ proc'[p] = c /\ \A q \in Procs \ {p} : proc'[q] = proc[q]
        /\ run'[r] = e /\ \A x \in Runs \ {r} : run'[x] = run[x]
        /\ \A x \in Runs : /\ run'[x].source = run[x].source
                           /\ run'[x].status = "absent" <=>
                                  run[x].status = "absent"
    BY DEF Inv, Types
  <1>2. Types'
    BY DEF Inv, Types
  <1>3. Known'
    <2>1. \A q \in Procs \ {p} : Knows(proc[q])'
      BY <1>1, ProcType DEF Inv, Known, Knows, ProcStates
    <2>2. c.pc = "unlock" => c.src \in Runs
      BY DEF Inv, Known, Knows
    <2>3. \A x \in c.queue : x \in Runs
      BY DEF ProcStates
    <2>4. Knows(proc[p])'
      BY <1>1, <2>2, <2>3 DEF Knows, RunPCs
    <2> QED
      BY <2>1, <2>4 DEF Known
  <1>4. RetriesHeld'
    <2>1. Retrying(c) => Retrying(proc[p])
      BY DEF Retrying, CyclePCs, RunPCs
    <2> QED
      BY <1>1, <2>1 DEF Inv, RetriesHeld, Retrying, Held, RunLease
  <1>5. ChildlessYet' /\ OneChild'
    <2>1. \A x : Children(x)' = Children(x)
      BY <1>1 DEF Children
    <2>2. Childless(c)
      BY DEF Childless
    <2> QED
      BY <1>1, <2>1, <2>2 DEF Inv, ChildlessYet, Childless, OneChild
  <1>6. CyclesHeld'
    BY <1>1 DEF Inv, CyclesHeld, CyclePCs, RunPCs, Held
  <1>7. CyclesTracked'
    <2>1. c.pc \notin RunPCs
      BY DEF RunPCs
    <2>2. \A q \in Procs : proc[q].pc \in RunPCs => proc[q].run \in Runs
      BY DEF Inv, Known, Knows
    <2>3. CyclesTracked' <=>
             ("cycle" \notin Outlived =>
                \A q \in Procs :
                    proc'[q].pc \in RunPCs => Tracked(proc'[q], run'[proc'[q].run]))
      BY DEF CyclesTracked
    <2> QED
      BY <1>1, <2>1, <2>2, <2>3 DEF Inv, CyclesTracked
  <1>8. RunsApart'
    BY <1>1 DEF Inv, RunsApart, Apart, RunPCs
  <1>9. RunsClosed'
    BY <1>1 DEF Inv, RunsClosed, StepsClosed
  <1>10. RunsOwned'
    BY <1>1 DEF Inv, RunsOwned
  <1>11. StopsCounted'
    BY <1>1 DEF Inv, StopsCounted
  <1> QED
    BY <1>2, <1>3, <1>4, <1>5, <1>6, <1>7, <1>8, <1>9, <1>10, <1>11 DEF Inv

\* The cycle closes its run: every step of it has an outcome.
LEMMA FinishRunKeeps ==
    ASSUME Inv, NEW p \in Procs, FinishRun(p)
    PROVE  Inv'
  <1> DEFINE c == [proc[p] EXCEPT !.pc = "release"]
             r == proc[p].run
             e == [run[r] EXCEPT !.status = proc[p].outcome]
  <1>1. /\ proc[p].pc = "finish" /\ proc[p].pc \in RunPCs
        /\ stale' = stale \ {r} /\ UNCHANGED <<lease, stop, crashes, late>>
    BY DEF FinishRun, RunPCs
  <1>2. /\ proc[p] \in ProcStates /\ r \in Runs /\ run[r] \in RunRecords /\ Types
        /\ "cycle" \notin Outlived => Tracked(proc[p], run[r])
    BY <1>1, AtStep
  <1>3. proc' = [proc EXCEPT ![p] = c] /\ run' = [run EXCEPT ![r] = e]
    BY Zenon DEF FinishRun, Goto
  <1>4. c \in ProcStates /\ c.pc = "release" /\ c.src = proc[p].src
    BY <1>2, AtIs DEF PCs
  <1>5. /\ e \in RunRecords /\ e.source = run[r].source
        /\ e.steps = run[r].steps /\ e.status = proc[p].outcome
        /\ e.status \in {"completed", "stopped", "failed"}
    BY <1>2 DEF RunRecords, RunStatuses, ProcStates
  <1>6. run[r].status # "absent"
    BY <1>1 DEF Inv, Known, Knows
  <1>7. ASSUME "cycle" \notin Outlived
        PROVE  /\ StepsClosed(e)
               /\ \A q \in Procs \ {p} : proc[q].pc \notin RunPCs
    <2>1. StepsClosed(e)
      BY <1>1, <1>2, <1>5, <1>7 DEF Tracked, StepsClosed
    <2>2. \A q \in Procs \ {p} : proc[q].pc \notin RunPCs
      BY <1>1, <1>7 DEF Inv, CyclesHeld, CyclePCs, Held
    <2> QED
      BY <2>1, <2>2
  <1>8. stale' \subseteq Runs
    BY <1>1, <1>2 DEF Types
  <1> HIDE DEF c, e
  <1> QED
    BY <1>1, <1>2, <1>3, <1>4, <1>5, <1>6, <1>7, <1>8, CloseKeeps

\* A retry judges its run, which is closed whatever it says.
LEMMA SettleKeeps ==
    ASSUME Inv, NEW p \in Procs, Settle(p)
    PROVE  Inv'
  <1> DEFINE c == [proc[p] EXCEPT !.pc = "unlock"]
             r == proc[p].run
             e == [run[r] EXCEPT !.status = "completed_with_errors"]
  <1>1. /\ proc[p].pc = "settle" /\ proc[p].pc \notin RunPCs
        /\ proc[p] \in ProcStates /\ Types
        /\ UNCHANGED <<lease, stop, stale, crashes, late>>
    BY ProcType DEF Settle, RunPCs, Inv
  <1>2. proc' = [proc EXCEPT ![p] = c]
    BY Zenon DEF Settle, Goto
  <1>3. c \in ProcStates /\ c.pc = "unlock" /\ c.src = proc[p].src
    BY <1>1, AtIs DEF PCs
  <1>4. \/ run' = run
        \/ r # 0 /\ run[r].status = "completed" /\ run' = [run EXCEPT ![r] = e]
    <2>1. r # 0 /\ run[r].status = "completed" /\ run' # run =>
              run' = [run EXCEPT ![r].status = "completed_with_errors"]
      BY DEF Settle
    <2>2. [run EXCEPT ![r].status = "completed_with_errors"]
              = [run EXCEPT ![r] = e]
      BY Zenon
    <2>3. run' # run => r # 0 /\ run[r].status = "completed"
      BY DEF Settle
    <2> HIDE DEF e, r
    <2> QED
      BY <2>1, <2>2, <2>3
  <1>5. CASE run' = run
    <2>1. lease' \in [Leases -> LeaseRows] /\ Others(p)
      BY <1>1 DEF Types, Others
    <2>2. c.src \in Runs
      BY <1>1, <1>3 DEF Inv, Known, Knows
    <2>3. "run" \notin Outlived => Keeps(RunLease(c.src), p)
      <3>1. Retrying(proc[p])
        BY <1>1 DEF Retrying
      <3> QED
        BY <1>1, <1>3, <3>1, RetryHolds
    <2>4. /\ Knows(c) /\ Childless(c) /\ c.pc \notin CyclePCs
          /\ c.pc \notin RunPCs /\ c.pc # "start"
          /\ \A d : Apart(c, d) /\ Apart(d, c)
      BY <1>3, <2>2 DEF Knows, Childless, CyclePCs, RunPCs, Apart
    <2> HIDE DEF c
    <2> QED
      BY <1>1, <1>2, <1>3, <1>5, <2>1, <2>3, <2>4, MoveKeeps
  <1>6. CASE /\ r # 0 /\ run[r].status = "completed"
             /\ run' = [run EXCEPT ![r] = e]
    <2>1. r \in Runs /\ run[r] \in RunRecords
      BY <1>1, <1>6 DEF Types, ProcStates, Runs
    <2>2. /\ e \in RunRecords /\ e.source = run[r].source
          /\ e.steps = run[r].steps /\ e.status = "completed_with_errors"
      BY <2>1 DEF RunRecords, RunStatuses
    <2>3. ASSUME "cycle" \notin Outlived
          PROVE  /\ StepsClosed(e)
                 /\ \A q \in Procs \ {p} :
                        proc[q].pc \in RunPCs => proc[q].run # r
      <3>1. StepsClosed(run[r])
        BY <1>6, <2>1, <2>3 DEF Inv, RunsClosed
      <3>2. \A q \in Procs :
                proc[q].pc \in RunPCs => run[proc[q].run].status = "running"
        BY <2>3 DEF Inv, CyclesTracked, Tracked
      <3> HIDE DEF e, r
      <3> QED
        BY <1>6, <2>2, <3>1, <3>2 DEF StepsClosed
    <2>4. stale' \subseteq Runs
      BY <1>1 DEF Types
    <2> HIDE DEF c, e, r
    <2> QED
      BY <1>1, <1>2, <1>3, <1>6, <2>1, <2>2, <2>3, <2>4, CloseKeeps
  <1> QED
    BY <1>4, <1>5, <1>6

\* The scheduler closes a run as interrupted: it is no living cycle's.
LEMMA FinalizeKeeps ==
    ASSUME Inv, NEW p \in Procs, Finalize(p)
    PROVE  Inv'
  <1> DEFINE r == proc[p].run
             steps == [i \in Steps |-> Interrupted(run[r].steps[i])]
             e == [run[r] EXCEPT !.status = "failed", !.steps = steps]
             queue == proc[p].queue \ {r}
             c == [proc[p] EXCEPT !.pc = "inspect", !.run = 0, !.queue = queue]
  <1>1. /\ proc[p].pc = "finalize" /\ proc[p].pc \notin RunPCs
        /\ proc[p] \in ProcStates /\ Types
        /\ stale' = stale \ {r} /\ UNCHANGED <<lease, stop, crashes, late>>
    BY ProcType DEF Finalize, RunPCs, Inv
  <1>2. proc' = [proc EXCEPT ![p] = c] /\ run' = [run EXCEPT ![r] = e]
    BY Zenon DEF Finalize
  <1>3. r \in Runs /\ run[r].status # "absent" /\ run[r] \in RunRecords
        /\ \A x \in queue : run[x].status # "absent"
    BY <1>1 DEF Inv, Known, Knows, Types, ProcStates
  <1>4. steps \in [Steps -> StepRows]
        /\ \A i \in Steps : steps[i].status \notin {"pending", "running"}
    <2>1. ASSUME NEW i \in Steps
          PROVE  /\ Interrupted(run[r].steps[i]) \in StepRows
                 /\ Interrupted(run[r].steps[i]).status
                        \notin {"pending", "running"}
      <3>1. run[r].steps[i] \in StepRows
        BY <1>3 DEF RunRecords
      <3> QED
        BY <3>1 DEF Interrupted, StepRows, StepStatuses, ResultStatuses
    <2> QED
      BY <2>1
  <1> HIDE DEF steps
  <1>5. /\ e \in RunRecords /\ e.source = run[r].source
        /\ e.steps = steps /\ e.status = "failed"
    BY <1>3, <1>4 DEF RunRecords, RunStatuses
  <1>6. c \in ProcStates
    <2>1. "inspect" \in PCs /\ 0 \in 0..MaxRuns /\ queue \in SUBSET Runs
      BY <1>1, BoundsAssumption DEF PCs, ProcStates
    <2> HIDE DEF queue
    <2> QED
      BY <1>1, <2>1, Zenon DEF ProcStates
  <1>7. c.pc = "inspect" /\ c.src = proc[p].src /\ c.queue = queue
    BY <1>1, Zenon DEF ProcStates
  <1>8. "cycle" \notin Outlived =>
            /\ StepsClosed(e)
            /\ \A q \in Procs \ {p} : proc[q].pc \in RunPCs => proc[q].run # r
    BY <1>1, <1>4, <1>5 DEF StepsClosed, Inv, RunsApart, Apart
  <1>9. stale' \subseteq Runs
    BY <1>1 DEF Types
  <1> HIDE DEF c, e, r, queue
  <1> QED
    BY <1>1, <1>2, <1>3, <1>5, <1>6, <1>7, <1>8, <1>9, CloseKeeps

-----------------------------------------------------------------------------
\* A retry returns to the scheduler's list, or to its caller.
LEMMA EndRetryKeeps ==
    ASSUME Inv, NEW p \in Procs, EndRetry(p), proc[p].pc \in {"lock", "unlock"},
           UNCHANGED <<stop, run, stale, crashes, late>>,
           lease' \in [Leases -> LeaseRows], Others(p)
    PROVE  Inv'
  <1> DEFINE d == [IdleState EXCEPT !.pc = "due", !.due = TRUE,
                                    !.queue = proc[p].queue]
             c == IF proc[p].due THEN d ELSE IdleState
  <1>1. proc' = [proc EXCEPT ![p] = c]
    BY Zenon DEF EndRetry
  <1>2. proc[p].queue \in SUBSET Runs /\ proc[p].pc \notin RunPCs
    BY ProcType DEF Inv, ProcStates, RunPCs
  <1>3. d \in ProcStates
    <2>1. "due" \in PCs /\ TRUE \in BOOLEAN
      BY DEF PCs
    <2> QED
      BY <1>2, <2>1, IdleType, Zenon DEF ProcStates
  <1>4. d.pc = "due" /\ IdleState.pc = "idle"
    BY DEF IdleState
  <1> HIDE DEF d
  <1>5. c \in ProcStates /\ c.pc \in {"idle", "due"}
    BY <1>3, <1>4, IdleType
  <1> HIDE DEF c
  <1> QED
    BY <1>1, <1>2, <1>5, RestKeeps

LEMMA LockRunKeeps ==
    ASSUME Inv, NEW p \in Procs, LockRun(p)
    PROVE  Inv'
  <1> DEFINE n == RunLease(proc[p].src)
  <1>1. /\ proc[p].pc = "lock" /\ proc[p] \in ProcStates /\ Types
        /\ proc[p].src \in Runs /\ n \in Leases
        /\ UNCHANGED <<stop, run, stale, crashes, late>>
    BY ProcType, LeaseNames DEF LockRun, Inv, Known, Knows
  <1>2. CASE ~Acquirable(n)
    <2>1. lease' \in [Leases -> LeaseRows] /\ Others(p) /\ EndRetry(p)
      BY <1>1, <1>2 DEF LockRun, Types, Others
    <2> QED
      BY <1>1, <2>1, EndRetryKeeps
  <1>3. CASE Acquirable(n)
    <2> DEFINE c == [proc[p] EXCEPT !.pc = "replan"]
    <2>1. proc' = [proc EXCEPT ![p] = c] /\ Acquire(n, p)
      BY <1>3, Zenon DEF LockRun, Goto
    <2>2. c \in ProcStates /\ c.pc = "replan" /\ c.src = proc[p].src
      BY <1>1, AtIs DEF PCs
    <2> HIDE DEF c
    <2>3. lease' \in [Leases -> LeaseRows] /\ Others(p) /\ Keeps(n, p)
      BY <1>1, <1>3, <2>1, AcquireIs
    <2>4. Keeps(RunLease(c.src), p)
      BY <2>2, <2>3 DEF Keeps, RunLease
    <2>5. /\ Knows(c) /\ Childless(c) /\ c.pc \notin CyclePCs
          /\ c.pc \notin RunPCs /\ c.pc # "start" /\ proc[p].pc \notin RunPCs
          /\ \A d : Apart(c, d) /\ Apart(d, c)
      BY <1>1, <2>2 DEF Knows, Childless, CyclePCs, RunPCs, Apart
    <2> QED
      BY <1>1, <2>1, <2>2, <2>3, <2>4, <2>5, MoveKeeps
  <1> QED
    BY <1>2, <1>3

\* With the lease of the run a retry looks again: only now does it know that
\* the run has no recovery yet.
LEMMA ReplanKeeps ==
    ASSUME Inv, NEW p \in Procs, Replan(p)
    PROVE  Inv'
  <1> DEFINE r == proc[p].src
             f == FailedStep(r)
             sel == {f} \cup Resumable(r, f)
  <1>1. /\ proc[p].pc = "replan" /\ proc[p] \in ProcStates /\ r \in Runs
        /\ UNCHANGED <<lease, stop, run, stale, crashes, late>>
    BY ProcType DEF Replan, Inv, Known, Knows
  <1>2. lease' \in [Leases -> LeaseRows] /\ Others(p)
        /\ proc[p].pc \notin RunPCs
    BY <1>1 DEF Inv, Types, Others, RunPCs
  <1>3. "run" \notin Outlived => Keeps(RunLease(proc[p].src), p)
    BY <1>1, RetryHolds DEF Retrying
  <1>4. CASE Goto(p, "unlock")
    <2> DEFINE c == [proc[p] EXCEPT !.pc = "unlock"]
    <2>1. proc' = [proc EXCEPT ![p] = c]
      BY <1>4, Zenon DEF Goto
    <2>2. c \in ProcStates /\ c.pc = "unlock" /\ c.src = r
      BY <1>1, AtIs DEF PCs
    <2> HIDE DEF c
    <2>3. /\ Knows(c) /\ Childless(c) /\ c.pc \notin CyclePCs
          /\ c.pc \notin RunPCs /\ c.pc # "start"
          /\ \A d : Apart(c, d) /\ Apart(d, c)
      BY <1>1, <2>2 DEF Knows, Childless, CyclePCs, RunPCs, Apart
    <2>4. "run" \notin Outlived => Keeps(RunLease(c.src), p)
      BY <1>3, <2>2 DEF Keeps, RunLease
    <2> QED
      BY <1>1, <1>2, <2>1, <2>2, <2>3, <2>4, MoveKeeps
  <1>5. CASE CanRetry(r) /\ ~Goto(p, "unlock")
    <2> DEFINE c == [proc[p] EXCEPT !.pc = "acquire", !.retry = f, !.sel = sel]
    <2>1. proc' = [proc EXCEPT ![p] = c]
      BY <1>5, Zenon DEF Replan
    <2>2. f \in 0..NSteps /\ f # 0 /\ Children(r) = {}
      BY <1>1, <1>5, FailedStepIs DEF CanRetry
    <2>3. sel \in SUBSET Steps
      <3>1. f \in Steps
        BY <2>2, StepsAre DEF Steps
      <3>2. Resumable(r, f) \subseteq Steps
        BY DEF Resumable
      <3> QED
        BY <3>1, <3>2
    <2> HIDE DEF f, sel
    <2>4. c \in ProcStates
      <3>1. "acquire" \in PCs
        BY DEF PCs
      <3> QED
        BY <1>1, <2>2, <2>3, <3>1, Zenon DEF ProcStates
    <2>5. c.pc = "acquire" /\ c.src = r
      BY <1>1, Zenon DEF ProcStates
    <2> HIDE DEF c
    <2>6. /\ Knows(c) /\ c.pc \notin CyclePCs
          /\ c.pc \notin RunPCs /\ c.pc # "start"
          /\ \A d : Apart(c, d) /\ Apart(d, c)
      BY <2>5 DEF Knows, CyclePCs, RunPCs, Apart
    <2>7. Childless(c)
      BY <2>2, <2>5 DEF Childless, Children
    <2>8. "run" \notin Outlived => Keeps(RunLease(c.src), p)
      BY <1>3, <2>5 DEF Keeps, RunLease
    <2> QED
      BY <1>1, <1>2, <2>1, <2>4, <2>6, <2>7, <2>8, MoveKeeps
  <1> QED
    BY <1>4, <1>5 DEF Replan

LEMMA UnlockRunKeeps ==
    ASSUME Inv, NEW p \in Procs, UnlockRun(p)
    PROVE  Inv'
  <1>1. RunLease(proc[p].src) \in Leases /\ Types /\ proc[p].pc = "unlock"
    BY LeaseNames DEF UnlockRun, Inv, Known, Knows
  <1>2. lease' \in [Leases -> LeaseRows] /\ Others(p)
    BY <1>1, ReleaseIs DEF UnlockRun
  <1> QED
    BY <1>1, <1>2, EndRetryKeeps DEF UnlockRun

-----------------------------------------------------------------------------
\* The scheduler goes on in its scan.
LEMMA ScanGoesOn ==
    ASSUME Inv, NEW p \in Procs, NEW c \in ProcStates,
           proc' = [proc EXCEPT ![p] = c],
           UNCHANGED <<lease, stop, run, stale, crashes, late>>,
           proc[p].pc \in {"scan", "inspect"},
           c.pc \in {"inspect", "finalize", "candidates"},
           c.src # 0 => proc[p].src # 0,
           \A r \in c.queue : run[r].status # "absent",
           c.pc = "finalize" =>
               c.run \in c.queue /\ ~lease[CycleLease].live
    PROVE  Inv'
  <1>1. lease' \in [Leases -> LeaseRows] /\ Others(p)
    BY DEF Inv, Types, Others
  <1>2. /\ Knows(c) /\ Childless(c) /\ ~Retrying(c) /\ c.pc \notin CyclePCs
        /\ c.pc \notin RunPCs /\ c.pc # "start" /\ proc[p].pc \notin RunPCs
    BY DEF Knows, Childless, Retrying, CyclePCs, RunPCs
  <1>3. "cycle" \notin Outlived =>
            \A q \in Procs \ {p} : Apart(c, proc[q]) /\ Apart(proc[q], c)
    BY <1>2 DEF Inv, CyclesHeld, CyclePCs, Held, Apart
  <1> QED
    BY <1>1, <1>2, <1>3, MoveKeeps

LEMMA ScanKeeps ==
    ASSUME Inv, NEW p \in Procs, Scan(p) \/ Inspect(p)
    PROVE  Inv'
  <1>1. /\ proc[p] \in ProcStates /\ Types
        /\ proc[p].queue \in SUBSET Runs /\ stale \subseteq Runs
        /\ UNCHANGED <<lease, stop, run, stale, crashes, late>>
    BY ProcType DEF Scan, Inspect, Inv, Types, ProcStates
  <1>2. CASE Scan(p)
    <2> DEFINE queue == {r \in stale : run[r].status = "running"}
               c == [proc[p] EXCEPT !.pc = "inspect", !.queue = queue]
    <2>1. proc' = [proc EXCEPT ![p] = c] /\ proc[p].pc = "scan"
      BY <1>2, Zenon DEF Scan
    <2>2. queue \in SUBSET Runs /\ "inspect" \in PCs
          /\ \A r \in queue : run[r].status # "absent"
      BY <1>1 DEF PCs
    <2> HIDE DEF queue
    <2>3. c \in ProcStates
      BY <1>1, <2>2, Zenon DEF ProcStates
    <2>4. c.pc = "inspect" /\ c.queue = queue /\ c.src = proc[p].src
      BY <1>1, Zenon DEF ProcStates
    <2> HIDE DEF c
    <2> QED
      BY <1>1, <2>1, <2>2, <2>3, <2>4, ScanGoesOn
  <1>3. CASE Inspect(p)
    <2> DEFINE r == First(proc[p].queue)
    <2>1. /\ proc[p].pc = "inspect"
          /\ \A x \in proc[p].queue : run[x].status # "absent"
      BY <1>3 DEF Inspect, Inv, Known, Knows
    <2>2. CASE proc[p].queue = {}
      <3> DEFINE c == [proc[p] EXCEPT !.pc = "candidates"]
      <3>1. proc' = [proc EXCEPT ![p] = c]
        BY <1>3, <2>2, Zenon DEF Inspect, Goto
      <3>2. /\ c \in ProcStates /\ c.pc = "candidates"
            /\ c.queue = proc[p].queue /\ c.src = proc[p].src
        BY <1>1, AtIs DEF PCs
      <3> HIDE DEF c
      <3> QED
        BY <1>1, <2>1, <3>1, <3>2, ScanGoesOn
    <2>3. CASE proc[p].queue # {} /\ lease[CycleLease].live
      <3> DEFINE queue == proc[p].queue \ {r}
                 c == [proc[p] EXCEPT !.queue = queue]
      <3>1. proc' = [proc EXCEPT ![p] = c]
        BY <1>3, <2>3, Zenon DEF Inspect
      <3>2. queue \in SUBSET Runs /\ queue \subseteq proc[p].queue
        BY <1>1
      <3> HIDE DEF queue
      <3>3. c \in ProcStates
        BY <1>1, <3>2, Zenon DEF ProcStates
      <3>4. c.pc = "inspect" /\ c.queue = queue /\ c.src = proc[p].src
        BY <1>1, <2>1, Zenon DEF ProcStates
      <3>5. \A x \in c.queue : run[x].status # "absent"
        BY <2>1, <3>2, <3>4
      <3> HIDE DEF c
      <3> QED
        BY <1>1, <2>1, <3>1, <3>3, <3>4, <3>5, ScanGoesOn
    <2>4. CASE proc[p].queue # {} /\ ~lease[CycleLease].live
      <3> DEFINE c == [proc[p] EXCEPT !.pc = "finalize", !.run = r]
      <3>1. proc' = [proc EXCEPT ![p] = c]
        BY <1>3, <2>4, Zenon DEF Inspect
      <3>2. r \in proc[p].queue
        <4>1. proc[p].queue \subseteq Nat
          BY <1>1, BoundsAssumption DEF Runs
        <4> QED
          BY <2>4, <4>1, FirstIs
      <3>3. r \in 0..MaxRuns /\ "finalize" \in PCs
        BY <1>1, <3>2, BoundsAssumption DEF PCs, Runs
      <3> HIDE DEF r
      <3>4. c \in ProcStates
        BY <1>1, <3>3, Zenon DEF ProcStates
      <3>5. c.pc = "finalize" /\ c.queue = proc[p].queue /\ c.run = r
            /\ c.src = proc[p].src
        BY <1>1, Zenon DEF ProcStates
      <3> HIDE DEF c
      <3> QED
        BY <1>1, <2>1, <2>4, <3>1, <3>2, <3>4, <3>5, ScanGoesOn
    <2> QED
      BY <2>2, <2>3, <2>4
  <1> QED
    BY <1>2, <1>3

\* The candidates are taken in turn; the list ends.
LEMMA DueKeeps ==
    ASSUME Inv, NEW p \in Procs,
           \/ \E due \in SUBSET Runs : PlanDue(p, due)
           \/ \E r \in Runs : RetryDue(p, r)
           \/ EndDue(p)
    PROVE  Inv'
  <1>1. /\ proc[p] \in ProcStates /\ Types /\ proc[p].queue \in SUBSET Runs
        /\ proc[p].pc \notin RunPCs
        /\ UNCHANGED <<stop, run, stale, crashes, late>>
    BY ProcType DEF PlanDue, RetryDue, EndDue, Inv, ProcStates, RunPCs
  <1>2. CASE UNCHANGED lease /\ ~EndDue(p)
    <2>1. lease' \in [Leases -> LeaseRows] /\ Others(p)
      BY <1>1, <1>2 DEF Types, Others
    <2>2. ASSUME NEW due \in SUBSET Runs, PlanDue(p, due) PROVE Inv'
      <3> DEFINE c == [proc[p] EXCEPT !.pc = "due", !.queue = due]
      <3>1. proc' = [proc EXCEPT ![p] = c]
        BY <2>2, Zenon DEF PlanDue
      <3>2. "due" \in PCs
        BY DEF PCs
      <3>3. c \in ProcStates
        BY <1>1, <3>2, Zenon DEF ProcStates
      <3>4. c.pc = "due"
        BY <1>1, Zenon DEF ProcStates
      <3> HIDE DEF c
      <3> QED
        BY <1>1, <2>1, <3>1, <3>3, <3>4, RestKeeps
    <2>3. ASSUME NEW r \in Runs, RetryDue(p, r) PROVE Inv'
      <3> DEFINE queue == proc[p].queue \ {r}
                 pc == IF CanRetry(r) THEN "lock" ELSE "due"
                 src == IF CanRetry(r) THEN r ELSE 0
                 c == [proc[p] EXCEPT !.queue = queue, !.pc = pc, !.src = src]
      <3>1. proc' = [proc EXCEPT ![p] = c]
        BY <2>3, Zenon DEF RetryDue
      <3>2. /\ queue \in SUBSET Runs /\ pc \in PCs /\ src \in 0..MaxRuns
            /\ pc = "due" \/ (pc = "lock" /\ src \in Runs)
        BY <1>1, BoundsAssumption DEF PCs, Runs
      <3> HIDE DEF queue, pc, src
      <3>3. c \in ProcStates
        BY <1>1, <3>2, Zenon DEF ProcStates
      <3>4. c.pc = pc /\ c.src = src
        BY <1>1, Zenon DEF ProcStates
      <3> HIDE DEF c
      <3> QED
        BY <1>1, <2>1, <3>1, <3>2, <3>3, <3>4, RestKeeps
    <2> QED
      BY <1>2, <2>2, <2>3
  <1>3. CASE EndDue(p)
    <2>1. lease' \in [Leases -> LeaseRows] /\ Others(p)
          /\ proc' = [proc EXCEPT ![p] = IdleState] /\ IdleState.pc = "idle"
      BY <1>1, <1>3, LeaseNames, ReleaseIs DEF EndDue, IdleState
    <2> QED
      BY <1>1, <2>1, IdleType, RestKeeps
  <1> QED
    BY <1>2, <1>3 DEF PlanDue, RetryDue

-----------------------------------------------------------------------------
\* A process is gone: it dies, or it has cleared the stop.
LEMMA LeaveKeeps ==
    ASSUME Inv, NEW p \in Procs,
           proc' = [proc EXCEPT ![p] = IdleState], UNCHANGED <<run, stale>>,
           lease' \in [Leases -> LeaseRows], Others(p),
           stop' \in BOOLEAN, late' \in Nat, crashes' \in Nat,
           \/ UNCHANGED <<stop, late>> /\ crashes' # 0
           \/ /\ late' = 0 /\ crashes' = crashes
              /\ proc[p].pc \notin RunPCs
    PROVE  Inv'
  <1>1. /\ proc'[p] = IdleState /\ IdleState.pc = "idle" /\ IdleState.src = 0
        /\ \A q \in Procs \ {p} : proc'[q] = proc[q]
    BY DEF Inv, Types, IdleState
  <1>2. Types'
    BY IdleType DEF Inv, Types
  <1>3. Known'
    <2>1. \A q \in Procs \ {p} : Knows(proc[q])'
      BY <1>1 DEF Inv, Known, Knows
    <2>2. Knows(proc[p])'
      BY <1>1 DEF Knows, RunPCs
    <2> QED
      BY <2>1, <2>2 DEF Known
  <1>4. RetriesHeld'
    <2> SUFFICES ASSUME "run" \notin Outlived, NEW q \in Procs,
                        Retrying(proc[q])'
                 PROVE  Held(RunLease(proc[q].src), q)'
      BY DEF RetriesHeld
    <2>1. q # p /\ proc'[q] = proc[q]
      BY <1>1 DEF Retrying, CyclePCs, RunPCs
    <2>2. Retrying(proc[q])
      BY <2>1 DEF Retrying
    <2>3. Held(RunLease(proc[q].src), q)
      BY <2>2 DEF Inv, RetriesHeld
    <2>4. proc[q].src \in Runs
      BY <2>2, ProcType DEF Inv, Known, Knows, Retrying, ProcStates, Runs
    <2> QED
      BY <2>1, <2>3, <2>4, LeaseNames DEF Others, Held, RunLease
  <1>5. ChildlessYet' /\ OneChild'
    <2>1. \A x : Children(x)' = Children(x)
      BY DEF Children
    <2> QED
      BY <1>1, <2>1 DEF Inv, ChildlessYet, Childless, OneChild
  <1>6. CyclesHeld'
    BY <1>1, LeaseNames DEF Inv, CyclesHeld, CyclePCs, RunPCs, Others, Held
  <1>7. CyclesTracked' /\ RunsClosed'
    BY <1>1 DEF Inv, CyclesTracked, RunsClosed, StepsClosed, Tracked, RunPCs
  <1>8. RunsApart'
    BY <1>1 DEF Inv, RunsApart, Apart, RunPCs
  <1>9. RunsOwned'
    BY <1>1 DEF Inv, RunsOwned
  <1>10. StopsCounted'
    BY <1>1 DEF Inv, StopsCounted
  <1> QED
    BY <1>2, <1>3, <1>4, <1>5, <1>6, <1>7, <1>8, <1>9, <1>10 DEF Inv

LEMMA ClearWriteKeeps ==
    ASSUME Inv, NEW p \in Procs, ClearWrite(p)
    PROVE  Inv'
  <1>1. lease' \in [Leases -> LeaseRows] /\ Others(p)
    BY DEF ClearWrite, Inv, Types, Others
  <1>2. stop' \in BOOLEAN /\ late' \in Nat /\ crashes' \in Nat
    BY DEF ClearWrite, Inv, Types
  <1> QED
    BY <1>1, <1>2, LeaveKeeps DEF ClearWrite, RunPCs

LEMMA CrashKeeps ==
    ASSUME Inv, NEW p \in Procs, Crash(p)
    PROVE  Inv'
  <1>1. lease' \in [Leases -> LeaseRows] /\ Others(p)
    <2>1. ASSUME NEW n \in Leases
          PROVE  /\ lease'[n] \in LeaseRows
                 /\ lease[n].owner # p => lease'[n] = lease[n]
      BY DEF Crash, Inv, Types, LeaseRows
    <2>2. lease' = [n \in Leases |-> lease'[n]]
      BY DEF Crash
    <2> QED
      BY <2>1, <2>2 DEF Others, Held
  <1>2. /\ stop' \in BOOLEAN /\ late' \in Nat /\ crashes' \in Nat
        /\ crashes' # 0
    BY DEF Crash, Inv, Types
  <1> QED
    BY <1>1, <1>2, LeaveKeeps DEF Crash

\* The operator engages the stop, a run grows old, a lease runs out.
LEMMA EngageKeeps ==
    ASSUME Inv, Engage \/ (\E r \in Runs : GoStale(r))
    PROVE  Inv'
  <1>1. /\ UNCHANGED <<lease, run, proc, crashes>> /\ stale' \subseteq Runs
        /\ stop' \in BOOLEAN /\ late' \in Nat
        /\ \/ stop' = TRUE /\ late' = 0
           \/ UNCHANGED <<stop, late>>
    <2>1. stop \in BOOLEAN /\ late \in Nat /\ stale \subseteq Runs
      BY DEF Inv, Types
    <2>2. CASE Engage
      BY <2>1, <2>2 DEF Engage
    <2>3. CASE \E r \in Runs : GoStale(r)
      BY <2>1, <2>3 DEF GoStale
    <2> QED
      BY <2>2, <2>3
  <1>2. Types' /\ Known'
    BY <1>1 DEF Inv, Types, Known, Knows
  <1>3. RetriesHeld' /\ CyclesHeld' /\ ChildlessYet' /\ OneChild'
    BY <1>1 DEF Inv, RetriesHeld, Retrying, CyclesHeld, Held, ChildlessYet,
                Childless, OneChild, Children, RunLease
  <1>4. CyclesTracked' /\ RunsClosed' /\ RunsApart' /\ RunsOwned'
    BY <1>1 DEF Inv, CyclesTracked, RunsClosed, RunsApart, RunsOwned, Tracked,
                StepsClosed, Apart
  <1>5. StopsCounted'
    BY <1>1 DEF Inv, StopsCounted
  <1> QED
    BY <1>2, <1>3, <1>4, <1>5 DEF Inv

LEMMA ExpireKeeps ==
    ASSUME Inv, NEW n \in Leases, Expire(n)
    PROVE  Inv'
  <1>1. /\ UNCHANGED <<stop, run, stale, proc, crashes, late>>
        /\ \A m \in Leases \ {n} : lease'[m] = lease[m]
        /\ lease' \in [Leases -> LeaseRows]
    <2> DEFINE e == [lease[n] EXCEPT !.live = FALSE]
    <2>1. lease' = [lease EXCEPT ![n] = e]
      BY Zenon DEF Expire
    <2>2. e \in LeaseRows
      BY DEF Inv, Types, LeaseRows
    <2> HIDE DEF e
    <2> QED
      BY <2>1, <2>2 DEF Expire, Inv, Types
  <1>2. ASSUME NEW q \in Procs, Held(n, q) PROVE n[1] \in Outlived
    BY <1>2, ProcsAssumption DEF Held, Expire
  <1>3. RetriesHeld'
    <2> SUFFICES ASSUME "run" \notin Outlived, NEW q \in Procs,
                        Retrying(proc[q])
                 PROVE  Held(RunLease(proc[q].src), q)'
      BY <1>1 DEF RetriesHeld, Retrying
    <2>1. Held(RunLease(proc[q].src), q)
      BY DEF Inv, RetriesHeld
    <2>2. proc[q].src \in Runs
      BY ProcType DEF Inv, Known, Knows, Retrying, ProcStates, Runs
    <2>3. n # RunLease(proc[q].src)
      BY <1>2, <2>1 DEF RunLease
    <2> QED
      BY <1>1, <2>1, <2>2, <2>3, LeaseNames DEF Held, RunLease
  <1>4. CyclesHeld'
    <2> SUFFICES ASSUME "cycle" \notin Outlived, NEW q \in Procs,
                        proc[q].pc \in CyclePCs
                 PROVE  Held(CycleLease, q)'
      BY <1>1 DEF CyclesHeld
    <2>1. Held(CycleLease, q)
      BY DEF Inv, CyclesHeld
    <2>2. n # CycleLease
      BY <1>2, <2>1 DEF CycleLease
    <2> QED
      BY <1>1, <2>1, <2>2, LeaseNames DEF Held
  <1>5. Types' /\ Known'
    BY <1>1 DEF Inv, Types, Known, Knows
  <1>6. ChildlessYet' /\ OneChild'
    BY <1>1 DEF Inv, ChildlessYet, Childless, OneChild, Children
  <1>7. CyclesTracked' /\ RunsClosed' /\ RunsApart' /\ RunsOwned'
    BY <1>1 DEF Inv, CyclesTracked, RunsClosed, RunsApart, RunsOwned, Tracked,
                StepsClosed, Apart
  <1>8. StopsCounted'
    BY <1>1 DEF Inv, StopsCounted
  <1> QED
    BY <1>3, <1>4, <1>5, <1>6, <1>7, <1>8 DEF Inv

-----------------------------------------------------------------------------
LEMMA InitInv == ASSUME Init PROVE Inv
  <1> DEFINE row == [status |-> "absent", source |-> 0, depth |-> 0,
                     steps |-> [i \in Steps |-> Step("none")]]
  <1>1. row \in RunRecords /\ row.status = "absent" /\ StepsClosed(row)
    BY StepsAssumption, BoundsAssumption
       DEF RunRecords, RunStatuses, Step, StepRows, StepStatuses,
           ResultStatuses, StepsClosed
  <1>2. run = [r \in Runs |-> row]
    BY DEF Init
  <1> HIDE DEF row
  <1>3. \A r \in Runs : run[r] = row /\ Children(r) = {}
    BY <1>1, <1>2 DEF Children
  <1>4. Unheld \in LeaseRows
    BY DEF Unheld, LeaseRows
  <1>5. Types
    BY <1>1, <1>2, <1>4, IdleType DEF Init, Types
  <1>6. \A p \in Procs : proc[p] = IdleState
    BY DEF Init
  <1>7. IdleState.pc = "idle" /\ IdleState.src = 0
    BY DEF IdleState
  <1>8. Known /\ RetriesHeld /\ ChildlessYet /\ CyclesHeld /\ CyclesTracked
        /\ RunsApart
    BY <1>6, <1>7
       DEF Known, Knows, RetriesHeld, Retrying, ChildlessYet, Childless,
           CyclesHeld, CyclesTracked, RunsApart, Apart, RunPCs, CyclePCs
  <1>9. OneChild /\ RunsClosed /\ RunsOwned
    BY <1>1, <1>3 DEF OneChild, RunsClosed, RunsOwned
  <1>10. StopsCounted
    BY <1>6, <1>7 DEF Init, StopsCounted
  <1> QED
    BY <1>5, <1>8, <1>9, <1>10 DEF Inv

LEMMA StutterInv == ASSUME Inv, UNCHANGED vars PROVE Inv'
  <1>1. UNCHANGED <<lease, stop, run, stale, proc, crashes, late>>
    BY DEF vars
  <1>2. Types' /\ Known'
    BY <1>1 DEF Inv, Types, Known, Knows
  <1>3. RetriesHeld' /\ CyclesHeld' /\ ChildlessYet' /\ OneChild'
    BY <1>1 DEF Inv, RetriesHeld, Retrying, CyclesHeld, Held, ChildlessYet,
                Childless, OneChild, Children, RunLease
  <1>4. CyclesTracked' /\ RunsClosed' /\ RunsApart' /\ RunsOwned'
    BY <1>1 DEF Inv, CyclesTracked, RunsClosed, RunsApart, RunsOwned, Tracked,
                StepsClosed, Apart
  <1>5. StopsCounted'
    BY <1>1 DEF Inv, StopsCounted
  <1> QED
    BY <1>2, <1>3, <1>4, <1>5 DEF Inv

LEMMA NextInv == ASSUME Inv, [Next]_vars PROVE Inv'
  <1>1. CASE Engage \/ \E r \in Runs : GoStale(r)
    BY <1>1, EngageKeeps
  <1>2. CASE \E n \in Leases : Expire(n)
    BY <1>2, ExpireKeeps
  <1>3. ASSUME NEW p \in Procs, Begin(p) \/ ClearWrite(p) \/ Crash(p) PROVE Inv'
    BY <1>3, BeginKeeps, ClearWriteKeeps, CrashKeeps
  <1>4. ASSUME NEW p \in Procs, Cycle(p) PROVE Inv'
    <2>1. CASE AcquireCycle(p) \/ ReleaseCycle(p)
      BY <2>1, AcquireCycleKeeps, ReleaseCycleKeeps
    <2>2. CASE PlanBlocked(p) \/ GateRun(p) \/ LastStepDone(p)
      BY <2>2, GotoStepKeeps
    <2>3. CASE \E recorded \in SUBSET Steps : CreateRun(p, recorded)
      BY <2>3, CreateRunKeeps
    <2>4. CASE GateStopped(p) \/ StepRaises(p)
      BY <2>4, AbandonKeeps
    <2>5. CASE GateSkip(p) \/ \E result \in Results : StepReturns(p, result)
      BY <2>5, SkipOrReturnKeeps
    <2>6. CASE StartStep(p) \/ Sweep(p) \/ FinishRun(p)
      BY <2>6, StartStepKeeps, SweepKeeps, FinishRunKeeps
    <2> QED
      BY <1>4, <2>1, <2>2, <2>3, <2>4, <2>5, <2>6 DEF Cycle
  <1>5. ASSUME NEW p \in Procs, Recover(p) PROVE Inv'
    <2>1. CASE LockRun(p) \/ Replan(p) \/ Settle(p) \/ UnlockRun(p)
      BY <2>1, LockRunKeeps, ReplanKeeps, SettleKeeps, UnlockRunKeeps
    <2>2. CASE Scan(p) \/ Inspect(p) \/ Finalize(p)
      BY <2>2, ScanKeeps, FinalizeKeeps
    <2>3. CASE \/ \E due \in SUBSET Runs : PlanDue(p, due)
               \/ \E r \in Runs : RetryDue(p, r)
               \/ EndDue(p)
      BY <2>3, DueKeeps
    <2> QED
      BY <1>5, <2>1, <2>2, <2>3 DEF Recover
  <1> QED
    BY <1>1, <1>2, <1>3, <1>4, <1>5, StutterInv DEF Next, Proceed

-----------------------------------------------------------------------------
\* What the invariant says of the properties that the runs check.
LEMMA OneCycleInv ==
    ASSUME Inv, "cycle" \notin Outlived
    PROVE  OneCycle
  BY DEF Inv, CyclesHeld, Held, OneCycle

LEMMA OneRecoveryInv ==
    ASSUME Inv, "run" \notin Outlived
    PROVE  OneRecovery
  <1> SUFFICES ASSUME NEW r \in Runs PROVE Cardinality(Children(r)) <= 1
    BY DEF OneRecovery
  <1>1. \A c, d \in Children(r) : c = d
    BY DEF Inv, OneChild
  <1>2. CASE Children(r) = {}
    BY <1>2, FS_EmptySet
  <1>3. CASE Children(r) # {}
    <2>1. PICK c : Children(r) = {c}
      BY <1>1, <1>3
    <2> QED
      BY <2>1, FS_Singleton
  <1> QED
    BY <1>2, <1>3

LEMMA RunsClosedInv ==
    ASSUME Inv, "cycle" \notin Outlived
    PROVE  LiveRunsOpen /\ NothingLeftOpen
  <1>1. LiveRunsOpen
    BY DEF Inv, CyclesTracked, Tracked, LiveRunsOpen
  <1>2. NothingLeftOpen
    <2> SUFFICES ASSUME \A p \in Procs : Idle(p), crashes = 0, NEW r \in Runs
                 PROVE  run[r].status # "running" /\ StepsClosed(run[r])
      BY DEF NothingLeftOpen, StepsClosed
    <2>1. run[r].status # "running"
      BY DEF Inv, RunsOwned, Idle, RunPCs
    <2> QED
      BY <2>1 DEF Inv, RunsClosed
  <1> QED
    BY <1>1, <1>2

LEMMA Invariance == Spec => []Inv
  <1>1. Init => Inv
    BY InitInv
  <1>2. Inv /\ [Next]_vars => Inv'
    BY NextInv
  <1> QED
    BY <1>1, <1>2, PTL DEF Spec

\* However old the leases of cycles and of the scheduler get, a failed run
\* has one recovery.  (LocalWorkflowRecoveryService.retry)
THEOREM RecoveredOnce ==
    ASSUME "run" \notin Outlived
    PROVE  Spec => []OneRecovery
  <1>1. Inv => OneRecovery
    BY OneRecoveryInv
  <1> QED
    BY <1>1, Invariance, PTL

-----------------------------------------------------------------------------
(***************************************************************************)
(* What a recovery continues.  Under leases that no cycle outlives, a run  *)
(* that is closed keeps its steps, so what the plan of the retry read of   *)
(* the run still holds when the last step of the recovery is recorded.     *)
(***************************************************************************)
Closed(r) == run[r].status \notin {"absent", "running"}

\* What a retry has selected are steps of a closed run that did not complete.
Selects(c) ==
    c.src # 0 /\ c.pc \in {"acquire", "plan"} \cup RunPCs =>
        /\ Closed(c.src)
        /\ \A i \in c.sel :
            i # External /\ run[c.src].steps[i].status \notin {"none", "completed"}

\* The run of a cycle has rows only for the selected steps, and the cycle
\* turns to no other.
Records(c) ==
    c.pc \in RunPCs =>
        /\ run[c.run].source = c.src
        /\ \A i \in Steps : run[c.run].steps[i].status # "none" => i \in c.sel
        /\ c.pc \in {"gate", "start", "work"} => c.at \in c.sel \cup {NSteps + 1}

ParentsClosed ==
    \A r \in Runs : run[r].status # "absent" /\ run[r].source # 0 =>
        Closed(run[r].source)

Continuing ==
    /\ \A p \in Procs : Selects(proc[p]) /\ Records(proc[p])
    /\ ParentsClosed
    /\ RecoveryContinues

\* Where a process holds what it has read of the run that it continues.
Deciding == {"acquire", "plan"} \cup RunPCs

\* Nothing happens to the runs, and no process takes one up.
LEMMA QuietContinues ==
    ASSUME Continuing, UNCHANGED run,
           \A q \in Procs : \/ proc'[q] = proc[q]
                            \/ Selects(proc[q])' /\ Records(proc[q])'
    PROVE  Continuing'
  <1>1. ASSUME NEW q \in Procs PROVE Selects(proc[q])' /\ Records(proc[q])'
    BY DEF Continuing, Selects, Records, Closed
  <1>2. ParentsClosed' /\ RecoveryContinues'
    BY DEF Continuing, ParentsClosed, Closed, RecoveryContinues, Children
  <1> QED
    BY <1>1, <1>2 DEF Continuing

\* A process goes on where it has no run in hand, or none to continue.
LEMMA ElsewhereContinues ==
    ASSUME Continuing, UNCHANGED run, NEW p \in Procs, NEW c,
           proc \in [Procs -> ProcStates], proc' = [proc EXCEPT ![p] = c],
           \/ c.pc \notin Deciding
           \/ c.pc \in {"acquire", "plan"} /\ c.src = 0
    PROVE  Continuing'
  <1>1. proc'[p] = c /\ \A q \in Procs \ {p} : proc'[q] = proc[q]
    OBVIOUS
  <1>2. Selects(proc[p])' /\ Records(proc[p])'
    BY <1>1 DEF Selects, Records, Deciding, RunPCs
  <1> QED
    BY <1>1, <1>2, QuietContinues

\* A cycle goes on without a mark.
LEMMA OnwardContinues ==
    ASSUME Continuing, UNCHANGED run, NEW p \in Procs, NEW c,
           proc \in [Procs -> ProcStates], proc' = [proc EXCEPT ![p] = c],
           proc[p].pc \in Deciding, c.src = proc[p].src, c.sel = proc[p].sel,
           c.pc \in RunPCs => proc[p].pc \in RunPCs /\ c.run = proc[p].run,
           c.pc \in {"gate", "start", "work"} => c.at \in c.sel \cup {NSteps + 1}
    PROVE  Continuing'
  <1>1. proc'[p] = c /\ \A q \in Procs \ {p} : proc'[q] = proc[q]
    OBVIOUS
  <1>2. Selects(proc[p]) /\ Records(proc[p])
    BY DEF Continuing
  <1>3. Selects(proc[p])'
    BY <1>1, <1>2 DEF Selects, Closed, Deciding
  <1>4. Records(proc[p])'
    BY <1>1, <1>2 DEF Records
  <1> QED
    BY <1>1, <1>3, <1>4, QuietContinues

\* A step of p writes the run r and no other.
Writes(p, r) ==
    /\ \A q \in Procs \ {p} : proc'[q] = proc[q]
    /\ \A x \in Runs \ {r} : run'[x] = run[x]

\* A cycle goes on with the run r.
GoesOn(p, r) ==
    /\ proc'[p].src = proc[p].src /\ proc'[p].sel = proc[p].sel
    /\ proc'[p].pc \in RunPCs => proc'[p].run = r
    /\ proc'[p].pc \in {"gate", "start", "work"} =>
           proc'[p].at \in proc'[p].sel \cup {NSteps + 1}

LEMMA WritesIs ==
    ASSUME Types, NEW p \in Procs, NEW r \in Runs, NEW c, NEW e,
           proc' = [proc EXCEPT ![p] = c], run' = [run EXCEPT ![r] = e]
    PROVE  Writes(p, r) /\ proc'[p] = c /\ run'[r] = e
  BY DEF Types, Writes

(***************************************************************************)
(* A cycle writes the row of its run, the first time or again.  The run is *)
(* not closed, so it is nobody's to continue.                              *)
(***************************************************************************)
LEMMA RowContinues ==
    ASSUME Inv, Continuing, "cycle" \notin Outlived, NEW p \in Procs,
           NEW r \in Runs, run[r].status \in {"absent", "running"},
           Writes(p, r), proc[p].pc \in RunPCs \cup {"plan"}, GoesOn(p, r),
           run'[r].source = proc[p].src,
           \A i \in Steps :
               run'[r].steps[i].status # "none" => i \in proc[p].sel
    PROVE  Continuing'
  <1> DEFINE s == proc[p].src
             c == proc'[p]
             e == run'[r]
  <1>1. /\ \A q \in Procs \ {p} : proc'[q] = proc[q]
        /\ \A x \in Runs \ {r} : run'[x] = run[x]
        /\ proc[p] \in ProcStates
        /\ c.src = proc[p].src /\ c.sel = proc[p].sel
        /\ c.pc \in RunPCs => c.run = r
        /\ c.pc \in {"gate", "start", "work"} => c.at \in c.sel \cup {NSteps + 1}
    BY ProcType DEF Inv, Writes, GoesOn
  <1>2. \A x \in Runs : Closed(x) => x # r /\ run'[x] = run[x] /\ Closed(x)'
    BY <1>1 DEF Closed
  <1>3. s = 0 \/ s \in Runs
    BY <1>1 DEF ProcStates, Runs
  <1>4. s # 0 => /\ Closed(s)
                 /\ \A i \in proc[p].sel :
                        /\ i # External
                        /\ run[s].steps[i].status \notin {"none", "completed"}
    BY DEF Continuing, Selects
  <1>5. Selects(proc[p])' /\ Records(proc[p])'
    <2>1. Records(proc[p])'
      BY <1>1 DEF Records
    <2>2. Selects(proc[p])'
      <3> SUFFICES ASSUME s # 0 PROVE Selects(proc[p])'
        BY <1>1 DEF Selects
      <3>1. PICK z \in Runs : z = s /\ Closed(z)
        BY <1>3, <1>4
      <3>2. run'[z] = run[z] /\ Closed(z)'
        BY <1>2, <3>1
      <3>3. proc'[p].src = z /\ proc'[p].sel = proc[p].sel
        BY <1>1, <3>1
      <3>4. \A i \in proc[p].sel :
                i # External /\ run[z].steps[i].status \notin {"none", "completed"}
        BY <1>4, <3>1
      <3> QED
        BY <3>2, <3>3, <3>4 DEF Selects, Closed
    <2> QED
      BY <2>1, <2>2
  <1>6. ASSUME NEW q \in Procs \ {p} PROVE Selects(proc[q])' /\ Records(proc[q])'
    <2>1. proc[q].pc \notin RunPCs
      BY DEF Inv, CyclesHeld, CyclePCs, Held
    <2>2. Records(proc[q])'
      BY <1>1, <2>1 DEF Records
    <2>3. Selects(proc[q])'
      <3> SUFFICES ASSUME proc[q].src # 0, proc[q].pc \in Deciding
                   PROVE  Selects(proc[q])'
        BY <1>1 DEF Selects, Deciding
      <3>1. proc[q].src \in Runs
        BY ProcType DEF Inv, ProcStates, Runs
      <3>2. /\ Closed(proc[q].src)
            /\ \A i \in proc[q].sel :
                i # External
                /\ run[proc[q].src].steps[i].status \notin {"none", "completed"}
        BY DEF Continuing, Selects, Deciding
      <3>3. run'[proc[q].src] = run[proc[q].src]
        BY <1>2, <3>1, <3>2
      <3> QED
        BY <1>1, <3>2, <3>3 DEF Selects, Closed
    <2> QED
      BY <2>2, <2>3
  <1> HIDE DEF s
  <1>7. e.source = s
    BY DEF s
  <1>8. ParentsClosed'
    <2> SUFFICES ASSUME NEW x \in Runs, run'[x].status # "absent",
                        run'[x].source # 0
                 PROVE  Closed(run[x].source)'
      BY DEF ParentsClosed, Closed
    <2>1. CASE x = r
      BY <1>1, <1>2, <1>3, <1>4, <1>7, <2>1
    <2>2. CASE x # r
      <3>1. run'[x] = run[x] /\ Closed(run[x].source)
        BY <1>1, <2>2 DEF Continuing, ParentsClosed
      <3>2. run[x].source \in Runs
        BY <3>1 DEF Inv, Types, RunRecords, Runs
      <3> DEFINE z == run[x].source
      <3>3. run'[z] = run[z] /\ Closed(z)
        BY <1>2, <3>1, <3>2
      <3> QED
        BY <3>1, <3>3 DEF Closed
    <2> QED
      BY <2>1, <2>2
  <1>9. RecoveryContinues'
    <2> SUFFICES ASSUME NEW x \in Runs, NEW y \in Runs, NEW i \in Steps,
                        run'[y].status # "absent", run'[y].source = x,
                        run'[y].steps[i].status # "none"
                 PROVE  /\ i # External
                        /\ run'[x].steps[i].status \notin {"none", "completed"}
      BY DEF RecoveryContinues, Children
    <2>0. x # 0
      BY BoundsAssumption DEF Runs
    <2>1. CASE y = r
      <3>1. x = s /\ i \in proc[p].sel
        BY <1>1, <1>7, <2>1
      <3> QED
        BY <1>2, <1>4, <2>0, <3>1
    <2>2. CASE y # r
      <3>1. run'[y] = run[y] /\ y \in Children(x) /\ Closed(x)
        BY <1>1, <2>0, <2>2 DEF Continuing, ParentsClosed, Children
      <3>2. run'[x] = run[x]
        BY <1>2, <3>1
      <3> QED
        BY <3>1, <3>2 DEF Continuing, RecoveryContinues
    <2> QED
      BY <2>1, <2>2
  <1> QED
    BY <1>5, <1>6, <1>8, <1>9 DEF Continuing

\* A step of a run stays as it is, unless the run was open and it was there.
Settled(r, i) ==
    \/ run'[r].steps[i].status = run[r].steps[i].status
    \/ run[r].status = "running" /\ run[r].steps[i].status # "none"

(***************************************************************************)
(* A run is closed, or its outcome judged, by a process that works on none *)
(* itself: what is closed already keeps its steps.                         *)
(***************************************************************************)
LEMMA CloseContinues ==
    ASSUME Inv, Continuing, "cycle" \notin Outlived, NEW p \in Procs,
           NEW r \in Runs, Writes(p, r), proc'[p].pc \notin Deciding,
           \A q \in Procs \ {p} : proc[q].pc \in RunPCs => proc[q].run # r,
           run[r].status # "absent", run'[r].source = run[r].source,
           run'[r].status \notin {"absent", "running"},
           \A i \in Steps : Settled(r, i)
    PROVE  Continuing'
  <1>1. /\ \A q \in Procs \ {p} : proc'[q] = proc[q]
        /\ \A x \in Runs \ {r} : run'[x] = run[x]
    BY DEF Writes
  <1>2. ASSUME NEW x \in Runs
        PROVE  /\ run'[x].source = run[x].source
               /\ run'[x].status # "absent" => run[x].status # "absent"
               /\ \A i \in Steps : run'[x].steps[i].status # "none" =>
                                       run[x].steps[i].status # "none"
               /\ Closed(x) =>
                    /\ Closed(x)'
                    /\ \A i \in Steps :
                        run'[x].steps[i].status = run[x].steps[i].status
    BY <1>1 DEF Closed, Settled
  <1>3. Selects(proc[p])' /\ Records(proc[p])'
    BY <1>1 DEF Selects, Records, Deciding
  <1>4. ASSUME NEW q \in Procs \ {p} PROVE Selects(proc[q])' /\ Records(proc[q])'
    <2>1. Selects(proc[q]) /\ Records(proc[q]) /\ proc[q] \in ProcStates
      BY ProcType DEF Continuing, Inv
    <2>2. Records(proc[q])'
      <3> SUFFICES ASSUME proc[q].pc \in RunPCs PROVE Records(proc[q])'
        BY <1>1 DEF Records
      <3>1. run'[proc[q].run] = run[proc[q].run]
        BY <1>1, AtStep
      <3> QED
        BY <1>1, <2>1, <3>1 DEF Records
    <2>3. Selects(proc[q])'
      <3> SUFFICES ASSUME proc[q].src # 0, proc[q].pc \in Deciding
                   PROVE  Selects(proc[q])'
        BY <1>1 DEF Selects, Deciding
      <3>1. proc[q].src \in Runs /\ proc[q].sel \subseteq Steps
        BY <2>1 DEF ProcStates, Runs
      <3>2. /\ Closed(proc[q].src)
            /\ \A i \in proc[q].sel :
                i # External
                /\ run[proc[q].src].steps[i].status \notin {"none", "completed"}
        BY <2>1 DEF Selects, Deciding
      <3>3. PICK z \in Runs : z = proc[q].src
        BY <3>1
      <3>4. /\ Closed(z)'
            /\ \A i \in proc[q].sel :
                run'[z].steps[i].status = run[z].steps[i].status
        BY <1>2, <3>1, <3>2, <3>3
      <3> QED
        BY <1>1, <3>2, <3>3, <3>4 DEF Selects, Closed
    <2> QED
      BY <2>2, <2>3
  <1>5. ASSUME NEW x \in Runs, run[x].source # 0, run[x].status # "absent"
        PROVE  run[x].source \in Runs /\ Closed(run[x].source)
    BY <1>5 DEF Inv, Types, RunRecords, Runs, Continuing, ParentsClosed
  <1>6. ParentsClosed'
    <2> SUFFICES ASSUME NEW x \in Runs, run'[x].status # "absent",
                        run'[x].source # 0
                 PROVE  Closed(run[x].source)'
      BY DEF ParentsClosed, Closed
    <2>1. run'[x].source = run[x].source /\ run[x].status # "absent"
      BY <1>2
    <2>2. PICK z \in Runs : z = run[x].source /\ Closed(z)
      BY <1>5, <2>1
    <2>3. Closed(z)'
      BY <1>2, <2>2
    <2> QED
      BY <2>1, <2>2, <2>3 DEF Closed
  <1>7. RecoveryContinues'
    <2> SUFFICES ASSUME NEW x \in Runs, NEW y \in Runs, NEW i \in Steps,
                        run'[y].status # "absent", run'[y].source = x,
                        run'[y].steps[i].status # "none"
                 PROVE  /\ i # External
                        /\ run'[x].steps[i].status \notin {"none", "completed"}
      BY DEF RecoveryContinues, Children
    <2>1. x # 0
      BY BoundsAssumption DEF Runs
    <2>2. y \in Children(x) /\ run[y].steps[i].status # "none" /\ Closed(x)
      BY <1>2, <1>5, <2>1 DEF Children
    <2> QED
      BY <1>2, <2>2 DEF Continuing, RecoveryContinues
  <1> QED
    BY <1>3, <1>4, <1>6, <1>7 DEF Continuing

\* Where a process goes that takes up no run.
Elsewhere(p) ==
    \E c : /\ proc' = [proc EXCEPT ![p] = c]
           /\ \/ c.pc \notin Deciding
              \/ c.pc \in {"acquire", "plan"} /\ c.src = 0

LEMMA ElsewhereIs ==
    ASSUME NEW p \in Procs, NEW c, proc' = [proc EXCEPT ![p] = c],
           \/ c.pc \in {"idle", "lock", "scan", "due"}
           \/ c.pc = "acquire" /\ c.src = 0
    PROVE  Elsewhere(p)
  <1>1. c.pc \notin Deciding \/ (c.pc \in {"acquire", "plan"} /\ c.src = 0)
    BY DEF Deciding, RunPCs
  <1> QED
    BY <1>1 DEF Elsewhere

LEMMA IdleElsewhere ==
    ASSUME NEW p \in Procs, proc' = [proc EXCEPT ![p] = IdleState]
    PROVE  Elsewhere(p)
  <1>1. IdleState.pc = "idle"
    BY DEF IdleState
  <1> QED
    BY <1>1, ElsewhereIs

LEMMA GotoElsewhere ==
    ASSUME Types, NEW p \in Procs, NEW pc, pc \notin Deciding, Goto(p, pc)
    PROVE  Elsewhere(p)
  <1> DEFINE c == [proc[p] EXCEPT !.pc = pc]
  <1>1. proc' = [proc EXCEPT ![p] = c]
    BY Zenon DEF Goto
  <1>2. c.pc = pc
    BY ProcType, Zenon DEF ProcStates
  <1> HIDE DEF c
  <1> QED
    BY <1>1, <1>2 DEF Elsewhere

LEMMA ReturnElsewhere ==
    ASSUME Types, NEW p \in Procs, Return(p) \/ EndRetry(p)
    PROVE  Elsewhere(p)
  <1>1. CASE proc' = [proc EXCEPT ![p] = IdleState]
    BY <1>1, IdleElsewhere
  <1>2. CASE proc' = [proc EXCEPT ![p] = [proc[p] EXCEPT !.pc = "settle"]]
    <2>1. Goto(p, "settle")
      BY <1>2, Zenon DEF Goto
    <2> QED
      BY <2>1, GotoElsewhere DEF Deciding, RunPCs
  <1>3. CASE proc' = [proc EXCEPT ![p] = [IdleState EXCEPT
                         !.pc = "due", !.due = TRUE, !.queue = proc[p].queue]]
    <2> DEFINE c == [IdleState EXCEPT !.pc = "due", !.due = TRUE,
                                      !.queue = proc[p].queue]
    <2>1. proc' = [proc EXCEPT ![p] = c]
      BY <1>3, Zenon
    <2>2. c.pc = "due"
      BY DEF IdleState
    <2> HIDE DEF c
    <2>3. c.pc \in {"idle", "lock", "scan", "due"}
      BY <2>2
    <2> QED
      BY <2>1, <2>3, ElsewhereIs, Zenon
  <1> QED
    BY <1>1, <1>2, <1>3 DEF Return, EndRetry

LEMMA BeginElsewhere ==
    ASSUME Types, NEW p \in Procs, Begin(p) \/ ClearWrite(p) \/ Crash(p)
    PROVE  Elsewhere(p) /\ UNCHANGED run
  <1>1. UNCHANGED run
    BY DEF Begin, Clear, StartCycle, Retry, RunDue, ClearWrite, Crash
  <1>2. CASE Clear(p)
    BY <1>2, GotoElsewhere DEF Clear, Deciding, RunPCs
  <1>3. ASSUME NEW sparse \in Sparse, StartCycle(p, sparse) PROVE Elsewhere(p)
    <2> DEFINE c == [IdleState EXCEPT !.pc = "acquire", !.sel = Steps,
                                      !.sparse = sparse]
    <2>1. proc' = [proc EXCEPT ![p] = c]
      BY <1>3, Zenon DEF StartCycle
    <2>2. c.pc = "acquire" /\ c.src = 0
      BY DEF IdleState
    <2> HIDE DEF c
    <2> QED
      BY <2>1, <2>2, ElsewhereIs
  <1>4. ASSUME NEW r \in Runs, Retry(p, r) PROVE Elsewhere(p)
    <2> DEFINE c == [IdleState EXCEPT !.pc = "lock", !.src = r]
    <2>1. proc' = [proc EXCEPT ![p] = c]
      BY <1>4, Zenon DEF Retry
    <2>2. c.pc = "lock"
      BY DEF IdleState
    <2> HIDE DEF c
    <2>3. c.pc \in {"idle", "lock", "scan", "due"}
      BY <2>2
    <2> QED
      BY <2>1, <2>3, ElsewhereIs, Zenon
  <1>5. CASE RunDue(p)
    <2> DEFINE c == [IdleState EXCEPT !.pc = "scan", !.due = TRUE]
    <2>1. proc' = [proc EXCEPT ![p] = c]
      BY <1>5, Zenon DEF RunDue
    <2>2. c.pc = "scan"
      BY DEF IdleState
    <2> HIDE DEF c
    <2>3. c.pc \in {"idle", "lock", "scan", "due"}
      BY <2>2
    <2> QED
      BY <1>1, <2>1, <2>3, ElsewhereIs, Zenon
  <1>6. CASE ClearWrite(p) \/ Crash(p)
    BY <1>6, IdleElsewhere DEF ClearWrite, Crash
  <1> QED
    BY <1>1, <1>2, <1>3, <1>4, <1>5, <1>6 DEF Begin

LEMMA RecoverElsewhere ==
    ASSUME Types, NEW p \in Procs,
           \/ LockRun(p) \/ UnlockRun(p) \/ Scan(p) \/ Inspect(p)
           \/ \E due \in SUBSET Runs : PlanDue(p, due)
           \/ \E r \in Runs : RetryDue(p, r)
           \/ EndDue(p)
    PROVE  Elsewhere(p) /\ UNCHANGED run
  <1>1. UNCHANGED run
    BY DEF LockRun, UnlockRun, Scan, Inspect, PlanDue, RetryDue, EndDue
  <1>2. CASE LockRun(p) \/ UnlockRun(p)
    <2>1. Goto(p, "replan") \/ EndRetry(p)
      BY <1>2 DEF LockRun, UnlockRun
    <2> QED
      BY <1>1, <2>1, GotoElsewhere, ReturnElsewhere DEF Deciding, RunPCs
  <1>3. CASE Scan(p)
    <2> DEFINE c == [proc[p] EXCEPT
                       !.pc = "inspect",
                       !.queue = {r \in stale : run[r].status = "running"}]
    <2>1. proc' = [proc EXCEPT ![p] = c]
      BY <1>3, Zenon DEF Scan
    <2>2. c.pc = "inspect"
      BY ProcType, Zenon DEF ProcStates
    <2> HIDE DEF c
    <2> QED
      BY <1>1, <2>1, <2>2 DEF Elsewhere, Deciding, RunPCs
  <1>4. CASE Inspect(p)
    <2>1. proc[p].pc = "inspect"
      BY <1>4 DEF Inspect
    <2> DEFINE r == First(proc[p].queue)
               queue == proc[p].queue \ {r}
               c == [proc[p] EXCEPT !.queue = queue]
               d == [proc[p] EXCEPT !.pc = "finalize", !.run = r]
    <2>2. \/ Goto(p, "candidates")
          \/ proc' = [proc EXCEPT ![p] = c]
          \/ proc' = [proc EXCEPT ![p] = d]
      BY <1>4, Zenon DEF Inspect
    <2>3. c.pc = "inspect" /\ d.pc = "finalize"
      BY <2>1, ProcType, Zenon DEF ProcStates
    <2> HIDE DEF c, d
    <2> QED
      BY <1>1, <2>2, <2>3, GotoElsewhere DEF Elsewhere, Deciding, RunPCs
  <1>5. ASSUME NEW due \in SUBSET Runs, PlanDue(p, due) PROVE Elsewhere(p)
    <2> DEFINE c == [proc[p] EXCEPT !.pc = "due", !.queue = due]
    <2>1. proc' = [proc EXCEPT ![p] = c]
      BY <1>5, Zenon DEF PlanDue
    <2>2. c.pc = "due"
      BY ProcType, Zenon DEF ProcStates
    <2> HIDE DEF c
    <2> QED
      BY <2>1, <2>2 DEF Elsewhere, Deciding, RunPCs
  <1>6. ASSUME NEW r \in Runs, RetryDue(p, r) PROVE Elsewhere(p)
    <2> DEFINE queue == proc[p].queue \ {r}
               pc == IF CanRetry(r) THEN "lock" ELSE "due"
               src == IF CanRetry(r) THEN r ELSE 0
               c == [proc[p] EXCEPT !.queue = queue, !.pc = pc, !.src = src]
    <2>1. proc' = [proc EXCEPT ![p] = c]
      BY <1>6, Zenon DEF RetryDue
    <2>2. pc \notin Deciding
      BY DEF Deciding, RunPCs
    <2> HIDE DEF pc, src, queue
    <2>3. c.pc = pc
      BY ProcType, Zenon DEF ProcStates
    <2> HIDE DEF c
    <2> QED
      BY <2>1, <2>2, <2>3 DEF Elsewhere
  <1>7. CASE EndDue(p)
    BY <1>7, IdleElsewhere DEF EndDue
  <1> QED
    BY <1>1, <1>2, <1>3, <1>4, <1>5, <1>6, <1>7

\* What a retry selects did not complete in the run it is for.
LEMMA FailedStepFailed ==
    ASSUME NEW r \in Runs, FailedStep(r) # 0
    PROVE  /\ FailedStep(r) \in Steps
           /\ run[r].steps[FailedStep(r)].status
                \in {"failed", "blocked", "skipped"}
  <1> DEFINE with(s) == {i \in Steps : run[r].steps[i].status = s}
  <1>1. ASSUME NEW s, with(s) # {}
        PROVE  First(with(s)) \in Steps /\ run[r].steps[First(with(s))].status = s
    <2>1. with(s) \subseteq Nat
      BY StepsAre
    <2>2. First(with(s)) \in with(s)
      BY <1>1, <2>1, FirstIs
    <2> QED
      BY <2>2
  <1>2. \/ FailedStep(r) = First(with("failed")) /\ with("failed") # {}
        \/ FailedStep(r) = First(with("blocked")) /\ with("blocked") # {}
        \/ FailedStep(r) = First(with("skipped")) /\ with("skipped") # {}
    BY DEF FailedStep
  <1> HIDE DEF with
  <1> QED
    BY <1>1, <1>2

LEMMA ReplanContinues ==
    ASSUME Inv, Continuing, NEW p \in Procs, Replan(p)
    PROVE  Continuing'
  <1> DEFINE r == proc[p].src
             f == FailedStep(r)
             sel == {f} \cup Resumable(r, f)
             c == [proc[p] EXCEPT !.pc = "acquire", !.retry = f, !.sel = sel]
  <1>1. /\ proc[p] \in ProcStates /\ r \in Runs /\ Types /\ UNCHANGED run
    BY ProcType DEF Replan, Inv, Known, Knows
  <1>2. CASE Goto(p, "unlock")
    <2>1. Elsewhere(p)
      BY <1>1, <1>2, GotoElsewhere DEF Deciding, RunPCs
    <2> QED
      BY <1>1, <2>1, ElsewhereContinues DEF Elsewhere, Types
  <1>3. CASE CanRetry(r) /\ ~Goto(p, "unlock")
    <2>1. proc' = [proc EXCEPT ![p] = c]
      BY <1>3, Zenon DEF Replan
    <2>2. c.pc = "acquire" /\ c.src = r /\ c.sel = sel
      BY <1>1, Zenon DEF ProcStates
    <2>3. Closed(r) /\ f # 0 /\ f # External
      BY <1>3 DEF CanRetry, RecoverableStatuses, Closed
    <2>4. run[r].steps[f].status \notin {"none", "completed"}
      BY <1>1, <2>3, FailedStepFailed
    <2>5. ASSUME NEW i \in Resumable(r, f)
          PROVE  i # External /\ run[r].steps[i].status \notin {"none", "completed"}
      <3>1. i \in Steps \ {External}
            /\ run[r].steps[i] = [status |-> "not_run", after |-> f]
        BY <2>5 DEF Resumable
      <3> QED
        BY <3>1
    <2> HIDE DEF f, c
    <2>6. \A i \in sel : i # External
                /\ run[r].steps[i].status \notin {"none", "completed"}
      BY <2>3, <2>4, <2>5
    <2> HIDE DEF r, sel
    <2>7. proc'[p] = c /\ \A q \in Procs \ {p} : proc'[q] = proc[q]
      BY <1>1, <2>1 DEF Types
    <2>8. Selects(proc[p])' /\ Records(proc[p])'
      BY <1>1, <2>2, <2>3, <2>6, <2>7 DEF Selects, Records, Closed, RunPCs
    <2> QED
      BY <1>1, <2>7, <2>8, QuietContinues
  <1> QED
    BY <1>2, <1>3 DEF Replan

\* Outside the work on a run a cycle only moves on.
LEMMA PassContinues ==
    ASSUME Inv, Continuing, NEW p \in Procs,
           \/ AcquireCycle(p) \/ PlanBlocked(p) \/ ReleaseCycle(p)
           \/ GateRun(p) \/ LastStepDone(p)
    PROVE  Continuing'
  <1>1. Types /\ proc \in [Procs -> ProcStates] /\ UNCHANGED run
    BY DEF Inv, Types, AcquireCycle, PlanBlocked, ReleaseCycle, GateRun,
           LastStepDone
  <1>2. CASE Return(p)
    BY <1>1, <1>2, ReturnElsewhere, ElsewhereContinues DEF Elsewhere
  <1>3. ASSUME NEW pc \in {"plan", "release", "start", "finish"}, Goto(p, pc),
               proc[p].pc \in Deciding,
               pc \in RunPCs => proc[p].pc \in RunPCs,
               pc = "start" => proc[p].pc = "gate"
        PROVE  Continuing'
    <2> DEFINE c == [proc[p] EXCEPT !.pc = pc]
    <2>1. proc' = [proc EXCEPT ![p] = c]
      BY <1>3, Zenon DEF Goto
    <2>2. /\ c.pc = pc /\ c.run = proc[p].run /\ c.src = proc[p].src
          /\ c.at = proc[p].at /\ c.sel = proc[p].sel
      BY <1>1, ProcType, Zenon DEF ProcStates
    <2> HIDE DEF c
    <2>3. pc = "start" => c.at \in c.sel \cup {NSteps + 1}
      BY <1>3, <2>2 DEF Continuing, Records, RunPCs
    <2>4. c.pc \in {"gate", "start", "work"} => c.at \in c.sel \cup {NSteps + 1}
      BY <2>2, <2>3
    <2> QED
      BY <1>1, <1>3, <2>1, <2>2, <2>4, OnwardContinues
  <1>4. CASE AcquireCycle(p) /\ ~Return(p)
    <2>1. Goto(p, "plan") /\ proc[p].pc = "acquire"
      BY <1>4 DEF AcquireCycle
    <2> QED
      BY <1>3, <2>1 DEF Deciding, RunPCs
  <1>5. CASE PlanBlocked(p)
    BY <1>3, <1>5 DEF PlanBlocked, Deciding, RunPCs
  <1>6. CASE GateRun(p)
    BY <1>3, <1>6 DEF GateRun, GateOpen, Deciding, RunPCs
  <1>7. CASE LastStepDone(p)
    BY <1>3, <1>7 DEF LastStepDone, Deciding, RunPCs
  <1> QED
    BY <1>2, <1>4, <1>5, <1>6, <1>7 DEF ReleaseCycle

\* The next selected step is one, or there is none.
LEMMA NextSelected ==
    ASSUME NEW sel \in SUBSET Steps, NEW i
    PROVE  NextStep(sel, i) \in sel \cup {NSteps + 1}
  <1> DEFINE rest == {j \in sel : j > i}
  <1>1. rest # {} => First(rest) \in rest
    BY FirstIs, StepsAre
  <1> QED
    BY <1>1 DEF NextStep

LEMMA CreateRunContinues ==
    ASSUME Inv, Continuing, "cycle" \notin Outlived, NEW p \in Procs,
           NEW recorded \in SUBSET Steps, CreateRun(p, recorded)
    PROVE  Continuing'
  <1> DEFINE absent == {x \in Runs : run[x].status = "absent"}
             r == First(absent)
             s == proc[p].src
             e == [status |-> "running", source |-> s,
                   depth |-> IF s = 0 THEN 0 ELSE run[s].depth + 1,
                   steps |-> FreshSteps(proc[p].sel, recorded)]
             c == [proc[p] EXCEPT !.pc = "gate", !.run = r,
                                  !.at = NextStep(proc[p].sel, 0)]
  <1>1. /\ proc[p].pc = "plan" /\ proc[p] \in ProcStates
        /\ absent # {} /\ run' = [run EXCEPT ![r] = e]
        /\ proc' = [proc EXCEPT ![p] = c]
    BY ProcType DEF CreateRun, Inv
  <1>2. r \in Runs /\ run[r].status = "absent"
    <2>1. absent \subseteq Nat /\ absent \subseteq Runs
      BY BoundsAssumption DEF Runs
    <2>2. r \in absent
      BY <1>1, <2>1, FirstIs
    <2> QED
      BY <2>2
  <1> HIDE DEF absent, r
  <1>3. e.source = s /\ e.steps = FreshSteps(proc[p].sel, recorded)
    OBVIOUS
  <1>4. \A i \in Steps : e.steps[i].status # "none" => i \in proc[p].sel
    BY <1>3 DEF FreshSteps, Step
  <1>5. c.pc = "gate" /\ c.run = r /\ c.at = NextStep(proc[p].sel, 0)
        /\ c.src = s /\ c.sel = proc[p].sel
    BY <1>1, Zenon DEF ProcStates
  <1>6. c.at \in c.sel \cup {NSteps + 1}
    BY <1>1, <1>5, NextSelected DEF ProcStates
  <1> HIDE DEF e, c
  <1>7. Writes(p, r) /\ proc'[p] = c /\ run'[r] = e
    BY <1>1, <1>2, WritesIs DEF Inv
  <1>8. GoesOn(p, r)
    BY <1>5, <1>6, <1>7 DEF GoesOn
  <1> QED
    BY <1>1, <1>2, <1>3, <1>4, <1>7, <1>8, RowContinues

\* A cycle marks one of its steps.
LEMMA MarkContinues ==
    ASSUME Inv, Continuing, "cycle" \notin Outlived, NEW p \in Procs, NEW c,
           NEW i \in Steps, NEW row \in StepRows,
           SetStep(proc[p].run, i, row), i \in proc[p].sel,
           proc[p].pc \in RunPCs, proc' = [proc EXCEPT ![p] = c],
           c.run = proc[p].run, c.src = proc[p].src, c.sel = proc[p].sel,
           c.pc \in {"gate", "start", "work"} => c.at \in c.sel \cup {NSteps + 1}
    PROVE  Continuing'
  <1> DEFINE r == proc[p].run
  <1>1. r \in Runs /\ Types /\ Tracked(proc[p], run[r])
    BY AtStep
  <1>2. PICK e \in RunRecords :
            /\ run' = [run EXCEPT ![r] = e]
            /\ e.status = run[r].status /\ e.source = run[r].source
            /\ e.steps[i] = row
            /\ \A j \in Steps \ {i} : e.steps[j] = run[r].steps[j]
    BY <1>1, SetStepIs
  <1>3. run[r].status = "running"
    BY <1>1 DEF Tracked
  <1>4. /\ run[r].source = proc[p].src
        /\ \A j \in Steps : run[r].steps[j].status # "none" => j \in proc[p].sel
    BY DEF Continuing, Records
  <1>5. \A j \in Steps : e.steps[j].status # "none" => j \in proc[p].sel
    BY <1>2, <1>4
  <1> HIDE DEF r
  <1>6. c.run = r /\ e.source = proc[p].src
    BY <1>2, <1>4 DEF r
  <1>7. Writes(p, r) /\ proc'[p] = c /\ run'[r] = e
    BY <1>1, <1>2, WritesIs
  <1>8. GoesOn(p, r)
    BY <1>6, <1>7 DEF GoesOn
  <1> QED
    BY <1>1, <1>3, <1>5, <1>6, <1>7, <1>8, RowContinues

LEMMA AtSelected ==
    ASSUME Continuing, NEW p \in Procs, proc[p].at \in Steps,
           proc[p].pc \in {"gate", "start", "work"}
    PROVE  proc[p].at \in proc[p].sel
  <1>1. proc[p].at \in proc[p].sel \cup {NSteps + 1}
    BY DEF Continuing, Records, RunPCs
  <1>2. proc[p].at # NSteps + 1
    BY StepsAre DEF Steps
  <1> QED
    BY <1>1, <1>2

LEMMA StepRowsAre ==
    \A status \in StepStatuses : Step(status) \in StepRows
  BY StepsAre DEF Step, StepRows

\* The steps of a cycle that write its run.
LEMMA StepContinues ==
    ASSUME Inv, Continuing, "cycle" \notin Outlived, NEW p \in Procs,
           \/ GateStopped(p) \/ GateSkip(p) \/ StartStep(p) \/ StepRaises(p)
           \/ \E result \in Results : StepReturns(p, result)
    PROVE  Continuing'
  <1>1. /\ proc[p] \in ProcStates /\ proc[p].pc \in {"gate", "start", "work"}
        /\ proc[p].pc \in RunPCs /\ proc[p].at \in Steps
    BY GateAt, ProcType
       DEF GateStopped, GateSkip, StartStep, StepRaises, StepReturns, RunPCs,
           Inv, Known, Knows
  <1>2. proc[p].at \in proc[p].sel /\ proc[p].sel \in SUBSET Steps
    BY <1>1, AtSelected DEF ProcStates
  <1> DEFINE next == NextStep(proc[p].sel, proc[p].at)
             at == proc[p].at
             abandoned == [proc[p] EXCEPT !.pc = "sweep", !.outcome = "stopped"]
             raised == [proc[p] EXCEPT !.pc = "sweep", !.outcome = "failed",
                                       !.failed = at]
             started == [proc[p] EXCEPT !.pc = "work"]
             onward == [proc[p] EXCEPT !.pc = "gate", !.at = next]
             skipped == [proc[p] EXCEPT !.at = next]
  <1>3. next \in proc[p].sel \cup {NSteps + 1}
    BY <1>2, NextSelected
  <1>4. ASSUME NEW c \in {abandoned, raised, started, onward, skipped}
        PROVE  /\ c.run = proc[p].run /\ c.src = proc[p].src
               /\ c.sel = proc[p].sel
               /\ c.at \in c.sel \cup {NSteps + 1}
    <2>1. /\ abandoned.run = proc[p].run /\ abandoned.src = proc[p].src
          /\ abandoned.sel = proc[p].sel /\ abandoned.at = at
      BY <1>1, Zenon DEF ProcStates
    <2>2. /\ raised.run = proc[p].run /\ raised.src = proc[p].src
          /\ raised.sel = proc[p].sel /\ raised.at = at
      BY <1>1, Zenon DEF ProcStates
    <2>3. /\ started.run = proc[p].run /\ started.src = proc[p].src
          /\ started.sel = proc[p].sel /\ started.at = at
      BY <1>1, Zenon DEF ProcStates
    <2>4. /\ onward.run = proc[p].run /\ onward.src = proc[p].src
          /\ onward.sel = proc[p].sel /\ onward.at = next
      BY <1>1, Zenon DEF ProcStates
    <2>5. /\ skipped.run = proc[p].run /\ skipped.src = proc[p].src
          /\ skipped.sel = proc[p].sel /\ skipped.at = next
      BY <1>1, Zenon DEF ProcStates
    <2> HIDE DEF abandoned, raised, started, onward, skipped, next
    <2> QED
      BY <1>2, <1>3, <1>4, <2>1, <2>2, <2>3, <2>4, <2>5
  <1>5. \/ proc' = [proc EXCEPT ![p] = abandoned]
        \/ proc' = [proc EXCEPT ![p] = raised]
        \/ proc' = [proc EXCEPT ![p] = started]
        \/ proc' = [proc EXCEPT ![p] = onward]
        \/ proc' = [proc EXCEPT ![p] = skipped]
    BY Zenon DEF GateStopped, GateSkip, StartStep, StepRaises, StepReturns,
                 Advance, Goto
  <1>6. PICK c \in {abandoned, raised, started, onward, skipped} :
            proc' = [proc EXCEPT ![p] = c]
    BY <1>5, Zenon
  <1>7. /\ c.run = proc[p].run /\ c.src = proc[p].src /\ c.sel = proc[p].sel
        /\ c.at \in c.sel \cup {NSteps + 1}
    BY <1>4, <1>6
  <1>8. CASE UNCHANGED run
    BY <1>1, <1>6, <1>7, <1>8, OnwardContinues DEF Deciding, Inv, Types
  <1>9. ASSUME NEW row \in StepRows, SetStep(proc[p].run, at, row)
        PROVE  Continuing'
    BY <1>1, <1>2, <1>6, <1>7, <1>9, MarkContinues
  <1> HIDE DEF abandoned, raised, started, onward, skipped, next
  <1>10. \/ UNCHANGED run
         \/ \E status \in StepStatuses : SetStep(proc[p].run, at, Step(status))
    <2>1. \A result : WorkflowStepStatus(result) \in StepStatuses
      BY DEF WorkflowStepStatus, StepStatuses, ResultStatuses
    <2>2. {"not_run", "skipped", "running", "failed"} \subseteq StepStatuses
      BY DEF StepStatuses, ResultStatuses
    <2> QED
      BY <2>1, <2>2 DEF GateStopped, GateSkip, StartStep, StepRaises, StepReturns
  <1> QED
    BY <1>8, <1>9, <1>10, StepRowsAre

LEMMA SweepContinues ==
    ASSUME Inv, Continuing, "cycle" \notin Outlived, NEW p \in Procs, Sweep(p)
    PROVE  Continuing'
  <1>1. /\ proc[p].pc = "sweep" /\ proc[p].pc \in RunPCs
        /\ proc[p] \in ProcStates /\ Types
    BY ProcType DEF Sweep, RunPCs, Inv
  <1>2. CASE Unswept(p) # {}
    <2> DEFINE i == First(Unswept(p))
    <2>1. Unswept(p) \subseteq Steps
      BY <1>1 DEF Unswept, ProcStates
    <2>2. i \in Unswept(p) /\ i \in Steps /\ i \in proc[p].sel
      BY <1>2, <2>1, FirstIs, StepsAre DEF Unswept
    <2>3. AbandonedStep(p) \in StepRows
      BY <1>1 DEF AbandonedStep, StepRows, StepStatuses, ProcStates
    <2>4. SetStep(proc[p].run, i, AbandonedStep(p)) /\ proc' = proc
      BY <1>2 DEF Sweep
    <2>5. proc' = [proc EXCEPT ![p] = proc[p]]
      BY <1>1, <2>4 DEF Types
    <2> HIDE DEF i
    <2> QED
      BY <1>1, <2>2, <2>3, <2>4, <2>5, MarkContinues
  <1>3. CASE Unswept(p) = {}
    <2> DEFINE c == [proc[p] EXCEPT !.pc = "finish"]
    <2>1. proc' = [proc EXCEPT ![p] = c] /\ UNCHANGED run
      BY <1>3, Zenon DEF Sweep, Goto
    <2>2. /\ c.pc = "finish" /\ c.run = proc[p].run
          /\ c.src = proc[p].src /\ c.sel = proc[p].sel
      BY <1>1, Zenon DEF ProcStates
    <2> HIDE DEF c
    <2> QED
      BY <1>1, <2>1, <2>2, OnwardContinues DEF Deciding, Types
  <1> QED
    BY <1>2, <1>3

LEMMA FinishContinues ==
    ASSUME Inv, Continuing, "cycle" \notin Outlived, NEW p \in Procs, FinishRun(p)
    PROVE  Continuing'
  <1> DEFINE c == [proc[p] EXCEPT !.pc = "release"]
             r == proc[p].run
             e == [run[r] EXCEPT !.status = proc[p].outcome]
  <1>1. /\ proc[p].pc = "finish" /\ proc[p].pc \in RunPCs
        /\ proc' = [proc EXCEPT ![p] = c] /\ run' = [run EXCEPT ![r] = e]
    BY Zenon DEF FinishRun, Goto, RunPCs
  <1>2. /\ proc[p] \in ProcStates /\ r \in Runs /\ run[r] \in RunRecords
        /\ run[r].status = "running"
    BY <1>1, AtStep DEF Tracked
  <1>3. c.pc = "release" /\ c.src = proc[p].src /\ c.sel = proc[p].sel
    BY <1>2, Zenon DEF ProcStates
  <1>4. e.source = run[r].source /\ e.steps = run[r].steps
    BY <1>2 DEF RunRecords
  <1>5. /\ run[r].source = proc[p].src
        /\ \A i \in Steps : run[r].steps[i].status # "none" => i \in proc[p].sel
    BY <1>1 DEF Continuing, Records
  <1> HIDE DEF c, r, e
  <1>6. Writes(p, r) /\ proc'[p] = c /\ run'[r] = e
    BY <1>1, <1>2, WritesIs DEF Inv
  <1>7. GoesOn(p, r)
    BY <1>3, <1>6 DEF GoesOn, RunPCs
  <1>8. /\ run'[r].source = proc[p].src
        /\ \A i \in Steps : run'[r].steps[i].status # "none" => i \in proc[p].sel
    BY <1>4, <1>5, <1>6
  <1> QED
    BY <1>1, <1>2, <1>6, <1>7, <1>8, RowContinues

\* A retry judges a run that is closed already.
LEMMA SettleContinues ==
    ASSUME Inv, Continuing, "cycle" \notin Outlived, NEW p \in Procs, Settle(p)
    PROVE  Continuing'
  <1> DEFINE c == [proc[p] EXCEPT !.pc = "unlock"]
             r == proc[p].run
             e == [run[r] EXCEPT !.status = "completed_with_errors"]
  <1>1. proc[p] \in ProcStates /\ Types /\ proc' = [proc EXCEPT ![p] = c]
        /\ Goto(p, "unlock")
    BY ProcType, Zenon DEF Settle, Goto, Inv
  <1>2. c.pc = "unlock" /\ c.pc \notin Deciding
    <2>1. c.pc = "unlock"
      BY <1>1, Zenon DEF ProcStates
    <2> HIDE DEF c
    <2> QED
      BY <2>1 DEF Deciding, RunPCs
  <1>3. CASE UNCHANGED run
    BY <1>1, <1>2, <1>3, ElsewhereContinues DEF Types
  <1>4. CASE ~ UNCHANGED run
    <2>1. r # 0 /\ run[r].status = "completed"
      BY <1>4 DEF Settle
    <2>2. run' = [run EXCEPT ![r] = e]
      BY <1>4, Zenon DEF Settle
    <2>3. r \in Runs /\ run[r] \in RunRecords
      BY <1>1, <2>1 DEF Types, ProcStates, Runs
    <2>4. /\ e.source = run[r].source /\ e.steps = run[r].steps
          /\ e.status = "completed_with_errors"
      BY <2>3 DEF RunRecords
    <2>5. \A q \in Procs \ {p} : proc[q].pc \in RunPCs => proc[q].run # r
      BY <2>1 DEF Inv, CyclesTracked, Tracked
    <2>6. /\ run[r].status # "absent" /\ e.status \notin {"absent", "running"}
          /\ \A i \in Steps : e.steps[i].status = run[r].steps[i].status
      BY <2>1, <2>4
    <2> HIDE DEF c, r, e
    <2>7. Writes(p, r) /\ proc'[p] = c /\ run'[r] = e
      BY <1>1, <2>2, <2>3, WritesIs
    <2>8. /\ run'[r].source = run[r].source
          /\ run'[r].status \notin {"absent", "running"}
          /\ \A i \in Steps : Settled(r, i)
          /\ proc'[p].pc \notin Deciding
          /\ run[r].status # "absent"
      BY <1>2, <2>4, <2>6, <2>7 DEF Settled
    <2> QED
      BY <2>3, <2>5, <2>7, <2>8, CloseContinues
  <1> QED
    BY <1>3, <1>4

\* The scheduler closes a run: what was open in it is abandoned, and what is
\* closed already stays as it is.
LEMMA FinalizeContinues ==
    ASSUME Inv, Continuing, "cycle" \notin Outlived, NEW p \in Procs, Finalize(p)
    PROVE  Continuing'
  <1> DEFINE r == proc[p].run
             steps == [i \in Steps |-> Interrupted(run[r].steps[i])]
             e == [run[r] EXCEPT !.status = "failed", !.steps = steps]
             queue == proc[p].queue \ {r}
             c == [proc[p] EXCEPT !.pc = "inspect", !.run = 0, !.queue = queue]
  <1>1. /\ proc[p].pc = "finalize" /\ proc[p] \in ProcStates /\ Types
        /\ proc' = [proc EXCEPT ![p] = c] /\ run' = [run EXCEPT ![r] = e]
    BY ProcType, Zenon DEF Finalize, Inv
  <1>2. r \in Runs /\ run[r].status # "absent" /\ run[r] \in RunRecords
    BY <1>1 DEF Inv, Known, Knows, Types, ProcStates
  <1>3. c.pc = "inspect"
    BY <1>1, Zenon DEF ProcStates
  <1>4. e.source = run[r].source /\ e.steps = steps /\ e.status = "failed"
    <2> HIDE DEF steps
    <2> QED
      BY <1>2 DEF RunRecords
  <1>5. ASSUME NEW i \in Steps
        PROVE  \/ e.steps[i].status = run[r].steps[i].status
               \/ run[r].status = "running" /\ run[r].steps[i].status # "none"
    <2>1. e.steps[i] = Interrupted(run[r].steps[i])
      BY <1>4
    <2>2. \/ run[r].steps[i].status \in {"running", "pending"}
          \/ Interrupted(run[r].steps[i]) = run[r].steps[i]
      BY Zenon DEF Interrupted
    <2>3. run[r].status = "running"
          \/ run[r].steps[i].status \notin {"pending", "running"}
      BY <1>2 DEF Inv, RunsClosed, StepsClosed
    <2> HIDE DEF e, r, steps
    <2> QED
      BY <2>1, <2>2, <2>3
  <1>6. \A q \in Procs \ {p} : proc[q].pc \in RunPCs => proc[q].run # r
    BY <1>1 DEF Inv, RunsApart, Apart
  <1> HIDE DEF c, r, e, steps, queue
  <1>7. c.pc \notin Deciding /\ e.status \notin {"absent", "running"}
    BY <1>3, <1>4 DEF Deciding, RunPCs
  <1>8. Writes(p, r) /\ proc'[p] = c /\ run'[r] = e
    BY <1>1, <1>2 DEF Types, Writes
  <1>9. /\ run'[r].source = run[r].source
        /\ run'[r].status \notin {"absent", "running"}
        /\ proc'[p].pc \notin Deciding
    BY <1>4, <1>7, <1>8
  <1>10. \A i \in Steps : Settled(r, i)
    BY <1>5, <1>8 DEF Settled
  <1> QED
    BY <1>2, <1>6, <1>8, <1>9, <1>10, CloseContinues

-----------------------------------------------------------------------------
LEMMA InitContinues == ASSUME Init PROVE Continuing
  <1>1. \A r \in Runs : run[r].status = "absent"
    BY DEF Init
  <1>2. \A p \in Procs : proc[p].pc = "idle"
    BY DEF Init, IdleState
  <1> QED
    BY <1>1, <1>2 DEF Continuing, Selects, Records, ParentsClosed,
                      RecoveryContinues, Children, RunPCs

LEMMA NextContinues ==
    ASSUME Inv, Continuing, "cycle" \notin Outlived, [Next]_vars
    PROVE  Continuing'
  <1>1. CASE \/ UNCHANGED vars \/ Engage \/ \E n \in Leases : Expire(n)
             \/ \E r \in Runs : GoStale(r)
    <2>1. UNCHANGED <<run, proc>>
      BY <1>1 DEF vars, Engage, Expire, GoStale
    <2> QED
      BY <2>1, QuietContinues
  <1>2. ASSUME NEW p \in Procs, Elsewhere(p), UNCHANGED run PROVE Continuing'
    BY <1>2, ElsewhereContinues DEF Elsewhere, Inv, Types
  <1>3. ASSUME NEW p \in Procs, Begin(p) \/ ClearWrite(p) \/ Crash(p)
        PROVE  Continuing'
    BY <1>2, <1>3, BeginElsewhere DEF Inv
  <1>4. ASSUME NEW p \in Procs, Cycle(p) PROVE Continuing'
    <2>1. CASE \/ AcquireCycle(p) \/ PlanBlocked(p) \/ ReleaseCycle(p)
               \/ GateRun(p) \/ LastStepDone(p)
      BY <2>1, PassContinues
    <2>2. CASE \E recorded \in SUBSET Steps : CreateRun(p, recorded)
      BY <2>2, CreateRunContinues
    <2>3. CASE \/ GateStopped(p) \/ GateSkip(p) \/ StartStep(p) \/ StepRaises(p)
               \/ \E result \in Results : StepReturns(p, result)
      BY <2>3, StepContinues
    <2>4. CASE Sweep(p) \/ FinishRun(p)
      BY <2>4, SweepContinues, FinishContinues
    <2> QED
      BY <1>4, <2>1, <2>2, <2>3, <2>4 DEF Cycle
  <1>5. ASSUME NEW p \in Procs, Recover(p) PROVE Continuing'
    <2>1. CASE \/ LockRun(p) \/ UnlockRun(p) \/ Scan(p) \/ Inspect(p)
               \/ \E due \in SUBSET Runs : PlanDue(p, due)
               \/ \E r \in Runs : RetryDue(p, r)
               \/ EndDue(p)
      BY <1>2, <2>1, RecoverElsewhere DEF Inv
    <2>2. CASE Replan(p) \/ Settle(p) \/ Finalize(p)
      BY <2>2, ReplanContinues, SettleContinues, FinalizeContinues
    <2> QED
      BY <1>5, <2>1, <2>2 DEF Recover
  <1> QED
    BY <1>1, <1>3, <1>4, <1>5 DEF Next, Proceed

\* A recovery submits nothing and repeats no step that was completed,
\* whatever else runs, dies or retries beside it.  A cycle that outlives its
\* lease could be closed under its hands and go on writing the steps that a
\* recovery has read.  (_autonomy_plan, _autonomy_continuation_steps)
THEOREM RecoveriesContinue ==
    ASSUME "cycle" \notin Outlived
    PROVE  Spec => []RecoveryContinues
  <1>1. Init => Continuing
    BY InitContinues
  <1>2. Inv /\ Continuing /\ [Next]_vars => Continuing'
    BY NextContinues
  <1>3. Continuing => RecoveryContinues
    BY DEF Continuing
  <1> QED
    BY <1>1, <1>2, <1>3, Invariance, PTL DEF Spec
=============================================================================
