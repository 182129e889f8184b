----------------------- MODULE ExportAttempts_proofs ------------------------
(***************************************************************************)
(* Theorems about ExportAttempts, for every set of attempts, every finite  *)
(* set of processes and every bound.                                       *)
(***************************************************************************)
EXTENDS MCExportHistories, FiniteSetTheorems, SequenceTheorems, TLAPS

(***************************************************************************)
(* Lists of writes.  A write that grants authority to execute is either an *)
(* approval's or puts a claim back; only the first write of a list may do  *)
(* the latter, all others are quiet.                                       *)
(***************************************************************************)
Lawful(w) ==
    w.to = "row" /\ w.status \in ClaimableStatuses
        => w.by = "approve" \/ Requeues(w)

QuietWrites == {w \in Writes : Lawful(w) /\ ~ Requeues(w)}

QuietLists == Seq(QuietWrites) \ {<<>>}

\* The submission state that is written tells what the status tells.
Tells(w) ==
    w.to = "row" =>
        (w.submission \in SubmittedStates <=> w.status \in SubmittedStatuses)

TrueWrites == {w \in Writes : Tells(w)}

\* A write that says submitted on nobody's word but the operator's.
OwnWrites ==
    {w \in TrueWrites :
        w.to = "row" /\ w.status \in SubmittedStatuses => w.by = "result"}

PlainWrites == QuietWrites \cap OwnWrites

PlainLists == Seq(PlainWrites) \ {<<>>}

\* What an idle process that starts a handler of the operator does.
Decides(p, a) ==
    /\ Idle(p)
    /\ \E writes \in PlainLists : Begin(p, a, writes)
    /\ UNCHANGED <<row, source, route, record, reviews, crashes, observations>>

LEMMA WriteLists ==
    ASSUME NEW S, NEW w1 \in S, NEW w2 \in S, NEW w3 \in S
    PROVE  /\ <<w1>> \in Seq(S) \ {<<>>}
           /\ <<w1, w2>> \in Seq(S) \ {<<>>}
           /\ <<w1, w2, w3>> \in Seq(S) \ {<<>>}
  OBVIOUS

\* The rest of a list that was not its last write.
LEMMA TailOfLong ==
    ASSUME NEW S, NEW s \in Seq(S), s # <<>>, Len(s) # 1
    PROVE  Tail(s) \in Seq(S) /\ Tail(s) # <<>>
  <1>1. Len(s) \in Nat /\ Len(s) # 0
    BY EmptySeq
  <1>2. Tail(s) \in Seq(S) /\ Len(Tail(s)) = Len(s) - 1
    BY HeadTailProperties
  <1>3. Len(Tail(s)) # 0
    BY <1>1, <1>2
  <1> QED
    BY <1>2, <1>3, EmptySeq

LEMMA ListTypes ==
    /\ QuietLists \subseteq Seq(Writes) \ {<<>>}
    /\ PlainLists \subseteq QuietLists
    /\ PlainLists \subseteq Seq(OwnWrites)
  BY DEF QuietLists, QuietWrites, PlainLists, PlainWrites

\* The writes the handlers build are writes; they are quiet unless they put
\* a claim back or approve without being an approval.
LEMMA WriteTypes ==
    /\ \A by \in Handlers, s \in Statuses, x \in SubmissionStates,
          d \in Revisions :
          /\ RowWrite(by, s, x, d) \in Writes
          /\ StatusWrite(by, s, x) \in Writes
          /\ by # "release" /\ s # "deferred" /\ (s = "approved" => by = "approve")
             => /\ RowWrite(by, s, x, d) \in QuietWrites
                /\ StatusWrite(by, s, x) \in QuietWrites
          /\ (x \in SubmittedStates <=> s \in SubmittedStatuses)
             => /\ RowWrite(by, s, x, d) \in TrueWrites
                /\ (s \in SubmittedStatuses => by = "result")
                   => /\ RowWrite(by, s, x, d) \in OwnWrites
                      /\ StatusWrite(by, s, x) \in OwnWrites
    /\ \A v \in RecordStates : RecordWrite(v) \in PlainWrites
    /\ \A k \in ReviewKinds : /\ OpenReview(k) \in PlainWrites
                              /\ ResolveReview(k) \in PlainWrites
  <1>1. ASSUME NEW by \in Handlers, NEW s \in Statuses,
               NEW x \in SubmissionStates, NEW d \in Revisions
        PROVE  /\ RowWrite(by, s, x, d) \in Writes
               /\ StatusWrite(by, s, x) \in Writes
    BY BoundsAssumption
       DEF Writes, RowWrites, RowWrite, StatusWrite, Revisions
  <1>2. ASSUME NEW by \in Handlers, NEW s \in Statuses,
               NEW x \in SubmissionStates, NEW d \in Revisions,
               by # "release", s # "deferred", s = "approved" => by = "approve"
        PROVE  /\ RowWrite(by, s, x, d) \in QuietWrites
               /\ StatusWrite(by, s, x) \in QuietWrites
    BY <1>1, <1>2 DEF QuietWrites, Lawful, Requeues, RowWrite, StatusWrite,
                      ClaimableStatuses
  <1>3. ASSUME NEW by \in Handlers, NEW s \in Statuses,
               NEW x \in SubmissionStates, NEW d \in Revisions,
               x \in SubmittedStates <=> s \in SubmittedStatuses
        PROVE  /\ RowWrite(by, s, x, d) \in TrueWrites
               /\ (s \in SubmittedStatuses => by = "result")
                  => /\ RowWrite(by, s, x, d) \in OwnWrites
                     /\ StatusWrite(by, s, x) \in OwnWrites
    <2>1. /\ RowWrite(by, s, x, d) \in TrueWrites
          /\ StatusWrite(by, s, x) \in TrueWrites
      BY <1>1, <1>3 DEF TrueWrites, Tells, RowWrite, StatusWrite
    <2> QED
      BY <2>1 DEF OwnWrites, RowWrite, StatusWrite
  <1>4. \A v \in RecordStates : RecordWrite(v) \in PlainWrites
    BY DEF Writes, RecordWrites, RecordWrite, PlainWrites, QuietWrites,
           OwnWrites, TrueWrites, Tells, Lawful, Requeues
  <1>5. \A k \in ReviewKinds : /\ OpenReview(k) \in PlainWrites
                               /\ ResolveReview(k) \in PlainWrites
    BY DEF Writes, ReviewWrites, OpenReview, ResolveReview, PlainWrites,
           QuietWrites, OwnWrites, TrueWrites, Tells, Lawful, Requeues
  <1> QED
    BY <1>1, <1>2, <1>3, <1>4, <1>5

LEMMA PlainTypes ==
    /\ \A by \in Handlers, s \in Statuses, x \in SubmissionStates,
          d \in Revisions :
          /\ by # "release" /\ s # "deferred" /\ (s = "approved" => by = "approve")
          /\ x \in SubmittedStates <=> s \in SubmittedStatuses
          /\ s \in SubmittedStatuses => by = "result"
          => /\ RowWrite(by, s, x, d) \in PlainWrites
             /\ StatusWrite(by, s, x) \in PlainWrites
    /\ PlainWrites \subseteq QuietWrites
  <1>1. ASSUME NEW by \in Handlers, NEW s \in Statuses,
               NEW x \in SubmissionStates, NEW d \in Revisions,
               by # "release", s # "deferred", s = "approved" => by = "approve",
               x \in SubmittedStates <=> s \in SubmittedStatuses,
               s \in SubmittedStatuses => by = "result"
        PROVE  /\ RowWrite(by, s, x, d) \in PlainWrites
               /\ StatusWrite(by, s, x) \in PlainWrites
    BY <1>1, WriteTypes DEF PlainWrites
  <1> QED
    BY <1>1 DEF PlainWrites

LEMMA InitType == Init => TypeOK
  BY AttemptsAssumption, BoundsAssumption
     DEF Init, TypeOK, Parked, ProcStates, PCs, Rows, Statuses,
         PreparableStatuses, SubmissionStates, Revisions, RecordStates,
         ReviewKinds, NoRevision

LEMMA BeginType ==
    ASSUME TypeOK, NEW p \in Procs, NEW a \in Attempts,
           NEW writes \in Seq(Writes) \ {<<>>}, Begin(p, a, writes)
    PROVE  /\ proc' \in [Procs -> ProcStates]
           /\ \A q \in Procs : proc'[q].pc = "commit" => proc'[q].todo # <<>>
  BY DEF TypeOK, Begin, ProcStates, PCs

LEMMA ParkedType ==
    ASSUME NEW batch \in SUBSET Attempts
    PROVE  Parked(batch) \in ProcStates /\ Parked(batch).pc = "idle"
  <1>1. (CHOOSE a \in Attempts : TRUE) \in Attempts
    BY AttemptsAssumption
  <1> QED
    BY <1>1, BoundsAssumption DEF Parked, ProcStates, PCs, Revisions

LEMMA ReturnType ==
    ASSUME TypeOK, NEW p \in Procs, NEW batch \in SUBSET Attempts,
           proc' = [proc EXCEPT ![p] = Parked(batch)]
    PROVE  /\ proc' \in [Procs -> ProcStates]
           /\ \A q \in Procs : proc'[q].pc = "commit" => proc'[q].todo # <<>>
  BY ParkedType DEF TypeOK

\* The handlers that only decide: nothing but the process changes.
LEMMA DecideType ==
    ASSUME TypeOK, NEW p \in Procs, NEW a \in Attempts, Decides(p, a)
    PROVE  TypeOK'
  <1>1. PICK writes \in Seq(Writes) \ {<<>>} : Begin(p, a, writes)
    BY ListTypes DEF Decides
  <1> QED
    BY <1>1, BeginType DEF Decides, TypeOK, observations

LEMMA PrepareDecides ==
    ASSUME NEW p \in Procs, NEW a \in Attempts, Prepare(p, a)
    PROVE  Decides(p, a)
  <1>1. 0 \in Revisions
    BY BoundsAssumption DEF Revisions
  <1>2. /\ RowWrite("prepare", "blocked", "not_executed", 0) \in PlainWrites
        /\ RowWrite("prepare", "approval_required", "not_executed", 0) \in PlainWrites
        /\ RecordWrite("blocked") \in PlainWrites
        /\ RecordWrite("awaiting_approval") \in PlainWrites
    BY <1>1, WriteTypes, PlainTypes
       DEF Handlers, SubmittedStates, SubmittedStatuses, Statuses, PreparableStatuses, ApprovableStatuses,
           SubmissionStates, RecordStates
  <1> DEFINE writes ==
        IF route[a].blocked
        THEN <<RowWrite("prepare", "blocked", "not_executed", 0),
               RecordWrite("blocked")>>
        ELSE <<RowWrite("prepare", "approval_required", "not_executed", 0),
               RecordWrite("awaiting_approval")>>
  <1>3. writes \in PlainLists
    BY <1>2, WriteLists DEF PlainLists
  <1>4. Begin(p, a, writes)
    BY DEF Prepare
  <1> HIDE DEF writes
  <1> QED
    BY <1>3, <1>4 DEF Decides, Free, Prepare

LEMMA ApproveDecides ==
    ASSUME TypeOK, NEW p \in Procs, NEW a \in Attempts, Approve(p, a)
    PROVE  Decides(p, a)
  <1>1. row[a].draft \in Revisions
    BY DEF TypeOK, Rows
  <1> DEFINE first == ResolveReview("wave")
             second == RowWrite("approve", "approved", "approved_not_executed",
                                row[a].draft)
             third == RecordWrite("approved_not_submitted")
             head == IF row[a].status = "attention_required"
                     THEN <<first>> ELSE <<>>
             writes == head \o <<second, third>>
  <1>2. first \in PlainWrites /\ second \in PlainWrites /\ third \in PlainWrites
    BY <1>1, WriteTypes, PlainTypes
       DEF Handlers, SubmittedStates, SubmittedStatuses, Statuses, RejectableStatuses, SubmissionStates,
           RecordStates, ReviewKinds
  <1>3. Begin(p, a, writes)
    BY DEF Approve
  <1> HIDE DEF first, second, third
  <1>4. head \in Seq(PlainWrites)
    BY <1>2
  <1>5. <<second, third>> \in PlainLists
    BY <1>2 DEF PlainLists
  <1>6. writes \in PlainLists
    <2> HIDE DEF head
    <2> QED BY <1>4, <1>5 DEF PlainLists
  <1> HIDE DEF writes
  <1> QED
    BY <1>3, <1>6 DEF Decides, Free, Approve

LEMMA RejectDecides ==
    ASSUME TypeOK, NEW p \in Procs, NEW a \in Attempts, Reject(p, a)
    PROVE  Decides(p, a)
  <1>1. row[a].draft \in Revisions
    BY DEF TypeOK, Rows
  <1> DEFINE first == RowWrite("reject", "rejected", "rejected_not_executed",
                               row[a].draft)
             last == RecordWrite("rejected_not_executed")
             middle == CASE row[a].status = "supervision_required" ->
                               <<ResolveReview("supervision")>>
                         [] row[a].status = "attention_required" ->
                               <<ResolveReview("wave")>>
                         [] OTHER -> <<>>
             writes == <<first>> \o middle \o <<last>>
  <1>2. first \in PlainWrites /\ last \in PlainWrites
    BY <1>1, WriteTypes, PlainTypes
       DEF Handlers, SubmittedStates, SubmittedStatuses, Statuses, SubmissionStates, RecordStates
  <1>3. \A k \in ReviewKinds : ResolveReview(k) \in PlainWrites
    BY WriteTypes, PlainTypes
  <1>4. middle \in Seq(PlainWrites)
    BY <1>3 DEF ReviewKinds
  <1>5. Begin(p, a, writes)
    BY DEF Reject
  <1> HIDE DEF first, last, middle
  <1>6. <<first>> \in Seq(PlainWrites) /\ <<last>> \in PlainLists
    BY <1>2 DEF PlainLists
  <1>7. writes \in PlainLists
    BY <1>4, <1>6 DEF PlainLists
  <1> HIDE DEF writes
  <1> QED
    BY <1>5, <1>7 DEF Decides, Free, Reject

LEMMA RecordResultDecides ==
    ASSUME TypeOK, NEW p \in Procs, NEW a \in Attempts,
           NEW s \in ResultStatuses, RecordResult(p, a, s)
    PROVE  Decides(p, a)
  <1>1. row[a].draft \in Revisions
    BY DEF TypeOK, Rows
  <1> DEFINE first == RowWrite("result", s, SubmissionForResult(s),
                               row[a].draft)
             last == RecordWrite(SubmissionForResult(s))
             middle == IF /\ row[a].status = "supervision_required"
                          /\ s \in {"executed", "submitted"}
                       THEN <<ResolveReview("supervision")>> ELSE <<>>
             writes == <<first>> \o middle \o <<last>>
  <1>2. /\ SubmissionForResult(s) \in SubmissionStates
        /\ SubmissionForResult(s) \in RecordStates
        /\ s \in Statuses \ {"approved", "deferred"}
        /\ SubmissionForResult(s) \in SubmittedStates
               <=> s \in SubmittedStatuses
    BY DEF SubmittedStates, SubmissionForResult, SubmissionStates, RecordStates,
           ResultStatuses, SubmittedStatuses, Statuses
  <1>3. first \in PlainWrites /\ last \in PlainWrites
    BY <1>1, <1>2, WriteTypes, PlainTypes DEF Handlers
  <1>4. middle \in Seq(PlainWrites)
    <2>1. ResolveReview("supervision") \in PlainWrites
      BY WriteTypes DEF ReviewKinds
    <2> QED
      BY <2>1
  <1>5. Begin(p, a, writes)
    BY DEF RecordResult
  <1> HIDE DEF first, last, middle
  <1>6. <<first>> \in Seq(PlainWrites) /\ <<last>> \in PlainLists
    BY <1>3 DEF PlainLists
  <1>7. writes \in PlainLists
    BY <1>4, <1>6 DEF PlainLists
  <1> HIDE DEF writes
  <1> QED
    BY <1>5, <1>7 DEF Decides, Free, RecordResult

LEMMA RegenerateDecides ==
    ASSUME TypeOK, NEW p \in Procs, NEW a \in Attempts, Regenerate(p, a)
    PROVE  Decides(p, a)
  <1>1. source[a] \in Revisions
    BY DEF TypeOK
  <1> DEFINE writes == <<RegeneratedRow(source[a]),
                         RecordWrite("awaiting_approval")>>
  <1>2. /\ RegeneratedRow(source[a]) \in PlainWrites
        /\ RecordWrite("awaiting_approval") \in PlainWrites
    BY <1>1, WriteTypes, PlainTypes
       DEF RegeneratedRow, Handlers, SubmittedStates, SubmittedStatuses, Statuses, ApprovableStatuses,
           SubmissionStates, RecordStates
  <1>3. writes \in PlainLists
    BY <1>2, WriteLists DEF PlainLists
  <1>4. Begin(p, a, writes)
    BY DEF Regenerate
  <1> HIDE DEF writes
  <1> QED
    BY <1>3, <1>4 DEF Decides, Free, Regenerate

\* A worker's batch changes while it is between two handlers.
LEMMA BatchType ==
    ASSUME TypeOK, NEW p \in Procs, NEW batch \in SUBSET Attempts,
           proc' = [proc EXCEPT ![p].batch = batch]
    PROVE  /\ proc' \in [Procs -> ProcStates]
           /\ \A q \in Procs : proc'[q].pc = "commit" => proc'[q].todo # <<>>
  <1> DEFINE new == [proc[p] EXCEPT !.batch = batch]
  <1>1. /\ proc \in [Procs -> ProcStates]
        /\ \A q \in Procs : proc[q].pc = "commit" => proc[q].todo # <<>>
    BY DEF TypeOK
  <1>2. proc[p] \in ProcStates
    BY <1>1
  <1>3. /\ new \in ProcStates
        /\ new.pc = proc[p].pc /\ new.todo = proc[p].todo
    BY <1>2 DEF ProcStates
  <1>4. proc' = [proc EXCEPT ![p] = new]
    OBVIOUS
  <1> HIDE DEF new
  <1> QED
    BY <1>1, <1>3, <1>4

LEMMA ExecuteType ==
    ASSUME TypeOK, NEW p \in Procs, NEW a \in Attempts,
           StartBatch(p) \/ Execute(p, a)
    PROVE  TypeOK'
  <1>1. UNCHANGED <<row, source, route, record, reviews, crashes, observations>>
    BY DEF StartBatch, Execute
  <1>2. /\ proc' \in [Procs -> ProcStates]
        /\ \A q \in Procs : proc'[q].pc = "commit" => proc'[q].todo # <<>>
    <2>1. CASE StartBatch(p)
      <3>1. PICK due \in SUBSET Attempts :
                proc' = [proc EXCEPT ![p].batch = due]
        BY <2>1 DEF StartBatch
      <3> QED
        BY <3>1, BatchType
    <2>2. CASE Execute(p, a)
      <3>1. 0 \in Revisions
        BY BoundsAssumption DEF Revisions
      <3>2. CASE proc' = [proc EXCEPT ![p] =
                            [pc |-> "claim", on |-> a, draft |-> 0,
                             todo |-> <<>>, batch |-> proc[p].batch \ {a}]]
        <4> DEFINE new == [pc |-> "claim", on |-> a, draft |-> 0,
                           todo |-> <<>>, batch |-> proc[p].batch \ {a}]
        <4>1. new \in ProcStates /\ new.pc # "commit"
          BY <3>1 DEF TypeOK, ProcStates, PCs
        <4> HIDE DEF new
        <4> QED
          BY <3>2, <4>1 DEF TypeOK, new
      <3>3. CASE proc' = [proc EXCEPT ![p].batch = @ \ {a}]
        <4>1. /\ proc[p].batch \ {a} \in SUBSET Attempts
              /\ proc' = [proc EXCEPT ![p].batch = proc[p].batch \ {a}]
          BY <3>3 DEF TypeOK, ProcStates
        <4> QED
          BY <4>1, BatchType
      <3> QED
        BY <2>2, <3>2, <3>3 DEF Execute
    <2> QED
      BY <2>1, <2>2
  <1> QED
    BY <1>1, <1>2 DEF TypeOK, observations

LEMMA ClaimType ==
    ASSUME TypeOK, NEW p \in Procs, Claim(p)
    PROVE  TypeOK'
  <1> DEFINE a == proc[p].on
             new == [pc |-> "check", on |-> a, draft |-> row[a].draft,
                     todo |-> <<>>, batch |-> proc[p].batch]
  <1>1. a \in Attempts /\ proc[p].batch \in SUBSET Attempts
    BY DEF TypeOK, ProcStates
  <1>2. UNCHANGED <<source, route, record, reviews, crashes, approvals,
                    requeues, handed, artifact, approvedRevs, attested>>
    BY DEF Claim
  <1>3. CASE row[a].status \in ClaimableStatuses
    <2>1. new \in ProcStates /\ new.pc # "commit"
      BY <1>1 DEF TypeOK, ProcStates, PCs, Rows
    <2>2. /\ row' = [row EXCEPT ![a].status = "execution_in_progress"]
          /\ proc' = [proc EXCEPT ![p] = new]
          /\ claims' = [claims EXCEPT ![a] = @ + 1]
      BY <1>3 DEF Claim
    <2> HIDE DEF new
    <2>3. /\ proc' \in [Procs -> ProcStates]
          /\ \A q \in Procs : proc'[q].pc = "commit" => proc'[q].todo # <<>>
      BY <2>1, <2>2 DEF TypeOK
    <2>4. row' \in [Attempts -> Rows]
      BY <1>1, <2>2 DEF TypeOK, Rows, Statuses
    <2>5. claims' \in [Attempts -> Nat]
      BY <1>1, <2>2 DEF TypeOK
    <2> QED
      BY <1>2, <2>3, <2>4, <2>5 DEF TypeOK
  <1>4. CASE row[a].status \notin ClaimableStatuses
    <2>1. Return(p) /\ UNCHANGED <<row, claims>>
      BY <1>4 DEF Claim
    <2>2. /\ proc' \in [Procs -> ProcStates]
          /\ \A q \in Procs : proc'[q].pc = "commit" => proc'[q].todo # <<>>
      BY <1>1, <2>1, ReturnType DEF Return
    <2> QED
      BY <1>2, <2>1, <2>2 DEF TypeOK
  <1> QED
    BY <1>3, <1>4

LEMMA CheckType ==
    ASSUME TypeOK, NEW p \in Procs, Check(p)
    PROVE  TypeOK'
  <1> DEFINE a == proc[p].on
             release == StatusWrite("release", "approved",
                                    "approved_not_executed")
  <1>1. a \in Attempts
    BY DEF TypeOK, ProcStates
  <1>2. release \in Writes
    BY WriteTypes, BoundsAssumption
       DEF Handlers, Statuses, RejectableStatuses, SubmissionStates, Revisions
  <1>3. <<release>> \in Seq(Writes) \ {<<>>}
    BY <1>2
  <1>4. UNCHANGED <<row, source, route, record, reviews, crashes, observations>>
    BY DEF Check
  <1>5. CASE Begin(p, a, <<release>>)
    BY <1>1, <1>3, <1>4, <1>5, BeginType DEF TypeOK, observations
  <1>6. ASSUME NEW pc \in {"dispatch", "artifact"},
               proc' = [proc EXCEPT ![p].pc = pc]
        PROVE  TypeOK'
    <2>1. /\ proc' \in [Procs -> ProcStates]
          /\ \A q \in Procs : proc'[q].pc = "commit" => proc'[q].todo # <<>>
      BY <1>6 DEF TypeOK, ProcStates, PCs
    <2> QED
      BY <1>4, <2>1 DEF TypeOK, observations
  <1> QED
    BY <1>5, <1>6 DEF Check

\* What an execution decides to write is a list of writes: a quiet one, or
\* the single write that puts the claim back.
LEMMA ExecutionWritesType ==
    ASSUME NEW o \in WaveOutcomes, NEW draft \in Revisions
    PROVE  /\ ExecutionWrites(o, draft) \in Seq(Writes) \ {<<>>}
           /\ o # "throttled" => ExecutionWrites(o, draft) \in QuietLists
  <1>1. /\ RowWrite("execute", "executed", "executed", draft) \in QuietWrites
        /\ RowWrite("execute", "deferred", "not_executed", draft) \in Writes
        /\ RowWrite("execute", "attention_required", "not_executed", draft)
             \in QuietWrites
        /\ RowWrite("execute", "failed", "failed", draft) \in QuietWrites
    BY WriteTypes
       DEF Handlers, Statuses, RejectableStatuses, ResultStatuses,
           SubmittedStatuses, SubmissionStates
  <1>2. /\ RecordWrite("executed") \in QuietWrites
        /\ RecordWrite("attention_required") \in QuietWrites
        /\ RecordWrite("failed") \in QuietWrites
        /\ OpenReview("wave") \in QuietWrites
    BY WriteTypes, PlainTypes DEF RecordStates, ReviewKinds
  <1>3. CASE o = "success"
    BY <1>1, <1>2, <1>3, WriteLists, ListTypes
       DEF ExecutionWrites, QuietLists
  <1>4. CASE o = "throttled"
    BY <1>1, <1>4 DEF ExecutionWrites
  <1>5. CASE o = "attention"
    BY <1>1, <1>2, <1>5, WriteLists, ListTypes
       DEF ExecutionWrites, QuietLists
  <1>6. CASE o \in {"failure", "answer_lost"}
    BY <1>1, <1>2, <1>6, WriteLists, ListTypes
       DEF ExecutionWrites, QuietLists
  <1> QED
    BY <1>3, <1>4, <1>5, <1>6 DEF WaveOutcomes

LEMMA DispatchType ==
    ASSUME TypeOK, NEW p \in Procs, NEW o \in WaveOutcomes, Dispatch(p, o)
    PROVE  TypeOK'
  <1> DEFINE a == proc[p].on
             writes == ExecutionWrites(o, proc[p].draft)
  <1>1. a \in Attempts /\ proc[p].draft \in Revisions
    BY DEF TypeOK, ProcStates
  <1>2. writes \in Seq(Writes) \ {<<>>}
    BY <1>1, ExecutionWritesType
  <1>3. Begin(p, a, writes)
    BY DEF Dispatch
  <1>4. handed' \in [Attempts -> Nat]
    BY <1>1 DEF Dispatch, TypeOK
  <1> HIDE DEF writes
  <1> QED
    BY <1>1, <1>2, <1>3, <1>4, BeginType DEF Dispatch, TypeOK

\* Storing the supervised file, or failing to, ends in a quiet list.
LEMMA SuperviseArtifactBegins ==
    ASSUME TypeOK, NEW p \in Procs, SuperviseArtifact(p)
    PROVE  \E writes \in QuietLists : Begin(p, proc[p].on, writes)
  <1> DEFINE stored == <<RowWrite("execute", "supervision_required",
                                  "not_executed", proc[p].draft),
                         RecordWrite("supervision_required"),
                         OpenReview("supervision")>>
             lost == <<StatusWrite("execute", "failed", "not_executed")>>
  <1>1. proc[p].draft \in Revisions
    BY DEF TypeOK, ProcStates
  <1>2. /\ RowWrite("execute", "supervision_required", "not_executed",
                    proc[p].draft) \in QuietWrites
        /\ StatusWrite("execute", "failed", "not_executed") \in QuietWrites
        /\ RecordWrite("supervision_required") \in QuietWrites
        /\ OpenReview("supervision") \in QuietWrites
    BY <1>1, WriteTypes, PlainTypes
       DEF Handlers, Statuses, RejectableStatuses, ResultStatuses,
           SubmissionStates, RecordStates, ReviewKinds
  <1>3. stored \in QuietLists /\ lost \in QuietLists
    BY <1>2, WriteLists DEF QuietLists
  <1>4. Begin(p, proc[p].on, stored) \/ Begin(p, proc[p].on, lost)
    BY DEF SuperviseArtifact
  <1> HIDE DEF stored, lost
  <1> QED
    BY <1>3, <1>4

LEMMA SuperviseArtifactType ==
    ASSUME TypeOK, NEW p \in Procs, SuperviseArtifact(p)
    PROVE  TypeOK'
  <1> DEFINE a == proc[p].on
  <1>1. a \in Attempts
    BY DEF TypeOK, ProcStates
  <1>2. PICK writes \in Seq(Writes) \ {<<>>} : Begin(p, a, writes)
    BY SuperviseArtifactBegins, ListTypes
  <1>3. handed' \in [Attempts -> Nat]
    <2>1. handed' = handed \/ handed' = [handed EXCEPT ![a] = @ + 1]
      BY DEF SuperviseArtifact
    <2>2. handed \in [Attempts -> Nat]
      BY DEF TypeOK
    <2> HIDE DEF a
    <2> QED
      BY <1>1, <2>1, <2>2
  <1>4. artifact' \in [Attempts -> Revisions \cup {NoRevision}]
    <2>1. row[a].draft \in Revisions
      BY <1>1 DEF TypeOK, Rows
    <2>2. artifact' = artifact
            \/ artifact' = [artifact EXCEPT ![a] = row[a].draft]
      BY DEF SuperviseArtifact
    <2> QED
      BY <1>1, <2>1, <2>2 DEF TypeOK
  <1>5. /\ proc' \in [Procs -> ProcStates]
        /\ \A q \in Procs : proc'[q].pc = "commit" => proc'[q].todo # <<>>
    BY <1>1, <1>2, BeginType
  <1> QED
    BY <1>3, <1>4, <1>5 DEF SuperviseArtifact, TypeOK

LEMMA LoseArtifactType ==
    ASSUME TypeOK, NEW p \in Procs, LoseArtifact(p)
    PROVE  TypeOK'
  <1>1. proc[p].batch \in SUBSET Attempts
    BY DEF TypeOK, ProcStates
  <1>2. /\ proc' \in [Procs -> ProcStates]
        /\ \A q \in Procs : proc'[q].pc = "commit" => proc'[q].todo # <<>>
    BY <1>1, ReturnType DEF LoseArtifact, Return
  <1> QED
    BY <1>2 DEF LoseArtifact, TypeOK, observations

LEMMA CommitType ==
    ASSUME TypeOK, NEW p \in Procs, Commit(p)
    PROVE  TypeOK'
  <1> DEFINE a == proc[p].on
             w == Head(proc[p].todo)
  <1>1. /\ a \in Attempts
        /\ proc[p].todo \in Seq(Writes)
        /\ proc[p].batch \in SUBSET Attempts
    BY DEF TypeOK, ProcStates
  <1>2. proc[p].todo # <<>>
    BY DEF TypeOK, Commit
  <1>3. w \in Writes
    BY <1>1, <1>2
  <1>4. /\ proc' \in [Procs -> ProcStates]
        /\ \A q \in Procs : proc'[q].pc = "commit" => proc'[q].todo # <<>>
    <2>1. CASE Return(p)
      BY <1>1, <2>1, ReturnType DEF Return
    <2>2. CASE /\ Len(proc[p].todo) # 1
               /\ proc' = [proc EXCEPT ![p].todo = Tail(@)]
      <3> DEFINE all == proc[p].todo
                 rest == Tail(all)
      <3>1. rest \in Seq(Writes) /\ rest # <<>>
        <4>1. all \in Seq(Writes) /\ all # <<>> /\ Len(all) # 1
          BY <1>1, <1>2, <2>2
        <4> HIDE DEF all
        <4> QED
          BY <4>1, TailOfLong
      <3>2. proc' = [proc EXCEPT ![p].todo = rest]
        BY <2>2
      <3> HIDE DEF rest
      <3>3. proc \in [Procs -> ProcStates]
        BY DEF TypeOK
      <3>4. proc' \in [Procs -> ProcStates]
        BY <3>1, <3>2, <3>3 DEF ProcStates
      <3>5. \A q \in Procs : proc'[q].todo = IF q = p THEN rest ELSE proc[q].todo
        BY <3>2 DEF TypeOK, ProcStates
      <3>6. \A q \in Procs : proc'[q].pc = proc[q].pc
        BY <3>2 DEF TypeOK, ProcStates
      <3> QED
        BY <3>1, <3>4, <3>5, <3>6 DEF TypeOK
    <2> QED
      BY <2>1, <2>2 DEF Commit
  <1>5. UNCHANGED <<source, route, crashes, claims, handed, artifact>>
    BY DEF Commit
  <1> HIDE DEF w
  <1>6. CASE w.to = "row" /\ CommitRow(a, w)
    <2>1. w \in RowWrites
      BY <1>3, <1>6 DEF Writes, RecordWrites, ReviewWrites
    <2>2. Written(row[a], w) \in Rows
      BY <1>1, <2>1 DEF Written, RowWrites, TypeOK, Rows
    <2>3. row' \in [Attempts -> Rows]
      BY <1>1, <1>6, <2>2 DEF CommitRow, TypeOK
    <2>4. approvals' \in [Attempts -> Nat] /\ requeues' \in [Attempts -> Nat]
      BY <1>1, <1>6 DEF CommitRow, TypeOK
    <2>5. approvedRevs' \in [Attempts -> SUBSET Revisions]
      BY <1>1, <1>6, <2>1 DEF CommitRow, TypeOK, RowWrites
    <2>6. attested' \in [Attempts -> BOOLEAN]
      BY <1>1, <1>6, Zenon DEF CommitRow, TypeOK
    <2> QED
      BY <1>4, <1>5, <1>6, <2>3, <2>4, <2>5, <2>6 DEF CommitRow, TypeOK
  <1>7. CASE w.to = "record" /\ CommitRecord(a, w)
    <2>1. w.value \in RecordStates
      BY <1>3, <1>7 DEF Writes, RowWrites, RecordWrites, ReviewWrites
    <2>2. record' \in [Attempts -> RecordStates]
      BY <1>1, <1>7, <2>1 DEF CommitRecord, TypeOK
    <2> QED
      BY <1>4, <1>5, <1>7, <2>2 DEF CommitRecord, TypeOK
  <1>8. CASE w.to = "review" /\ CommitReview(a, w)
    <2>1. w.kind \in ReviewKinds
      BY <1>3, <1>8 DEF Writes, RowWrites, RecordWrites, ReviewWrites
    <2>2. reviews' \in [Attempts -> SUBSET ReviewKinds]
      BY <1>1, <1>8, <2>1 DEF CommitReview, TypeOK
    <2> QED
      BY <1>4, <1>5, <1>8, <2>2 DEF CommitReview, TypeOK
  <1>9. w.to \in {"row", "record", "review"}
    BY <1>3 DEF Writes, RowWrites, RecordWrites, ReviewWrites
  <1> QED
    BY <1>6, <1>7, <1>8, <1>9 DEF Commit, w

LEMMA CrashType ==
    ASSUME TypeOK, NEW p \in Procs, Crash(p)
    PROVE  TypeOK'
  <1>1. /\ proc' \in [Procs -> ProcStates]
        /\ \A q \in Procs : proc'[q].pc = "commit" => proc'[q].todo # <<>>
    <2>1. {} \in SUBSET Attempts /\ proc' = [proc EXCEPT ![p] = Parked({})]
      BY DEF Crash
    <2> QED
      BY <2>1, ReturnType
  <1> QED
    BY <1>1, BoundsAssumption DEF Crash, TypeOK, observations

LEMMA EnvironmentType ==
    ASSUME TypeOK, NEW a \in Attempts, EditSource(a) \/ ChangeGate(a)
    PROVE  TypeOK'
  <1>1. CASE EditSource(a)
    <2>1. source' \in [Attempts -> Revisions]
      BY <1>1, BoundsAssumption DEF EditSource, TypeOK, Revisions
    <2> QED
      BY <1>1, <2>1 DEF EditSource, TypeOK, observations
  <1>2. CASE ChangeGate(a)
    <2> DEFINE new == [route[a] EXCEPT !.blocked = ~ route[a].blocked]
    <2>1. route \in [Attempts -> Routes] /\ route[a] \in Routes
      BY DEF TypeOK
    <2>2. new \in Routes
      <3>1. route[a].blocked \in BOOLEAN
        BY <2>1 DEF Routes
      <3>2. (~ route[a].blocked) \in BOOLEAN
        OBVIOUS
      <3> HIDE DEF new
      <3>3. \A v \in BOOLEAN : [route[a] EXCEPT !.blocked = v] \in Routes
        BY <2>1 DEF Routes
      <3> QED
        BY <3>2, <3>3 DEF new
    <2> HIDE DEF new
    <2>3. route' \in [Attempts -> Routes]
      <3>1. route' = [route EXCEPT ![a] = new]
        BY <1>2 DEF ChangeGate, new
      <3> QED
        BY <2>1, <2>2, <3>1
    <2> QED
      BY <1>2, <2>3 DEF ChangeGate, TypeOK, observations
  <1> QED
    BY <1>1, <1>2

LEMMA OperateDecides ==
    ASSUME TypeOK, NEW p \in Procs, NEW a \in Attempts, Operate(p, a)
    PROVE  Decides(p, a) \/ Execute(p, a)
  BY PrepareDecides, ApproveDecides, RejectDecides, RecordResultDecides,
     RegenerateDecides DEF Operate

LEMMA NextType ==
    ASSUME TypeOK, [Next]_vars
    PROVE  TypeOK'
  <1>1. ASSUME NEW p \in Procs, NEW a \in Attempts, Operate(p, a)
        PROVE  TypeOK'
    BY <1>1, OperateDecides, DecideType, ExecuteType
  <1>2. ASSUME NEW p \in Procs, StartBatch(p) \/ Proceed(p) \/ Crash(p)
        PROVE  TypeOK'
    BY <1>2, AttemptsAssumption, ExecuteType, ClaimType, CheckType,
       DispatchType, SuperviseArtifactType, LoseArtifactType, CommitType,
       CrashType DEF Proceed
  <1>3. CASE UNCHANGED vars
    BY <1>3 DEF vars, TypeOK
  <1> QED
    BY <1>1, <1>2, <1>3, EnvironmentType DEF Next

\* Type correctness of the export tables and of every process.
THEOREM TypeCorrect == Spec => []TypeOK
  BY InitType, NextType, PTL DEF Spec

(***************************************************************************)
(* The accounting argument.  Every claim of an attempt is paid for by an   *)
(* approval or by an earlier claim that came back (ClaimsSpendAuthority),  *)
(* and every claim ends in at most one way (ClaimsAccounted): so what was  *)
(* handed out is covered by approvals.  To be inductive this needs what    *)
(* the pending writes of a process may still do (TodoLawful).              *)
(***************************************************************************)
TodoLawful ==
    \A p \in Procs :
        proc[p].pc = "commit" => /\ Lawful(Head(proc[p].todo))
                                 /\ Tail(proc[p].todo) \in Seq(QuietWrites)

IInv == TypeOK /\ TodoLawful /\ ClaimsSpendAuthority /\ ClaimsAccounted

\* 1 when the process executes the attempt.
Share(p, b) == IF Executing(p, b) THEN 1 ELSE 0

Count(b) == Cardinality(Executors(b))

\* A step of one process changes the number of executors by its own share.
LEMMA CountStep ==
    ASSUME NEW p \in Procs, \A q \in Procs \ {p} : proc'[q] = proc[q],
           NEW b \in Attempts
    PROVE  /\ Count(b) \in Nat /\ Count(b)' \in Nat
           /\ Count(b)' - Share(p, b)' = Count(b) - Share(p, b)
  <1> DEFINE rest == Executors(b) \ {p}
  <1>1. /\ Executors(b)' \ {p} = rest
        /\ Executors(b) \subseteq Procs /\ Executors(b)' \subseteq Procs
    BY DEF Executors, Executing
  <1>2. p \in Executors(b) <=> Executing(p, b)
    BY DEF Executors
  <1>3. p \in Executors(b)' <=> Executing(p, b)'
    BY DEF Executors
  <1>4. IsFiniteSet(Executors(b)) /\ IsFiniteSet(Executors(b)')
    BY <1>1, ProcsAssumption, FS_Subset
  <1>5. Count(b) \in Nat /\ Count(b)' \in Nat
    BY <1>4, FS_CardinalityType DEF Count
  <1>6. Cardinality(rest) = Count(b) - Share(p, b)
    <2>1. Cardinality(Executors(b) \ {p})
            = IF p \in Executors(b) THEN Cardinality(Executors(b)) - 1
                                    ELSE Cardinality(Executors(b))
      BY <1>4, FS_RemoveElement
    <2> QED
      BY <1>2, <1>5, <2>1 DEF Count, Share
  <1>7. Cardinality(rest) = Count(b)' - Share(p, b)'
    <2>1. Cardinality(Executors(b)' \ {p})
            = IF p \in Executors(b)' THEN Cardinality(Executors(b)') - 1
                                     ELSE Cardinality(Executors(b)')
      BY <1>4, FS_RemoveElement
    <2> QED
      BY <1>1, <1>3, <1>5, <2>1 DEF Count, Share
  <1> QED
    BY <1>5, <1>6, <1>7

\* A process that turns to a handler's quiet list executes nothing.
LEMMA BeginQuiet ==
    ASSUME TypeOK, NEW p \in Procs, NEW a \in Attempts,
           NEW writes \in QuietLists, Begin(p, a, writes)
    PROVE  /\ \A q \in Procs \ {p} : proc'[q] = proc[q]
           /\ \A b \in Attempts : Share(p, b)' = 0
           /\ TodoLawful => TodoLawful'
  <1>1. /\ \A q \in Procs \ {p} : proc'[q] = proc[q]
        /\ proc'[p].pc = "commit" /\ proc'[p].todo = writes
    BY DEF Begin, TypeOK
  <1>2. writes \in Seq(QuietWrites) /\ writes # <<>>
    BY DEF QuietLists
  <1>3. Head(writes) \in QuietWrites /\ Tail(writes) \in Seq(QuietWrites)
    BY <1>2, HeadTailProperties
  <1>4. ~ Requeues(Head(writes)) /\ Lawful(Head(writes))
    BY <1>3 DEF QuietWrites
  <1>5. \A b \in Attempts : ~ Executing(p, b)'
    BY <1>1, <1>4 DEF Executing, Requeues
  <1>6. ASSUME TodoLawful PROVE TodoLawful'
    BY <1>1, <1>3, <1>4, <1>6 DEF TodoLawful, Lawful, Requeues
  <1> QED
    BY <1>1, <1>5, <1>6 DEF Share

\* A process that lets go executes nothing either.
LEMMA ParkQuiet ==
    ASSUME TypeOK, NEW p \in Procs, NEW batch \in SUBSET Attempts,
           proc' = [proc EXCEPT ![p] = Parked(batch)]
    PROVE  /\ \A q \in Procs \ {p} : proc'[q] = proc[q]
           /\ \A b \in Attempts : Share(p, b)' = 0
           /\ TodoLawful => TodoLawful'
  <1>1. /\ \A q \in Procs \ {p} : proc'[q] = proc[q]
        /\ proc'[p].pc = "idle"
    BY ParkedType DEF TypeOK
  <1>2. \A b \in Attempts : ~ Executing(p, b)'
    BY <1>1 DEF Executing
  <1>3. ASSUME TodoLawful PROVE TodoLawful'
    BY <1>1, <1>3 DEF TodoLawful
  <1> QED
    BY <1>1, <1>2, <1>3 DEF Share

\* The steps that leave the ledger's accounts alone.
LEMMA AccountsKept ==
    ASSUME TypeOK, ClaimsSpendAuthority, ClaimsAccounted, NEW p \in Procs,
           \A q \in Procs \ {p} : proc'[q] = proc[q],
           \A b \in Attempts : Share(p, b)' <= Share(p, b),
           UNCHANGED <<row, approvals, claims, requeues, handed>>
    PROVE  ClaimsSpendAuthority' /\ ClaimsAccounted'
  <1>1. ClaimsSpendAuthority'
    BY DEF ClaimsSpendAuthority
  <1>2. ASSUME NEW b \in Attempts
        PROVE  handed'[b] + requeues'[b] + Count(b)' <= claims'[b]
    <2>1. /\ Count(b) \in Nat /\ Count(b)' \in Nat
          /\ Count(b)' - Share(p, b)' = Count(b) - Share(p, b)
      BY CountStep
    <2>2. handed[b] + requeues[b] + Count(b) <= claims[b]
      BY DEF ClaimsAccounted, Count
    <2>3. Share(p, b) \in Nat /\ Share(p, b)' \in Nat
      BY DEF Share
    <2>4. /\ handed'[b] = handed[b] /\ requeues'[b] = requeues[b]
          /\ claims'[b] = claims[b]
          /\ handed[b] \in Nat /\ requeues[b] \in Nat /\ claims[b] \in Nat
      BY DEF TypeOK
    <2> QED
      BY <2>1, <2>2, <2>3, <2>4
  <1> QED
    BY <1>1, <1>2 DEF ClaimsAccounted, Count

LEMMA DecideAccounts ==
    ASSUME IInv, NEW p \in Procs, NEW a \in Attempts, Decides(p, a)
    PROVE  TodoLawful' /\ ClaimsSpendAuthority' /\ ClaimsAccounted'
  <1>1. PICK writes \in QuietLists : Begin(p, a, writes)
    BY ListTypes DEF Decides
  <1>2. /\ \A q \in Procs \ {p} : proc'[q] = proc[q]
        /\ \A b \in Attempts : Share(p, b)' = 0
        /\ TodoLawful'
    BY <1>1, BeginQuiet DEF IInv
  <1>3. \A b \in Attempts : Share(p, b)' <= Share(p, b)
    BY <1>2 DEF Share
  <1> QED
    BY <1>2, <1>3, AccountsKept DEF IInv, Decides, observations

LEMMA ExecuteAccounts ==
    ASSUME IInv, NEW p \in Procs, NEW a \in Attempts,
           StartBatch(p) \/ Execute(p, a)
    PROVE  TodoLawful' /\ ClaimsSpendAuthority' /\ ClaimsAccounted'
  <1>1. \A q \in Procs \ {p} : proc'[q] = proc[q]
    BY DEF StartBatch, Execute, IInv, TypeOK
  <1>2. proc'[p].pc \in {"idle", "claim"}
    BY DEF StartBatch, Execute, Free, Idle, IInv, TypeOK, ProcStates
  <1>3. \A b \in Attempts : Share(p, b)' = 0
    BY <1>2 DEF Share, Executing
  <1>4. TodoLawful'
    BY <1>1, <1>2 DEF IInv, TodoLawful
  <1>5. \A b \in Attempts : Share(p, b)' <= Share(p, b)
    BY <1>3 DEF Share
  <1> QED
    BY <1>1, <1>4, <1>5, AccountsKept
       DEF IInv, StartBatch, Execute, observations

\* Winning a claim: the row stops being claimable, and the process joins
\* the executors of its attempt.
LEMMA ClaimAccounts ==
    ASSUME IInv, NEW p \in Procs, Claim(p)
    PROVE  TodoLawful' /\ ClaimsSpendAuthority' /\ ClaimsAccounted'
  <1> DEFINE a == proc[p].on
  <1>1. a \in Attempts /\ proc[p].batch \in SUBSET Attempts
    BY DEF IInv, TypeOK, ProcStates
  <1>2. \A b \in Attempts : Share(p, b) = 0
    BY DEF Claim, Share, Executing
  <1>3. CASE row[a].status \notin ClaimableStatuses
    <2>1. Return(p) /\ UNCHANGED <<row, approvals, claims, requeues, handed>>
      BY <1>3 DEF Claim
    <2>2. /\ \A q \in Procs \ {p} : proc'[q] = proc[q]
          /\ \A b \in Attempts : Share(p, b)' = 0
          /\ TodoLawful'
      BY <1>1, <2>1, ParkQuiet DEF Return, IInv
    <2>3. \A b \in Attempts : Share(p, b)' <= Share(p, b)
      BY <2>2 DEF Share
    <2> QED
      BY <2>1, <2>2, <2>3, AccountsKept DEF IInv
  <1>4. CASE row[a].status \in ClaimableStatuses
    <2>1. /\ row' = [row EXCEPT ![a].status = "execution_in_progress"]
          /\ claims' = [claims EXCEPT ![a] = @ + 1]
          /\ UNCHANGED <<approvals, requeues, handed>>
      BY <1>4 DEF Claim
    <2>2. /\ \A q \in Procs \ {p} : proc'[q] = proc[q]
          /\ proc'[p].pc = "check" /\ proc'[p].on = a
      BY <1>4 DEF Claim, IInv, TypeOK
    <2>3. TodoLawful'
      BY <2>2 DEF IInv, TodoLawful
    <2>4. ASSUME NEW b \in Attempts
          PROVE  /\ claims'[b] = IF b = a THEN claims[b] + 1 ELSE claims[b]
                 /\ row'[b].status = IF b = a THEN "execution_in_progress"
                                              ELSE row[b].status
                 /\ approvals'[b] = approvals[b] /\ requeues'[b] = requeues[b]
                 /\ handed'[b] = handed[b]
                 /\ claims[b] \in Nat /\ approvals[b] \in Nat
                 /\ requeues[b] \in Nat /\ handed[b] \in Nat
      BY <1>1, <2>1 DEF IInv, TypeOK, Rows
    <2>5. ClaimsSpendAuthority'
      BY <1>4, <2>4 DEF IInv, ClaimsSpendAuthority, ClaimableStatuses
    <2>6. ASSUME NEW b \in Attempts
          PROVE  handed'[b] + requeues'[b] + Count(b)' <= claims'[b]
      <3>1. Share(p, b)' = IF b = a THEN 1 ELSE 0
        BY <2>2 DEF Share, Executing
      <3>2. Count(b) \in Nat /\ Count(b)' = Count(b) + Share(p, b)'
        BY <1>2, <2>2, <3>1, CountStep
      <3>3. handed[b] + requeues[b] + Count(b) <= claims[b]
        BY DEF IInv, ClaimsAccounted, Count
      <3> QED
        BY <2>4, <3>1, <3>2, <3>3
    <2> QED
      BY <2>3, <2>5, <2>6 DEF ClaimsAccounted, Count
  <1> QED
    BY <1>3, <1>4

\* The freshness check keeps the claim, or turns to putting it back.
LEMMA CheckAccounts ==
    ASSUME IInv, NEW p \in Procs, Check(p)
    PROVE  TodoLawful' /\ ClaimsSpendAuthority' /\ ClaimsAccounted'
  <1> DEFINE release == StatusWrite("release", "approved",
                                    "approved_not_executed")
  <1>1. /\ \A q \in Procs \ {p} : proc'[q] = proc[q]
        /\ proc'[p].on = proc[p].on
        /\ \/ proc'[p].pc \in {"dispatch", "artifact"}
           \/ proc'[p].pc = "commit" /\ proc'[p].todo = <<release>>
    BY DEF Check, Begin, IInv, TypeOK, ProcStates
  <1>2. Head(<<release>>) = release /\ Tail(<<release>>) = <<>>
    OBVIOUS
  <1>3. Requeues(release) /\ Lawful(release)
    BY DEF Requeues, Lawful, StatusWrite
  <1>4. \A b \in Attempts : Share(p, b)' <= Share(p, b)
    BY <1>1 DEF Share, Executing, Check
  <1>5. TodoLawful'
    BY <1>1, <1>2, <1>3, EmptySeq DEF IInv, TodoLawful, Lawful, Requeues
  <1> QED
    BY <1>1, <1>4, <1>5, AccountsKept DEF IInv, Check, observations

\* Giving up a claim pays for at most one handing out of its attempt.
LEMMA HandOutAccounts ==
    ASSUME IInv, NEW p \in Procs, NEW a \in Attempts,
           proc[p].on = a, proc[p].pc \in {"dispatch", "artifact"},
           NEW writes \in QuietLists, Begin(p, a, writes),
           handed' = handed \/ handed' = [handed EXCEPT ![a] = @ + 1],
           UNCHANGED <<row, approvals, claims, requeues>>
    PROVE  TodoLawful' /\ ClaimsSpendAuthority' /\ ClaimsAccounted'
  <1>1. /\ \A q \in Procs \ {p} : proc'[q] = proc[q]
        /\ \A b \in Attempts : Share(p, b)' = 0
        /\ TodoLawful'
    BY BeginQuiet DEF IInv
  <1>2. ClaimsSpendAuthority'
    BY DEF IInv, ClaimsSpendAuthority
  <1>3. ASSUME NEW b \in Attempts
        PROVE  handed'[b] + requeues'[b] + Count(b)' <= claims'[b]
    <2>1. Share(p, b) = IF b = a THEN 1 ELSE 0
      BY DEF Share, Executing
    <2>2. /\ Count(b) \in Nat /\ Count(b)' \in Nat
          /\ Count(b)' = Count(b) - Share(p, b)
      BY <1>1, <2>1, CountStep
    <2>3. handed[b] + requeues[b] + Count(b) <= claims[b]
      BY DEF IInv, ClaimsAccounted, Count
    <2>4. /\ handed'[b] = handed[b] \/ (b = a /\ handed'[b] = handed[b] + 1)
          /\ claims'[b] = claims[b] /\ requeues'[b] = requeues[b]
          /\ claims[b] \in Nat /\ requeues[b] \in Nat /\ handed[b] \in Nat
      BY DEF IInv, TypeOK
    <2> QED
      BY <2>1, <2>2, <2>3, <2>4
  <1> QED
    BY <1>1, <1>2, <1>3 DEF ClaimsAccounted, Count

LEMMA DispatchAccounts ==
    ASSUME IInv, NEW p \in Procs, NEW o \in WaveOutcomes, Dispatch(p, o)
    PROVE  TodoLawful' /\ ClaimsSpendAuthority' /\ ClaimsAccounted'
  <1> DEFINE a == proc[p].on
             writes == ExecutionWrites(o, proc[p].draft)
  <1>1. a \in Attempts /\ proc[p].draft \in Revisions
    BY DEF IInv, TypeOK, ProcStates
  <1>2. /\ Begin(p, a, writes)
        /\ proc[p].pc = "dispatch"
        /\ UNCHANGED <<row, approvals, claims, requeues>>
    BY DEF Dispatch
  <1>3. CASE o # "throttled"
    <2>1. writes \in QuietLists
      BY <1>1, <1>3, ExecutionWritesType
    <2>2. handed' = handed \/ handed' = [handed EXCEPT ![a] = @ + 1]
      BY DEF Dispatch
    <2> HIDE DEF writes
    <2> QED
      BY <1>1, <1>2, <2>1, <2>2, HandOutAccounts
  <1>4. CASE o = "throttled"
    <2> DEFINE w == RowWrite("execute", "deferred", "not_executed",
                             proc[p].draft)
    <2>1. writes = <<w>> /\ handed' = handed
      BY <1>4 DEF ExecutionWrites, Dispatch, AcceptedByWave
    <2>2. /\ \A q \in Procs \ {p} : proc'[q] = proc[q]
          /\ proc'[p].on = a
          /\ proc'[p].pc = "commit" /\ proc'[p].todo = <<w>>
      BY <1>2, <2>1 DEF Begin, IInv, TypeOK
    <2>3. Requeues(w) /\ Lawful(w)
      BY DEF Requeues, Lawful, RowWrite
    <2> HIDE DEF w
    <2>4. Head(<<w>>) = w /\ Tail(<<w>>) = <<>>
      OBVIOUS
    <2>5. \A b \in Attempts : Share(p, b)' <= Share(p, b)
      BY <1>2, <2>2 DEF Share, Executing
    <2>6. TodoLawful'
      BY <2>2, <2>3, <2>4, EmptySeq DEF IInv, TodoLawful, Lawful, Requeues
    <2> QED
      BY <1>2, <2>1, <2>2, <2>5, <2>6, AccountsKept DEF IInv
  <1> QED
    BY <1>3, <1>4

LEMMA SuperviseArtifactAccounts ==
    ASSUME IInv, NEW p \in Procs, SuperviseArtifact(p)
    PROVE  TodoLawful' /\ ClaimsSpendAuthority' /\ ClaimsAccounted'
  <1> DEFINE a == proc[p].on
  <1>1. a \in Attempts
    BY DEF IInv, TypeOK, ProcStates
  <1>2. PICK writes \in QuietLists : Begin(p, a, writes)
    BY SuperviseArtifactBegins DEF IInv
  <1>3. /\ proc[p].pc = "artifact"
        /\ handed' = handed \/ handed' = [handed EXCEPT ![a] = @ + 1]
        /\ UNCHANGED <<row, approvals, claims, requeues>>
    BY DEF SuperviseArtifact
  <1> QED
    BY <1>1, <1>2, <1>3, HandOutAccounts

\* A claim of which the row says nothing any more ends without a result.
LEMMA LoseArtifactAccounts ==
    ASSUME IInv, NEW p \in Procs, LoseArtifact(p)
    PROVE  TodoLawful' /\ ClaimsSpendAuthority' /\ ClaimsAccounted'
  <1>1. /\ proc[p].batch \in SUBSET Attempts
        /\ Return(p)
        /\ UNCHANGED <<row, approvals, claims, requeues, handed>>
    BY DEF IInv, TypeOK, ProcStates, LoseArtifact, observations
  <1>2. /\ \A q \in Procs \ {p} : proc'[q] = proc[q]
        /\ \A b \in Attempts : Share(p, b)' = 0
        /\ TodoLawful'
    BY <1>1, ParkQuiet DEF Return, IInv
  <1>3. \A b \in Attempts : Share(p, b)' <= Share(p, b)
    BY <1>2 DEF Share
  <1> QED
    BY <1>1, <1>2, <1>3, AccountsKept DEF IInv

\* Committing a write: an approval pays for the claimable row it leaves, a
\* write that puts a claim back moves the claim from its executor to the
\* queue, any other write leaves no claimable row.
LEMMA CommitAccounts ==
    ASSUME IInv, NEW p \in Procs, Commit(p)
    PROVE  TodoLawful' /\ ClaimsSpendAuthority' /\ ClaimsAccounted'
  <1> DEFINE a == proc[p].on
             all == proc[p].todo
             w == Head(all)
             back == IF Requeues(w) THEN 1 ELSE 0
  <1>1. /\ a \in Attempts /\ proc[p].batch \in SUBSET Attempts
        /\ all \in Seq(Writes) /\ all # <<>> /\ proc[p].pc = "commit"
    BY DEF IInv, TypeOK, ProcStates, Commit
  <1>2. Lawful(w) /\ Tail(all) \in Seq(QuietWrites)
    BY <1>1 DEF IInv, TodoLawful
  <1>3. \A b \in Attempts : Share(p, b) = IF b = a THEN back ELSE 0
    BY <1>1 DEF Share, Executing
  <1>4. /\ \A q \in Procs \ {p} : proc'[q] = proc[q]
        /\ \A b \in Attempts : Share(p, b)' = 0
        /\ TodoLawful'
    <2>1. CASE Return(p)
      BY <1>1, <2>1, ParkQuiet DEF Return, IInv
    <2>2. CASE Len(all) # 1 /\ proc' = [proc EXCEPT ![p].todo = Tail(@)]
      <3>1. /\ \A q \in Procs \ {p} : proc'[q] = proc[q]
            /\ proc'[p].pc = "commit" /\ proc'[p].todo = Tail(all)
        BY <1>1, <2>2 DEF IInv, TypeOK, ProcStates
      <3> DEFINE rest == Tail(all)
      <3>2. rest \in Seq(QuietWrites) /\ rest # <<>>
        <4> HIDE DEF all
        <4> QED
          BY <1>1, <1>2, <2>2, TailOfLong
      <3>3. /\ Head(rest) \in QuietWrites
            /\ Tail(rest) \in Seq(QuietWrites)
        <4> HIDE DEF rest
        <4> QED
          BY <3>2, HeadTailProperties
      <3>4. Lawful(Head(rest)) /\ ~ Requeues(Head(rest))
        BY <3>3 DEF QuietWrites
      <3> HIDE DEF rest, all
      <3>5. proc'[p].todo = rest
        BY <3>1 DEF rest
      <3>6. \A b \in Attempts : Share(p, b)' = 0
        BY <3>1, <3>4, <3>5 DEF Share, Executing, Requeues
      <3>7. TodoLawful'
        BY <3>1, <3>3, <3>4, <3>5 DEF IInv, TodoLawful, Lawful, Requeues
      <3> QED
        BY <3>1, <3>6, <3>7
    <2> QED
      BY <2>1, <2>2 DEF Commit
  <1> HIDE DEF w, all
  <1>5. ASSUME NEW b \in Attempts
        PROVE  /\ Count(b) \in Nat
               /\ Count(b)' = Count(b) - IF b = a THEN back ELSE 0
               /\ handed[b] + requeues[b] + Count(b) <= claims[b]
               /\ claims[b] + (IF row[b].status \in ClaimableStatuses
                               THEN 1 ELSE 0) <= approvals[b] + requeues[b]
               /\ claims'[b] = claims[b] /\ handed'[b] = handed[b]
               /\ claims[b] \in Nat /\ approvals[b] \in Nat
               /\ requeues[b] \in Nat /\ handed[b] \in Nat
    <2>1. Count(b) \in Nat /\ Count(b)' \in Nat
          /\ Count(b)' - Share(p, b)' = Count(b) - Share(p, b)
      BY <1>4, CountStep
    <2>2. Count(b)' = Count(b) - IF b = a THEN back ELSE 0
      BY <1>3, <1>4, <2>1 DEF back
    <2>3. claims' = claims /\ handed' = handed
      BY DEF Commit
    <2>4. /\ claims[b] \in Nat /\ approvals[b] \in Nat
          /\ requeues[b] \in Nat /\ handed[b] \in Nat
      BY DEF IInv, TypeOK
    <2>5. /\ handed[b] + requeues[b] + Count(b) <= claims[b]
          /\ claims[b] + (IF row[b].status \in ClaimableStatuses
                          THEN 1 ELSE 0) <= approvals[b] + requeues[b]
      BY DEF IInv, ClaimsAccounted, ClaimsSpendAuthority, Count
    <2> QED
      BY <2>1, <2>2, <2>3, <2>4, <2>5
  <1>6. ASSUME NEW b \in Attempts
        PROVE  /\ requeues'[b] = requeues[b] + IF b = a THEN back ELSE 0
               /\ approvals'[b] \in {approvals[b], approvals[b] + 1}
               /\ row'[b].status \in ClaimableStatuses =>
                     \/ row[b].status \in ClaimableStatuses
                     \/ b = a /\ back = 1
                     \/ approvals'[b] = approvals[b] + 1
    <2>1. CASE w.to = "row" /\ CommitRow(a, w)
      <3>1. row'[b] = IF b = a THEN Written(row[a], w) ELSE row[b]
        BY <1>1, <2>1 DEF CommitRow, IInv, TypeOK
      <3>2. row'[b].status = IF b = a THEN w.status ELSE row[b].status
        BY <3>1 DEF Written
      <3>3. approvals'[b] = IF b = a /\ w.by = "approve" THEN approvals[b] + 1
                                                         ELSE approvals[b]
        BY <1>1, <2>1 DEF CommitRow, IInv, TypeOK
      <3>4. requeues'[b] = requeues[b] + IF b = a THEN back ELSE 0
        <4>1. requeues \in [Attempts -> Nat] /\ a \in Attempts
          BY <1>1 DEF IInv, TypeOK
        <4>2. requeues' = [requeues EXCEPT ![a] =
                              IF Requeues(w) THEN @ + 1 ELSE @]
          BY <2>1 DEF CommitRow
        <4>3. CASE Requeues(w)
          BY <1>5, <4>1, <4>2, <4>3
        <4>4. CASE ~ Requeues(w)
          BY <1>5, <4>1, <4>2, <4>4
        <4> QED
          BY <4>3, <4>4
      <3> QED
        BY <1>2, <2>1, <3>2, <3>3, <3>4 DEF Lawful
    <2>2. CASE /\ w.to \in {"record", "review"}
               /\ UNCHANGED <<row, approvals, requeues>>
      <3>1. back = 0
        BY <2>2 DEF Requeues
      <3> QED
        BY <1>5, <2>2, <3>1
    <2>3. w \in Writes
      BY <1>1, HeadTailProperties DEF w
    <2>4. w.to \in {"row", "record", "review"}
      BY <2>3 DEF Writes, RowWrites, RecordWrites, ReviewWrites
    <2> QED
      BY <2>1, <2>2, <2>4 DEF Commit, CommitRecord, CommitReview, w, all
  <1>7. ClaimsSpendAuthority'
    <2> SUFFICES ASSUME NEW b \in Attempts
                 PROVE  claims'[b] + (IF row'[b].status \in ClaimableStatuses
                                      THEN 1 ELSE 0)
                          <= approvals'[b] + requeues'[b]
      BY DEF ClaimsSpendAuthority, ClaimableStatuses
    <2> QED
      BY <1>5, <1>6
  <1>8. ClaimsAccounted'
    <2> SUFFICES ASSUME NEW b \in Attempts
                 PROVE  handed'[b] + requeues'[b] + Count(b)' <= claims'[b]
      BY DEF ClaimsAccounted, Count
    <2> QED
      BY <1>5, <1>6
  <1> QED
    BY <1>4, <1>7, <1>8

LEMMA CrashAccounts ==
    ASSUME IInv, NEW p \in Procs, Crash(p)
    PROVE  TodoLawful' /\ ClaimsSpendAuthority' /\ ClaimsAccounted'
  <1>1. /\ {} \in SUBSET Attempts /\ proc' = [proc EXCEPT ![p] = Parked({})]
        /\ UNCHANGED <<row, approvals, claims, requeues, handed>>
    BY DEF Crash, observations
  <1>2. /\ \A q \in Procs \ {p} : proc'[q] = proc[q]
        /\ \A b \in Attempts : Share(p, b)' = 0
        /\ TodoLawful'
    BY <1>1, ParkQuiet DEF IInv
  <1>3. \A b \in Attempts : Share(p, b)' <= Share(p, b)
    BY <1>2 DEF Share
  <1> QED
    BY <1>1, <1>2, <1>3, AccountsKept DEF IInv

\* Steps that touch neither a process nor an account.
LEMMA IdleAccounts ==
    ASSUME IInv, UNCHANGED <<row, proc, approvals, claims, requeues, handed>>
    PROVE  TodoLawful' /\ ClaimsSpendAuthority' /\ ClaimsAccounted'
  <1>1. TodoLawful' /\ ClaimsSpendAuthority'
    BY DEF IInv, TodoLawful, ClaimsSpendAuthority
  <1>2. \A b \in Attempts : Executors(b)' = Executors(b)
    BY DEF Executors, Executing
  <1>3. ClaimsAccounted'
    BY <1>2 DEF IInv, ClaimsAccounted
  <1> QED
    BY <1>1, <1>3

LEMMA NextAccounts ==
    ASSUME IInv, [Next]_vars
    PROVE  IInv'
  <1>1. TypeOK'
    BY NextType DEF IInv
  <1>2. ASSUME NEW p \in Procs, NEW a \in Attempts, Operate(p, a)
        PROVE  TodoLawful' /\ ClaimsSpendAuthority' /\ ClaimsAccounted'
    BY <1>2, OperateDecides, DecideAccounts, ExecuteAccounts DEF IInv
  <1>3. ASSUME NEW p \in Procs, StartBatch(p) \/ Proceed(p) \/ Crash(p)
        PROVE  TodoLawful' /\ ClaimsSpendAuthority' /\ ClaimsAccounted'
    BY <1>3, AttemptsAssumption, ExecuteAccounts, ClaimAccounts,
       CheckAccounts, DispatchAccounts, SuperviseArtifactAccounts,
       LoseArtifactAccounts, CommitAccounts, CrashAccounts DEF Proceed
  <1>4. ASSUME NEW a \in Attempts, EditSource(a) \/ ChangeGate(a)
        PROVE  TodoLawful' /\ ClaimsSpendAuthority' /\ ClaimsAccounted'
    BY <1>4, IdleAccounts DEF EditSource, ChangeGate, observations
  <1>5. ASSUME UNCHANGED vars
        PROVE  TodoLawful' /\ ClaimsSpendAuthority' /\ ClaimsAccounted'
    BY <1>5, IdleAccounts DEF vars
  <1>6. TodoLawful' /\ ClaimsSpendAuthority' /\ ClaimsAccounted'
    BY <1>2, <1>3, <1>4, <1>5 DEF Next
  <1> QED
    BY <1>1, <1>6 DEF IInv

LEMMA InitAccounts == Init => IInv
  <1> SUFFICES ASSUME Init PROVE IInv
    OBVIOUS
  <1>1. TypeOK
    BY InitType
  <1>2. \A p \in Procs : proc[p].pc = "idle"
    BY DEF Init, Parked
  <1>3. TodoLawful
    BY <1>2 DEF TodoLawful
  <1>4. \A b \in Attempts : Executors(b) = {}
    BY <1>2 DEF Executors, Executing
  <1>5. \A b \in Attempts :
            /\ row[b].status = "absent"
            /\ approvals[b] = 0 /\ claims[b] = 0
            /\ requeues[b] = 0 /\ handed[b] = 0
    BY DEF Init
  <1>6. ClaimsSpendAuthority
    BY <1>5 DEF ClaimsSpendAuthority, ClaimableStatuses
  <1>7. Cardinality({}) = 0
    BY FS_EmptySet
  <1>8. ClaimsAccounted
    BY <1>4, <1>5, <1>7 DEF ClaimsAccounted
  <1> QED
    BY <1>1, <1>3, <1>6, <1>8 DEF IInv

LEMMA Accounting == Spec => []IInv
  BY InitAccounts, NextAccounts, PTL DEF Spec

\* Every claim spends an approval of its own, or one claim that came back.
THEOREM ClaimsAuthorised == Spec => []ClaimsSpendAuthority
  <1>1. IInv => ClaimsSpendAuthority
    BY DEF IInv
  <1> QED
    BY <1>1, Accounting, PTL

\* Each claim ends once: it is handed out, it goes back to the queue, or a
\* process still works on it.  No claim ends twice, however the writes of
\* execute_attempt interleave with those of the other handlers.
THEOREM ClaimsEndOnce == Spec => []ClaimsAccounted
  <1>1. IInv => ClaimsAccounted
    BY DEF IInv
  <1> QED
    BY <1>1, Accounting, PTL

\* No attempt leaves FAB more often than it was approved, however many
\* processes approve, reject, regenerate and execute at the same time and
\* wherever they die.
THEOREM HandedAuthorised == Spec => []HandedWithinApprovals
  <1>1. IInv => HandedWithinApprovals
    <2> SUFFICES ASSUME IInv, NEW a \in Attempts
                 PROVE  handed[a] <= approvals[a]
      BY DEF HandedWithinApprovals
    <2>1. Count(a) \in Nat
      <3>1. Executors(a) \subseteq Procs
        BY DEF Executors
      <3> QED
        BY <3>1, ProcsAssumption, FS_Subset, FS_CardinalityType DEF Count
    <2>2. handed[a] + requeues[a] + Count(a) <= claims[a]
      BY DEF IInv, ClaimsAccounted, Count
    <2>3. claims[a] + (IF row[a].status \in ClaimableStatuses THEN 1 ELSE 0)
            <= approvals[a] + requeues[a]
      BY DEF IInv, ClaimsSpendAuthority
    <2>4. /\ handed[a] \in Nat /\ requeues[a] \in Nat
          /\ claims[a] \in Nat /\ approvals[a] \in Nat
      BY DEF IInv, TypeOK
    <2> QED
      BY <2>1, <2>2, <2>3, <2>4
  <1> QED
    BY <1>1, Accounting, PTL

(***************************************************************************)
(* What a row says of the submission.  Every pending write tells one story *)
(* in its two fields, and one that says submitted either carries the word  *)
(* of the operator or belongs to an attempt that has left FAB.             *)
(***************************************************************************)
Backed(c) ==
    c.pc = "commit" =>
        \/ c.todo \in Seq(OwnWrites)
        \/ c.todo \in Seq(TrueWrites) /\ handed[c.on] > 0

SInv == TypeOK /\ SubmittedIsReal /\ \A p \in Procs : Backed(proc[p])

\* A step of one process that leaves the rows alone.
LEMMA BackedKept ==
    ASSUME SInv, NEW p \in Procs, \A q \in Procs \ {p} : proc'[q] = proc[q],
           UNCHANGED <<row, attested>>,
           \A a \in Attempts : handed[a] > 0 => handed'[a] > 0,
           \/ proc'[p].pc # "commit"
           \/ proc'[p].todo \in Seq(OwnWrites)
           \/ /\ proc'[p].todo \in Seq(TrueWrites)
              /\ handed'[proc'[p].on] > 0
    PROVE  SubmittedIsReal' /\ \A q \in Procs : Backed(proc[q])'
  <1>1. SubmittedIsReal'
    BY DEF SInv, SubmittedIsReal
  <1>2. ASSUME NEW q \in Procs PROVE Backed(proc[q])'
    <2>1. CASE q = p
      BY <2>1 DEF Backed
    <2>2. CASE q # p
      <3>1. proc'[q] = proc[q] /\ Backed(proc[q]) /\ proc[q].on \in Attempts
        BY <2>2 DEF SInv, TypeOK, ProcStates
      <3> QED
        BY <3>1 DEF Backed
    <2> QED
      BY <2>1, <2>2
  <1> QED
    BY <1>1, <1>2

LEMMA DecideBacked ==
    ASSUME SInv, NEW p \in Procs, NEW a \in Attempts,
           Decides(p, a) \/ Execute(p, a) \/ StartBatch(p)
    PROVE  SubmittedIsReal' /\ \A q \in Procs : Backed(proc[q])'
  <1>1. UNCHANGED <<row, attested, handed>>
    BY DEF Decides, Execute, StartBatch, observations
  <1>2. CASE Decides(p, a)
    <2>1. PICK writes \in Seq(OwnWrites) : Begin(p, a, writes)
      BY <1>2, ListTypes DEF Decides
    <2>2. /\ \A q \in Procs \ {p} : proc'[q] = proc[q]
          /\ proc'[p].todo = writes
      BY <2>1 DEF Begin, SInv, TypeOK
    <2> QED
      BY <1>1, <2>2, BackedKept
  <1>3. CASE StartBatch(p) \/ Execute(p, a)
    <2>1. \A q \in Procs \ {p} : proc'[q] = proc[q]
      BY <1>3 DEF StartBatch, Execute, SInv, TypeOK
    <2>2. proc'[p].pc \in {"idle", "claim"}
      BY <1>3 DEF StartBatch, Execute, Free, Idle, SInv, TypeOK, ProcStates
    <2> QED
      BY <1>1, <2>1, <2>2, BackedKept
  <1> QED
    BY <1>2, <1>3

LEMMA ClaimBacked ==
    ASSUME SInv, NEW p \in Procs, Claim(p)
    PROVE  SubmittedIsReal' /\ \A q \in Procs : Backed(proc[q])'
  <1> DEFINE a == proc[p].on
  <1>1. a \in Attempts /\ proc[p].batch \in SUBSET Attempts
        /\ UNCHANGED <<attested, handed>>
    BY DEF SInv, TypeOK, ProcStates, Claim
  <1>2. CASE row[a].status \notin ClaimableStatuses
    <2>1. proc' = [proc EXCEPT ![p] = Parked(proc[p].batch)] /\ row' = row
      BY <1>2 DEF Claim, Return
    <2>2. (\A q \in Procs \ {p} : proc'[q] = proc[q]) /\ proc'[p].pc = "idle"
      BY <1>1, <2>1, ParkedType DEF SInv, TypeOK
    <2> QED
      BY <1>1, <2>1, <2>2, BackedKept
  <1>3. CASE row[a].status \in ClaimableStatuses
    <2>1. /\ row' = [row EXCEPT ![a].status = "execution_in_progress"]
          /\ \A q \in Procs \ {p} : proc'[q] = proc[q]
          /\ proc'[p].pc = "check"
      BY <1>3 DEF Claim, SInv, TypeOK
    <2>2. \A b \in Attempts :
              /\ row'[b].submission = row[b].submission
              /\ row'[b].status = IF b = a THEN "execution_in_progress"
                                           ELSE row[b].status
      BY <1>1, <2>1 DEF SInv, TypeOK, Rows
    <2>3. SubmittedIsReal'
      BY <1>1, <1>3, <2>2
         DEF SInv, SubmittedIsReal, ClaimableStatuses, SubmittedStatuses
    <2>4. \A q \in Procs : Backed(proc[q])'
      BY <1>1, <2>1 DEF SInv, Backed
    <2> QED
      BY <2>3, <2>4
  <1> QED
    BY <1>2, <1>3

LEMMA CheckBacked ==
    ASSUME SInv, NEW p \in Procs, Check(p)
    PROVE  SubmittedIsReal' /\ \A q \in Procs : Backed(proc[q])'
  <1> DEFINE release == StatusWrite("release", "approved",
                                    "approved_not_executed")
  <1>1. /\ \A q \in Procs \ {p} : proc'[q] = proc[q]
        /\ \/ proc'[p].pc \in {"dispatch", "artifact"}
           \/ proc'[p].todo = <<release>>
        /\ UNCHANGED <<row, attested, handed>>
    BY DEF Check, Begin, SInv, TypeOK, ProcStates, observations
  <1>2. release \in OwnWrites
    BY WriteTypes, BoundsAssumption
       DEF Handlers, Statuses, RejectableStatuses, SubmissionStates, Revisions,
           SubmittedStates, SubmittedStatuses
  <1> HIDE DEF release
  <1>3. <<release>> \in Seq(OwnWrites)
    BY <1>2
  <1> QED
    BY <1>1, <1>3, BackedKept

\* The result of a call says submitted only when Wave has accepted it.
LEMMA DispatchBacked ==
    ASSUME SInv, NEW p \in Procs, NEW o \in WaveOutcomes, Dispatch(p, o)
    PROVE  SubmittedIsReal' /\ \A q \in Procs : Backed(proc[q])'
  <1> DEFINE a == proc[p].on
             d == proc[p].draft
             writes == ExecutionWrites(o, d)
  <1>1. /\ a \in Attempts /\ d \in Revisions /\ Begin(p, a, writes)
        /\ handed \in [Attempts -> Nat] /\ UNCHANGED <<row, attested>>
    BY DEF SInv, TypeOK, ProcStates, Dispatch
  <1>2. /\ \A q \in Procs \ {p} : proc'[q] = proc[q]
        /\ proc'[p].todo = writes /\ proc'[p].on = a
    BY <1>1 DEF Begin, SInv, TypeOK
  <1>3. /\ RowWrite("execute", "executed", "executed", d) \in TrueWrites
        /\ RowWrite("execute", "deferred", "not_executed", d) \in OwnWrites
        /\ RowWrite("execute", "attention_required", "not_executed", d)
             \in OwnWrites
        /\ RowWrite("execute", "failed", "failed", d) \in OwnWrites
    BY <1>1, WriteTypes
       DEF Handlers, Statuses, RejectableStatuses, ResultStatuses,
           SubmittedStatuses, SubmissionStates, SubmittedStates
  <1>4. /\ RecordWrite("executed") \in TrueWrites
        /\ RecordWrite("attention_required") \in OwnWrites
        /\ RecordWrite("failed") \in OwnWrites
        /\ OpenReview("wave") \in OwnWrites
    BY WriteTypes DEF RecordStates, ReviewKinds, PlainWrites, OwnWrites
  <1>5. /\ o = "success" => writes \in Seq(TrueWrites)
        /\ o # "success" => writes \in Seq(OwnWrites)
    BY <1>3, <1>4 DEF ExecutionWrites, WaveOutcomes
  <1>6. \A b \in Attempts : handed[b] > 0 => handed'[b] > 0
    BY <1>1 DEF Dispatch
  <1>7. o = "success" => handed'[a] > 0
    BY <1>1 DEF Dispatch, AcceptedByWave
  <1> HIDE DEF writes
  <1> QED
    BY <1>1, <1>2, <1>5, <1>6, <1>7, BackedKept

LEMMA SuperviseArtifactBacked ==
    ASSUME SInv, NEW p \in Procs, SuperviseArtifact(p)
    PROVE  SubmittedIsReal' /\ \A q \in Procs : Backed(proc[q])'
  <1> DEFINE stored == <<RowWrite("execute", "supervision_required",
                                  "not_executed", proc[p].draft),
                         RecordWrite("supervision_required"),
                         OpenReview("supervision")>>
             lost == <<StatusWrite("execute", "failed", "not_executed")>>
             a == proc[p].on
  <1>1. /\ proc[p].draft \in Revisions /\ a \in Attempts
        /\ handed \in [Attempts -> Nat] /\ UNCHANGED <<row, attested>>
    BY DEF SInv, TypeOK, ProcStates, SuperviseArtifact
  <1>2. /\ RowWrite("execute", "supervision_required", "not_executed",
                    proc[p].draft) \in OwnWrites
        /\ StatusWrite("execute", "failed", "not_executed") \in OwnWrites
        /\ RecordWrite("supervision_required") \in OwnWrites
        /\ OpenReview("supervision") \in OwnWrites
    BY <1>1, WriteTypes
       DEF Handlers, Statuses, RejectableStatuses, ResultStatuses,
           SubmissionStates, RecordStates, ReviewKinds, SubmittedStatuses,
           SubmittedStates, PlainWrites
  <1>3. stored \in Seq(OwnWrites) /\ lost \in Seq(OwnWrites)
    BY <1>2
  <1>4. Begin(p, a, stored) \/ Begin(p, a, lost)
    BY DEF SuperviseArtifact
  <1>5. handed' = handed \/ handed' = [handed EXCEPT ![a] = @ + 1]
    BY DEF SuperviseArtifact
  <1> HIDE DEF stored, lost
  <1>6. /\ \A q \in Procs \ {p} : proc'[q] = proc[q]
        /\ proc'[p].todo \in Seq(OwnWrites)
    BY <1>3, <1>4 DEF Begin, SInv, TypeOK
  <1>7. \A b \in Attempts : handed[b] > 0 => handed'[b] > 0
    BY <1>1, <1>5
  <1> QED
    BY <1>1, <1>6, <1>7, BackedKept

LEMMA LoseArtifactBacked ==
    ASSUME SInv, NEW p \in Procs, LoseArtifact(p)
    PROVE  SubmittedIsReal' /\ \A q \in Procs : Backed(proc[q])'
  <1>1. /\ proc[p].batch \in SUBSET Attempts
        /\ UNCHANGED <<row, attested, handed>>
    BY DEF SInv, TypeOK, ProcStates, LoseArtifact, observations
  <1>2. (\A q \in Procs \ {p} : proc'[q] = proc[q]) /\ proc'[p].pc = "idle"
    BY <1>1, ParkedType DEF LoseArtifact, Return, SInv, TypeOK
  <1> QED
    BY <1>1, <1>2, BackedKept

\* A pending write is committed, whatever the row has become.
LEMMA CommitBacked ==
    ASSUME SInv, NEW p \in Procs, Commit(p)
    PROVE  SubmittedIsReal' /\ \A q \in Procs : Backed(proc[q])'
  <1> DEFINE a == proc[p].on
             all == proc[p].todo
             w == Head(all)
  <1>1. /\ a \in Attempts /\ proc[p].batch \in SUBSET Attempts
        /\ all # <<>> /\ proc[p].pc = "commit" /\ Backed(proc[p])
        /\ UNCHANGED handed
    BY DEF SInv, TypeOK, ProcStates, Commit
  <1>2. PICK S \in {OwnWrites, TrueWrites} :
            all \in Seq(S) /\ (S = OwnWrites \/ handed[a] > 0)
    BY <1>1 DEF Backed
  <1>3. w \in S
    <2> HIDE DEF all
    <2> QED
      BY <1>1, <1>2, HeadTailProperties
  <1>4. /\ w \in Writes /\ Tells(w)
        /\ w.to = "row" /\ w.status \in SubmittedStatuses =>
               w.by = "result" \/ handed[a] > 0
    BY <1>2, <1>3 DEF OwnWrites, TrueWrites
  <1>5. \A q \in Procs : Backed(proc[q])'
    <2>1. \A q \in Procs \ {p} : proc'[q] = proc[q]
      BY DEF Commit, Return, SInv, TypeOK
    <2>2. CASE Return(p)
      <3>1. proc'[p].pc = "idle"
        BY <1>1, <2>2, ParkedType DEF Return, SInv, TypeOK
      <3> QED
        BY <1>1, <2>1, <3>1 DEF SInv, Backed
    <2>3. CASE Len(all) # 1 /\ proc' = [proc EXCEPT ![p].todo = Tail(@)]
      <3>1. proc'[p].todo = Tail(all) /\ proc'[p].on = a
        BY <1>1, <2>3 DEF SInv, TypeOK, ProcStates
      <3> HIDE DEF all
      <3>2. Tail(all) \in Seq(S)
        BY <1>1, <1>2, <2>3, TailOfLong
      <3>3. Backed(proc[p])'
        BY <1>1, <1>2, <3>1, <3>2 DEF Backed
      <3> QED
        BY <1>1, <2>1, <3>3 DEF SInv, Backed
    <2> QED
      BY <2>2, <2>3 DEF Commit
  <1>6. SubmittedIsReal'
    <2>1. CASE w.to = "row" /\ CommitRow(a, w)
      <3> HIDE DEF w, all
      <3>1. \A b \in Attempts :
                row'[b] = IF b = a THEN Written(row[a], w) ELSE row[b]
        BY <1>1, <2>1 DEF CommitRow, SInv, TypeOK
      <3>2. attested' = [attested EXCEPT
                ![a] = @ \/ (w.by = "result" /\ w.status \in SubmittedStatuses)]
        BY <2>1 DEF CommitRow
      <3>3. \A b \in Attempts :
                attested'[b] <=>
                    \/ attested[b]
                    \/ b = a /\ w.by = "result" /\ w.status \in SubmittedStatuses
        BY <1>1, <3>2, Zenon DEF SInv, TypeOK
      <3>4. Written(row[a], w).status = w.status
            /\ Written(row[a], w).submission = w.submission
        BY DEF Written
      <3>5. w.submission \in SubmittedStates <=> w.status \in SubmittedStatuses
        BY <1>4, <2>1 DEF Tells
      <3> SUFFICES ASSUME NEW b \in Attempts
                   PROVE  /\ row'[b].status \in SubmittedStatuses =>
                                 handed[b] > 0 \/ attested'[b]
                          /\ row'[b].submission \in SubmittedStates
                                 <=> row'[b].status \in SubmittedStatuses
        BY <1>1 DEF SubmittedIsReal
      <3> QED
        BY <1>4, <2>1, <3>1, <3>3, <3>4, <3>5 DEF SInv, SubmittedIsReal
    <2>2. CASE UNCHANGED <<row, attested>>
      BY <1>1, <2>2 DEF SInv, SubmittedIsReal
    <2>3. w.to \in {"row", "record", "review"}
      BY <1>4 DEF Writes, RowWrites, RecordWrites, ReviewWrites
    <2> QED
      BY <2>1, <2>2, <2>3 DEF Commit, CommitRecord, CommitReview
  <1> QED
    BY <1>5, <1>6

LEMMA OtherBacked ==
    ASSUME SInv, UNCHANGED <<row, attested, handed>>,
           \/ \E p \in Procs : Crash(p)
           \/ UNCHANGED proc
    PROVE  SubmittedIsReal' /\ \A q \in Procs : Backed(proc[q])'
  <1>1. \A q \in Procs : proc'[q] = proc[q] \/ proc'[q].pc = "idle"
    BY ParkedType DEF Crash, SInv, TypeOK
  <1> QED
    BY <1>1 DEF SInv, SubmittedIsReal, Backed

LEMMA NextBacked ==
    ASSUME SInv, [Next]_vars
    PROVE  SInv'
  <1>1. TypeOK'
    BY NextType DEF SInv
  <1>2. ASSUME NEW p \in Procs, NEW a \in Attempts, Operate(p, a)
        PROVE  SubmittedIsReal' /\ \A q \in Procs : Backed(proc[q])'
    BY <1>2, OperateDecides, DecideBacked DEF SInv
  <1>3. ASSUME NEW p \in Procs, StartBatch(p) \/ Proceed(p)
        PROVE  SubmittedIsReal' /\ \A q \in Procs : Backed(proc[q])'
    BY <1>3, AttemptsAssumption, DecideBacked, ClaimBacked, CheckBacked,
       DispatchBacked, SuperviseArtifactBacked, LoseArtifactBacked,
       CommitBacked DEF Proceed
  <1>4. ASSUME \/ \E p \in Procs : Crash(p)
               \/ \E a \in Attempts : EditSource(a) \/ ChangeGate(a)
               \/ UNCHANGED vars
        PROVE  SubmittedIsReal' /\ \A q \in Procs : Backed(proc[q])'
    BY <1>4, OtherBacked
       DEF Crash, EditSource, ChangeGate, observations, vars
  <1> QED
    BY <1>1, <1>2, <1>3, <1>4 DEF Next, SInv

LEMMA InitBacked == ASSUME Init PROVE SInv
  <1>1. \A p \in Procs : proc[p].pc = "idle"
    BY DEF Init, Parked
  <1>2. \A a \in Attempts : row[a].status = "absent"
                            /\ row[a].submission = "not_executed"
    BY DEF Init
  <1> QED
    BY <1>1, <1>2, InitType
       DEF SInv, SubmittedIsReal, Backed, SubmittedStates, SubmittedStatuses

\* A row reads as submitted only if Wave accepted the posting or an operator
\* reported it, and its two fields never drift apart: whichever handlers
\* write it, in any order and however late.
\* (_map_execution_status, record_result, update_export_attempt)
THEOREM SubmissionsAreReal == Spec => []SubmittedIsReal
  <1>1. Init => SInv
    BY InitBacked
  <1>2. SInv /\ [Next]_vars => SInv'
    BY NextBacked
  <1>3. SInv => SubmittedIsReal
    BY DEF SInv
  <1> QED
    BY <1>1, <1>2, <1>3, PTL DEF Spec

-----------------------------------------------------------------------------
(***************************************************************************)
(* Theorems about histories of an export attempt in which one handler runs *)
(* at a time, for every set of attempts, every finite set of processes and *)
(* every bound.                                                            *)
(*                                                                         *)
(* Neither property is inductive.  SeqInv adds what a claim guarantees     *)
(* while its process still works (ClaimKept), that a claimable row holds   *)
(* an approved draft, and what the pending writes of the one handler may   *)
(* still do (Settles): they take no posting that left FAB back, and once   *)
(* they are all committed, record and row agree.  Only a process that died *)
(* in mid-handler leaves them apart.                                       *)
(***************************************************************************)

\* No two handlers are under way.
Lone == \A p, q \in Procs : ~ Idle(p) /\ ~ Idle(q) => p = q

\* The statuses of a posting that has left FAB.
Gone == SubmittedStatuses \cup {"failed", "execution_in_progress"}

\* Nobody works on the attempt: its record tells what its row tells.
AtRest(a) ==
    \A p \in Procs : proc[p].on = a => proc[p].pc \in {"idle", "claim"}

AttemptKept(a) ==
    /\ a \in WaveAttempts /\ handed[a] # 0 =>
           handed[a] = 1 /\ row[a].status \in Gone
    /\ row[a].status \in ClaimableStatuses => row[a].draft \in approvedRevs[a]
    /\ artifact[a] # NoRevision => artifact[a] \in approvedRevs[a]
    /\ crashes = 0 /\ AtRest(a) => record[a] \in RecordFor(row[a])

\* A claimed attempt is nobody else's until the claim is given up.
Bound(p) == proc[p].pc \in {"check", "dispatch", "artifact"}

ClaimKept(p) ==
    LET a == proc[p].on IN
    /\ row[a].status = "execution_in_progress"
    /\ row[a].draft \in approvedRevs[a]
    /\ proc[p].draft = row[a].draft
    /\ a \in WaveAttempts => handed[a] = 0 /\ proc[p].pc # "artifact"
    /\ crashes = 0 => record[a] = "approved_not_submitted"

\* Pending writes: at most one of the row and one of the record; none takes a
\* posting that has left FAB back, none makes a draft claimable that was not
\* approved, and together they make record and row agree.
OneOfEach(t) ==
    \A i, j \in 1..Len(t) : t[i].to = t[j].to /\ t[i].to # "review" => i = j

KeepsGone(a, t) ==
    a \in WaveAttempts /\ handed[a] # 0 =>
        \A i \in 1..Len(t) : t[i].to = "row" => t[i].status \in Gone

KeepsApproval(a, t) ==
    \A i \in 1..Len(t) :
        t[i].to = "row" /\ t[i].status \in ClaimableStatuses =>
            \/ t[i].by = "approve" /\ t[i].meta
            \/ t[i].meta /\ t[i].draft \in approvedRevs[a]
            \/ ~ t[i].meta /\ row[a].draft \in approvedRevs[a]

\* r is the row, or the write of it that is still to come.
RecordComes(a, t, r) ==
    /\ \A j \in 1..Len(t) : t[j].to = "record" => t[j].value \in RecordFor(r)
    /\ (\A j \in 1..Len(t) : t[j].to # "record") => record[a] \in RecordFor(r)

MakesAgree(a, t) ==
    crashes = 0 =>
        /\ \A i \in 1..Len(t) : t[i].to = "row" => RecordComes(a, t, t[i])
        /\ (\A i \in 1..Len(t) : t[i].to # "row") => RecordComes(a, t, row[a])

Settles(a, t) ==
    OneOfEach(t) /\ KeepsGone(a, t) /\ KeepsApproval(a, t) /\ MakesAgree(a, t)

SeqInv ==
    /\ TypeOK
    /\ Lone
    /\ \A a \in Attempts : AttemptKept(a)
    /\ \A p \in Procs :
        /\ Bound(p) => ClaimKept(p)
        /\ proc[p].pc = "commit" => Settles(proc[p].on, proc[p].todo)

-----------------------------------------------------------------------------
\* Lists of writes.
LEMMA JoinFirst ==
    ASSUME NEW x \in Writes, NEW t \in Seq(Writes), NEW u \in Seq(Writes),
           Len(u) = Len(t) + 1, u[1] = x,
           \A i \in 2..Len(u) : u[i] = t[i - 1]
    PROVE  <<x>> \o t = u
  <1> DEFINE s == <<x>>
  <1>1. s \in Seq(Writes) /\ Len(s) = 1 /\ s[1] = x
    OBVIOUS
  <1> HIDE DEF s
  <1>2. /\ s \o t \in Seq(Writes)
        /\ Len(s \o t) = Len(s) + Len(t)
        /\ \A i \in 1..Len(s) + Len(t) :
              (s \o t)[i] = IF i <= Len(s) THEN s[i] ELSE t[i - Len(s)]
    BY <1>1, ConcatProperties
  <1>3. Len(s \o t) = Len(u) /\ Len(t) \in Nat
    BY <1>1, <1>2
  <1>4. ASSUME NEW i \in 1..Len(u) PROVE (s \o t)[i] = u[i]
    <2>1. (s \o t)[i] = IF i <= 1 THEN s[i] ELSE t[i - 1]
      BY <1>1, <1>2, <1>3
    <2>2. CASE i = 1
      BY <1>1, <2>1, <2>2
    <2>3. CASE i # 1
      BY <1>3, <2>1, <2>3
    <2> QED
      BY <2>2, <2>3
  <1>5. s \o t = u
    BY <1>2, <1>3, <1>4, SeqEqual
  <1> QED
    BY <1>5 DEF s

LEMMA JoinLast ==
    ASSUME NEW z \in Writes, NEW t \in Seq(Writes), NEW u \in Seq(Writes),
           Len(u) = Len(t) + 1, u[Len(u)] = z,
           \A i \in 1..Len(t) : u[i] = t[i]
    PROVE  t \o <<z>> = u
  <1> DEFINE s == <<z>>
  <1>1. s \in Seq(Writes) /\ Len(s) = 1 /\ s[1] = z
    OBVIOUS
  <1> HIDE DEF s
  <1>2. /\ t \o s \in Seq(Writes)
        /\ Len(t \o s) = Len(t) + Len(s)
        /\ \A i \in 1..Len(t) + Len(s) :
              (t \o s)[i] = IF i <= Len(t) THEN t[i] ELSE s[i - Len(t)]
    BY <1>1, ConcatProperties
  <1>3. Len(t \o s) = Len(u) /\ Len(t) \in Nat
    BY <1>1, <1>2
  <1>4. ASSUME NEW i \in 1..Len(u) PROVE (t \o s)[i] = u[i]
    <2>1. (t \o s)[i] = IF i <= Len(t) THEN t[i] ELSE s[i - Len(t)]
      BY <1>1, <1>2, <1>3
    <2>2. CASE i = Len(u)
      <3>1. ~ (i <= Len(t)) /\ i - Len(t) = 1
        BY <1>3, <2>2
      <3> QED
        BY <1>1, <2>1, <2>2, <3>1
    <2>3. CASE i # Len(u)
      BY <1>3, <2>1, <2>3
    <2> QED
      BY <2>2, <2>3
  <1>5. t \o s = u
    BY <1>2, <1>3, <1>4, SeqEqual
  <1> QED
    BY <1>5 DEF s

LEMMA Joined ==
    ASSUME NEW x \in Writes, NEW y \in Writes, NEW z \in Writes
    PROVE  /\ <<>> \o <<y, z>> = <<y, z>>
           /\ <<x>> \o <<y, z>> = <<x, y, z>>
           /\ <<x>> \o <<>> \o <<z>> = <<x, z>>
           /\ <<x>> \o <<y>> \o <<z>> = <<x, y, z>>
  <1>1. <<>> \o <<y, z>> = <<y, z>> /\ <<x>> \o <<>> = <<x>>
    BY ConcatEmptySeq
  <1>2. <<x>> \o <<y, z>> = <<x, y, z>>
    <2> DEFINE t == <<y, z>>  u == <<x, y, z>>
    <2>1. /\ t \in Seq(Writes) /\ u \in Seq(Writes)
          /\ Len(t) = 2 /\ Len(u) = 3 /\ u[1] = x
          /\ u[2] = t[1] /\ u[3] = t[2]
      OBVIOUS
    <2> HIDE DEF t, u
    <2>2. /\ Len(u) = Len(t) + 1
          /\ \A i \in 2..Len(u) : u[i] = t[i - 1]
      BY <2>1
    <2>3. <<x>> \o t = u
      BY <2>1, <2>2, JoinFirst, Zenon
    <2> QED
      BY <2>3 DEF t, u
  <1>3. <<x>> \o <<y>> = <<x, y>> /\ <<x>> \o <<z>> = <<x, z>>
    <2> SUFFICES ASSUME NEW v \in {y, z} PROVE <<x>> \o <<v>> = <<x, v>>
      OBVIOUS
    <2> DEFINE t == <<v>>  u == <<x, v>>
    <2>1. /\ t \in Seq(Writes) /\ u \in Seq(Writes)
          /\ Len(t) = 1 /\ Len(u) = 2 /\ u[1] = x /\ u[2] = t[1]
      OBVIOUS
    <2> HIDE DEF t, u
    <2>2. /\ Len(u) = Len(t) + 1
          /\ \A i \in 2..Len(u) : u[i] = t[i - 1]
      BY <2>1
    <2>3. <<x>> \o t = u
      BY <2>1, <2>2, JoinFirst, Zenon
    <2> QED
      BY <2>3 DEF t, u
  <1>4. <<x, y>> \o <<z>> = <<x, y, z>>
    <2> DEFINE t == <<x, y>>  u == <<x, y, z>>
    <2>1. /\ t \in Seq(Writes) /\ u \in Seq(Writes)
          /\ Len(t) = 2 /\ Len(u) = 3 /\ u[3] = z
          /\ u[1] = t[1] /\ u[2] = t[2]
      OBVIOUS
    <2> HIDE DEF t, u
    <2>2. /\ Len(u) = Len(t) + 1 /\ u[Len(u)] = z
          /\ \A i \in 1..Len(t) : u[i] = t[i]
      BY <2>1
    <2>3. t \o <<z>> = u
      BY <2>1, <2>2, JoinLast, Zenon
    <2> QED
      BY <2>3 DEF t, u
  <1> QED
    BY <1>1, <1>2, <1>3, <1>4

LEMMA TailElements ==
    ASSUME NEW t \in Seq(Writes), t # <<>>
    PROVE  /\ Len(t) \in Nat \ {0}
           /\ Head(t) = t[1]
           /\ Tail(t) \in Seq(Writes)
           /\ Len(Tail(t)) = Len(t) - 1
           /\ \A i \in 1..Len(Tail(t)) : /\ i + 1 \in 2..Len(t)
                                         /\ Tail(t)[i] = t[i + 1]
           /\ \A i \in 2..Len(t) : /\ i - 1 \in 1..Len(Tail(t))
                                   /\ Tail(t)[i - 1] = t[i]
           /\ \A i \in 1..Len(t) : t[i] \in Writes
  <1>1. Len(t) \in Nat /\ Len(t) # 0
    BY EmptySeq
  <1>2. /\ Head(t) = t[1] /\ Tail(t) \in Seq(Writes)
        /\ Len(Tail(t)) = Len(t) - 1
        /\ \A i \in 1..Len(Tail(t)) : Tail(t)[i] = t[i + 1]
    BY <1>1, HeadTailProperties
  <1> QED
    BY <1>1, <1>2

\* The record follows status and submission state only.
LEMMA RecordSame ==
    ASSUME NEW r, NEW s, r.status = s.status, r.submission = s.submission
    PROVE  RecordFor(r) = RecordFor(s)
  BY DEF RecordFor

\* One write of the row and one of the record, and reviews.
LEMMA RowAndRecord ==
    ASSUME NEW a \in Attempts, NEW t \in Seq(Writes),
           NEW i \in 1..Len(t), NEW j \in 1..Len(t),
           t[i].to = "row", t[j].to = "record",
           \A k \in 1..Len(t) : k \in {i, j} \/ t[k].to = "review",
           a \in WaveAttempts /\ handed[a] # 0 => t[i].status \in Gone,
           t[i].status \in ClaimableStatuses =>
               t[i].by = "approve" /\ t[i].meta = TRUE,
           crashes = 0 => t[j].value \in RecordFor(t[i])
    PROVE  Settles(a, t)
  <1>1. OneOfEach(t)
    BY DEF OneOfEach
  <1>2. KeepsGone(a, t)
    BY DEF KeepsGone
  <1>3. KeepsApproval(a, t)
    BY DEF KeepsApproval
  <1>4. MakesAgree(a, t)
    BY DEF MakesAgree, RecordComes
  <1> QED
    BY <1>1, <1>2, <1>3, <1>4 DEF Settles

\* The same list, in a form that is easily cited.
Paired(a, t) ==
    \E i, j \in 1..Len(t) :
        /\ t[i].to = "row" /\ t[j].to = "record"
        /\ \A k \in 1..Len(t) : k \in {i, j} \/ t[k].to = "review"
        /\ a \in WaveAttempts /\ handed[a] # 0 => t[i].status \in Gone
        /\ t[i].status \in ClaimableStatuses =>
               t[i].by = "approve" /\ t[i].meta = TRUE
        /\ crashes = 0 => t[j].value \in RecordFor(t[i])

LEMMA PairSettles ==
    ASSUME NEW a \in Attempts, NEW t \in Seq(Writes), Paired(a, t)
    PROVE  Settles(a, t)
  BY RowAndRecord DEF Paired

\* A write of the row alone.
LEMMA RowAlone ==
    ASSUME NEW a \in Attempts, NEW w, w.to = "row",
           a \in WaveAttempts /\ handed[a] # 0 => w.status \in Gone,
           w.status \in ClaimableStatuses =>
               \/ w.meta /\ w.draft \in approvedRevs[a]
               \/ ~ w.meta /\ row[a].draft \in approvedRevs[a],
           crashes = 0 => record[a] \in RecordFor(w)
    PROVE  Settles(a, <<w>>)
  <1>1. /\ Len(<<w>>) = 1
        /\ \A i \in 1..Len(<<w>>) : i = 1 /\ <<w>>[i] = w
    OBVIOUS
  <1> DEFINE t == <<w>>
  <1>2. /\ Len(t) = 1
        /\ \A i \in 1..Len(t) : i = 1 /\ t[i] = w
        /\ 1 \in 1..Len(t)
    BY <1>1
  <1> HIDE DEF t
  <1>3. OneOfEach(t)
    BY <1>2 DEF OneOfEach
  <1>4. KeepsGone(a, t)
    BY <1>2 DEF KeepsGone
  <1>5. KeepsApproval(a, t)
    BY <1>2 DEF KeepsApproval
  <1>6. MakesAgree(a, t)
    BY <1>2 DEF MakesAgree, RecordComes
  <1>7. Settles(a, t)
    BY <1>3, <1>4, <1>5, <1>6 DEF Settles
  <1> QED
    BY <1>7 DEF t

(***************************************************************************)
(* Steps.  While a process works the others rest, so that only what it     *)
(* works on has to be looked at.                                           *)
(***************************************************************************)
LEMMA AloneThen ==
    ASSUME Cardinality(Working') <= 1
    PROVE  Lone'
  <1> SUFFICES ASSUME NEW p \in Procs, NEW q \in Procs,
                      p \in Working', q \in Working', p # q
               PROVE  FALSE
    BY DEF Lone, Working
  <1>1. IsFiniteSet(Working')
    BY ProcsAssumption, FS_Subset DEF Working
  <1>2. /\ IsFiniteSet(Working' \ {p})
        /\ Cardinality(Working' \ {p}) = Cardinality(Working') - 1
    BY <1>1, FS_RemoveElement
  <1>3. /\ IsFiniteSet((Working' \ {p}) \ {q})
        /\ Cardinality((Working' \ {p}) \ {q})
               = Cardinality(Working' \ {p}) - 1
    BY <1>2, FS_RemoveElement
  <1>4. /\ Cardinality((Working' \ {p}) \ {q}) \in Nat
        /\ Cardinality(Working') \in Nat
    BY <1>1, <1>3, FS_CardinalityType
  <1> QED
    BY <1>2, <1>3, <1>4

LEMMA Works ==
    ASSUME SeqInv, TypeOK', Lone', NEW p \in Procs,
           \A q \in Procs \ {p} : proc'[q] = proc[q],
           ~ Idle(p) \/ ~ Idle(p)',
           \A b \in Attempts : AttemptKept(b)',
           Bound(p)' => ClaimKept(p)',
           proc'[p].pc = "commit" => Settles(proc[p].on, proc[p].todo)'
    PROVE  SeqInv'
  <1>1. \A q \in Procs \ {p} : proc'[q].pc = "idle"
    BY DEF SeqInv, Lone, Idle
  <1>2. \A q \in Procs :
            /\ Bound(q)' => ClaimKept(q)'
            /\ proc'[q].pc = "commit" => Settles(proc[q].on, proc[q].todo)'
    BY <1>1 DEF Bound
  <1> QED
    BY <1>2 DEF SeqInv

\* Who is alone rests the attempts that he is not at.
LEMMA OthersRest ==
    ASSUME SeqInv, Lone', NEW p \in Procs,
           \A q \in Procs \ {p} : proc'[q] = proc[q],
           ~ Idle(p) \/ ~ Idle(p)', NEW b \in Attempts,
           proc[p].on # b \/ proc[p].pc \in {"idle", "claim"}
    PROVE  AtRest(b)
  BY DEF SeqInv, Lone, Idle, AtRest

\* What is not worked on is left as it is.
LEMMA OthersKept ==
    ASSUME SeqInv, NEW b \in Attempts,
           AtRest(b)' => AtRest(b),
           WaveAttempts' = WaveAttempts,
           handed'[b] = handed[b], row'[b] = row[b], artifact'[b] = artifact[b],
           record'[b] = record[b], approvedRevs[b] \subseteq approvedRevs'[b],
           crashes' = 0 => crashes = 0
    PROVE  AttemptKept(b)'
  BY DEF SeqInv, AttemptKept

(***************************************************************************)
(* The operator's handlers.                                                *)
(***************************************************************************)
LEMMA BeginKeeps ==
    ASSUME SeqInv, TypeOK', Lone', NEW p \in Procs, NEW a \in Attempts,
           Idle(p), NEW t, Begin(p, a, t), Settles(a, t),
           UNCHANGED <<row, source, route, record, reviews, crashes,
                       observations>>
    PROVE  SeqInv'
  <1>1. /\ \A q \in Procs \ {p} : proc'[q] = proc[q]
        /\ proc'[p].pc = "commit" /\ proc'[p].on = a /\ proc'[p].todo = t
    BY DEF Begin, SeqInv, TypeOK
  <1>2. ~ Idle(p)'
    BY <1>1 DEF Idle
  <1>3. ASSUME NEW b \in Attempts PROVE AttemptKept(b)'
    <2>1. AtRest(b)
      BY <1>1, <1>2, OthersRest DEF Idle
    <2> QED
      BY <2>1, OthersKept DEF observations, WaveAttempts
  <1>4. Settles(proc[p].on, proc[p].todo)'
    BY <1>1 DEF Settles, OneOfEach, KeepsGone, KeepsApproval, MakesAgree,
                RecordComes, WaveAttempts, observations
  <1> QED
    BY <1>1, <1>2, <1>3, <1>4, Works DEF Bound

\* A posting that has left FAB is in none of these statuses.
LEMMA StillHere ==
    ASSUME SeqInv, NEW a \in Attempts,
           row[a].status \in PreparableStatuses \cup ApprovableStatuses
                                 \cup RejectableStatuses
    PROVE  ~ (a \in WaveAttempts /\ handed[a] # 0)
  BY DEF SeqInv, AttemptKept, Gone, PreparableStatuses, ApprovableStatuses,
         RejectableStatuses, SubmittedStatuses

LEMMA PrepareKeeps ==
    ASSUME SeqInv, TypeOK', Lone', NEW p \in Procs, NEW a \in Attempts,
           Prepare(p, a)
    PROVE  SeqInv'
  <1>1. PICK s \in {"blocked", "approval_required"} :
            Begin(p, a, <<RowWrite("prepare", s, "not_executed", 0),
                          RecordWrite(IF s = "blocked" THEN "blocked"
                                      ELSE "awaiting_approval")>>)
    BY DEF Prepare
  <1> DEFINE w == RowWrite("prepare", s, "not_executed", 0)
             r == RecordWrite(IF s = "blocked" THEN "blocked"
                              ELSE "awaiting_approval")
             t == <<w, r>>
  <1>2. w \in Writes /\ r \in Writes
    BY WriteTypes, BoundsAssumption
       DEF Handlers, Statuses, PreparableStatuses, ApprovableStatuses,
           SubmissionStates, Revisions, RecordStates, PlainWrites, OwnWrites,
           TrueWrites
  <1>3. /\ w.to = "row" /\ w.status = s /\ r.to = "record"
        /\ r.value \in RecordFor(w)
        /\ s \notin ClaimableStatuses
    BY DEF RowWrite, RecordWrite, RecordFor, ClaimableStatuses
  <1> HIDE DEF w, r
  <1>4. /\ t \in Seq(Writes) /\ Len(t) = 2 /\ t[1] = w /\ t[2] = r
        /\ 1 \in 1..Len(t) /\ 2 \in 1..Len(t)
        /\ \A k \in 1..Len(t) : k \in {1, 2}
    BY <1>2
  <1> HIDE DEF t
  <1>5. ~ (a \in WaveAttempts /\ handed[a] # 0)
    BY StillHere DEF Prepare
  <1>6. Settles(a, t)
    BY <1>3, <1>4, <1>5, RowAndRecord
  <1>7. Begin(p, a, t)
    BY <1>1 DEF t, w, r
  <1> QED
    BY <1>6, <1>7, BeginKeeps DEF Prepare, Free

LEMMA ApproveKeeps ==
    ASSUME SeqInv, TypeOK', Lone', NEW p \in Procs, NEW a \in Attempts,
           Approve(p, a)
    PROVE  SeqInv'
  <1> DEFINE v == ResolveReview("wave")
             w == RowWrite("approve", "approved", "approved_not_executed",
                           row[a].draft)
             r == RecordWrite("approved_not_submitted")
  <1>1. row[a].draft \in Revisions
    BY DEF SeqInv, TypeOK, Rows
  <1>2. v \in Writes /\ w \in Writes /\ r \in Writes
    BY <1>1, WriteTypes
       DEF Handlers, Statuses, RejectableStatuses, SubmissionStates,
           ReviewKinds, RecordStates, PlainWrites, OwnWrites, TrueWrites
  <1>3. /\ w.to = "row" /\ w.by = "approve" /\ w.meta = TRUE /\ r.to = "record"
        /\ v.to = "review" /\ r.value \in RecordFor(w)
    BY DEF RowWrite, RecordWrite, ResolveReview, RecordFor
  <1>4. \E t \in {<<w, r>>, <<v, w, r>>} : Begin(p, a, t)
    <2>1. Begin(p, a, (IF row[a].status = "attention_required"
                       THEN <<v>> ELSE <<>>) \o <<w, r>>)
      BY DEF Approve
    <2> HIDE DEF v, w, r
    <2> QED
      BY <1>2, <2>1, Joined
  <1> HIDE DEF v, w, r
  <1>5. ~ (a \in WaveAttempts /\ handed[a] # 0)
    BY StillHere DEF Approve
  <1>6. Settles(a, <<w, r>>)
    <2> DEFINE t == <<w, r>>
    <2>1. /\ t \in Seq(Writes) /\ Len(t) = 2 /\ t[1] = w /\ t[2] = r
          /\ 1 \in 1..Len(t) /\ 2 \in 1..Len(t)
          /\ \A k \in 1..Len(t) : k \in {1, 2}
      BY <1>2
    <2> HIDE DEF t
    <2>2. \A k \in 1..Len(t) : k \in {1, 2} \/ t[k].to = "review"
      BY <2>1
    <2>3. /\ t[1].to = "row" /\ t[2].to = "record"
          /\ t[1].by = "approve" /\ t[2].value \in RecordFor(t[1])
      BY <1>3, <2>1
    <2>4. t[1].meta = TRUE
      BY <1>3, <2>1
    <2>5. Settles(a, t)
      BY <1>5, <2>1, <2>2, <2>3, <2>4, RowAndRecord
    <2> QED
      BY <2>5 DEF t
  <1>7. Settles(a, <<v, w, r>>)
    <2> DEFINE t == <<v, w, r>>
    <2>1. /\ t \in Seq(Writes) /\ Len(t) = 3
          /\ t[1] = v /\ t[2] = w /\ t[3] = r
          /\ 2 \in 1..Len(t) /\ 3 \in 1..Len(t)
          /\ \A k \in 1..Len(t) : k \in {2, 3} \/ k = 1
      BY <1>2
    <2> HIDE DEF t
    <2>2. \A k \in 1..Len(t) : k \in {2, 3} \/ t[k].to = "review"
      BY <1>3, <2>1
    <2>3. /\ t[2].to = "row" /\ t[3].to = "record"
          /\ t[2].by = "approve" /\ t[3].value \in RecordFor(t[2])
      BY <1>3, <2>1
    <2>4. t[2].meta = TRUE
      BY <1>3, <2>1
    <2>5. /\ a \in WaveAttempts /\ handed[a] # 0 => t[2].status \in Gone
          /\ t[2].status \in ClaimableStatuses =>
                 t[2].by = "approve" /\ t[2].meta = TRUE
          /\ crashes = 0 => t[3].value \in RecordFor(t[2])
      BY <1>5, <2>3, <2>4
    <2>6. PICK i \in 1..Len(t), j \in 1..Len(t) :
              /\ t[i].to = "row" /\ t[j].to = "record"
              /\ \A k \in 1..Len(t) : k \in {i, j} \/ t[k].to = "review"
              /\ a \in WaveAttempts /\ handed[a] # 0 => t[i].status \in Gone
              /\ t[i].status \in ClaimableStatuses =>
                     t[i].by = "approve" /\ t[i].meta = TRUE
              /\ crashes = 0 => t[j].value \in RecordFor(t[i])
      BY <2>1, <2>2, <2>3, <2>5
    <2>7. Settles(a, t)
      BY <2>1, <2>6, RowAndRecord
    <2> QED
      BY <2>7 DEF t
  <1> QED
    BY <1>4, <1>6, <1>7, BeginKeeps DEF Approve, Free

\* A write of the row, a review or none, and a write of the record.
LEMMA RowReviewRecord ==
    ASSUME NEW a \in Attempts, NEW w \in Writes, NEW v \in Writes,
           NEW r \in Writes,
           w.to = "row", v.to = "review", r.to = "record",
           a \in WaveAttempts /\ handed[a] # 0 => w.status \in Gone,
           w.status \notin ClaimableStatuses, r.value \in RecordFor(w),
           NEW m \in {<<>>, <<v>>}
    PROVE  Settles(a, <<w>> \o m \o <<r>>)
  <1>1. <<w>> \o m \o <<r>> \in {<<w, r>>, <<w, v, r>>}
    <2>1. CASE m = <<>>
      <3>1. <<w>> \o <<>> \o <<r>> = <<w, r>>
        BY Joined
      <3> QED
        BY <2>1, <3>1, Zenon
    <2>2. CASE m = <<v>>
      <3>1. <<w>> \o <<v>> \o <<r>> = <<w, v, r>>
        BY Joined
      <3> QED
        BY <2>2, <3>1, Zenon
    <2>3. m = <<>> \/ m = <<v>>
      BY Zenon
    <2> QED
      BY <2>1, <2>2, <2>3
  <1>2. Settles(a, <<w, r>>)
    <2> DEFINE t == <<w, r>>
    <2>1. /\ t \in Seq(Writes) /\ Len(t) = 2 /\ t[1] = w /\ t[2] = r
          /\ 1 \in 1..Len(t) /\ 2 \in 1..Len(t)
          /\ \A k \in 1..Len(t) : k \in {1, 2}
      OBVIOUS
    <2> HIDE DEF t
    <2>2. Settles(a, t)
      BY <2>1, RowAndRecord
    <2> QED
      BY <2>2 DEF t
  <1>3. Settles(a, <<w, v, r>>)
    <2> DEFINE t == <<w, v, r>>
    <2>1. /\ t \in Seq(Writes) /\ Len(t) = 3
          /\ t[1] = w /\ t[2] = v /\ t[3] = r
          /\ 1 \in 1..Len(t) /\ 3 \in 1..Len(t)
          /\ \A k \in 1..Len(t) : k \in {1, 3} \/ k = 2
      OBVIOUS
    <2> HIDE DEF t
    <2>2. Settles(a, t)
      BY <2>1, RowAndRecord
    <2> QED
      BY <2>2 DEF t
  <1> QED
    BY <1>1, <1>2, <1>3

LEMMA RejectKeeps ==
    ASSUME SeqInv, TypeOK', Lone', NEW p \in Procs, NEW a \in Attempts,
           Reject(p, a)
    PROVE  SeqInv'
  <1> DEFINE w == RowWrite("reject", "rejected", "rejected_not_executed",
                           row[a].draft)
             r == RecordWrite("rejected_not_executed")
             m == CASE row[a].status = "supervision_required" ->
                         <<ResolveReview("supervision")>>
                    [] row[a].status = "attention_required" ->
                         <<ResolveReview("wave")>>
                    [] OTHER -> <<>>
  <1>1. row[a].draft \in Revisions
    BY DEF SeqInv, TypeOK, Rows
  <1>2. /\ w \in Writes /\ r \in Writes
        /\ \A k \in ReviewKinds : ResolveReview(k) \in Writes
    BY <1>1, WriteTypes
       DEF Handlers, Statuses, SubmissionStates, RecordStates, PlainWrites,
           OwnWrites, TrueWrites
  <1>3. /\ w.to = "row" /\ w.status = "rejected" /\ r.to = "record"
        /\ r.value \in RecordFor(w)
        /\ "rejected" \notin ClaimableStatuses
        /\ \A k \in ReviewKinds : ResolveReview(k).to = "review"
    BY DEF RowWrite, RecordWrite, ResolveReview, RecordFor, ClaimableStatuses
  <1>4. PICK v \in {ResolveReview("wave"), ResolveReview("supervision")} :
            m \in {<<>>, <<v>>}
    OBVIOUS
  <1>5. Begin(p, a, <<w>> \o m \o <<r>>)
    BY DEF Reject
  <1>6. ~ (a \in WaveAttempts /\ handed[a] # 0)
    BY StillHere DEF Reject
  <1>7. v \in Writes /\ v.to = "review"
    BY <1>2, <1>3 DEF ReviewKinds
  <1> HIDE DEF w, r, m
  <1>8. Settles(a, <<w>> \o m \o <<r>>)
    BY <1>2, <1>3, <1>4, <1>6, <1>7, RowReviewRecord
  <1> QED
    BY <1>5, <1>8, BeginKeeps DEF Reject, Free

LEMMA RecordResultKeeps ==
    ASSUME SeqInv, TypeOK', Lone', NEW p \in Procs, NEW a \in Attempts,
           NEW s \in ResultStatuses, RecordResult(p, a, s)
    PROVE  SeqInv'
  <1> DEFINE w == RowWrite("result", s, SubmissionForResult(s), row[a].draft)
             r == RecordWrite(SubmissionForResult(s))
             v == ResolveReview("supervision")
             m == IF /\ row[a].status = "supervision_required"
                     /\ s \in {"executed", "submitted"}
                  THEN <<v>> ELSE <<>>
  <1>1. row[a].draft \in Revisions
    BY DEF SeqInv, TypeOK, Rows
  <1>2. /\ SubmissionForResult(s) \in SubmissionStates
        /\ SubmissionForResult(s) \in RecordStates
        /\ s \in Statuses /\ s \in Gone /\ s \notin ClaimableStatuses
    BY DEF SubmissionForResult, SubmissionStates, RecordStates,
           ResultStatuses, SubmittedStatuses, Statuses, Gone,
           ClaimableStatuses
  <1>3. w \in Writes /\ r \in Writes /\ v \in Writes
    BY <1>1, <1>2, WriteTypes
       DEF Handlers, ReviewKinds, PlainWrites, OwnWrites, TrueWrites
  <1>4. /\ w.to = "row" /\ w.status = s /\ r.to = "record"
        /\ v.to = "review" /\ r.value \in RecordFor(w)
    BY DEF RowWrite, RecordWrite, ResolveReview, RecordFor,
           SubmissionForResult, ResultStatuses, SubmittedStatuses
  <1>5. Begin(p, a, <<w>> \o m \o <<r>>) /\ m \in {<<>>, <<v>>}
    BY DEF RecordResult
  <1> HIDE DEF w, r, v, m
  <1>6. Settles(a, <<w>> \o m \o <<r>>)
    BY <1>2, <1>3, <1>4, <1>5, RowReviewRecord
  <1> QED
    BY <1>5, <1>6, BeginKeeps DEF RecordResult, Free

LEMMA RegenerateKeeps ==
    ASSUME SeqInv, TypeOK', Lone', NEW p \in Procs, NEW a \in Attempts,
           Regenerate(p, a)
    PROVE  SeqInv'
  <1> DEFINE w == RegeneratedRow(source[a])
             r == RecordWrite("awaiting_approval")
             t == <<w, r>>
  <1>1. source[a] \in Revisions
    BY DEF SeqInv, TypeOK
  <1>2. w \in Writes /\ r \in Writes
    BY <1>1, WriteTypes
       DEF RegeneratedRow, Handlers, Statuses, ApprovableStatuses,
           SubmissionStates, RecordStates, PlainWrites, OwnWrites, TrueWrites
  <1>3. /\ w.to = "row" /\ w.status = "approval_required" /\ r.to = "record"
        /\ r.value \in RecordFor(w)
        /\ "approval_required" \notin ClaimableStatuses
    BY DEF RegeneratedRow, RowWrite, RecordWrite, RecordFor, ClaimableStatuses
  <1>4. Begin(p, a, t) /\ a \notin WaveAttempts
    BY DEF Regenerate
  <1> HIDE DEF w, r
  <1>5. /\ t \in Seq(Writes) /\ Len(t) = 2 /\ t[1] = w /\ t[2] = r
        /\ 1 \in 1..Len(t) /\ 2 \in 1..Len(t)
        /\ \A k \in 1..Len(t) : k \in {1, 2}
    BY <1>2
  <1> HIDE DEF t
  <1>6. /\ t[1].to = "row" /\ t[2].to = "record"
        /\ a \in WaveAttempts /\ handed[a] # 0 => t[1].status \in Gone
        /\ t[1].status \notin ClaimableStatuses
        /\ t[2].value \in RecordFor(t[1])
    BY <1>3, <1>4, <1>5
  <1>7. Settles(a, t)
    BY <1>5, <1>6, RowAndRecord
  <1> QED
    BY <1>4, <1>7, BeginKeeps DEF Regenerate, Free

(***************************************************************************)
(* Steps of nobody's handler, and the begin of an execution.               *)
(***************************************************************************)
LEMMA QuietKeeps ==
    ASSUME SeqInv, TypeOK',
           \A q \in Procs : \/ proc'[q] = proc[q]
                            \/ Idle(q)' /\ (Idle(q) \/ crashes' # 0),
           WaveAttempts' = WaveAttempts, crashes' = 0 => crashes = 0,
           UNCHANGED <<row, record, handed, artifact, approvedRevs>>
    PROVE  SeqInv'
  <1>1. Lone'
    BY DEF SeqInv, Lone, Idle
  <1>2. ASSUME NEW b \in Attempts PROVE AttemptKept(b)'
    <2>1. CASE crashes' = 0
      <3>1. AtRest(b)' => AtRest(b)
        BY <2>1 DEF AtRest, Idle
      <3> QED
        BY <3>1, OthersKept
    <2>2. CASE crashes' # 0
      BY <2>2 DEF SeqInv, AttemptKept
    <2> QED
      BY <2>1, <2>2
  <1>3. ASSUME NEW q \in Procs, proc'[q] = proc[q]
        PROVE  /\ Bound(q)' => ClaimKept(q)'
               /\ proc'[q].pc = "commit"
                    => Settles(proc[q].on, proc[q].todo)'
    <2>1. Bound(q)' => ClaimKept(q)'
      BY <1>3 DEF SeqInv, Bound, ClaimKept
    <2>2. ASSUME proc'[q].pc = "commit"
          PROVE  Settles(proc[q].on, proc[q].todo)'
      <3>1. Settles(proc[q].on, proc[q].todo)
        BY <1>3, <2>2 DEF SeqInv
      <3> QED
        BY <1>3, <3>1 DEF Settles, OneOfEach, KeepsGone, KeepsApproval,
                          MakesAgree, RecordComes
    <2> QED
      BY <2>1, <2>2
  <1>4. ASSUME NEW q \in Procs, Idle(q)'
        PROVE  ~ Bound(q)' /\ proc'[q].pc # "commit"
    BY <1>4 DEF Idle, Bound
  <1> QED
    BY <1>1, <1>2, <1>3, <1>4 DEF SeqInv

LEMMA StartBatchKeeps ==
    ASSUME SeqInv, TypeOK', NEW p \in Procs, StartBatch(p)
    PROVE  SeqInv'
  <1>1. \A q \in Procs : proc'[q] = proc[q] \/ (Idle(q) /\ Idle(q)')
    BY DEF StartBatch, Free, Idle, SeqInv, TypeOK, ProcStates
  <1> QED
    BY <1>1, QuietKeeps DEF StartBatch, observations, WaveAttempts

LEMMA CrashKeeps ==
    ASSUME SeqInv, TypeOK', NEW p \in Procs, Crash(p)
    PROVE  SeqInv'
  <1>1. crashes \in Nat /\ crashes' = crashes + 1
    BY BoundsAssumption DEF Crash, SeqInv, TypeOK
  <1>2. \A q \in Procs : proc'[q] = proc[q] \/ Idle(q)'
    BY DEF Crash, Idle, Parked, SeqInv, TypeOK, ProcStates
  <1> QED
    BY <1>1, <1>2, QuietKeeps DEF Crash, observations, WaveAttempts

LEMMA EnvironmentKeeps ==
    ASSUME SeqInv, TypeOK', NEW a \in Attempts,
           EditSource(a) \/ ChangeGate(a)
    PROVE  SeqInv'
  <1>1. UNCHANGED <<row, record, proc, crashes, observations>>
    BY DEF EditSource, ChangeGate
  <1>2. \A b \in Attempts : route'[b].target = route[b].target
    <2>1. CASE EditSource(a)
      BY <2>1 DEF EditSource
    <2>2. CASE ChangeGate(a)
      <3>1. route \in [Attempts -> Routes] /\ route[a] \in Routes
        BY DEF SeqInv, TypeOK
      <3> DEFINE new == [route[a] EXCEPT !.blocked = ~ @]
      <3>2. route' = [route EXCEPT ![a] = new]
        BY <2>2 DEF ChangeGate
      <3>3. new.target = route[a].target
        BY <3>1 DEF Routes
      <3> HIDE DEF new
      <3> QED
        BY <3>1, <3>2, <3>3
    <2> QED
      BY <2>1, <2>2
  <1>3. WaveAttempts' = WaveAttempts
    BY <1>2 DEF WaveAttempts
  <1> QED
    BY <1>1, <1>3, QuietKeeps DEF observations

LEMMA ExecuteKeeps ==
    ASSUME SeqInv, TypeOK', Lone', NEW p \in Procs, NEW a \in Attempts,
           Execute(p, a)
    PROVE  SeqInv'
  <1>1. /\ UNCHANGED <<row, route, record, crashes, observations>>
        /\ Idle(p)
        /\ \A q \in Procs \ {p} : proc'[q] = proc[q]
        /\ WaveAttempts' = WaveAttempts
    BY DEF Execute, SeqInv, TypeOK, WaveAttempts
  <1>2. CASE Idle(p)'
    <2>1. \A q \in Procs : proc'[q] = proc[q] \/ (Idle(q) /\ Idle(q)')
      BY <1>1, <1>2
    <2> QED
      BY <1>1, <2>1, QuietKeeps DEF observations
  <1>3. CASE ~ Idle(p)'
    <2>1. proc'[p].pc = "claim"
      BY <1>3 DEF Execute, Idle, SeqInv, TypeOK, ProcStates
    <2>2. ASSUME NEW b \in Attempts PROVE AttemptKept(b)'
      <3>1. AtRest(b)
        BY <1>1, <1>3, OthersRest DEF Idle
      <3> QED
        BY <1>1, <3>1, OthersKept DEF observations
    <2> QED
      BY <1>1, <1>3, <2>1, <2>2, Works DEF Bound
  <1> QED
    BY <1>2, <1>3

LEMMA ClaimKeeps ==
    ASSUME SeqInv, TypeOK', Lone', NEW p \in Procs, Claim(p)
    PROVE  SeqInv'
  <1>0. PICK a \in Attempts : a = proc[p].on
    BY DEF SeqInv, TypeOK, ProcStates
  <1>1. /\ proc[p].pc = "claim" /\ ~ Idle(p)
        /\ UNCHANGED <<route, record, crashes, handed, artifact, approvedRevs>>
        /\ \A q \in Procs \ {p} : proc'[q] = proc[q]
        /\ WaveAttempts' = WaveAttempts
        /\ \A b \in Attempts \ {a} : row'[b] = row[b]
    BY <1>0 DEF Claim, Return, Idle, SeqInv, TypeOK, ProcStates, WaveAttempts
  <1>2. \A b \in Attempts : AtRest(b)
    BY <1>1, OthersRest
  <1>3. AttemptKept(a)
    BY DEF SeqInv
  <1>4. ASSUME NEW b \in Attempts, row'[b] = row[b] PROVE AttemptKept(b)'
    BY <1>1, <1>2, <1>4, OthersKept
  <1>5. CASE row[a].status \in ClaimableStatuses
    <2>1. /\ row'[a].status = "execution_in_progress"
          /\ row'[a].draft = row[a].draft
          /\ proc'[p].pc = "check" /\ proc'[p].on = a
          /\ proc'[p].draft = row[a].draft
      <3> DEFINE new == [pc |-> "check", on |-> a, draft |-> row[a].draft,
                         todo |-> <<>>, batch |-> proc[p].batch]
                 taken == [row[a] EXCEPT !.status = "execution_in_progress"]
      <3>1. /\ row' = [row EXCEPT ![a] = taken]
            /\ proc' = [proc EXCEPT ![p] = new]
        BY <1>0, <1>5 DEF Claim
      <3>2. /\ row \in [Attempts -> Rows] /\ row[a] \in Rows
            /\ proc \in [Procs -> ProcStates]
        BY <1>1 DEF SeqInv, TypeOK
      <3>3. /\ taken.status = "execution_in_progress"
            /\ taken.draft = row[a].draft
            /\ new.pc = "check" /\ new.on = a /\ new.draft = row[a].draft
        BY <3>2 DEF Rows
      <3> HIDE DEF new, taken
      <3> QED
        BY <1>1, <3>1, <3>2, <3>3
    <2>2. /\ a \in WaveAttempts => handed[a] = 0
          /\ row[a].draft \in approvedRevs[a]
          /\ crashes = 0 => record[a] = "approved_not_submitted"
      BY <1>2, <1>3, <1>5, <1>1 DEF AttemptKept, ClaimableStatuses, RecordFor,
                               Gone, SubmittedStatuses
    <2>3. ClaimKept(p)'
      BY <1>1, <2>1, <2>2 DEF ClaimKept
    <2>4. ~ AtRest(a)'
      BY <2>1 DEF AtRest
    <2>5. AttemptKept(a)'
      BY <1>1, <1>3, <2>1, <2>2, <2>4
         DEF AttemptKept, Gone, ClaimableStatuses
    <2>6. ASSUME NEW b \in Attempts PROVE AttemptKept(b)'
      <3>1. CASE b = a
        BY <2>5, <3>1
      <3>2. CASE b # a
        BY <1>1, <1>4, <3>2
      <3> QED
        BY <3>1, <3>2
    <2> QED
      BY <1>1, <2>1, <2>3, <2>6, Works
  <1>6. CASE row[a].status \notin ClaimableStatuses
    <2>1. row' = row /\ proc'[p].pc = "idle"
      BY <1>0, <1>6 DEF Claim, Return, Parked, SeqInv, TypeOK
    <2>2. \A b \in Attempts : AttemptKept(b)'
      BY <1>4, <2>1
    <2> QED
      BY <1>1, <2>1, <2>2, Works DEF Bound
  <1> QED
    BY <1>5, <1>6

(***************************************************************************)
(* The steps of an execution.                                              *)
(***************************************************************************)
\* What holds of an attempt whose process does not rest.
LEMMA ClaimFacts ==
    ASSUME SeqInv, Lone', NEW p \in Procs, NEW a \in Attempts,
           a = proc[p].on, Bound(p),
           \A q \in Procs \ {p} : proc'[q] = proc[q],
           WaveAttempts' = WaveAttempts,
           UNCHANGED <<row, record, approvedRevs, crashes>>
    PROVE  /\ ClaimKept(p)
           /\ AttemptKept(a)
           /\ \A b \in Attempts \ {a} :
                  /\ handed'[b] = handed[b] /\ artifact'[b] = artifact[b]
                  /\ ~ Idle(p)'
                  => AttemptKept(b)'
  <1>1. ~ Idle(p)
    BY DEF Idle, Bound
  <1>2. ASSUME NEW b \in Attempts \ {a}, handed'[b] = handed[b],
               artifact'[b] = artifact[b], ~ Idle(p)'
        PROVE  AttemptKept(b)'
    <2>1. AtRest(b)
      BY <1>1, OthersRest
    <2> QED
      BY <1>2, <2>1, OthersKept
  <1> QED
    BY <1>2 DEF SeqInv

LEMMA CheckKeeps ==
    ASSUME SeqInv, TypeOK', Lone', NEW p \in Procs, Check(p)
    PROVE  SeqInv'
  <1>0. PICK a \in Attempts : a = proc[p].on
    BY DEF SeqInv, TypeOK, ProcStates
  <1> DEFINE w == StatusWrite("release", "approved", "approved_not_executed")
  <1>1. /\ proc[p].pc = "check" /\ Bound(p) /\ ~ Idle(p)
        /\ UNCHANGED <<row, source, route, record, reviews, crashes,
                       observations>>
        /\ \A q \in Procs \ {p} : proc'[q] = proc[q]
        /\ WaveAttempts' = WaveAttempts
    BY <1>0 DEF Check, Begin, Bound, Idle, SeqInv, TypeOK, WaveAttempts
  <1>2. /\ ClaimKept(p) /\ AttemptKept(a)
        /\ ~ Idle(p)' => \A b \in Attempts \ {a} : AttemptKept(b)'
    BY <1>0, <1>1, ClaimFacts DEF observations
  <1>3. ASSUME proc'[p].on = a, proc'[p].pc \notin {"idle", "claim"}
        PROVE  \A b \in Attempts : AttemptKept(b)'
    <2>1. ~ AtRest(a)' /\ ~ Idle(p)'
      BY <1>3 DEF AtRest, Idle
    <2>2. AttemptKept(a)'
      BY <1>1, <1>2, <2>1 DEF AttemptKept, observations
    <2> QED
      BY <1>2, <2>1, <2>2
  <1>4. CASE Fresh(a, proc[p].draft) /\ a \notin Unplanned
    <2>1. /\ proc'[p].pc = IF a \in WaveAttempts THEN "dispatch"
                                                 ELSE "artifact"
          /\ proc'[p].on = a /\ proc'[p].draft = proc[p].draft
      BY <1>0, <1>4 DEF Check, SeqInv, TypeOK, ProcStates
    <2>2. ClaimKept(p)'
      BY <1>0, <1>1, <1>2, <2>1 DEF ClaimKept, observations
    <2> QED
      BY <1>1, <1>3, <2>1, <2>2, Works
  <1>5. CASE ~ (Fresh(a, proc[p].draft) /\ a \notin Unplanned)
    <2>1. /\ proc'[p].pc = "commit" /\ proc'[p].on = a
          /\ proc'[p].todo = <<w>>
      BY <1>0, <1>5 DEF Check, Begin, SeqInv, TypeOK
    <2>2. /\ w.to = "row" /\ w.status = "approved" /\ w.meta = FALSE
          /\ RecordFor(w) = {"approved_not_submitted"}
      BY DEF StatusWrite, RecordFor
    <2> HIDE DEF w
    <2>3. /\ ~ (a \in WaveAttempts /\ handed[a] # 0)
          /\ row[a].draft \in approvedRevs[a]
          /\ crashes = 0 => record[a] \in RecordFor(w)
      BY <1>0, <1>2, <2>2 DEF ClaimKept
    <2>4. Settles(a, <<w>>)
      BY <2>2, <2>3, RowAlone
    <2>5. Settles(proc[p].on, proc[p].todo)'
      BY <1>1, <2>1, <2>4
         DEF Settles, OneOfEach, KeepsGone, KeepsApproval, MakesAgree,
             RecordComes, observations
    <2> QED
      BY <1>1, <1>3, <2>1, <2>5, Works DEF Bound
  <1> QED
    BY <1>4, <1>5

\* A handler of an execution has decided on its writes t.
LEMMA DecidedKeeps ==
    ASSUME SeqInv, TypeOK', Lone', NEW p \in Procs, NEW a \in Attempts,
           a = proc[p].on, Bound(p), NEW t, Begin(p, a, t), Settles(a, t),
           UNCHANGED <<row, route, record, crashes, approvedRevs>>,
           \A b \in Attempts \ {a} : /\ handed'[b] = handed[b]
                                     /\ artifact'[b] = artifact[b],
           a \in WaveAttempts =>
               \/ handed'[a] = 0
               \/ /\ handed'[a] = 1
                  /\ \A i \in 1..Len(t) : t[i].to = "row" => t[i].status \in Gone,
           artifact'[a] \in {artifact[a], row[a].draft}
    PROVE  SeqInv'
  <1>1. /\ \A q \in Procs \ {p} : proc'[q] = proc[q]
        /\ proc'[p].pc = "commit" /\ proc'[p].on = a /\ proc'[p].todo = t
        /\ WaveAttempts' = WaveAttempts
    BY DEF Begin, SeqInv, TypeOK, WaveAttempts
  <1>2. ~ Idle(p) /\ ~ Idle(p)' /\ ~ AtRest(a)'
    BY <1>1 DEF Idle, Bound, AtRest
  <1>3. /\ ClaimKept(p) /\ AttemptKept(a)
        /\ \A b \in Attempts \ {a} : AttemptKept(b)'
    BY <1>1, <1>2, ClaimFacts
  <1>4. AttemptKept(a)'
    BY <1>1, <1>2, <1>3 DEF AttemptKept, ClaimKept, Gone
  <1>5. \A b \in Attempts : AttemptKept(b)'
    BY <1>3, <1>4
  <1>6. KeepsGone(a, t)'
    BY <1>1 DEF KeepsGone
  <1>7. Settles(proc[p].on, proc[p].todo)'
    BY <1>1, <1>6 DEF Settles, OneOfEach, KeepsApproval, MakesAgree,
                      RecordComes, KeepsGone
  <1> QED
    BY <1>1, <1>2, <1>5, <1>7, Works DEF Bound

\* A write of the row, a review and a write of the record, in any order of
\* the last two.
Posting(a, w, v, r) ==
    /\ w \in Writes /\ v \in Writes /\ r \in Writes
    /\ w.to = "row" /\ v.to = "review" /\ r.to = "record"
    /\ ~ (a \in WaveAttempts /\ handed[a] # 0)
    /\ w.status \notin ClaimableStatuses /\ r.value \in RecordFor(w)

LEMMA ThreeSettle ==
    ASSUME NEW a \in Attempts, NEW w, NEW v, NEW r, Posting(a, w, v, r),
           NEW t, t \in {<<w, r>>, <<w, v, r>>, <<w, r, v>>}
    PROVE  /\ Settles(a, t)
           /\ \A i \in 1..Len(t) : t[i].to = "row" => t[i] = w
  <1>0. /\ w \in Writes /\ v \in Writes /\ r \in Writes
        /\ w.to = "row" /\ v.to = "review" /\ r.to = "record"
        /\ ~ (a \in WaveAttempts /\ handed[a] # 0)
        /\ w.status \notin ClaimableStatuses /\ r.value \in RecordFor(w)
    BY DEF Posting
  <1>1. PICK j \in {2, 3} :
            /\ t \in Seq(Writes) /\ 1 \in 1..Len(t) /\ j \in 1..Len(t)
            /\ t[1] = w /\ t[j] = r
            /\ \A k \in 1..Len(t) : k \in {1, j} \/ t[k] = v
    <2>1. CASE t = <<w, r>>
      <3>1. /\ t \in Seq(Writes) /\ Len(t) = 2 /\ t[1] = w /\ t[2] = r
        BY <1>0, <2>1
      <3> QED
        BY <3>1
    <2>2. CASE t = <<w, v, r>>
      <3>1. /\ t \in Seq(Writes) /\ Len(t) = 3
            /\ t[1] = w /\ t[2] = v /\ t[3] = r
        BY <1>0, <2>2
      <3> QED
        BY <3>1
    <2>3. CASE t = <<w, r, v>>
      <3>1. /\ t \in Seq(Writes) /\ Len(t) = 3
            /\ t[1] = w /\ t[2] = r /\ t[3] = v
        BY <1>0, <2>3
      <3> QED
        BY <3>1
    <2>4. t = <<w, r>> \/ t = <<w, v, r>> \/ t = <<w, r, v>>
      BY Zenon
    <2> QED
      BY <2>1, <2>2, <2>3, <2>4
  <1>2. \A i \in 1..Len(t) : t[i].to = "row" => t[i] = w
    BY <1>0, <1>1
  <1>3. \A k \in 1..Len(t) : k \in {1, j} \/ t[k].to = "review"
    BY <1>0, <1>1
  <1>4. Paired(a, t)
    BY <1>0, <1>1, <1>3 DEF Paired
  <1>5. Settles(a, t)
    BY <1>1, <1>4, PairSettles
  <1> QED
    BY <1>2, <1>5

LEMMA DispatchKeeps ==
    ASSUME SeqInv, TypeOK', Lone', NEW p \in Procs, NEW o \in WaveOutcomes,
           Dispatch(p, o)
    PROVE  SeqInv'
  <1>0. PICK a \in Attempts, d \in Revisions :
            a = proc[p].on /\ d = proc[p].draft
    BY DEF SeqInv, TypeOK, ProcStates
  <1>1. /\ Bound(p) /\ Begin(p, a, ExecutionWrites(o, d))
        /\ UNCHANGED <<row, route, record, crashes, approvedRevs, artifact>>
        /\ \A b \in Attempts \ {a} : handed'[b] = handed[b]
        /\ handed'[a] = IF AcceptedByWave(o) THEN handed[a] + 1 ELSE handed[a]
    BY <1>0 DEF Dispatch, Bound, SeqInv, TypeOK
  <1>2. ClaimKept(p)
    BY <1>1 DEF SeqInv
  <1>3. ~ (a \in WaveAttempts /\ handed[a] # 0)
    BY <1>0, <1>2 DEF ClaimKept
  <1>4. a \in WaveAttempts => handed'[a] = IF AcceptedByWave(o) THEN 1 ELSE 0
    BY <1>1, <1>3
  <1>5. ASSUME NEW t, Begin(p, a, t), Settles(a, t),
               AcceptedByWave(o) =>
                   \A i \in 1..Len(t) : t[i].to = "row" => t[i].status \in Gone
        PROVE  SeqInv'
    BY <1>0, <1>1, <1>4, <1>5, DecidedKeeps
  <1> DEFINE ended(s) == RowWrite("execute", s, s, d)
             asked == RowWrite("execute", "attention_required",
                               "not_executed", d)
             later == RowWrite("execute", "deferred", "not_executed", d)
             told(s) == RecordWrite(s)
             open == OpenReview("wave")
  <1>6. /\ ended("executed") \in Writes /\ ended("failed") \in Writes
        /\ asked \in Writes /\ later \in Writes /\ open \in Writes
        /\ told("executed") \in Writes /\ told("failed") \in Writes
        /\ told("attention_required") \in Writes
    BY WriteTypes
       DEF Handlers, Statuses, RejectableStatuses, ResultStatuses,
           SubmittedStatuses, SubmissionStates, RecordStates, ReviewKinds,
           PlainWrites, OwnWrites, TrueWrites
  <1>7. /\ \A s \in {"executed", "failed"} :
               /\ ended(s).to = "row" /\ ended(s).status = s
               /\ s \in Gone /\ s \notin ClaimableStatuses
               /\ told(s).to = "record" /\ told(s).value \in RecordFor(ended(s))
        /\ asked.to = "row" /\ asked.status = "attention_required"
        /\ "attention_required" \notin ClaimableStatuses
        /\ told("attention_required").to = "record"
        /\ told("attention_required").value \in RecordFor(asked)
        /\ open.to = "review"
        /\ later.to = "row" /\ later.status = "deferred" /\ later.meta = TRUE
        /\ later.draft = d /\ RecordFor(later) = {"approved_not_submitted"}
    BY DEF RowWrite, RecordWrite, OpenReview, RecordFor, Gone,
           SubmittedStatuses, ClaimableStatuses
  <1>8. /\ o = "success" =>
               Begin(p, a, <<ended("executed"), told("executed")>>)
        /\ o = "throttled" => Begin(p, a, <<later>>)
        /\ o = "attention" =>
               Begin(p, a, <<asked, open, told("attention_required")>>)
        /\ o \in {"failure", "answer_lost"} =>
               Begin(p, a, <<ended("failed"), open, told("failed")>>)
    BY <1>1 DEF ExecutionWrites
  <1> HIDE DEF ended, asked, later, told, open
  <1>9. ASSUME NEW w \in Writes, NEW r \in Writes, w.to = "row",
               r.to = "record", w.status \notin ClaimableStatuses,
               r.value \in RecordFor(w), NEW t \in {<<w, r>>, <<w, open, r>>},
               Begin(p, a, t), AcceptedByWave(o) => w.status \in Gone
        PROVE  SeqInv'
    <2>1. /\ Settles(a, t)
          /\ \A i \in 1..Len(t) : t[i].to = "row" => t[i] = w
      <3>1. t \in {<<w, r>>, <<w, open, r>>, <<w, r, open>>}
        BY Zenon
      <3>2. Posting(a, w, open, r)
        BY <1>3, <1>6, <1>7, <1>9 DEF Posting
      <3> QED
        BY <3>1, <3>2, ThreeSettle
    <2> QED
      BY <1>5, <1>9, <2>1
  <1>13. CASE o = "success"
    <2> DEFINE w == ended("executed")  r == told("executed")
    <2>1. /\ w \in Writes /\ r \in Writes /\ w.to = "row" /\ r.to = "record"
          /\ w.status \notin ClaimableStatuses /\ r.value \in RecordFor(w)
          /\ w.status \in Gone
      BY <1>6, <1>7
    <2>2. Begin(p, a, <<w, r>>)
      BY <1>8, <1>13
    <2> HIDE DEF w, r
    <2> QED
      BY <1>9, <2>1, <2>2
  <1>10. CASE o = "throttled"
    <2>1. /\ ~ AcceptedByWave(o) /\ Begin(p, a, <<later>>)
      BY <1>8, <1>10 DEF AcceptedByWave
    <2>2. /\ later.meta /\ later.draft \in approvedRevs[a]
          /\ crashes = 0 => record[a] \in RecordFor(later)
      BY <1>0, <1>2, <1>7 DEF ClaimKept
    <2>3. Settles(a, <<later>>)
      BY <1>3, <1>7, <2>2, RowAlone
    <2> QED
      BY <1>5, <2>1, <2>3
  <1>11. CASE o = "attention"
    <2> DEFINE w == asked  r == told("attention_required")
    <2>1. /\ w \in Writes /\ r \in Writes /\ w.to = "row" /\ r.to = "record"
          /\ w.status \notin ClaimableStatuses /\ r.value \in RecordFor(w)
      BY <1>6, <1>7
    <2>2. Begin(p, a, <<w, open, r>>) /\ ~ AcceptedByWave(o)
      BY <1>8, <1>11 DEF AcceptedByWave
    <2> HIDE DEF w, r
    <2> QED
      BY <1>9, <2>1, <2>2
  <1>12. CASE o \in {"failure", "answer_lost"}
    <2> DEFINE w == ended("failed")  r == told("failed")
    <2>1. /\ w \in Writes /\ r \in Writes /\ w.to = "row" /\ r.to = "record"
          /\ w.status \notin ClaimableStatuses /\ r.value \in RecordFor(w)
          /\ w.status \in Gone
      BY <1>6, <1>7
    <2>2. Begin(p, a, <<w, open, r>>)
      BY <1>8, <1>12
    <2> HIDE DEF w, r
    <2> QED
      BY <1>9, <2>1, <2>2
  <1> QED
    BY <1>10, <1>11, <1>12, <1>13 DEF WaveOutcomes

LEMMA SuperviseArtifactKeeps ==
    ASSUME SeqInv, TypeOK', Lone', NEW p \in Procs, SuperviseArtifact(p)
    PROVE  SeqInv'
  <1>0. PICK a \in Attempts, d \in Revisions :
            a = proc[p].on /\ d = proc[p].draft
    BY DEF SeqInv, TypeOK, ProcStates
  <1> DEFINE w == RowWrite("execute", "supervision_required", "not_executed", d)
             r == RecordWrite("supervision_required")
             v == OpenReview("supervision")
             f == StatusWrite("execute", "failed", "not_executed")
  <1>1. /\ Bound(p)
        /\ UNCHANGED <<row, route, record, crashes, approvedRevs>>
        /\ \A b \in Attempts \ {a} : /\ handed'[b] = handed[b]
                                     /\ artifact'[b] = artifact[b]
        /\ artifact'[a] \in {artifact[a], row[a].draft}
        /\ \E t \in {<<w, r, v>>, <<f>>} : Begin(p, a, t)
    BY <1>0 DEF SuperviseArtifact, Bound, SeqInv, TypeOK
  <1>2. ClaimKept(p) /\ a \notin WaveAttempts
    BY <1>0, <1>1 DEF SeqInv, SuperviseArtifact, ClaimKept
  <1>3. w \in Writes /\ r \in Writes /\ v \in Writes
    BY WriteTypes
       DEF Handlers, Statuses, RejectableStatuses, SubmissionStates,
           RecordStates, ReviewKinds, PlainWrites, OwnWrites, TrueWrites
  <1>4. /\ w.to = "row" /\ w.status = "supervision_required"
        /\ "supervision_required" \notin ClaimableStatuses
        /\ r.to = "record" /\ r.value \in RecordFor(w) /\ v.to = "review"
        /\ f.to = "row" /\ f.status = "failed"
        /\ "failed" \notin ClaimableStatuses
        /\ RecordFor(f) = {"approved_not_submitted"}
    BY DEF RowWrite, StatusWrite, RecordWrite, OpenReview, RecordFor,
           ClaimableStatuses
  <1> HIDE DEF w, r, v, f
  <1>5. Settles(a, <<w, r, v>>)
    <2>1. ASSUME NEW t \in {<<w, r, v>>} PROVE Settles(a, t)
      <3>1. t \in {<<w, r>>, <<w, v, r>>, <<w, r, v>>}
        BY Zenon
      <3>2. Posting(a, w, v, r)
        BY <1>2, <1>3, <1>4 DEF Posting
      <3> QED
        BY <3>1, <3>2, ThreeSettle
    <2> QED
      BY <2>1
  <1>6. Settles(a, <<f>>)
    <2>1. crashes = 0 => record[a] \in RecordFor(f)
      BY <1>0, <1>2, <1>4 DEF ClaimKept
    <2> QED
      BY <1>2, <1>4, <2>1, RowAlone
  <1>7. PICK t : Begin(p, a, t) /\ Settles(a, t)
    BY <1>1, <1>5, <1>6
  <1> QED
    BY <1>0, <1>1, <1>2, <1>7, DecidedKeeps

\* No draft is regenerated while its attempt is executed by itself.
LEMMA LoseArtifactKeeps ==
    ASSUME SeqInv, NEW p \in Procs, LoseArtifact(p)
    PROVE  SeqInv'
  BY DEF SeqInv, Bound, ClaimKept, LoseArtifact

(***************************************************************************)
(* A write is committed.  What is left of the list still settles the       *)
(* attempt; when nothing is left, the attempt rests.                       *)
(***************************************************************************)
\* The lists of writes that one commit leaves are no more than their tails.
LEMMA TailSettles ==
    ASSUME NEW a \in Attempts, NEW t \in Seq(Writes), t # <<>>, Settles(a, t)
    PROVE  LET u == Tail(t) IN
           /\ OneOfEach(u)
           /\ KeepsGone(a, u)
           /\ t[1].to # "row" => KeepsApproval(a, u)
           /\ t[1].to \in {"row", "record"} =>
                  \A i \in 1..Len(u) : u[i].to # t[1].to
  <1> DEFINE u == Tail(t)
  <1>1. /\ u \in Seq(Writes) /\ Len(u) = Len(t) - 1 /\ Len(t) \in Nat \ {0}
        /\ \A i \in 1..Len(u) : /\ i + 1 \in 2..Len(t)
                                /\ u[i] = t[i + 1]
    BY TailElements
  <1> HIDE DEF u
  <1>2. \A i \in 1..Len(u) : i + 1 \in 1..Len(t) /\ i \in Nat
    BY <1>1
  <1>3. OneOfEach(u)
    <2> SUFFICES ASSUME NEW i \in 1..Len(u), NEW j \in 1..Len(u),
                        u[i].to = u[j].to, u[i].to # "review"
                 PROVE  i = j
      BY DEF OneOfEach
    <2>1. t[i + 1].to = t[j + 1].to /\ t[i + 1].to # "review"
      BY <1>1
    <2>2. i + 1 = j + 1
      BY <1>2, <2>1 DEF Settles, OneOfEach
    <2> QED
      BY <1>2, <2>2
  <1>4. KeepsGone(a, u)
    BY <1>1, <1>2 DEF Settles, KeepsGone
  <1>5. KeepsApproval(a, u)
    BY <1>1, <1>2 DEF Settles, KeepsApproval
  <1>6. ASSUME t[1].to \in {"row", "record"}, NEW i \in 1..Len(u)
        PROVE  u[i].to # t[1].to
    <2>1. 1 \in 1..Len(t) /\ i + 1 # 1
      BY <1>1
    <2>2. t[i + 1].to = t[1].to => i + 1 = 1
      BY <1>2, <1>6, <2>1 DEF Settles, OneOfEach
    <2> QED
      BY <1>1, <2>1, <2>2
  <1> QED
    BY <1>3, <1>4, <1>5, <1>6 DEF u

\* What record and row come to after the first write.
LEMMA FirstWritten ==
    ASSUME NEW a \in Attempts, NEW t \in Seq(Writes), t # <<>>, Settles(a, t),
           crashes' = 0, crashes = 0,
           t[1].to = "row" => /\ row'[a].status = t[1].status
                              /\ row'[a].submission = t[1].submission
                              /\ record'[a] = record[a],
           t[1].to = "record" => record'[a] = t[1].value /\ row'[a] = row[a],
           t[1].to = "review" => record'[a] = record[a] /\ row'[a] = row[a]
    PROVE  /\ MakesAgree(a, Tail(t))'
           /\ Len(t) = 1 => record'[a] \in RecordFor(row'[a])
  <1> DEFINE u == Tail(t)
  <1>1. /\ u \in Seq(Writes) /\ Len(u) = Len(t) - 1 /\ Len(t) \in Nat \ {0}
        /\ \A i \in 1..Len(u) : /\ i + 1 \in 2..Len(t)
                                /\ u[i] = t[i + 1]
        /\ \A i \in 2..Len(t) : i - 1 \in 1..Len(u) /\ u[i - 1] = t[i]
        /\ \A i \in 1..Len(t) : t[i] \in Writes
    BY TailElements
  <1>2. /\ t[1].to \in {"row", "record"} =>
               \A i \in 1..Len(u) : u[i].to # t[1].to
    BY TailSettles
  <1> HIDE DEF u
  <1>3. /\ \A i \in 1..Len(u) : i + 1 \in 1..Len(t)
        /\ 1 \in 1..Len(t)
        /\ \A i \in 1..Len(t) : i = 1 \/ (i - 1 \in 1..Len(u) /\ u[i - 1] = t[i])
    BY <1>1
  <1>4. /\ \A i \in 1..Len(t) : t[i].to = "row" => RecordComes(a, t, t[i])
        /\ (\A i \in 1..Len(t) : t[i].to # "row") => RecordComes(a, t, row[a])
    BY DEF Settles, MakesAgree
  <1>5. t[1].to \in {"row", "record", "review"}
    BY <1>1, <1>3 DEF Writes, RowWrites, RecordWrites, ReviewWrites
  \* The writes that remain put the record where r wants it.
  <1>6. ASSUME NEW r, RecordComes(a, t, r), t[1].to # "row"
        PROVE  RecordComes(a, u, r)'
    <2>1. \A j \in 1..Len(u) : u[j].to = "record" => u[j].value \in RecordFor(r)
      BY <1>1, <1>3, <1>6 DEF RecordComes
    <2>2. ASSUME \A j \in 1..Len(u) : u[j].to # "record"
          PROVE  record'[a] \in RecordFor(r)
      <3>1. CASE t[1].to = "record"
        BY <1>3, <1>6, <3>1 DEF RecordComes
      <3>2. CASE t[1].to = "review"
        <4>1. \A j \in 1..Len(t) : t[j].to # "record"
          BY <1>3, <2>2, <3>2
        <4> QED
          BY <1>6, <3>2, <4>1 DEF RecordComes
      <3> QED
        BY <1>5, <1>6, <3>1, <3>2
    <2> QED
      BY <2>1, <2>2 DEF RecordComes
  <1>7. CASE t[1].to = "row"
    <2>1. RecordFor(row'[a]) = RecordFor(t[1])
      BY <1>7, RecordSame
    <2>2. RecordComes(a, t, t[1])
      BY <1>3, <1>4, <1>7
    <2>3. \A j \in 1..Len(u) :
              u[j].to = "record" => u[j].value \in RecordFor(row'[a])
      BY <1>1, <1>3, <2>1, <2>2 DEF RecordComes
    <2>4. (\A j \in 1..Len(u) : u[j].to # "record")
              => record'[a] \in RecordFor(row'[a])
      <3>1. (\A j \in 1..Len(u) : u[j].to # "record")
                => \A j \in 1..Len(t) : t[j].to # "record"
        BY <1>3, <1>7
      <3> QED
        BY <1>7, <2>1, <2>2, <3>1 DEF RecordComes
    <2>5. \A i \in 1..Len(u) : u[i].to # "row"
      BY <1>2, <1>7
    <2>6. MakesAgree(a, u)'
      BY <2>3, <2>4, <2>5 DEF MakesAgree, RecordComes
    <2>7. Len(t) = 1 => record'[a] \in RecordFor(row'[a])
      BY <1>1, <2>4
    <2> QED
      BY <2>6, <2>7 DEF u
  <1>8. CASE t[1].to # "row"
    <2>1. row'[a] = row[a]
      BY <1>5, <1>8
    <2>2. ASSUME NEW i \in 1..Len(u), u[i].to = "row"
          PROVE  RecordComes(a, u, u[i])'
      <3>1. RecordComes(a, t, t[i + 1]) /\ u[i] = t[i + 1]
        BY <1>1, <1>3, <1>4, <2>2
      <3>2. RecordComes(a, u, t[i + 1])'
        BY <1>6, <1>8, <3>1
      <3> QED
        BY <3>1, <3>2 DEF RecordComes
    <2>3. ASSUME \A i \in 1..Len(u) : u[i].to # "row"
          PROVE  RecordComes(a, u, row[a])'
      <3>1. \A i \in 1..Len(t) : t[i].to # "row"
        BY <1>3, <1>8, <2>3
      <3>2. RecordComes(a, t, row[a])
        BY <1>4, <3>1
      <3>3. PICK r : r = row[a]
        OBVIOUS
      <3>4. RecordComes(a, u, r)'
        BY <1>6, <1>8, <3>2, <3>3
      <3> QED
        BY <2>1, <3>3, <3>4 DEF RecordComes
    <2>4. MakesAgree(a, u)'
      BY <2>2, <2>3 DEF MakesAgree
    <2>5. Len(t) = 1 => record'[a] \in RecordFor(row'[a])
      <3> SUFFICES ASSUME Len(t) = 1 PROVE record'[a] \in RecordFor(row'[a])
        OBVIOUS
      <3>1. \A i \in 1..Len(u) : FALSE
        BY <1>1
      <3>2. RecordComes(a, u, row[a])'
        BY <2>3, <3>1
      <3> QED
        BY <3>1, <3>2 DEF RecordComes
    <2> QED
      BY <2>4, <2>5 DEF u
  <1> QED
    BY <1>7, <1>8

LEMMA CommitKeeps ==
    ASSUME SeqInv, TypeOK', Lone', NEW p \in Procs, Commit(p)
    PROVE  SeqInv'
  <1>1. PICK a \in Attempts, t \in Seq(Writes) :
            a = proc[p].on /\ t = proc[p].todo
    BY DEF SeqInv, TypeOK, ProcStates
  <1>2. /\ proc[p].pc = "commit" /\ t # <<>> /\ Settles(a, t) /\ ~ Idle(p)
        /\ AttemptKept(a)
    BY <1>1 DEF Commit, SeqInv, TypeOK, Idle
  <1>3. /\ UNCHANGED <<route, crashes, handed, artifact>>
        /\ WaveAttempts' = WaveAttempts
        /\ \A q \in Procs \ {p} : proc'[q] = proc[q]
    BY <1>1 DEF Commit, Return, WaveAttempts, SeqInv, TypeOK
  <1>4. PICK w \in Writes : w = t[1] /\ w = Head(t)
    BY <1>2, TailElements, 1 \in 1..Len(t)
  <1>5. \/ w.to = "row" /\ CommitRow(a, w)
        \/ w.to = "record" /\ CommitRecord(a, w)
        \/ w.to = "review" /\ CommitReview(a, w)
    <2>1. w.to \in {"row", "record", "review"}
      BY DEF Writes, RowWrites, RecordWrites, ReviewWrites
    <2> QED
      BY <1>1, <1>4, <2>1 DEF Commit
  <1>6. /\ w.to = "row" =>
               /\ row'[a] = Written(row[a], w) /\ record' = record
               /\ \A b \in Attempts \ {a} : row'[b] = row[b]
               /\ \A b \in Attempts : approvedRevs[b] \subseteq approvedRevs'[b]
               /\ w.by = "approve" => w.draft \in approvedRevs'[a]
        /\ w.to = "record" =>
               /\ record'[a] = w.value /\ row' = row
               /\ \A b \in Attempts \ {a} : record'[b] = record[b]
               /\ approvedRevs' = approvedRevs
        /\ w.to = "review" => UNCHANGED <<row, record, approvedRevs>>
    <2>1. /\ row \in [Attempts -> Rows] /\ record \in [Attempts -> RecordStates]
          /\ approvedRevs \in [Attempts -> SUBSET Revisions]
      BY DEF SeqInv, TypeOK
    <2>2. CASE w.to = "row" /\ CommitRow(a, w)
      <3> DEFINE new == Written(row[a], w)
                 more == IF w.by = "approve" THEN approvedRevs[a] \cup {w.draft}
                                             ELSE approvedRevs[a]
      <3>1. /\ row' = [row EXCEPT ![a] = new] /\ record' = record
            /\ approvedRevs' = [approvedRevs EXCEPT ![a] = more]
        BY <2>2 DEF CommitRow
      <3>2. /\ approvedRevs[a] \subseteq more
            /\ w.by = "approve" => w.draft \in more
        OBVIOUS
      <3> HIDE DEF new, more
      <3>3. /\ row'[a] = new /\ approvedRevs'[a] = more
            /\ \A b \in Attempts \ {a} : row'[b] = row[b]
            /\ \A b \in Attempts \ {a} : approvedRevs'[b] = approvedRevs[b]
        BY <2>1, <3>1
      <3>4. \A b \in Attempts : approvedRevs[b] \subseteq approvedRevs'[b]
        BY <3>2, <3>3
      <3> QED
        BY <2>2, <3>1, <3>2, <3>3, <3>4 DEF new
    <2>3. CASE w.to = "record" /\ CommitRecord(a, w)
      BY <2>1, <2>3 DEF CommitRecord
    <2>4. CASE w.to = "review" /\ CommitReview(a, w)
      BY <2>4 DEF CommitReview
    <2> QED
      BY <1>5, <2>2, <2>3, <2>4
  <1>7. /\ Len(t) = 1 => proc'[p].pc = "idle"
        /\ Len(t) # 1 => /\ proc'[p].pc = "commit" /\ proc'[p].on = a
                         /\ proc'[p].todo = Tail(t)
    <2>1. proc \in [Procs -> ProcStates]
      BY DEF SeqInv, TypeOK
    <2>2. CASE Len(t) = 1
      <3>1. proc' = [proc EXCEPT ![p] = Parked(proc[p].batch)]
        BY <1>1, <2>2 DEF Commit, Return
      <3>2. Parked(proc[p].batch).pc = "idle"
        BY DEF Parked
      <3> QED
        BY <2>1, <2>2, <3>1, <3>2
    <2>3. CASE Len(t) # 1
      <3> DEFINE rest == Tail(t)
      <3>1. proc' = [proc EXCEPT ![p].todo = rest]
        BY <1>1, <2>3 DEF Commit
      <3> HIDE DEF rest
      <3>2. /\ proc'[p].pc = proc[p].pc /\ proc'[p].on = proc[p].on
            /\ proc'[p].todo = rest
        BY <2>1, <3>1 DEF ProcStates
      <3> QED
        BY <1>1, <1>2, <2>3, <3>2 DEF rest
    <2> QED
      BY <2>2, <2>3
  <1>8. ASSUME NEW b \in Attempts \ {a} PROVE AttemptKept(b)'
    <2>1. AtRest(b)
      BY <1>1, <1>2, <1>3, OthersRest
    <2>2. /\ row'[b] = row[b] /\ record'[b] = record[b]
          /\ approvedRevs[b] \subseteq approvedRevs'[b]
      BY <1>5, <1>6
    <2> QED
      BY <1>3, <2>1, <2>2, OthersKept
  <1>9. ASSUME crashes' = 0
        PROVE  /\ MakesAgree(a, Tail(t))'
               /\ Len(t) = 1 => record'[a] \in RecordFor(row'[a])
    <2>1. /\ t[1].to = "row" => /\ row'[a].status = t[1].status
                                /\ row'[a].submission = t[1].submission
                                /\ record'[a] = record[a]
          /\ t[1].to = "record" => record'[a] = t[1].value /\ row'[a] = row[a]
          /\ t[1].to = "review" => record'[a] = record[a] /\ row'[a] = row[a]
      BY <1>4, <1>6 DEF Written
    <2> QED
      BY <1>2, <1>3, <1>9, <2>1, FirstWritten
  \* The row after the write.
  <1>10. ASSUME w.to = "row"
         PROVE  /\ a \in WaveAttempts /\ handed[a] # 0 => row'[a].status \in Gone
                /\ row'[a].status \in ClaimableStatuses =>
                       row'[a].draft \in approvedRevs'[a]
    <2>1. /\ row'[a].status = w.status
          /\ row'[a].draft = IF w.meta THEN w.draft ELSE row[a].draft
      BY <1>6, <1>10 DEF Written
    <2>2. 1 \in 1..Len(t)
      BY <1>2, TailElements
    <2>3. a \in WaveAttempts /\ handed[a] # 0 => w.status \in Gone
      BY <1>2, <1>4, <1>10, <2>2 DEF Settles, KeepsGone
    <2>4. w.status \in ClaimableStatuses =>
              \/ w.by = "approve" /\ w.meta
              \/ w.meta /\ w.draft \in approvedRevs[a]
              \/ ~ w.meta /\ row[a].draft \in approvedRevs[a]
      BY <1>2, <1>4, <1>10, <2>2 DEF Settles, KeepsApproval
    <2>5. w.status \in ClaimableStatuses => row'[a].draft \in approvedRevs'[a]
      BY <1>6, <1>10, <2>1, <2>4
    <2> QED
      BY <2>1, <2>3, <2>5
  <1>11. AttemptKept(a)'
    <2>1. /\ a \in WaveAttempts /\ handed'[a] # 0 =>
                 handed'[a] = 1 /\ row'[a].status \in Gone
          /\ row'[a].status \in ClaimableStatuses =>
                 row'[a].draft \in approvedRevs'[a]
      <3>1. CASE w.to = "row"
        BY <1>2, <1>3, <1>10, <3>1 DEF AttemptKept
      <3>2. CASE w.to # "row"
        BY <1>2, <1>3, <1>5, <1>6, <3>2 DEF AttemptKept
      <3> QED
        BY <3>1, <3>2
    <2>2. artifact'[a] # NoRevision => artifact'[a] \in approvedRevs'[a]
      BY <1>2, <1>3, <1>5, <1>6 DEF AttemptKept
    <2>3. crashes' = 0 /\ AtRest(a)' => record'[a] \in RecordFor(row'[a])
      BY <1>7, <1>9 DEF AtRest
    <2> QED
      BY <1>3, <2>1, <2>2, <2>3 DEF AttemptKept
  <1>12. ASSUME proc'[p].pc = "commit"
         PROVE  Settles(proc[p].on, proc[p].todo)'
    <2>1. proc'[p].on = a /\ proc'[p].todo = Tail(t)
      BY <1>7, <1>12
    <2> DEFINE u == Tail(t)
    <2>2. /\ OneOfEach(u) /\ KeepsGone(a, u)
          /\ w.to # "row" => KeepsApproval(a, u)
          /\ w.to \in {"row", "record"} => \A i \in 1..Len(u) : u[i].to # w.to
      BY <1>2, <1>4, TailSettles
    <2> HIDE DEF u
    <2>3. OneOfEach(u)' /\ KeepsGone(a, u)'
      BY <1>3, <2>2 DEF OneOfEach, KeepsGone
    <2>4. KeepsApproval(a, u)'
      <3>1. CASE w.to = "row"
        BY <2>2, <3>1 DEF KeepsApproval
      <3>2. CASE w.to # "row"
        BY <1>5, <1>6, <2>2, <3>2 DEF KeepsApproval
      <3> QED
        BY <3>1, <3>2
    <2>5. MakesAgree(a, u)'
      BY <1>9 DEF MakesAgree, u
    <2> QED
      BY <2>1, <2>3, <2>4, <2>5
         DEF Settles, OneOfEach, KeepsGone, KeepsApproval, MakesAgree,
             RecordComes, u
  <1>13. ~ Bound(p)'
    BY <1>7 DEF Bound
  <1> QED
    BY <1>2, <1>3, <1>8, <1>11, <1>12, <1>13, Works

(***************************************************************************)
(* The theorems.                                                           *)
(***************************************************************************)
HistoryInv == focus = "sequence" => SeqInv

LEMMA NextKeeps ==
    ASSUME SeqInv, TypeOK', Lone', Next
    PROVE  SeqInv'
  <1>1. ASSUME NEW p \in Procs, NEW a \in Attempts, Operate(p, a)
        PROVE  SeqInv'
    BY <1>1, PrepareKeeps, ApproveKeeps, RejectKeeps, RecordResultKeeps,
       RegenerateKeeps, ExecuteKeeps DEF Operate
  <1>2. ASSUME NEW p \in Procs, StartBatch(p) \/ Proceed(p) \/ Crash(p)
        PROVE  SeqInv'
    BY <1>2, StartBatchKeeps, ClaimKeeps, CheckKeeps, DispatchKeeps,
       SuperviseArtifactKeeps, LoseArtifactKeeps, CommitKeeps, CrashKeeps
       DEF Proceed
  <1> QED
    BY <1>1, <1>2, EnvironmentKeeps DEF Next

LEMMA HistoryHolds == HistorySpec => []HistoryInv
  <1>1. HistoryInit => HistoryInv
    <2> SUFFICES ASSUME Init PROVE SeqInv
      BY DEF HistoryInit, HistoryInv
    <2>1. TypeOK
      BY InitType
    <2>2. /\ \A p \in Procs : proc[p].pc = "idle"
          /\ \A a \in Attempts : /\ handed[a] = 0 /\ artifact[a] = NoRevision
                                 /\ row[a].status = "absent"
                                 /\ record[a] = "none"
      BY DEF Init, Parked
    <2>3. \A a \in Attempts : AttemptKept(a)
      BY <2>2 DEF AttemptKept, ClaimableStatuses, RecordFor
    <2> QED
      BY <2>1, <2>2, <2>3 DEF SeqInv, Lone, Idle, Bound
  <1>2. HistoryInv /\ [HistoryNext]_<<vars, focus>> => HistoryInv'
    <2> SUFFICES ASSUME HistoryInv, [HistoryNext]_<<vars, focus>>,
                        focus' = "sequence"
                 PROVE  SeqInv'
      BY DEF HistoryInv
    <2>1. CASE focus = "sequence" /\ Next /\ Cardinality(Working') <= 1
      <3>1. SeqInv /\ TypeOK'
        BY <2>1, NextType DEF HistoryInv, SeqInv
      <3>2. Lone'
        BY <2>1, AloneThen
      <3> QED
        BY <2>1, <3>1, <3>2, NextKeeps
    <2>2. CASE UNCHANGED <<vars, focus>>
      <3>1. SeqInv
        BY <2>2 DEF HistoryInv
      <3> QED
        BY <2>2, <3>1
           DEF vars, SeqInv, TypeOK, Lone, Idle, AttemptKept, AtRest, Bound,
               ClaimKept, Settles, OneOfEach, KeepsGone, KeepsApproval,
               MakesAgree, RecordComes, WaveAttempts
    <2> QED
      BY <2>1, <2>2 DEF HistoryNext
  <1> QED
    BY <1>1, <1>2, PTL DEF HistorySpec

\* While the handlers of an attempt do not overlap, Wave accepts a posting at
\* most once, after timeouts, restarts and retries too, and one that reads as
\* rejected was never accepted.  (execute_attempt, reject_attempt)
THEOREM PostedAtMostOnce == HistorySpec => []SequenceHandedOnce
  <1>1. HistoryInv => SequenceHandedOnce
    <2> SUFFICES ASSUME SeqInv, NEW a \in Attempts, a \in WaveAttempts
                 PROVE  /\ handed[a] <= 1
                        /\ row[a].status = "rejected" => handed[a] = 0
      BY DEF HistoryInv, SequenceHandedOnce, HandedOnce, WaveAttempts
    <2>1. handed[a] # 0 => handed[a] = 1 /\ row[a].status \in Gone
      BY DEF SeqInv, AttemptKept
    <2>2. "rejected" \notin Gone
      BY DEF Gone, SubmittedStatuses
    <2> QED
      BY <2>1, <2>2
  <1> QED
    BY <1>1, HistoryHolds, PTL

\* While the handlers of an attempt do not overlap, a supervised file holds a
\* draft that was approved and, once they are done and none of them died, the
\* bookkeeping record tells what the attempt tells.
\* (artifact_for_attempt, record_export_state)
THEOREM FilesAndRecordsAgree == HistorySpec => []SequenceAgrees
  <1>1. HistoryInv => SequenceAgrees
    <2> SUFFICES ASSUME SeqInv PROVE ArtifactApproved /\ RecordAgrees
      BY DEF HistoryInv, SequenceAgrees
    <2>1. ArtifactApproved
      BY DEF SeqInv, AttemptKept, ArtifactApproved
    <2>2. RecordAgrees
      BY DEF SeqInv, AttemptKept, AtRest, Idle, RecordAgrees
    <2> QED
      BY <2>1, <2>2
  <1> QED
    BY <1>1, HistoryHolds, PTL
=============================================================================
