---------------------- MODULE DriveWaveDelivery_proofs ----------------------
(***************************************************************************)
(* Theorems about DriveWaveDelivery, for every set of documents, every set *)
(* of API threads and every bound.                                         *)
(***************************************************************************)
EXTENDS DriveWaveDelivery, TLAPS

\* Evidence on record, and evidence about to be recorded, was proved byte for
\* byte: no other path writes the attachment_verified event.
EvidenceProved ==
    /\ \A d \in Docs : evidence[d] # NoEvidence => evidence[d] \in proved[d]
    /\ \A p \in Procs :
         proc[p].pc = "event" => proc[p].digest \in proved[proc[p].on]

\* A process past AcquireLease has the lease's row to itself, as long as no
\* process outlives its lease.
HoldersOwn ==
    \A p \in Procs :
        /\ proc[p].pc \in MovePCs \cup {"replan", "release"} => proc[p].held
        /\ proc[p].held => /\ lease[proc[p].on].owner = p
                           /\ lease[proc[p].on].live

\* Every new revision of a document's facts is one of the counted corrections.
FactsCounted == \A d \in Docs : facts[d] <= edits

TInv == TypeOK /\ FactsCounted

IInv ==
    /\ TInv
    /\ EvidenceProved
    /\ MoveMatchesFacts
    /\ ArchiveNeedsReadback

-----------------------------------------------------------------------------
LEMMA Constants ==
    /\ Worker \in Procs
    /\ Threads \subseteq Procs
    /\ "nobody" \notin Procs
    /\ "dead" \notin Procs
    /\ Revisions \subseteq Nat
    /\ 0 \in Revisions
    /\ MaxEdits \in Nat /\ MaxAsks \in Nat /\ MaxChanges \in Nat
    /\ MaxFaults \in Nat /\ MaxLapses \in Nat /\ MaxCrashes \in Nat
  BY ProcsAssumption, BoundsAssumption DEF Procs, Revisions

LEMMA IdleStateType == IdleState \in ProcStates
  <1>1. (CHOOSE d \in Docs : TRUE) \in Docs
    BY DocsAssumption
  <1> QED
    BY <1>1, Constants DEF IdleState, ProcStates, PCs

LEMMA TypeInit == Init => TInv
  <1> SUFFICES ASSUME Init PROVE TInv
    OBVIOUS
  <1> QED
    BY Constants, IdleStateType
       DEF Init, TInv, TypeOK, FactsCounted, Lives, Folders, LeaseRows, Unheld

LEMMA TypeNext == TInv /\ [Next]_vars => TInv'
  <1> SUFFICES ASSUME TInv, [Next]_vars PROVE TInv'
    OBVIOUS
  <1> USE Constants
  <1>1. CASE UNCHANGED vars
    BY <1>1 DEF TInv, TypeOK, FactsCounted, vars, ledger, book, drive, bounds
  <1>2. ASSUME NEW p \in Procs, RecordEvent(p) PROVE TInv'
    <2>1. /\ proc[p] \in ProcStates
          /\ proc[p].on \in Docs
          /\ proc[p].digest \in Revisions
      BY DEF TInv, TypeOK, ProcStates
    <2>2. proc' \in [Procs -> ProcStates]
      BY <1>2, <2>1, IdleStateType
         DEF RecordEvent, Goto, Return, Fault, NoFault, Enter, TInv, TypeOK,
             ProcStates, PCs, EvidencePCs, MovePCs
    <2>3. evidence' \in [Docs -> Revisions \cup {NoEvidence}]
      BY <1>2, <2>1 DEF RecordEvent, TInv, TypeOK
    <2>4. fresh' \in [Docs -> BOOLEAN]
      BY <1>2, <2>1 DEF RecordEvent, TInv, TypeOK
    <2> QED
      BY <1>2, <2>2, <2>3, <2>4
         DEF RecordEvent, TInv, TypeOK, FactsCounted, ledger, book, drive,
             bounds
  <1>3. ASSUME NEW p \in Procs, RecordLifecycle(p) PROVE TInv'
    <2>1. /\ proc[p] \in ProcStates
          /\ proc[p].on \in Docs
          /\ proc[p].digest \in Revisions
      BY DEF TInv, TypeOK, ProcStates
    <2>2. proc' \in [Procs -> ProcStates]
      BY <1>3, <2>1, IdleStateType
         DEF RecordLifecycle, Goto, Return, Fault, NoFault, Enter, TInv,
             TypeOK, ProcStates, PCs, EvidencePCs, MovePCs
    <2>3. life' \in [Docs -> Lives]
      BY <1>3, <2>1 DEF RecordLifecycle, TInv, TypeOK, Lives
    <2> QED
      BY <1>3, <2>2, <2>3
         DEF RecordLifecycle, TInv, TypeOK, FactsCounted, ledger, book, drive,
             bounds
  <1>4. ASSUME NEW p \in Procs, ResolveReviews(p) PROVE TInv'
    <2>1. /\ proc[p] \in ProcStates
          /\ proc[p].on \in Docs
          /\ proc[p].digest \in Revisions
      BY DEF TInv, TypeOK, ProcStates
    <2>2. proc' \in [Procs -> ProcStates]
      BY <1>4, <2>1, IdleStateType
         DEF ResolveReviews, Goto, Return, Fault, NoFault, Enter, TInv,
             TypeOK, ProcStates, PCs, EvidencePCs, MovePCs
    <2>3. blocked' \in [Docs -> BOOLEAN]
      BY <1>4, <2>1 DEF ResolveReviews, TInv, TypeOK
    <2> QED
      BY <1>4, <2>2, <2>3
         DEF ResolveReviews, TInv, TypeOK, FactsCounted, ledger, book, drive,
             bounds
  <1>5. ASSUME NEW p \in Procs, Plan(p) PROVE TInv'
    <2>1. /\ proc[p] \in ProcStates
          /\ proc[p].on \in Docs
          /\ proc[p].digest \in Revisions
      BY DEF TInv, TypeOK, ProcStates
    <2>2. proc' \in [Procs -> ProcStates]
      BY <1>5, <2>1, IdleStateType
         DEF Plan, Goto, Return, Fault, NoFault, Enter, TInv, TypeOK,
             ProcStates, PCs, EvidencePCs, MovePCs
    <2> QED
      BY <1>5, <2>2
         DEF Plan, TInv, TypeOK, FactsCounted, ledger, book, drive, bounds
  <1>6. ASSUME NEW p \in Procs, AcquireLease(p) PROVE TInv'
    <2>1. /\ proc[p] \in ProcStates
          /\ proc[p].on \in Docs
          /\ proc[p].digest \in Revisions
      BY DEF TInv, TypeOK, ProcStates
    <2>2. proc' \in [Procs -> ProcStates]
      BY <1>6, <2>1, IdleStateType
         DEF AcquireLease, Goto, Return, Fault, NoFault, Enter, TInv, TypeOK,
             ProcStates, PCs, EvidencePCs, MovePCs
    <2>3. [owner |-> p, live |-> TRUE] \in LeaseRows
      BY DEF LeaseRows
    <2>4. lease \in [Docs -> LeaseRows]
      BY DEF TInv, TypeOK
    <2>5. lease' \in [Docs -> LeaseRows]
      BY <1>6, <2>1, <2>3, <2>4 DEF AcquireLease
    <2> QED
      BY <1>6, <2>2, <2>5
         DEF AcquireLease, TInv, TypeOK, FactsCounted, ledger, book, drive,
             bounds
  <1>7. ASSUME NEW p \in Procs, Replan(p) PROVE TInv'
    <2>1. /\ proc[p] \in ProcStates
          /\ proc[p].on \in Docs
          /\ proc[p].digest \in Revisions
      BY DEF TInv, TypeOK, ProcStates
    <2>2. proc' \in [Procs -> ProcStates]
      BY <1>7, <2>1, IdleStateType
         DEF Replan, Goto, Return, Fault, NoFault, Enter, TInv, TypeOK,
             ProcStates, PCs, EvidencePCs, MovePCs
    <2> QED
      BY <1>7, <2>2
         DEF Replan, TInv, TypeOK, FactsCounted, ledger, book, drive, bounds
  <1>8. ASSUME NEW p \in Procs, InspectSource(p) PROVE TInv'
    <2>1. /\ proc[p] \in ProcStates
          /\ proc[p].on \in Docs
          /\ proc[p].digest \in Revisions
      BY DEF TInv, TypeOK, ProcStates
    <2>2. proc' \in [Procs -> ProcStates]
      BY <1>8, <2>1, IdleStateType
         DEF InspectSource, Goto, Return, Fault, NoFault, Enter, TInv, TypeOK,
             ProcStates, PCs, EvidencePCs, MovePCs
    <2>3. faults' \in 0..MaxFaults
      BY <1>8, <2>1 DEF InspectSource, Fault, NoFault, TInv, TypeOK
    <2> QED
      BY <1>8, <2>2, <2>3
         DEF InspectSource, Fault, NoFault, TInv, TypeOK, FactsCounted,
             ledger, book, drive, bounds
  <1>9. ASSUME NEW p \in Procs, FinalPlan(p) PROVE TInv'
    <2>1. /\ proc[p] \in ProcStates
          /\ proc[p].on \in Docs
          /\ proc[p].digest \in Revisions
      BY DEF TInv, TypeOK, ProcStates
    <2>2. proc' \in [Procs -> ProcStates]
      BY <1>9, <2>1, IdleStateType
         DEF FinalPlan, Goto, Return, Fault, NoFault, Enter, TInv, TypeOK,
             ProcStates, PCs, EvidencePCs, MovePCs
    <2> QED
      BY <1>9, <2>2
         DEF FinalPlan, TInv, TypeOK, FactsCounted, ledger, book, drive, bounds
  <1>10. ASSUME NEW p \in Procs, MoveFile(p) PROVE TInv'
    <2>1. /\ proc[p] \in ProcStates
          /\ proc[p].on \in Docs
          /\ proc[p].digest \in Revisions
      BY DEF TInv, TypeOK, ProcStates
    <2>2. proc' \in [Procs -> ProcStates]
      BY <1>10, <2>1, IdleStateType
         DEF MoveFile, Goto, Return, Fault, NoFault, Enter, TInv, TypeOK,
             ProcStates, PCs, EvidencePCs, MovePCs
    <2>3. faults' \in 0..MaxFaults
      BY <1>10, <2>1 DEF MoveFile, Fault, NoFault, TInv, TypeOK
    <2>4. folder' \in [Docs -> Folders]
      BY <1>10, <2>1 DEF MoveFile, Fault, NoFault, TInv, TypeOK, Folders
    <2> QED
      BY <1>10, <2>2, <2>3, <2>4
         DEF MoveFile, Fault, NoFault, TInv, TypeOK, FactsCounted, ledger,
             book, drive, bounds
  <1>11. ASSUME NEW p \in Procs, VerifyMove(p) PROVE TInv'
    <2>1. /\ proc[p] \in ProcStates
          /\ proc[p].on \in Docs
          /\ proc[p].digest \in Revisions
      BY DEF TInv, TypeOK, ProcStates
    <2>2. proc' \in [Procs -> ProcStates]
      BY <1>11, <2>1, IdleStateType
         DEF VerifyMove, Goto, Return, Fault, NoFault, Enter, TInv, TypeOK,
             ProcStates, PCs, EvidencePCs, MovePCs
    <2>3. faults' \in 0..MaxFaults
      BY <1>11, <2>1 DEF VerifyMove, Fault, NoFault, TInv, TypeOK
    <2> QED
      BY <1>11, <2>2, <2>3
         DEF VerifyMove, Fault, NoFault, TInv, TypeOK, FactsCounted, ledger,
             book, drive, bounds
  <1>12. ASSUME NEW p \in Procs, RestoreFile(p) PROVE TInv'
    <2>1. /\ proc[p] \in ProcStates
          /\ proc[p].on \in Docs
          /\ proc[p].digest \in Revisions
      BY DEF TInv, TypeOK, ProcStates
    <2>2. proc' \in [Procs -> ProcStates]
      BY <1>12, <2>1, IdleStateType
         DEF RestoreFile, Goto, Return, Fault, NoFault, Enter, TInv, TypeOK,
             ProcStates, PCs, EvidencePCs, MovePCs
    <2>3. faults' \in 0..MaxFaults
      BY <1>12, <2>1 DEF RestoreFile, Fault, NoFault, TInv, TypeOK
    <2>4. folder' \in [Docs -> Folders]
      BY <1>12, <2>1 DEF RestoreFile, Fault, NoFault, TInv, TypeOK, Folders
    <2> QED
      BY <1>12, <2>2, <2>3, <2>4
         DEF RestoreFile, Fault, NoFault, TInv, TypeOK, FactsCounted, ledger,
             book, drive, bounds
  <1>13. ASSUME NEW p \in Procs, CommitArchive(p) PROVE TInv'
    <2>1. /\ proc[p] \in ProcStates
          /\ proc[p].on \in Docs
          /\ proc[p].digest \in Revisions
      BY DEF TInv, TypeOK, ProcStates
    <2>2. proc' \in [Procs -> ProcStates]
      BY <1>13, <2>1, IdleStateType
         DEF CommitArchive, Goto, Return, Fault, NoFault, Enter, TInv, TypeOK,
             ProcStates, PCs, EvidencePCs, MovePCs
    <2>3. life' \in [Docs -> Lives]
      BY <1>13, <2>1 DEF CommitArchive, TInv, TypeOK, Lives
    <2> QED
      BY <1>13, <2>2, <2>3
         DEF CommitArchive, TInv, TypeOK, FactsCounted, ledger, book, drive,
             bounds
  <1>14. ASSUME NEW p \in Procs, EnsureReview(p) PROVE TInv'
    <2>1. /\ proc[p] \in ProcStates
          /\ proc[p].on \in Docs
          /\ proc[p].digest \in Revisions
      BY DEF TInv, TypeOK, ProcStates
    <2>2. proc' \in [Procs -> ProcStates]
      BY <1>14, <2>1, IdleStateType
         DEF EnsureReview, Goto, Return, Fault, NoFault, Enter, TInv, TypeOK,
             ProcStates, PCs, EvidencePCs, MovePCs
    <2>3. blocked' \in [Docs -> BOOLEAN]
      BY <1>14, <2>1 DEF EnsureReview, TInv, TypeOK
    <2> QED
      BY <1>14, <2>2, <2>3
         DEF EnsureReview, TInv, TypeOK, FactsCounted, ledger, book, drive,
             bounds
  <1>15. ASSUME NEW p \in Procs, ReleaseLease(p) PROVE TInv'
    <2>1. /\ proc[p] \in ProcStates
          /\ proc[p].on \in Docs
          /\ proc[p].digest \in Revisions
      BY DEF TInv, TypeOK, ProcStates
    <2>2. proc' \in [Procs -> ProcStates]
      BY <1>15, <2>1, IdleStateType
         DEF ReleaseLease, Goto, Return, Fault, NoFault, Enter, TInv, TypeOK,
             ProcStates, PCs, EvidencePCs, MovePCs
    <2>3. lease' \in [Docs -> LeaseRows]
      BY <1>15, <2>1 DEF ReleaseLease, TInv, TypeOK, LeaseRows, Unheld
    <2> QED
      BY <1>15, <2>2, <2>3
         DEF ReleaseLease, TInv, TypeOK, FactsCounted, ledger, book, drive,
             bounds
  <1>16. ASSUME NEW p \in Threads, NEW d \in Docs, NEW r \in Readbacks,
               Readback(p, d, r) PROVE TInv'
    <2>1. proc' \in [Procs -> ProcStates]
      BY <1>16, IdleStateType
         DEF Readback, Goto, Return, Fault, NoFault, Enter, TInv, TypeOK,
             ProcStates, PCs, EvidencePCs, MovePCs
    <2>2. proved' \in [Docs -> SUBSET Revisions]
      BY <1>16 DEF Readback, Readbacks, TInv, TypeOK
    <2> QED
      BY <1>16, <2>1, <2>2
         DEF Readback, TInv, TypeOK, FactsCounted, ledger, book, drive, bounds
  <1>17. ASSUME NEW p \in Threads, NEW d \in Docs, AskArchive(p, d) PROVE TInv'
    <2>1. proc' \in [Procs -> ProcStates]
      BY <1>17, IdleStateType
         DEF AskArchive, Goto, Return, Fault, NoFault, Enter, TInv, TypeOK,
             ProcStates, PCs, EvidencePCs, MovePCs
    <2>2. asks' \in 0..MaxAsks
      BY <1>17 DEF AskArchive, TInv, TypeOK
    <2> QED
      BY <1>17, <2>1, <2>2
         DEF AskArchive, TInv, TypeOK, FactsCounted, ledger, book, drive, bounds
  <1>18. ASSUME NEW d \in Docs, ArchiveReady(d) PROVE TInv'
    <2>1. proc' \in [Procs -> ProcStates]
      BY <1>18, IdleStateType
         DEF ArchiveReady, Goto, Return, Fault, NoFault, Enter, TInv, TypeOK,
             ProcStates, PCs, EvidencePCs, MovePCs
    <2> QED
      BY <1>18, <2>1
         DEF ArchiveReady, TInv, TypeOK, FactsCounted, ledger, book, drive,
             bounds
  <1>19. ASSUME NEW p \in Procs, Crash(p) PROVE TInv'
    <2>1. proc' \in [Procs -> ProcStates]
      BY <1>19, IdleStateType
         DEF Crash, Goto, Return, Fault, NoFault, Enter, TInv, TypeOK,
             ProcStates, PCs, EvidencePCs, MovePCs
    <2>2. crashes' \in 0..MaxCrashes
      BY <1>19 DEF Crash, TInv, TypeOK
    <2>3. lease' \in [Docs -> LeaseRows]
      BY <1>19 DEF Crash, TInv, TypeOK, LeaseRows, Unheld
    <2> QED
      BY <1>19, <2>1, <2>2, <2>3
         DEF Crash, TInv, TypeOK, FactsCounted, ledger, book, drive, bounds
  <1>20. ASSUME NEW d \in Docs, EditFacts(d) PROVE TInv'
    <2>1. edits' \in 0..MaxEdits
      BY <1>20 DEF EditFacts, TInv, TypeOK, FactsCounted, Revisions
    <2>2. facts' \in [Docs -> Revisions]
      BY <1>20 DEF EditFacts, TInv, TypeOK, FactsCounted, Revisions
    <2>3. \A e \in Docs : facts'[e] <= edits'
      BY <1>20 DEF EditFacts, TInv, TypeOK, FactsCounted, Revisions
    <2> QED
      BY <1>20, <2>1, <2>2, <2>3
         DEF EditFacts, TInv, TypeOK, FactsCounted, ledger, book, drive, bounds
  <1>21. ASSUME NEW d \in Docs, ChangeGate(d) PROVE TInv'
    <2>1. edits' \in 0..MaxEdits
      BY <1>21 DEF ChangeGate, TInv, TypeOK
    <2>2. gated' \in [Docs -> BOOLEAN]
      BY <1>21 DEF ChangeGate, TInv, TypeOK
    <2>3. \A e \in Docs : facts'[e] <= edits'
      BY <1>21 DEF ChangeGate, TInv, TypeOK, FactsCounted, Revisions
    <2> QED
      BY <1>21, <2>1, <2>2, <2>3
         DEF ChangeGate, TInv, TypeOK, FactsCounted, ledger, book, drive, bounds
  <1>22. ASSUME NEW d \in Docs, Lapse(d) PROVE TInv'
    <2>1. lapses' \in 0..MaxLapses
      BY <1>22 DEF Lapse, TInv, TypeOK
    <2>2. fresh' \in [Docs -> BOOLEAN]
      BY <1>22 DEF Lapse, TInv, TypeOK
    <2> QED
      BY <1>22, <2>1, <2>2
         DEF Lapse, TInv, TypeOK, FactsCounted, ledger, book, drive, bounds
  <1>23. ASSUME NEW d \in Docs, UserReplaces(d) PROVE TInv'
    <2>1. changes' \in 0..MaxChanges
      BY <1>23 DEF UserReplaces, TInv, TypeOK
    <2>2. original' \in [Docs -> BOOLEAN]
      BY <1>23 DEF UserReplaces, TInv, TypeOK
    <2> QED
      BY <1>23, <2>1, <2>2
         DEF UserReplaces, TInv, TypeOK, FactsCounted, ledger, book, drive,
             bounds
  <1>24. ASSUME NEW d \in Docs, NEW f \in Folders, UserMoves(d, f) PROVE TInv'
    <2>1. changes' \in 0..MaxChanges
      BY <1>24 DEF UserMoves, TInv, TypeOK
    <2>2. folder' \in [Docs -> Folders]
      BY <1>24 DEF UserMoves, TInv, TypeOK, Folders
    <2> QED
      BY <1>24, <2>1, <2>2
         DEF UserMoves, TInv, TypeOK, FactsCounted, ledger, book, drive, bounds
  <1>25. ASSUME NEW d \in Docs, Expire(d) PROVE TInv'
    <2>1. lease' \in [Docs -> LeaseRows]
      BY <1>25 DEF Expire, TInv, TypeOK, LeaseRows, Unheld
    <2> QED
      BY <1>25, <2>1
         DEF Expire, TInv, TypeOK, FactsCounted, ledger, book, drive, bounds
  <1> QED
    BY <1>1, <1>2, <1>3, <1>4, <1>5, <1>6, <1>7, <1>8, <1>9, <1>10, <1>11, <1>12, <1>13, <1>14, <1>15, <1>16, <1>17, <1>18, <1>19, <1>20, <1>21, <1>22, <1>23, <1>24, <1>25
       DEF Next, Begin, Proceed, Surroundings

\* The three facts together rest on what a step does to its process: it stays
\* clear of the steps that need proof, or goes on with the proof it has.
LEMMA ProcStep ==
    ASSUME IInv, NEW p \in Procs, UNCHANGED <<proved, evidence>>,
           \A q \in Procs \ {p} : proc'[q] = proc[q],
           \/ proc'[p].pc \notin {"event", "move", "verify", "commit"}
           \/ /\ proc[p].pc \in {"move", "verify"}
              /\ proc'[p].pc # "event"
              /\ proc'[p].on = proc[p].on
              /\ proc'[p].digest = proc[p].digest
    PROVE  EvidenceProved' /\ MoveMatchesFacts'
  BY DEF IInv, EvidenceProved, MoveMatchesFacts

\* They are kept by every step.
LEMMA EvidenceNext == IInv /\ [Next]_vars => IInv'
  <1> SUFFICES ASSUME IInv, [Next]_vars PROVE IInv'
    OBVIOUS
  <1> USE Constants
  <1>0. TInv'
    BY TypeNext DEF IInv
  <1>t. /\ proc \in [Procs -> ProcStates]
        /\ \A p \in Procs : proc[p].on \in Docs /\ proc[p].digest \in Revisions
        /\ proved \in [Docs -> SUBSET Revisions]
        /\ evidence \in [Docs -> Revisions \cup {NoEvidence}]
        /\ life \in [Docs -> Lives]
        /\ folder \in [Docs -> Folders]
        /\ facts \in [Docs -> Revisions]
        /\ changes \in Nat
    BY DEF IInv, TInv, TypeOK, ProcStates
  <1>1. CASE UNCHANGED vars
    BY <1>1, <1>0 DEF IInv, EvidenceProved, MoveMatchesFacts,
        ArchiveNeedsReadback, vars, ledger, book, drive, bounds
  <1>2. ASSUME NEW p \in Procs, RecordEvent(p) PROVE IInv'
    <2>1. EvidenceProved'
      BY <1>2, <1>t
         DEF IInv, EvidenceProved, RecordEvent, ledger, bounds, Goto, Return,
             Enter, Idle, IdleState, Fault, NoFault
    <2>2. MoveMatchesFacts'
      BY <1>2, <1>t
         DEF IInv, EvidenceProved, MoveMatchesFacts, RecordEvent, ledger,
             bounds, Goto, Return, Enter, Idle, IdleState, Fault, NoFault
    <2>3. ArchiveNeedsReadback'
      BY <1>2, <1>t
         DEF IInv, MoveMatchesFacts, ArchiveNeedsReadback, RecordEvent,
             ledger, drive, bounds
    <2> QED
      BY <1>0, <2>1, <2>2, <2>3 DEF IInv
  <1>3. ASSUME NEW p \in Procs, RecordLifecycle(p) PROVE IInv'
    <2>1. EvidenceProved'
      BY <1>3, <1>t
         DEF IInv, EvidenceProved, RecordLifecycle, ledger, bounds, Goto,
             Return, Enter, Idle, IdleState, Fault, NoFault
    <2>2. MoveMatchesFacts'
      BY <1>3, <1>t
         DEF IInv, EvidenceProved, MoveMatchesFacts, RecordLifecycle, ledger,
             bounds, Goto, Return, Enter, Idle, IdleState, Fault, NoFault
    <2>3. ArchiveNeedsReadback'
      BY <1>3, <1>t
         DEF IInv, MoveMatchesFacts, ArchiveNeedsReadback, RecordLifecycle,
             ledger, drive, bounds
    <2> QED
      BY <1>0, <2>1, <2>2, <2>3 DEF IInv
  <1>4. ASSUME NEW p \in Procs, ResolveReviews(p) PROVE IInv'
    <2>1. EvidenceProved'
      BY <1>4, <1>t
         DEF IInv, EvidenceProved, ResolveReviews, ledger, bounds, Goto,
             Return, Enter, Idle, IdleState, Fault, NoFault
    <2>2. MoveMatchesFacts'
      BY <1>4, <1>t
         DEF IInv, EvidenceProved, MoveMatchesFacts, ResolveReviews, ledger,
             bounds, Goto, Return, Enter, Idle, IdleState, Fault, NoFault
    <2>3. ArchiveNeedsReadback'
      BY <1>4, <1>t
         DEF IInv, MoveMatchesFacts, ArchiveNeedsReadback, ResolveReviews,
             ledger, drive, bounds
    <2> QED
      BY <1>0, <2>1, <2>2, <2>3 DEF IInv
  <1>5. ASSUME NEW p \in Procs, Plan(p) PROVE IInv'
    <2>1. \A q \in Procs \ {p} : proc'[q] = proc[q]
      BY <1>5, <1>t DEF Plan, Goto, Return
    <2>2. proc'[p].pc \notin {"event", "move", "verify", "commit"}
      BY <1>5, <1>t DEF Plan, Goto, Return, IdleState, ProcStates
    <2>3. UNCHANGED <<proved, evidence>>
      BY <1>5 DEF Plan, ledger
    <2>4. EvidenceProved' /\ MoveMatchesFacts'
      BY <1>5, <2>1, <2>2, <2>3, ProcStep
    <2>5. ArchiveNeedsReadback'
      BY <1>5, <1>t
         DEF IInv, MoveMatchesFacts, ArchiveNeedsReadback, Plan, ledger,
             drive, bounds
    <2> QED
      BY <1>0, <2>4, <2>5 DEF IInv
  <1>6. ASSUME NEW p \in Procs, AcquireLease(p) PROVE IInv'
    <2>1. \A q \in Procs \ {p} : proc'[q] = proc[q]
      BY <1>6, <1>t DEF AcquireLease, Goto, Return
    <2>2. proc'[p].pc \notin {"event", "move", "verify", "commit"}
      BY <1>6, <1>t DEF AcquireLease, Goto, Return, IdleState, ProcStates
    <2>3. UNCHANGED <<proved, evidence>>
      BY <1>6 DEF AcquireLease, ledger
    <2>4. EvidenceProved' /\ MoveMatchesFacts'
      BY <1>6, <2>1, <2>2, <2>3, ProcStep
    <2>5. ArchiveNeedsReadback'
      BY <1>6, <1>t
         DEF IInv, MoveMatchesFacts, ArchiveNeedsReadback, AcquireLease,
             ledger, drive, bounds
    <2> QED
      BY <1>0, <2>4, <2>5 DEF IInv
  <1>7. ASSUME NEW p \in Procs, Replan(p) PROVE IInv'
    <2>1. EvidenceProved'
      BY <1>7, <1>t
         DEF IInv, EvidenceProved, Replan, ledger, bounds, Goto, Return,
             Enter, Idle, IdleState, Fault, NoFault
    <2>2. MoveMatchesFacts'
      BY <1>7, <1>t
         DEF IInv, EvidenceProved, MoveMatchesFacts, Replan, ledger, bounds,
             Goto, Return, Enter, Idle, IdleState, Fault, NoFault
    <2>3. ArchiveNeedsReadback'
      BY <1>7, <1>t
         DEF IInv, MoveMatchesFacts, ArchiveNeedsReadback, Replan, ledger,
             drive, bounds
    <2> QED
      BY <1>0, <2>1, <2>2, <2>3 DEF IInv
  <1>8. ASSUME NEW p \in Procs, InspectSource(p) PROVE IInv'
    <2>1. \A q \in Procs \ {p} : proc'[q] = proc[q]
      BY <1>8, <1>t DEF InspectSource, Goto, Return
    <2>2. proc'[p].pc \notin {"event", "move", "verify", "commit"}
      BY <1>8, <1>t DEF InspectSource, Goto, Return, IdleState, ProcStates
    <2>3. UNCHANGED <<proved, evidence>>
      BY <1>8 DEF InspectSource, ledger
    <2>4. EvidenceProved' /\ MoveMatchesFacts'
      BY <1>8, <2>1, <2>2, <2>3, ProcStep
    <2>5. ArchiveNeedsReadback'
      BY <1>8, <1>t
         DEF IInv, MoveMatchesFacts, ArchiveNeedsReadback, InspectSource,
             ledger, drive, bounds
    <2> QED
      BY <1>0, <2>4, <2>5 DEF IInv
  <1>9. ASSUME NEW p \in Procs, FinalPlan(p) PROVE IInv'
    <2>1. EvidenceProved'
      BY <1>9, <1>t
         DEF IInv, EvidenceProved, FinalPlan, ledger, bounds, Goto, Return,
             Enter, Idle, IdleState, Fault, NoFault, CanArchive,
             EvidenceCurrent, NoEvidence
    <2>2. MoveMatchesFacts'
      BY <1>9, <1>t
         DEF IInv, EvidenceProved, MoveMatchesFacts, FinalPlan, ledger,
             bounds, Goto, Return, Enter, Idle, IdleState, Fault, NoFault,
             CanArchive, EvidenceCurrent, NoEvidence
    <2>3. ArchiveNeedsReadback'
      BY <1>9, <1>t
         DEF IInv, MoveMatchesFacts, ArchiveNeedsReadback, FinalPlan, ledger,
             drive, bounds
    <2> QED
      BY <1>0, <2>1, <2>2, <2>3 DEF IInv
  <1>10. ASSUME NEW p \in Procs, MoveFile(p) PROVE IInv'
    <2>1. \A q \in Procs \ {p} : proc'[q] = proc[q]
      BY <1>10, <1>t DEF MoveFile, Goto, Return
    <2>2. \/ proc'[p].pc \notin {"event", "move", "verify", "commit"}
             \/ /\ proc'[p].pc # "event"
                /\ proc'[p].on = proc[p].on
                /\ proc'[p].digest = proc[p].digest
      BY <1>10, <1>t DEF MoveFile, Goto, Return, IdleState, ProcStates
    <2>3. UNCHANGED <<proved, evidence>>
      BY <1>10 DEF MoveFile, ledger
    <2>4. EvidenceProved' /\ MoveMatchesFacts'
      BY <1>10, <2>1, <2>2, <2>3, ProcStep DEF MoveFile
    <2>5. ArchiveNeedsReadback'
      BY <1>10, <1>t
         DEF IInv, MoveMatchesFacts, ArchiveNeedsReadback, MoveFile, ledger,
             drive, bounds, Fault, NoFault
    <2> QED
      BY <1>0, <2>4, <2>5 DEF IInv
  <1>11. ASSUME NEW p \in Procs, VerifyMove(p) PROVE IInv'
    <2>1. \A q \in Procs \ {p} : proc'[q] = proc[q]
      BY <1>11, <1>t DEF VerifyMove, Goto, Return
    <2>2. \/ proc'[p].pc \notin {"event", "move", "verify", "commit"}
             \/ /\ proc'[p].pc # "event"
                /\ proc'[p].on = proc[p].on
                /\ proc'[p].digest = proc[p].digest
      BY <1>11, <1>t DEF VerifyMove, Goto, Return, IdleState, ProcStates
    <2>3. UNCHANGED <<proved, evidence>>
      BY <1>11 DEF VerifyMove, ledger
    <2>4. EvidenceProved' /\ MoveMatchesFacts'
      BY <1>11, <2>1, <2>2, <2>3, ProcStep DEF VerifyMove
    <2>5. ArchiveNeedsReadback'
      BY <1>11, <1>t
         DEF IInv, MoveMatchesFacts, ArchiveNeedsReadback, VerifyMove, ledger,
             drive, bounds
    <2> QED
      BY <1>0, <2>4, <2>5 DEF IInv
  <1>12. ASSUME NEW p \in Procs, RestoreFile(p) PROVE IInv'
    <2>1. EvidenceProved'
      BY <1>12, <1>t
         DEF IInv, EvidenceProved, RestoreFile, ledger, bounds, Goto, Return,
             Enter, Idle, IdleState, Fault, NoFault
    <2>2. MoveMatchesFacts'
      BY <1>12, <1>t
         DEF IInv, EvidenceProved, MoveMatchesFacts, RestoreFile, ledger,
             bounds, Goto, Return, Enter, Idle, IdleState, Fault, NoFault
    <2>3. ArchiveNeedsReadback'
      BY <1>12, <1>t
         DEF IInv, MoveMatchesFacts, ArchiveNeedsReadback, RestoreFile,
             ledger, drive, bounds, Fault, NoFault
    <2> QED
      BY <1>0, <2>1, <2>2, <2>3 DEF IInv
  <1>13. ASSUME NEW p \in Procs, CommitArchive(p) PROVE IInv'
    <2>1. EvidenceProved'
      BY <1>13, <1>t
         DEF IInv, EvidenceProved, CommitArchive, ledger, bounds, Goto,
             Return, Enter, Idle, IdleState, Fault, NoFault
    <2>2. MoveMatchesFacts'
      BY <1>13, <1>t
         DEF IInv, EvidenceProved, MoveMatchesFacts, CommitArchive, ledger,
             bounds, Goto, Return, Enter, Idle, IdleState, Fault, NoFault
    <2>3. ArchiveNeedsReadback'
      BY <1>13, <1>t
         DEF IInv, MoveMatchesFacts, ArchiveNeedsReadback, CommitArchive,
             ledger, drive, bounds
    <2> QED
      BY <1>0, <2>1, <2>2, <2>3 DEF IInv
  <1>14. ASSUME NEW p \in Procs, EnsureReview(p) PROVE IInv'
    <2>1. \A q \in Procs \ {p} : proc'[q] = proc[q]
      BY <1>14, <1>t DEF EnsureReview, Goto, Return
    <2>2. proc'[p].pc \notin {"event", "move", "verify", "commit"}
      BY <1>14, <1>t DEF EnsureReview, Goto, Return, IdleState, ProcStates
    <2>3. UNCHANGED <<proved, evidence>>
      BY <1>14 DEF EnsureReview, ledger
    <2>4. EvidenceProved' /\ MoveMatchesFacts'
      BY <1>14, <2>1, <2>2, <2>3, ProcStep
    <2>5. ArchiveNeedsReadback'
      BY <1>14, <1>t
         DEF IInv, MoveMatchesFacts, ArchiveNeedsReadback, EnsureReview,
             ledger, drive, bounds
    <2> QED
      BY <1>0, <2>4, <2>5 DEF IInv
  <1>15. ASSUME NEW p \in Procs, ReleaseLease(p) PROVE IInv'
    <2>1. EvidenceProved'
      BY <1>15, <1>t
         DEF IInv, EvidenceProved, ReleaseLease, ledger, bounds, Goto, Return,
             Enter, Idle, IdleState, Fault, NoFault
    <2>2. MoveMatchesFacts'
      BY <1>15, <1>t
         DEF IInv, EvidenceProved, MoveMatchesFacts, ReleaseLease, ledger,
             bounds, Goto, Return, Enter, Idle, IdleState, Fault, NoFault
    <2>3. ArchiveNeedsReadback'
      BY <1>15, <1>t
         DEF IInv, MoveMatchesFacts, ArchiveNeedsReadback, ReleaseLease,
             ledger, drive, bounds
    <2> QED
      BY <1>0, <2>1, <2>2, <2>3 DEF IInv
  <1>16. ASSUME NEW p \in Threads, NEW d \in Docs, NEW r \in Readbacks,
               Readback(p, d, r) PROVE IInv'
    <2>1. EvidenceProved'
      BY <1>16, <1>t
         DEF IInv, EvidenceProved, Readback, ledger, bounds, Goto, Return,
             Enter, Idle, IdleState, Fault, NoFault, EvidenceHolds
    <2>2. MoveMatchesFacts'
      BY <1>16, <1>t
         DEF IInv, EvidenceProved, MoveMatchesFacts, Readback, ledger, bounds,
             Goto, Return, Enter, Idle, IdleState, Fault, NoFault,
             EvidenceHolds
    <2>3. ArchiveNeedsReadback'
      BY <1>16, <1>t
         DEF IInv, MoveMatchesFacts, ArchiveNeedsReadback, Readback, ledger,
             drive, bounds
    <2> QED
      BY <1>0, <2>1, <2>2, <2>3 DEF IInv
  <1>17. ASSUME NEW p \in Threads, NEW d \in Docs, AskArchive(p, d) PROVE IInv'
    <2>1. EvidenceProved'
      BY <1>17, <1>t
         DEF IInv, EvidenceProved, AskArchive, ledger, bounds, Goto, Return,
             Enter, Idle, IdleState, Fault, NoFault
    <2>2. MoveMatchesFacts'
      BY <1>17, <1>t
         DEF IInv, EvidenceProved, MoveMatchesFacts, AskArchive, ledger,
             bounds, Goto, Return, Enter, Idle, IdleState, Fault, NoFault
    <2>3. ArchiveNeedsReadback'
      BY <1>17, <1>t
         DEF IInv, MoveMatchesFacts, ArchiveNeedsReadback, AskArchive, ledger,
             drive, bounds
    <2> QED
      BY <1>0, <2>1, <2>2, <2>3 DEF IInv
  <1>18. ASSUME NEW d \in Docs, ArchiveReady(d) PROVE IInv'
    <2>1. EvidenceProved'
      BY <1>18, <1>t
         DEF IInv, EvidenceProved, ArchiveReady, ledger, bounds, Goto, Return,
             Enter, Idle, IdleState, Fault, NoFault
    <2>2. MoveMatchesFacts'
      BY <1>18, <1>t
         DEF IInv, EvidenceProved, MoveMatchesFacts, ArchiveReady, ledger,
             bounds, Goto, Return, Enter, Idle, IdleState, Fault, NoFault
    <2>3. ArchiveNeedsReadback'
      BY <1>18, <1>t
         DEF IInv, MoveMatchesFacts, ArchiveNeedsReadback, ArchiveReady,
             ledger, drive, bounds
    <2> QED
      BY <1>0, <2>1, <2>2, <2>3 DEF IInv
  <1>19. ASSUME NEW p \in Procs, Crash(p) PROVE IInv'
    <2>1. EvidenceProved'
      BY <1>19, <1>t
         DEF IInv, EvidenceProved, Crash, ledger, bounds, Goto, Return, Enter,
             Idle, IdleState, Fault, NoFault
    <2>2. MoveMatchesFacts'
      BY <1>19, <1>t
         DEF IInv, EvidenceProved, MoveMatchesFacts, Crash, ledger, bounds,
             Goto, Return, Enter, Idle, IdleState, Fault, NoFault
    <2>3. ArchiveNeedsReadback'
      BY <1>19, <1>t
         DEF IInv, MoveMatchesFacts, ArchiveNeedsReadback, Crash, ledger,
             drive, bounds
    <2> QED
      BY <1>0, <2>1, <2>2, <2>3 DEF IInv
  <1>20. ASSUME NEW d \in Docs, EditFacts(d) PROVE IInv'
    BY <1>20, <1>0, <1>t
       DEF IInv, EvidenceProved, MoveMatchesFacts, ArchiveNeedsReadback,
           EditFacts, ledger, drive, bounds
  <1>21. ASSUME NEW d \in Docs, ChangeGate(d) PROVE IInv'
    BY <1>21, <1>0, <1>t
       DEF IInv, EvidenceProved, MoveMatchesFacts, ArchiveNeedsReadback,
           ChangeGate, ledger, drive, bounds
  <1>22. ASSUME NEW d \in Docs, Lapse(d) PROVE IInv'
    BY <1>22, <1>0, <1>t
       DEF IInv, EvidenceProved, MoveMatchesFacts, ArchiveNeedsReadback,
           Lapse, ledger, drive, bounds
  <1>23. ASSUME NEW d \in Docs, UserReplaces(d) PROVE IInv'
    BY <1>23, <1>0, <1>t
       DEF IInv, EvidenceProved, MoveMatchesFacts, ArchiveNeedsReadback,
           UserReplaces, ledger, drive, bounds
  <1>24. ASSUME NEW d \in Docs, NEW f \in Folders, UserMoves(d, f) PROVE IInv'
    BY <1>24, <1>0, <1>t
       DEF IInv, EvidenceProved, MoveMatchesFacts, ArchiveNeedsReadback,
           UserMoves, ledger, drive, bounds
  <1>25. ASSUME NEW d \in Docs, Expire(d) PROVE IInv'
    BY <1>25, <1>0, <1>t
       DEF IInv, EvidenceProved, MoveMatchesFacts, ArchiveNeedsReadback,
           Expire, ledger, drive, bounds
  <1> QED
    BY <1>1, <1>2, <1>3, <1>4, <1>5, <1>6, <1>7, <1>8, <1>9, <1>10, <1>11,
        <1>12, <1>13, <1>14, <1>15, <1>16, <1>17, <1>18, <1>19, <1>20, <1>21,
        <1>22, <1>23, <1>24, <1>25
       DEF Next, Begin, Proceed, Surroundings

\* Every variable keeps its type and every bound is kept, for all constants.
THEOREM TypeCorrect == Spec => []TypeOK
  <1>1. TInv => TypeOK
    BY DEF TInv
  <1> QED
    BY <1>1, TypeInit, TypeNext, PTL DEF Spec

LEMMA EvidenceInvariant == Spec => []IInv
  <1>1. Init => IInv
    <2> SUFFICES ASSUME Init PROVE IInv
      OBVIOUS
    <2>1. /\ EvidenceProved
          /\ MoveMatchesFacts
          /\ ArchiveNeedsReadback
      BY IdleStateType DEF Init, EvidenceProved, MoveMatchesFacts,
          ArchiveNeedsReadback, IdleState
    <2> QED
      BY <2>1, TypeInit DEF IInv
  <1> QED
    BY <1>1, EvidenceNext, PTL DEF Spec

\* A source leaves the intake folder by FAB's hand, and is called archived,
\* only after the bytes of its Wave attachment came back and matched.
THEOREM ArchiveProved == Spec => []ArchiveNeedsReadback
  <1>1. IInv => ArchiveNeedsReadback
    BY DEF IInv
  <1> QED
    BY <1>1, EvidenceInvariant, PTL

\* Whatever readbacks and corrections race, a move rests on a readback of the
\* facts that its final plan has seen.
THEOREM MoveProved == Spec => []MoveMatchesFacts
  <1>1. IInv => MoveMatchesFacts
    BY DEF IInv
  <1> QED
    BY <1>1, EvidenceInvariant, PTL

(***************************************************************************)
(* The archive lease.                                                      *)
(***************************************************************************)
HeldPCs == MovePCs \cup {"replan", "release"}

\* A step that leaves the leases alone either keeps hold, or lets its process
\* be one that holds nothing.
LEMMA HolderStep ==
    ASSUME HoldersOwn, NEW p \in Procs, UNCHANGED lease,
           \A q \in Procs \ {p} : proc'[q] = proc[q],
           \/ /\ proc'[p].pc \notin HeldPCs
              /\ ~ proc'[p].held
           \/ /\ proc'[p].held = proc[p].held
              /\ proc'[p].on = proc[p].on
              /\ proc'[p].pc \in HeldPCs => proc[p].held
    PROVE  HoldersOwn'
  BY DEF HoldersOwn, HeldPCs

LEMMA HoldersNext ==
    ASSUME ~ Outlived, TInv, HoldersOwn, [Next]_vars
    PROVE  HoldersOwn'
  <1> USE Constants
  <1>t. /\ proc \in [Procs -> ProcStates]
        /\ \A p \in Procs : proc[p].on \in Docs
        /\ lease \in [Docs -> LeaseRows]
    BY DEF TInv, TypeOK, ProcStates
  <1>1. CASE UNCHANGED vars
    BY <1>1 DEF HoldersOwn, vars
  <1>2. ASSUME NEW p \in Procs, RecordEvent(p) PROVE HoldersOwn'
    <2>1. \A q \in Procs \ {p} : proc'[q] = proc[q]
      BY <1>2, <1>t DEF RecordEvent, Goto, Return, Enter
    <2>2. \/ /\ proc'[p].pc \notin HeldPCs
             /\ ~ proc'[p].held
          \/ /\ proc'[p].held = proc[p].held
             /\ proc'[p].on = proc[p].on
             /\ proc'[p].pc \in HeldPCs => proc[p].held
      BY <1>2, <1>t
         DEF RecordEvent, HoldersOwn, Goto, Return, Enter, IdleState,
             ProcStates, HeldPCs, MovePCs
    <2> QED
      BY <1>2, <2>1, <2>2, HolderStep DEF RecordEvent
  <1>3. ASSUME NEW p \in Procs, RecordLifecycle(p) PROVE HoldersOwn'
    <2>1. \A q \in Procs \ {p} : proc'[q] = proc[q]
      BY <1>3, <1>t DEF RecordLifecycle, Goto, Return, Enter
    <2>2. \/ /\ proc'[p].pc \notin HeldPCs
             /\ ~ proc'[p].held
          \/ /\ proc'[p].held = proc[p].held
             /\ proc'[p].on = proc[p].on
             /\ proc'[p].pc \in HeldPCs => proc[p].held
      BY <1>3, <1>t
         DEF RecordLifecycle, HoldersOwn, Goto, Return, Enter, IdleState,
             ProcStates, HeldPCs, MovePCs
    <2> QED
      BY <1>3, <2>1, <2>2, HolderStep DEF RecordLifecycle
  <1>4. ASSUME NEW p \in Procs, ResolveReviews(p) PROVE HoldersOwn'
    <2>1. \A q \in Procs \ {p} : proc'[q] = proc[q]
      BY <1>4, <1>t DEF ResolveReviews, Goto, Return, Enter
    <2>2. \/ /\ proc'[p].pc \notin HeldPCs
             /\ ~ proc'[p].held
          \/ /\ proc'[p].held = proc[p].held
             /\ proc'[p].on = proc[p].on
             /\ proc'[p].pc \in HeldPCs => proc[p].held
      BY <1>4, <1>t
         DEF ResolveReviews, HoldersOwn, Goto, Return, Enter, IdleState,
             ProcStates, HeldPCs, MovePCs
    <2> QED
      BY <1>4, <2>1, <2>2, HolderStep DEF ResolveReviews
  <1>5. ASSUME NEW p \in Procs, Plan(p) PROVE HoldersOwn'
    <2>1. \A q \in Procs \ {p} : proc'[q] = proc[q]
      BY <1>5, <1>t DEF Plan, Goto, Return, Enter
    <2>2. \/ /\ proc'[p].pc \notin HeldPCs
             /\ ~ proc'[p].held
          \/ /\ proc'[p].held = proc[p].held
             /\ proc'[p].on = proc[p].on
             /\ proc'[p].pc \in HeldPCs => proc[p].held
      BY <1>5, <1>t
         DEF Plan, HoldersOwn, Goto, Return, Enter, IdleState, ProcStates,
             HeldPCs, MovePCs
    <2> QED
      BY <1>5, <2>1, <2>2, HolderStep DEF Plan
  <1>6. ASSUME NEW p \in Procs, AcquireLease(p) PROVE HoldersOwn'
    <2> DEFINE d == proc[p].on
    <2>1. CASE Acquirable(d)
      <3>1. /\ lease' = [lease EXCEPT ![d] = [owner |-> p, live |-> TRUE]]
            /\ proc' = [proc EXCEPT ![p].pc = "replan", ![p].held = TRUE]
        BY <1>6, <2>1 DEF AcquireLease
      <3>2. \A q \in Procs : proc[q].held => proc[q].on # d
        BY <2>1, <1>t DEF Acquirable, HoldersOwn
      <3>3. /\ proc'[p].held
            /\ proc'[p].on = d
            /\ lease'[d].owner = p
            /\ lease'[d].live
            /\ \A q \in Procs \ {p} : proc'[q] = proc[q]
            /\ \A e \in Docs \ {d} : lease'[e] = lease[e]
        BY <3>1, <1>t DEF ProcStates
      <3> QED
        BY <3>2, <3>3, <1>t DEF HoldersOwn
    <2>2. CASE ~ Acquirable(d)
      BY <1>6, <2>2, <1>t, HolderStep
         DEF AcquireLease, Return, IdleState, HeldPCs, MovePCs
    <2> QED
      BY <2>1, <2>2
  <1>7. ASSUME NEW p \in Procs, Replan(p) PROVE HoldersOwn'
    <2>1. \A q \in Procs \ {p} : proc'[q] = proc[q]
      BY <1>7, <1>t DEF Replan, Goto, Return, Enter
    <2>2. \/ /\ proc'[p].pc \notin HeldPCs
             /\ ~ proc'[p].held
          \/ /\ proc'[p].held = proc[p].held
             /\ proc'[p].on = proc[p].on
             /\ proc'[p].pc \in HeldPCs => proc[p].held
      BY <1>7, <1>t
         DEF Replan, HoldersOwn, Goto, Return, Enter, IdleState, ProcStates,
             HeldPCs, MovePCs
    <2> QED
      BY <1>7, <2>1, <2>2, HolderStep DEF Replan
  <1>8. ASSUME NEW p \in Procs, InspectSource(p) PROVE HoldersOwn'
    <2>1. \A q \in Procs \ {p} : proc'[q] = proc[q]
      BY <1>8, <1>t DEF InspectSource, Goto, Return, Enter
    <2>2. \/ /\ proc'[p].pc \notin HeldPCs
             /\ ~ proc'[p].held
          \/ /\ proc'[p].held = proc[p].held
             /\ proc'[p].on = proc[p].on
             /\ proc'[p].pc \in HeldPCs => proc[p].held
      BY <1>8, <1>t
         DEF InspectSource, HoldersOwn, Goto, Return, Enter, IdleState,
             ProcStates, HeldPCs, MovePCs
    <2> QED
      BY <1>8, <2>1, <2>2, HolderStep DEF InspectSource
  <1>9. ASSUME NEW p \in Procs, FinalPlan(p) PROVE HoldersOwn'
    <2>1. \A q \in Procs \ {p} : proc'[q] = proc[q]
      BY <1>9, <1>t DEF FinalPlan, Goto, Return, Enter
    <2>2. \/ /\ proc'[p].pc \notin HeldPCs
             /\ ~ proc'[p].held
          \/ /\ proc'[p].held = proc[p].held
             /\ proc'[p].on = proc[p].on
             /\ proc'[p].pc \in HeldPCs => proc[p].held
      BY <1>9, <1>t
         DEF FinalPlan, HoldersOwn, Goto, Return, Enter, IdleState,
             ProcStates, HeldPCs, MovePCs
    <2> QED
      BY <1>9, <2>1, <2>2, HolderStep DEF FinalPlan
  <1>10. ASSUME NEW p \in Procs, MoveFile(p) PROVE HoldersOwn'
    <2>1. \A q \in Procs \ {p} : proc'[q] = proc[q]
      BY <1>10, <1>t DEF MoveFile, Goto, Return, Enter
    <2>2. \/ /\ proc'[p].pc \notin HeldPCs
             /\ ~ proc'[p].held
          \/ /\ proc'[p].held = proc[p].held
             /\ proc'[p].on = proc[p].on
             /\ proc'[p].pc \in HeldPCs => proc[p].held
      BY <1>10, <1>t
         DEF MoveFile, HoldersOwn, Goto, Return, Enter, IdleState, ProcStates,
             HeldPCs, MovePCs
    <2> QED
      BY <1>10, <2>1, <2>2, HolderStep DEF MoveFile
  <1>11. ASSUME NEW p \in Procs, VerifyMove(p) PROVE HoldersOwn'
    <2>1. \A q \in Procs \ {p} : proc'[q] = proc[q]
      BY <1>11, <1>t DEF VerifyMove, Goto, Return, Enter
    <2>2. \/ /\ proc'[p].pc \notin HeldPCs
             /\ ~ proc'[p].held
          \/ /\ proc'[p].held = proc[p].held
             /\ proc'[p].on = proc[p].on
             /\ proc'[p].pc \in HeldPCs => proc[p].held
      BY <1>11, <1>t
         DEF VerifyMove, HoldersOwn, Goto, Return, Enter, IdleState,
             ProcStates, HeldPCs, MovePCs
    <2> QED
      BY <1>11, <2>1, <2>2, HolderStep DEF VerifyMove
  <1>12. ASSUME NEW p \in Procs, RestoreFile(p) PROVE HoldersOwn'
    <2>1. \A q \in Procs \ {p} : proc'[q] = proc[q]
      BY <1>12, <1>t DEF RestoreFile, Goto, Return, Enter
    <2>2. \/ /\ proc'[p].pc \notin HeldPCs
             /\ ~ proc'[p].held
          \/ /\ proc'[p].held = proc[p].held
             /\ proc'[p].on = proc[p].on
             /\ proc'[p].pc \in HeldPCs => proc[p].held
      BY <1>12, <1>t
         DEF RestoreFile, HoldersOwn, Goto, Return, Enter, IdleState,
             ProcStates, HeldPCs, MovePCs
    <2> QED
      BY <1>12, <2>1, <2>2, HolderStep DEF RestoreFile
  <1>13. ASSUME NEW p \in Procs, CommitArchive(p) PROVE HoldersOwn'
    <2>1. \A q \in Procs \ {p} : proc'[q] = proc[q]
      BY <1>13, <1>t DEF CommitArchive, Goto, Return, Enter
    <2>2. \/ /\ proc'[p].pc \notin HeldPCs
             /\ ~ proc'[p].held
          \/ /\ proc'[p].held = proc[p].held
             /\ proc'[p].on = proc[p].on
             /\ proc'[p].pc \in HeldPCs => proc[p].held
      BY <1>13, <1>t
         DEF CommitArchive, HoldersOwn, Goto, Return, Enter, IdleState,
             ProcStates, HeldPCs, MovePCs
    <2> QED
      BY <1>13, <2>1, <2>2, HolderStep DEF CommitArchive
  <1>14. ASSUME NEW p \in Procs, EnsureReview(p) PROVE HoldersOwn'
    <2>1. \A q \in Procs \ {p} : proc'[q] = proc[q]
      BY <1>14, <1>t DEF EnsureReview, Goto, Return, Enter
    <2>2. \/ /\ proc'[p].pc \notin HeldPCs
             /\ ~ proc'[p].held
          \/ /\ proc'[p].held = proc[p].held
             /\ proc'[p].on = proc[p].on
             /\ proc'[p].pc \in HeldPCs => proc[p].held
      BY <1>14, <1>t
         DEF EnsureReview, HoldersOwn, Goto, Return, Enter, IdleState,
             ProcStates, HeldPCs, MovePCs
    <2> QED
      BY <1>14, <2>1, <2>2, HolderStep DEF EnsureReview
  <1>15. ASSUME NEW p \in Procs, ReleaseLease(p) PROVE HoldersOwn'
    <2>1. /\ ~ proc'[p].held
          /\ proc'[p].pc = "idle"
          /\ \A q \in Procs \ {p} : proc'[q] = proc[q]
      BY <1>15, <1>t DEF ReleaseLease, Return, IdleState
    <2>2. \A e \in Docs : lease[e].owner # p => lease'[e] = lease[e]
      BY <1>15, <1>t DEF ReleaseLease
    <2> QED
      BY <2>1, <2>2, <1>t DEF HoldersOwn, MovePCs
  <1>16. ASSUME NEW p \in Threads, NEW d \in Docs, NEW r \in Readbacks,
               Readback(p, d, r) PROVE HoldersOwn'
    <2>1. \A q \in Procs \ {p} : proc'[q] = proc[q]
      BY <1>16, <1>t DEF Readback, Goto, Return, Enter
    <2>2. \/ /\ proc'[p].pc \notin HeldPCs
             /\ ~ proc'[p].held
          \/ /\ proc'[p].held = proc[p].held
             /\ proc'[p].on = proc[p].on
             /\ proc'[p].pc \in HeldPCs => proc[p].held
      BY <1>16, <1>t
         DEF Readback, HoldersOwn, Goto, Return, Enter, IdleState, ProcStates,
             HeldPCs, MovePCs
    <2> QED
      BY <1>16, <2>1, <2>2, HolderStep DEF Readback
  <1>17. ASSUME NEW p \in Threads, NEW d \in Docs, AskArchive(p, d) PROVE HoldersOwn'
    <2>1. \A q \in Procs \ {p} : proc'[q] = proc[q]
      BY <1>17, <1>t DEF AskArchive, Goto, Return, Enter
    <2>2. \/ /\ proc'[p].pc \notin HeldPCs
             /\ ~ proc'[p].held
          \/ /\ proc'[p].held = proc[p].held
             /\ proc'[p].on = proc[p].on
             /\ proc'[p].pc \in HeldPCs => proc[p].held
      BY <1>17, <1>t
         DEF AskArchive, HoldersOwn, Goto, Return, Enter, IdleState,
             ProcStates, HeldPCs, MovePCs
    <2> QED
      BY <1>17, <2>1, <2>2, HolderStep DEF AskArchive
  <1>18. ASSUME NEW d \in Docs, ArchiveReady(d) PROVE HoldersOwn'
    <2>1. \A q \in Procs \ {Worker} : proc'[q] = proc[q]
      BY <1>18, <1>t DEF ArchiveReady, Goto, Return, Enter
    <2>2. \/ /\ proc'[Worker].pc \notin HeldPCs
             /\ ~ proc'[Worker].held
          \/ /\ proc'[Worker].held = proc[Worker].held
             /\ proc'[Worker].on = proc[Worker].on
             /\ proc'[Worker].pc \in HeldPCs => proc[Worker].held
      BY <1>18, <1>t
         DEF ArchiveReady, HoldersOwn, Goto, Return, Enter, IdleState,
             ProcStates, HeldPCs, MovePCs
    <2> QED
      BY <1>18, <2>1, <2>2, HolderStep DEF ArchiveReady
  <1>19. ASSUME NEW p \in Procs, Crash(p) PROVE HoldersOwn'
    <2>1. /\ ~ proc'[p].held
          /\ proc'[p].pc = "idle"
          /\ \A q \in Procs \ {p} : proc'[q] = proc[q]
      BY <1>19, <1>t DEF Crash, Return, IdleState
    <2>2. \A e \in Docs : lease[e].owner # p => lease'[e] = lease[e]
      BY <1>19, <1>t DEF Crash
    <2> QED
      BY <2>1, <2>2, <1>t DEF HoldersOwn, MovePCs
  <1>20. ASSUME NEW d \in Docs, EditFacts(d) PROVE HoldersOwn'
    BY <1>20 DEF EditFacts, HoldersOwn
  <1>21. ASSUME NEW d \in Docs, ChangeGate(d) PROVE HoldersOwn'
    BY <1>21 DEF ChangeGate, HoldersOwn
  <1>22. ASSUME NEW d \in Docs, Lapse(d) PROVE HoldersOwn'
    BY <1>22 DEF Lapse, HoldersOwn
  <1>23. ASSUME NEW d \in Docs, UserReplaces(d) PROVE HoldersOwn'
    BY <1>23 DEF UserReplaces, HoldersOwn
  <1>24. ASSUME NEW d \in Docs, NEW f \in Folders, UserMoves(d, f) PROVE HoldersOwn'
    BY <1>24 DEF UserMoves, HoldersOwn
  <1>25. ASSUME NEW d \in Docs, Expire(d) PROVE HoldersOwn'
    <2>1. lease[d].owner = "dead"
      BY <1>25 DEF Expire
    <2>2. \A e \in Docs \ {d} : lease'[e] = lease[e]
      BY <1>25, <1>t DEF Expire
    <2> QED
      BY <1>25, <2>1, <2>2, <1>t DEF Expire, HoldersOwn
  <1> QED
    BY <1>1, <1>2, <1>3, <1>4, <1>5, <1>6, <1>7, <1>8, <1>9, <1>10, <1>11,
        <1>12, <1>13, <1>14, <1>15, <1>16, <1>17, <1>18, <1>19, <1>20, <1>21,
        <1>22, <1>23, <1>24, <1>25
       DEF Next, Begin, Proceed, Surroundings

\* While no process outlives its archive lease, no two archive moves of one
\* document run at once, whatever processes die holding the lease.
THEOREM OneMoveAtATime ==
    ASSUME ~ Outlived
    PROVE  Spec => []OneMove
  <1> DEFINE Inv == TInv /\ HoldersOwn
  <1>1. Init => Inv
    BY TypeInit DEF Init, HoldersOwn, IdleState, MovePCs
  <1>2. Inv /\ [Next]_vars => Inv'
    BY TypeNext, HoldersNext
  <1>3. Inv => OneMove
    <2> SUFFICES ASSUME Inv, NEW p \in Procs, NEW q \in Procs,
                        proc[p].pc \in MovePCs, proc[q].pc \in MovePCs,
                        proc[p].on = proc[q].on
                 PROVE  p = q
      BY DEF OneMove
    <2>1. /\ lease[proc[p].on].owner = p
          /\ lease[proc[q].on].owner = q
      BY DEF HoldersOwn
    <2> QED
      BY <2>1
  <1> QED
    BY <1>1, <1>2, <1>3, PTL DEF Spec

(***************************************************************************)
(* Ledger and Drive.                                                       *)
(***************************************************************************)
\* While a move is under way the ledger does not call its document archived:
\* Replan saw so under the lease, and only a holder of the lease archives.
InHand ==
    \A p \in Procs :
        proc[p].pc \in MovePCs => life[proc[p].on] # "archived"

\* What VerifyMove saw stays until the commit.
Placed ==
    changes = 0 =>
        \A p \in Procs :
            proc[p].pc = "commit" => folder[proc[p].on] = "archive"

LInv == InHand /\ Placed /\ LedgerMatchesDrive

\* A step that leaves lifecycles and folders alone, and whose process does not
\* come to the steps of a move or to its commit.
LEMMA PlaceStep ==
    ASSUME LInv, NEW p \in Procs, UNCHANGED <<life, folder, changes>>,
           \A q \in Procs \ {p} : proc'[q] = proc[q],
           \/ proc'[p].pc \notin MovePCs
           \/ /\ proc[p].pc \in MovePCs
              /\ proc'[p].pc # "commit"
              /\ proc'[p].on = proc[p].on
    PROVE  LInv'
  BY DEF LInv, InHand, Placed, LedgerMatchesDrive, MovePCs

\* Two holders of leases are on two documents.
LEMMA HoldersApart ==
    ASSUME HoldersOwn, NEW p \in Procs, NEW q \in Procs,
           proc[p].pc \in MovePCs, proc[q].pc \in MovePCs,
           proc[p].on = proc[q].on
    PROVE  p = q
  BY DEF HoldersOwn

LEMMA PlacesNext ==
    ASSUME TInv, HoldersOwn, LInv, [Next]_vars
    PROVE  LInv'
  <1> USE Constants
  <1>t. /\ proc \in [Procs -> ProcStates]
        /\ \A p \in Procs : proc[p].on \in Docs
        /\ life \in [Docs -> Lives]
        /\ folder \in [Docs -> Folders]
        /\ changes \in Nat
    BY DEF TInv, TypeOK, ProcStates
  <1>1. CASE UNCHANGED vars
    BY <1>1 DEF LInv, InHand, Placed, LedgerMatchesDrive, vars, ledger, drive,
        bounds
  <1>2. ASSUME NEW p \in Procs, RecordEvent(p) PROVE LInv'
    <2>1. UNCHANGED <<life, folder, changes>>
      BY <1>2 DEF RecordEvent, ledger, drive, bounds
    <2>2. \A q \in Procs \ {p} : proc'[q] = proc[q]
      BY <1>2, <1>t DEF RecordEvent, Goto, Return, Enter
    <2>3. \/ proc'[p].pc \notin MovePCs
          \/ /\ proc[p].pc \in MovePCs
             /\ proc'[p].pc # "commit"
             /\ proc'[p].on = proc[p].on
      BY <1>2, <1>t
         DEF RecordEvent, Goto, Return, Enter, IdleState, ProcStates, MovePCs
    <2> QED
      BY <2>1, <2>2, <2>3, PlaceStep
  <1>3. ASSUME NEW p \in Procs, ResolveReviews(p) PROVE LInv'
    <2>1. UNCHANGED <<life, folder, changes>>
      BY <1>3 DEF ResolveReviews, ledger, drive, bounds
    <2>2. \A q \in Procs \ {p} : proc'[q] = proc[q]
      BY <1>3, <1>t DEF ResolveReviews, Goto, Return, Enter
    <2>3. \/ proc'[p].pc \notin MovePCs
          \/ /\ proc[p].pc \in MovePCs
             /\ proc'[p].pc # "commit"
             /\ proc'[p].on = proc[p].on
      BY <1>3, <1>t
         DEF ResolveReviews, Goto, Return, Enter, IdleState, ProcStates, MovePCs
    <2> QED
      BY <2>1, <2>2, <2>3, PlaceStep
  <1>4. ASSUME NEW p \in Procs, Plan(p) PROVE LInv'
    <2>1. UNCHANGED <<life, folder, changes>>
      BY <1>4 DEF Plan, ledger, drive, bounds
    <2>2. \A q \in Procs \ {p} : proc'[q] = proc[q]
      BY <1>4, <1>t DEF Plan, Goto, Return, Enter
    <2>3. \/ proc'[p].pc \notin MovePCs
          \/ /\ proc[p].pc \in MovePCs
             /\ proc'[p].pc # "commit"
             /\ proc'[p].on = proc[p].on
      BY <1>4, <1>t
         DEF Plan, Goto, Return, Enter, IdleState, ProcStates, MovePCs
    <2> QED
      BY <2>1, <2>2, <2>3, PlaceStep
  <1>5. ASSUME NEW p \in Procs, AcquireLease(p) PROVE LInv'
    <2>1. UNCHANGED <<life, folder, changes>>
      BY <1>5 DEF AcquireLease, ledger, drive, bounds
    <2>2. \A q \in Procs \ {p} : proc'[q] = proc[q]
      BY <1>5, <1>t DEF AcquireLease, Goto, Return, Enter
    <2>3. \/ proc'[p].pc \notin MovePCs
          \/ /\ proc[p].pc \in MovePCs
             /\ proc'[p].pc # "commit"
             /\ proc'[p].on = proc[p].on
      BY <1>5, <1>t
         DEF AcquireLease, Goto, Return, Enter, IdleState, ProcStates, MovePCs
    <2> QED
      BY <2>1, <2>2, <2>3, PlaceStep
  <1>6. ASSUME NEW p \in Procs, InspectSource(p) PROVE LInv'
    <2>1. UNCHANGED <<life, folder, changes>>
      BY <1>6 DEF InspectSource, ledger, drive, bounds
    <2>2. \A q \in Procs \ {p} : proc'[q] = proc[q]
      BY <1>6, <1>t DEF InspectSource, Goto, Return, Enter
    <2>3. \/ proc'[p].pc \notin MovePCs
          \/ /\ proc[p].pc \in MovePCs
             /\ proc'[p].pc # "commit"
             /\ proc'[p].on = proc[p].on
      BY <1>6, <1>t
         DEF InspectSource, Goto, Return, Enter, IdleState, ProcStates, MovePCs
    <2> QED
      BY <2>1, <2>2, <2>3, PlaceStep
  <1>7. ASSUME NEW p \in Procs, FinalPlan(p) PROVE LInv'
    <2>1. UNCHANGED <<life, folder, changes>>
      BY <1>7 DEF FinalPlan, ledger, drive, bounds
    <2>2. \A q \in Procs \ {p} : proc'[q] = proc[q]
      BY <1>7, <1>t DEF FinalPlan, Goto, Return, Enter
    <2>3. \/ proc'[p].pc \notin MovePCs
          \/ /\ proc[p].pc \in MovePCs
             /\ proc'[p].pc # "commit"
             /\ proc'[p].on = proc[p].on
      BY <1>7, <1>t
         DEF FinalPlan, Goto, Return, Enter, IdleState, ProcStates, MovePCs
    <2> QED
      BY <2>1, <2>2, <2>3, PlaceStep
  <1>8. ASSUME NEW p \in Procs, EnsureReview(p) PROVE LInv'
    <2>1. UNCHANGED <<life, folder, changes>>
      BY <1>8 DEF EnsureReview, ledger, drive, bounds
    <2>2. \A q \in Procs \ {p} : proc'[q] = proc[q]
      BY <1>8, <1>t DEF EnsureReview, Goto, Return, Enter
    <2>3. \/ proc'[p].pc \notin MovePCs
          \/ /\ proc[p].pc \in MovePCs
             /\ proc'[p].pc # "commit"
             /\ proc'[p].on = proc[p].on
      BY <1>8, <1>t
         DEF EnsureReview, Goto, Return, Enter, IdleState, ProcStates, MovePCs
    <2> QED
      BY <2>1, <2>2, <2>3, PlaceStep
  <1>9. ASSUME NEW p \in Procs, ReleaseLease(p) PROVE LInv'
    <2>1. UNCHANGED <<life, folder, changes>>
      BY <1>9 DEF ReleaseLease, ledger, drive, bounds
    <2>2. \A q \in Procs \ {p} : proc'[q] = proc[q]
      BY <1>9, <1>t DEF ReleaseLease, Goto, Return, Enter
    <2>3. \/ proc'[p].pc \notin MovePCs
          \/ /\ proc[p].pc \in MovePCs
             /\ proc'[p].pc # "commit"
             /\ proc'[p].on = proc[p].on
      BY <1>9, <1>t
         DEF ReleaseLease, Goto, Return, Enter, IdleState, ProcStates, MovePCs
    <2> QED
      BY <2>1, <2>2, <2>3, PlaceStep
  <1>10. ASSUME NEW p \in Procs, Crash(p) PROVE LInv'
    <2>1. UNCHANGED <<life, folder, changes>>
      BY <1>10 DEF Crash, ledger, drive, bounds
    <2>2. \A q \in Procs \ {p} : proc'[q] = proc[q]
      BY <1>10, <1>t DEF Crash, Goto, Return, Enter
    <2>3. \/ proc'[p].pc \notin MovePCs
          \/ /\ proc[p].pc \in MovePCs
             /\ proc'[p].pc # "commit"
             /\ proc'[p].on = proc[p].on
      BY <1>10, <1>t
         DEF Crash, Goto, Return, Enter, IdleState, ProcStates, MovePCs
    <2> QED
      BY <2>1, <2>2, <2>3, PlaceStep
  <1>11. ASSUME NEW p \in Threads, NEW d \in Docs, NEW r \in Readbacks, Readback(p, d, r) PROVE LInv'
    <2>1. UNCHANGED <<life, folder, changes>>
      BY <1>11 DEF Readback, ledger, drive, bounds
    <2>2. \A q \in Procs \ {p} : proc'[q] = proc[q]
      BY <1>11, <1>t DEF Readback, Goto, Return, Enter
    <2>3. \/ proc'[p].pc \notin MovePCs
          \/ /\ proc[p].pc \in MovePCs
             /\ proc'[p].pc # "commit"
             /\ proc'[p].on = proc[p].on
      BY <1>11, <1>t
         DEF Readback, Goto, Return, Enter, IdleState, ProcStates, MovePCs
    <2> QED
      BY <2>1, <2>2, <2>3, PlaceStep
  <1>12. ASSUME NEW p \in Threads, NEW d \in Docs, AskArchive(p, d) PROVE LInv'
    <2>1. UNCHANGED <<life, folder, changes>>
      BY <1>12 DEF AskArchive, ledger, drive, bounds
    <2>2. \A q \in Procs \ {p} : proc'[q] = proc[q]
      BY <1>12, <1>t DEF AskArchive, Goto, Return, Enter
    <2>3. \/ proc'[p].pc \notin MovePCs
          \/ /\ proc[p].pc \in MovePCs
             /\ proc'[p].pc # "commit"
             /\ proc'[p].on = proc[p].on
      BY <1>12, <1>t
         DEF AskArchive, Goto, Return, Enter, IdleState, ProcStates, MovePCs
    <2> QED
      BY <2>1, <2>2, <2>3, PlaceStep
  <1>13. ASSUME NEW d \in Docs, ArchiveReady(d) PROVE LInv'
    <2>1. UNCHANGED <<life, folder, changes>>
      BY <1>13 DEF ArchiveReady, ledger, drive, bounds
    <2>2. \A q \in Procs \ {Worker} : proc'[q] = proc[q]
      BY <1>13, <1>t DEF ArchiveReady, Goto, Return, Enter
    <2>3. \/ proc'[Worker].pc \notin MovePCs
          \/ /\ proc[Worker].pc \in MovePCs
             /\ proc'[Worker].pc # "commit"
             /\ proc'[Worker].on = proc[Worker].on
      BY <1>13, <1>t
         DEF ArchiveReady, Goto, Return, Enter, IdleState, ProcStates, MovePCs
    <2> QED
      BY <2>1, <2>2, <2>3, PlaceStep
  <1>14. ASSUME NEW p \in Procs, RecordLifecycle(p) PROVE LInv'
    <2>1. UNCHANGED <<folder, changes>>
      BY <1>14 DEF RecordLifecycle, drive, bounds
    <2>2. \A q \in Procs : /\ proc'[q].on = proc[q].on
                           /\ proc'[q].pc = proc[q].pc \/ proc'[q].pc = "metadata" \/ proc'[q].pc = "resolve"
      BY <1>14, <1>t DEF RecordLifecycle, Goto, ProcStates
    <2>3. \A d \in Docs : life'[d] = "archived" => life[d] = "archived"
      BY <1>14, <1>t DEF RecordLifecycle
    <2> QED
      BY <1>t, <2>1, <2>2, <2>3
         DEF LInv, InHand, Placed, LedgerMatchesDrive, MovePCs
  <1>15. ASSUME NEW p \in Procs, Replan(p) PROVE LInv'
    <2>1. UNCHANGED <<life, folder, changes>>
      BY <1>15 DEF Replan, ledger, drive, bounds
    <2>2. /\ \A q \in Procs \ {p} : proc'[q] = proc[q]
          /\ proc'[p].on = proc[p].on
      BY <1>15, <1>t DEF Replan, Goto, ProcStates
    <2>3. /\ proc'[p].pc # "commit"
          /\ proc'[p].pc \in MovePCs => life[proc[p].on] # "archived"
      BY <1>15, <1>t DEF Replan, Goto, ProcStates, MovePCs, CanArchive
    <2> QED
      BY <2>1, <2>2, <2>3 DEF LInv, InHand, Placed, LedgerMatchesDrive
  <1>16. ASSUME NEW p \in Procs, MoveFile(p) PROVE LInv'
    <2>1. UNCHANGED <<life, changes>>
      BY <1>16 DEF MoveFile, ledger
    <2>2. /\ \A q \in Procs \ {p} : proc'[q] = proc[q]
          /\ proc'[p].on = proc[p].on
          /\ proc[p].pc = "move"
          /\ proc'[p].pc \in {"block", "verify"}
      BY <1>16, <1>t DEF MoveFile, Goto, ProcStates
    <2>3. \A d \in Docs : folder[d] = "archive" => folder'[d] = "archive"
      BY <1>16, <1>t DEF MoveFile
    <2> QED
      BY <1>t, <2>1, <2>2, <2>3
         DEF LInv, InHand, Placed, LedgerMatchesDrive, MovePCs
  <1>17. ASSUME NEW p \in Procs, VerifyMove(p) PROVE LInv'
    <2>1. UNCHANGED <<life, folder, changes>>
      BY <1>17 DEF VerifyMove, ledger, drive
    <2>2. /\ \A q \in Procs \ {p} : proc'[q] = proc[q]
          /\ proc'[p].on = proc[p].on
          /\ proc[p].pc = "verify"
      BY <1>17, <1>t DEF VerifyMove, Goto, ProcStates
    <2>3. proc'[p].pc = "commit" => folder[proc[p].on] = "archive"
      BY <1>17, <1>t DEF VerifyMove, Goto, ProcStates
    <2> QED
      BY <2>1, <2>2, <2>3 DEF LInv, InHand, Placed, LedgerMatchesDrive, MovePCs
  <1>18. ASSUME NEW p \in Procs, RestoreFile(p) PROVE LInv'
    <2>1. UNCHANGED <<life, changes>>
      BY <1>18 DEF RestoreFile, ledger
    <2>2. /\ \A q \in Procs \ {p} : proc'[q] = proc[q]
          /\ proc[p].pc = "restore"
          /\ proc'[p].pc = "block"
      BY <1>18, <1>t DEF RestoreFile, Goto, ProcStates
    <2>3. \A d \in Docs \ {proc[p].on} : folder'[d] = folder[d]
      BY <1>18, <1>t DEF RestoreFile
    <2>4. InHand'
      BY <2>1, <2>2 DEF LInv, InHand, MovePCs
    <2>5. \A q \in Procs \ {p} :
             proc[q].pc = "commit" => proc[q].on # proc[p].on
      BY <2>2, HoldersApart DEF MovePCs
    <2>6. Placed'
      BY <1>t, <2>1, <2>2, <2>3, <2>5 DEF LInv, Placed
    <2>7. life[proc[p].on] # "archived"
      BY <2>2 DEF LInv, InHand, MovePCs
    <2>8. LedgerMatchesDrive'
      BY <1>t, <2>1, <2>3, <2>7 DEF LInv, LedgerMatchesDrive
    <2> QED
      BY <2>4, <2>6, <2>8 DEF LInv
  <1>19. ASSUME NEW p \in Procs, CommitArchive(p) PROVE LInv'
    <2>1. UNCHANGED <<folder, changes>>
      BY <1>19 DEF CommitArchive, drive, bounds
    <2>2. /\ \A q \in Procs \ {p} : proc'[q] = proc[q]
          /\ proc[p].pc = "commit"
          /\ proc'[p].pc = "release"
      BY <1>19, <1>t DEF CommitArchive, Goto, ProcStates
    <2>3. \A d \in Docs \ {proc[p].on} : life'[d] = life[d]
      BY <1>19, <1>t DEF CommitArchive
    <2>4. \A q \in Procs \ {p} :
             proc[q].pc \in MovePCs => proc[q].on # proc[p].on
      BY <2>2, HoldersApart DEF MovePCs
    <2>5. InHand'
      BY <1>t, <2>2, <2>3, <2>4 DEF LInv, InHand, MovePCs
    <2>6. Placed'
      BY <2>1, <2>2 DEF LInv, Placed
    <2>7. changes = 0 => folder[proc[p].on] = "archive"
      BY <2>2 DEF LInv, Placed
    <2>8. LedgerMatchesDrive'
      BY <1>t, <2>1, <2>3, <2>7 DEF LInv, LedgerMatchesDrive
    <2> QED
      BY <2>5, <2>6, <2>8 DEF LInv
  <1>20. ASSUME NEW d \in Docs, EditFacts(d) PROVE LInv'
    BY <1>20 DEF EditFacts, ledger, drive, bounds, LInv, InHand, Placed,
        LedgerMatchesDrive
  <1>21. ASSUME NEW d \in Docs, ChangeGate(d) PROVE LInv'
    BY <1>21 DEF ChangeGate, ledger, drive, bounds, LInv, InHand, Placed,
        LedgerMatchesDrive
  <1>22. ASSUME NEW d \in Docs, Lapse(d) PROVE LInv'
    BY <1>22 DEF Lapse, ledger, drive, bounds, LInv, InHand, Placed,
        LedgerMatchesDrive
  <1>23. ASSUME NEW d \in Docs, Expire(d) PROVE LInv'
    BY <1>23 DEF Expire, ledger, drive, bounds, LInv, InHand, Placed,
        LedgerMatchesDrive
  <1>24. ASSUME NEW d \in Docs, UserReplaces(d) PROVE LInv'
    BY <1>24, <1>t DEF UserReplaces, ledger, LInv, InHand, Placed,
        LedgerMatchesDrive
  <1>25. ASSUME NEW d \in Docs, NEW f \in Folders, UserMoves(d, f) PROVE LInv'
    BY <1>25, <1>t DEF UserMoves, ledger, LInv, InHand, Placed,
        LedgerMatchesDrive
  <1> QED
    BY <1>1, <1>2, <1>3, <1>4, <1>5, <1>6, <1>7, <1>8, <1>9, <1>10, <1>11,
        <1>12, <1>13, <1>14, <1>15, <1>16, <1>17, <1>18, <1>19, <1>20,
        <1>21, <1>22, <1>23, <1>24, <1>25
       DEF Next, Begin, Proceed, Surroundings

\* While no process outlives its archive lease and nobody else touches the
\* file, a document that the ledger calls archived is in the archive folder:
\* no roll back of another attempt takes it out again.
THEOREM LedgerAndDriveAgree ==
    ASSUME ~ Outlived
    PROVE  Spec => []LedgerMatchesDrive
  <1> DEFINE Inv == TInv /\ HoldersOwn /\ LInv
  <1>1. Init => Inv
    <2> SUFFICES ASSUME Init PROVE Inv
      OBVIOUS
    <2>1. HoldersOwn
      BY DEF Init, HoldersOwn, IdleState, MovePCs
    <2>2. LInv
      BY DEF Init, LInv, InHand, Placed, LedgerMatchesDrive, IdleState,
             MovePCs
    <2> QED
      BY <2>1, <2>2, TypeInit
  <1>2. Inv /\ [Next]_vars => Inv'
    BY TypeNext, HoldersNext, PlacesNext
  <1>3. Inv => LedgerMatchesDrive
    BY DEF LInv
  <1> QED
    BY <1>1, <1>2, <1>3, PTL DEF Spec
=============================================================================
