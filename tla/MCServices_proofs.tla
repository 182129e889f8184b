-------------------------- MODULE MCServices_proofs -------------------------
(***************************************************************************)
(* What is proved of the HAI connector also holds where it shares a state  *)
(* space with the others; and what is proved of the receipt executor, of   *)
(* restores, of the upgrade of the ledger's schema, of the mirror of Wave, *)
(* of scheduled reports, of the inbox and of compliance assessments.       *)
(***************************************************************************)
EXTENDS MCServices, FiniteSetTheorems, SequenceTheorems, TLAPS

\* The HAI connector again, with what is proved of it.
HaiProof == INSTANCE HaiCommands_proofs WITH
    lease <- cmdLease, proc <- cmdProc, faults <- cmdFaults,
    crashes <- cmdCrashes,
    MaxDeliveries <- 3, MaxFaults <- 1, MaxCrashes <- 1

-----------------------------------------------------------------------------
\* What the two instances of a module say is the same.
LEMMA HaiInit == ASSUME Hai!Init PROVE HaiProof!Init
  BY DEF Hai!Init, HaiProof!Init, Hai!None, HaiProof!None, Hai!Idle,
         HaiProof!Idle, Hai!Unheld, HaiProof!Unheld

LEMMA HaiNext == ASSUME Hai!Next PROVE HaiProof!Next
  BY Zenon
     DEF Hai!None, Hai!Stored, Hai!Idle, Hai!Unheld, Hai!Goto, Hai!Return,
         Hai!AllButProc, Hai!LedgerPCs, HaiProof!LedgerPCs, Hai!Deliver,
         Hai!AnswerFrom, Hai!LookCompleted, Hai!AfterLookup, Hai!LookFailed,
         Hai!Plan, Hai!Acquirable, Hai!Acquire, Hai!LookRequested,
         Hai!RecordRequested, Hai!Run, Hai!RecordOutcome, Hai!Release,
         Hai!LedgerFails, Hai!Crash, Hai!Expire, Hai!Step, Hai!Next,
         HaiProof!None, HaiProof!Stored, HaiProof!Idle, HaiProof!Unheld,
         HaiProof!Goto, HaiProof!Return, HaiProof!AllButProc,
         HaiProof!Deliver, HaiProof!AnswerFrom, HaiProof!LookCompleted,
         HaiProof!AfterLookup, HaiProof!LookFailed, HaiProof!Plan,
         HaiProof!Acquirable, HaiProof!Acquire, HaiProof!LookRequested,
         HaiProof!RecordRequested, HaiProof!Run, HaiProof!RecordOutcome,
         HaiProof!Release, HaiProof!LedgerFails, HaiProof!Crash,
         HaiProof!Expire, HaiProof!Step, HaiProof!Next

\* A step of the services is one of the connector or leaves it alone, and so
\* for the other services.
LEMMA OneFocus ==
    ASSUME [Next]_vars
    PROVE  /\ Hai!Next \/ UNCHANGED haiVars
           /\ Receipts!Next \/ UNCHANGED receiptVars
           /\ Backup!Next \/ UNCHANGED backupVars
           /\ focus' = focus
           /\ focus = "schema" => Schema!Next \/ UNCHANGED schemaVars
           /\ Mirror!Next \/ UNCHANGED mirrorVars
           /\ Reports!Next \/ UNCHANGED reportVars
           /\ Inbox!Next \/ UNCHANGED inboxVars
           /\ Compl!Next \/ UNCHANGED complVars
  BY DEF Next, vars, localVars, mirrorVars, otherVars, homeVars
-----------------------------------------------------------------------------
(***************************************************************************)
(* The upgrade of the ledger's schema.  SchemaInv adds what a process has  *)
(* reached to what the ledger says: before the version is declared it is   *)
(* the processes on their way that know how much of it is there (Reached), *)
(* since each statement is committed by itself and any of them may die.    *)
(* What a process has read is still so if it was alone (ReadsHold).        *)
(***************************************************************************)
\* A ledger, with any number of doubles.
LedgerRows ==
    [version : 0..Schema!Supported + 1,
     history : SUBSET (1..Schema!Supported + 1),
     tables : BOOLEAN, columns : SUBSET Columns, unhashed : BOOLEAN,
     doubles : Nat, index : BOOLEAN]

Openers == [at : Schema!Ends \cup Schema!Steps, seen : Nat,
            todo : SUBSET Columns, copy : LedgerRows, alone : BOOLEAN]

SchemaTypes ==
    /\ past \in {Old, New, Newer}
    /\ db \in LedgerRows
    /\ opener \in [Procs -> Openers]

\* What comes after a statement.
AfterCopy == {"version", "history", "tables", "look", "alter", "hashes",
              "doubles", "index", "record", "audit"}
AfterTables == {"look", "alter", "hashes", "doubles", "index", "record",
                "audit"}
AfterColumns == {"hashes", "doubles", "index", "record", "audit"}
AfterHashes == {"doubles", "index", "record", "audit"}
AfterIndex == {"record", "audit"}

IsNewer == past.version > Schema!Supported

Saved == \E copy \in backups : Schema!Settled(copy) = Schema!Settled(past)

\* How far the ledger is, and that a copy was kept.
LedgerSound ==
    /\ db.history = 1..db.version
    /\ IsNewer => db = past
    /\ ~ IsNewer => db.version <= Schema!Supported
    /\ past.tables => db.tables
    /\ past.tables /\ Schema!Altered => Saved
    /\ db.index => db.doubles = 0
    /\ db.version = Schema!Supported =>
           /\ db.tables /\ db.columns = Columns /\ ~ db.unhashed
           /\ db.index

\* How far it is with a process that is at some statement.
Reached(p) ==
    LET c == opener[p] IN
    /\ IsNewer => c.at \in Schema!Ends \cup {"inspect"}
    /\ past.tables /\ c.at \in AfterCopy => Saved
    /\ past.tables /\ c.at = "manifest" =>
           Saved \/ Schema!Settled(c.copy) = Schema!Settled(past)
    /\ c.at \in AfterTables => db.tables
    /\ c.at = "alter" => Columns \ db.columns \subseteq c.todo
    /\ c.at \in AfterColumns => db.columns = Columns
    /\ c.at \in AfterHashes => ~ db.unhashed
    /\ c.at \in AfterIndex => db.index

\* A process that is alone knows of no other one that opens the ledger, and
\* what it has read is still so.
Apart(p) ==
    opener[p].alone /\ Schema!Opening(p) =>
        \A q \in Procs \ {p} : ~ Schema!Opening(q)

ReadsHold(p) ==
    LET c == opener[p] IN
    c.alone =>
        /\ c.at = "history" => c.seen = db.version
        /\ c.at = "alter" => c.todo \cap db.columns = {}
        /\ c.at = "index" => db.doubles <= c.seen
        /\ c.at = "failed" => IsNewer

\* What is known of the ledgers that are found.
PastsSound ==
    /\ past \in LedgerRows
    /\ past.history = 1..past.version
    /\ past.version # Schema!Supported
    /\ past.index => past.doubles = 0
    /\ IsNewer => past.index

SchemaInv ==
    /\ SchemaTypes
    /\ PastsSound
    /\ LedgerSound
    /\ \A p \in Procs : Reached(p) /\ Apart(p) /\ ReadsHold(p)

-----------------------------------------------------------------------------
\* An upgrade takes nothing back.
Upgraded ==
    /\ past' = past /\ db' \in LedgerRows
    /\ db.tables => db'.tables
    /\ db.columns \subseteq db'.columns
    /\ ~ db.unhashed => ~ db'.unhashed
    /\ db.index => db'.index
    /\ backups \subseteq backups'

LEMMA ProcStates ==
    ASSUME SchemaInv, NEW p \in Procs
    PROVE  /\ opener[p] \in Openers /\ opener \in [Procs -> Openers]
           /\ db \in LedgerRows
           /\ Reached(p) /\ Apart(p) /\ ReadsHold(p)
           /\ LedgerSound /\ PastsSound
  BY DEF SchemaInv, SchemaTypes

LEMMA StaysSaved ==
    ASSUME past' = past, backups \subseteq backups', Saved PROVE Saved'
  BY DEF Saved, Schema!Settled

\* A process that does not move: if it is alone the ledger must not change.
LEMMA StandsStill ==
    ASSUME SchemaInv, Upgraded, NEW q \in Procs, opener'[q] = opener[q],
           Schema!Opening(q) /\ opener[q].alone => db' = db
    PROVE  Reached(q)' /\ ReadsHold(q)'
  <1>1. Reached(q) /\ ReadsHold(q) /\ db \in LedgerRows
    BY ProcStates
  <1>2. Saved => Saved'
    BY StaysSaved DEF Upgraded
  <1>3. past' = past /\ (IsNewer' <=> IsNewer)
        /\ Schema!Settled(past)' = Schema!Settled(past)
    BY DEF Upgraded, IsNewer, Schema!Settled
  <1>4. Reached(q)'
    <2>1. db.columns = Columns => db'.columns = Columns
      BY <1>1 DEF Upgraded, LedgerRows
    <2>2. Columns \ db'.columns \subseteq Columns \ db.columns
      BY DEF Upgraded
    <2>3. Schema!Settled(opener[q].copy) = Schema!Settled(past)
            => Schema!Settled(opener'[q].copy) = Schema!Settled(past')
      BY <1>3
    <2> QED
      BY <1>1, <1>2, <1>3, <2>1, <2>2, <2>3
         DEF Reached, Upgraded, Schema!Settled
  <1>5. ReadsHold(q)'
    BY <1>1, <1>3 DEF ReadsHold, Schema!Opening, Schema!Steps
  <1> QED
    BY <1>4, <1>5

\* A process that opens the ledger takes a step, and the others stand.
LEMMA OneOpens ==
    ASSUME SchemaInv, Upgraded, LedgerSound', NEW p \in Procs,
           Schema!Opening(p),
           \A q \in Procs \ {p} : opener'[q] = opener[q],
           opener'[p] \in Openers, opener' \in [Procs -> Openers],
           opener'[p].alone => opener[p].alone,
           Reached(p)', ReadsHold(p)'
    PROVE  SchemaInv'
  <1>1. ASSUME NEW q \in Procs, q # p PROVE Reached(q)' /\ ReadsHold(q)'
    <2>1. ~ (Schema!Opening(q) /\ opener[q].alone)
      BY <1>1, ProcStates DEF Apart
    <2> QED
      BY <1>1, <2>1, StandsStill
  <1>2. ASSUME NEW q \in Procs PROVE Apart(q)'
    BY <1>2, ProcStates DEF Apart, Schema!Opening
  <1>3. SchemaTypes' /\ PastsSound'
    BY DEF SchemaInv, SchemaTypes, PastsSound, IsNewer, Upgraded
  <1> QED
    BY <1>1, <1>2, <1>3 DEF SchemaInv

LEMMA SameLedger ==
    ASSUME SchemaInv, past' = past, db' = db, backups \subseteq backups'
    PROVE  Upgraded /\ LedgerSound'
  <1>1. Saved => Saved'
    BY StaysSaved
  <1>2. LedgerSound /\ db \in LedgerRows
    BY DEF SchemaInv, SchemaTypes
  <1>3. Schema!Altered' <=> Schema!Altered
    BY DEF Schema!Altered, Schema!Settled
  <1> QED
    BY <1>1, <1>2, <1>3 DEF Upgraded, LedgerSound, IsNewer

LEMMA GoIs ==
    ASSUME SchemaInv, NEW p \in Procs,
           NEW at \in Schema!Ends \cup Schema!Steps, Schema!Go(p, at)
    PROVE  /\ opener'[p] = [opener[p] EXCEPT !.at = at]
           /\ \A q \in Procs \ {p} : opener'[q] = opener[q]
           /\ opener'[p] \in Openers /\ opener' \in [Procs -> Openers]
           /\ opener'[p].at = at /\ opener'[p].alone = opener[p].alone
           /\ opener'[p].seen = opener[p].seen
           /\ opener'[p].todo = opener[p].todo
           /\ opener'[p].copy = opener[p].copy
  BY ProcStates DEF Schema!Go, Openers

\* The same where more than the place is new.
LEMMA MoveIs ==
    ASSUME SchemaInv, NEW p \in Procs, NEW c \in Openers,
           opener' = [opener EXCEPT ![p] = c]
    PROVE  /\ opener'[p] = c
           /\ \A q \in Procs \ {p} : opener'[q] = opener[q]
           /\ opener'[p] \in Openers /\ opener' \in [Procs -> Openers]
  BY ProcStates

LEMMA SoundVersion ==
    ASSUME LedgerSound, PastsSound, db \in LedgerRows, NEW v,
           v = Schema!VersionOf(db)
    PROVE  v = db.version
  <1> DEFINE S == db.history \cup {db.version}
  <1>1. db.version \in 0..2 /\ S = 1..db.version \cup {db.version}
    BY DEF LedgerSound, LedgerRows, Schema!Supported
  <1>2. db.version \in S /\ \A w \in S : w <= db.version /\ w \in Int
    BY <1>1
  <1>3. v = CHOOSE u \in S : \A w \in S : w <= u
    BY DEF Schema!VersionOf
  <1> HIDE DEF S
  <1>4. v \in S /\ \A w \in S : w <= v
    BY <1>2, <1>3
  <1> QED
    BY <1>1, <1>2, <1>4

-----------------------------------------------------------------------------
\* A process begins to open the ledger, dies, or ends.
LEMMA StartKeeps ==
    ASSUME SchemaInv, NEW p \in Procs, Schema!Start(p)
    PROVE  SchemaInv'
  <1> DEFINE others == {q \in Procs \ {p} : Schema!Opening(q)}
             mine == [Schema!Idle EXCEPT !.at = "inspect",
                                         !.alone = others = {}]
             theirs(q) == [opener[q] EXCEPT !.alone = @ /\ q \notin others]
  <1>1. /\ UNCHANGED <<past, db, backups>> /\ ~ Schema!Opening(p)
        /\ opener' = [q \in Procs |-> IF q = p THEN mine ELSE theirs(q)]
    BY DEF Schema!Start
  <1>2. Schema!Idle \in Openers
    BY DEF Schema!Idle, Openers, LedgerRows, Schema!Empty, Schema!Ends,
           Schema!Steps, Schema!Supported
  <1>3. /\ mine \in Openers /\ mine.at = "inspect"
        /\ mine.alone => others = {}
    BY <1>2 DEF Openers, Schema!Steps
  <1>4. ASSUME NEW q \in Procs \ {p}
        PROVE  /\ theirs(q) \in Openers
               /\ theirs(q).at = opener[q].at
               /\ theirs(q).seen = opener[q].seen
               /\ theirs(q).todo = opener[q].todo
               /\ theirs(q).copy = opener[q].copy
               /\ theirs(q).alone => opener[q].alone /\ ~ Schema!Opening(q)
    BY ProcStates DEF Openers
  <1> HIDE DEF mine, theirs
  <1>5. /\ opener'[p] = mine
        /\ \A q \in Procs \ {p} : opener'[q] = theirs(q)
        /\ opener' \in [Procs -> Openers]
    BY <1>1, <1>3, <1>4
  <1>6. Upgraded /\ LedgerSound'
    BY <1>1, SameLedger
  <1>7. ASSUME NEW q \in Procs PROVE Reached(q)' /\ Apart(q)' /\ ReadsHold(q)'
    <2>1. CASE q = p
      <3>1. Reached(p)' /\ ReadsHold(p)'
        BY <1>3, <1>5
           DEF Reached, ReadsHold, AfterCopy, AfterTables, AfterColumns,
               AfterHashes, AfterIndex
      <3>2. Apart(p)'
        BY <1>3, <1>4, <1>5 DEF Apart, Schema!Opening
      <3> QED
        BY <2>1, <3>1, <3>2
    <2>2. CASE q # p
      <3>1. Reached(q) /\ ReadsHold(q)
        BY ProcStates
      <3>2. Saved => Saved'
        BY <1>1, StaysSaved
      <3>3. Reached(q)'
        BY <1>1, <1>4, <1>5, <2>2, <3>1, <3>2
           DEF Reached, IsNewer, Schema!Settled
      <3>4. ReadsHold(q)' /\ Apart(q)'
        BY <1>1, <1>4, <1>5, <2>2, <3>1
           DEF ReadsHold, Apart, Schema!Opening, Schema!Steps, IsNewer
      <3> QED
        BY <3>3, <3>4
    <2> QED
      BY <2>1, <2>2
  <1>8. SchemaTypes' /\ PastsSound'
    BY <1>1, <1>5 DEF SchemaInv, SchemaTypes, PastsSound, IsNewer
  <1> QED
    BY <1>6, <1>7, <1>8 DEF SchemaInv

LEMMA CrashKeeps ==
    ASSUME SchemaInv, NEW p \in Procs, Schema!Crash(p)
    PROVE  SchemaInv'
  <1>1. /\ UNCHANGED <<past, db, backups>> /\ Schema!Opening(p)
        /\ opener' = [opener EXCEPT ![p] = Schema!Idle]
    BY DEF Schema!Crash
  <1>2. Schema!Idle \in Openers /\ Schema!Idle.at = "closed"
    BY DEF Schema!Idle, Openers, LedgerRows, Schema!Empty, Schema!Ends,
           Schema!Steps, Schema!Supported
  <1>3. /\ opener'[p] = Schema!Idle
        /\ \A q \in Procs \ {p} : opener'[q] = opener[q]
        /\ opener' \in [Procs -> Openers] /\ Apart(p)'
    BY <1>1, <1>2, MoveIs DEF Apart, Schema!Opening, Schema!Steps
  <1>4. Upgraded /\ LedgerSound'
    BY <1>1, SameLedger
  <1>5. Reached(p)' /\ ReadsHold(p)'
    BY <1>2, <1>3
       DEF Reached, ReadsHold, Schema!Ends, AfterCopy, AfterTables,
           AfterColumns, AfterHashes, AfterIndex
  <1>6. ASSUME NEW q \in Procs \ {p}
        PROVE  Reached(q)' /\ ReadsHold(q)' /\ Apart(q)'
    <2>1. Reached(q)' /\ ReadsHold(q)'
      BY <1>1, <1>3, <1>4, StandsStill
    <2>2. Apart(q)'
      BY <1>2, <1>3, ProcStates DEF Apart, Schema!Opening, Schema!Steps
    <2> QED
      BY <2>1, <2>2
  <1>7. SchemaTypes' /\ PastsSound'
    BY <1>1, <1>3 DEF SchemaInv, SchemaTypes, PastsSound, IsNewer
  <1> QED
    BY <1>3, <1>4, <1>5, <1>6, <1>7 DEF SchemaInv

\* A process that only goes on: what is left to show is what it has reached.
LEMMA GoesOn ==
    ASSUME SchemaInv, NEW p \in Procs, Schema!Opening(p),
           NEW at \in Schema!Ends \cup Schema!Steps, Schema!Go(p, at),
           past' = past, db' = db, backups \subseteq backups',
           Reached(p)', ReadsHold(p)'
    PROVE  SchemaInv'
  BY GoIs, SameLedger, OneOpens

LEMMA InspectKeeps ==
    ASSUME SchemaInv, NEW p \in Procs, Schema!Inspect(p)
    PROVE  SchemaInv'
  <1>1. /\ UNCHANGED <<past, db, backups>>
        /\ opener[p].at = "inspect" /\ Schema!Opening(p)
    BY DEF Schema!Inspect, Schema!Ran, Schema!Counted, Schema!Opening,
           Schema!Steps
  <1>2. /\ Reached(p) /\ ReadsHold(p) /\ LedgerSound /\ PastsSound
        /\ db \in LedgerRows
    BY ProcStates
  <1>3. Schema!VersionOf(db) = db.version
    BY <1>2, SoundVersion
  <1>4. PICK at \in {"failed", "copy", "version"} :
            /\ Schema!Go(p, at)
            /\ at = "failed" => db.version > Schema!Supported
            /\ at = "copy" => db.version <= Schema!Supported
            /\ at = "version" => db.version = Schema!Supported \/ ~ db.tables
            /\ at = "version" => db.version <= Schema!Supported
    <2>1. db.version \in 0..2
      BY <1>2 DEF LedgerRows, Schema!Supported
    <2> QED
      BY <1>3, <2>1 DEF Schema!Inspect, Schema!Ran, Schema!Supported
  <1>5. at \in Schema!Ends \cup Schema!Steps
    BY DEF Schema!Ends, Schema!Steps
  <1>6. /\ opener'[p].at = at /\ opener'[p].alone = opener[p].alone
        /\ opener'[p].copy = opener[p].copy
    BY <1>4, <1>5, GoIs
  <1>7. IsNewer <=> db.version > Schema!Supported
    BY <1>2 DEF LedgerSound, IsNewer, LedgerRows, PastsSound, Schema!Supported
  <1>8. past.tables /\ at = "version" => Saved
    <2> SUFFICES ASSUME past.tables, at = "version" PROVE Saved
      OBVIOUS
    <2>1. db.tables /\ db.version = Schema!Supported
      BY <1>2, <1>4 DEF LedgerSound
    <2>2. db.version # past.version
      BY <1>2, <2>1 DEF PastsSound
    <2>3. /\ Schema!Settled(db).version = db.version
          /\ Schema!Settled(past).version = past.version
      BY <1>2 DEF Schema!Settled, LedgerRows, PastsSound
    <2> QED
      BY <1>2, <2>2, <2>3 DEF LedgerSound, Schema!Altered
  <1>9. Saved => Saved'
    BY <1>1, StaysSaved
  <1>10. /\ IsNewer => at = "failed"
         /\ IsNewer' <=> IsNewer
    BY <1>1, <1>2, <1>4, <1>7 DEF LedgerRows, Schema!Supported, IsNewer
  <1>11. Reached(p)'
    BY <1>1, <1>4, <1>6, <1>8, <1>9, <1>10
       DEF Reached, Schema!Ends, AfterCopy, AfterTables, AfterColumns,
           AfterHashes, AfterIndex
  <1>12. ReadsHold(p)'
    BY <1>1, <1>4, <1>6, <1>7 DEF ReadsHold, IsNewer
  <1> QED
    BY <1>1, <1>4, <1>5, <1>11, <1>12, GoesOn

LEMMA CopyKeeps ==
    ASSUME SchemaInv, NEW p \in Procs, Schema!Copy(p)
    PROVE  SchemaInv'
  <1> DEFINE c == [opener[p] EXCEPT !.at = "manifest", !.copy = db]
  <1>1. /\ UNCHANGED <<past, db, backups>>
        /\ opener[p].at = "copy" /\ Schema!Opening(p)
        /\ opener' = [opener EXCEPT ![p] = c]
    BY DEF Schema!Copy, Schema!Counted, Schema!Opening, Schema!Steps
  <1>2. /\ opener[p] \in Openers /\ Reached(p) /\ LedgerSound
        /\ db \in LedgerRows
    BY ProcStates
  <1>3. /\ c \in Openers /\ c.at = "manifest" /\ c.copy = db
        /\ c.alone = opener[p].alone
    BY <1>2 DEF Openers, Schema!Steps
  <1> HIDE DEF c
  <1>4. /\ opener'[p] = c /\ \A q \in Procs \ {p} : opener'[q] = opener[q]
        /\ opener'[p] \in Openers /\ opener' \in [Procs -> Openers]
    BY <1>1, <1>3, MoveIs
  <1>5. ~ IsNewer
    BY <1>1, <1>2 DEF Reached, Schema!Ends
  <1>6. past.tables => Saved \/ Schema!Settled(db) = Schema!Settled(past)
    BY <1>2 DEF LedgerSound, Schema!Altered
  <1>7. Saved => Saved'
    BY <1>1, StaysSaved
  <1>8. Reached(p)'
    BY <1>1, <1>3, <1>4, <1>5, <1>6, <1>7
       DEF Reached, IsNewer, Schema!Settled, AfterCopy, AfterTables,
           AfterColumns, AfterHashes, AfterIndex
  <1>9. ReadsHold(p)'
    BY <1>3, <1>4 DEF ReadsHold
  <1> QED
    BY <1>1, <1>3, <1>4, <1>8, <1>9, SameLedger, OneOpens

LEMMA BackupFailsKeeps ==
    ASSUME SchemaInv, NEW p \in Procs, Schema!BackupFails(p)
    PROVE  SchemaInv'
  <1>1. /\ UNCHANGED <<past, db, backups>> /\ Schema!Opening(p)
        /\ Schema!Go(p, "unsaved") /\ "unsaved" \in Schema!Ends
    BY DEF Schema!BackupFails, Schema!Opening, Schema!Steps, Schema!Ends
  <1>2. opener'[p].at = "unsaved"
    BY <1>1, GoIs
  <1>3. Reached(p)' /\ ReadsHold(p)'
    BY <1>1, <1>2
       DEF Reached, ReadsHold, AfterCopy, AfterTables, AfterColumns,
           AfterHashes, AfterIndex
  <1> QED
    BY <1>1, <1>3, GoesOn

LEMMA ManifestKeeps ==
    ASSUME SchemaInv, NEW p \in Procs, Schema!Manifest(p)
    PROVE  SchemaInv'
  <1>1. /\ UNCHANGED <<past, db>> /\ Schema!Opening(p)
        /\ opener[p].at = "manifest"
        /\ backups' = backups \cup {opener[p].copy}
        /\ Schema!Go(p, "version") /\ "version" \in Schema!Steps
    BY DEF Schema!Manifest, Schema!Ran, Schema!Counted, Schema!Opening,
           Schema!Steps
  <1>2. opener'[p].at = "version" /\ Reached(p)
    BY <1>1, GoIs, ProcStates
  <1>3. past.tables => Saved'
    <2>1. Saved => Saved'
      BY <1>1, StaysSaved
    <2>2. Schema!Settled(opener[p].copy) = Schema!Settled(past) => Saved'
      BY <1>1 DEF Saved, Schema!Settled
    <2> QED
      BY <1>1, <1>2, <2>1, <2>2 DEF Reached
  <1>4. Reached(p)' /\ ReadsHold(p)'
    BY <1>1, <1>2, <1>3
       DEF Reached, ReadsHold, IsNewer, Schema!Ends, AfterCopy, AfterTables,
           AfterColumns, AfterHashes, AfterIndex
  <1> QED
    BY <1>1, <1>4, GoesOn

-----------------------------------------------------------------------------
\* The statements of the upgrade.

\* What is known of a process between the backup and the end.
LEMMA AtWork ==
    ASSUME SchemaInv, NEW p \in Procs, opener[p].at \in AfterCopy
    PROVE  /\ Schema!Opening(p) /\ ~ IsNewer /\ db.version \in {0, 1}
           /\ past.tables => Saved
  <1>1. Reached(p) /\ LedgerSound /\ db \in LedgerRows
    BY ProcStates
  <1>2. Schema!Opening(p)
    BY DEF AfterCopy, Schema!Opening, Schema!Steps
  <1>3. ~ IsNewer /\ (past.tables => Saved)
    BY <1>1 DEF Reached, AfterCopy, Schema!Ends
  <1>4. db.version \in 0..2 /\ db.version <= 1
    BY <1>1, <1>3 DEF LedgerSound, LedgerRows, Schema!Supported
  <1> QED
    BY <1>2, <1>3, <1>4

LEMMA ReadVersionKeeps ==
    ASSUME SchemaInv, NEW p \in Procs, Schema!ReadVersion(p)
    PROVE  SchemaInv'
  <1> DEFINE c == [opener[p] EXCEPT !.at = "history", !.seen = db.version]
  <1>1. /\ UNCHANGED <<past, db, backups>> /\ opener[p].at = "version"
        /\ opener[p].at \in AfterCopy
    BY DEF Schema!ReadVersion, Schema!Counted, AfterCopy
  <1>2. /\ Schema!Opening(p) /\ ~ IsNewer /\ db.version \in {0, 1}
        /\ past.tables => Saved
    BY <1>1, AtWork
  <1>3. opener' = [opener EXCEPT ![p] = c]
    <2>1. ~ (db.version > Schema!Supported)
      BY <1>2 DEF Schema!Supported
    <2> QED
      BY <2>1 DEF Schema!ReadVersion
  <1>4. /\ c \in Openers /\ c.at = "history" /\ c.seen = db.version
        /\ c.alone = opener[p].alone
    <2>1. PICK n \in Nat : n = db.version
      BY <1>2
    <2>2. c = [opener[p] EXCEPT !.at = "history", !.seen = n]
      BY <2>1
    <2> HIDE DEF c
    <2> QED
      BY <2>1, <2>2, ProcStates DEF Openers, Schema!Steps
  <1> HIDE DEF c
  <1>5. /\ opener'[p] = c /\ \A q \in Procs \ {p} : opener'[q] = opener[q]
        /\ opener'[p] \in Openers /\ opener' \in [Procs -> Openers]
    BY <1>3, <1>4, MoveIs
  <1>6. Saved => Saved'
    BY <1>1, StaysSaved
  <1>7. Reached(p)' /\ ReadsHold(p)'
    BY <1>1, <1>2, <1>4, <1>5, <1>6
       DEF Reached, ReadsHold, IsNewer, AfterCopy, AfterTables, AfterColumns,
           AfterHashes, AfterIndex
  <1> QED
    BY <1>1, <1>2, <1>4, <1>5, <1>7, SameLedger, OneOpens

LEMMA ReadHistoryKeeps ==
    ASSUME SchemaInv, NEW p \in Procs, Schema!ReadHistory(p)
    PROVE  SchemaInv'
  <1>1. /\ UNCHANGED <<past, db, backups>> /\ opener[p].at = "history"
        /\ opener[p].at \in AfterCopy
    BY DEF Schema!ReadHistory, Schema!Ran, Schema!Counted, AfterCopy
  <1>2. /\ Schema!Opening(p) /\ ~ IsNewer /\ db.version \in {0, 1}
        /\ past.tables => Saved
    BY <1>1, AtWork
  <1>3. Reached(p) /\ ReadsHold(p) /\ LedgerSound
    BY ProcStates
  <1>4. PICK at \in {"tables", "failed"} :
            /\ Schema!Go(p, at)
            /\ at = "failed" => db.history # 1..opener[p].seen
    BY DEF Schema!ReadHistory, Schema!Ran
  <1>5. at \in Schema!Ends \cup Schema!Steps
    BY DEF Schema!Ends, Schema!Steps
  <1>6. opener'[p].at = at /\ opener'[p].alone = opener[p].alone
    BY <1>4, <1>5, GoIs
  <1>7. Saved => Saved'
    BY <1>1, StaysSaved
  <1>8. Reached(p)'
    BY <1>1, <1>2, <1>6, <1>7
       DEF Reached, IsNewer, AfterCopy, AfterTables, AfterColumns,
           AfterHashes, AfterIndex
  <1>9. ReadsHold(p)'
    BY <1>1, <1>3, <1>4, <1>6 DEF ReadsHold, LedgerSound
  <1> QED
    BY <1>1, <1>2, <1>4, <1>5, <1>8, <1>9, GoesOn

\* A statement that changes the ledger while its version stays: the version
\* that is supported is not declared before it is all there.
LEMMA Upgrades ==
    ASSUME SchemaInv, NEW p \in Procs, opener[p].at \in AfterCopy,
           past' = past, backups' = backups, db' \in LedgerRows,
           db'.version = db.version, db'.history = db.history,
           db.tables => db'.tables,
           db.columns \subseteq db'.columns,
           ~ db.unhashed => ~ db'.unhashed,
           db.index => db'.index,
           db'.index => db'.doubles = 0
    PROVE  Upgraded /\ LedgerSound'
  <1>1. LedgerSound /\ db \in LedgerRows
    BY ProcStates
  <1>2. Saved => Saved'
    BY StaysSaved
  <1>3. ~ IsNewer /\ (past.tables => Saved)
    BY AtWork
  <1>4. db.columns = Columns => db'.columns = Columns
    BY DEF LedgerRows
  <1> QED
    BY <1>1, <1>2, <1>3, <1>4 DEF Upgraded, LedgerSound, IsNewer

LEMMA CreateTablesKeeps ==
    ASSUME SchemaInv, NEW p \in Procs, Schema!CreateTables(p)
    PROVE  SchemaInv'
  <1>1. /\ UNCHANGED <<past, backups>> /\ opener[p].at = "tables"
        /\ opener[p].at \in AfterCopy
        /\ Schema!Go(p, "look") /\ "look" \in Schema!Steps
    BY DEF Schema!CreateTables, Schema!Ran, Schema!Counted, AfterCopy,
           Schema!Steps
  <1>2. /\ Schema!Opening(p)
        /\ LedgerSound /\ db \in LedgerRows
    BY <1>1, AtWork, ProcStates
  <1>3. ~ IsNewer /\ (past.tables => Saved)
    BY <1>1, AtWork
  <1>4. /\ db' \in LedgerRows /\ db'.version = db.version
        /\ db'.history = db.history /\ db'.tables
        /\ db.columns \subseteq db'.columns
        /\ db'.unhashed = db.unhashed /\ db'.index = db.index
        /\ db'.doubles = db.doubles
    BY <1>2 DEF Schema!CreateTables, LedgerRows
  <1>5. Upgraded /\ LedgerSound'
    BY <1>1, <1>2, <1>4, Upgrades DEF LedgerSound
  <1>6. opener'[p].at = "look"
    BY <1>1, GoIs
  <1>7. Reached(p)' /\ ReadsHold(p)'
    <2>1. Saved => Saved'
      BY <1>1, StaysSaved
    <2> QED
      BY <1>1, <1>3, <1>4, <1>6, <2>1
         DEF Reached, ReadsHold, IsNewer, AfterCopy, AfterTables,
             AfterColumns, AfterHashes, AfterIndex
  <1> QED
    BY <1>1, <1>2, <1>5, <1>7, GoIs, OneOpens

LEMMA LookKeeps ==
    ASSUME SchemaInv, NEW p \in Procs, Schema!Look(p)
    PROVE  SchemaInv'
  <1> DEFINE at == IF Schema!Lacking = {} THEN "hashes" ELSE "alter"
             c == [opener[p] EXCEPT !.todo = Schema!Lacking, !.at = at]
  <1>1. /\ UNCHANGED <<past, db, backups>> /\ opener[p].at = "look"
        /\ opener[p].at \in AfterCopy /\ opener[p].at \in AfterTables
        /\ opener' = [opener EXCEPT ![p] = c]
    BY DEF Schema!Look, Schema!Counted, AfterCopy, AfterTables
  <1>2. /\ Schema!Opening(p)
        /\ Reached(p) /\ db \in LedgerRows
    BY <1>1, AtWork, ProcStates
  <1>3. ~ IsNewer /\ (past.tables => Saved)
    BY <1>1, AtWork
  <1>4. /\ Schema!Lacking \subseteq Columns
        /\ Schema!Lacking = Columns \ db.columns
        /\ Schema!Lacking = {} => db.columns = Columns
    BY <1>2 DEF Schema!Lacking, LedgerRows
  <1>5. /\ c \in Openers /\ c.todo = Schema!Lacking
        /\ c.alone = opener[p].alone
        /\ c.at = at /\ at \in {"hashes", "alter"}
        /\ at = "hashes" => db.columns = Columns
    BY <1>4, ProcStates DEF Openers, Schema!Steps
  <1> HIDE DEF c, at
  <1>6. /\ opener'[p] = c /\ \A q \in Procs \ {p} : opener'[q] = opener[q]
        /\ opener'[p] \in Openers /\ opener' \in [Procs -> Openers]
    BY <1>1, <1>5, MoveIs
  <1>7. Saved => Saved'
    BY <1>1, StaysSaved
  <1>8. Reached(p)'
    BY <1>1, <1>2, <1>3, <1>4, <1>5, <1>6, <1>7
       DEF Reached, IsNewer, AfterCopy, AfterTables, AfterColumns,
           AfterHashes, AfterIndex
  <1>9. ReadsHold(p)'
    BY <1>1, <1>4, <1>5, <1>6 DEF ReadsHold
  <1> QED
    BY <1>1, <1>2, <1>5, <1>6, <1>8, <1>9, SameLedger, OneOpens

LEMMA AlterKeeps ==
    ASSUME SchemaInv, NEW p \in Procs, Schema!Alter(p)
    PROVE  SchemaInv'
  <1>1. /\ UNCHANGED <<past, backups>> /\ opener[p].at = "alter"
        /\ opener[p].at \in AfterCopy /\ opener[p].at \in AfterTables
    BY DEF Schema!Alter, Schema!Counted, AfterCopy, AfterTables
  <1>2. /\ Schema!Opening(p) /\ Reached(p) /\ ReadsHold(p) /\ db \in LedgerRows
        /\ opener[p] \in Openers /\ LedgerSound
    BY <1>1, AtWork, ProcStates
  <1>3. ~ IsNewer /\ (past.tables => Saved) /\ (Saved => Saved')
    BY <1>1, AtWork, StaysSaved
  <1>4. PICK column \in opener[p].todo :
            IF column \in db.columns
            THEN Schema!Go(p, "failed") /\ UNCHANGED db
            ELSE /\ db' = [db EXCEPT !.columns = @ \cup {column}]
                 /\ opener' = [opener EXCEPT
                        ![p].todo = @ \ {column},
                        ![p].at = IF opener[p].todo = {column} THEN "hashes"
                                  ELSE @]
    BY DEF Schema!Alter
  <1>5. CASE column \in db.columns
    <2>1. Schema!Go(p, "failed") /\ db' = db /\ "failed" \in Schema!Ends
      BY <1>4, <1>5 DEF Schema!Ends
    <2>2. opener'[p].at = "failed" /\ opener'[p].alone = opener[p].alone
      BY <2>1, GoIs
    <2>3. ~ opener[p].alone
      BY <1>1, <1>2, <1>4, <1>5 DEF ReadsHold
    <2>4. Reached(p)' /\ ReadsHold(p)'
      BY <1>1, <1>3, <2>1, <2>2, <2>3
         DEF Reached, ReadsHold, IsNewer, Schema!Ends, AfterCopy, AfterTables,
             AfterColumns, AfterHashes, AfterIndex
    <2> QED
      BY <1>1, <1>2, <2>1, <2>4, GoesOn
  <1>6. CASE column \notin db.columns
    <2> DEFINE at == IF opener[p].todo = {column} THEN "hashes" ELSE "alter"
               todo == opener[p].todo \ {column}
               c == [opener[p] EXCEPT !.todo = todo, !.at = at]
    <2>1. opener' = [opener EXCEPT ![p] = c]
      BY <1>1, <1>4, <1>6, ProcStates
    <2>2. /\ c \in Openers /\ c.todo = todo /\ c.at = at
          /\ c.alone = opener[p].alone
      BY <1>2 DEF Openers, Schema!Steps
    <2>3. column \in Columns
      BY <1>2 DEF Openers
    <2>4. db' = [db EXCEPT !.columns = @ \cup {column}]
      BY <1>4, <1>6
    <2>5. /\ db' \in LedgerRows /\ db'.version = db.version
          /\ db'.history = db.history /\ db'.tables = db.tables
          /\ db'.columns = db.columns \cup {column}
          /\ db'.unhashed = db.unhashed /\ db'.index = db.index
          /\ db'.doubles = db.doubles
      BY <1>2, <2>3, <2>4 DEF LedgerRows
    <2>6. Upgraded /\ LedgerSound'
      BY <1>1, <1>2, <2>5, Upgrades DEF LedgerSound
    <2>7. /\ Columns \ db'.columns \subseteq todo
          /\ at = "hashes" => db'.columns = Columns
          /\ at \in {"alter", "hashes"}
      <3>1. Columns \ db.columns \subseteq opener[p].todo
            /\ db.columns \subseteq Columns
        BY <1>1, <1>2 DEF Reached, LedgerRows
      <3> QED
        BY <2>3, <2>5, <3>1
    <2>8. opener[p].alone => todo \cap db'.columns = {}
      BY <1>1, <1>2, <2>5 DEF ReadsHold
    <2>9. db'.tables
      BY <1>1, <1>2, <2>5 DEF Reached
    <2> HIDE DEF c, at, todo
    <2>10. /\ opener'[p] = c /\ \A q \in Procs \ {p} : opener'[q] = opener[q]
           /\ opener'[p] \in Openers /\ opener' \in [Procs -> Openers]
      BY <2>1, <2>2, MoveIs
    <2>11. Reached(p)'
      BY <1>1, <1>3, <2>2, <2>7, <2>9, <2>10
         DEF Reached, IsNewer, AfterCopy, AfterTables, AfterColumns,
             AfterHashes, AfterIndex
    <2>12. ReadsHold(p)'
      BY <2>2, <2>7, <2>8, <2>10 DEF ReadsHold
    <2> QED
      BY <1>2, <2>2, <2>6, <2>10, <2>11, <2>12, OneOpens
  <1> QED
    BY <1>5, <1>6

LEMMA BackfillKeeps ==
    ASSUME SchemaInv, NEW p \in Procs, Schema!Backfill(p)
    PROVE  SchemaInv'
  <1>1. /\ UNCHANGED <<past, backups>> /\ opener[p].at = "hashes"
        /\ opener[p].at \in AfterCopy /\ opener[p].at \in AfterTables
        /\ opener[p].at \in AfterColumns
        /\ Schema!Go(p, "doubles") /\ "doubles" \in Schema!Steps
        /\ db' = [db EXCEPT !.unhashed = FALSE]
    BY DEF Schema!Backfill, Schema!Ran, Schema!Counted, AfterCopy,
           AfterTables, AfterColumns, Schema!Steps
  <1>2. Schema!Opening(p) /\ Reached(p) /\ LedgerSound /\ db \in LedgerRows
    BY <1>1, AtWork, ProcStates
  <1>3. ~ IsNewer /\ (past.tables => Saved) /\ (Saved => Saved')
    BY <1>1, AtWork, StaysSaved
  <1>4. /\ db' \in LedgerRows /\ db'.version = db.version
        /\ db'.history = db.history /\ db'.tables = db.tables
        /\ db'.columns = db.columns /\ ~ db'.unhashed
        /\ db'.index = db.index /\ db'.doubles = db.doubles
    BY <1>1, <1>2 DEF LedgerRows
  <1>5. Upgraded /\ LedgerSound'
    BY <1>1, <1>2, <1>4, Upgrades DEF LedgerSound
  <1>6. opener'[p].at = "doubles"
    BY <1>1, GoIs
  <1>7. Reached(p)' /\ ReadsHold(p)'
    BY <1>1, <1>2, <1>3, <1>4, <1>6
       DEF Reached, ReadsHold, IsNewer, AfterCopy, AfterTables, AfterColumns,
           AfterHashes, AfterIndex
  <1> QED
    BY <1>1, <1>2, <1>5, <1>7, GoIs, OneOpens

LEMMA LookDoublesKeeps ==
    ASSUME SchemaInv, NEW p \in Procs, Schema!LookDoubles(p)
    PROVE  SchemaInv'
  <1> DEFINE c == [opener[p] EXCEPT !.at = "index", !.seen = db.doubles]
  <1>1. /\ UNCHANGED <<past, db, backups>> /\ opener[p].at = "doubles"
        /\ opener[p].at \in AfterCopy /\ opener[p].at \in AfterTables
        /\ opener[p].at \in AfterColumns /\ opener[p].at \in AfterHashes
        /\ opener' = [opener EXCEPT ![p] = c]
    BY DEF Schema!LookDoubles, Schema!Counted, AfterCopy, AfterTables,
           AfterColumns, AfterHashes
  <1>2. Schema!Opening(p) /\ Reached(p) /\ db \in LedgerRows
    BY <1>1, AtWork, ProcStates
  <1>3. ~ IsNewer /\ (past.tables => Saved) /\ (Saved => Saved')
    BY <1>1, AtWork, StaysSaved
  <1>4. /\ c \in Openers /\ c.at = "index" /\ c.seen = db.doubles
        /\ c.alone = opener[p].alone
    <2>1. PICK n \in Nat : n = db.doubles
      BY <1>2 DEF LedgerRows
    <2>2. c = [opener[p] EXCEPT !.at = "index", !.seen = n]
      BY <2>1
    <2> HIDE DEF c
    <2> QED
      BY <2>1, <2>2, ProcStates DEF Openers, Schema!Steps
  <1> HIDE DEF c
  <1>5. /\ opener'[p] = c /\ \A q \in Procs \ {p} : opener'[q] = opener[q]
        /\ opener'[p] \in Openers /\ opener' \in [Procs -> Openers]
    BY <1>1, <1>4, MoveIs
  <1>6. Reached(p)'
    BY <1>1, <1>2, <1>3, <1>4, <1>5
       DEF Reached, IsNewer, AfterCopy, AfterTables, AfterColumns,
           AfterHashes, AfterIndex
  <1>7. ReadsHold(p)'
    <2>1. db'.doubles <= c.seen
      BY <1>1, <1>2, <1>4 DEF LedgerRows
    <2> QED
      BY <1>4, <1>5, <2>1 DEF ReadsHold
  <1> QED
    BY <1>1, <1>2, <1>4, <1>5, <1>6, <1>7, SameLedger, OneOpens

LEMMA IndexKeeps ==
    ASSUME SchemaInv, NEW p \in Procs, Schema!Index(p)
    PROVE  SchemaInv'
  <1>1. /\ UNCHANGED <<past, backups>> /\ opener[p].at = "index"
        /\ opener[p].at \in AfterCopy /\ opener[p].at \in AfterTables
        /\ opener[p].at \in AfterColumns /\ opener[p].at \in AfterHashes
    BY DEF Schema!Index, Schema!Counted, AfterCopy, AfterTables, AfterColumns,
           AfterHashes
  <1>2. Schema!Opening(p) /\ Reached(p) /\ ReadsHold(p) /\ LedgerSound
        /\ db \in LedgerRows /\ opener[p].seen \in Nat
    BY <1>1, AtWork, ProcStates DEF Openers
  <1>3. ~ IsNewer /\ (past.tables => Saved) /\ (Saved => Saved')
    BY <1>1, AtWork, StaysSaved
  <1>4. CASE db.doubles > opener[p].seen
    <2>1. db.doubles - opener[p].seen > 0
      BY <1>2, <1>4 DEF LedgerRows
    <2>2. Schema!Go(p, "failed") /\ db' = db /\ "failed" \in Schema!Ends
      BY <1>4, <2>1 DEF Schema!Index, Schema!Ends
    <2>3. opener'[p].at = "failed" /\ opener'[p].alone = opener[p].alone
      BY <2>2, GoIs
    <2>4. ~ opener[p].alone
      BY <1>1, <1>2, <1>4 DEF ReadsHold, LedgerRows
    <2>5. Reached(p)' /\ ReadsHold(p)'
      BY <1>1, <1>3, <2>2, <2>3, <2>4
         DEF Reached, ReadsHold, IsNewer, Schema!Ends, AfterCopy, AfterTables,
             AfterColumns, AfterHashes, AfterIndex
    <2> QED
      BY <1>1, <1>2, <2>2, <2>5, GoesOn
  <1>5. CASE ~ (db.doubles > opener[p].seen)
    <2>1. /\ Schema!Go(p, "record") /\ "record" \in Schema!Steps
          /\ db' = [db EXCEPT !.doubles = 0, !.index = TRUE]
      BY <1>5 DEF Schema!Index, Schema!Steps
    <2>2. /\ db' \in LedgerRows /\ db'.version = db.version
          /\ db'.history = db.history /\ db'.tables = db.tables
          /\ db'.columns = db.columns /\ db'.unhashed = db.unhashed
          /\ db'.index /\ db'.doubles = 0
      BY <1>2, <2>1 DEF LedgerRows
    <2>3. Upgraded /\ LedgerSound'
      BY <1>1, <2>2, Upgrades
    <2>4. opener'[p].at = "record"
      BY <2>1, GoIs
    <2>5. Reached(p)' /\ ReadsHold(p)'
      BY <1>1, <1>2, <1>3, <2>2, <2>4
         DEF Reached, ReadsHold, IsNewer, AfterCopy, AfterTables,
             AfterColumns, AfterHashes, AfterIndex
    <2> QED
      BY <1>2, <2>1, <2>3, <2>5, GoIs, OneOpens
  <1> QED
    BY <1>4, <1>5

LEMMA RecordKeeps ==
    ASSUME SchemaInv, NEW p \in Procs, Schema!Record(p)
    PROVE  SchemaInv'
  <1>1. /\ UNCHANGED <<past, backups>> /\ opener[p].at = "record"
        /\ opener[p].at \in AfterCopy /\ opener[p].at \in AfterTables
        /\ opener[p].at \in AfterColumns /\ opener[p].at \in AfterHashes
        /\ opener[p].at \in AfterIndex
        /\ db' = [db EXCEPT !.history = @ \cup 1..Schema!Supported,
                            !.version = Schema!Supported]
    BY DEF Schema!Record, Schema!Ran, Schema!Counted, AfterCopy, AfterTables,
           AfterColumns, AfterHashes, AfterIndex
  <1>2. Schema!Opening(p) /\ Reached(p) /\ LedgerSound /\ db \in LedgerRows
        /\ db.version \in {0, 1}
    BY <1>1, AtWork, ProcStates
  <1>3. ~ IsNewer /\ (past.tables => Saved) /\ (Saved => Saved')
    BY <1>1, AtWork, StaysSaved
  <1>4. db.history \cup 1..Schema!Supported = 1..1
    BY <1>2 DEF LedgerSound, Schema!Supported
  <1>5. db' = [db EXCEPT !.history = 1..1, !.version = 1]
    BY <1>1, <1>4 DEF Schema!Supported
  <1>6. /\ db' \in LedgerRows /\ db'.version = 1 /\ db'.history = 1..1
        /\ db'.tables = db.tables /\ db'.columns = db.columns
        /\ db'.unhashed = db.unhashed /\ db'.index = db.index
        /\ db'.doubles = db.doubles
    <2>1. 1 \in 0..Schema!Supported + 1 /\ 1..1 \in SUBSET (1..Schema!Supported + 1)
      BY DEF Schema!Supported
    <2>2. PICK h \in SUBSET (1..Schema!Supported + 1) : h = 1..1
      BY <2>1
    <2>3. db' = [db EXCEPT !.history = h, !.version = 1]
      BY <1>5, <2>2
    <2> QED
      BY <1>2, <2>1, <2>2, <2>3 DEF LedgerRows
  <1>7. db.tables /\ db.columns = Columns /\ ~ db.unhashed /\ db.index
    BY <1>1, <1>2 DEF Reached
  <1>8. Upgraded
    BY <1>1, <1>6 DEF Upgraded
  <1>9. LedgerSound'
    BY <1>1, <1>2, <1>3, <1>6, <1>7 DEF LedgerSound, IsNewer, Schema!Supported
  <1>10. PICK at \in {"open", "audit"} : Schema!Go(p, at)
    BY DEF Schema!Record, Schema!Ran
  <1>11. opener'[p].at = at /\ at \in Schema!Ends \cup Schema!Steps
    BY <1>10, GoIs DEF Schema!Ends, Schema!Steps
  <1>12. Reached(p)' /\ ReadsHold(p)'
    BY <1>1, <1>2, <1>3, <1>6, <1>7, <1>11
       DEF Reached, ReadsHold, IsNewer, AfterCopy, AfterTables, AfterColumns,
           AfterHashes, AfterIndex
  <1> QED
    BY <1>2, <1>8, <1>9, <1>10, <1>11, <1>12, GoIs, OneOpens

LEMMA AuditKeeps ==
    ASSUME SchemaInv, NEW p \in Procs, Schema!Audit(p)
    PROVE  SchemaInv'
  <1>1. /\ UNCHANGED <<past, db, backups>> /\ Schema!Opening(p)
        /\ Schema!Go(p, "open") /\ "open" \in Schema!Ends
    BY DEF Schema!Audit, Schema!Ran, Schema!Counted, Schema!Opening,
           Schema!Steps, Schema!Ends
  <1>2. opener'[p].at = "open"
    BY <1>1, GoIs
  <1>3. Reached(p)' /\ ReadsHold(p)'
    BY <1>1, <1>2
       DEF Reached, ReadsHold, Schema!Ends, AfterCopy, AfterTables,
           AfterColumns, AfterHashes, AfterIndex
  <1> QED
    BY <1>1, <1>3, GoesOn

LEMMA OlderReviewKeeps ==
    ASSUME SchemaInv, Schema!OlderReview
    PROVE  SchemaInv'
  <1> DEFINE theirs(q) == [opener[q] EXCEPT !.alone = @ /\ ~ Schema!Opening(q)]
  <1>1. /\ UNCHANGED <<past, backups>> /\ ~ db.index
        /\ db' = [db EXCEPT !.doubles = @ + 1]
        /\ opener' = [q \in Procs |-> theirs(q)]
    BY DEF Schema!OlderReview
  <1>2. LedgerSound /\ db \in LedgerRows /\ PastsSound
    BY DEF SchemaInv, SchemaTypes
  <1>3. /\ db' \in LedgerRows /\ db'.version = db.version
        /\ db'.history = db.history /\ db'.tables = db.tables
        /\ db'.columns = db.columns /\ db'.unhashed = db.unhashed
        /\ db'.index = db.index
    BY <1>1, <1>2 DEF LedgerRows
  <1>4. ~ IsNewer
    BY <1>1, <1>2 DEF LedgerSound, PastsSound
  <1>5. Saved => Saved'
    BY <1>1, StaysSaved
  <1>6. Schema!Altered' <=> Schema!Altered
    <2>1. Schema!Settled(db') = Schema!Settled(db)
      BY <1>1, <1>2 DEF Schema!Settled, LedgerRows
    <2> QED
      BY <1>1, <2>1 DEF Schema!Altered, Schema!Settled
  <1>7. LedgerSound'
    BY <1>1, <1>2, <1>3, <1>4, <1>5, <1>6 DEF LedgerSound, IsNewer
  <1>8. ASSUME NEW q \in Procs
        PROVE  /\ theirs(q) \in Openers
               /\ theirs(q).at = opener[q].at
               /\ theirs(q).seen = opener[q].seen
               /\ theirs(q).todo = opener[q].todo
               /\ theirs(q).copy = opener[q].copy
               /\ theirs(q).alone => opener[q].alone /\ ~ Schema!Opening(q)
    BY ProcStates DEF Openers
  <1> HIDE DEF theirs
  <1>9. /\ \A q \in Procs : opener'[q] = theirs(q)
        /\ opener' \in [Procs -> Openers]
    BY <1>1, <1>8
  <1>10. ASSUME NEW q \in Procs
         PROVE  Reached(q)' /\ Apart(q)' /\ ReadsHold(q)'
    <2>1. Reached(q) /\ ReadsHold(q)
      BY ProcStates
    <2>2. Reached(q)'
      BY <1>1, <1>3, <1>5, <1>8, <1>9, <2>1
         DEF Reached, IsNewer, Schema!Settled
    <2>3. ReadsHold(q)' /\ Apart(q)'
      BY <1>1, <1>8, <1>9, <2>1
         DEF ReadsHold, Apart, Schema!Opening, Schema!Steps, IsNewer
    <2> QED
      BY <2>2, <2>3
  <1>11. SchemaTypes' /\ PastsSound'
    BY <1>1, <1>3, <1>9 DEF SchemaInv, SchemaTypes, PastsSound, IsNewer
  <1> QED
    BY <1>7, <1>10, <1>11 DEF SchemaInv

-----------------------------------------------------------------------------
LEMMA SchemaInitInv == ASSUME Schema!Init, PastsSound PROVE SchemaInv
  <1>1. Schema!Idle \in Openers /\ Schema!Idle.at = "closed"
    BY DEF Schema!Idle, Openers, LedgerRows, Schema!Empty, Schema!Ends,
           Schema!Steps, Schema!Supported
  <1>2. SchemaTypes
    BY <1>1 DEF Schema!Init, SchemaTypes, PastsSound
  <1>3. LedgerSound
    <2>1. ~ IsNewer => past.version <= Schema!Supported
      BY DEF PastsSound, IsNewer, LedgerRows, Schema!Supported
    <2>2. ~ Schema!Altered
      BY DEF Schema!Init, Schema!Altered
    <2> QED
      BY <2>1, <2>2 DEF Schema!Init, LedgerSound, PastsSound
  <1>4. ASSUME NEW p \in Procs PROVE Reached(p) /\ Apart(p) /\ ReadsHold(p)
    <2>1. opener[p] = Schema!Idle
      BY DEF Schema!Init
    <2> QED
      BY <1>1, <2>1
         DEF Reached, Apart, ReadsHold, Schema!Opening, Schema!Ends,
             Schema!Steps, AfterCopy, AfterTables, AfterColumns, AfterHashes,
             AfterIndex
  <1> QED
    BY <1>2, <1>3, <1>4 DEF SchemaInv

LEMMA SchemaNextInv == ASSUME SchemaInv, Schema!Next PROVE SchemaInv'
  BY StartKeeps, CrashKeeps, InspectKeeps, CopyKeeps, BackupFailsKeeps,
     ManifestKeeps, ReadVersionKeeps, ReadHistoryKeeps, CreateTablesKeeps,
     LookKeeps, AlterKeeps, BackfillKeeps, LookDoublesKeeps, IndexKeeps,
     RecordKeeps, AuditKeeps, OlderReviewKeeps
     DEF Schema!Next

LEMMA UpgradedInv == ASSUME SchemaInv PROVE Schema!SchemaUpgraded
  <1>1. Schema!BackedUpFirst
    BY DEF SchemaInv, LedgerSound, Schema!BackedUpFirst, Saved
  <1>2. Schema!CompleteWhenCurrent
    BY DEF SchemaInv, LedgerSound, IsNewer, Schema!CompleteWhenCurrent,
           Schema!Altered
  <1>3. Schema!AloneOpens
    BY DEF SchemaInv, ReadsHold, IsNewer, Schema!AloneOpens
  <1> QED
    BY <1>1, <1>2, <1>3 DEF Schema!SchemaUpgraded

LEMMA SchemaStutters ==
    ASSUME SchemaInv, UNCHANGED schemaVars PROVE SchemaInv'
  BY ZenonT(60)
     DEF schemaVars, SchemaInv, SchemaTypes, PastsSound, LedgerSound, IsNewer,
         Saved, Reached, Apart, ReadsHold, Schema!Opening, Schema!Altered,
         Schema!Settled

\* What is known of the ledgers that are found.
LEMMA FoundSound == ASSUME past \in {Old, New, Newer} PROVE PastsSound
  <1>1. /\ {} \in SUBSET (1..Schema!Supported + 1)
        /\ {1, 2} \in SUBSET (1..Schema!Supported + 1)
        /\ {0, 2} \subseteq 0..Schema!Supported + 1
    BY DEF Schema!Supported
  <1>2. PICK none \in SUBSET (1..Schema!Supported + 1),
             two \in SUBSET (1..Schema!Supported + 1) :
                 none = {} /\ two = {1, 2}
    BY <1>1
  <1>3. Old = [version |-> 0, history |-> none, tables |-> TRUE,
               columns |-> {}, unhashed |-> TRUE, doubles |-> 1,
               index |-> FALSE]
    BY <1>2 DEF Old
  <1>4. /\ Old \in LedgerRows /\ Old.version = 0 /\ Old.history = none
        /\ ~ Old.index
    BY <1>1, <1>3 DEF LedgerRows
  <1>5. PICK o \in LedgerRows : o = Old
    BY <1>4
  <1>6. New = [o EXCEPT !.tables = FALSE, !.unhashed = FALSE, !.doubles = 0]
    BY <1>5 DEF New
  <1>7. /\ New \in LedgerRows /\ New.version = 0 /\ New.history = none
        /\ ~ New.index
    BY <1>4, <1>5, <1>6 DEF LedgerRows
  <1>8. PICK v \in 0..Schema!Supported + 1 : v = 2
    BY <1>1
  <1>9. Newer = [o EXCEPT !.version = v, !.history = two, !.columns = Columns,
                          !.index = TRUE, !.doubles = 0]
    BY <1>2, <1>5, <1>8 DEF Newer
  <1>10. /\ Newer \in LedgerRows /\ Newer.version = 2
         /\ Newer.history = two /\ Newer.index /\ Newer.doubles = 0
    BY <1>8, <1>9 DEF LedgerRows
  <1>11. none = 1..0 /\ two = 1..2
    BY <1>2
  <1>12. CASE past \in {Old, New}
    <2>1. past.version = 0 /\ past.history = 1..0 /\ ~ past.index
      BY <1>4, <1>7, <1>11, <1>12
    <2>2. past \in LedgerRows
      BY <1>4, <1>7, <1>12
    <2> QED
      BY <2>1, <2>2 DEF PastsSound, IsNewer, Schema!Supported
  <1>13. CASE past = Newer
    <2>1. /\ past.version = 2 /\ past.history = 1..2
          /\ past.index /\ past.doubles = 0 /\ past \in LedgerRows
      BY <1>10, <1>11, <1>13
    <2> QED
      BY <2>1 DEF PastsSound, IsNewer, Schema!Supported
  <1> QED
    BY <1>12, <1>13

-----------------------------------------------------------------------------
(***************************************************************************)
(* The mirror of Wave's entities, for any page size and any number of      *)
(* pages, runs and edits.  What a sync collects over its pages is the      *)
(* whole of a collection that Wave once had: as long as Wave gives the     *)
(* same total and an addition does not make up for a removal, nothing has  *)
(* happened since the first page (Traverses), and as many different        *)
(* entities as that total are all of them.  The properties of the pages    *)
(* are not needed, but that a page shows what is in Wave.                  *)
(***************************************************************************)
\* There are finitely many entities, and the numbers are numbers.
MirrorBounds ==
    IsFiniteSet(Entities) /\ MaxRuns \in Nat /\ PageSize \in Nat \ {0}

\* A process and its sync.
Syncs == [at : {"idle", "fetch", "store", "mark", "fail", "finish", "dead"},
          run : Mirror!Runs \cup {Mirror!NoRun}, page : Nat \ {0},
          total : Nat \cup {Mirror!NoTotal}, seen : SUBSET Entities,
          left : Seq(Entities), last : BOOLEAN]

\* wave_sync_runs
SyncRuns == [Mirror!Runs -> {"none", "running", "completed", "failed"}]

Presence == [presence : {"none", "present", "missing_downstream"},
             run : Mirror!Runs \cup {Mirror!NoRun}]

MirrorTypes ==
    /\ shelf \in Seq(Entities) /\ Mirror!IsInjective(shelf)
    /\ mirror \in [Entities -> Presence]
    /\ syncRun \in SyncRuns
    /\ syncProc \in [Procs -> Syncs]
    /\ always \in [Procs -> SUBSET Entities]
    /\ never \in [Procs -> SUBSET Entities]
    /\ since \in [Procs -> SUBSET {"add", "remove"}]
    /\ disturbed \in [Procs -> BOOLEAN]

\* The rows are taken in order, and a row is no one's before it is taken.
RunsInOrder ==
    \E n \in 0..MaxRuns :
        /\ \A r \in Mirror!Runs : syncRun[r] # "none" <=> r <= n
        /\ \A e \in Entities : mirror[e].run <= n
        /\ \A p \in Procs : syncProc[p].run <= n

Undisturbed(p) ==
    Mirror!Syncing(p) /\ ~ disturbed[p] /\ syncProc[p].at # "fail"

Watched(p) ==
    /\ always[p] \subseteq Mirror!ToSet(shelf)
    /\ never[p] \cap Mirror!ToSet(shelf) = {}

OnlyOne(p) ==
    Mirror!Syncing(p) /\ ~ disturbed[p] =>
        \A q \in Procs \ {p} : ~ Mirror!Syncing(q)

\* The collection X that the sync traverses: the shelf while nothing happened
\* in Wave since the last page; and the shelf has another length if there
\* were only additions or only removals.
Traverses(p, X) ==
    /\ Cardinality(X) = syncProc[p].total
    /\ syncProc[p].seen \cup Mirror!ToSet(syncProc[p].left) \subseteq X
    /\ always[p] \subseteq X /\ never[p] \cap X = {}
    /\ since[p] = {} => X = Mirror!ToSet(shelf)
    /\ since[p] = {"add"} => Len(shelf) > syncProc[p].total
    /\ since[p] = {"remove"} => Len(shelf) < syncProc[p].total

Traversal(p) ==
    Undisturbed(p) =>
        IF syncProc[p].total = Mirror!NoTotal
        THEN syncProc[p].at = "fetch" /\ syncProc[p].seen = {}
        ELSE \E X \in SUBSET Entities : Traverses(p, X)

\* What the run has stored is present, and nothing else carries its mark.
Stored(p) ==
    Undisturbed(p) =>
        /\ syncProc[p].at \in {"fetch", "store", "mark"} =>
            \A e \in Entities :
                /\ mirror[e].run = syncProc[p].run <=> e \in syncProc[p].seen
                /\ e \in syncProc[p].seen => mirror[e].presence = "present"
        /\ syncProc[p].at \in {"mark", "finish"} => Mirror!Captured(p)
        /\ syncProc[p].at = "finish" =>
            \A e \in Entities :
                mirror[e].presence = "present" <=> e \in syncProc[p].seen

MirrorInv ==
    /\ MirrorTypes /\ RunsInOrder
    /\ \A p \in Procs : Watched(p) /\ OnlyOne(p) /\ Traversal(p) /\ Stored(p)
-----------------------------------------------------------------------------
LEMMA MirrorCounts == \A S : Mirror!Cardinality(S) = Cardinality(S)
  BY DEF Mirror!Cardinality, Cardinality

\* Lists without repetition.
LEMMA ShelfCount ==
    ASSUME IsFiniteSet(Entities), NEW s \in Seq(Entities),
           Mirror!IsInjective(s)
    PROVE  /\ Len(s) \in Nat /\ DOMAIN s = 1..Len(s)
           /\ Mirror!ToSet(s) \in SUBSET Entities
           /\ Cardinality(Mirror!ToSet(s)) = Len(s)
  <1>1. Len(s) \in Nat /\ DOMAIN s = 1..Len(s) /\ s \in [1..Len(s) -> Entities]
    BY LenProperties
  <1>2. Mirror!ToSet(s) \in SUBSET Entities
    BY <1>1 DEF Mirror!ToSet
  <1>3. s \in Bijection(1..Len(s), Mirror!ToSet(s))
    BY <1>1
       DEF Mirror!ToSet, Bijection, Injection, Surjection,
           Mirror!IsInjective, IsInjective
  <1>4. ExistsBijection(1..Len(s), Mirror!ToSet(s))
    BY <1>3 DEF ExistsBijection
  <1> QED
    BY <1>1, <1>2, <1>4, FS_CountingElements

LEMMA AddedLast ==
    ASSUME NEW s \in Seq(Entities), Mirror!IsInjective(s),
           NEW e \in Entities \ Mirror!ToSet(s)
    PROVE  /\ Append(s, e) \in Seq(Entities)
           /\ Mirror!IsInjective(Append(s, e))
           /\ Mirror!ToSet(Append(s, e)) = Mirror!ToSet(s) \cup {e}
           /\ Len(Append(s, e)) = Len(s) + 1
  <1> DEFINE t == Append(s, e)
  <1>1. /\ Len(s) \in Nat /\ DOMAIN s = 1..Len(s)
        /\ \A i \in 1..Len(s) : s[i] \in Mirror!ToSet(s)
    BY LenProperties DEF Mirror!ToSet
  <1>2. /\ t \in Seq(Entities) /\ Len(t) = Len(s) + 1
        /\ DOMAIN t = 1..(Len(s) + 1)
        /\ \A i \in 1..Len(s) : t[i] = s[i]
        /\ t[Len(s) + 1] = e
    BY <1>1
  <1> HIDE DEF t
  <1>3. Mirror!IsInjective(t)
    <2> SUFFICES ASSUME NEW i \in DOMAIN t, NEW j \in DOMAIN t, t[i] = t[j]
                 PROVE  i = j
      BY DEF Mirror!IsInjective
    <2>1. CASE i \in 1..Len(s) /\ j \in 1..Len(s)
      BY <2>1, <1>1, <1>2 DEF Mirror!IsInjective
    <2>2. CASE i = Len(s) + 1 \/ j = Len(s) + 1
      BY <2>2, <1>1, <1>2
    <2> QED
      BY <2>1, <2>2, <1>1, <1>2
  <1>4. Mirror!ToSet(t) = Mirror!ToSet(s) \cup {e}
    <2>1. ASSUME NEW x \in Mirror!ToSet(t) PROVE x \in Mirror!ToSet(s) \cup {e}
      <3>1. PICK i \in DOMAIN t : x = t[i]
        BY <2>1 DEF Mirror!ToSet
      <3> QED
        BY <3>1, <1>1, <1>2
    <2>2. ASSUME NEW x \in Mirror!ToSet(s) PROVE x \in Mirror!ToSet(t)
      <3>1. PICK i \in DOMAIN s : x = s[i]
        BY <2>2 DEF Mirror!ToSet
      <3>2. i \in DOMAIN t /\ x = t[i]
        BY <3>1, <1>1, <1>2
      <3> QED
        BY <3>2 DEF Mirror!ToSet
    <2>3. e \in Mirror!ToSet(t)
      <3>1. Len(s) + 1 \in DOMAIN t
        BY <1>1, <1>2
      <3> QED
        BY <3>1, <1>2 DEF Mirror!ToSet
    <2> QED
      BY <2>1, <2>2, <2>3
  <1> QED
    BY <1>2, <1>3, <1>4 DEF t

LEMMA AddedFirst ==
    ASSUME NEW s \in Seq(Entities), Mirror!IsInjective(s),
           NEW e \in Entities \ Mirror!ToSet(s)
    PROVE  /\ <<e>> \o s \in Seq(Entities) /\ Mirror!IsInjective(<<e>> \o s)
           /\ Mirror!ToSet(<<e>> \o s) = Mirror!ToSet(s) \cup {e}
           /\ Len(<<e>> \o s) = Len(s) + 1
  <1> DEFINE t == <<e>> \o s
  <1>1. /\ Len(s) \in Nat /\ DOMAIN s = 1..Len(s)
        /\ \A i \in 1..Len(s) : s[i] \in Mirror!ToSet(s)
    BY LenProperties DEF Mirror!ToSet
  <1>2. /\ <<e>> \in Seq(Entities) /\ Len(<<e>>) = 1 /\ <<e>>[1] = e
    OBVIOUS
  <1>3. /\ t \in Seq(Entities) /\ Len(t) = 1 + Len(s)
        /\ \A i \in 1..(1 + Len(s)) : t[i] = IF i <= 1 THEN <<e>>[i]
                                           ELSE s[i - 1]
    BY <1>2, ConcatProperties
  <1> HIDE DEF t
  <1>4. /\ DOMAIN t = 1..(1 + Len(s)) /\ t[1] = e
        /\ \A i \in 2..(1 + Len(s)) : t[i] = s[i - 1] /\ i - 1 \in DOMAIN s
    BY <1>1, <1>2, <1>3, LenProperties
  <1>5. Mirror!IsInjective(t)
    <2> SUFFICES ASSUME NEW i \in DOMAIN t, NEW j \in DOMAIN t, t[i] = t[j]
                 PROVE  i = j
      BY DEF Mirror!IsInjective
    <2>1. CASE i # 1 /\ j # 1
      <3>1. s[i - 1] = s[j - 1] /\ i - 1 \in DOMAIN s /\ j - 1 \in DOMAIN s
        BY <2>1, <1>1, <1>4
      <3>2. i - 1 = j - 1
        BY <3>1 DEF Mirror!IsInjective
      <3> QED
        BY <3>2, <1>1, <1>4
    <2>2. CASE i = 1 \/ j = 1
      BY <2>2, <1>1, <1>4
    <2> QED
      BY <2>1, <2>2
  <1>6. Mirror!ToSet(t) = Mirror!ToSet(s) \cup {e}
    <2>1. ASSUME NEW x \in Mirror!ToSet(t) PROVE x \in Mirror!ToSet(s) \cup {e}
      <3>1. PICK i \in DOMAIN t : x = t[i]
        BY <2>1 DEF Mirror!ToSet
      <3> QED
        BY <3>1, <1>1, <1>4
    <2>2. ASSUME NEW x \in Mirror!ToSet(s) PROVE x \in Mirror!ToSet(t)
      <3>1. PICK i \in DOMAIN s : x = s[i]
        BY <2>2 DEF Mirror!ToSet
      <3>2. i + 1 \in DOMAIN t /\ x = t[i + 1]
        BY <3>1, <1>1, <1>4
      <3> QED
        BY <3>2 DEF Mirror!ToSet
    <2>3. e \in Mirror!ToSet(t)
      BY <1>1, <1>4 DEF Mirror!ToSet
    <2> QED
      BY <2>1, <2>2, <2>3
  <1> QED
    BY <1>1, <1>3, <1>5, <1>6 DEF t

LEMMA TakenOut ==
    ASSUME NEW s \in Seq(Entities), Mirror!IsInjective(s), NEW i \in DOMAIN s
    PROVE  /\ Mirror!RemoveAt(s, i) \in Seq(Entities)
           /\ Mirror!IsInjective(Mirror!RemoveAt(s, i))
           /\ Mirror!ToSet(Mirror!RemoveAt(s, i)) \subseteq Mirror!ToSet(s)
           /\ Len(Mirror!RemoveAt(s, i)) = Len(s) - 1
  <1> DEFINE a == SubSeq(s, 1, i - 1)
             b == SubSeq(s, i + 1, Len(s))
             t == Mirror!RemoveAt(s, i)
             from == [j \in 1..(Len(s) - 1) |-> IF j < i THEN j ELSE j + 1]
  <1>1. /\ Len(s) \in Nat /\ DOMAIN s = 1..Len(s) /\ i \in 1..Len(s)
        /\ \A j \in 1..Len(s) : s[j] \in Entities
    BY LenProperties, ElementOfSeq
  <1>2. /\ a \in Seq(Entities) /\ Len(a) = i - 1
        /\ \A j \in 1..(i - 1) : a[j] = s[j]
    <2>1. \A j \in 1..(i - 1) : s[j] \in Entities
      BY <1>1
    <2>2. 1 \in Int /\ i - 1 \in Int
      BY <1>1
    <2> HIDE DEF a
    <2>3. /\ a \in Seq(Entities)
          /\ Len(a) = IF 1 <= i - 1 THEN (i - 1) - 1 + 1 ELSE 0
          /\ \A j \in 1..((i - 1) - 1 + 1) : a[j] = s[1 + j - 1]
      BY <2>1, <2>2, SubSeqProperties DEF a
    <2>4. \A j \in 1..(i - 1) : a[j] = s[j]
      <3> SUFFICES ASSUME NEW j \in 1..(i - 1) PROVE a[j] = s[j]
        OBVIOUS
      <3>1. j \in 1..((i - 1) - 1 + 1) /\ 1 + j - 1 = j
        BY <1>1
      <3> QED
        BY <2>3, <3>1
    <2> QED
      BY <1>1, <2>3, <2>4
  <1>3. /\ b \in Seq(Entities) /\ Len(b) = Len(s) - i
        /\ \A j \in 1..(Len(s) - i) : b[j] = s[i + j]
    <2>1. \A j \in (i + 1)..Len(s) : s[j] \in Entities
      BY <1>1
    <2>2. i + 1 \in Int /\ Len(s) \in Int
      BY <1>1
    <2> HIDE DEF b
    <2>3. /\ b \in Seq(Entities)
          /\ Len(b) = IF i + 1 <= Len(s) THEN Len(s) - (i + 1) + 1 ELSE 0
          /\ \A j \in 1..(Len(s) - (i + 1) + 1) : b[j] = s[(i + 1) + j - 1]
      BY <2>1, <2>2, SubSeqProperties DEF b
    <2>4. \A j \in 1..(Len(s) - i) : b[j] = s[i + j]
      <3> SUFFICES ASSUME NEW j \in 1..(Len(s) - i) PROVE b[j] = s[i + j]
        OBVIOUS
      <3>1. /\ j \in 1..(Len(s) - (i + 1) + 1)
            /\ (i + 1) + j - 1 = i + j
        BY <1>1
      <3> QED
        BY <2>3, <3>1
    <2> QED
      BY <1>1, <2>3, <2>4
  <1>4. t = a \o b
    BY DEF Mirror!RemoveAt
  <1> HIDE DEF a, b, t
  <1>5. /\ t \in Seq(Entities) /\ Len(t) = (i - 1) + (Len(s) - i)
        /\ \A j \in 1..((i - 1) + (Len(s) - i)) :
               t[j] = IF j <= i - 1 THEN a[j] ELSE b[j - (i - 1)]
    BY <1>2, <1>3, <1>4, ConcatProperties
  <1>6. /\ Len(t) = Len(s) - 1 /\ DOMAIN t = 1..(Len(s) - 1)
        /\ \A j \in DOMAIN t : t[j] = s[from[j]] /\ from[j] \in DOMAIN s
    <2>1. Len(t) = Len(s) - 1 /\ DOMAIN t = 1..(Len(s) - 1)
      BY <1>1, <1>5, LenProperties
    <2>2. ASSUME NEW j \in 1..(Len(s) - 1), j < i
          PROVE  t[j] = s[j] /\ from[j] = j /\ j \in DOMAIN s
      BY <1>1, <1>2, <1>5, <2>2
    <2>3. ASSUME NEW j \in 1..(Len(s) - 1), ~ (j < i)
          PROVE  t[j] = s[j + 1] /\ from[j] = j + 1 /\ j + 1 \in DOMAIN s
      <3>1. t[j] = b[j - (i - 1)] /\ j - (i - 1) \in 1..(Len(s) - i)
        BY <1>1, <1>5, <2>3
      <3>2. b[j - (i - 1)] = s[i + (j - (i - 1))]
        BY <1>3, <3>1
      <3>3. i + (j - (i - 1)) = j + 1
        BY <1>1
      <3> QED
        BY <1>1, <2>3, <3>1, <3>2, <3>3
    <2> QED
      BY <2>1, <2>2, <2>3
  <1>7. \A j, k \in DOMAIN t : from[j] = from[k] => j = k
    BY <1>1, <1>6
  <1> HIDE DEF from
  <1>8. Mirror!IsInjective(t)
    BY <1>6, <1>7 DEF Mirror!IsInjective
  <1>9. Mirror!ToSet(t) \subseteq Mirror!ToSet(s)
    BY <1>6 DEF Mirror!ToSet
  <1> QED
    BY <1>5, <1>6, <1>8, <1>9 DEF t

-----------------------------------------------------------------------------
LEMMA SyncOf ==
    ASSUME MirrorInv, NEW p \in Procs
    PROVE  /\ syncProc \in [Procs -> Syncs] /\ syncProc[p] \in Syncs
           /\ Watched(p) /\ OnlyOne(p) /\ Traversal(p) /\ Stored(p)
           /\ MirrorTypes /\ RunsInOrder
  BY DEF MirrorInv, MirrorTypes

LEMMA IdleSyncs ==
    /\ Mirror!Idle \in Syncs /\ Mirror!Idle.at = "idle"
    /\ Mirror!Idle.run = Mirror!NoRun
    /\ Mirror!Idle.total = Mirror!NoTotal /\ Mirror!Idle.seen = {}
  BY DEF Mirror!Idle, Syncs, Mirror!NoRun, Mirror!NoTotal

\* A process p that syncs takes a step.  A sync that was not disturbed is
\* that of p.
LEMMA SyncStep ==
    ASSUME MirrorBounds, MirrorInv, NEW p \in Procs, Mirror!Syncing(p),
           NEW c \in Syncs,
           syncProc' = [syncProc EXCEPT ![p] = c],
           UNCHANGED <<shelf, always, never>>,
           MirrorTypes',
           \A q \in Procs : disturbed[q] => disturbed'[q],
           \A r \in Mirror!Runs : syncRun'[r] # "none" <=> syncRun[r] # "none",
           \A e \in Entities :
               mirror'[e].run \in {mirror[e].run, syncProc[p].run},
           c.run \in {Mirror!NoRun, syncProc[p].run},
           Traversal(p)', Stored(p)'
    PROVE  MirrorInv'
  <1>1. /\ syncProc \in [Procs -> Syncs] /\ syncProc'[p] = c
        /\ \A q \in Procs \ {p} : syncProc'[q] = syncProc[q]
    BY SyncOf
  <1>2. RunsInOrder'
    <2>1. PICK n \in 0..MaxRuns :
              /\ \A r \in Mirror!Runs : syncRun[r] # "none" <=> r <= n
              /\ \A e \in Entities : mirror[e].run <= n
              /\ \A q \in Procs : syncProc[q].run <= n
      BY SyncOf DEF RunsInOrder
    <2>2. \A q \in Procs : syncProc'[q].run <= n
      BY <1>1, <2>1 DEF MirrorBounds, Mirror!NoRun
    <2>3. \A e \in Entities : mirror'[e].run <= n
      BY <2>1
    <2>4. \A r \in Mirror!Runs : syncRun'[r] # "none" <=> r <= n
      BY <2>1
    <2> QED
      BY <2>2, <2>3, <2>4 DEF RunsInOrder
  <1>3. ASSUME NEW q \in Procs, q # p
        PROVE  ~ (Mirror!Syncing(q)' /\ ~ disturbed'[q])
    <2>1. ~ (Mirror!Syncing(q) /\ ~ disturbed[q])
      BY <1>3, SyncOf DEF OnlyOne
    <2> QED
      BY <1>1, <1>3, <2>1 DEF Mirror!Syncing
  <1>4. ASSUME NEW q \in Procs
        PROVE  Watched(q)' /\ OnlyOne(q)' /\ Traversal(q)' /\ Stored(q)'
    <2>1. Watched(q)'
      BY SyncOf DEF Watched
    <2>2. CASE q # p
      BY <2>1, <2>2, <1>3 DEF OnlyOne, Traversal, Stored, Undisturbed
    <2>3. CASE q = p
      <3>1. OnlyOne(p)'
        BY <1>1, SyncOf DEF OnlyOne, Mirror!Syncing
      <3> QED
        BY <2>1, <2>3, <3>1
    <2> QED
      BY <2>2, <2>3
  <1> QED
    BY <1>2, <1>4 DEF MirrorInv

\* The same where only the process changes.
LEMMA OnlySync ==
    ASSUME MirrorBounds, MirrorInv, NEW p \in Procs, Mirror!Syncing(p),
           NEW c \in Syncs,
           syncProc' = [syncProc EXCEPT ![p] = c],
           UNCHANGED <<shelf, mirror, always, never, since, disturbed>>,
           syncRun' \in SyncRuns,
           \A r \in Mirror!Runs : syncRun'[r] # "none" <=> syncRun[r] # "none",
           c.run \in {Mirror!NoRun, syncProc[p].run},
           Traversal(p)', Stored(p)'
    PROVE  MirrorInv'
  <1>1. MirrorTypes'
    BY SyncOf DEF MirrorTypes
  <1> QED
    BY <1>1, SyncStep

LEMMA GotoIs ==
    ASSUME MirrorInv, NEW p \in Procs,
           NEW at \in {"idle", "fetch", "store", "mark", "fail", "finish",
                       "dead"}, Mirror!Goto(p, at)
    PROVE  \E c \in Syncs :
               /\ syncProc' = [syncProc EXCEPT ![p] = c] /\ syncProc'[p] = c
               /\ c.at = at /\ c.run = syncProc[p].run
               /\ c.page = syncProc[p].page
               /\ c.total = syncProc[p].total /\ c.seen = syncProc[p].seen
               /\ c.left = syncProc[p].left /\ c.last = syncProc[p].last
  <1> DEFINE c == [syncProc[p] EXCEPT !.at = at]
  <1>1. syncProc \in [Procs -> Syncs] /\ syncProc[p] \in Syncs
    BY SyncOf
  <1>2. c \in Syncs /\ c.at = at
        /\ c.run = syncProc[p].run /\ c.page = syncProc[p].page
        /\ c.total = syncProc[p].total /\ c.seen = syncProc[p].seen
        /\ c.left = syncProc[p].left /\ c.last = syncProc[p].last
    BY <1>1 DEF Syncs
  <1>3. syncProc' = [syncProc EXCEPT ![p] = c]
    BY DEF Mirror!Goto
  <1> HIDE DEF c
  <1>4. syncProc'[p] = c
    BY <1>1, <1>3
  <1> QED
    BY <1>2, <1>3, <1>4

\* A sync that ends, or is on its way to its failure.
LEMMA Leaves ==
    ASSUME MirrorBounds, MirrorInv, NEW p \in Procs, Mirror!Syncing(p),
           NEW c \in Syncs,
           syncProc' = [syncProc EXCEPT ![p] = c], c.at \in {"idle", "fail",
           "dead"},
           UNCHANGED <<shelf, mirror, always, never>>,
           since' \in [Procs -> SUBSET {"add", "remove"}],
           disturbed' \in [Procs -> BOOLEAN],
           \A q \in Procs : disturbed[q] => disturbed'[q],
           syncRun' \in SyncRuns,
           \A r \in Mirror!Runs : syncRun'[r] # "none" <=> syncRun[r] # "none",
           c.run \in {Mirror!NoRun, syncProc[p].run}
    PROVE  MirrorInv'
  <1>1. syncProc'[p] = c /\ syncProc \in [Procs -> Syncs]
    BY SyncOf
  <1>2. Traversal(p)' /\ Stored(p)'
    BY <1>1 DEF Traversal, Stored, Undisturbed, Mirror!Syncing
  <1>3. MirrorTypes'
    BY SyncOf DEF MirrorTypes
  <1> QED
    BY <1>2, <1>3, SyncStep

LEMMA FinishKeeps ==
    ASSUME MirrorBounds, MirrorInv, NEW p \in Procs, Mirror!Finish(p)
    PROVE  MirrorInv'
  <1>1. /\ syncProc[p].at \in {"finish", "fail"} /\ Mirror!Syncing(p)
        /\ syncProc' = [syncProc EXCEPT ![p] = Mirror!Idle]
        /\ UNCHANGED <<shelf, mirror, always, never, since, disturbed>>
    BY DEF Mirror!Finish, Mirror!Syncing, Mirror!observed
  <1>2. PICK s \in {"completed", "failed"} :
            syncRun' = [syncRun EXCEPT ![syncProc[p].run] = s]
    BY DEF Mirror!Finish
  <1>3. syncRun \in SyncRuns
    BY SyncOf DEF MirrorTypes
  <1>4. PICK n \in 0..MaxRuns :
            /\ \A r \in Mirror!Runs : syncRun[r] # "none" <=> r <= n
            /\ \A q \in Procs : syncProc[q].run <= n
    BY SyncOf DEF RunsInOrder
  <1>5. \A r \in Mirror!Runs : syncRun'[r] # "none" <=> syncRun[r] # "none"
    <2>1. ASSUME NEW r \in Mirror!Runs, r = syncProc[p].run
          PROVE  syncRun[r] # "none"
      BY <1>4, <2>1
    <2> QED
      BY <1>2, <1>3, <2>1 DEF SyncRuns
  <1>6. syncRun' \in SyncRuns
    BY <1>2, <1>3 DEF SyncRuns
  <1>7. /\ since' \in [Procs -> SUBSET {"add", "remove"}]
        /\ disturbed' \in [Procs -> BOOLEAN]
    BY <1>1, SyncOf DEF MirrorTypes
  <1> QED
    BY <1>1, <1>5, <1>6, <1>7, IdleSyncs, Leaves

LEMMA EndKeeps ==
    ASSUME MirrorBounds, MirrorInv, NEW p \in Procs,
           Mirror!Fail(p) \/ Mirror!Die(p)
    PROVE  MirrorInv'
  <1>1. PICK at \in {"fail", "dead"} :
            /\ Mirror!Goto(p, at) /\ Mirror!Syncing(p)
            /\ UNCHANGED <<shelf, mirror, syncRun, always, never, since,
                           disturbed>>
    BY DEF Mirror!Fail, Mirror!Die, Mirror!Syncing, Mirror!observed
  <1>2. PICK c \in Syncs : /\ syncProc' = [syncProc EXCEPT ![p] = c]
                           /\ c.at = at /\ c.run = syncProc[p].run
    BY <1>1, GotoIs
  <1>3. /\ since' \in [Procs -> SUBSET {"add", "remove"}]
        /\ disturbed' \in [Procs -> BOOLEAN]
        /\ syncRun' \in SyncRuns
    BY <1>1, SyncOf DEF MirrorTypes
  <1> QED
    BY <1>1, <1>2, <1>3, Leaves

\* A process that is no longer there is started again.
LEMMA RestartKeeps ==
    ASSUME MirrorBounds, MirrorInv, NEW p \in Procs, Mirror!Restart(p)
    PROVE  MirrorInv'
  <1>1. /\ syncProc' = [syncProc EXCEPT ![p] = Mirror!Idle]
        /\ ~ Mirror!Syncing(p)
        /\ UNCHANGED <<shelf, mirror, syncRun, always, never, since,
                       disturbed>>
    BY DEF Mirror!Restart, Mirror!observed, Mirror!Syncing
  <1>2. /\ syncProc'[p] = Mirror!Idle
        /\ \A q \in Procs \ {p} : syncProc'[q] = syncProc[q]
        /\ syncProc' \in [Procs -> Syncs] /\ MirrorTypes
    BY <1>1, SyncOf, IdleSyncs
  <1>3. MirrorTypes'
    BY <1>1, <1>2 DEF MirrorTypes
  <1>4. RunsInOrder'
    <2>1. PICK n \in 0..MaxRuns :
              /\ \A r \in Mirror!Runs : syncRun[r] # "none" <=> r <= n
              /\ \A e \in Entities : mirror[e].run <= n
              /\ \A q \in Procs : syncProc[q].run <= n
      BY SyncOf DEF RunsInOrder
    <2>2. \A q \in Procs : syncProc'[q].run <= n
      BY <1>2, <2>1, IdleSyncs DEF Mirror!NoRun, MirrorBounds
    <2> QED
      BY <1>1, <2>1, <2>2 DEF RunsInOrder
  <1>5. \A q \in Procs : Mirror!Syncing(q)' => Mirror!Syncing(q) /\ q # p
    BY <1>2, IdleSyncs DEF Mirror!Syncing
  <1>6. ASSUME NEW q \in Procs
        PROVE  Watched(q)' /\ OnlyOne(q)' /\ Traversal(q)' /\ Stored(q)'
    <2>1. Watched(q)'
      BY <1>1, SyncOf DEF Watched
    <2>2. OnlyOne(q)'
      BY <1>1, <1>5, SyncOf DEF OnlyOne
    <2>3. CASE q = p
      BY <1>5, <2>1, <2>2, <2>3 DEF Traversal, Stored, Undisturbed
    <2>4. CASE q # p
      <3>1. syncProc'[q] = syncProc[q] /\ Traversal(q) /\ Stored(q)
        BY <1>2, <2>4, SyncOf
      <3>2. Undisturbed(q)' <=> Undisturbed(q)
        BY <1>1, <3>1 DEF Undisturbed, Mirror!Syncing
      <3>3. Traversal(q)'
        BY <1>1, <3>1, <3>2 DEF Traversal, Traverses
      <3>4. Stored(q)'
        BY <1>1, <3>1, <3>2 DEF Stored, Mirror!Captured
      <3> QED
        BY <2>1, <2>2, <3>3, <3>4
    <2> QED
      BY <2>3, <2>4
  <1> QED
    BY <1>3, <1>4, <1>6 DEF MirrorInv

LEMMA NextRun ==
    ASSUME MirrorBounds, NEW n \in 0..MaxRuns,
           \A r \in Mirror!Runs : syncRun[r] # "none" <=> r <= n
    PROVE  Mirror!Started = n
  <1>1. {r \in Mirror!Runs : syncRun[r] # "none"} = 1..n
    BY DEF Mirror!Runs, MirrorBounds
  <1>2. Cardinality(1..n) = n
    BY FS_Interval DEF MirrorBounds
  <1> QED
    BY <1>1, <1>2, MirrorCounts DEF Mirror!Started

LEMMA BeginKeeps ==
    ASSUME MirrorBounds, MirrorInv, NEW p \in Procs, Mirror!Begin(p)
    PROVE  MirrorInv'
  <1>1. PICK n \in 0..MaxRuns :
            /\ \A r \in Mirror!Runs : syncRun[r] # "none" <=> r <= n
            /\ \A e \in Entities : mirror[e].run <= n
            /\ \A q \in Procs : syncProc[q].run <= n
    BY SyncOf DEF RunsInOrder
  <1>2. Mirror!Started = n /\ n < MaxRuns
    BY <1>1, NextRun DEF Mirror!Begin
  <1>3. PICK k \in Mirror!Runs : k = n + 1 /\ k # Mirror!NoRun
    BY <1>2 DEF Mirror!Runs, Mirror!NoRun, MirrorBounds
  <1> DEFINE c == [Mirror!Idle EXCEPT !.at = "fetch", !.run = k]
  <1>4. /\ c \in Syncs /\ c.at = "fetch" /\ c.run = k
        /\ c.total = Mirror!NoTotal
        /\ c.seen = {}
    BY IdleSyncs DEF Syncs
  <1>5. /\ syncProc[p].at = "idle"
        /\ syncProc' = [syncProc EXCEPT ![p] = c]
        /\ syncRun' = [syncRun EXCEPT ![k] = "running"]
        /\ always' = [always EXCEPT ![p] = Mirror!ToSet(shelf)]
        /\ never' = [never EXCEPT ![p] = Entities \ Mirror!ToSet(shelf)]
        /\ since' = [since EXCEPT ![p] = {}]
        /\ disturbed' = [q \in Procs |->
                \/ q # p /\ disturbed[q]
                \/ q = p /\ \E o \in Procs \ {p} : Mirror!Syncing(o)
                \/ q # p /\ Mirror!Syncing(q)]
        /\ UNCHANGED <<shelf, mirror>>
    BY <1>2, <1>3 DEF Mirror!Begin
  <1> HIDE DEF c
  <1>6. MirrorTypes /\ Mirror!ToSet(shelf) \in SUBSET Entities
    BY SyncOf, ShelfCount DEF MirrorTypes, MirrorBounds
  <1>7. /\ syncProc'[p] = c
        /\ \A q \in Procs \ {p} : syncProc'[q] = syncProc[q]
        /\ syncProc' \in [Procs -> Syncs]
    BY <1>4, <1>5, <1>6 DEF MirrorTypes
  <1>8. MirrorTypes'
    BY <1>5, <1>6, <1>7 DEF MirrorTypes, SyncRuns
  <1>9. RunsInOrder'
    <2>1. n + 1 \in 0..MaxRuns
      BY <1>2 DEF MirrorBounds
    <2>2. \A r \in Mirror!Runs : syncRun'[r] # "none" <=> r <= n + 1
      BY <1>1, <1>3, <1>5, <1>6 DEF MirrorTypes, SyncRuns, Mirror!Runs
    <2>3. \A e \in Entities : mirror'[e].run <= n + 1
      <3> SUFFICES ASSUME NEW e \in Entities PROVE mirror[e].run <= n + 1
        BY <1>5
      <3>1. /\ mirror[e].run \in Mirror!Runs \cup {Mirror!NoRun}
            /\ mirror[e].run <= n
        BY <1>1, <1>6 DEF MirrorTypes, Presence
      <3> QED
        BY <3>1 DEF Mirror!Runs, Mirror!NoRun
    <2>4. \A q \in Procs : syncProc'[q].run <= n + 1
      <3>1. \A q \in Procs :
                syncProc[q].run \in Mirror!Runs \cup {Mirror!NoRun}
        BY <1>6 DEF MirrorTypes, Syncs
      <3> QED
        BY <1>1, <1>3, <1>4, <1>7, <3>1 DEF Mirror!Runs, Mirror!NoRun
    <2> QED
      BY <2>1, <2>2, <2>3, <2>4 DEF RunsInOrder
  <1>10. ASSUME NEW q \in Procs, q # p
         PROVE  Watched(q)' /\ OnlyOne(q)' /\ Traversal(q)' /\ Stored(q)'
    <2>1. Mirror!Syncing(q)' => disturbed'[q]
      BY <1>5, <1>7, <1>10 DEF Mirror!Syncing
    <2>2. Watched(q)'
      BY <1>5, <1>6, <1>10, SyncOf DEF Watched, MirrorTypes
    <2> QED
      BY <2>1, <2>2 DEF OnlyOne, Traversal, Stored, Undisturbed
  <1>11. Watched(p)'
    BY <1>5, <1>6 DEF Watched, MirrorTypes
  <1>12. OnlyOne(p)'
    <2>1. disturbed'[p] <=> \E o \in Procs \ {p} : Mirror!Syncing(o)
      BY <1>5
    <2> QED
      BY <2>1, <1>7 DEF OnlyOne, Mirror!Syncing
  <1>13. Traversal(p)'
    BY <1>4, <1>7 DEF Traversal
  <1>14. Stored(p)'
    <2>1. ASSUME NEW e \in Entities PROVE mirror'[e].run # k
      BY <1>1, <1>3, <1>5
    <2> QED
      BY <1>4, <1>7, <2>1 DEF Stored
  <1> QED
    BY <1>8, <1>9, <1>10, <1>11, <1>12, <1>13, <1>14 DEF MirrorInv

-----------------------------------------------------------------------------
\* The entities of a page are on the shelf.
LEMMA PageOnShelf ==
    ASSUME MirrorBounds, shelf \in Seq(Entities), NEW n \in Nat \ {0}
    PROVE  /\ Mirror!PageOf(n) \in Seq(Entities)
           /\ Mirror!ToSet(Mirror!PageOf(n)) \subseteq Mirror!ToSet(shelf)
  <1>1. /\ Len(shelf) \in Nat /\ DOMAIN shelf = 1..Len(shelf)
        /\ \A i \in 1..Len(shelf) : shelf[i] \in Entities
    BY LenProperties, ElementOfSeq
  <1>2. PICK m \in Nat : m = (n - 1) * PageSize
    BY DEF MirrorBounds
  <1>3. PICK k \in Int : k <= Len(shelf)
              /\ Mirror!PageOf(n) = SubSeq(shelf, m + 1, k)
    <2>1. PICK h \in Int : h = n * PageSize
      BY DEF MirrorBounds
    <2>2. Mirror!PageOf(n) = SubSeq(shelf, m + 1,
                             IF h > Len(shelf) THEN Len(shelf) ELSE h)
      BY <1>2, <2>1 DEF Mirror!PageOf
    <2>3. CASE h > Len(shelf)
      BY <1>1, <2>2, <2>3
    <2>4. CASE ~ (h > Len(shelf))
      BY <1>1, <2>2, <2>4
    <2> QED
      BY <2>3, <2>4
  <1>4. \A i \in (m + 1)..k : shelf[i] \in Entities
    BY <1>1, <1>3
  <1> DEFINE t == SubSeq(shelf, m + 1, k)
  <1> HIDE DEF t
  <1>5. /\ t \in Seq(Entities)
        /\ Len(t) = IF m + 1 <= k THEN k - (m + 1) + 1 ELSE 0
        /\ \A i \in 1..(k - (m + 1) + 1) : t[i] = shelf[(m + 1) + i - 1]
    <2>1. m + 1 \in Int /\ k \in Int
      OBVIOUS
    <2> QED
      BY <1>4, <2>1, SubSeqProperties DEF t
  <1>6. DOMAIN t = 1..Len(t)
    BY <1>5, LenProperties
  <1>7. \A i \in DOMAIN t : t[i] \in Mirror!ToSet(shelf)
    <2> SUFFICES ASSUME NEW i \in DOMAIN t PROVE t[i] \in Mirror!ToSet(shelf)
      OBVIOUS
    <2>1. i \in 1..(k - (m + 1) + 1)
      BY <1>5, <1>6
    <2>2. (m + 1) + i - 1 \in DOMAIN shelf
      BY <1>1, <1>3, <2>1
    <2> QED
      BY <1>5, <2>1, <2>2 DEF Mirror!ToSet
  <1> QED
    BY <1>3, <1>5, <1>7 DEF Mirror!ToSet, t

LEMMA FetchKeeps ==
    ASSUME MirrorBounds, MirrorInv, NEW p \in Procs, Mirror!Fetch(p)
    PROVE  MirrorInv'
  <1>1. /\ syncProc[p].at = "fetch" /\ Mirror!Syncing(p)
        /\ since' = [since EXCEPT ![p] = {}]
        /\ disturbed' = [disturbed EXCEPT
                ![p] = @ \/ /\ since[p] = {"add", "remove"}
                            /\ syncProc[p].total # Mirror!NoTotal]
        /\ UNCHANGED <<shelf, mirror, syncRun, always, never>>
    BY DEF Mirror!Fetch, Mirror!Syncing
  <1>2. /\ MirrorTypes /\ syncProc \in [Procs -> Syncs]
        /\ syncProc[p] \in Syncs
        /\ Watched(p) /\ Traversal(p) /\ Stored(p)
    BY SyncOf
  <1>3. /\ since' \in [Procs -> SUBSET {"add", "remove"}]
        /\ disturbed' \in [Procs -> BOOLEAN] /\ since'[p] = {}
        /\ \A q \in Procs : disturbed[q] => disturbed'[q]
        /\ disturbed'[p] <=> \/ disturbed[p]
                             \/ /\ since[p] = {"add", "remove"}
                                /\ syncProc[p].total # Mirror!NoTotal
    BY <1>1, <1>2 DEF MirrorTypes
  <1>4. /\ Len(shelf) \in Nat /\ Mirror!ToSet(shelf) \in SUBSET Entities
        /\ Cardinality(Mirror!ToSet(shelf)) = Len(shelf)
    BY <1>2, ShelfCount DEF MirrorBounds, MirrorTypes
  <1>5. CASE ~ Mirror!TotalKept(p)
    <2>1. PICK c \in Syncs : /\ syncProc' = [syncProc EXCEPT ![p] = c]
                             /\ c.at = "fail" /\ c.run = syncProc[p].run
      BY <1>5, GotoIs DEF Mirror!Fetch
    <2>2. syncRun' \in SyncRuns
      BY <1>1, <1>2 DEF MirrorTypes
    <2> QED
      BY <1>1, <1>3, <2>1, <2>2, Leaves
  <1>6. CASE Mirror!TotalKept(p)
    <2> DEFINE page == Mirror!PageOf(syncProc[p].page)
               last == syncProc[p].page >= Mirror!TotalPages
    <2>1. /\ page \in Seq(Entities)
          /\ Mirror!ToSet(page) \subseteq Mirror!ToSet(shelf)
      BY <1>2, PageOnShelf DEF Syncs, MirrorTypes
    <2>2. last \in BOOLEAN
      OBVIOUS
    <2>3. syncProc' = [syncProc EXCEPT ![p].at = "store",
    ![p].total = Len(shelf),
                               ![p].left = page, ![p].last = last]
      BY <1>6 DEF Mirror!Fetch
    <2> HIDE DEF page, last
    <2> DEFINE c == [syncProc[p] EXCEPT !.at = "store", !.total = Len(shelf),
                                    !.left = page, !.last = last]
    <2>4. /\ c \in Syncs /\ c.at = "store" /\ c.total = Len(shelf)
          /\ c.left = page /\ c.seen = syncProc[p].seen
          /\ c.run = syncProc[p].run
      BY <1>2, <1>4, <2>1, <2>2 DEF Syncs
    <2>5. syncProc' = [syncProc EXCEPT ![p] = c]
      BY <1>2, <2>3
    <2> HIDE DEF c
    <2>6. syncProc'[p] = c /\ syncProc' \in [Procs -> Syncs]
      BY <1>2, <2>4, <2>5
    <2>7. MirrorTypes'
      BY <1>1, <1>2, <1>3, <2>6 DEF MirrorTypes
    <2>8. Undisturbed(p)' => /\ Undisturbed(p)
                             /\ syncProc[p].total # Mirror!NoTotal =>
                                    since[p] # {"add", "remove"}
      BY <1>1, <1>3 DEF Undisturbed
    <2>9. Traversal(p)'
      <3> SUFFICES ASSUME Undisturbed(p)'
                   PROVE  \E X \in SUBSET Entities : Traverses(p, X)'
        BY <1>4, <2>4, <2>6 DEF Traversal, Mirror!NoTotal
      <3>1. syncProc[p].seen \subseteq Mirror!ToSet(shelf)
        <4>1. CASE syncProc[p].total = Mirror!NoTotal
          BY <1>2, <2>8, <4>1 DEF Traversal
        <4>2. CASE syncProc[p].total # Mirror!NoTotal
          <5>1. PICK X \in SUBSET Entities : Traverses(p, X)
            BY <1>2, <2>8, <4>2 DEF Traversal
          <5>2. Len(shelf) = syncProc[p].total
            BY <1>6, <4>2 DEF Mirror!TotalKept
          <5>3. since[p] \in SUBSET {"add", "remove"}
            BY <1>2 DEF MirrorTypes
          <5>4. since[p] # {"add"} /\ since[p] # {"remove"}
            BY <1>4, <5>1, <5>2 DEF Traverses
          <5>5. since[p] = {}
            BY <2>8, <4>2, <5>3, <5>4
          <5> QED
            BY <5>1, <5>5 DEF Traverses
        <4> QED
          BY <4>1, <4>2
      <3>2. Traverses(p, Mirror!ToSet(shelf))'
        BY <1>1, <1>2, <1>3, <1>4, <2>1, <2>4, <2>6, <3>1
           DEF Traverses, Watched
      <3> QED
        BY <1>1, <1>4, <3>2
    <2>10. Stored(p)'
      BY <1>1, <1>2, <2>4, <2>6, <2>8 DEF Stored
    <2>11. \A e \in Entities :
               mirror'[e].run \in {mirror[e].run, syncProc[p].run}
      BY <1>1
    <2>12. \A r \in Mirror!Runs : syncRun'[r] # "none" <=> syncRun[r] # "none"
      BY <1>1
    <2> QED
      BY <1>1, <1>3, <2>4, <2>5, <2>7, <2>9, <2>10, <2>11, <2>12, SyncStep
  <1> QED
    BY <1>5, <1>6

\* A step of a sync that stays undisturbed as it is.
LEMMA StoreKeeps ==
    ASSUME MirrorBounds, MirrorInv, NEW p \in Procs, Mirror!Store(p)
    PROVE  MirrorInv'
  <1>1. /\ syncProc[p].at = "store" /\ Mirror!Syncing(p)
        /\ syncProc[p].left # <<>>
        /\ UNCHANGED <<shelf, syncRun, always, never, since, disturbed>>
    BY DEF Mirror!Store, Mirror!Syncing, Mirror!observed
  <1>2. /\ MirrorTypes /\ syncProc \in [Procs -> Syncs]
        /\ syncProc[p] \in Syncs
        /\ Traversal(p) /\ Stored(p)
    BY SyncOf
  <1>3. /\ since' \in [Procs -> SUBSET {"add", "remove"}]
        /\ disturbed' \in [Procs -> BOOLEAN]
        /\ syncRun' \in SyncRuns
    BY <1>1, <1>2 DEF MirrorTypes
  <1>4. PICK e \in Entities, rest \in Seq(Entities) :
            /\ e = Head(syncProc[p].left) /\ rest = Tail(syncProc[p].left)
            /\ e \in Mirror!ToSet(syncProc[p].left)
            /\ Mirror!ToSet(rest) \subseteq Mirror!ToSet(syncProc[p].left)
    <2>1. PICK s \in Seq(Entities) : s = syncProc[p].left
      BY <1>2 DEF Syncs
    <2>2. /\ Len(s) \in Nat /\ Len(s) # 0 /\ DOMAIN s = 1..Len(s)
          /\ Head(s) = s[1] /\ Head(s) \in Entities
      BY <1>1, <2>1, LenProperties, HeadTailProperties
    <2>3. /\ Tail(s) \in Seq(Entities) /\ Len(Tail(s)) = Len(s) - 1
          /\ \A i \in 1..Len(Tail(s)) : Tail(s)[i] = s[i + 1]
      BY <1>1, <2>1, HeadTailProperties
    <2>4. DOMAIN Tail(s) = 1..(Len(s) - 1)
      BY <2>3, LenProperties
    <2>5. \A i \in DOMAIN Tail(s) : Tail(s)[i] \in Mirror!ToSet(s)
      BY <2>2, <2>3, <2>4 DEF Mirror!ToSet
    <2>6. /\ Mirror!ToSet(Tail(s)) \subseteq Mirror!ToSet(s)
          /\ s[1] \in Mirror!ToSet(s)
      BY <2>2, <2>5 DEF Mirror!ToSet
    <2> QED
      BY <2>1, <2>2, <2>3, <2>6
  <1>5. CASE e \in syncProc[p].seen
    <2>1. Mirror!Goto(p, "fail") /\ UNCHANGED mirror
      BY <1>4, <1>5 DEF Mirror!Store
    <2>2. PICK c \in Syncs : /\ syncProc' = [syncProc EXCEPT ![p] = c]
                             /\ c.at = "fail" /\ c.run = syncProc[p].run
      BY <2>1, GotoIs
    <2> QED
      BY <1>1, <1>3, <2>1, <2>2, Leaves
  <1>6. CASE e \notin syncProc[p].seen
    <2> DEFINE stored == [presence |-> "present", run |-> syncProc[p].run]
               c == [syncProc[p] EXCEPT !.seen = syncProc[p].seen \cup {e},
                                    !.left = rest]
    <2>1. /\ stored \in Presence /\ stored.run = syncProc[p].run
          /\ stored.presence = "present"
      BY <1>2 DEF Presence, Syncs
    <2>2. /\ c \in Syncs /\ c.at = "store" /\ c.run = syncProc[p].run
          /\ c.total = syncProc[p].total /\ c.seen = syncProc[p].seen \cup {e}
          /\ c.left = rest
      BY <1>1, <1>2 DEF Syncs
    <2>3. mirror' = [mirror EXCEPT ![e] = stored]
          /\ syncProc' = [syncProc EXCEPT ![p].seen = @ \cup {e},
                                          ![p].left = Tail(@)]
      BY <1>4, <1>6 DEF Mirror!Store
    <2>4. syncProc' = [syncProc EXCEPT ![p] = c]
      BY <1>2, <1>4, <2>3
    <2> HIDE DEF stored, c
    <2>5. syncProc'[p] = c /\ syncProc' \in [Procs -> Syncs]
      BY <1>2, <2>2, <2>4
    <2>6. /\ mirror' \in [Entities -> Presence] /\ mirror'[e] = stored
          /\ \A x \in Entities \ {e} : mirror'[x] = mirror[x]
      BY <1>2, <2>1, <2>3 DEF MirrorTypes
    <2>7. MirrorTypes'
      BY <1>1, <1>2, <1>3, <2>5, <2>6 DEF MirrorTypes
    <2>8. Undisturbed(p)' => Undisturbed(p)
      BY <1>1 DEF Undisturbed
    <2>9. Traversal(p)'
      <3> SUFFICES ASSUME Undisturbed(p)'
                   PROVE  /\ c.total # Mirror!NoTotal
                          /\ \E X \in SUBSET Entities : Traverses(p, X)'
        BY <2>5 DEF Traversal
      <3>1. syncProc[p].total # Mirror!NoTotal
        BY <1>1, <1>2, <2>8 DEF Traversal
      <3>2. PICK X \in SUBSET Entities : Traverses(p, X)
        BY <1>2, <2>8, <3>1 DEF Traversal
      <3>3. Traverses(p, X)'
        BY <1>1, <1>4, <2>2, <2>5, <3>2 DEF Traverses
      <3> QED
        BY <2>2, <3>1, <3>3
    <2>10. Stored(p)'
      BY <1>1, <1>2, <2>1, <2>2, <2>5, <2>6, <2>8 DEF Stored
    <2>11. \A x \in Entities :
               mirror'[x].run \in {mirror[x].run, syncProc[p].run}
      BY <2>1, <2>6
    <2>12. /\ \A r \in Mirror!Runs :
                  syncRun'[r] # "none" <=> syncRun[r] # "none"
           /\ \A q \in Procs : disturbed[q] => disturbed'[q]
      BY <1>1
    <2> QED
      BY <1>1, <2>2, <2>4, <2>7, <2>9, <2>10, <2>11, <2>12, SyncStep
  <1> QED
    BY <1>5, <1>6

LEMMA TurnKeeps ==
    ASSUME MirrorBounds, MirrorInv, NEW p \in Procs, Mirror!Turn(p)
    PROVE  MirrorInv'
  <1>1. /\ syncProc[p].at = "store" /\ Mirror!Syncing(p)
        /\ UNCHANGED <<shelf, mirror, syncRun, always, never, since,
                       disturbed>>
    BY DEF Mirror!Turn, Mirror!Syncing, Mirror!observed
  <1>2. /\ MirrorTypes /\ syncProc \in [Procs -> Syncs]
        /\ syncProc[p] \in Syncs
        /\ Traversal(p) /\ Stored(p)
    BY SyncOf
  <1>3. PICK c \in Syncs :
            /\ syncProc' = [syncProc EXCEPT ![p] = c] /\ syncProc'[p] = c
            /\ c.run = syncProc[p].run
            /\ c.total = syncProc[p].total /\ c.seen = syncProc[p].seen
            /\ c.left = syncProc[p].left
            /\ \/ c.at = "mark" /\ Mirror!Captured(p)
               \/ c.at \in {"fail", "fetch"}
    <2>1. CASE \E at \in {"mark", "fail"} :
                   Mirror!Goto(p, at) /\ (at = "mark" => Mirror!Captured(p))
      BY <2>1, GotoIs
    <2>2. CASE syncProc' = [syncProc EXCEPT ![p].at = "fetch",
    ![p].page = @ + 1]
      <3> DEFINE c == [syncProc[p] EXCEPT !.at = "fetch",
                                      !.page = syncProc[p].page + 1]
      <3>1. /\ c \in Syncs /\ c.at = "fetch" /\ c.run = syncProc[p].run
            /\ c.total = syncProc[p].total /\ c.seen = syncProc[p].seen
            /\ c.left = syncProc[p].left
        <4>1. syncProc[p].page + 1 \in Nat \ {0}
          BY <1>2 DEF Syncs
        <4> QED
          BY <1>2, <4>1 DEF Syncs
      <3>2. syncProc' = [syncProc EXCEPT ![p] = c]
        BY <1>2, <2>2
      <3> HIDE DEF c
      <3> QED
        BY <1>2, <3>1, <3>2
    <2> QED
      BY <2>1, <2>2 DEF Mirror!Turn
  <1>4. /\ syncRun' \in SyncRuns
        /\ \A r \in Mirror!Runs : syncRun'[r] # "none" <=> syncRun[r] # "none"
    BY <1>1, <1>2 DEF MirrorTypes
  <1>5. Undisturbed(p)' => Undisturbed(p)
    BY <1>1 DEF Undisturbed
  <1>6. Traversal(p)'
    <2> SUFFICES ASSUME Undisturbed(p)'
                 PROVE  /\ c.total # Mirror!NoTotal
                        /\ \E X \in SUBSET Entities : Traverses(p, X)'
      BY <1>3 DEF Traversal
    <2>1. syncProc[p].total # Mirror!NoTotal
      BY <1>1, <1>2, <1>5 DEF Traversal
    <2>2. PICK X \in SUBSET Entities : Traverses(p, X)
      BY <1>2, <1>5, <2>1 DEF Traversal
    <2>3. Traverses(p, X)'
      BY <1>1, <1>3, <2>2 DEF Traverses
    <2> QED
      BY <1>3, <2>1, <2>3
  <1>7. Stored(p)'
    BY <1>1, <1>2, <1>3, <1>5 DEF Stored, Mirror!Captured
  <1> QED
    BY <1>1, <1>3, <1>4, <1>6, <1>7, OnlySync

LEMMA MarkKeeps ==
    ASSUME MirrorBounds, MirrorInv, NEW p \in Procs, Mirror!Mark(p)
    PROVE  MirrorInv'
  <1>1. /\ syncProc[p].at = "mark" /\ Mirror!Syncing(p)
        /\ Mirror!Goto(p, "finish")
        /\ UNCHANGED <<shelf, syncRun, always, never, since, disturbed>>
        /\ mirror' = [e \in Entities |->
                IF mirror[e].presence = "present" /\ Mirror!Missed(p, e)
                THEN [mirror[e] EXCEPT !.presence = "missing_downstream"]
                ELSE mirror[e]]
    BY DEF Mirror!Mark, Mirror!Syncing, Mirror!observed
  <1>2. /\ MirrorTypes /\ syncProc \in [Procs -> Syncs]
        /\ syncProc[p] \in Syncs
        /\ Traversal(p) /\ Stored(p)
    BY SyncOf
  <1>3. PICK c \in Syncs :
            /\ syncProc' = [syncProc EXCEPT ![p] = c] /\ syncProc'[p] = c
            /\ c.at = "finish" /\ c.run = syncProc[p].run
            /\ c.total = syncProc[p].total /\ c.seen = syncProc[p].seen
            /\ c.left = syncProc[p].left
    BY <1>1, GotoIs
  <1>4. ASSUME NEW e \in Entities
        PROVE  /\ mirror'[e] \in Presence /\ mirror'[e].run = mirror[e].run
               /\ mirror'[e].presence = "present" <=>
                      /\ mirror[e].presence = "present"
                      /\ mirror[e].run = syncProc[p].run
    <2>1. mirror[e] \in Presence
      BY <1>2 DEF MirrorTypes
    <2>2. CASE mirror[e].presence = "present" /\ Mirror!Missed(p, e)
      <3>1. mirror'[e] = [mirror[e] EXCEPT !.presence = "missing_downstream"]
        BY <1>1, <2>2
      <3> QED
        BY <2>1, <2>2, <3>1 DEF Presence, Mirror!Missed
    <2>3. CASE ~ (mirror[e].presence = "present" /\ Mirror!Missed(p, e))
      <3>1. mirror'[e] = mirror[e]
        BY <1>1, <2>3
      <3> QED
        BY <2>1, <2>3, <3>1 DEF Mirror!Missed
    <2> QED
      BY <2>2, <2>3
  <1>5. mirror' \in [Entities -> Presence]
    <2>1. mirror' = [e \in Entities |-> mirror'[e]]
      BY <1>1
    <2> QED
      BY <1>4, <2>1
  <1>6. MirrorTypes'
    BY <1>1, <1>2, <1>3, <1>5 DEF MirrorTypes
  <1>7. Undisturbed(p)' => Undisturbed(p)
    BY <1>1 DEF Undisturbed
  <1>8. Traversal(p)'
    <2> SUFFICES ASSUME Undisturbed(p)'
                 PROVE  /\ c.total # Mirror!NoTotal
                        /\ \E X \in SUBSET Entities : Traverses(p, X)'
      BY <1>3 DEF Traversal
    <2>1. syncProc[p].total # Mirror!NoTotal
      BY <1>1, <1>2, <1>7 DEF Traversal
    <2>2. PICK X \in SUBSET Entities : Traverses(p, X)
      BY <1>2, <1>7, <2>1 DEF Traversal
    <2>3. Traverses(p, X)'
      BY <1>1, <1>3, <2>2 DEF Traverses
    <2> QED
      BY <1>3, <2>1, <2>3
  <1>9. Stored(p)'
    <2> SUFFICES ASSUME Undisturbed(p)'
                 PROVE  /\ Mirror!Captured(p)'
                        /\ \A e \in Entities :
                            mirror'[e].presence = "present" <=> e \in c.seen
      BY <1>3 DEF Stored
    <2>1. /\ Mirror!Captured(p)
          /\ \A e \in Entities :
              /\ mirror[e].run = syncProc[p].run <=> e \in syncProc[p].seen
              /\ e \in syncProc[p].seen => mirror[e].presence = "present"
      BY <1>1, <1>2, <1>7 DEF Stored
    <2> QED
      BY <1>3, <1>4, <2>1 DEF Mirror!Captured
  <1>10. /\ \A e \in Entities :
               mirror'[e].run \in {mirror[e].run, syncProc[p].run}
         /\ \A r \in Mirror!Runs : syncRun'[r] # "none" <=> syncRun[r] # "none"
         /\ \A q \in Procs : disturbed[q] => disturbed'[q]
    BY <1>1, <1>4
  <1> QED
    BY <1>1, <1>3, <1>6, <1>8, <1>9, <1>10, SyncStep

-----------------------------------------------------------------------------
\* A user of Wave adds or removes an entity.
LEMMA EditKeeps ==
    ASSUME MirrorBounds, MirrorInv, NEW kind \in {"add", "remove"},
           NEW sh \in Seq(Entities), Mirror!IsInjective(sh),
           Mirror!Edited(kind, sh),
           kind = "add" => Len(sh) = Len(shelf) + 1,
           kind = "remove" => Len(sh) = Len(shelf) - 1
    PROVE  MirrorInv'
  <1>1. /\ shelf' = sh
        /\ always' = [p \in Procs |-> always[p] \cap Mirror!ToSet(sh)]
        /\ never' = [p \in Procs |-> never[p] \ Mirror!ToSet(sh)]
        /\ since' = [p \in Procs |-> since[p] \cup {kind}]
        /\ UNCHANGED <<mirror, syncRun, syncProc, disturbed>>
    BY DEF Mirror!Edited
  <1>2. MirrorTypes /\ RunsInOrder /\ syncProc \in [Procs -> Syncs]
    BY DEF MirrorInv, MirrorTypes
  <1>3. MirrorTypes'
    BY <1>1, <1>2 DEF MirrorTypes
  <1>4. RunsInOrder'
    BY <1>1, <1>2 DEF RunsInOrder
  <1>5. ASSUME NEW p \in Procs
        PROVE  Watched(p)' /\ OnlyOne(p)' /\ Traversal(p)' /\ Stored(p)'
    <2>1. /\ Watched(p) /\ OnlyOne(p) /\ Traversal(p) /\ Stored(p)
          /\ syncProc[p] \in Syncs /\ since[p] \in SUBSET {"add", "remove"}
      BY SyncOf DEF MirrorTypes
    <2>2. /\ always'[p] = always[p] \cap Mirror!ToSet(sh)
          /\ never'[p] = never[p] \ Mirror!ToSet(sh)
          /\ since'[p] = since[p] \cup {kind}
      BY <1>1
    <2>3. Watched(p)'
      BY <1>1, <2>2 DEF Watched
    <2>4. OnlyOne(p)' /\ (Undisturbed(p)' <=> Undisturbed(p))
      BY <1>1, <2>1 DEF OnlyOne, Undisturbed, Mirror!Syncing
    <2>5. Stored(p)'
      BY <1>1, <2>1, <2>4 DEF Stored, Mirror!Captured
    <2>6. ASSUME NEW X \in SUBSET Entities, syncProc[p].total # Mirror!NoTotal,
                 Traverses(p, X)
          PROVE  Traverses(p, X)'
      <3>1. Len(shelf) \in Nat /\ Cardinality(Mirror!ToSet(shelf)) = Len(shelf)
        BY <1>2, ShelfCount DEF MirrorTypes, MirrorBounds
      <3>2. syncProc[p].total \in Nat
        BY <2>1, <2>6 DEF Syncs
      <3>3. since'[p] # {}
        BY <2>2
      <3>4. since'[p] = {"add"} => Len(sh) > syncProc[p].total
        <4> SUFFICES ASSUME since'[p] = {"add"}
                     PROVE  Len(sh) > syncProc[p].total
          OBVIOUS
        <4>1. kind = "add" /\ (since[p] = {} \/ since[p] = {"add"})
          BY <2>1, <2>2
        <4>2. since[p] = {} => Len(shelf) = syncProc[p].total
          BY <2>6, <3>1 DEF Traverses
        <4>3. since[p] = {"add"} => Len(shelf) > syncProc[p].total
          BY <2>6 DEF Traverses
        <4> QED
          BY <3>1, <3>2, <4>1, <4>2, <4>3
      <3>5. since'[p] = {"remove"} => Len(sh) < syncProc[p].total
        <4> SUFFICES ASSUME since'[p] = {"remove"}
                     PROVE  Len(sh) < syncProc[p].total
          OBVIOUS
        <4>1. kind = "remove" /\ (since[p] = {} \/ since[p] = {"remove"})
          BY <2>1, <2>2
        <4>2. since[p] = {} => Len(shelf) = syncProc[p].total
          BY <2>6, <3>1 DEF Traverses
        <4>3. since[p] = {"remove"} => Len(shelf) < syncProc[p].total
          BY <2>6 DEF Traverses
        <4> QED
          BY <3>1, <3>2, <4>1, <4>2, <4>3
      <3> QED
        BY <1>1, <2>2, <2>6, <3>3, <3>4, <3>5 DEF Traverses
    <2>7. Traversal(p)'
      <3> SUFFICES ASSUME Undisturbed(p), syncProc[p].total # Mirror!NoTotal
                   PROVE  \E X \in SUBSET Entities : Traverses(p, X)'
        BY <1>1, <2>1, <2>4 DEF Traversal
      <3>1. PICK X \in SUBSET Entities : Traverses(p, X)
        BY <2>1 DEF Traversal
      <3> QED
        BY <2>6, <3>1
    <2> QED
      BY <2>3, <2>4, <2>5, <2>7
  <1> QED
    BY <1>3, <1>4, <1>5 DEF MirrorInv

LEMMA WaveKeeps ==
    ASSUME MirrorBounds, MirrorInv, Mirror!AddEntity \/ Mirror!RemoveEntity
    PROVE  MirrorInv'
  <1>1. shelf \in Seq(Entities) /\ Mirror!IsInjective(shelf)
    BY DEF MirrorInv, MirrorTypes
  <1>2. CASE Mirror!AddEntity
    <2>1. PICK e \in Entities \ Mirror!ToSet(shelf), front \in BOOLEAN :
              Mirror!Edited("add",
              IF front THEN <<e>> \o shelf ELSE Append(shelf, e))
      BY <1>2 DEF Mirror!AddEntity
    <2>2. CASE front
      <3>1. PICK sh \in Seq(Entities) :
                /\ sh = <<e>> \o shelf /\ Mirror!IsInjective(sh)
                /\ Len(sh) = Len(shelf) + 1
        BY <1>1, AddedFirst
      <3> QED
        BY <2>1, <2>2, <3>1, EditKeeps
    <2>3. CASE ~ front
      <3>1. PICK sh \in Seq(Entities) :
                /\ sh = Append(shelf, e) /\ Mirror!IsInjective(sh)
                /\ Len(sh) = Len(shelf) + 1
        BY <1>1, AddedLast
      <3> QED
        BY <2>1, <2>3, <3>1, EditKeeps
    <2> QED
      BY <2>2, <2>3
  <1>3. CASE Mirror!RemoveEntity
    <2>1. PICK i \in DOMAIN shelf : Mirror!Edited("remove",
    Mirror!RemoveAt(shelf, i))
      BY <1>3 DEF Mirror!RemoveEntity
    <2>2. PICK sh \in Seq(Entities) :
              /\ sh = Mirror!RemoveAt(shelf, i) /\ Mirror!IsInjective(sh)
              /\ Len(sh) = Len(shelf) - 1
      BY <1>1, TakenOut
    <2> QED
      BY <2>1, <2>2, EditKeeps
  <1> QED
    BY <1>2, <1>3

LEMMA ListedAll ==
    ASSUME MirrorBounds
    PROVE  Mirror!SetToSeq(Entities) \in Seq(Entities)
           /\ Mirror!IsInjective(Mirror!SetToSeq(Entities))
  <1>1. PICK n \in Nat : n = Cardinality(Entities)
                         /\ ExistsBijection(1..n, Entities)
    BY FS_CardinalityType DEF MirrorBounds
  <1>2. \E f \in [1..n -> Entities] : Mirror!IsInjective(f)
    BY <1>1
       DEF ExistsBijection, Bijection, Injection, IsInjective,
           Mirror!IsInjective
  <1>3. /\ Mirror!SetToSeq(Entities) \in [1..n -> Entities]
        /\ Mirror!IsInjective(Mirror!SetToSeq(Entities))
    BY <1>1, <1>2, MirrorCounts, Zenon DEF Mirror!SetToSeq
  <1> QED
    BY <1>3, SeqDef

LEMMA MirrorInitInv == ASSUME MirrorBounds, Mirror!Init PROVE MirrorInv
  <1>1. MirrorTypes
    <2>1. shelf \in Seq(Entities) /\ Mirror!IsInjective(shelf)
      BY ListedAll DEF Mirror!Init
    <2>2. mirror \in [Entities -> Presence]
      BY DEF Mirror!Init, Presence
    <2> QED
      BY <2>1, <2>2, IdleSyncs DEF Mirror!Init, MirrorTypes, SyncRuns
  <1>2. RunsInOrder
    <2>1. 0 \in 0..MaxRuns
      BY DEF MirrorBounds
    <2>2. \A r \in Mirror!Runs : syncRun[r] # "none" <=> r <= 0
      BY DEF Mirror!Init, Mirror!Runs
    <2>3. \A e \in Entities : mirror[e].run <= 0
      BY DEF Mirror!Init, Mirror!NoRun
    <2>4. \A p \in Procs : syncProc[p].run <= 0
      BY IdleSyncs DEF Mirror!Init, Mirror!NoRun
    <2> QED
      BY <2>1, <2>2, <2>3, <2>4 DEF RunsInOrder
  <1>3. \A p \in Procs : Watched(p) /\ ~ Mirror!Syncing(p)
    BY IdleSyncs DEF Mirror!Init, Watched, Mirror!Syncing
  <1>4. \A p \in Procs : OnlyOne(p) /\ Traversal(p) /\ Stored(p)
    BY <1>3 DEF OnlyOne, Traversal, Stored, Undisturbed
  <1> QED
    BY <1>1, <1>2, <1>3, <1>4 DEF MirrorInv

LEMMA MirrorStutters ==
    ASSUME MirrorInv, UNCHANGED mirrorVars PROVE MirrorInv'
  BY SMTT(30)
     DEF mirrorVars, Mirror!observed, MirrorInv, MirrorTypes, RunsInOrder,
         Watched, OnlyOne, Traversal, Traverses, Stored, Mirror!Captured,
         Undisturbed, Mirror!Syncing

LEMMA MirrorNextInv ==
    ASSUME MirrorBounds, MirrorInv, Mirror!Next PROVE MirrorInv'
  BY BeginKeeps, FetchKeeps, StoreKeeps, TurnKeeps, MarkKeeps, FinishKeeps,
     EndKeeps, RestartKeeps, WaveKeeps
     DEF Mirror!Next

LEMMA GoneMissing == ASSUME MirrorBounds, MirrorInv PROVE Mirror!MissingIsGone
  <1> SUFFICES ASSUME NEW p \in Procs, syncProc[p].at = "finish",
                      ~ disturbed[p]
               PROVE  /\ \A e \in always[p] : mirror[e].presence = "present"
                      /\ \A e \in never[p] : mirror[e].presence # "present"
    BY DEF Mirror!MissingIsGone
  <1>1. /\ Traversal(p) /\ Stored(p) /\ Undisturbed(p) /\ MirrorTypes
        /\ syncProc[p].seen \in SUBSET Entities
    BY SyncOf DEF Undisturbed, Mirror!Syncing, Syncs
  <1>2. PICK X \in SUBSET Entities : Traverses(p, X)
    BY <1>1 DEF Traversal
  <1>3. Cardinality(syncProc[p].seen) = Cardinality(X)
    BY <1>1, <1>2, MirrorCounts DEF Stored, Mirror!Captured, Traverses
  <1>4. IsFiniteSet(X)
    BY FS_Subset DEF MirrorBounds
  <1>5. syncProc[p].seen = X
    BY <1>2, <1>3, <1>4, FS_Subset DEF Traverses
  <1>6. /\ always[p] \subseteq Entities /\ never[p] \subseteq Entities
        /\ always[p] \subseteq X /\ never[p] \cap X = {}
    BY <1>1, <1>2 DEF MirrorTypes, Traverses
  <1>7. \A e \in Entities : mirror[e].presence = "present" <=> e \in X
    BY <1>1, <1>5 DEF Stored
  <1> QED
    BY <1>6, <1>7

-----------------------------------------------------------------------------
(***************************************************************************)
(* ReceiptExecutor.  A lease excludes the others only as long as it is     *)
(* alive and as nobody but its owner gives it back.  The invariant says    *)
(* who holds one: the session that works on the document, and the session  *)
(* whose claim is about to be answered.  It takes two facts about the      *)
(* calls: a session has one at a time, and it works on nothing while it    *)
(* gives a document back.                                                  *)
(***************************************************************************)
\* A session waits for the answer to its call.
OneCall ==
    \A t, u \in Procs :
        t # u /\ callProc[t].session # Receipts!None
          => callProc[t].session # callProc[u].session

\* A thread that works handles a call of a session; every call but a
\* disconnect names a status.
Handles ==
    \A t \in Procs :
        /\ callProc[t].at # "idle" => callProc[t].session \in Sessions
        /\ callProc[t].op \in {"register", "claim", "release"} =>
               callProc[t].status # Receipts!None
        /\ callProc[t].op = Receipts!None <=> callProc[t].at = "idle"

\* A session that gives its document back works on nothing.
GivesBack ==
    \A t \in Procs :
        callProc[t].op \in {"release", "disconnect"} =>
            order[callProc[t].session] = Receipts!None

\* The session holds a live lease of the document.
Holds(s, d) == d \in Docs /\ docLease[d].owner = s /\ docLease[d].live

\* Who works on a document holds it, unless its lease has run out.
WorkersHold ==
    \A s \in Sessions : order[s] # Receipts!None /\ s \notin late
      => Holds(s, order[s])

\* A claim that is about to be answered holds its document.
ClaimsHold ==
    \A t \in Procs :
        callProc[t].op = "claim" /\ callProc[t].at = "write" =>
            Holds(callProc[t].session, callProc[t].doc)

\* A lease that is alive has an owner.
LiveOwned == \A d \in Docs : docLease[d].live
  => docLease[d].owner \in Sessions

\* The types of the two variables that the steps change field by field.
LeaseRows == [Docs -> [owner : Sessions \cup {Receipts!None}, live : BOOLEAN]]
CallRows ==
    [op : {Receipts!None, "register", "claim", "release", "disconnect"},
     at : {"idle", "load", "lease", "write"},
     session : Sessions \cup {Receipts!None},
     status : {Receipts!None, "ready", "busy", "error"},
     doc : Docs \cup {Receipts!None}, todo : SUBSET Docs]
ProcRows == [Procs -> CallRows]

ReceiptInv ==
    /\ Receipts!TypeOK /\ LiveOwned
    /\ OneCall /\ Handles /\ GivesBack /\ WorkersHold /\ ClaimsHold

LEMMA ReceiptInitInv == Receipts!Init => ReceiptInv
  BY DEF Receipts!Init, ReceiptInv, LiveOwned, Receipts!TypeOK, OneCall,
         Handles, GivesBack, WorkersHold, ClaimsHold, Receipts!NoState,
         Receipts!States, Receipts!Unheld, Receipts!Idle, Receipts!None

\* A call begins: the session has no other, and works on nothing any more if
\* it gives a document back.
LEMMA CallKeeps ==
    ASSUME "none" \notin Sessions, ReceiptInv,
           NEW t \in Procs, NEW s \in Sessions, Receipts!SessionCalls(t, s)
    PROVE  ReceiptInv'
  <1> USE DEF Receipts!None, Receipts!Idle
  <1>1. PICK op \in {"register", "claim", "release", "disconnect"},
             status \in {Receipts!None, "ready", "busy", "error"},
             d \in Docs \cup {Receipts!None} :
            /\ Receipts!Call(t, s, op, status, d)
            /\ op # "disconnect" => status # Receipts!None
            /\ \/ op \in {"register", "claim"} /\ UNCHANGED <<order, late>>
               \/ Receipts!StopsWorking(s)
    BY DEF Receipts!SessionCalls, ReceiptInv, Receipts!TypeOK
  <1>2. Receipts!TypeOK'
    BY <1>1
       DEF Receipts!Call, Receipts!StopsWorking, ReceiptInv, Receipts!TypeOK
  <1>3. OneCall' /\ Handles' /\ LiveOwned'
    BY <1>1
       DEF LiveOwned, Receipts!Call, Receipts!Calling, ReceiptInv,
           Receipts!TypeOK, OneCall, Handles
  <1>4. GivesBack'
    BY <1>1
       DEF Receipts!Call, Receipts!Calling, Receipts!StopsWorking, ReceiptInv,
           Receipts!TypeOK, GivesBack, Handles
  <1>5. WorkersHold'
    BY <1>1
       DEF Receipts!Call, Receipts!StopsWorking, ReceiptInv, Receipts!TypeOK,
           WorkersHold, Holds
  <1>6. ClaimsHold'
    BY <1>1 DEF Receipts!Call, ReceiptInv, Receipts!TypeOK, ClaimsHold, Holds
  <1> QED
    BY <1>2, <1>3, <1>4, <1>5, <1>6 DEF ReceiptInv

\* A refused session works on nothing any more.
LEMMA RefuseKeeps ==
    ASSUME "none" \notin Sessions, ReceiptInv, NEW t \in Procs,
           callProc[t].op # Receipts!None, Receipts!Refuse(t),
           UNCHANGED <<state, docLease>>
    PROVE  ReceiptInv'
  <1> USE DEF Receipts!None, Receipts!Idle
  <1>1. Receipts!TypeOK'
    BY DEF Receipts!Refuse, Receipts!Unanswered, Receipts!StopsWorking,
           ReceiptInv, Receipts!TypeOK, Handles
  <1>2. OneCall' /\ Handles' /\ LiveOwned'
    BY DEF LiveOwned, Receipts!Refuse, Receipts!Unanswered,
           Receipts!StopsWorking, ReceiptInv, Receipts!TypeOK, OneCall,
           Handles
  <1>3. GivesBack'
    BY DEF Receipts!Refuse, Receipts!Unanswered, Receipts!StopsWorking,
           ReceiptInv, Receipts!TypeOK, GivesBack, OneCall, Handles
  <1>4. WorkersHold'
    BY DEF Receipts!Refuse, Receipts!Unanswered, Receipts!StopsWorking,
           ReceiptInv, Receipts!TypeOK, WorkersHold, ClaimsHold, GivesBack,
           Handles, Holds, Receipts!Unheld
  <1>5. ClaimsHold'
    BY DEF Receipts!Refuse, Receipts!Unanswered, Receipts!StopsWorking,
           ReceiptInv, Receipts!TypeOK, ClaimsHold, OneCall, Handles, Holds,
           Receipts!Unheld
  <1> QED
    BY <1>1, <1>2, <1>3, <1>4, <1>5 DEF ReceiptInv

\* A handler goes on to its next step.
LEMMA ContinueKeeps ==
    ASSUME "none" \notin Sessions, ReceiptInv, NEW t \in Procs,
           NEW at \in {"lease", "write"},
           callProc[t].op # Receipts!None, at = "write"
             => callProc[t].op # "claim",
           Receipts!Continue(t, at), UNCHANGED <<state, docLease>>
    PROVE  ReceiptInv'
  <1> USE DEF Receipts!None
  <1>1. Receipts!TypeOK'
    BY DEF Receipts!Continue, ReceiptInv, Receipts!TypeOK, Handles
  <1>2. OneCall' /\ Handles' /\ LiveOwned'
    BY DEF LiveOwned, Receipts!Continue, ReceiptInv, Receipts!TypeOK, OneCall,
           Handles
  <1>3. GivesBack'
    BY DEF Receipts!Continue, ReceiptInv, Receipts!TypeOK, GivesBack, OneCall,
           Handles
  <1>4. WorkersHold'
    BY DEF Receipts!Continue, ReceiptInv, Receipts!TypeOK, WorkersHold,
           ClaimsHold, GivesBack, Handles, Holds, Receipts!Unheld
  <1>5. ClaimsHold'
    BY DEF Receipts!Continue, ReceiptInv, Receipts!TypeOK, ClaimsHold,
           OneCall, Handles, Holds, Receipts!Unheld
  <1> QED
    BY <1>1, <1>2, <1>3, <1>4, <1>5 DEF ReceiptInv

\* A document is given to a session, or back.
LEMMA LeaseType ==
    ASSUME Receipts!TypeOK, NEW d \in Docs,
           NEW s \in Sessions \cup {Receipts!None},
           NEW alive \in BOOLEAN,
           docLease' = [docLease EXCEPT ![d] = [owner |-> s, live |-> alive]]
    PROVE  docLease' \in LeaseRows
  BY Zenon DEF Receipts!TypeOK, LeaseRows

LEMMA CallsType ==
    ASSUME Receipts!TypeOK, NEW t \in Procs, NEW c \in CallRows,
           callProc' = [callProc EXCEPT ![t] = c]
    PROVE  callProc' \in ProcRows
  BY DEF Receipts!TypeOK, ProcRows, CallRows

LEMMA CallType == ASSUME Receipts!TypeOK, NEW t \in Procs
    PROVE callProc[t] \in CallRows
  BY DEF Receipts!TypeOK, CallRows

\* register reads the state file.
LEMMA LoadRegisterKeeps ==
    ASSUME "none" \notin Sessions, ReceiptInv, NEW t \in Procs,
           Receipts!LoadRegister(t)
    PROVE  ReceiptInv'
  <1>1. callProc[t].op # Receipts!None /\ callProc[t].op # "claim"
          /\ UNCHANGED <<state, docLease>>
    BY DEF Receipts!LoadRegister, Receipts!None
  <1>2. Receipts!Refuse(t)
          \/ (\E at \in {"lease", "write"} : Receipts!Continue(t, at))
    BY DEF Receipts!LoadRegister
  <1> QED
    BY <1>1, <1>2, RefuseKeeps, ContinueKeeps

\* It renews the lease of a busy session.
LEMMA RenewKeeps ==
    ASSUME "none" \notin Sessions, ReceiptInv, NEW t \in Procs,
           Receipts!Renew(t)
    PROVE  ReceiptInv'
  <1> USE DEF Receipts!None
  <1>1. callProc[t].op = "register" /\ callProc[t].at = "lease"
          /\ UNCHANGED state
    BY DEF Receipts!Renew, Receipts!bounds
  <1>2. CASE Receipts!Refuse(t) /\ UNCHANGED docLease
    BY <1>1, <1>2, RefuseKeeps
  <1>3. CASE /\ Receipts!Acquirable(callProc[t].doc, callProc[t].session)
             /\ docLease' = [docLease EXCEPT ![callProc[t].doc] =
                              [owner |-> callProc[t].session, live |-> TRUE]]
             /\ Receipts!Continue(t, "write")
    <2>1. callProc[t].session \in Sessions
      BY <1>1 DEF ReceiptInv, Handles
    <2>2. Receipts!TypeOK'
      <3>1. docLease' \in LeaseRows
        <4>1. CASE callProc[t].doc \in Docs
          BY <1>3, <2>1, <4>1, LeaseType DEF ReceiptInv
        <4>2. CASE callProc[t].doc \notin Docs
          BY <1>3, <4>2 DEF ReceiptInv, Receipts!TypeOK, LeaseRows
        <4> QED
          BY <4>1, <4>2
      <3>2. callProc' \in ProcRows
        <4> DEFINE c == [callProc[t] EXCEPT !.at = "write"]
        <4>1. c \in CallRows
          BY CallType, Zenon DEF ReceiptInv, CallRows
        <4>2. callProc' = [callProc EXCEPT ![t] = c]
          BY <1>3, Zenon DEF Receipts!Continue
        <4> QED
          BY <4>1, <4>2, CallsType DEF ReceiptInv
      <3> QED
        BY <1>1, <1>3, <3>1, <3>2
           DEF Receipts!Continue, ReceiptInv, Receipts!TypeOK, LeaseRows,
               ProcRows, CallRows
    <2>3. OneCall' /\ Handles' /\ LiveOwned'
      BY <1>1, <1>3, <2>1
         DEF LiveOwned, Receipts!Acquirable, Receipts!Continue, ReceiptInv,
             Receipts!TypeOK, OneCall, Handles
    <2>4. GivesBack'
      BY <1>1, <1>3, <2>1
         DEF Receipts!Acquirable, Receipts!Continue, ReceiptInv,
             Receipts!TypeOK, GivesBack, OneCall, Handles
    <2>5. WorkersHold'
      BY <1>1, <1>3, <2>1
         DEF Receipts!Acquirable, Receipts!Continue, ReceiptInv,
             Receipts!TypeOK, WorkersHold, ClaimsHold, GivesBack, Handles,
             Holds, Receipts!Unheld
    <2>6. ClaimsHold'
      BY <1>1, <1>3, <2>1
         DEF Receipts!Acquirable, Receipts!Continue, ReceiptInv,
             Receipts!TypeOK, ClaimsHold, OneCall, Handles, Holds,
             Receipts!Unheld
    <2> QED
      BY <2>2, <2>3, <2>4, <2>5, <2>6 DEF ReceiptInv
  <1> QED
    BY <1>1, <1>2, <1>3 DEF Receipts!Renew

\* claim_next needs a ready session.
LEMMA LoadClaimKeeps ==
    ASSUME "none" \notin Sessions, ReceiptInv, NEW t \in Procs,
           Receipts!LoadClaim(t)
    PROVE  ReceiptInv'
  <1> USE DEF Receipts!None
  <1>1. callProc[t].op = "claim" /\ callProc[t].at = "load"
          /\ UNCHANGED <<state, docLease>>
    BY DEF Receipts!LoadClaim
  <1>2. CASE Receipts!Refuse(t)
    BY <1>1, <1>2, RefuseKeeps
  <1>3. ASSUME NEW listed \in SUBSET Docs,
               callProc' = [callProc EXCEPT ![t].at = "lease",
                                            ![t].todo = listed],
               UNCHANGED <<order, late>>
        PROVE  ReceiptInv'
    <2>1. Receipts!TypeOK'
      <3>1. callProc' \in ProcRows
        <4> DEFINE c == [callProc[t] EXCEPT !.at = "lease", !.todo = listed]
        <4>1. c \in CallRows
          BY <1>3, CallType, Zenon DEF ReceiptInv, CallRows
        <4>2. callProc' = [callProc EXCEPT ![t] = c]
          BY <1>3, Zenon
        <4> QED
          BY <4>1, <4>2, CallsType DEF ReceiptInv
      <3> QED
        BY <1>1, <1>3, <3>1
           DEF ReceiptInv, Receipts!TypeOK, ProcRows, CallRows
    <2>2. OneCall' /\ Handles' /\ LiveOwned'
      BY <1>1, <1>3
         DEF LiveOwned, Receipts!bounds, ReceiptInv, Receipts!TypeOK, OneCall,
             Handles
    <2>3. GivesBack'
      BY <1>1, <1>3
         DEF Receipts!bounds, ReceiptInv, Receipts!TypeOK, GivesBack, OneCall,
             Handles
    <2>4. WorkersHold'
      BY <1>1, <1>3
         DEF Receipts!bounds, ReceiptInv, Receipts!TypeOK, WorkersHold,
             ClaimsHold, GivesBack, Handles, Holds, Receipts!Unheld
    <2>5. ClaimsHold'
      BY <1>1, <1>3
         DEF Receipts!bounds, ReceiptInv, Receipts!TypeOK, ClaimsHold,
             OneCall, Handles, Holds, Receipts!Unheld
    <2> QED
      BY <2>1, <2>2, <2>3, <2>4, <2>5 DEF ReceiptInv
  <1> QED
    BY <1>2, <1>3 DEF Receipts!LoadClaim

\* It takes a document whose lease is free, has run out or is its own.
LEMMA TryClaimKeeps ==
    ASSUME "none" \notin Sessions, ReceiptInv, NEW t \in Procs,
           Receipts!TryClaim(t)
    PROVE  ReceiptInv'
  <1> USE DEF Receipts!None, Receipts!Idle
  <1>1. callProc[t].op = "claim" /\ callProc[t].at = "lease"
          /\ callProc[t].todo \subseteq Docs
        /\ UNCHANGED <<state, Receipts!bounds>>
    BY DEF Receipts!TryClaim, ReceiptInv, Receipts!TypeOK
  <1>2. CASE Receipts!Refuse(t) /\ UNCHANGED docLease
    <2>1. Receipts!TypeOK'
      BY <1>1, <1>2
         DEF Receipts!Refuse, Receipts!Unanswered, Receipts!StopsWorking,
             ReceiptInv, Receipts!TypeOK, Receipts!Unheld, Handles
    <2>2. OneCall' /\ Handles' /\ LiveOwned'
      BY <1>1, <1>2
         DEF LiveOwned, Receipts!Refuse, Receipts!Unanswered,
             Receipts!StopsWorking, ReceiptInv, Receipts!TypeOK, OneCall,
             Handles
    <2>3. GivesBack'
      BY <1>1, <1>2
         DEF Receipts!Refuse, Receipts!Unanswered, Receipts!StopsWorking,
             ReceiptInv, Receipts!TypeOK, GivesBack, OneCall, Handles
    <2>4. WorkersHold'
      BY <1>1, <1>2
         DEF Receipts!Refuse, Receipts!Unanswered, Receipts!StopsWorking,
             ReceiptInv, Receipts!TypeOK, WorkersHold, Holds
    <2>5. ClaimsHold'
      BY <1>1, <1>2
         DEF Receipts!Refuse, Receipts!Unanswered, Receipts!StopsWorking,
             ReceiptInv, Receipts!TypeOK, ClaimsHold, OneCall, Handles, Holds
    <2> QED
      BY <2>1, <2>2, <2>3, <2>4, <2>5 DEF ReceiptInv
  <1>3. ASSUME NEW d \in Docs,
               Receipts!Acquirable(d, callProc[t].session),
               docLease' = [docLease EXCEPT ![d] =
                   [owner |-> callProc[t].session, live |-> TRUE]],
               callProc' = [callProc EXCEPT ![t].at = "write", ![t].doc = d,
                                    ![t].todo = {}],
               UNCHANGED <<order, late>>
        PROVE  ReceiptInv'
    <2>1. Receipts!TypeOK'
      <3>1. docLease' \in LeaseRows
        BY <1>1, <1>3, LeaseType DEF ReceiptInv, Handles
      <3>2. callProc' \in ProcRows
        <4> DEFINE c == [callProc[t] EXCEPT !.at = "write", !.doc = d,
                                            !.todo = {}]
        <4>1. c \in CallRows
          BY <1>3, CallType, Zenon DEF ReceiptInv, CallRows
        <4>2. callProc' = [callProc EXCEPT ![t] = c]
          BY <1>3, Zenon
        <4> QED
          BY <4>1, <4>2, CallsType DEF ReceiptInv
      <3> QED
        BY <1>1, <1>3, <3>1, <3>2
           DEF ReceiptInv, Receipts!TypeOK, LeaseRows, ProcRows, CallRows
    <2>2. OneCall' /\ Handles' /\ LiveOwned'
      BY <1>1, <1>3
         DEF LiveOwned, Receipts!Acquirable, ReceiptInv, Receipts!TypeOK,
             OneCall, Handles
    <2>3. GivesBack'
      BY <1>1, <1>3
         DEF Receipts!Acquirable, ReceiptInv, Receipts!TypeOK, GivesBack,
             OneCall, Handles
    <2>4. WorkersHold'
      BY <1>1, <1>3
         DEF Receipts!Acquirable, ReceiptInv, Receipts!TypeOK, WorkersHold,
             Holds
    <2>5. ClaimsHold'
      BY <1>1, <1>3
         DEF Receipts!Acquirable, ReceiptInv, Receipts!TypeOK, ClaimsHold,
             OneCall, Handles, Holds
    <2> QED
      BY <2>1, <2>2, <2>3, <2>4, <2>5 DEF ReceiptInv
  <1>4. ASSUME NEW d \in Docs,
               callProc' = [callProc EXCEPT ![t].todo = @ \ {d}],
               UNCHANGED <<docLease, order, late>>
        PROVE  ReceiptInv'
    <2>1. Receipts!TypeOK'
      BY SMTT(30), <1>1, <1>4
         DEF Receipts!bounds, ReceiptInv, Receipts!TypeOK, Receipts!Unheld,
             Handles
    <2>2. OneCall' /\ Handles' /\ LiveOwned'
      BY <1>1, <1>4
         DEF LiveOwned, Receipts!bounds, ReceiptInv, Receipts!TypeOK, OneCall,
             Handles
    <2>3. GivesBack'
      BY <1>1, <1>4
         DEF Receipts!bounds, ReceiptInv, Receipts!TypeOK, GivesBack, OneCall,
             Handles
    <2>4. WorkersHold'
      BY <1>1, <1>4
         DEF Receipts!bounds, ReceiptInv, Receipts!TypeOK, WorkersHold, Holds
    <2>5. ClaimsHold'
      BY <1>1, <1>4
         DEF Receipts!bounds, ReceiptInv, Receipts!TypeOK, ClaimsHold,
             OneCall, Handles, Holds
    <2> QED
      BY <2>1, <2>2, <2>3, <2>4, <2>5 DEF ReceiptInv
  <1> QED
    BY <1>1, <1>2, <1>3, <1>4 DEF Receipts!TryClaim, Receipts!Claimable

\* release and disconnect read the state file.
LEMMA LoadReleaseKeeps ==
    ASSUME "none" \notin Sessions, ReceiptInv, NEW t \in Procs,
           Receipts!LoadRelease(t)
    PROVE  ReceiptInv'
  <1>1. callProc[t].op = "release" /\ UNCHANGED <<state, docLease>>
    BY DEF Receipts!LoadRelease
  <1>2. Receipts!Refuse(t) \/ Receipts!Continue(t, "lease")
    BY DEF Receipts!LoadRelease
  <1> QED
    BY <1>1, <1>2, RefuseKeeps, ContinueKeeps DEF Receipts!None

LEMMA LoadDisconnectKeeps ==
    ASSUME "none" \notin Sessions, ReceiptInv, NEW t \in Procs,
           Receipts!LoadDisconnect(t)
    PROVE  ReceiptInv'
  <1> USE DEF Receipts!None
  <1>1. callProc[t].op = "disconnect" /\ callProc[t].at = "load"
          /\ UNCHANGED <<state, docLease>>
    BY DEF Receipts!LoadDisconnect
  <1>2. CASE Receipts!Refuse(t)
    BY <1>1, <1>2, RefuseKeeps
  <1>3. ASSUME NEW at \in {"lease", "write"},
               callProc' = [callProc EXCEPT ![t].at = at,
                                            ![t].doc = state.doc],
               UNCHANGED <<order, late>>
        PROVE  ReceiptInv'
    <2>0. state.doc \in Docs \cup {Receipts!None}
      BY DEF ReceiptInv, Receipts!TypeOK, Receipts!States, Receipts!NoState
    <2>1. Receipts!TypeOK'
      <3>1. callProc' \in ProcRows
        <4> DEFINE c == [callProc[t] EXCEPT !.at = at, !.doc = state.doc]
        <4>1. c \in CallRows
          BY <1>3, <2>0, CallType, Zenon DEF ReceiptInv, CallRows
        <4>2. callProc' = [callProc EXCEPT ![t] = c]
          BY <1>3, Zenon
        <4> QED
          BY <4>1, <4>2, CallsType DEF ReceiptInv
      <3> QED
        BY <1>1, <1>3, <3>1
           DEF ReceiptInv, Receipts!TypeOK, ProcRows, CallRows
    <2>2. OneCall' /\ Handles' /\ LiveOwned'
      BY <1>1, <1>3
         DEF LiveOwned, Receipts!bounds, ReceiptInv, Receipts!TypeOK, OneCall,
             Handles
    <2>3. GivesBack'
      BY <1>1, <1>3
         DEF Receipts!bounds, ReceiptInv, Receipts!TypeOK, GivesBack, OneCall,
             Handles
    <2>4. WorkersHold'
      BY <1>1, <1>3
         DEF Receipts!bounds, ReceiptInv, Receipts!TypeOK, WorkersHold,
             ClaimsHold, GivesBack, Handles, Holds, Receipts!Unheld
    <2>5. ClaimsHold'
      BY <1>1, <1>3
         DEF Receipts!bounds, ReceiptInv, Receipts!TypeOK, ClaimsHold,
             OneCall, Handles, Holds, Receipts!Unheld
    <2> QED
      BY <2>1, <2>2, <2>3, <2>4, <2>5 DEF ReceiptInv
  <1> QED
    BY <1>2, <1>3 DEF Receipts!LoadDisconnect

\* They give back what their session works on no more.
LEMMA FreeLeaseKeeps ==
    ASSUME "none" \notin Sessions, ReceiptInv, NEW t \in Procs,
           Receipts!FreeLease(t)
    PROVE  ReceiptInv'
  <1> USE DEF Receipts!None
  <1>1. /\ callProc[t].op \in {"release", "disconnect"}
             /\ callProc[t].at = "lease"
        /\ callProc' = [callProc EXCEPT ![t].at = "write"]
        /\ UNCHANGED <<state, order, late>>
    BY DEF Receipts!FreeLease, Receipts!Continue, Receipts!bounds
  <1>2. \/ UNCHANGED docLease
        \/ /\ callProc[t].doc \in Docs
           /\ docLease[callProc[t].doc].owner = callProc[t].session
           /\ docLease' = [docLease EXCEPT ![callProc[t].doc] =
                            [owner |-> Receipts!None, live |-> FALSE]]
    BY DEF Receipts!FreeLease, ReceiptInv, Receipts!TypeOK, Receipts!Unheld
  <1>3. docLease' \in LeaseRows
    BY <1>2, LeaseType DEF ReceiptInv, Receipts!TypeOK, LeaseRows
  <1>4. Receipts!TypeOK'
    <2>1. callProc' \in ProcRows
      <3> DEFINE c == [callProc[t] EXCEPT !.at = "write"]
      <3>1. c \in CallRows
        BY <1>1, CallType, Zenon DEF ReceiptInv, CallRows
      <3>2. callProc' = [callProc EXCEPT ![t] = c]
        BY <1>1, Zenon
      <3> QED
        BY <3>1, <3>2, CallsType DEF ReceiptInv
    <2> QED
      BY <1>1, <1>3, <2>1
         DEF ReceiptInv, Receipts!TypeOK, LeaseRows, ProcRows, CallRows
  <1>5. OneCall' /\ Handles' /\ LiveOwned'
    <2>1. OneCall' /\ Handles'
      BY <1>1 DEF ReceiptInv, Receipts!TypeOK, OneCall, Handles
    <2>2. LiveOwned'
      BY <1>2 DEF LiveOwned, ReceiptInv, Receipts!TypeOK
    <2> QED
      BY <2>1, <2>2
  <1>6. GivesBack'
    BY <1>1, <1>2 DEF ReceiptInv, Receipts!TypeOK, GivesBack, OneCall, Handles
  <1>7. WorkersHold'
    BY <1>1, <1>2
       DEF ReceiptInv, Receipts!TypeOK, WorkersHold, ClaimsHold, GivesBack,
           Handles, Holds, Receipts!Unheld
  <1>8. ClaimsHold'
    <2> SUFFICES ASSUME NEW u \in Procs,
                        (callProc[u].op = "claim" /\ callProc[u].at = "write")'
                 PROVE  Holds(callProc[u].session, callProc[u].doc)'
      BY DEF ClaimsHold
    <2>1. u # t /\ callProc'[u] = callProc[u]
            /\ callProc[u].session \in Sessions
      BY <1>1 DEF ReceiptInv, Receipts!TypeOK, Handles
    <2>2. callProc[u].session # callProc[t].session
      BY <2>1 DEF ReceiptInv, OneCall
    <2>3. Holds(callProc[u].session, callProc[u].doc)
      BY <2>1 DEF ReceiptInv, ClaimsHold
    <2>4. CASE UNCHANGED docLease
      BY <2>1, <2>3, <2>4 DEF Holds
    <2>5. CASE /\ callProc[t].doc \in Docs
               /\ docLease[callProc[t].doc].owner = callProc[t].session
               /\ docLease' = [docLease EXCEPT ![callProc[t].doc] =
                                [owner |-> Receipts!None, live |-> FALSE]]
      <3>1. callProc[u].doc # callProc[t].doc
        BY <2>2, <2>3, <2>5 DEF Holds
      <3>2. docLease'[callProc[u].doc] = docLease[callProc[u].doc]
        BY <3>1, <2>3, <2>5 DEF ReceiptInv, Receipts!TypeOK, Holds
      <3> QED
        BY <2>1, <2>3, <3>2 DEF Holds
    <2> QED
      BY <1>2, <2>4, <2>5
  <1> QED
    BY <1>4, <1>5, <1>6, <1>7, <1>8 DEF ReceiptInv

\* The file is replaced; a claim that is answered is worked on.
LEMMA StateWriteKeeps ==
    ASSUME "none" \notin Sessions, ReceiptInv, NEW t \in Procs,
           Receipts!Write(t)
    PROVE  ReceiptInv'
  <1> USE DEF Receipts!None, Receipts!Idle
  <1>1. Receipts!TypeOK'
    BY DEF Receipts!Write, Receipts!Refuse, Receipts!Unanswered,
           Receipts!StopsWorking, Receipts!Continue, Receipts!bounds,
           ReceiptInv, Receipts!TypeOK, Receipts!States, Receipts!NoState,
           Receipts!SessionState, Receipts!Unheld, Handles
  <1>2. OneCall' /\ Handles' /\ LiveOwned'
    BY DEF LiveOwned, Receipts!Write, Receipts!Refuse, Receipts!Unanswered,
           Receipts!StopsWorking, Receipts!Continue, Receipts!bounds,
           ReceiptInv, Receipts!TypeOK, OneCall, Handles
  <1>3. GivesBack'
    BY DEF Receipts!Write, Receipts!Refuse, Receipts!Unanswered,
           Receipts!StopsWorking, Receipts!Continue, Receipts!bounds,
           ReceiptInv, Receipts!TypeOK, GivesBack, OneCall, Handles
  <1>4. WorkersHold'
    BY DEF Receipts!Write, Receipts!Refuse, Receipts!Unanswered,
           Receipts!StopsWorking, Receipts!Continue, Receipts!bounds,
           ReceiptInv, Receipts!TypeOK, WorkersHold, ClaimsHold, GivesBack,
           Holds, Handles, Receipts!Unheld
  <1>5. ClaimsHold'
    BY DEF Receipts!Write, Receipts!Refuse, Receipts!Unanswered,
           Receipts!StopsWorking, Receipts!Continue, Receipts!bounds,
           ReceiptInv, Receipts!TypeOK, ClaimsHold, OneCall, Handles, Holds,
           Receipts!Unheld
  <1> QED
    BY <1>1, <1>2, <1>3, <1>4, <1>5 DEF ReceiptInv

\* Nothing happens to a lease that is used, unless its session is silent.
LEMMA LeaseTimeKeeps ==
    ASSUME "none" \notin Sessions, ReceiptInv,
           Receipts!Lapse \/ (\E d \in Docs : Receipts!Expire(d))
             \/ Receipts!Crash \/ UNCHANGED Receipts!vars
    PROVE  ReceiptInv'
  <1> USE DEF Receipts!None, Receipts!Idle
  <1>1. CASE Receipts!Lapse
    <2>1. state' \in Receipts!States \cup {Receipts!NoState}
      <3>1. state \in Receipts!States
        BY <1>1
           DEF Receipts!Lapse, ReceiptInv, Receipts!TypeOK, Receipts!NoState
      <3> QED
        BY <1>1, <3>1, Zenon DEF Receipts!Lapse, Receipts!States
    <2> QED
      BY <1>1, <2>1
         DEF Receipts!Lapse, ReceiptInv, LiveOwned, Receipts!TypeOK, OneCall,
             Handles, GivesBack, WorkersHold, ClaimsHold, Holds
  <1>2. ASSUME NEW d \in Docs, Receipts!Expire(d) PROVE ReceiptInv'
    <2>1. Receipts!TypeOK'
      <3>1. docLease' \in LeaseRows
        <4> DEFINE r == [docLease[d] EXCEPT !.live = FALSE]
        <4>1. docLease \in LeaseRows
          BY DEF ReceiptInv, Receipts!TypeOK, LeaseRows
        <4>2. r \in [owner : Sessions \cup {Receipts!None}, live : BOOLEAN]
          BY <4>1, Zenon DEF LeaseRows
        <4>3. docLease' = [docLease EXCEPT ![d] = r]
          BY <1>2, Zenon DEF Receipts!Expire
        <4> QED
          BY <4>1, <4>2, <4>3, Zenon DEF LeaseRows
      <3>2. late' \subseteq Sessions
        BY <1>2 DEF Receipts!Expire, ReceiptInv, Receipts!TypeOK, LiveOwned
      <3> QED
        BY <1>2, <3>1, <3>2
           DEF Receipts!Expire, Receipts!bounds, ReceiptInv, Receipts!TypeOK,
               LeaseRows
    <2>2. OneCall' /\ Handles' /\ GivesBack' /\ LiveOwned'
      BY <1>2
         DEF LiveOwned, Receipts!Expire, Receipts!bounds, ReceiptInv,
             Receipts!TypeOK, OneCall, Handles, GivesBack
    <2>3. WorkersHold'
      BY <1>2
         DEF Receipts!Expire, Receipts!bounds, ReceiptInv, Receipts!TypeOK,
             WorkersHold, Holds
    <2>4. ClaimsHold'
      BY <1>2
         DEF Receipts!Expire, Receipts!bounds, Receipts!Calling, ReceiptInv,
             Receipts!TypeOK, ClaimsHold, Holds
    <2> QED
      BY <2>1, <2>2, <2>3, <2>4 DEF ReceiptInv
  <1>3. CASE Receipts!Crash
    BY <1>3
       DEF Receipts!Crash, ReceiptInv, LiveOwned, Receipts!TypeOK, OneCall,
           Handles, GivesBack, WorkersHold, ClaimsHold, Holds
  <1>4. CASE UNCHANGED Receipts!vars
    BY <1>4
       DEF Receipts!vars, ReceiptInv, LiveOwned, Receipts!TypeOK, OneCall,
           Handles, GivesBack, WorkersHold, ClaimsHold, Holds
  <1> QED
    BY <1>1, <1>2, <1>3, <1>4

LEMMA ReceiptStepInv ==
    ASSUME "none" \notin Sessions, ReceiptInv,
           Receipts!Next \/ UNCHANGED Receipts!vars
    PROVE  ReceiptInv'
  BY CallKeeps, LoadRegisterKeeps, RenewKeeps, LoadClaimKeeps, TryClaimKeeps,
     LoadReleaseKeeps, LoadDisconnectKeeps, FreeLeaseKeeps, StateWriteKeeps,
     LeaseTimeKeeps
     DEF Receipts!Next, Receipts!Handle

LEMMA ReceiptsExclude == ASSUME ReceiptInv PROVE Receipts!ExclusiveOrder
  BY DEF ReceiptInv, Receipts!TypeOK, WorkersHold, Holds,
         Receipts!ExclusiveOrder, Receipts!None

-----------------------------------------------------------------------------
(***************************************************************************)
(* BackupRestore.  The properties speak of the ledger while no lock is     *)
(* mentioned; what carries them is who may write to it.  A thread past its *)
(* lock request holds fab-worker.lock and runs in maintenance mode, so     *)
(* that neither the worker nor the API nor another restore touches the     *)
(* ledger (HoldsAlone).  With that the ledger is the one that was packaged *)
(* and snapshotted until it is copied over (Untouched), and every ledger   *)
(* that may come back, in a package or by a rollback, points to evidence   *)
(* that is there (Rooted).                                                 *)
(***************************************************************************)
\* No thread is called what the lock says when none holds it.
ThreadNames == "free" \notin Procs /\ "worker" \notin Procs

Places == {"idle", "lock", "package", "snapshot", "prepare", "extract",
           "copy", "verify", "rollback", "unlock"}

Restores == [at : Places, pkg : Backup!Ids \cup {Backup!None}, full : BOOLEAN,
             before : Backup!Ledgers \cup {Backup!NoLedger},
             result : {"none", "restored", "failed", "broken"}]

\* The evidence of a restored ledger was extracted.
Rooted(l) == l.tree # Backup!None => trees[l.tree] # "absent"

Packaged(l) == \E p \in DOMAIN packages : packages[p].ledger = l

PastLock(t) == restoreProc[t].at \notin {"idle", "lock"}

\* Before the copy.
Untouched == {"prepare", "extract", "copy"}

HoldsAlone(t) ==
    /\ restoreProc[t].at # "idle" =>
            mode = "maintenance" /\ restoreProc[t].pkg \in DOMAIN packages
    /\ PastLock(t) => lock = t

\* What a thread that works on a restore knows.
Knows(t) ==
    /\ restoreProc[t].at # "unlock" => restoreProc[t].result = "none"
    /\ restoreProc[t].at \in {"idle", "lock", "package", "snapshot"} =>
            restoreProc[t].before = Backup!NoLedger
    /\ restoreProc[t].at = "snapshot" => Packaged(live)
    /\ restoreProc[t].at \in Untouched =>
            restoreProc[t].before = live /\ Packaged(live)
    /\ restoreProc[t].at \in {"verify", "rollback"} =>
            restoreProc[t].before \in Backup!Ledgers
              /\ Rooted(restoreProc[t].before)
    /\ restoreProc[t].at = "copy" /\ restoreProc[t].full
         => trees[restoreProc[t].pkg] # "absent"

\* The first part of RestoreAllOrNothing, of one thread.
Ends(t) ==
    /\ restoreProc[t].result = "failed"
         /\ restoreProc[t].before # Backup!NoLedger
            => live = restoreProc[t].before
    /\ restoreProc[t].result = "restored" =>
            /\ live.rev = packages[restoreProc[t].pkg].ledger.rev
            /\ restoreProc[t].full => live.tree = restoreProc[t].pkg

AllRooted ==
    /\ Rooted(live)
    /\ \A p \in DOMAIN packages : Rooted(packages[p].ledger)

BackupInv ==
    /\ Backup!TypeOK
    /\ writes \in Nat
    /\ Len(packages) <= 3
    /\ \A t \in Procs : HoldsAlone(t) /\ Knows(t) /\ Ends(t)
    /\ AllRooted
    /\ Backup!ReplacedIsPackaged

(***************************************************************************)
(* Of what a step leaves alone.                                            *)
(***************************************************************************)
\* Nothing that a restore package or its evidence says is taken back.
PackagesGrow ==
    /\ DOMAIN packages \subseteq DOMAIN packages'
    /\ \A p \in DOMAIN packages : packages'[p] = packages[p]
    /\ \A p \in Backup!Ids : trees[p] # "absent" => trees'[p] # "absent"

LEMMA ThreadType ==
    ASSUME Backup!TypeOK, NEW t \in Procs
    PROVE  /\ restoreProc[t].at \in Places
           /\ restoreProc[t].pkg \in Backup!Ids \cup {Backup!None}
           /\ restoreProc[t].full \in BOOLEAN
           /\ restoreProc[t].before \in Backup!Ledgers \cup {Backup!NoLedger}
  BY DEF Backup!TypeOK, Places

LEMMA LedgerTree ==
    ASSUME NEW l \in Backup!Ledgers
    PROVE  l.tree \in Backup!Ids \cup {Backup!None} /\ l.rev \in 0..1
  BY DEF Backup!Ledgers

LEMMA PackageType ==
    ASSUME ThreadNames, BackupInv, NEW p \in DOMAIN packages
    PROVE  packages[p].ledger \in Backup!Ledgers /\ p \in Backup!Ids
  <1> DEFINE S == [ledger : Backup!Ledgers, complete : BOOLEAN]
  <1>1. packages \in Seq(S) /\ Len(packages) <= 3
    BY DEF BackupInv, Backup!TypeOK
  <1> HIDE DEF S
  <1>2. p \in 1..Len(packages) /\ Len(packages) \in Nat
    BY <1>1
  <1>3. packages[p] \in S
    BY <1>1, <1>2, ElementOfSeq
  <1> QED
    BY <1>1, <1>2, <1>3 DEF Backup!Ids, ThreadNames, S

LEMMA RootedStays ==
    ASSUME NEW l \in Backup!Ledgers, Rooted(l), PackagesGrow
    PROVE  Rooted(l)'
  <1>1. l.tree \in Backup!Ids \cup {Backup!None}
    BY LedgerTree
  <1> QED
    BY <1>1 DEF Rooted, PackagesGrow, Backup!None

LEMMA PackagedStays ==
    ASSUME NEW l, Packaged(l), PackagesGrow
    PROVE  \E p \in DOMAIN packages' : packages'[p].ledger = l
  BY DEF Packaged, PackagesGrow

\* A thread that does not move keeps what it knows as long as the ledger
\* stays, or as long as it has not got the lock.
LEMMA StillStands ==
    ASSUME ThreadNames, BackupInv, PackagesGrow, NEW t \in Procs,
           restoreProc'[t] = restoreProc[t], mode' = mode,
           PastLock(t) => live' = live /\ lock' = lock
    PROVE  HoldsAlone(t)' /\ Knows(t)' /\ Ends(t)'
  <1>1. HoldsAlone(t) /\ Knows(t) /\ Ends(t)
    BY DEF BackupInv
  <1>2. HoldsAlone(t)'
    BY <1>1 DEF HoldsAlone, PastLock, PackagesGrow
  <1>3. Knows(t)'
    <2>1. CASE ~ PastLock(t)
      BY <1>1, <2>1 DEF Knows, PastLock, Untouched
    <2>2. CASE PastLock(t)
      <3>1. Packaged(live) => Packaged(live)'
        BY <2>2, PackagedStays DEF Packaged
      <3>2. restoreProc[t].before \in Backup!Ledgers
              /\ Rooted(restoreProc[t].before)
                => Rooted(restoreProc[t].before)'
        BY RootedStays DEF Rooted
      <3>3. restoreProc[t].pkg \in DOMAIN packages
              /\ restoreProc[t].pkg \in Backup!Ids
        BY <1>1, <2>2, PackageType DEF HoldsAlone, PastLock
      <3>4. trees[restoreProc[t].pkg] # "absent"
              => trees'[restoreProc[t].pkg] # "absent"
        BY <3>3 DEF PackagesGrow
      <3> QED
        BY <1>1, <2>2, <3>1, <3>2, <3>4 DEF Knows, Untouched, Rooted
    <2> QED
      BY <2>1, <2>2
  <1>4. Ends(t)'
    <2>1. CASE restoreProc[t].at = "unlock"
      BY <1>1, <2>1 DEF Ends, HoldsAlone, PastLock, PackagesGrow
    <2>2. CASE restoreProc[t].at # "unlock"
      BY <1>1, <2>2 DEF Ends, Knows
    <2> QED
      BY <2>1, <2>2
  <1> QED
    BY <1>2, <1>3, <1>4

\* The thread that has the lock is the only one past its request.
LEMMA OthersStand ==
    ASSUME ThreadNames, BackupInv, PackagesGrow, NEW t \in Procs,
           PastLock(t), mode' = mode,
           NEW u \in Procs, u # t, restoreProc'[u] = restoreProc[u]
    PROVE  HoldsAlone(u)' /\ Knows(u)' /\ Ends(u)'
  <1>1. ~ PastLock(u)
    BY DEF BackupInv, HoldsAlone
  <1> QED
    BY <1>1, StillStands

LEMMA RestoresType == Backup!TypeOK <=> Backup!TypeOK
    /\ restoreProc \in [Procs -> Restores]
  BY DEF Backup!TypeOK, Restores, Places

LEMMA ProcMoves ==
    ASSUME Backup!TypeOK, NEW t \in Procs, NEW pc \in Places,
           Backup!Goto(t, pc)
    PROVE  /\ restoreProc'[t].at = pc
           /\ restoreProc'[t].pkg = restoreProc[t].pkg
           /\ restoreProc'[t].full = restoreProc[t].full
           /\ restoreProc'[t].before = restoreProc[t].before
           /\ restoreProc'[t].result = restoreProc[t].result
           /\ \A u \in Procs \ {t} : restoreProc'[u] = restoreProc[u]
           /\ restoreProc' \in [Procs -> Restores]
  BY RestoresType DEF Restores, Backup!Goto

LEMMA ProcEnds ==
    ASSUME Backup!TypeOK, NEW t \in Procs,
           NEW result \in {"restored", "failed", "broken"},
           Backup!End(t, result)
    PROVE  /\ restoreProc'[t].at = "unlock"
           /\ restoreProc'[t].pkg = restoreProc[t].pkg
           /\ restoreProc'[t].full = restoreProc[t].full
           /\ restoreProc'[t].before = restoreProc[t].before
           /\ restoreProc'[t].result = result
           /\ \A u \in Procs \ {t} : restoreProc'[u] = restoreProc[u]
           /\ restoreProc' \in [Procs -> Restores]
  <1> DEFINE c == [restoreProc[t] EXCEPT !.at = "unlock", !.result = result]
  <1>1. restoreProc' = [restoreProc EXCEPT ![t] = c]
    BY DEF Backup!End
  <1>2. c \in Restores /\ restoreProc[t] \in Restores
    BY RestoresType DEF Restores, Places
  <1>3. /\ c.at = "unlock" /\ c.pkg = restoreProc[t].pkg
        /\ c.full = restoreProc[t].full /\ c.before = restoreProc[t].before
        /\ c.result = result
    BY <1>2 DEF Restores
  <1> HIDE DEF c
  <1> QED
    BY <1>1, <1>2, <1>3, RestoresType

ThreadInv(t) == HoldsAlone(t) /\ Knows(t) /\ Ends(t)

LEMMA ReplacedStays ==
    ASSUME BackupInv, PackagesGrow, replaced' = replaced
    PROVE  Backup!ReplacedIsPackaged'
  BY PackagedStays DEF BackupInv, Backup!ReplacedIsPackaged, Packaged

LEMMA RootsStay ==
    ASSUME ThreadNames, BackupInv, PackagesGrow, packages' = packages,
           Rooted(live)'
    PROVE  AllRooted'
  <1> SUFFICES ASSUME NEW p \in DOMAIN packages
               PROVE  Rooted(packages[p].ledger)'
    BY DEF AllRooted
  <1>1. packages[p].ledger \in Backup!Ledgers
    BY PackageType
  <1>2. Rooted(packages[p].ledger)
    BY DEF BackupInv, AllRooted
  <1>3. ASSUME NEW l \in Backup!Ledgers, Rooted(l) PROVE Rooted(l)'
    BY <1>3, RootedStays
  <1> DEFINE m == packages[p].ledger
  <1>4. PICK k \in Backup!Ledgers : k = m
    BY <1>1
  <1>5. Rooted(k)'
    BY <1>2, <1>3, <1>4
  <1> QED
    BY <1>4, <1>5 DEF Rooted

LEMMA LiveRooted ==
    ASSUME BackupInv, PackagesGrow, live' = live
    PROVE  Rooted(live)'
  <1>1. live \in Backup!Ledgers /\ Rooted(live)
    BY DEF BackupInv, Backup!TypeOK, AllRooted
  <1>2. live.tree \in Backup!Ids \cup {Backup!None}
    BY <1>1, LedgerTree
  <1> QED
    BY <1>1, <1>2 DEF Rooted, PackagesGrow, Backup!None

\* Where nothing is packaged and no evidence changes.
LEMMA SameGrows ==
    ASSUME packages' = packages, trees' = trees
    PROVE  PackagesGrow
  BY DEF PackagesGrow

LEMMA AppendGrows ==
    ASSUME ThreadNames, BackupInv, Len(packages) < 3,
           packages' = Append(packages, Backup!Package), trees' = trees
    PROVE  /\ PackagesGrow
           /\ packages' \in Seq([ledger : Backup!Ledgers, complete : BOOLEAN])
           /\ Len(packages') <= 3
           /\ \E p \in DOMAIN packages' : packages'[p].ledger = live
           /\ live' = live => AllRooted'
  <1> DEFINE S == [ledger : Backup!Ledgers, complete : BOOLEAN]
  <1>1. packages \in Seq(S) /\ live \in Backup!Ledgers
    BY DEF BackupInv, Backup!TypeOK
  <1>2. Backup!Package \in S /\ Backup!Package.ledger = live
    BY <1>1 DEF Backup!Package, Backup!Complete
  <1> DEFINE x == Backup!Package
             n == Len(packages)
  <1> HIDE DEF S, x
  <1>3. /\ packages' \in Seq(S) /\ Len(packages') = n + 1
        /\ packages'[n + 1] = x
        /\ \A p \in 1..n : packages'[p] = packages[p]
    BY <1>1, <1>2, AppendProperties DEF x
  <1>4. n \in Nat /\ DOMAIN packages = 1..n /\ DOMAIN packages' = 1..(n + 1)
    BY <1>1, <1>3
  <1>5. PackagesGrow
    BY <1>3, <1>4 DEF PackagesGrow
  <1>6. packages'[n + 1].ledger = live
    BY <1>2, <1>3 DEF x
  <1>7. Rooted(live) /\ \A p \in 1..n : Rooted(packages[p].ledger)
    BY <1>4 DEF BackupInv, AllRooted
  <1>8. live' = live => AllRooted'
    <2> SUFFICES ASSUME live' = live, NEW p \in 1..(n + 1)
                 PROVE  Rooted(live)' /\ Rooted(packages[p].ledger)'
      BY <1>4 DEF AllRooted
    <2>1. Rooted(live)'
      BY <1>7 DEF Rooted
    <2>2. CASE p = n + 1
      BY <1>6, <1>7, <2>2 DEF Rooted
    <2>3. CASE p \in 1..n
      BY <1>3, <1>7, <2>3 DEF Rooted
    <2> QED
      BY <1>4, <2>1, <2>2, <2>3
  <1>9. Len(packages') <= 3
    BY <1>3, <1>4 DEF ThreadNames
  <1> QED
    BY <1>3, <1>4, <1>5, <1>6, <1>8, <1>9 DEF S

(***************************************************************************)
(* The bookkeeping, packages, and what happens outside.                    *)
(***************************************************************************)
\* Nobody restores while the ledger may be written.
LEMMA NoRestore ==
    ASSUME ThreadNames, BackupInv, Backup!MayWrite, NEW t \in Procs
    PROVE  ~ PastLock(t)
  BY DEF ThreadNames, BackupInv, Backup!MayWrite, Backup!WorkerOn, HoldsAlone,
         PastLock

LEMMA WorkerKeeps ==
    ASSUME ThreadNames, BackupInv, Backup!StartWorker \/ Backup!StopWorker
    PROVE  BackupInv'
  <1>1. \A t \in Procs : ~ PastLock(t)
    BY DEF ThreadNames, BackupInv, HoldsAlone, Backup!StartWorker,
           Backup!StopWorker, Backup!WorkerOn
  <1>2. /\ UNCHANGED <<live, packages, trees, originals, mode, restoreProc,
           writes,
                       replaced>>
        /\ lock' \in {"free", "worker"}
    BY DEF Backup!StartWorker, Backup!StopWorker, Backup!bounds
  <1>3. PackagesGrow
    BY <1>2, SameGrows
  <1>4. \A t \in Procs : ThreadInv(t)'
    BY <1>1, <1>2, <1>3, StillStands DEF ThreadInv
  <1>5. Backup!TypeOK'
    BY <1>2 DEF BackupInv, Backup!TypeOK
  <1>6. AllRooted'
    BY <1>2, <1>3, LiveRooted, RootsStay
  <1>7. Backup!ReplacedIsPackaged'
    BY <1>2, <1>3, ReplacedStays
  <1> QED
    BY <1>2, <1>4, <1>5, <1>6, <1>7 DEF BackupInv, ThreadInv

LEMMA LedgerWriteKeeps ==
    ASSUME ThreadNames, BackupInv,
           Backup!WriteLedger
             \/ \E engage \in BOOLEAN : Backup!EmergencyStop(engage)
    PROVE  BackupInv'
  <1>1. Backup!MayWrite
    BY DEF Backup!WriteLedger, Backup!EmergencyStop, Backup!MayWrite
  <1>2. /\ UNCHANGED <<packages, trees, originals, mode, lock, restoreProc,
           replaced>>
        /\ live' \in Backup!Ledgers /\ live'.tree = live.tree
        /\ writes' \in Nat
    <2>1. live \in Backup!Ledgers /\ writes \in Nat
      BY DEF BackupInv, Backup!TypeOK
    <2>2. CASE Backup!WriteLedger
      <3> DEFINE n == writes + 1
      <3>1. n \in 0..1 /\ n \in Nat
        BY <2>1, <2>2 DEF Backup!WriteLedger, ThreadNames
      <3>2. live' = [live EXCEPT !.rev = n, !.original = TRUE]
            /\ writes' = n
        BY <2>2 DEF Backup!WriteLedger
      <3> HIDE DEF n
      <3>3. live' \in Backup!Ledgers /\ live'.tree = live.tree
        BY <2>1, <3>1, <3>2 DEF Backup!Ledgers
      <3> QED
        BY <2>2, <3>1, <3>2, <3>3 DEF Backup!WriteLedger
    <2>3. CASE \E engage \in BOOLEAN : Backup!EmergencyStop(engage)
      BY <2>1, <2>3 DEF Backup!EmergencyStop, Backup!Ledgers, Backup!bounds
    <2> QED
      BY <2>2, <2>3
  <1>3. PackagesGrow
    BY <1>2, SameGrows
  <1>4. \A t \in Procs : ThreadInv(t)'
    BY <1>1, <1>2, <1>3, NoRestore, StillStands DEF ThreadInv
  <1>5. Backup!TypeOK'
    BY <1>2 DEF BackupInv, Backup!TypeOK
  <1>6. AllRooted'
    <2>1. Rooted(live)'
      BY <1>2 DEF BackupInv, AllRooted, Rooted
    <2> QED
      BY <1>2, <1>3, <2>1, RootsStay
  <1>7. Backup!ReplacedIsPackaged'
    BY <1>2, <1>3, ReplacedStays
  <1> QED
    BY <1>2, <1>4, <1>5, <1>6, <1>7 DEF BackupInv, ThreadInv

LEMMA BackupKeeps ==
    ASSUME ThreadNames, BackupInv,
           NEW requireComplete \in BOOLEAN,
           Backup!CreateBackup(requireComplete)
    PROVE  BackupInv'
  <1>1. /\ UNCHANGED <<live, trees, originals, mode, lock, restoreProc, writes,
                       replaced>>
        /\ packages' = Append(packages, Backup!Package)
        /\ Len(packages) < 3
    BY DEF Backup!CreateBackup, Backup!Packageable, Backup!bounds
  <1>2. /\ PackagesGrow
        /\ packages' \in Seq([ledger : Backup!Ledgers, complete : BOOLEAN])
        /\ Len(packages') <= 3
        /\ AllRooted'
    BY <1>1, AppendGrows
  <1>3. \A t \in Procs : ThreadInv(t)'
    BY <1>1, <1>2, StillStands DEF ThreadInv
  <1>4. Backup!TypeOK'
    BY <1>1, <1>2 DEF BackupInv, Backup!TypeOK
  <1>5. Backup!ReplacedIsPackaged'
    BY <1>1, <1>2, ReplacedStays
  <1> QED
    BY <1>1, <1>2, <1>3, <1>4, <1>5 DEF BackupInv, ThreadInv

LEMMA ServerRestartKeeps ==
    ASSUME ThreadNames, BackupInv, Backup!Restart
    PROVE  BackupInv'
  <1>1. /\ UNCHANGED <<live, packages, trees, originals, writes, replaced>>
        /\ restoreProc' = [t \in Procs |-> Backup!Idle]
        /\ mode' \in {"standard", "maintenance"}
        /\ lock' \in {lock, "free"}
    BY DEF Backup!Restart
  <1>2. PackagesGrow
    BY <1>1, SameGrows
  <1>3. \A t \in Procs : ThreadInv(t)'
    BY <1>1
       DEF ThreadInv, HoldsAlone, Knows, Ends, PastLock, Backup!Idle,
           Untouched
  <1>4. Backup!TypeOK'
    BY <1>1 DEF BackupInv, Backup!TypeOK, Backup!Idle
  <1>5. AllRooted'
    BY <1>1, <1>2, LiveRooted, RootsStay
  <1>6. Backup!ReplacedIsPackaged'
    BY <1>1, <1>2, ReplacedStays
  <1> QED
    BY <1>1, <1>3, <1>4, <1>5, <1>6 DEF BackupInv, ThreadInv

LEMMA LossKeeps ==
    ASSUME ThreadNames, BackupInv, Backup!Lose
    PROVE  BackupInv'
  <1>1. /\ UNCHANGED <<live, packages, mode, lock, restoreProc, writes,
           replaced>>
        /\ originals' \in {"exact", "absent", "damaged"}
        /\ trees' \in [Backup!Ids -> {"absent", "exact", "damaged"}]
        /\ \A p \in Backup!Ids : trees[p] # "absent" => trees'[p] # "absent"
    BY DEF Backup!Lose, BackupInv, Backup!TypeOK
  <1>2. PackagesGrow
    BY <1>1 DEF PackagesGrow
  <1>3. \A t \in Procs : ThreadInv(t)'
    BY <1>1, <1>2, StillStands DEF ThreadInv
  <1>4. Backup!TypeOK'
    BY <1>1 DEF BackupInv, Backup!TypeOK
  <1>5. AllRooted'
    BY <1>1, <1>2, LiveRooted, RootsStay
  <1>6. Backup!ReplacedIsPackaged'
    BY <1>1, <1>2, ReplacedStays
  <1> QED
    BY <1>1, <1>3, <1>4, <1>5, <1>6 DEF BackupInv, ThreadInv

(***************************************************************************)
(* Restores.                                                               *)
(***************************************************************************)
\* A step of the thread that has the lock: it knows its part, and the others
\* stand.
LEMMA OneMoves ==
    ASSUME ThreadNames, BackupInv, PackagesGrow, NEW t \in Procs, PastLock(t),
           mode' = mode, ThreadInv(t)',
           \A u \in Procs \ {t} : restoreProc'[u] = restoreProc[u],
           packages' \in Seq([ledger : Backup!Ledgers, complete : BOOLEAN]),
           Len(packages') <= 3,
           live' \in Backup!Ledgers, AllRooted', Backup!ReplacedIsPackaged',
           trees' \in [Backup!Ids -> {"absent", "exact", "damaged"}],
           replaced' \subseteq Backup!Ledgers,
           restoreProc' \in [Procs -> Restores],
           lock' \in Procs \cup {"free", "worker"},
           UNCHANGED <<originals, writes>>
    PROVE  BackupInv'
  <1>1. \A u \in Procs : ThreadInv(u)'
    <2>1. ASSUME NEW u \in Procs, u # t PROVE ThreadInv(u)'
      BY <2>1, OthersStand DEF ThreadInv
    <2> QED
      BY <2>1
  <1>2. Backup!TypeOK'
    BY DEF BackupInv, Backup!TypeOK, Restores, Places
  <1> QED
    BY <1>1, <1>2 DEF BackupInv, ThreadInv

LEMMA AskKeeps ==
    ASSUME ThreadNames, BackupInv, NEW t \in Procs, NEW p \in DOMAIN packages,
           NEW full \in BOOLEAN, Backup!Ask(t, p, full)
    PROVE  BackupInv'
  <1> DEFINE c == [Backup!Idle EXCEPT !.at = "lock", !.pkg = p, !.full = full]
  <1>1. /\ UNCHANGED <<live, packages, trees, originals, mode, lock, writes,
                       replaced>>
        /\ restoreProc' = [restoreProc EXCEPT ![t] = c]
        /\ mode = "maintenance" /\ restoreProc[t].at = "idle"
    BY DEF Backup!Ask, Backup!Restorable, Backup!bounds
  <1>2. c \in Restores /\ c.at = "lock" /\ c.pkg = p /\ c.result = "none"
        /\ c.before = Backup!NoLedger
    BY PackageType DEF Restores, Places, Backup!Idle
  <1> HIDE DEF c
  <1>3. /\ restoreProc'[t] = c
             /\ \A u \in Procs \ {t} : restoreProc'[u] = restoreProc[u]
        /\ restoreProc' \in [Procs -> Restores]
    BY <1>1, <1>2, RestoresType DEF BackupInv
  <1>4. PackagesGrow
    BY <1>1, SameGrows
  <1>5. ASSUME NEW u \in Procs PROVE ThreadInv(u)'
    <2>1. CASE u = t
      BY <1>1, <1>2, <1>3, <2>1
         DEF ThreadInv, HoldsAlone, Knows, Ends, PastLock, Untouched
    <2>2. CASE u # t
      BY <1>1, <1>3, <1>4, <2>2, StillStands DEF ThreadInv
    <2> QED
      BY <2>1, <2>2
  <1>6. Backup!TypeOK'
    BY <1>1, <1>3 DEF BackupInv, Backup!TypeOK, Restores, Places
  <1>7. AllRooted'
    BY <1>1, <1>4, LiveRooted, RootsStay
  <1>8. Backup!ReplacedIsPackaged'
    BY <1>1, <1>4, ReplacedStays
  <1> QED
    BY <1>1, <1>5, <1>6, <1>7, <1>8 DEF BackupInv, ThreadInv

LEMMA LockKeeps ==
    ASSUME ThreadNames, BackupInv, NEW t \in Procs, Backup!Lock(t)
    PROVE  BackupInv'
  <1>1. /\ UNCHANGED <<live, packages, trees, originals, mode, writes,
           replaced>>
        /\ restoreProc[t].at = "lock"
    BY DEF Backup!Lock, Backup!bounds
  <1>2. PackagesGrow
    BY <1>1, SameGrows
  <1>3. HoldsAlone(t) /\ Knows(t) /\ Backup!TypeOK
    BY DEF BackupInv
  <1>4. /\ restoreProc' \in [Procs -> Restores]
        /\ \A u \in Procs \ {t} : restoreProc'[u] = restoreProc[u]
        /\ lock' \in Procs \cup {"free", "worker"}
        /\ ThreadInv(t)'
        /\ lock' # lock => lock = "free"
    <2>1. CASE lock = "free"
      <3>1. lock' = t /\ Backup!Goto(t, "package")
        BY <2>1 DEF Backup!Lock
      <3>2. ThreadInv(t)'
        BY <1>1, <1>3, <3>1, ProcMoves
           DEF Places, ThreadInv, HoldsAlone, Knows, Ends, Untouched
      <3> QED
        BY <1>3, <2>1, <3>1, <3>2, ProcMoves DEF Places
    <2>2. CASE lock # "free"
      <3>1. restoreProc' = [restoreProc EXCEPT ![t] = Backup!Idle]
              /\ lock' = lock
        BY <2>2 DEF Backup!Lock
      <3>2. Backup!Idle \in Restores
        BY DEF Backup!Idle, Restores, Places
      <3>3. /\ restoreProc'[t] = Backup!Idle
                 /\ restoreProc' \in [Procs -> Restores]
            /\ \A u \in Procs \ {t} : restoreProc'[u] = restoreProc[u]
        BY <1>3, <3>1, <3>2, RestoresType
      <3>4. ThreadInv(t)'
        BY <3>3
           DEF Backup!Idle, ThreadInv, HoldsAlone, Knows, Ends, PastLock,
               Untouched
      <3> QED
        BY <1>3, <3>1, <3>3, <3>4 DEF Backup!TypeOK
    <2> QED
      BY <2>1, <2>2
  <1>5. ASSUME NEW u \in Procs, u # t PROVE ThreadInv(u)'
    <2>1. PastLock(u) => lock' = lock
      BY <1>4 DEF ThreadNames, BackupInv, HoldsAlone
    <2> QED
      BY <1>1, <1>2, <1>4, <1>5, <2>1, StillStands DEF ThreadInv
  <1>6. Backup!TypeOK'
    BY <1>1, <1>3, <1>4 DEF Backup!TypeOK, Restores, Places
  <1>7. AllRooted'
    BY <1>1, <1>2, LiveRooted, RootsStay
  <1>8. Backup!ReplacedIsPackaged'
    BY <1>1, <1>2, ReplacedStays
  <1> QED
    BY <1>1, <1>4, <1>5, <1>6, <1>7, <1>8 DEF BackupInv, ThreadInv

LEMMA UnlockKeeps ==
    ASSUME ThreadNames, BackupInv, NEW t \in Procs, Backup!Unlock(t)
    PROVE  BackupInv'
  <1>1. /\ UNCHANGED <<live, packages, trees, originals, mode, writes,
           replaced>>
        /\ restoreProc[t].at = "unlock" /\ lock' = "free"
        /\ restoreProc' = [restoreProc EXCEPT ![t] = Backup!Idle]
    BY DEF Backup!Unlock, Backup!bounds
  <1>2. Backup!Idle \in Restores
    BY DEF Backup!Idle, Restores, Places
  <1>3. /\ restoreProc'[t] = Backup!Idle
             /\ restoreProc' \in [Procs -> Restores]
        /\ \A u \in Procs \ {t} : restoreProc'[u] = restoreProc[u]
    BY <1>1, <1>2, RestoresType DEF BackupInv
  <1>4. ThreadInv(t)'
    BY <1>3
       DEF Backup!Idle, ThreadInv, HoldsAlone, Knows, Ends, PastLock,
           Untouched
  <1>5. PackagesGrow /\ PastLock(t)
    BY <1>1, SameGrows DEF PastLock
  <1>6. AllRooted' /\ Backup!ReplacedIsPackaged'
    BY <1>1, <1>5, LiveRooted, RootsStay, ReplacedStays
  <1>7. Backup!TypeOK /\ Len(packages) <= 3
    BY DEF BackupInv
  <1> QED
    BY <1>1, <1>3, <1>4, <1>5, <1>6, <1>7, OneMoves DEF Backup!TypeOK

\* The steps that do not write to the ledger: what is left to show is that
\* the thread knows its part.
LEMMA LedgerStays ==
    ASSUME ThreadNames, BackupInv, PackagesGrow, NEW t \in Procs, PastLock(t),
           ThreadInv(t)',
           \A u \in Procs \ {t} : restoreProc'[u] = restoreProc[u],
           restoreProc' \in [Procs -> Restores],
           trees' \in [Backup!Ids -> {"absent", "exact", "damaged"}],
           UNCHANGED <<live, packages, originals, mode, lock, writes, replaced>>
    PROVE  BackupInv'
  <1>1. AllRooted' /\ Backup!ReplacedIsPackaged'
    BY LiveRooted, RootsStay, ReplacedStays
  <1>2. Backup!TypeOK /\ Len(packages) <= 3
    BY DEF BackupInv
  <1> QED
    BY <1>1, <1>2, OneMoves DEF Backup!TypeOK

LEMMA TreesType ==
    ASSUME BackupInv
    PROVE  trees \in [Backup!Ids -> {"absent", "exact", "damaged"}]
             /\ Backup!TypeOK
  BY DEF BackupInv, Backup!TypeOK

LEMMA PackageFirstKeeps ==
    ASSUME ThreadNames, BackupInv, NEW t \in Procs, Backup!PackageFirst(t)
    PROVE  BackupInv'
  <1>1. /\ UNCHANGED <<live, trees, originals, mode, lock, writes, replaced>>
        /\ restoreProc[t].at = "package" /\ PastLock(t)
    BY DEF Backup!PackageFirst, Backup!bounds, PastLock
  <1>2. HoldsAlone(t) /\ Knows(t) /\ Backup!TypeOK
    BY DEF BackupInv
  <1>3. CASE packages' = Append(packages, Backup!Package)
               /\ Backup!Goto(t, "snapshot")
             /\ Backup!Packageable(restoreProc[t].full)
    <2>1. Len(packages) < 3
      BY <1>3 DEF Backup!Packageable
    <2>2. /\ PackagesGrow
          /\ packages' \in Seq([ledger : Backup!Ledgers, complete : BOOLEAN])
          /\ Len(packages') <= 3
          /\ Packaged(live)'
          /\ AllRooted'
      BY <1>1, <1>3, <2>1, AppendGrows DEF Packaged
    <2>3. ThreadInv(t)'
      BY <1>1, <1>2, <1>3, <2>2, ProcMoves
         DEF Places, ThreadInv, HoldsAlone, Knows, Ends, PastLock, Untouched,
             PackagesGrow
    <2>4. Backup!ReplacedIsPackaged'
      BY <1>1, <2>2, ReplacedStays
    <2> QED
      BY <1>1, <1>2, <1>3, <2>2, <2>3, <2>4, ProcMoves, OneMoves
         DEF Backup!TypeOK, Places
  <1>4. CASE Backup!End(t, "failed") /\ packages' = packages
    <2>1. ThreadInv(t)'
      BY <1>1, <1>2, <1>4, ProcEnds
         DEF ThreadInv, HoldsAlone, Knows, Ends, PastLock, Untouched
    <2>2. PackagesGrow
      BY <1>1, <1>4, SameGrows
    <2> QED
      BY <1>1, <1>2, <1>4, <2>1, <2>2, ProcEnds, TreesType, LedgerStays
  <1> QED
    BY <1>3, <1>4 DEF Backup!PackageFirst

LEMMA SnapshotKeeps ==
    ASSUME ThreadNames, BackupInv, NEW t \in Procs, Backup!Snapshot(t)
    PROVE  BackupInv'
  <1> DEFINE c == [restoreProc[t] EXCEPT !.at = "prepare", !.before = live]
  <1>1. /\ UNCHANGED <<live, packages, trees, originals, mode, lock, writes,
                       replaced>>
        /\ restoreProc[t].at = "snapshot" /\ PastLock(t)
        /\ restoreProc' = [restoreProc EXCEPT ![t] = c]
    BY DEF Backup!Snapshot, Backup!bounds, PastLock
  <1>2. HoldsAlone(t) /\ Knows(t) /\ Backup!TypeOK /\ live \in Backup!Ledgers
    BY DEF BackupInv, Backup!TypeOK
  <1>3. /\ c \in Restores /\ c.at = "prepare" /\ c.before = live
        /\ c.pkg = restoreProc[t].pkg /\ c.full = restoreProc[t].full
        /\ c.result = restoreProc[t].result
    BY <1>2, RestoresType DEF Restores, Places
  <1> HIDE DEF c
  <1>4. /\ restoreProc'[t] = c /\ restoreProc' \in [Procs -> Restores]
        /\ \A u \in Procs \ {t} : restoreProc'[u] = restoreProc[u]
    BY <1>1, <1>2, <1>3, RestoresType
  <1>5. Packaged(live)'
    BY <1>1, <1>2 DEF Knows, Packaged
  <1>6. ThreadInv(t)'
    BY <1>1, <1>2, <1>3, <1>4, <1>5
       DEF ThreadInv, HoldsAlone, Knows, Ends, PastLock, Untouched
  <1>7. PackagesGrow
    BY <1>1, SameGrows
  <1> QED
    BY <1>1, <1>4, <1>6, <1>7, TreesType, LedgerStays

\* A thread whose ledger was not copied over ends or goes on to the copy.
LEMMA UntouchedMoves ==
    ASSUME ThreadNames, BackupInv, PackagesGrow, NEW t \in Procs,
           restoreProc[t].at \in Untouched,
           \/ Backup!Goto(t, "extract")
           \/ Backup!Goto(t, "copy")
              /\ (restoreProc[t].full => trees'[restoreProc[t].pkg] # "absent")
           \/ Backup!End(t, "failed"),
           trees' \in [Backup!Ids -> {"absent", "exact", "damaged"}],
           UNCHANGED <<live, packages, originals, mode, lock, writes, replaced>>
    PROVE  BackupInv'
  <1>1. HoldsAlone(t) /\ Knows(t) /\ Backup!TypeOK /\ PastLock(t)
    BY DEF BackupInv, Untouched, PastLock
  <1>2. restoreProc[t].before = live /\ Packaged(live) /\ Packaged(live)'
    BY <1>1 DEF Knows, Packaged
  <1>3. /\ restoreProc'[t].at \in {"extract", "copy", "unlock"}
        /\ restoreProc'[t].pkg = restoreProc[t].pkg
        /\ restoreProc'[t].full = restoreProc[t].full
        /\ restoreProc'[t].before = restoreProc[t].before
        /\ IF restoreProc'[t].at = "unlock"
            THEN restoreProc'[t].result = "failed"
           ELSE restoreProc'[t].result = restoreProc[t].result
        /\ restoreProc'[t].at = "copy" /\ restoreProc[t].full
                => trees'[restoreProc[t].pkg] # "absent"
        /\ \A u \in Procs \ {t} : restoreProc'[u] = restoreProc[u]
        /\ restoreProc' \in [Procs -> Restores]
    <2>1. CASE Backup!Goto(t, "extract")
      BY <1>1, <2>1, ProcMoves DEF Places
    <2>2. CASE Backup!Goto(t, "copy")
               /\ (restoreProc[t].full =>
                        trees'[restoreProc[t].pkg] # "absent")
      BY <1>1, <2>2, ProcMoves DEF Places
    <2>3. CASE Backup!End(t, "failed")
      BY <1>1, <2>3, ProcEnds
    <2> QED
      BY <2>1, <2>2, <2>3
  <1>4. HoldsAlone(t)'
    BY <1>1, <1>3 DEF HoldsAlone, PastLock, PackagesGrow
  <1>5. Knows(t)'
    BY <1>1, <1>2, <1>3 DEF Knows, Untouched
  <1>6. Ends(t)'
    BY <1>1, <1>2, <1>3 DEF Ends, Knows, Untouched
  <1> QED
    BY <1>1, <1>3, <1>4, <1>5, <1>6, LedgerStays DEF ThreadInv

LEMMA PrepareKeeps ==
    ASSUME ThreadNames, BackupInv, NEW t \in Procs, Backup!Prepare(t)
    PROVE  BackupInv'
  <1>1. /\ UNCHANGED <<live, packages, trees, originals, mode, lock, writes,
                       replaced>>
        /\ restoreProc[t].at \in Untouched
        /\ \/ Backup!Goto(t, IF restoreProc[t].full THEN "extract" ELSE "copy")
           \/ Backup!End(t, "failed")
    BY DEF Backup!Prepare, Untouched
  <1>2. PackagesGrow
    BY <1>1, SameGrows
  <1>3. \/ Backup!Goto(t, "extract")
        \/ Backup!Goto(t, "copy") /\ ~ restoreProc[t].full
        \/ Backup!End(t, "failed")
    BY <1>1
  <1> QED
    BY <1>1, <1>2, <1>3, TreesType, UntouchedMoves

LEMMA ExtractKeeps ==
    ASSUME ThreadNames, BackupInv, NEW t \in Procs, Backup!Extract(t)
    PROVE  BackupInv'
  <1> DEFINE p == restoreProc[t].pkg
  <1>1. /\ UNCHANGED <<live, packages, originals, mode, lock, writes, replaced>>
        /\ restoreProc[t].at = "extract" /\ restoreProc[t].at \in Untouched
    BY DEF Backup!Extract, Untouched
  <1>2. p \in Backup!Ids
    BY <1>1, PackageType DEF BackupInv, HoldsAlone
  <1>3. /\ trees' \in [Backup!Ids -> {"absent", "exact", "damaged"}]
        /\ \A q \in Backup!Ids : trees[q] # "absent" => trees'[q] # "absent"
        /\ \/ Backup!Goto(t, "copy") /\ trees'[p] # "absent"
           \/ Backup!End(t, "failed")
    BY <1>2, TreesType DEF Backup!Extract
  <1>4. PackagesGrow
    BY <1>1, <1>3 DEF PackagesGrow
  <1> QED
    BY <1>1, <1>3, <1>4, UntouchedMoves

\* The ledger of a package, with its new paths.
LEMMA PreparedIs ==
    ASSUME ThreadNames, BackupInv, NEW t \in Procs, restoreProc[t].at = "copy"
    PROVE  Backup!Prepared(t) \in Backup!Ledgers /\ Rooted(Backup!Prepared(t))
  <1>1. restoreProc[t].pkg \in DOMAIN packages
          /\ restoreProc[t].pkg \in Backup!Ids
    BY PackageType DEF BackupInv, HoldsAlone
  <1> DEFINE p == restoreProc[t].pkg
             l == packages[p].ledger
  <1>2. l \in Backup!Ledgers /\ Rooted(l)
    BY <1>1, PackageType DEF BackupInv, AllRooted
  <1>3. CASE restoreProc[t].full
    <2>1. Backup!Prepared(t) = [l EXCEPT !.tree = p, !.original = FALSE]
      BY <1>3 DEF Backup!Prepared
    <2>2. trees[p] # "absent"
      BY <1>3 DEF BackupInv, Knows
    <2> HIDE DEF l, p
    <2>3. Backup!Prepared(t) \in Backup!Ledgers /\ Backup!Prepared(t).tree = p
      BY <1>1, <1>2, <2>1 DEF Backup!Ledgers, p
    <2> QED
      BY <2>2, <2>3 DEF Rooted
  <1>4. CASE ~ restoreProc[t].full
    BY <1>2, <1>4 DEF Backup!Prepared
  <1> QED
    BY <1>3, <1>4

LEMMA CopyOverKeeps ==
    ASSUME ThreadNames, BackupInv, NEW t \in Procs, Backup!Copy(t)
    PROVE  BackupInv'
  <1>1. /\ UNCHANGED <<packages, trees, originals, mode, lock, writes>>
        /\ restoreProc[t].at = "copy" /\ PastLock(t)
    BY DEF Backup!Copy, PastLock
  <1>2. HoldsAlone(t) /\ Knows(t) /\ Backup!TypeOK /\ AllRooted
          /\ live \in Backup!Ledgers
        /\ Len(packages) <= 3
    BY DEF BackupInv, Backup!TypeOK
  <1>3. restoreProc[t].before = live /\ Packaged(live) /\ Rooted(live)
    BY <1>1, <1>2 DEF Knows, Untouched, AllRooted
  <1>4. PackagesGrow
    BY <1>1, SameGrows
  <1>5. PICK pc \in {"verify", "rollback"} : Backup!Goto(t, pc)
    BY DEF Backup!Copy
  <1>6. /\ restoreProc'[t].at \in {"verify", "rollback"}
        /\ restoreProc'[t].pkg = restoreProc[t].pkg
        /\ restoreProc'[t].before = restoreProc[t].before
        /\ restoreProc'[t].result = restoreProc[t].result
        /\ \A u \in Procs \ {t} : restoreProc'[u] = restoreProc[u]
        /\ restoreProc' \in [Procs -> Restores]
    BY <1>2, <1>5, ProcMoves DEF Places
  <1>7. ThreadInv(t)'
    <2>1. HoldsAlone(t)'
      BY <1>1, <1>2, <1>6 DEF HoldsAlone, PastLock
    <2>2. Rooted(restoreProc[t].before)'
      BY <1>1, <1>3, <1>6 DEF Rooted
    <2>3. Knows(t)' /\ Ends(t)'
      BY <1>1, <1>2, <1>3, <1>6, <2>2 DEF Knows, Ends, Untouched, Rooted
    <2> QED
      BY <2>1, <2>3 DEF ThreadInv
  <1>8. live' \in Backup!Ledgers /\ Rooted(live)'
    BY <1>1, <1>2, <1>3, PreparedIs DEF Backup!Copy, Rooted
  <1>9. replaced' \subseteq Backup!Ledgers /\ Backup!ReplacedIsPackaged'
    <2>1. replaced' \subseteq replaced \cup {live}
      BY DEF Backup!Copy
    <2>2. replaced \subseteq Backup!Ledgers
      BY <1>2 DEF Backup!TypeOK
    <2>3. \A l \in replaced \cup {live} :
              \E p \in DOMAIN packages : packages[p].ledger = l
      BY <1>3 DEF BackupInv, Backup!ReplacedIsPackaged, Packaged
    <2> QED
      BY <1>1, <1>2, <2>1, <2>2, <2>3 DEF Backup!ReplacedIsPackaged
  <1>10. AllRooted'
    BY <1>1, <1>4, <1>8, RootsStay
  <1> QED
    BY <1>1, <1>2, <1>4, <1>6, <1>7, <1>8, <1>9, <1>10, OneMoves
       DEF Backup!TypeOK

LEMMA VerifyKeeps ==
    ASSUME ThreadNames, BackupInv, NEW t \in Procs, Backup!Verify(t)
    PROVE  BackupInv'
  <1>1. /\ UNCHANGED <<live, packages, trees, originals, mode, lock, writes,
                       replaced>>
        /\ restoreProc[t].at = "verify" /\ PastLock(t)
    BY DEF Backup!Verify, PastLock
  <1>2. HoldsAlone(t) /\ Knows(t) /\ Backup!TypeOK
    BY DEF BackupInv
  <1>3. restoreProc[t].before \in Backup!Ledgers
          /\ Rooted(restoreProc[t].before)
    BY <1>1, <1>2 DEF Knows
  <1>4. PackagesGrow
    BY <1>1, SameGrows
  <1>5. CASE Backup!End(t, "restored") /\ Backup!Verified(t)
    <2>1. ThreadInv(t)'
      BY <1>1, <1>2, <1>5, ProcEnds
         DEF ThreadInv, HoldsAlone, Knows, Ends, PastLock, Untouched,
             Backup!Verified
    <2> QED
      BY <1>1, <1>2, <1>4, <1>5, <2>1, ProcEnds, TreesType, LedgerStays
  <1>6. CASE Backup!Goto(t, "rollback")
    <2>1. HoldsAlone(t)' /\ Ends(t)'
      BY <1>1, <1>2, <1>6, ProcMoves
         DEF HoldsAlone, Knows, Ends, PastLock, Places
    <2>2. Rooted(restoreProc[t].before)'
            /\ restoreProc'[t].before \in Backup!Ledgers
      BY <1>1, <1>2, <1>3, <1>6, ProcMoves DEF Rooted, Places
    <2>3. Knows(t)'
      BY <1>1, <1>2, <1>6, <2>2, ProcMoves DEF Knows, Untouched, Places
    <2> QED
      BY <1>1, <1>2, <1>4, <1>6, <2>1, <2>3, ProcMoves, TreesType, LedgerStays
         DEF ThreadInv, Places
  <1> QED
    BY <1>5, <1>6 DEF Backup!Verify

LEMMA RollbackKeeps ==
    ASSUME ThreadNames, BackupInv, NEW t \in Procs, Backup!Rollback(t)
    PROVE  BackupInv'
  <1>1. /\ UNCHANGED <<packages, trees, originals, mode, lock, writes,
           replaced>>
        /\ restoreProc[t].at = "rollback" /\ PastLock(t)
    BY DEF Backup!Rollback, PastLock
  <1>2. HoldsAlone(t) /\ Knows(t) /\ Backup!TypeOK /\ AllRooted
          /\ live \in Backup!Ledgers
        /\ Len(packages) <= 3
    BY DEF BackupInv, Backup!TypeOK
  <1>3. restoreProc[t].before \in Backup!Ledgers
          /\ Rooted(restoreProc[t].before)
    BY <1>1, <1>2 DEF Knows
  <1>4. PackagesGrow
    BY <1>1, SameGrows
  <1>5. PICK result \in {"failed", "broken"} :
            /\ Backup!End(t, result)
            /\ result = "failed" => live' = restoreProc[t].before
            /\ result = "broken" => live' = live
    BY DEF Backup!Rollback
  <1>6. live' \in Backup!Ledgers /\ Rooted(live)'
    BY <1>1, <1>2, <1>3, <1>5 DEF AllRooted, Rooted
  <1>7. ThreadInv(t)'
    BY <1>1, <1>2, <1>5, ProcEnds
       DEF ThreadInv, HoldsAlone, Knows, Ends, PastLock, Untouched
  <1>8. AllRooted' /\ Backup!ReplacedIsPackaged'
    BY <1>1, <1>4, <1>6, RootsStay, ReplacedStays
  <1> QED
    BY <1>1, <1>2, <1>4, <1>5, <1>6, <1>7, <1>8, ProcEnds, OneMoves
       DEF Backup!TypeOK

LEMMA BackupInitInv == ASSUME ThreadNames, Backup!Init PROVE BackupInv
  <1>1. Backup!TypeOK
    BY DEF ThreadNames, Backup!Init, Backup!TypeOK, Backup!Idle,
           Backup!Ledgers
  <1>2. \A t \in Procs : HoldsAlone(t) /\ Knows(t) /\ Ends(t)
    BY DEF Backup!Init, Backup!Idle, HoldsAlone, Knows, Ends, PastLock,
           Untouched
  <1>3. writes \in Nat /\ Len(packages) <= 3 /\ AllRooted
        /\ Backup!ReplacedIsPackaged
    BY DEF ThreadNames, Backup!Init, AllRooted, Rooted,
           Backup!ReplacedIsPackaged
  <1> QED
    BY <1>1, <1>2, <1>3 DEF BackupInv

LEMMA BackupStepInv == ASSUME ThreadNames, BackupInv, Backup!Next
    \/ UNCHANGED Backup!vars PROVE BackupInv'
  <1>1. CASE Backup!StartWorker \/ Backup!StopWorker
    BY <1>1, WorkerKeeps
  <1>2. CASE Backup!WriteLedger
               \/ \E engage \in BOOLEAN : Backup!EmergencyStop(engage)
    BY <1>2, LedgerWriteKeeps
  <1>3. CASE \E requireComplete \in BOOLEAN :
                 Backup!CreateBackup(requireComplete)
    BY <1>3, BackupKeeps
  <1>4. CASE \E t \in Procs, p \in DOMAIN packages, full \in BOOLEAN :
                 Backup!Ask(t, p, full)
    BY <1>4, AskKeeps
  <1>5. CASE \E t \in Procs : Backup!Restore(t)
    BY <1>5, LockKeeps, PackageFirstKeeps, SnapshotKeeps, PrepareKeeps,
       ExtractKeeps, CopyOverKeeps, VerifyKeeps, RollbackKeeps, UnlockKeeps
       DEF Backup!Restore
  <1>6. CASE Backup!Restart \/ Backup!Lose
    BY <1>6, ServerRestartKeeps, LossKeeps
  <1>7. CASE UNCHANGED Backup!vars
    BY <1>7
       DEF Backup!vars, BackupInv, Backup!TypeOK, HoldsAlone, Knows, Ends,
           PastLock, Packaged, Rooted, AllRooted, Backup!ReplacedIsPackaged
  <1> QED
    BY <1>1, <1>2, <1>3, <1>4, <1>5, <1>6, <1>7 DEF Backup!Next

LEMMA RestoresWhole ==
    ASSUME BackupInv PROVE Backup!RestoreAllOrNothing
             /\ Backup!ReplacedIsPackaged
  BY DEF BackupInv, Ends, AllRooted, Rooted, Backup!RestoreAllOrNothing

LEMMA EvidenceStep ==
    ASSUME BackupInv, Backup!Next \/ UNCHANGED Backup!vars,
           NEW p \in Backup!Ids, trees[p] = "damaged"
    PROVE  trees'[p] = "damaged"
  <1>1. CASE \E t \in Procs : Backup!Extract(t)
    BY <1>1, TreesType DEF Backup!Extract
  <1>2. CASE Backup!Lose
    BY <1>2, TreesType DEF Backup!Lose
  <1>3. CASE UNCHANGED trees
    BY <1>3
  <1> QED
    BY <1>1, <1>2, <1>3
       DEF Backup!Next, Backup!vars, Backup!StartWorker, Backup!StopWorker,
           Backup!WriteLedger, Backup!EmergencyStop, Backup!CreateBackup,
           Backup!Ask, Backup!Restore, Backup!Lock, Backup!PackageFirst,
           Backup!Snapshot, Backup!Prepare, Backup!Copy, Backup!Verify,
           Backup!Rollback, Backup!Unlock, Backup!Restart

-----------------------------------------------------------------------------
(***************************************************************************)
(* The reports.  SlotsInv says what the process that makes the report of   *)
(* a slot has done (Made), and that there is one (OneMaker): only so does  *)
(* a report that is prepared have its files (Whole).                       *)
(***************************************************************************)
LEMMA SlotsCount == \A S : Reports!Cardinality(S) = Cardinality(S)
  BY DEF Reports!Cardinality, Cardinality

Works == {"write", "complete", "audit", "undo", "fail"}
Undoing == {"undo", "fail", "dead"}

Makers == [at : {"idle", "claim", "dead"} \cup Works,
           slot : Reports!Slots \cup {Reports!NoSlot}, left : SUBSET Formats]

SlotRows == [status : {"none", "running", "prepared", "failed"},
             attempts : Nat, artifacts : SUBSET Formats]

SlotTypes ==
    /\ run \in [Reports!Slots -> SlotRows]
    /\ files \in [Reports!Slots -> SUBSET Formats]
    /\ slot \in Reports!Slots /\ kept \subseteq Reports!Slots
    /\ reportProc \in [Procs -> Makers]

\* What a process that makes a report has done.
Made(p) ==
    LET s == reportProc[p].slot
        at == reportProc[p].at
        left == reportProc[p].left IN
    /\ at \in Works \cup {"claim"} => s \in Reports!Slots
    /\ at = "claim" => left = Formats
    /\ at \in {"write", "complete"} => run[s].status = "running"
    /\ at = "audit" => run[s].status = "prepared"
    /\ at \in {"undo", "fail"} => run[s].status \in {"running", "prepared"}
    /\ at \in {"write", "complete", "audit"}
         => Formats \ left \subseteq files[s]
    /\ at \in {"complete", "audit"} => left = {}
    /\ at \in {"write", "complete", "audit", "undo"} /\ s \notin kept =>
            files[s] \cap left = {}
    /\ at = "fail" /\ s \notin kept => files[s] = {}

Whole(s) ==
    /\ run[s].status = "none" => files[s] = {}
    /\ run[s].status = "failed" /\ s \notin kept => files[s] = {}
    /\ run[s].status = "prepared" =>
            \/ Formats \subseteq files[s]
            \/ \E p \in Procs : reportProc[p].slot = s
                 /\ reportProc[p].at \in Undoing

OneMaker ==
    \A p, q \in Procs :
        reportProc[p].at \in Works /\ reportProc[q].at \in Works
            /\ reportProc[p].slot = reportProc[q].slot => p = q

SlotsInv ==
    /\ SlotTypes
    /\ \A p \in Procs : Made(p)
    /\ OneMaker
    /\ \A s \in Reports!Slots : Whole(s)

LEMMA SlotsInitInv == ASSUME 1 \in Reports!Slots, Reports!Init PROVE SlotsInv
  <1>1. SlotTypes
    BY DEF Reports!Init, SlotTypes, SlotRows, Makers, Reports!Idle,
           Reports!NoRun, Works
  <1>2. \A p \in Procs : Made(p)
    BY DEF Reports!Init, Made, Reports!Idle, Works
  <1>3. OneMaker
    BY DEF Reports!Init, OneMaker, Reports!Idle, Works
  <1>4. \A s \in Reports!Slots : Whole(s)
    BY DEF Reports!Init, Whole, Reports!NoRun
  <1> QED
    BY <1>1, <1>2, <1>3, <1>4 DEF SlotsInv

\* A process goes on with the slot it works on, or takes up one that nobody
\* works on.
Moves(p, s, c) ==
    /\ reportProc' = [reportProc EXCEPT ![p] = c] /\ SlotTypes'
    /\ reportProc[p].at # "dead"
    /\ reportProc[p].at \in Works \cup {"claim"} => reportProc[p].slot = s
    /\ c.slot \in {s, Reports!NoSlot} /\ (c.at \in Works => c.slot = s)
    /\ \/ reportProc[p].at \in Works
       \/ run[s].status \in {"none", "failed"}
       \/ /\ c.at \notin Works /\ reportProc[p].at \notin Undoing
          /\ run' = run /\ files' = files /\ kept' = kept
    /\ \A t \in Reports!Slots \ {s} :
        run'[t] = run[t] /\ files'[t] = files[t]
          /\ (t \in kept' <=> t \in kept)
    /\ Made(p)' /\ Whole(s)'

LEMMA MakerKeeps ==
    ASSUME SlotsInv, NEW p \in Procs, NEW s \in Reports!Slots,
           NEW c \in Makers,
           Moves(p, s, c)
    PROVE  SlotsInv'
  <1> USE DEF Moves
  <1>1. reportProc'[p] = c
          /\ \A q \in Procs \ {p} : reportProc'[q] = reportProc[q]
    BY DEF SlotsInv, SlotTypes
  <1>2. s # Reports!NoSlot
    BY DEF Reports!Slots, Reports!NoSlot
  <1>3. \A q \in Procs \ {p} :
            reportProc[q].at \in Works /\ reportProc[q].slot = s
                => run' = run /\ files' = files /\ kept' = kept
                    /\ c.at \notin Works
    <2> SUFFICES ASSUME NEW q \in Procs \ {p}, reportProc[q].at \in Works,
                        reportProc[q].slot = s
                 PROVE  /\ run' = run /\ files' = files /\ kept' = kept
                        /\ c.at \notin Works
      OBVIOUS
    <2>1. run[s].status \notin {"none", "failed"}
      BY DEF SlotsInv, Made, Works
    <2>2. reportProc[p].at \notin Works
      BY DEF SlotsInv, OneMaker
    <2> QED
      BY <2>1, <2>2
  <1>4. ASSUME NEW q \in Procs PROVE Made(q)'
    <2>1. CASE q = p
      BY <2>1
    <2>2. CASE q # p /\ reportProc[q].at \in Works \cup {"claim"}
      <3>1. reportProc'[q] = reportProc[q]
              /\ reportProc[q].slot \in Reports!Slots
        BY <1>1, <2>2 DEF SlotsInv, Made
      <3>2. reportProc[q].at \in Works =>
                /\ run'[reportProc[q].slot] = run[reportProc[q].slot]
                /\ files'[reportProc[q].slot] = files[reportProc[q].slot]
                /\ reportProc[q].slot \in kept' <=> reportProc[q].slot \in kept
        BY <1>3, <2>2, <3>1
      <3>3. Made(q)
        BY DEF SlotsInv
      <3> QED
        BY <3>1, <3>2, <3>3 DEF Made, Works
    <2>3. CASE q # p /\ reportProc[q].at \notin Works \cup {"claim"}
      BY <1>1, <2>3 DEF Made, Works
    <2> QED
      BY <2>1, <2>2, <2>3
  <1>5. OneMaker'
    <2> SUFFICES ASSUME NEW q \in Procs, NEW r \in Procs, q # r,
                        reportProc'[q].at \in Works,
                        reportProc'[r].at \in Works,
                        reportProc'[q].slot = reportProc'[r].slot
                 PROVE  FALSE
      BY DEF OneMaker
    <2>1. CASE q # p /\ r # p
      BY <1>1, <2>1 DEF SlotsInv, OneMaker
    <2>2. CASE q = p
      BY <1>1, <1>3, <2>2
    <2>3. CASE r = p
      BY <1>1, <1>3, <2>3
    <2> QED
      BY <2>1, <2>2, <2>3
  <1>6. ASSUME NEW t \in Reports!Slots PROVE Whole(t)'
    <2>1. CASE t = s
      BY <2>1
    <2>2. CASE t # s
      <3>1. Whole(t) /\ t # Reports!NoSlot
        BY DEF SlotsInv, Reports!Slots, Reports!NoSlot
      <3>2. \A q \in Procs : reportProc[q].slot = t
              /\ reportProc[q].at \in Undoing
                => q # p
        BY <2>2 DEF Undoing, Works
      <3> QED
        BY <1>1, <2>2, <3>1, <3>2 DEF Whole
    <2> QED
      BY <2>1, <2>2
  <1> QED
    BY <1>4, <1>5, <1>6 DEF SlotsInv

LEMMA SlotsBeginKeeps ==
    ASSUME SlotsInv, NEW p \in Procs, Reports!Begin(p) PROVE SlotsInv'
  <1>1. PICK c \in Makers :
            c = [at |-> "claim", slot |-> slot, left |-> Formats]
    BY DEF SlotsInv, SlotTypes, Makers
  <1>2. reportProc' = [reportProc EXCEPT ![p] = c]
    BY <1>1 DEF Reports!Begin
  <1>3. SlotTypes' /\ UNCHANGED <<run, files, kept>> /\ slot \in Reports!Slots
    BY <1>2 DEF Reports!Begin, SlotsInv, SlotTypes
  <1>4. reportProc[p].at = "idle" /\ reportProc'[p] = c
    BY <1>2 DEF Reports!Begin, SlotsInv, SlotTypes
  <1>5. Made(p)'
    BY <1>1, <1>3, <1>4 DEF Made, Works
  <1>6. Whole(slot)'
    BY <1>2, <1>3, <1>4 DEF SlotsInv, SlotTypes, Whole, Undoing
  <1>7. /\ c.slot = slot /\ c.at \notin Works
        /\ reportProc[p].at \notin Works \cup {"claim", "dead"} \cup Undoing
    BY <1>1, <1>4 DEF Works, Undoing
  <1>m. Moves(p, slot, c)
    BY <1>2, <1>3, <1>5, <1>6, <1>7 DEF Moves
  <1> QED
    BY <1>m, MakerKeeps, <1>3

\* The value of a process that is done with its slot.
LEMMA IdleMaker == Reports!Idle \in Makers /\ Reports!Idle.at = "idle"
    /\ Reports!Idle.slot = Reports!NoSlot
  BY DEF Reports!Idle, Makers

\* A process goes on with its slot.
LEMMA SlotsGotoIs ==
    ASSUME SlotsInv, NEW p \in Procs, NEW at \in Works \cup {"dead"},
           Reports!Goto(p, at)
    PROVE  \E c \in Makers :
                /\ reportProc' = [reportProc EXCEPT ![p] = c]
                     /\ reportProc'[p] = c
                /\ c.at = at /\ c.slot = reportProc[p].slot
                /\ c.left = reportProc[p].left
  <1>1. PICK c \in Makers :
            c = [at |-> at, slot |-> reportProc[p].slot, left |-> reportProc[p].left]
    BY DEF SlotsInv, SlotTypes, Makers
  <1>2. reportProc' = [reportProc EXCEPT ![p] = c]
    <2>1. c = [reportProc[p] EXCEPT !.at = at]
      BY <1>1 DEF SlotsInv, SlotTypes, Makers
    <2>2. reportProc' = [reportProc EXCEPT ![p] = [reportProc[p] EXCEPT !.at = at]]
      BY DEF Reports!Goto
    <2> QED
      BY <2>1, <2>2
  <1> QED
    BY <1>1, <1>2 DEF SlotsInv, SlotTypes

LEMMA ClaimKeeps ==
    ASSUME SlotsInv, NEW p \in Procs, Reports!Claim(p) PROVE SlotsInv'
  <1>1. PICK s \in Reports!Slots : s = reportProc[p].slot
    BY DEF Reports!Claim, SlotsInv, Made
  <1>2. reportProc[p].at = "claim" /\ reportProc[p].left = Formats
    BY DEF Reports!Claim, SlotsInv, Made
  <1>3. UNCHANGED <<files, slot, kept>>
    BY DEF Reports!Claim
  <1>4. CASE Reports!Due(s)
    <2>1. Reports!Goto(p, "write")
      BY <1>1, <1>4 DEF Reports!Claim
    <2>2. PICK c \in Makers :
              /\ reportProc' = [reportProc EXCEPT ![p] = c]
                   /\ reportProc'[p] = c
              /\ c.at = "write" /\ c.slot = s /\ c.left = Formats
      BY <1>1, <1>2, <2>1, SlotsGotoIs DEF Works
    <2>3. /\ run[s].status \in {"none", "failed"}
          /\ s \notin kept => files[s] = {}
      BY <1>4 DEF Reports!Due, SlotsInv, Whole
    <2>0. run[s] \in SlotRows
      BY DEF SlotsInv, SlotTypes
    <2>1a. PICK n \in Nat : n = run[s].attempts + 1
      BY <2>0 DEF SlotRows
    <2>4. PICK r \in SlotRows :
              r = [run[s] EXCEPT !.status = "running", !.attempts = n]
      BY <2>0 DEF SlotRows
    <2>5. r.status = "running"
      BY <2>0, <2>4 DEF SlotRows
    <2>6. run' = [run EXCEPT ![s] = r]
      <3>1. run' = [run EXCEPT ![s].status = "running", ![s].attempts = n]
        BY <1>1, <1>4, <2>1a DEF Reports!Claim, SlotsInv, SlotTypes
      <3> QED
        BY <2>4, <3>1 DEF SlotsInv, SlotTypes
    <2>7. run'[s] = r /\ \A t \in Reports!Slots \ {s} : run'[t] = run[t]
      BY <2>6 DEF SlotsInv, SlotTypes
    <2>8. SlotTypes'
      BY <1>3, <2>2, <2>6 DEF SlotsInv, SlotTypes
    <2>9. Made(p)'
      BY <1>3, <2>2, <2>3, <2>5, <2>7 DEF Made, Works
    <2>10. Whole(s)'
      BY <2>5, <2>7 DEF Whole
    <2>11. reportProc[p].at \notin Works \cup {"dead"} /\ c.at \in Works
      BY <1>2, <2>2 DEF Works
    <2> HIDE <1>4
    <2>m. Moves(p, s, c)
      BY <1>1, <1>3, <2>2, <2>3, <2>7, <2>8, <2>9, <2>10, <2>11 DEF Moves
    <2> QED
      BY <2>m, MakerKeeps, <1>1, <1>2
  <1>5. CASE ~Reports!Due(s)
    <2>1. reportProc' = [reportProc EXCEPT ![p] = Reports!Idle] /\ run' = run
      BY <1>1, <1>5 DEF Reports!Claim, Reports!Done
    <2>2. SlotTypes' /\ reportProc'[p] = Reports!Idle
      BY <1>3, <2>1, IdleMaker DEF SlotsInv, SlotTypes
    <2>3. Made(p)'
      BY <2>2, IdleMaker DEF Made, Works
    <2>4. Whole(s)'
      BY <1>2, <1>3, <2>1, <2>2 DEF SlotsInv, SlotTypes, Whole, Undoing
    <2>5. /\ reportProc[p].at \notin Works \cup Undoing \cup {"dead"}
          /\ Reports!Idle.at \notin Works
      BY <1>2, IdleMaker DEF Works, Undoing
    <2>m. Moves(p, s, Reports!Idle)
      BY <1>1, <1>3, <2>1, <2>2, <2>3, <2>4, <2>5, IdleMaker DEF Moves
    <2> QED
      BY <2>m, MakerKeeps, <1>1, <1>2, IdleMaker
  <1> QED
    BY <1>4, <1>5

\* Who works on a slot.
LEMMA SlotsAtWork ==
    ASSUME SlotsInv, NEW p \in Procs, reportProc[p].at \in Works
    PROVE  /\ reportProc[p].slot \in Reports!Slots /\ Made(p)
             /\ Whole(reportProc[p].slot)
           /\ reportProc[p].at # "dead"
  BY DEF SlotsInv, Made, Works

LEMMA SlotsWriteKeeps ==
    ASSUME SlotsInv, NEW p \in Procs, Reports!Write(p) PROVE SlotsInv'
  <1>1. reportProc[p].at = "write" /\ reportProc[p].at \in Works
    BY DEF Reports!Write, Works
  <1>2. PICK s \in Reports!Slots : s = reportProc[p].slot
    BY <1>1, SlotsAtWork
  <1>3. PICK f \in reportProc[p].left :
            /\ files' = [files EXCEPT ![s] = files[s] \cup {f}]
            /\ reportProc' = [reportProc EXCEPT
                    ![p].left = reportProc[p].left \ {f},
                    ![p].at = IF reportProc[p].left = {f} THEN "complete"
                                                    ELSE "write"]
    BY <1>2 DEF Reports!Write, SlotsInv, SlotTypes
  <1>4. f \in Formats
    BY DEF SlotsInv, SlotTypes, Makers
  <1>5. PICK at \in {"complete", "write"} :
            at = IF reportProc[p].left = {f} THEN "complete" ELSE "write"
    OBVIOUS
  <1>0. reportProc[p] \in Makers
    BY DEF SlotsInv, SlotTypes
  <1>6a. PICK left \in SUBSET Formats : left = reportProc[p].left \ {f}
    BY <1>0 DEF Makers
  <1>6b. PICK c \in Makers : c = [reportProc[p] EXCEPT !.left = left, !.at = at]
    BY <1>0 DEF Makers, Works
  <1>6. c.at = at /\ c.left = reportProc[p].left \ {f} /\ c.slot = s
    BY <1>0, <1>2, <1>6a, <1>6b DEF Makers
  <1>7. reportProc' = [reportProc EXCEPT ![p] = c]
    <2>1. reportProc' = [reportProc EXCEPT ![p].left = left, ![p].at = at]
      BY <1>3, <1>5, <1>6a
    <2> QED
      BY <1>6b, <2>1 DEF SlotsInv, SlotTypes
  <1>8. UNCHANGED <<run, slot, kept>> /\ reportProc'[p] = c
    BY <1>7 DEF Reports!Write, SlotsInv, SlotTypes
  <1>9. /\ files'[s] = files[s] \cup {f} /\ files'[s] \subseteq Formats
        /\ \A t \in Reports!Slots \ {s} : files'[t] = files[t]
    BY <1>3, <1>4 DEF SlotsInv, SlotTypes
  <1>10. SlotTypes'
    BY <1>3, <1>4, <1>7, <1>8 DEF SlotsInv, SlotTypes
  <1>11. Made(p) /\ Whole(s)
    BY <1>1, <1>2, SlotsAtWork
  <1>12. Made(p)'
    <2>1. /\ run[s].status = "running"
               /\ Formats \ reportProc[p].left \subseteq files[s]
          /\ s \notin kept => files[s] \cap reportProc[p].left = {}
      BY <1>1, <1>2, <1>11 DEF Made
    <2>2. at = "complete" => c.left = {}
      BY <1>5, <1>6
    <2>3. c.left = reportProc[p].left \ {f} /\ c.at = at /\ c.slot = s
      BY <1>6
    <2> QED
      BY <1>8, <1>9, <2>1, <2>2, <2>3 DEF Made, Works
  <1>13. Whole(s)'
    <2>1. run'[s].status = "running"
      BY <1>1, <1>2, <1>8, <1>11 DEF Made
    <2> QED
      BY <2>1 DEF Whole
  <1>14. c.slot = s
    BY <1>6
  <1>m. Moves(p, s, c)
    BY <1>1, <1>2, <1>7, <1>8, <1>9, <1>10, <1>12, <1>13, <1>14, SlotsAtWork
       DEF Moves
  <1> QED
    BY <1>m, MakerKeeps, <1>1, <1>2

LEMMA CompleteKeeps ==
    ASSUME SlotsInv, NEW p \in Procs, Reports!Complete(p) PROVE SlotsInv'
  <1>1. reportProc[p].at = "complete" /\ reportProc[p].at \in Works
    BY DEF Reports!Complete, Works
  <1>2. PICK s \in Reports!Slots : s = reportProc[p].slot
    BY <1>1, SlotsAtWork
  <1>3. PICK c \in Makers :
            /\ reportProc' = [reportProc EXCEPT ![p] = c]
                 /\ reportProc'[p] = c
            /\ c.at = "audit" /\ c.slot = s /\ c.left = reportProc[p].left
    BY <1>2, SlotsGotoIs DEF Reports!Complete, Works
  <1>4. PICK r \in SlotRows :
            r = [run[s] EXCEPT !.status = "prepared", !.artifacts = Formats]
    BY DEF SlotsInv, SlotTypes, SlotRows
  <1>5. r.status = "prepared"
    BY <1>4 DEF SlotsInv, SlotTypes, SlotRows
  <1>6. run' = [run EXCEPT ![s] = r] /\ UNCHANGED <<files, slot, kept>>
    BY <1>2, <1>4 DEF Reports!Complete, SlotsInv, SlotTypes
  <1>7. run'[s] = r /\ \A t \in Reports!Slots \ {s} : run'[t] = run[t]
    BY <1>6 DEF SlotsInv, SlotTypes
  <1>8. SlotTypes'
    BY <1>3, <1>6 DEF SlotsInv, SlotTypes
  <1>9. /\ reportProc[p].left = {}
             /\ Formats \ reportProc[p].left \subseteq files[s]
    BY <1>1, <1>2, SlotsAtWork DEF Made
  <1>10. Made(p)'
    BY <1>3, <1>5, <1>6, <1>7, <1>9 DEF Made, Works
  <1>11. Whole(s)'
    BY <1>5, <1>6, <1>7, <1>9 DEF Whole
  <1>m. Moves(p, s, c)
    BY <1>1, <1>2, <1>3, <1>6, <1>7, <1>8, <1>10, <1>11, SlotsAtWork DEF Moves
  <1> QED
    BY <1>m, MakerKeeps, <1>1, <1>2

LEMMA SlotsAuditKeeps ==
    ASSUME SlotsInv, NEW p \in Procs, Reports!Audit(p) PROVE SlotsInv'
  <1>1. reportProc[p].at = "audit" /\ reportProc[p].at \in Works
    BY DEF Reports!Audit, Works
  <1>2. PICK s \in Reports!Slots : s = reportProc[p].slot
    BY <1>1, SlotsAtWork
  <1>3. reportProc' = [reportProc EXCEPT ![p] = Reports!Idle]
          /\ UNCHANGED <<run, files, slot, kept>>
    BY DEF Reports!Audit, Reports!Done
  <1>4. SlotTypes' /\ reportProc'[p] = Reports!Idle
    BY <1>3, IdleMaker DEF SlotsInv, SlotTypes
  <1>5. Made(p)'
    BY <1>4, IdleMaker DEF Made, Works
  <1>6. Formats \subseteq files[s] /\ run[s].status = "prepared"
    BY <1>1, <1>2, SlotsAtWork DEF Made
  <1>7. Whole(s)'
    BY <1>3, <1>6 DEF Whole
  <1>8. Reports!Idle.at \notin Works
    BY IdleMaker DEF Works
  <1>m. Moves(p, s, Reports!Idle)
    BY <1>1, <1>2, <1>3, <1>4, <1>5, <1>7, <1>8, SlotsAtWork, IdleMaker
       DEF Moves
  <1> QED
    BY <1>m, MakerKeeps, <1>1, <1>2, IdleMaker

LEMMA FaultKeeps ==
    ASSUME SlotsInv, NEW p \in Procs, Reports!Fault(p) PROVE SlotsInv'
  <1>1. reportProc[p].at \in {"write", "complete", "audit"}
          /\ reportProc[p].at \in Works
    BY DEF Reports!Fault, Works
  <1>2. PICK s \in Reports!Slots : s = reportProc[p].slot
    BY <1>1, SlotsAtWork
  <1>3. PICK c \in Makers :
            /\ reportProc' = [reportProc EXCEPT ![p] = c]
                 /\ reportProc'[p] = c
            /\ c.at = "undo" /\ c.slot = s /\ c.left = reportProc[p].left
    BY <1>2, SlotsGotoIs DEF Reports!Fault, Works
  <1>4. UNCHANGED <<run, files, slot, kept>>
    BY DEF Reports!Fault
  <1>5. SlotTypes'
    BY <1>3, <1>4 DEF SlotsInv, SlotTypes
  <1>6. Made(p)'
    BY <1>1, <1>2, <1>3, <1>4, SlotsAtWork DEF Made, Works
  <1>7. Whole(s)'
    BY <1>1, <1>2, <1>3, <1>4, SlotsAtWork DEF Whole, Undoing
  <1>m. Moves(p, s, c)
    BY <1>1, <1>2, <1>3, <1>4, <1>5, <1>6, <1>7, SlotsAtWork DEF Moves
  <1> QED
    BY <1>m, MakerKeeps, <1>1, <1>2

LEMMA UndoKeeps ==
    ASSUME SlotsInv, NEW p \in Procs, Reports!Undo(p) PROVE SlotsInv'
  <1>1. reportProc[p].at = "undo" /\ reportProc[p].at \in Works
    BY DEF Reports!Undo, Works
  <1>2. PICK s \in Reports!Slots : s = reportProc[p].slot
    BY <1>1, SlotsAtWork
  <1>3. PICK c \in Makers :
            /\ reportProc' = [reportProc EXCEPT ![p] = c]
                 /\ reportProc'[p] = c
            /\ c.at = "fail" /\ c.slot = s /\ c.left = reportProc[p].left
    BY <1>2, SlotsGotoIs DEF Reports!Undo, Works
  <1>4. run' = run /\ slot' = slot
    BY DEF Reports!Undo
  <1>5. files[s] \subseteq Formats
          /\ (s \notin kept => files[s] \cap reportProc[p].left = {})
    BY <1>1, <1>2, SlotsAtWork DEF Made, SlotsInv, SlotTypes
  <1>6. PICK left \in SUBSET Formats :
            /\ files' = [files EXCEPT ![s] = left]
            /\ \/ kept' = kept /\ left = files[s] \cap reportProc[p].left
               \/ kept' = kept \cup {s}
    <2>1. CASE files' = [files EXCEPT ![s] = files[s] \cap reportProc[p].left]
                /\ kept' = kept
      BY <1>5, <2>1
    <2>2. CASE /\ kept' = kept \cup {s}
               /\ \E stuck \in (SUBSET (files[s] \ reportProc[p].left)) \ {{}} :
                    files' = [files EXCEPT
                        ![s] = files[s] \cap (reportProc[p].left \cup stuck)]
      BY <1>5, <2>2
    <2> QED
      BY <1>2, <2>1, <2>2 DEF Reports!Undo, SlotsInv, SlotTypes
  <1>7. files'[s] = left /\ \A t \in Reports!Slots \ {s} :
            files'[t] = files[t] /\ (t \in kept' <=> t \in kept)
    BY <1>6 DEF SlotsInv, SlotTypes
  <1>8. SlotTypes'
    BY <1>3, <1>4, <1>6 DEF SlotsInv, SlotTypes
  <1>9. run[s].status \in {"running", "prepared"}
    BY <1>1, <1>2, SlotsAtWork DEF Made
  <1>10. s \notin kept' => left = {}
    BY <1>5, <1>6
  <1>11. Made(p)'
    BY <1>3, <1>4, <1>7, <1>9, <1>10 DEF Made, Works
  <1>12. Whole(s)'
    BY <1>3, <1>4, <1>9 DEF Whole, Undoing
  <1>m. Moves(p, s, c)
    BY <1>1, <1>2, <1>3, <1>4, <1>7, <1>8, <1>11, <1>12, SlotsAtWork DEF Moves
  <1> QED
    BY <1>m, MakerKeeps, <1>1, <1>2

LEMMA FailKeeps ==
    ASSUME SlotsInv, NEW p \in Procs, Reports!Fail(p) PROVE SlotsInv'
  <1>1. reportProc[p].at = "fail" /\ reportProc[p].at \in Works
    BY DEF Reports!Fail, Works
  <1>2. PICK s \in Reports!Slots : s = reportProc[p].slot
    BY <1>1, SlotsAtWork
  <1>3. UNCHANGED <<files, slot, kept>> /\ (s \notin kept => files[s] = {})
    BY <1>1, <1>2, SlotsAtWork DEF Reports!Fail, Made
  <1>4. CASE Reports!Goto(p, "dead") /\ run' = run
    <2>1. PICK c \in Makers :
            /\ reportProc' = [reportProc EXCEPT ![p] = c]
                 /\ reportProc'[p] = c
            /\ c.at = "dead" /\ c.slot = s /\ c.left = reportProc[p].left
      BY <1>2, <1>4, SlotsGotoIs
    <2>2. SlotTypes'
      BY <1>3, <1>4, <2>1 DEF SlotsInv, SlotTypes
    <2>3. Made(p)' /\ c.at \notin Works
      BY <2>1 DEF Made, Works
    <2>4. Whole(s)'
      BY <1>1, <1>2, <1>3, <1>4, <2>1, SlotsAtWork DEF Whole, Undoing
    <2>m. Moves(p, s, c)
      BY <1>1, <1>2, <1>3, <1>4, <2>1, <2>2, <2>3, <2>4, SlotsAtWork DEF Moves
    <2> QED
      BY <2>m, MakerKeeps, <1>1, <1>2
  <1>5. CASE /\ run' = [run EXCEPT ![s].status = "failed",
                                   ![s].artifacts = {}]
             /\ Reports!Done(p)
    <2>1. PICK r \in SlotRows :
            r = [run[s] EXCEPT !.status = "failed", !.artifacts = {}]
      BY DEF SlotsInv, SlotTypes, SlotRows
    <2>2. r.status = "failed"
      BY <2>1 DEF SlotsInv, SlotTypes, SlotRows
    <2>3. run' = [run EXCEPT ![s] = r]
      BY <1>5, <2>1 DEF SlotsInv, SlotTypes
    <2>4. run'[s] = r /\ \A t \in Reports!Slots \ {s} : run'[t] = run[t]
      BY <2>3 DEF SlotsInv, SlotTypes
    <2>5. reportProc' = [reportProc EXCEPT ![p] = Reports!Idle]
            /\ reportProc'[p] = Reports!Idle
      BY <1>5 DEF Reports!Done, SlotsInv, SlotTypes
    <2>6. SlotTypes'
      BY <1>3, <2>3, <2>5, IdleMaker DEF SlotsInv, SlotTypes
    <2>7. Made(p)'
      BY <2>5, IdleMaker DEF Made, Works
    <2>8. Whole(s)'
      BY <1>3, <2>2, <2>4 DEF Whole
    <2>9. Reports!Idle.at \notin Works
      BY IdleMaker DEF Works
    <2>m. Moves(p, s, Reports!Idle)
      BY <1>1, <1>2, <1>3, <2>4, <2>5, <2>6, <2>7, <2>8, <2>9, SlotsAtWork,
         IdleMaker
         DEF Moves
    <2> QED
      BY <2>m, MakerKeeps, <1>1, <1>2, IdleMaker
  <1> QED
    BY <1>2, <1>4, <1>5 DEF Reports!Fail

LEMMA SlotsCrashKeeps ==
    ASSUME SlotsInv, NEW p \in Procs, Reports!Crash(p) PROVE SlotsInv'
  <1>1. reportProc[p].at \in Works \cup {"claim"}
    BY DEF Reports!Crash, SlotsInv, SlotTypes, Makers
  <1>2. PICK s \in Reports!Slots : s = reportProc[p].slot
    BY <1>1 DEF SlotsInv, Made
  <1>3. PICK c \in Makers :
            /\ reportProc' = [reportProc EXCEPT ![p] = c]
                 /\ reportProc'[p] = c
            /\ c.at = "dead" /\ c.slot = s /\ c.left = reportProc[p].left
    BY <1>2, SlotsGotoIs DEF Reports!Crash
  <1>4. UNCHANGED <<run, files, slot, kept>>
    BY DEF Reports!Crash
  <1>5. SlotTypes'
    BY <1>3, <1>4 DEF SlotsInv, SlotTypes
  <1>6. Made(p)' /\ c.at \notin Works
    BY <1>3 DEF Made, Works
  <1>7. Whole(s)'
    BY <1>2, <1>3, <1>4 DEF SlotsInv, Whole, Undoing
  <1>8. reportProc[p].at \in Works \/ reportProc[p].at \notin Undoing
    BY <1>1 DEF Works, Undoing
  <1>m. Moves(p, s, c)
    BY <1>1, <1>2, <1>3, <1>4, <1>5, <1>6, <1>7, <1>8 DEF Moves, Works
  <1> QED
    BY <1>m, MakerKeeps, <1>1, <1>2

\* Nothing that the invariant speaks of has changed.
LEMMA SlotsStutter ==
    ASSUME SlotsInv, UNCHANGED <<run, files, reportProc, kept>>,
           slot' \in Reports!Slots
    PROVE  SlotsInv'
  BY DEF SlotsInv, SlotTypes, Made, Whole, OneMaker

LEMMA SlotsNextInv ==
    ASSUME SlotsInv, Reports!Next PROVE SlotsInv'
  <1>1. CASE Reports!NextSlot
    BY <1>1, SlotsStutter
       DEF Reports!NextSlot, SlotsInv, SlotTypes, Reports!Slots
  <1>2. CASE \E s \in Reports!Slots : Reports!RetryDue(s)
    BY <1>2, SlotsStutter DEF Reports!RetryDue, SlotsInv, SlotTypes
  <1> QED
    BY <1>1, <1>2, SlotsBeginKeeps, ClaimKeeps, SlotsWriteKeeps,
       CompleteKeeps, SlotsAuditKeeps, FaultKeeps, UndoKeeps, FailKeeps,
       SlotsCrashKeeps
       DEF Reports!Next

LEMMA SlotsWhole == ASSUME SlotsInv PROVE Reports!OneWholeReport
  <1> SUFFICES ASSUME NEW s \in Reports!Slots
               PROVE  /\ Cardinality(Reports!At(s, Works)) <= 1
                      /\ run[s].status = "prepared" =>
                            \/ run[s].artifacts \subseteq files[s]
                            \/ Reports!At(s, {"undo", "fail", "dead"}) # {}
                      /\ run[s].status = "failed" /\ s \notin kept =>
                            files[s] = {}
    BY SlotsCount DEF Reports!OneWholeReport, Works
  <1>1. Cardinality(Reports!At(s, Works)) <= 1
    <2>1. CASE Reports!At(s, Works) = {}
      BY <2>1, FS_EmptySet
    <2>2. CASE Reports!At(s, Works) # {}
      <3>1. PICK p \in Procs : Reports!At(s, Works) = {p}
        BY <2>2 DEF Reports!At, SlotsInv, OneMaker
      <3>2. Cardinality({p}) = 1
        BY FS_Singleton
      <3> QED
        BY <3>1, <3>2
    <2> QED
      BY <2>1, <2>2
  <1>2. run[s].artifacts \subseteq Formats
    BY DEF SlotsInv, SlotTypes, SlotRows
  <1> QED
    BY <1>1, <1>2 DEF SlotsInv, Whole, Reports!At, Undoing

-----------------------------------------------------------------------------
(***************************************************************************)
(* The inbox.  InboxInv adds what a refresh that nothing has disturbed has *)
(* still to write (Current): what it found is what is wrong, and all of it *)
(* is in the inbox or to be written.                                       *)
(***************************************************************************)
\* In one status a row gives rise to at most one issue of a type.
OneSeverity ==
    \A t \in {"source", "report"} : \A r, q \in Watchlist[t] :
        r.status = q.status /\ r.type = q.type => r.severity = q.severity

Severities ==
    UNION {{r.severity : r \in Watchlist[t]} : t \in {"source", "report"}}
AnyIssue == [note : Inbox!Notes, severity : Severities]
Writings == [issue : AnyIssue, visible : BOOLEAN]
Refreshers == [at : {"idle", "next", "write"}, todo : SUBSET AnyIssue,
               seen : SUBSET Inbox!Notes, next : SUBSET Writings,
               alone : BOOLEAN]
NoteStates == {"none", "unread", "read", "acknowledged", "resolved",
               "suppressed"}

InboxTypes ==
    /\ note \in [Inbox!Notes -> NoteStates]
    /\ prefs \in [{"source_connector_unavailable"} \cup {"*"} -> Inbox!Preferences]
    /\ refresher \in [Procs -> Refreshers]
    /\ acked \subseteq Inbox!Notes

\* What the refreshes have left in the inbox of an issue.
Entered(i) ==
    /\ note[i.note] \notin {"none", "resolved"}
    /\ note[i.note] = "suppressed" <=> ~Inbox!Allows(i)

\* A refresh writes its issues one by one.
OneByOne(p) ==
    /\ refresher[p].at = "next" => refresher[p].next = {}
    /\ refresher[p].at = "write"
         => \E w \in Writings : refresher[p].next = {w}

\* A refresh that nothing has disturbed has found what is wrong and has
\* written it or has it still to write.
Current(p) ==
    Inbox!Refreshing(p) /\ refresher[p].alone =>
        /\ Inbox!Alone(p)
        /\ refresher[p].seen = Inbox!Open
             /\ refresher[p].todo \subseteq Inbox!Issues
        /\ \A w \in refresher[p].next :
                w.issue \in Inbox!Issues /\ w.visible = Inbox!Allows(w.issue)
        /\ \A i \in Inbox!Issues : \/ i \in refresher[p].todo
                                   \/ \E w \in refresher[p].next : w.issue = i
                                   \/ Entered(i)

InboxInv ==
    /\ InboxTypes
    /\ \A p \in Procs : OneByOne(p) /\ Current(p)
    /\ Inbox!InboxAgrees
    /\ \A n \in acked : note[n] = "acknowledged" /\ Inbox!Shown(n)

-----------------------------------------------------------------------------
LEMMA IssuesAre ==
    ASSUME OneSeverity
    PROVE  /\ Inbox!Issues \subseteq AnyIssue
             /\ Inbox!Open \subseteq Inbox!Notes
           /\ \A i, j \in Inbox!Issues : i.note = j.note => i = j
           /\ \A i \in Inbox!Issues : i.note \in Inbox!Open
  <1>1. ASSUME NEW i \in Inbox!Issues
        PROVE  \E t \in {"source", "report"} : \E r \in Watchlist[t] :
                    /\ i = [note |-> <<t, r.type>>, severity |-> r.severity]
                    /\ r.status = row[t].status
    BY DEF Inbox!Issues, Inbox!Found
  <1>2. ASSUME NEW i \in Inbox!Issues PROVE i \in AnyIssue
    <2>1. PICK t \in {"source", "report"} :
            \E r \in Watchlist[t] :
                    /\ i = [note |-> <<t, r.type>>, severity |-> r.severity]
                    /\ r.status = row[t].status
      BY <1>1
    <2>2. PICK r \in Watchlist[t] :
                i = [note |-> <<t, r.type>>, severity |-> r.severity]
      BY <2>1
    <2>3. <<t, r.type>> \in {<<t, q.type>> : q \in Watchlist[t]}
            /\ r.severity \in {q.severity : q \in Watchlist[t]}
      OBVIOUS
    <2>4. <<t, r.type>> \in Inbox!Notes /\ r.severity \in Severities
      BY <2>3 DEF Inbox!Notes, Severities
    <2> QED
      BY <2>2, <2>4 DEF AnyIssue
  <1>3. ASSUME NEW i \in Inbox!Issues, NEW j \in Inbox!Issues,
               i.note = j.note PROVE i = j
    <2>a. PICK t \in {"source", "report"} : \E r \in Watchlist[t] :
                    /\ i = [note |-> <<t, r.type>>, severity |-> r.severity]
                    /\ r.status = row[t].status
      BY <1>1
    <2>1. PICK r \in Watchlist[t] :
                    /\ i = [note |-> <<t, r.type>>, severity |-> r.severity]
                    /\ r.status = row[t].status
      BY <2>a
    <2>b. PICK u \in {"source", "report"} : \E q \in Watchlist[u] :
                    /\ j = [note |-> <<u, q.type>>, severity |-> q.severity]
                    /\ q.status = row[u].status
      BY <1>1
    <2>2. PICK q \in Watchlist[u] :
                    /\ j = [note |-> <<u, q.type>>, severity |-> q.severity]
                    /\ q.status = row[u].status
      BY <2>b
    <2>3. t = u /\ r.type = q.type
      BY <1>3, <2>1, <2>2
    <2>4. r.severity = q.severity
      BY <2>1, <2>2, <2>3 DEF OneSeverity
    <2> QED
      BY <2>1, <2>2, <2>3, <2>4
  <1>4. \A i \in Inbox!Issues : i.note \in Inbox!Open
    BY DEF Inbox!Open
  <1>5. Inbox!Open \subseteq Inbox!Notes
    BY <1>2 DEF Inbox!Open, AnyIssue
  <1> QED
    BY <1>2, <1>3, <1>4, <1>5

LEMMA AllowsBool ==
    ASSUME InboxTypes, NEW i PROVE Inbox!Allows(i) \in BOOLEAN
  <1>1. Inbox!Minimum(i.note[2]) \in {"off", "low", "medium", "high"}
    BY DEF InboxTypes, Inbox!Minimum, Inbox!Preferences
  <1> QED
    BY <1>1 DEF Inbox!Allows

\* What a snapshot finds depends on the rows, what may be shown on the
\* preferences.
LEMMA SameIssues ==
    /\ row' = row => Inbox!Issues' = Inbox!Issues /\ Inbox!Open' = Inbox!Open
    /\ prefs' = prefs => \A i : Inbox!Allows(i)' = Inbox!Allows(i)
  <1>1. row' = row => Inbox!Issues' = Inbox!Issues
    BY DEF Inbox!Issues, Inbox!Found
  <1>2. prefs' = prefs => \A i : Inbox!Allows(i)' = Inbox!Allows(i)
    BY DEF Inbox!Allows, Inbox!Minimum
  <1> QED
    BY <1>1, <1>2 DEF Inbox!Open

LEMMA IdleRefresher ==
    /\ Inbox!Idle \in Refreshers /\ Inbox!Idle.at = "idle"
         /\ Inbox!Idle.next = {}
    BY DEF Inbox!Idle, Refreshers

LEMMA InboxInitInv == ASSUME Inbox!Init PROVE InboxInv
  <1>1. InboxTypes
    BY IdleRefresher DEF Inbox!Init, InboxTypes, NoteStates, Inbox!Preferences
  <1>2. \A p \in Procs : OneByOne(p) /\ Current(p)
    BY IdleRefresher DEF Inbox!Init, OneByOne, Current, Inbox!Refreshing
  <1>3. Inbox!InboxAgrees
    BY DEF Inbox!Init, Inbox!InboxAgrees
  <1>4. acked = {}
    BY DEF Inbox!Init
  <1> QED
    BY <1>1, <1>2, <1>3, <1>4 DEF InboxInv

\* What a process has read is as it was, but it is no longer alone.
LEMMA DisturbedIs ==
    ASSUME InboxInv, Inbox!Disturbed
    PROVE  /\ refresher' \in [Procs -> Refreshers]
           /\ \A q \in Procs :
                /\ refresher'[q].at = refresher[q].at
                     /\ refresher'[q].todo = refresher[q].todo
                /\ refresher'[q].seen = refresher[q].seen
                     /\ refresher'[q].next = refresher[q].next
                /\ refresher'[q].alone = FALSE
           /\ \A q \in Procs : OneByOne(q)' /\ Current(q)'
  <1>1. ASSUME NEW q \in Procs
        PROVE  \E c \in Refreshers :
                /\ refresher'[q] = c
                /\ c.at = refresher[q].at /\ c.todo = refresher[q].todo
                /\ c.seen = refresher[q].seen /\ c.next = refresher[q].next
                /\ c.alone = FALSE
    <2>1. refresher[q] \in Refreshers
      BY DEF InboxInv, InboxTypes
    <2>2. PICK c \in Refreshers : c = [refresher[q] EXCEPT !.alone = FALSE]
      BY <2>1 DEF Refreshers
    <2>3. refresher'[q] = c
      BY <2>2 DEF Inbox!Disturbed
    <2> QED
      BY <2>1, <2>2, <2>3 DEF Refreshers
  <1>2. refresher' \in [Procs -> Refreshers]
    <2>1. refresher' = [q \in Procs |-> refresher'[q]]
      BY DEF Inbox!Disturbed
    <2> QED
      BY <1>1, <2>1
  <1>3. ASSUME NEW q \in Procs PROVE OneByOne(q)' /\ Current(q)'
    <2>1. /\ refresher'[q].at = refresher[q].at
               /\ refresher'[q].next = refresher[q].next
          /\ refresher'[q].alone = FALSE
      BY <1>1
    <2>2. OneByOne(q)
      BY DEF InboxInv
    <2>3. OneByOne(q)'
      BY <2>1, <2>2 DEF OneByOne
    <2>4. Current(q)'
      BY <2>1 DEF Current
    <2> QED
      BY <2>3, <2>4
  <1> QED
    BY <1>1, <1>2, <1>3

LEMMA ChangeKeeps ==
    ASSUME InboxInv, NEW t \in {"source", "report"}, Inbox!Change(t)
    PROVE InboxInv'
  <1>1. InboxTypes'
    BY DisturbedIs DEF Inbox!Change, InboxInv, InboxTypes
  <1>2. Inbox!InboxAgrees'
    BY DEF Inbox!Change, Inbox!InboxAgrees
  <1>3. \A n \in acked' : note'[n] = "acknowledged" /\ Inbox!Shown(n)'
    BY DEF Inbox!Change, InboxInv
  <1> QED
    BY <1>1, <1>2, <1>3, DisturbedIs DEF Inbox!Change, InboxInv

\* Only what a refresh under way has read has changed.
LEMMA ShownStays ==
    ASSUME UNCHANGED <<row, prefs>>, NEW n, Inbox!Shown(n),
           \A p \in Procs :
             Inbox!Refreshing(p)' =>
                /\ n \in refresher'[p].seen
                /\ \A i \in refresher'[p].todo : i.note = n => Inbox!Allows(i)
                /\ \A w \in refresher'[p].next : w.issue.note = n => w.visible
    PROVE  Inbox!Shown(n)'
  BY SameIssues DEF Inbox!Shown

LEMMA SetStatusKeeps ==
    ASSUME InboxInv, NEW n \in Inbox!Notes, Inbox!SetStatus(n) PROVE InboxInv'
  <1>1. PICK status \in {"unread", "read", "acknowledged", "resolved"} :
            /\ note' = [note EXCEPT ![n] = status]
            /\ acked' = IF status = "acknowledged" /\ Inbox!Shown(n)
                        THEN acked \cup {n} ELSE acked \ {n}
    BY DEF Inbox!SetStatus
  <1>2. InboxTypes'
    BY <1>1, DisturbedIs DEF Inbox!SetStatus, InboxInv, InboxTypes, NoteStates
  <1>3. Inbox!InboxAgrees'
    BY DEF Inbox!SetStatus, Inbox!InboxAgrees
  <1>4. ASSUME NEW m \in acked'
    PROVE note'[m] = "acknowledged" /\ Inbox!Shown(m)'
    <2>1. Inbox!Shown(m)
      BY <1>1 DEF InboxInv
    <2>2. Inbox!Shown(m)'
      <3>1. UNCHANGED <<row, prefs>> /\ Inbox!Disturbed
        BY DEF Inbox!SetStatus
      <3>2. ASSUME NEW q \in Procs, Inbox!Refreshing(q)'
            PROVE  /\ m \in refresher'[q].seen
                   /\ \A i \in refresher'[q].todo : i.note = m
                        => Inbox!Allows(i)
                   /\ \A w \in refresher'[q].next : w.issue.note = m
                        => w.visible
        BY <2>1, <3>1, <3>2, DisturbedIs DEF Inbox!Shown, Inbox!Refreshing
      <3> QED
        BY <2>1, <3>1, <3>2, ShownStays
    <2>3. note'[m] = "acknowledged"
      BY <1>1 DEF InboxInv, InboxTypes
    <2> QED
      BY <2>2, <2>3
  <1> QED
    BY <1>2, <1>3, <1>4, DisturbedIs DEF Inbox!SetStatus, InboxInv

LEMMA SetPreferenceKeeps ==
    ASSUME InboxInv, NEW type \in {"source_connector_unavailable"} \cup {"*"},
           Inbox!SetPreference(type)
    PROVE  InboxInv'
  <1>0. PICK least \in Inbox!Preferences : prefs' = [prefs EXCEPT ![type] = least]
    BY DEF Inbox!SetPreference
  <1>1. InboxTypes'
    <2>1. refresher' \in [Procs -> Refreshers] /\ note' = note /\ acked' = {}
      BY DisturbedIs DEF Inbox!SetPreference
    <2>2. prefs' \in [{"source_connector_unavailable"} \cup {"*"} -> Inbox!Preferences]
      BY <1>0 DEF InboxInv, InboxTypes
    <2> QED
      BY <2>1, <2>2 DEF InboxInv, InboxTypes
  <1>2. Inbox!InboxAgrees' /\ acked' = {}
    BY DEF Inbox!SetPreference, Inbox!InboxAgrees
  <1> QED
    BY <1>1, <1>2, DisturbedIs DEF Inbox!SetPreference, InboxInv

\* The inbox stays as it is.
LEMMA AgreesStays ==
    ASSUME InboxInv, UNCHANGED <<row, note, prefs, settled>>
    PROVE  Inbox!InboxAgrees'
  BY SameIssues DEF InboxInv, Inbox!InboxAgrees

LEMMA InboxStartKeeps ==
    ASSUME OneSeverity, InboxInv, NEW p \in Procs, Inbox!Start(p)
    PROVE InboxInv'
  <1>1. PICK c \in Refreshers :
            c = [at |-> "next", todo |-> Inbox!Issues, seen |-> Inbox!Open, next |-> {},
                 alone |-> Inbox!Alone(p)]
    <2>1. Inbox!Alone(p) \in BOOLEAN
      BY DEF Inbox!Alone
    <2> QED
      BY <2>1, IssuesAre DEF Refreshers
  <1>2. UNCHANGED <<row, note, prefs, settled, acked>> /\ ~Inbox!Refreshing(p)
    BY DEF Inbox!Start
  <1>3. refresher' = [q \in Procs |-> IF q = p THEN c
                    ELSE [refresher[q] EXCEPT !.alone = @ /\ ~Inbox!Refreshing(q)]]
    BY <1>1 DEF Inbox!Start
  <1>4. ASSUME NEW q \in Procs \ {p}
        PROVE  /\ refresher'[q] \in Refreshers
               /\ refresher'[q].at = refresher[q].at
                    /\ refresher'[q].todo = refresher[q].todo
               /\ refresher'[q].seen = refresher[q].seen
                    /\ refresher'[q].next = refresher[q].next
               /\ Inbox!Refreshing(q) => refresher'[q].alone = FALSE
    <2>1. refresher[q] \in Refreshers /\ Inbox!Refreshing(q) \in BOOLEAN
      BY DEF InboxInv, InboxTypes, Inbox!Refreshing
    <2>2. PICK still \in BOOLEAN : still = (refresher[q].alone /\ ~Inbox!Refreshing(q))
      BY <2>1
    <2>3. PICK d \in Refreshers : d = [refresher[q] EXCEPT !.alone = still]
      BY <2>1 DEF Refreshers
    <2>4. refresher'[q] = d
      BY <1>3, <2>2, <2>3
    <2>5. /\ d.at = refresher[q].at /\ d.todo = refresher[q].todo
          /\ d.seen = refresher[q].seen /\ d.next = refresher[q].next
          /\ d.alone = still
      BY <2>1, <2>3 DEF Refreshers
    <2> QED
      BY <2>2, <2>4, <2>5
  <1>5. refresher'[p] = c
    BY <1>3
  <1>6. InboxTypes'
    <2>1. refresher' = [q \in Procs |-> refresher'[q]]
            /\ \A q \in Procs : refresher'[q] \in Refreshers
      BY <1>3, <1>4, <1>5
    <2> QED
      BY <1>2, <2>1 DEF InboxInv, InboxTypes
  <1>7. ASSUME NEW q \in Procs PROVE OneByOne(q)' /\ Current(q)'
    <2>1. CASE q = p
      <3>1. OneByOne(p)'
        BY <1>1, <1>5 DEF OneByOne
      <3>2. Inbox!Alone(p) => Inbox!Alone(p)'
        BY <1>4 DEF Inbox!Alone, Inbox!Refreshing
      <3>3. c.alone => Inbox!Alone(p)
        BY <1>1
      <3> QED
        BY <1>1, <1>2, <1>5, <2>1, <3>1, <3>2, <3>3, SameIssues DEF Current
    <2>2. CASE q # p
      BY <1>4, <2>2 DEF InboxInv, OneByOne, Current, Inbox!Refreshing
    <2> QED
      BY <2>1, <2>2
  <1>8. ASSUME NEW n \in acked PROVE Inbox!Shown(n)'
    <2>1. Inbox!Shown(n)
      BY DEF InboxInv
    <2>2. ASSUME NEW q \in Procs, Inbox!Refreshing(q)'
          PROVE  /\ n \in refresher'[q].seen
                 /\ \A i \in refresher'[q].todo : i.note = n
                      => Inbox!Allows(i)
                 /\ \A w \in refresher'[q].next : w.issue.note = n
                      => w.visible
      <3>1. CASE q = p
        BY <1>1, <1>5, <2>1, <3>1 DEF Inbox!Shown
      <3>2. CASE q # p
        BY <1>4, <2>1, <2>2, <3>2 DEF Inbox!Shown, Inbox!Refreshing
      <3> QED
        BY <3>1, <3>2
    <2> QED
      BY <1>2, <2>1, <2>2, ShownStays
  <1> QED
    BY <1>2, <1>6, <1>7, <1>8, AgreesStays DEF InboxInv

\* One process goes on with its refresh, which it may end.
LEMMA RefresherKeeps ==
    ASSUME InboxInv, NEW p \in Procs, NEW c \in Refreshers,
           UNCHANGED <<row, prefs, acked>>, Inbox!Refreshing(p),
           refresher' = [refresher EXCEPT ![p] = c],
           note' \in [Inbox!Notes -> NoteStates],
           Inbox!InboxAgrees', OneByOne(p)', Current(p)',
           \A n \in acked :
                /\ note'[n] = "acknowledged"
                /\ c.at # "idle" =>
                    /\ n \in c.seen
                    /\ \A i \in c.todo : i.note = n => Inbox!Allows(i)
                    /\ \A w \in c.next : w.issue.note = n => w.visible
    PROVE  InboxInv'
  <1>1. refresher'[p] = c
          /\ \A q \in Procs \ {p} : refresher'[q] = refresher[q]
    BY DEF InboxInv, InboxTypes
  <1>2. InboxTypes'
    BY DEF InboxInv, InboxTypes
  <1>3. ASSUME NEW q \in Procs PROVE OneByOne(q)' /\ Current(q)'
    <2>1. CASE q # p
      <3>1. ~(Inbox!Refreshing(q) /\ refresher[q].alone)
        BY <2>1 DEF InboxInv, Current, Inbox!Alone
      <3> QED
        BY <1>1, <2>1, <3>1 DEF InboxInv, OneByOne, Current, Inbox!Refreshing
    <2> QED
      BY <2>1
  <1>4. ASSUME NEW n \in acked PROVE Inbox!Shown(n)'
    <2>1. Inbox!Shown(n)
      BY DEF InboxInv
    <2> QED
      BY <1>1, <2>1, ShownStays DEF Inbox!Shown, Inbox!Refreshing
  <1> QED
    BY <1>2, <1>3, <1>4 DEF InboxInv

LEMMA PreferKeeps ==
    ASSUME InboxInv, NEW p \in Procs, Inbox!Prefer(p) PROVE InboxInv'
  <1>1. PICK issue \in refresher[p].todo :
            refresher' = [refresher EXCEPT
                ![p].next = {[issue |-> issue, visible |-> Inbox!Allows(issue)]},
                ![p].todo = refresher[p].todo \ {issue}, ![p].at = "write"]
    BY DEF Inbox!Prefer, InboxInv, InboxTypes
  <1>2. refresher[p] \in Refreshers /\ refresher[p].at = "next"
          /\ refresher[p].next = {}
    BY DEF Inbox!Prefer, InboxInv, InboxTypes, OneByOne
  <1>3. PICK w \in Writings :
            w = [issue |-> issue, visible |-> Inbox!Allows(issue)]
    BY <1>2, AllowsBool DEF Writings, Refreshers, InboxInv
  <1>4. PICK c \in Refreshers :
            c = [refresher[p] EXCEPT !.next = {w},
                                !.todo = refresher[p].todo \ {issue},
                                !.at = "write"]
    BY <1>2, <1>3 DEF Refreshers
  <1>5. /\ c.at = "write" /\ c.next = {w}
             /\ c.todo = refresher[p].todo \ {issue}
        /\ c.seen = refresher[p].seen /\ c.alone = refresher[p].alone
    BY <1>2, <1>4 DEF Refreshers
  <1>6. refresher' = [refresher EXCEPT ![p] = c]
    BY <1>1, <1>3, <1>4 DEF InboxInv, InboxTypes
  <1>7. refresher'[p] = c
          /\ \A q \in Procs \ {p} : refresher'[q] = refresher[q]
    BY <1>6 DEF InboxInv, InboxTypes
  <1>8. UNCHANGED <<row, note, prefs, settled, acked>>
    BY DEF Inbox!Prefer
  <1>9. OneByOne(p)'
    BY <1>5, <1>7 DEF OneByOne
  <1>10. Current(p)'
    <2> SUFFICES ASSUME c.alone
                 PROVE  /\ Inbox!Alone(p)' /\ c.seen = Inbox!Open'
                          /\ c.todo \subseteq Inbox!Issues'
                        /\ w.issue \in Inbox!Issues'
                             /\ w.visible = Inbox!Allows(w.issue)'
                        /\ \A i \in Inbox!Issues' :
                            i \in c.todo \/ w.issue = i \/ Entered(i)'
      BY <1>5, <1>7 DEF Current
    <2>1. /\ Inbox!Alone(p) /\ refresher[p].seen = Inbox!Open
               /\ refresher[p].todo \subseteq Inbox!Issues
          /\ \A i \in Inbox!Issues : i \in refresher[p].todo \/ Entered(i)
      BY <1>2, <1>5 DEF InboxInv, Current, Inbox!Refreshing
    <2>2. Inbox!Alone(p)'
      BY <1>7, <2>1 DEF Inbox!Alone, Inbox!Refreshing
    <2>3. \A i : Entered(i)' = Entered(i)
      BY <1>8, SameIssues DEF Entered
    <2>4. w.issue = issue /\ w.visible = Inbox!Allows(issue)
      BY <1>3
    <2> QED
      BY <1>5, <1>8, <2>1, <2>2, <2>3, <2>4, SameIssues
  <1>11. ASSUME NEW n \in acked
         PROVE  /\ note'[n] = "acknowledged" /\ n \in c.seen
                /\ \A i \in c.todo : i.note = n => Inbox!Allows(i)
                /\ \A v \in c.next : v.issue.note = n => v.visible
    <2>1. Inbox!Shown(n) /\ note[n] = "acknowledged" /\ Inbox!Refreshing(p)
      BY <1>2 DEF InboxInv, Inbox!Refreshing
    <2>2. /\ n \in refresher[p].seen
          /\ \A i \in refresher[p].todo : i.note = n => Inbox!Allows(i)
      BY <2>1 DEF Inbox!Shown
    <2>3. w.issue = issue /\ w.visible = Inbox!Allows(issue)
      BY <1>3
    <2> QED
      BY <1>5, <1>8, <2>1, <2>2, <2>3
  <1>12. Inbox!Refreshing(p)
    BY <1>2 DEF Inbox!Refreshing
  <1>13. Inbox!InboxAgrees' /\ note' \in [Inbox!Notes -> NoteStates]
    BY <1>8, AgreesStays DEF InboxInv, InboxTypes
  <1> QED
    BY <1>6, <1>8, <1>9, <1>10, <1>11, <1>12, <1>13, RefresherKeeps

LEMMA InboxWriteKeeps ==
    ASSUME OneSeverity, InboxInv, NEW p \in Procs, Inbox!Write(p)
    PROVE InboxInv'
  <1>1. refresher[p] \in Refreshers /\ refresher[p].at = "write"
    BY DEF Inbox!Write, InboxInv, InboxTypes
  <1>2. PICK w \in Writings : refresher[p].next = {w}
    BY <1>1 DEF InboxInv, OneByOne
  <1>3. w.issue.note \in Inbox!Notes /\ w.visible \in BOOLEAN
    BY DEF Writings, AnyIssue
  <1>4. PICK status \in NoteStates :
            status = Inbox!Upserted(note[w.issue.note], w.visible)
    BY <1>3 DEF InboxInv, InboxTypes, NoteStates, Inbox!Upserted
  <1>5. note' = [note EXCEPT ![w.issue.note] = status]
    BY <1>2, <1>4 DEF Inbox!Write, InboxInv, InboxTypes
  <1>6. UNCHANGED <<row, prefs, acked>> /\ settled' = FALSE
    BY DEF Inbox!Write
  <1>7. PICK c \in Refreshers : c = [refresher[p] EXCEPT !.next = {}, !.at = "next"]
    BY <1>1 DEF Refreshers
  <1>8. /\ c.at = "next" /\ c.next = {} /\ c.todo = refresher[p].todo
        /\ c.seen = refresher[p].seen /\ c.alone = refresher[p].alone
    BY <1>1, <1>7 DEF Refreshers
  <1>9. refresher' = [refresher EXCEPT ![p] = c]
    BY <1>7 DEF Inbox!Write, InboxInv, InboxTypes
  <1>10. refresher'[p] = c
           /\ \A q \in Procs \ {p} : refresher'[q] = refresher[q]
    BY <1>9 DEF InboxInv, InboxTypes
  <1>11. OneByOne(p)' /\ Inbox!InboxAgrees' /\ Inbox!Refreshing(p)
    BY <1>1, <1>6, <1>8, <1>10
       DEF OneByOne, Inbox!InboxAgrees, Inbox!Refreshing
  <1>12. note' \in [Inbox!Notes -> NoteStates]
    BY <1>5 DEF InboxInv, InboxTypes
  <1>13. Current(p)'
    <2> SUFFICES ASSUME c.alone
                 PROVE  /\ Inbox!Alone(p)' /\ c.seen = Inbox!Open'
                          /\ c.todo \subseteq Inbox!Issues'
                        /\ \A i \in Inbox!Issues' : i \in c.todo
                             \/ Entered(i)'
      BY <1>8, <1>10 DEF Current
    <2>1. /\ Inbox!Alone(p) /\ refresher[p].seen = Inbox!Open
               /\ refresher[p].todo \subseteq Inbox!Issues
          /\ w.issue \in Inbox!Issues /\ w.visible = Inbox!Allows(w.issue)
          /\ \A i \in Inbox!Issues :
                i \in refresher[p].todo \/ w.issue = i \/ Entered(i)
      BY <1>1, <1>2, <1>8 DEF InboxInv, Current, Inbox!Refreshing
    <2>2. Inbox!Alone(p)'
      BY <1>10, <2>1 DEF Inbox!Alone, Inbox!Refreshing
    <2>3. Entered(w.issue)'
      <3>1. note'[w.issue.note] = status
        BY <1>3, <1>5 DEF InboxInv, InboxTypes
      <3>2. /\ status \notin {"none", "resolved"}
            /\ (status = "suppressed" <=> ~w.visible)
        <4>1. CASE ~w.visible
          BY <1>3, <1>4, <4>1 DEF Inbox!Upserted
        <4>2. CASE /\ w.visible
                   /\ note[w.issue.note] \in {"none", "resolved", "suppressed"}
          BY <1>4, <4>2 DEF Inbox!Upserted
        <4>3. CASE /\ w.visible
                   /\ note[w.issue.note] \notin {"none", "resolved", "suppressed"}
          BY <1>4, <4>3 DEF Inbox!Upserted
        <4> QED
          BY <1>3, <4>1, <4>2, <4>3
      <3> QED
        BY <1>6, <2>1, <3>1, <3>2, SameIssues DEF Entered
    <2>4. ASSUME NEW i \in Inbox!Issues, i # w.issue, Entered(i)
    PROVE Entered(i)'
      <3>1. i.note # w.issue.note /\ i.note \in Inbox!Notes
        BY <2>1, <2>4, IssuesAre
      <3>2. note'[i.note] = note[i.note]
        BY <1>5, <3>1 DEF InboxInv, InboxTypes
      <3> QED
        BY <1>6, <2>4, <3>2, SameIssues DEF Entered
    <2> QED
      BY <1>6, <1>8, <2>1, <2>2, <2>3, <2>4, SameIssues
  <1>14. ASSUME NEW n \in acked
         PROVE  /\ note'[n] = "acknowledged" /\ n \in c.seen
                /\ \A i \in c.todo : i.note = n => Inbox!Allows(i)
                /\ \A v \in c.next : v.issue.note = n => v.visible
    <2>1. Inbox!Shown(n) /\ note[n] = "acknowledged" /\ n \in Inbox!Notes
      BY DEF InboxInv, InboxTypes
    <2>2. /\ n \in refresher[p].seen
          /\ \A i \in refresher[p].todo : i.note = n => Inbox!Allows(i)
          /\ w.issue.note = n => w.visible
      BY <1>2, <1>11, <2>1 DEF Inbox!Shown
    <2>3. note'[n] = "acknowledged"
      <3>1. CASE n = w.issue.note
        <4>1. status = "acknowledged"
          BY <1>3, <1>4, <2>1, <2>2, <3>1 DEF Inbox!Upserted
        <4> QED
          BY <1>5, <2>1, <3>1, <4>1 DEF InboxInv, InboxTypes
      <3>2. CASE n # w.issue.note
        BY <1>5, <2>1, <3>2 DEF InboxInv, InboxTypes
      <3> QED
        BY <3>1, <3>2
    <2> QED
      BY <1>8, <2>2, <2>3
  <1> QED
    BY <1>6, <1>9, <1>11, <1>12, <1>13, <1>14, RefresherKeeps

LEMMA ResolveKeeps ==
    ASSUME OneSeverity, InboxInv, NEW p \in Procs, Inbox!Resolve(p)
    PROVE InboxInv'
  <1>1. /\ refresher[p] \in Refreshers /\ refresher[p].at = "next"
        /\ refresher[p].todo = {} /\ refresher[p].next = {}
             /\ Inbox!Refreshing(p)
    BY DEF Inbox!Resolve, InboxInv, InboxTypes, OneByOne, Inbox!Refreshing
  <1>2. /\ UNCHANGED <<row, prefs, acked>> /\ settled' = refresher[p].alone
        /\ refresher' = [refresher EXCEPT ![p] = Inbox!Idle]
    BY DEF Inbox!Resolve
  <1>3. \A n \in Inbox!Notes :
            note'[n] = IF note[n] # "none" /\ n \notin refresher[p].seen
                       THEN "resolved" ELSE note[n]
    BY DEF Inbox!Resolve, Inbox!Inactive
  <1>4. note' \in [Inbox!Notes -> NoteStates]
    BY <1>3 DEF Inbox!Resolve, InboxInv, InboxTypes, NoteStates
  <1>5. refresher'[p] = Inbox!Idle /\ OneByOne(p)' /\ Current(p)'
    BY <1>2, IdleRefresher
       DEF InboxInv, InboxTypes, OneByOne, Current, Inbox!Refreshing
  <1>6. Inbox!InboxAgrees'
    <2> SUFFICES ASSUME refresher[p].alone
                 PROVE  /\ \A n \in Inbox!Notes :
                            n \in Inbox!Open <=> note'[n] \notin {"none", "resolved"}
                        /\ \A i \in Inbox!Issues :
                            note'[i.note] = "suppressed" <=> ~Inbox!Allows(i)
      BY <1>2, SameIssues DEF Inbox!InboxAgrees
    <2>1. refresher[p].seen = Inbox!Open /\ \A i \in Inbox!Issues : Entered(i)
      BY <1>1 DEF InboxInv, Current
    <2>2. \A n \in Inbox!Open : \E i \in Inbox!Issues : i.note = n
      BY DEF Inbox!Open
    <2>3. \A n \in Inbox!Open : note'[n] = note[n] /\ n \in Inbox!Notes
      BY <1>3, <2>1, IssuesAre
    <2>4. \A i \in Inbox!Issues : i.note \in Inbox!Open
      BY IssuesAre
    <2>5. ASSUME NEW n \in Inbox!Notes
          PROVE  n \in Inbox!Open <=> note'[n] \notin {"none", "resolved"}
      <3>1. CASE n \in Inbox!Open
        BY <2>1, <2>2, <2>3, <3>1 DEF Entered
      <3>2. CASE n \notin Inbox!Open
        BY <1>3, <2>1, <3>2
      <3> QED
        BY <3>1, <3>2
    <2> QED
      BY <2>1, <2>3, <2>4, <2>5 DEF Entered
  <1>7. \A n \in acked : note'[n] = "acknowledged"
    <2> SUFFICES ASSUME NEW n \in acked PROVE note'[n] = "acknowledged"
      OBVIOUS
    <2>1. Inbox!Shown(n) /\ note[n] = "acknowledged" /\ n \in Inbox!Notes
      BY DEF InboxInv, InboxTypes
    <2>2. n \in refresher[p].seen
      BY <1>1, <2>1 DEF Inbox!Shown
    <2> QED
      BY <1>3, <2>1, <2>2
  <1> QED
    BY <1>1, <1>2, <1>4, <1>5, <1>6, <1>7, IdleRefresher, RefresherKeeps

LEMMA InboxCrashKeeps ==
    ASSUME InboxInv, NEW p \in Procs, Inbox!Crash(p) PROVE InboxInv'
  <1>1. /\ UNCHANGED <<row, note, prefs, settled, acked>>
             /\ Inbox!Refreshing(p)
        /\ refresher' = [refresher EXCEPT ![p] = Inbox!Idle]
    BY DEF Inbox!Crash
  <1>2. refresher'[p] = Inbox!Idle /\ OneByOne(p)' /\ Current(p)'
    BY <1>1, IdleRefresher
       DEF InboxInv, InboxTypes, OneByOne, Current, Inbox!Refreshing
  <1>3. \A n \in acked : note'[n] = "acknowledged"
    BY <1>1 DEF InboxInv
  <1>4. Inbox!InboxAgrees' /\ note' \in [Inbox!Notes -> NoteStates]
    BY <1>1, AgreesStays DEF InboxInv, InboxTypes
  <1> QED
    BY <1>1, <1>2, <1>3, <1>4, IdleRefresher, RefresherKeeps

LEMMA InboxNextInv ==
    ASSUME OneSeverity, InboxInv, Inbox!Next PROVE InboxInv'
  BY ChangeKeeps, InboxStartKeeps, PreferKeeps, InboxWriteKeeps, ResolveKeeps,
     InboxCrashKeeps, SetStatusKeeps, SetPreferenceKeeps
     DEF Inbox!Next

LEMMA InboxStutter == ASSUME InboxInv, UNCHANGED Inbox!vars PROVE InboxInv'
  <1>1. UNCHANGED <<row, note, prefs, refresher, settled, acked>>
    BY DEF Inbox!vars
  <1>2. \A i : Entered(i)' = Entered(i)
    BY <1>1, SameIssues DEF Entered
  <1>3. \A p \in Procs : OneByOne(p)' /\ Current(p)'
    BY <1>1, <1>2, SameIssues
       DEF InboxInv, OneByOne, Current, Inbox!Refreshing, Inbox!Alone
  <1>4. \A n \in acked : Inbox!Shown(n)'
    BY <1>1, ShownStays DEF InboxInv, Inbox!Shown, Inbox!Refreshing
  <1> QED
    BY <1>1, <1>3, <1>4, AgreesStays DEF InboxInv, InboxTypes

LEMMA InboxHolds == ASSUME InboxInv PROVE Inbox!InboxTold
  BY DEF InboxInv, Inbox!InboxTold, Inbox!AcknowledgedStays

\* The rules for the rows of the instance.
LEMMA WatchedSeverity == OneSeverity
  <1>1. ASSUME NEW r \in RulesOf("report"), NEW q \in RulesOf("report"),
               r.status = q.status, r.type = q.type
        PROVE  r.severity = q.severity
    BY <1>1 DEF RulesOf, Rules, Rule, SourceRules, DocumentRules, RouteRules,
                ExportRules, RunRules, ReportRules, WaveRules, OtherRules
  <1>2. ASSUME NEW r \in RulesOf("source"), NEW q \in RulesOf("source"),
               r.status = q.status, r.type = q.type
        PROVE  r.severity = q.severity
    BY <1>2 DEF RulesOf, Rules, Rule, SourceRules, DocumentRules, RouteRules,
                ExportRules, RunRules, ReportRules, WaveRules, OtherRules
  <1> QED
    BY <1>1, <1>2 DEF OneSeverity, Watchlist

-----------------------------------------------------------------------------
(***************************************************************************)
(* The assessments.  ComplInv says what an assessment that nothing has     *)
(* disturbed knows (Fresh), and that the findings of those that are stored *)
(* fit their checksum for as long as the records are as they were (Fits).  *)
(***************************************************************************)
Fields == {"at", "period", "rev", "quality", "blockers", "sum", "found",
           "files", "id", "alone"}
ComplColumns == {"period", "sum", "status", "findings", "undisturbed"}
Steps == {"report", "checksum", "find", "store", "answer", "audit"}

Assessor(c) == DOMAIN c = Fields /\ c.at \in Steps /\ c.alone \in BOOLEAN

\* The checksum and the findings of the facts as they are.
NowSum == Compl!ChecksumOf(rev, Compl!Blockers(quality), filed)
NowFound == Compl!FindingsIn(quality, Compl!Blockers(quality), filed)

\* What an assessment knows that nothing has disturbed.
Fresh(c) ==
    /\ c.rev = rev /\ c.quality = quality
    /\ c.at \in {"checksum", "find", "store"}
         => c.blockers = Compl!Blockers(quality)
    /\ c.at \in {"find", "store"} => c.sum = {NowSum}
    /\ c.at = "store" => c.found = NowFound
    /\ c.at \in {"answer", "audit"} =>
            c.id \in Compl!Ids /\ assessments[c.id].sum = NowSum

AssessorsInv ==
    /\ DOMAIN assessor = Procs
    /\ \A p \in Procs : \/ assessor[p] = Compl!Idle
                        \/ /\ Assessor(assessor[p])
                           /\ assessor[p].alone => Fresh(assessor[p])

\* The findings of an undisturbed assessment are those of its checksum for as
\* long as the records are as they were.
Fits(a) ==
    /\ a.sum.rev \in 0..rev
    /\ a.sum.rev = rev =>
            DOMAIN a.findings =
                Compl!FindingsIn(quality, Compl!Blockers(quality), a.sum.files)

StoredInv ==
    /\ Len(assessments) \in Nat /\ Compl!Ids = 1..Len(assessments)
    /\ assessments = [i \in Compl!Ids |-> assessments[i]]
    /\ \A i \in Compl!Ids : /\ DOMAIN assessments[i] = ComplColumns
                            /\ assessments[i].undisturbed \in BOOLEAN
                            /\ assessments[i].undisturbed
                                 => Fits(assessments[i])

ComplInv ==
    /\ rev \in Nat
    /\ AssessorsInv
    /\ StoredInv
    /\ \A answer \in told : answer.id \in Compl!Ids
    /\ Compl!AnswersApply
    /\ Compl!OneOpenAssessment

-----------------------------------------------------------------------------
LEMMA SequenceIs ==
    ASSUME NEW n \in Nat, NEW s, s = [i \in 1..n |-> s[i]]
    PROVE  s \in Seq({s[i] : i \in 1..n}) /\ Len(s) = n /\ DOMAIN s = 1..n
  <1>1. s \in [1..n -> {s[i] : i \in 1..n}]
    OBVIOUS
  <1> QED
    BY <1>1

LEMMA AppendIs ==
    ASSUME NEW n \in Nat, NEW s, s = [i \in 1..n |-> s[i]], NEW e,
           NEW t, t = Append(s, e)
    PROVE  /\ Len(t) = n + 1 /\ DOMAIN t = 1..(n + 1)
           /\ t = [i \in 1..(n + 1) |-> t[i]]
           /\ t[n + 1] = e /\ \A i \in 1..n : t[i] = s[i]
  <1> DEFINE S == {s[i] : i \in 1..n} \cup {e}
  <1>1. s \in [1..n -> S]
    OBVIOUS
  <1>2. s \in Seq(S) /\ e \in S /\ Len(s) = n
    BY <1>1
  <1> HIDE DEF S
  <1>3. t \in Seq(S) /\ Len(t) = n + 1
    BY <1>2
  <1>4. t[n + 1] = e /\ \A i \in 1..n : t[i] = s[i]
    BY <1>2
  <1>5. DOMAIN t = 1..(n + 1) /\ t = [i \in 1..(n + 1) |-> t[i]]
    BY <1>3
  <1> QED
    BY <1>3, <1>4, <1>5

\* The assessments stand, and so do the facts.
Stands ==
    /\ UNCHANGED <<rev, quality, filed>> /\ Compl!Ids \subseteq Compl!Ids'
    /\ \A i \in Compl!Ids : assessments'[i].sum = assessments[i].sum

LEMMA FreshStays == ASSUME Stands PROVE \A c : Fresh(c) => Fresh(c)'
  <1>1. NowSum' = NowSum /\ NowFound' = NowFound
    BY DEF Stands, NowSum, NowFound, Compl!ChecksumOf, Compl!Blockers,
           Compl!FindingsIn
  <1> SUFFICES ASSUME NEW c, Fresh(c) PROVE Fresh(c)'
    OBVIOUS
  <1>2. Compl!Blockers(quality)' = Compl!Blockers(quality)
    BY DEF Stands, Compl!Blockers
  <1> QED
    BY <1>1, <1>2 DEF Fresh, Stands

LEMMA IdleIs == Compl!Idle.at = "idle" /\ DOMAIN Compl!Idle = {"at"}
  BY DEF Compl!Idle

\* One process moves, and the assessments stay.
LEMMA MoveKeeps ==
    ASSUME ComplInv, NEW p \in Procs, NEW c,
           assessor' = [assessor EXCEPT ![p] = c],
           UNCHANGED <<rev, quality, filed, assessments, told, reopened>>,
           c = Compl!Idle \/ (Assessor(c) /\ (c.alone => Fresh(c)))
    PROVE  ComplInv'
  <1>1. Stands
    BY DEF Stands, Compl!Ids
  <1>2. \A d : Fresh(d) => Fresh(d)'
    BY <1>1, FreshStays
  <1>3. AssessorsInv'
    <2>1. DOMAIN assessor' = Procs /\ assessor'[p] = c
            /\ \A q \in Procs \ {p} : assessor'[q] = assessor[q]
      BY DEF ComplInv, AssessorsInv
    <2>2. ASSUME NEW q \in Procs
          PROVE  \/ assessor'[q] = Compl!Idle
                 \/ Assessor(assessor'[q])
                      /\ (assessor'[q].alone => Fresh(assessor[q])')
      <3>1. CASE q = p
        BY <1>2, <2>1, <3>1
      <3>2. CASE q # p
        BY <1>2, <2>1, <3>2 DEF ComplInv, AssessorsInv
      <3> QED
        BY <3>1, <3>2
    <2> QED
      BY <2>1, <2>2 DEF AssessorsInv
  <1>4. StoredInv'
    BY DEF ComplInv, StoredInv, Fits, Compl!Ids, Compl!Blockers,
           Compl!FindingsIn
  <1>5. Compl!AnswersApply' /\ Compl!OneOpenAssessment'
    BY DEF ComplInv, Compl!AnswersApply, Compl!OneOpenAssessment,
           Compl!Newest, Compl!Ids, Compl!OpenIn, Compl!StatusOf
  <1> QED
    BY <1>3, <1>4, <1>5 DEF ComplInv, Compl!Ids

LEMMA ComplInitInv == ASSUME Compl!Init PROVE ComplInv
  <1>1. rev = 0 /\ told = {} /\ assessments = <<>>
    BY DEF Compl!Init
  <1>2. Compl!Ids = {} /\ Len(assessments) = 0
    BY <1>1 DEF Compl!Ids
  <1>3. StoredInv
    BY <1>1, <1>2 DEF StoredInv
  <1>4. AssessorsInv
    BY DEF Compl!Init, AssessorsInv
  <1> QED
    BY <1>1, <1>2, <1>3, <1>4
       DEF ComplInv, Compl!AnswersApply, Compl!OneOpenAssessment

\* Something happens that the assessments under way have not seen.
LEMMA DisturbedKeeps ==
    ASSUME AssessorsInv, Compl!Disturbed PROVE AssessorsInv'
  <1>1. DOMAIN assessor' = Procs
    BY DEF Compl!Disturbed
  <1>2. ASSUME NEW p \in Procs
        PROVE assessor'[p] = Compl!Idle
                \/ (Assessor(assessor'[p]) /\ ~assessor'[p].alone)
    <2>1. CASE assessor[p].at = "idle"
      BY <2>1 DEF Compl!Disturbed
    <2>2. CASE assessor[p].at # "idle"
      <3>1. Assessor(assessor[p])
        BY <2>2, IdleIs DEF AssessorsInv
      <3>2. PICK c : c = [assessor[p] EXCEPT !.alone = FALSE]
        OBVIOUS
      <3>3. Assessor(c) /\ ~c.alone
        BY <3>1, <3>2 DEF Assessor, Fields
      <3> QED
        BY <2>2, <3>2, <3>3 DEF Compl!Disturbed
    <2> QED
      BY <2>1, <2>2
  <1> QED
    BY <1>1, <1>2 DEF AssessorsInv

LEMMA ChangeRecordKeeps ==
    ASSUME ComplInv, NEW r \in {"record"}, Compl!ChangeRecord(r)
    PROVE ComplInv'
  <1>1. /\ UNCHANGED <<filed, assessments, told, reopened>>
        /\ rev' = rev + 1 /\ Compl!Disturbed
    BY DEF Compl!ChangeRecord
  <1>2. AssessorsInv'
    BY <1>1, DisturbedKeeps DEF ComplInv
  <1>3. StoredInv'
    <2>1. ASSUME NEW i \in Compl!Ids, assessments[i].undisturbed
          PROVE  /\ assessments[i].sum.rev \in 0..rev'
                 /\ assessments[i].sum.rev # rev'
      <3>1. Fits(assessments[i]) /\ rev \in Nat
        BY <2>1 DEF ComplInv, StoredInv
      <3>2. assessments[i].sum.rev \in 0..rev
        BY <3>1 DEF Fits
      <3> QED
        BY <1>1, <3>1, <3>2
    <2> QED
      BY <1>1, <2>1 DEF ComplInv, StoredInv, Fits, Compl!Ids
  <1>4. Compl!AnswersApply' /\ Compl!OneOpenAssessment'
    BY <1>1
       DEF ComplInv, Compl!AnswersApply, Compl!OneOpenAssessment,
           Compl!Newest, Compl!Ids, Compl!OpenIn, Compl!StatusOf
  <1> QED
    BY <1>1, <1>2, <1>3, <1>4 DEF ComplInv, Compl!Ids

LEMMA ChangeFileKeeps ==
    ASSUME ComplInv, NEW r \in {"record"}, Compl!ChangeFile(r) PROVE ComplInv'
  <1>1. /\ UNCHANGED <<rev, quality, assessments, told, reopened>>
        /\ Compl!Disturbed
    BY DEF Compl!ChangeFile
  <1>2. AssessorsInv'
    BY <1>1, DisturbedKeeps DEF ComplInv
  <1>3. StoredInv'
    BY <1>1
       DEF ComplInv, StoredInv, Fits, Compl!Ids, Compl!Blockers,
           Compl!FindingsIn
  <1>4. Compl!AnswersApply' /\ Compl!OneOpenAssessment'
    BY <1>1
       DEF ComplInv, Compl!AnswersApply, Compl!OneOpenAssessment,
           Compl!Newest, Compl!Ids, Compl!OpenIn, Compl!StatusOf
  <1> QED
    BY <1>1, <1>2, <1>3, <1>4 DEF ComplInv, Compl!Ids

LEMMA LoadKeeps ==
    ASSUME ComplInv, NEW p \in Procs, NEW period \in {"quarter"},
           Compl!Load(p, period)
    PROVE  ComplInv'
  <1>1. UNCHANGED <<rev, quality, filed, assessments, told, reopened>>
    BY DEF Compl!Load
  <1>2. PICK c : c = [at |-> "report", period |-> period, rev |-> rev,
                      quality |-> quality, blockers |-> {}, sum |-> {},
                      found |-> {}, files |-> {}, id |-> 0,
                      alone |-> \A o \in Procs \ {p} : assessor[o].at = "idle"]
    OBVIOUS
  <1>3. Assessor(c) /\ Fresh(c)
    BY <1>2 DEF Assessor, Fields, Steps, Fresh
  <1>4. Stands
    BY <1>1 DEF Stands, Compl!Ids
  <1>5. Fresh(c)'
    BY <1>3, <1>4, FreshStays
  <1>6. /\ DOMAIN assessor' = Procs /\ assessor'[p] = c
        /\ \A q \in Procs \ {p} :
            assessor'[q] = IF assessor[q].at = "idle" THEN Compl!Idle
                           ELSE [assessor[q] EXCEPT !.alone = FALSE]
    BY <1>2 DEF Compl!Load
  <1>7. ASSUME NEW q \in Procs, q # p
        PROVE  assessor'[q] = Compl!Idle
                 \/ (Assessor(assessor'[q]) /\ ~assessor'[q].alone)
    <2>1. CASE assessor[q].at = "idle"
      BY <1>6, <1>7, <2>1
    <2>2. CASE assessor[q].at # "idle"
      <3>1. Assessor(assessor[q])
        BY <2>2, IdleIs DEF ComplInv, AssessorsInv
      <3>2. PICK d : d = [assessor[q] EXCEPT !.alone = FALSE]
        OBVIOUS
      <3>3. Assessor(d) /\ ~d.alone
        BY <3>1, <3>2 DEF Assessor, Fields
      <3> QED
        BY <1>6, <1>7, <2>2, <3>2, <3>3
    <2> QED
      BY <2>1, <2>2
  <1>8. AssessorsInv'
    BY <1>3, <1>5, <1>6, <1>7 DEF AssessorsInv
  <1>9. StoredInv'
    BY <1>1
       DEF ComplInv, StoredInv, Fits, Compl!Ids, Compl!Blockers,
           Compl!FindingsIn
  <1>10. Compl!AnswersApply' /\ Compl!OneOpenAssessment'
    BY <1>1
       DEF ComplInv, Compl!AnswersApply, Compl!OneOpenAssessment,
           Compl!Newest, Compl!Ids, Compl!OpenIn, Compl!StatusOf
  <1> QED
    BY <1>1, <1>8, <1>9, <1>10 DEF ComplInv, Compl!Ids

\* Who is at one of the steps of an assessment is an assessor.
LEMMA ComplAtWork ==
    ASSUME ComplInv, NEW p \in Procs, assessor[p].at \in Steps
    PROVE  Assessor(assessor[p]) /\ (assessor[p].alone => Fresh(assessor[p]))
  BY IdleIs DEF ComplInv, AssessorsInv, Steps

LEMMA ReportKeeps ==
    ASSUME ComplInv, NEW p \in Procs, Compl!Report(p) PROVE ComplInv'
  <1>1. assessor[p].at = "report" /\ assessor[p].at \in Steps
    BY DEF Compl!Report, Steps
  <1>2. PICK c : c = [assessor[p] EXCEPT !.at = "checksum",
                                     !.blockers = Compl!Blockers(quality)]
    OBVIOUS
  <1>3. /\ c.at = "checksum" /\ c.blockers = Compl!Blockers(quality)
        /\ c.rev = assessor[p].rev /\ c.quality = assessor[p].quality
        /\ c.alone = assessor[p].alone /\ DOMAIN c = Fields
    BY <1>1, <1>2, ComplAtWork DEF Assessor, Fields
  <1>4. Assessor(c) /\ (c.alone => Fresh(c))
    BY <1>1, <1>3, ComplAtWork DEF Assessor, Steps, Fresh
  <1>5. /\ assessor' = [assessor EXCEPT ![p] = c]
        /\ UNCHANGED <<rev, quality, filed, assessments, told, reopened>>
    BY <1>2 DEF Compl!Report, Compl!Read
  <1> QED
    BY <1>4, <1>5, MoveKeeps

LEMMA ChecksumKeeps ==
    ASSUME ComplInv, NEW p \in Procs, Compl!Checksum(p) PROVE ComplInv'
  <1>1. assessor[p].at = "checksum" /\ assessor[p].at \in Steps
    BY DEF Compl!Checksum, Steps
  <1>2. PICK s : s = {Compl!ChecksumOf(assessor[p].rev, assessor[p].blockers, filed)}
    OBVIOUS
  <1>3. PICK c : c = [assessor[p] EXCEPT !.at = "find", !.sum = s]
    OBVIOUS
  <1>4. /\ c.at = "find" /\ c.sum = s /\ c.blockers = assessor[p].blockers
        /\ c.rev = assessor[p].rev /\ c.quality = assessor[p].quality
        /\ c.alone = assessor[p].alone /\ DOMAIN c = Fields
    BY <1>1, <1>3, ComplAtWork DEF Assessor, Fields
  <1>5. assessor[p].alone => Fresh(assessor[p])
    BY <1>1, ComplAtWork
  <1>6. assessor[p].alone => s = {NowSum}
    BY <1>1, <1>2, <1>5 DEF Fresh, NowSum
  <1>7. Assessor(c) /\ (c.alone => Fresh(c))
    BY <1>1, <1>4, <1>5, <1>6, ComplAtWork DEF Assessor, Steps, Fresh
  <1>8. /\ assessor' = [assessor EXCEPT ![p] = c]
        /\ UNCHANGED <<rev, quality, filed, assessments, told, reopened>>
    BY <1>2, <1>3 DEF Compl!Checksum, Compl!Read
  <1> QED
    BY <1>7, <1>8, MoveKeeps

LEMMA FindKeeps ==
    ASSUME ComplInv, NEW p \in Procs, Compl!Find(p) PROVE ComplInv'
  <1>1. assessor[p].at = "find" /\ assessor[p].at \in Steps
    BY DEF Compl!Find, Steps
  <1>2. PICK f : f = Compl!FindingsIn(assessor[p].quality, assessor[p].blockers, filed)
    OBVIOUS
  <1>3. PICK c : c = [assessor[p] EXCEPT !.at = "store", !.files = filed,
                                     !.found = f]
    OBVIOUS
  <1>4. /\ c.at = "store" /\ c.found = f /\ c.blockers = assessor[p].blockers
        /\ c.rev = assessor[p].rev /\ c.quality = assessor[p].quality
        /\ c.sum = assessor[p].sum
        /\ c.alone = assessor[p].alone /\ DOMAIN c = Fields
    BY <1>1, <1>3, ComplAtWork DEF Assessor, Fields
  <1>5. assessor[p].alone => Fresh(assessor[p])
    BY <1>1, ComplAtWork
  <1>6. assessor[p].alone => f = NowFound
    BY <1>1, <1>2, <1>5 DEF Fresh, NowFound
  <1>7. Assessor(c) /\ (c.alone => Fresh(c))
    BY <1>1, <1>4, <1>5, <1>6, ComplAtWork DEF Assessor, Steps, Fresh
  <1>8. /\ assessor' = [assessor EXCEPT ![p] = c]
        /\ UNCHANGED <<rev, quality, filed, assessments, told, reopened>>
    BY <1>2, <1>3 DEF Compl!Find, Compl!Read
  <1> QED
    BY <1>7, <1>8, MoveKeeps

LEMMA ComplCrashKeeps ==
    ASSUME ComplInv, NEW p \in Procs, Compl!Crash(p) PROVE ComplInv'
  BY MoveKeeps DEF Compl!Crash

LEMMA AnswerKeeps ==
    ASSUME ComplInv, NEW p \in Procs, Compl!Answer(p) PROVE ComplInv'
  <1>1. /\ UNCHANGED <<rev, quality, filed, assessments, reopened>>
        /\ assessor' = [assessor EXCEPT ![p] = Compl!Idle]
        /\ assessor[p].at \in {"answer", "audit"}
    BY DEF Compl!Answer
  <1>2. /\ told' = IF ~assessor[p].alone THEN {}
                ELSE {[id |-> assessor[p].id,
                       findings |-> DOMAIN assessments[assessor[p].id].findings,
                       facts |-> NowFound]}
    BY DEF Compl!Answer, NowFound
  <1>3. assessor[p].alone => Fresh(assessor[p])
    BY <1>1, ComplAtWork DEF Steps
  <1>4. ASSUME NEW answer \in told'
        PROVE  /\ answer.id \in Compl!Ids
               /\ assessments[answer.id].undisturbed =>
                        answer.findings = answer.facts
    <2> DEFINE a == assessments[assessor[p].id]
    <2>1. /\ answer.id = assessor[p].id /\ answer.findings = DOMAIN a.findings
          /\ answer.facts = NowFound /\ Fresh(assessor[p])
      BY <1>2, <1>3, <1>4
    <2>2. assessor[p].id \in Compl!Ids /\ a.sum = NowSum
      BY <1>1, <2>1 DEF Fresh
    <2>3. a.sum.rev = rev /\ a.sum.files = filed
      BY <2>2 DEF NowSum, Compl!ChecksumOf
    <2>4. a.undisturbed => DOMAIN a.findings = NowFound
      BY <2>2, <2>3 DEF ComplInv, StoredInv, Fits, NowFound
    <2> QED
      BY <2>1, <2>2, <2>4
  <1>5. AssessorsInv'
    <2>1. Stands
      BY <1>1 DEF Stands, Compl!Ids
    <2>2. \A d : Fresh(d) => Fresh(d)'
      BY <2>1, FreshStays
    <2>3. DOMAIN assessor' = Procs /\ assessor'[p] = Compl!Idle
            /\ \A q \in Procs \ {p} : assessor'[q] = assessor[q]
      BY <1>1 DEF ComplInv, AssessorsInv
    <2> QED
      BY <2>2, <2>3 DEF ComplInv, AssessorsInv
  <1>6. StoredInv'
    BY <1>1
       DEF ComplInv, StoredInv, Fits, Compl!Ids, Compl!Blockers,
           Compl!FindingsIn
  <1>7. Compl!OneOpenAssessment'
    BY <1>1
       DEF ComplInv, Compl!OneOpenAssessment, Compl!Newest, Compl!Ids,
           Compl!OpenIn, Compl!StatusOf
  <1> QED
    BY <1>1, <1>4, <1>5, <1>6, <1>7
       DEF ComplInv, Compl!AnswersApply, Compl!Ids

-----------------------------------------------------------------------------
\* What becomes of an assessment when a newer one of a period is made.
Makes(a, period, b) ==
    /\ DOMAIN b = ComplColumns /\ b.period = a.period /\ b.sum = a.sum
    /\ b.status = a.status /\ b.undisturbed = a.undisturbed
    /\ DOMAIN b.findings = DOMAIN a.findings
    /\ a.period # period => b = a
    /\ a.period = period => Compl!OpenIn(b) = {}

LEMMA SupersededIs ==
    ASSUME NEW a, DOMAIN a = ComplColumns, NEW period
    PROVE  Makes(a, period, Compl!Superseded(a, period))
  <1>a. PICK b : b = Compl!Superseded(a, period)
    OBVIOUS
  <1> SUFFICES Makes(a, period, b)
    BY <1>a
  <1>1. CASE a.period # period
    BY <1>a, <1>1 DEF Compl!Superseded, Makes
  <1>2. CASE a.period = period
    <2>1. PICK fs : fs = [f \in DOMAIN a.findings |->
                IF a.findings[f] \in Compl!OpenStatuses THEN "superseded"
                ELSE a.findings[f]]
      OBVIOUS
    <2>2. b = [a EXCEPT !.findings = fs]
      BY <1>a, <1>2, <2>1 DEF Compl!Superseded
    <2>3. /\ DOMAIN b = ComplColumns /\ b.findings = fs /\ b.period = a.period
          /\ b.sum = a.sum /\ b.status = a.status
          /\ b.undisturbed = a.undisturbed
      BY <2>2 DEF ComplColumns
    <2>4. DOMAIN fs = DOMAIN a.findings
            /\ \A f \in DOMAIN fs : fs[f] \notin Compl!OpenStatuses
      BY <2>1 DEF Compl!OpenStatuses
    <2> QED
      BY <1>2, <2>3, <2>4 DEF Compl!OpenIn, Makes
  <1> QED
    BY <1>1, <1>2


LEMMA StoreSame ==
    ASSUME ComplInv, NEW p \in Procs, assessor[p].at = "store",
           NEW i \in Compl!Ids,
           {assessments[i].sum} = assessor[p].sum,
           assessor' = [assessor EXCEPT ![p].at = "answer", ![p].id = i],
           UNCHANGED <<rev, quality, filed, assessments, told, reopened>>
    PROVE  ComplInv'
  <1>1. Assessor(assessor[p]) /\ (assessor[p].alone => Fresh(assessor[p]))
    BY ComplAtWork DEF Steps
  <1>2. PICK c : c = [assessor[p] EXCEPT !.at = "answer", !.id = i]
    OBVIOUS
  <1>3. /\ c.at = "answer" /\ c.id = i /\ c.alone = assessor[p].alone
        /\ c.rev = assessor[p].rev /\ c.quality = assessor[p].quality
        /\ DOMAIN c = Fields
    BY <1>1, <1>2 DEF Assessor, Fields
  <1>4. assessor[p].alone => assessments[i].sum = NowSum
    <2>1. assessor[p].alone => assessor[p].sum = {NowSum}
      BY <1>1 DEF Fresh
    <2> QED
      BY <2>1
  <1>5. Assessor(c) /\ (c.alone => Fresh(c))
    BY <1>1, <1>3, <1>4 DEF Assessor, Steps, Fresh
  <1>6. assessor' = [assessor EXCEPT ![p] = c]
    BY <1>2 DEF ComplInv, AssessorsInv
  <1> QED
    BY <1>5, <1>6, MoveKeeps

\* The new assessment, and what the earlier ones become.
LEMMA StoreNew ==
    ASSUME ComplInv, NEW p \in Procs, assessor[p].at = "store",
           NEW new,
           new = [period |-> assessor[p].period,
                  sum |-> CHOOSE s \in assessor[p].sum : TRUE,
                  status |-> Compl!StatusOf(assessor[p].found),
                  findings |-> [f \in assessor[p].found |-> "open"],
                  undisturbed |-> assessor[p].alone],
           NEW n \in Nat, n = Len(assessments),
           assessments' = Append([i \in Compl!Ids |->
                    Compl!Superseded(assessments[i], assessor[p].period)],
                    new),
           assessor' = [assessor EXCEPT ![p].at = "audit", ![p].id = n + 1],
           reopened' = {o \in reopened :
                            assessments[o[1]].period # assessor[p].period},
           UNCHANGED <<rev, quality, filed, told>>
    PROVE  ComplInv'
  <1>1. Assessor(assessor[p]) /\ (assessor[p].alone => Fresh(assessor[p]))
    BY ComplAtWork DEF Steps
  <1>2. /\ DOMAIN new = ComplColumns /\ new.period = assessor[p].period
        /\ new.status = Compl!StatusOf(assessor[p].found)
        /\ new.undisturbed = assessor[p].alone
        /\ DOMAIN new.findings = assessor[p].found
        /\ \A f \in assessor[p].found : new.findings[f] = "open"
    BY DEF ComplColumns
  <1>3. assessor[p].alone => new.sum = NowSum
          /\ DOMAIN new.findings = NowFound
    <2>1. assessor[p].alone => assessor[p].sum = {NowSum}
            /\ assessor[p].found = NowFound
      BY <1>1 DEF Fresh
    <2> QED
      BY <1>2, <2>1
  <1>4. Compl!Ids = 1..n
    BY DEF ComplInv, StoredInv
  <1>5. PICK old : old = [i \in 1..n |->
                            Compl!Superseded(assessments[i], assessor[p].period)]
    OBVIOUS
  <1>6. PICK t : t = Append(old, new)
    OBVIOUS
  <1>7. assessments' = t
    BY <1>4, <1>5, <1>6
  <1>8. old = [i \in 1..n |-> old[i]]
    BY <1>5
  <1>9. /\ Len(t) = n + 1 /\ DOMAIN t = 1..(n + 1)
        /\ t = [i \in 1..(n + 1) |-> t[i]]
        /\ t[n + 1] = new /\ \A i \in 1..n : t[i] = old[i]
    BY <1>6, <1>8, AppendIs
  <1>10. Compl!Ids' = 1..(n + 1) /\ Len(assessments)' = n + 1
    BY <1>7, <1>9 DEF Compl!Ids
  <1>11. ASSUME NEW i \in Compl!Ids
         PROVE  /\ DOMAIN t[i] = ComplColumns
                /\ t[i].period = assessments[i].period
                /\ t[i].sum = assessments[i].sum
                /\ t[i].status = assessments[i].status
                /\ t[i].undisturbed = assessments[i].undisturbed
                /\ DOMAIN t[i].findings = DOMAIN assessments[i].findings
                /\ assessments[i].period # assessor[p].period =>
                        t[i] = assessments[i]
                /\ assessments[i].period = assessor[p].period
                     => Compl!OpenIn(t[i]) = {}
    <2>1. t[i] = Compl!Superseded(assessments[i], assessor[p].period)
      BY <1>4, <1>5, <1>9
    <2>2. DOMAIN assessments[i] = ComplColumns
      BY DEF ComplInv, StoredInv
    <2>3. PICK a : a = assessments[i]
      OBVIOUS
    <2>4. PICK q : q = assessor[p].period
      OBVIOUS
    <2>5. PICK b : b = t[i]
      OBVIOUS
    <2>6. /\ DOMAIN b = ComplColumns /\ b.period = a.period /\ b.sum = a.sum
          /\ b.status = a.status /\ b.undisturbed = a.undisturbed
          /\ DOMAIN b.findings = DOMAIN a.findings
          /\ a.period # q => b = a
          /\ a.period = q => Compl!OpenIn(b) = {}
      <3>1. b = Compl!Superseded(a, q) /\ DOMAIN a = ComplColumns
        BY <2>1, <2>2, <2>3, <2>4, <2>5
      <3>2. Makes(a, q, b)
        BY <3>1, SupersededIs
      <3> QED
        BY <3>2 DEF Makes
    <2> QED
      BY <2>3, <2>4, <2>5, <2>6
  <1>12. Stands
    BY <1>4, <1>7, <1>10, <1>11 DEF Stands
  <1>13. AssessorsInv'
    <2>1. PICK c : c = [assessor[p] EXCEPT !.at = "audit", !.id = n + 1]
      OBVIOUS
    <2>2. /\ c.at = "audit" /\ c.id = n + 1 /\ c.alone = assessor[p].alone
          /\ c.rev = assessor[p].rev /\ c.quality = assessor[p].quality
          /\ DOMAIN c = Fields
      BY <1>1, <2>1 DEF Assessor, Fields
    <2>3. assessor' = [assessor EXCEPT ![p] = c]
      BY <2>1 DEF ComplInv, AssessorsInv
    <2>4. NowSum' = NowSum
      BY DEF NowSum, Compl!ChecksumOf, Compl!Blockers
    <2>5. Assessor(c) /\ (c.alone => Fresh(c)')
      BY <1>1, <1>3, <1>7, <1>9, <1>10, <2>2, <2>4 DEF Assessor, Steps, Fresh
    <2>6. DOMAIN assessor' = Procs /\ assessor'[p] = c
            /\ \A q \in Procs \ {p} : assessor'[q] = assessor[q]
      BY <2>3 DEF ComplInv, AssessorsInv
    <2>7. \A d : Fresh(d) => Fresh(d)'
      BY <1>12, FreshStays
    <2> QED
      BY <2>5, <2>6, <2>7 DEF ComplInv, AssessorsInv
  <1>14. StoredInv'
    <2>1. \A a : Fits(a) => Fits(a)'
      BY DEF Fits, Compl!Blockers, Compl!FindingsIn
    <2>2. ASSUME NEW i \in 1..(n + 1)
          PROVE  /\ DOMAIN t[i] = ComplColumns /\ t[i].undisturbed \in BOOLEAN
                 /\ t[i].undisturbed => Fits(t[i])
      <3>1. CASE i \in Compl!Ids
        BY <1>11, <3>1 DEF ComplInv, StoredInv, Fits
      <3>2. CASE i = n + 1
        <4>1. t[i] = new
          BY <1>9, <3>2
        <4>2. new.undisturbed => Fits(new)
          <5> SUFFICES ASSUME new.undisturbed PROVE Fits(new)
            OBVIOUS
          <5>1. new.sum = NowSum /\ DOMAIN new.findings = NowFound
            BY <1>2, <1>3
          <5>2. new.sum.rev = rev /\ new.sum.files = filed
            <6>1. NowSum.rev = rev /\ NowSum.files = filed
              BY DEF NowSum, Compl!ChecksumOf
            <6> QED
              BY <5>1, <6>1
          <5> QED
            BY <5>1, <5>2 DEF ComplInv, Fits, NowFound
        <4> QED
          BY <1>1, <1>2, <4>1, <4>2 DEF Assessor
      <3> QED
        BY <1>4, <3>1, <3>2
    <2>3. ASSUME NEW i \in Compl!Ids'
          PROVE  /\ DOMAIN assessments'[i] = ComplColumns
                 /\ assessments'[i].undisturbed \in BOOLEAN
                 /\ assessments'[i].undisturbed => Fits(t[i])'
      BY <1>7, <1>10, <2>1, <2>2
    <2>4. \A i : Fits(t[i])' <=> Fits(assessments[i])'
      BY <1>7 DEF Fits
    <2> QED
      <3>1. Len(assessments)' \in Nat /\ Compl!Ids' = 1..Len(assessments)'
        BY <1>10
      <3>2. assessments' = [i \in Compl!Ids' |-> assessments'[i]]
        BY <1>7, <1>9, <1>10
      <3>3. ASSUME NEW i \in Compl!Ids'
            PROVE  assessments'[i].undisturbed => Fits(assessments[i])'
        BY <2>3, <2>4, <3>3
      <3> QED
        BY <2>3, <3>1, <3>2, <3>3 DEF StoredInv
  <1>15. Compl!AnswersApply' /\ \A answer \in told' : answer.id \in Compl!Ids'
    BY <1>4, <1>7, <1>10, <1>11 DEF ComplInv, Compl!AnswersApply
  <1>16. Compl!OneOpenAssessment'
    <2> SUFFICES ASSUME NEW i \in 1..(n + 1)
                 PROVE  IF i \in Compl!Newest(t[i].period)'
                        THEN t[i].status = Compl!StatusOf(Compl!OpenIn(t[i]))
                        ELSE \A f \in Compl!OpenIn(t[i]) : <<i,
                        f>> \in reopened'
      BY <1>7, <1>10 DEF Compl!OneOpenAssessment, Compl!StatusOf, Compl!OpenIn
    <2>a. \A q, j : j \in Compl!Newest(q)' <=>
                /\ j \in 1..(n + 1) /\ t[j].period = q
                /\ \A k \in 1..(n + 1) : t[k].period = q => k <= j
      BY <1>7, <1>10 DEF Compl!Newest
    <2>b. \A q, j : j \in Compl!Newest(q) <=>
                /\ j \in 1..n /\ assessments[j].period = q
                /\ \A k \in 1..n : assessments[k].period = q => k <= j
      BY <1>4 DEF Compl!Newest
    <2>c. /\ t[n + 1].period = assessor[p].period
          /\ \A k \in 1..n : t[k].period = assessments[k].period
      BY <1>2, <1>4, <1>9, <1>11
    <2>1. CASE i = n + 1
      <3>1. t[i] = new
        BY <1>9, <2>1
      <3>2. Compl!OpenIn(new) = assessor[p].found
        BY <1>2 DEF Compl!OpenIn, Compl!OpenStatuses
      <3>3. i \in Compl!Newest(t[i].period)'
        BY <2>1, <2>a
      <3> QED
        BY <1>2, <3>1, <3>2, <3>3
    <2>2. CASE i \in Compl!Ids /\ assessments[i].period = assessor[p].period
      <3>1. i \notin Compl!Newest(t[i].period)'
        <4>1. t[i].period = t[n + 1].period /\ i \in 1..n
          BY <1>4, <2>2, <2>c
        <4> QED
          BY <4>1, <2>a
      <3>2. Compl!OpenIn(t[i]) = {}
        BY <1>11, <2>2
      <3> QED
        BY <3>1, <3>2
    <2>3. CASE i \in Compl!Ids /\ assessments[i].period # assessor[p].period
      <3>1. t[i] = assessments[i]
        BY <1>11, <2>3
      <3>2. i \in Compl!Newest(t[i].period)'
                <=> i \in Compl!Newest(assessments[i].period)
        <4>1. PICK q : q = assessments[i].period
          OBVIOUS
        <4>2. t[i].period = q /\ t[n + 1].period # q /\ i \in 1..n
          BY <1>4, <2>3, <2>c, <4>1
        <4>3. ASSUME NEW k \in 1..(n + 1), t[k].period = q
              PROVE  k \in 1..n /\ assessments[k].period = q
          <5>1. k # n + 1
            BY <4>2, <4>3
          <5>2. k \in 1..n
            BY <5>1
          <5> QED
            BY <2>c, <4>3, <5>2
        <4>4. ASSUME NEW k \in 1..n, assessments[k].period = q
              PROVE  k \in 1..(n + 1) /\ t[k].period = q
          BY <2>c, <4>4
        <4>5. ASSUME i \in Compl!Newest(q)' PROVE i \in Compl!Newest(q)
          <5>1. \A k \in 1..(n + 1) : t[k].period = q => k <= i
            BY <2>a, <4>5
          <5>2. \A k \in 1..n : assessments[k].period = q => k <= i
            BY <4>4, <5>1
          <5> QED
            BY <2>b, <4>1, <4>2, <5>2
        <4>6. ASSUME i \in Compl!Newest(q) PROVE i \in Compl!Newest(q)'
          <5>1. \A k \in 1..n : assessments[k].period = q => k <= i
            BY <2>b, <4>6
          <5>2. \A k \in 1..(n + 1) : t[k].period = q => k <= i
            BY <4>3, <5>1
          <5> QED
            BY <2>a, <4>2, <5>2
        <4> QED
          BY <4>1, <4>2, <4>5, <4>6
      <3>3. IF i \in Compl!Newest(assessments[i].period)
            THEN assessments[i].status = Compl!StatusOf(Compl!OpenIn(assessments[i]))
            ELSE \A f \in Compl!OpenIn(assessments[i]) : <<i, f>> \in reopened
        BY <2>3 DEF ComplInv, Compl!OneOpenAssessment
      <3>4. \A f : <<i, f>> \in reopened => <<i, f>> \in reopened'
        BY <2>3
      <3> QED
        BY <3>1, <3>2, <3>3, <3>4
    <2> QED
      BY <1>4, <2>1, <2>2, <2>3
  <1> QED
    BY <1>13, <1>14, <1>15, <1>16 DEF ComplInv

LEMMA ComplStoreKeeps ==
    ASSUME ComplInv, NEW p \in Procs, Compl!Store(p) PROVE ComplInv'
  <1> DEFINE same == {i \in Compl!Ids : /\ assessments[i].period = assessor[p].period
                                        /\ {assessments[i].sum} = assessor[p].sum}
             new == [period |-> assessor[p].period,
                     sum |-> CHOOSE s \in assessor[p].sum : TRUE,
                     status |-> Compl!StatusOf(assessor[p].found),
                     findings |-> [f \in assessor[p].found |-> "open"],
                     undisturbed |-> assessor[p].alone]
  <1>1. assessor[p].at = "store" /\ UNCHANGED <<rev, quality, filed, told>>
    BY DEF Compl!Store
  <1>2. \/ /\ \E i \in same :
                assessor' = [assessor EXCEPT ![p].at = "answer", ![p].id = i]
           /\ UNCHANGED <<assessments, reopened>>
        \/ /\ assessments' = Append([i \in Compl!Ids |->
                    Compl!Superseded(assessments[i], assessor[p].period)],
                    new)
           /\ assessor' = [assessor EXCEPT ![p].at = "audit",
                                   ![p].id = Len(assessments) + 1]
           /\ reopened' = {o \in reopened :
                            assessments[o[1]].period # assessor[p].period}
    BY DEF Compl!Store
  <1>3. CASE /\ \E i \in same :
                  assessor' = [assessor EXCEPT ![p].at = "answer", ![p].id = i]
             /\ UNCHANGED <<assessments, reopened>>
    BY <1>1, <1>3, StoreSame
  <1>4. CASE /\ assessments' = Append([i \in Compl!Ids |->
                    Compl!Superseded(assessments[i], assessor[p].period)],
                    new)
             /\ assessor' = [assessor EXCEPT ![p].at = "audit",
                                     ![p].id = Len(assessments) + 1]
             /\ reopened' = {o \in reopened :
                              assessments[o[1]].period # assessor[p].period}
    <2>1. PICK n \in Nat : n = Len(assessments)
      BY DEF ComplInv, StoredInv
    <2>2. PICK a : a = new
      OBVIOUS
    <2> QED
      BY <1>1, <1>4, <2>1, <2>2, StoreNew
  <1> QED
    BY <1>2, <1>3, <1>4

LEMMA DecideKeeps ==
    ASSUME ComplInv, NEW i \in Compl!Ids, NEW f \in Compl!Findings,
           NEW status,
           Compl!Decide(i, f, status)
    PROVE  ComplInv'
  <1>1. /\ UNCHANGED <<rev, quality, filed, assessor, told>>
        /\ f \in DOMAIN assessments[i].findings
    BY DEF Compl!Decide
  <1>2. DOMAIN assessments[i] = ComplColumns
    BY DEF ComplInv, StoredInv
  <1>3. PICK fs : fs = [assessments[i].findings EXCEPT ![f] = status]
    OBVIOUS
  <1>4. /\ DOMAIN fs = DOMAIN assessments[i].findings /\ fs[f] = status
        /\ \A g \in DOMAIN fs \ {f} : fs[g] = assessments[i].findings[g]
    BY <1>1, <1>3
  <1>5. PICK b : b = [assessments[i] EXCEPT !.findings = fs]
    OBVIOUS
  <1>6. PICK after : after = Compl!StatusOf(Compl!OpenIn(b))
    OBVIOUS
  <1>7. PICK c : c = [b EXCEPT !.status = after]
    OBVIOUS
  <1>8. /\ DOMAIN b = ComplColumns /\ b.findings = fs
        /\ b.period = assessments[i].period /\ b.sum = assessments[i].sum
        /\ b.undisturbed = assessments[i].undisturbed
    BY <1>2, <1>5 DEF ComplColumns
  <1>9. /\ DOMAIN c = ComplColumns /\ c.findings = fs /\ c.status = after
        /\ c.period = assessments[i].period /\ c.sum = assessments[i].sum
        /\ c.undisturbed = assessments[i].undisturbed
    BY <1>7, <1>8 DEF ComplColumns
  <1>10. Compl!OpenIn(c) = Compl!OpenIn(b)
    BY <1>8, <1>9 DEF Compl!OpenIn
  <1>11. assessments' = [assessments EXCEPT ![i] = c]
    <2>1. b = [assessments[i] EXCEPT !.findings[f] = status]
      BY <1>3, <1>5
    <2> QED
      BY <1>6, <1>7, <2>1 DEF Compl!Decide
  <1>12. reopened' = IF assessments[i].findings[f] \in Compl!OpenStatuses
                     THEN reopened ELSE reopened \cup {<<i, f>>}
    BY DEF Compl!Decide
  <1>13. PICK n \in Nat : n = Len(assessments) /\ Compl!Ids = 1..n
    BY DEF ComplInv, StoredInv
  <1>14. /\ assessments' = [j \in 1..n |-> assessments'[j]]
         /\ Compl!Ids' = 1..n /\ assessments'[i] = c
         /\ \A j \in 1..n : j # i => assessments'[j] = assessments[j]
    BY <1>11, <1>13 DEF ComplInv, StoredInv, Compl!Ids
  <1>15. PICK t : t = assessments'
    OBVIOUS
  <1>16. Len(assessments') = n
    <2>1. t = [j \in 1..n |-> t[j]]
      BY <1>14, <1>15
    <2>2. Len(t) = n
      BY <2>1, SequenceIs
    <2> QED
      BY <1>15, <2>2
  <1>17. Stands
    BY <1>1, <1>9, <1>13, <1>14 DEF Stands
  <1>18. AssessorsInv'
    <2>1. \A d : Fresh(d) => Fresh(d)'
      BY <1>17, FreshStays
    <2> QED
      BY <1>1, <2>1 DEF ComplInv, AssessorsInv
  <1>19. StoredInv'
    <2>1. ASSUME NEW j \in Compl!Ids'
          PROVE  /\ DOMAIN assessments'[j] = ComplColumns
                 /\ assessments'[j].undisturbed \in BOOLEAN
                 /\ assessments'[j].undisturbed => Fits(assessments[j])'
      <3>1. /\ DOMAIN assessments'[j].findings = DOMAIN assessments[j].findings
            /\ assessments'[j].sum = assessments[j].sum
            /\ assessments'[j].undisturbed = assessments[j].undisturbed
            /\ DOMAIN assessments'[j] = ComplColumns /\ j \in Compl!Ids
        BY <1>4, <1>9, <1>13, <1>14 DEF ComplInv, StoredInv
      <3>2. assessments[j].undisturbed \in BOOLEAN
              /\ (assessments[j].undisturbed => Fits(assessments[j]))
        BY <3>1 DEF ComplInv, StoredInv
      <3>3. Fits(assessments[j]) => Fits(assessments[j])'
        BY <1>1, <3>1 DEF Fits, Compl!Blockers, Compl!FindingsIn
      <3> QED
        BY <3>1, <3>2, <3>3
    <2> QED
      BY <1>13, <1>14, <1>16, <2>1 DEF StoredInv
  <1>20. Compl!AnswersApply' /\ \A answer \in told' : answer.id \in Compl!Ids'
    BY <1>1, <1>9, <1>13, <1>14 DEF ComplInv, Compl!AnswersApply
  <1>21. Compl!OneOpenAssessment'
    <2>1. \A q : Compl!Newest(q)' = Compl!Newest(q)
      <3>1. \A j \in Compl!Ids : assessments'[j].period = assessments[j].period
        BY <1>9, <1>13, <1>14
      <3>2. Compl!Ids' = Compl!Ids
        BY <1>13, <1>14
      <3> QED
        BY <3>1, <3>2 DEF Compl!Newest
    <2> SUFFICES ASSUME NEW j \in 1..n
                 PROVE  IF j \in Compl!Newest(t[j].period)
                        THEN t[j].status = Compl!StatusOf(Compl!OpenIn(t[j]))
                        ELSE \A g \in Compl!OpenIn(t[j]) : <<j,
                        g>> \in reopened'
      BY <1>14, <1>15, <2>1
         DEF Compl!OneOpenAssessment, Compl!StatusOf, Compl!OpenIn
    <2>2. IF j \in Compl!Newest(assessments[j].period)
          THEN assessments[j].status = Compl!StatusOf(Compl!OpenIn(assessments[j]))
          ELSE \A g \in Compl!OpenIn(assessments[j]) : <<j, g>> \in reopened
      BY <1>13 DEF ComplInv, Compl!OneOpenAssessment
    <2>3. \A o \in reopened : o \in reopened'
      BY <1>12
    <2>4. CASE j # i
      BY <1>14, <1>15, <2>2, <2>3, <2>4
    <2>5. CASE j = i
      <3>1. t[j] = c
        BY <1>14, <1>15, <2>5
      <3>2. ASSUME NEW g \in Compl!OpenIn(c), j \notin Compl!Newest(c.period)
            PROVE  <<j, g>> \in reopened'
        <4>1. g \in DOMAIN fs /\ fs[g] \in Compl!OpenStatuses
          BY <1>9, <3>2 DEF Compl!OpenIn
        <4>2. CASE assessments[i].findings[g] \in Compl!OpenStatuses
          <5>1. g \in Compl!OpenIn(assessments[i])
            BY <1>4, <4>1, <4>2 DEF Compl!OpenIn
          <5> QED
            BY <1>9, <2>2, <2>3, <2>5, <3>2, <5>1
        <4>3. CASE assessments[i].findings[g] \notin Compl!OpenStatuses
          BY <1>4, <1>12, <2>5, <4>1, <4>3
        <4> QED
          BY <4>2, <4>3
      <3> QED
        BY <1>6, <1>9, <1>10, <3>1, <3>2
    <2> QED
      BY <2>4, <2>5
  <1> QED
    BY <1>1, <1>18, <1>19, <1>20, <1>21 DEF ComplInv

LEMMA ComplNextInv == ASSUME ComplInv, Compl!Next PROVE ComplInv'
  BY ChangeRecordKeeps, ChangeFileKeeps, LoadKeeps, ReportKeeps,
     ChecksumKeeps, FindKeeps, ComplStoreKeeps, AnswerKeeps, ComplCrashKeeps,
     DecideKeeps
     DEF Compl!Next

LEMMA ComplStutter == ASSUME ComplInv, UNCHANGED Compl!vars PROVE ComplInv'
  <1>1. UNCHANGED <<rev, quality, filed, assessments, assessor, told,
        reopened>>
    BY DEF Compl!vars
  <1>2. \A d : Fresh(d) => Fresh(d)'
    BY <1>1, FreshStays DEF Stands, Compl!Ids
  <1>3. AssessorsInv'
    BY <1>1, <1>2 DEF ComplInv, AssessorsInv
  <1>4. StoredInv'
    BY <1>1
       DEF ComplInv, StoredInv, Fits, Compl!Ids, Compl!Blockers,
           Compl!FindingsIn
  <1>5. Compl!AnswersApply' /\ Compl!OneOpenAssessment'
    BY <1>1
       DEF ComplInv, Compl!AnswersApply, Compl!OneOpenAssessment,
           Compl!Newest, Compl!Ids, Compl!OpenIn, Compl!StatusOf
  <1> QED
    BY <1>1, <1>3, <1>4, <1>5 DEF ComplInv, Compl!Ids

LEMMA ComplHolds == ASSUME ComplInv
    PROVE Compl!AnswersApply /\ Compl!OneOpenAssessment
  BY DEF ComplInv

-----------------------------------------------------------------------------
ServicesInv ==
    /\ HaiProof!Inv /\ ReceiptInv /\ BackupInv
    /\ MirrorInv /\ SlotsInv /\ InboxInv /\ ComplInv
    /\ focus = "schema" => SchemaInv

\* The assumptions of the proofs: what a request, a command, a session or a
\* thread is called is not what FAB writes when there is none.
Named ==
    /\ HaiProof!Names
    /\ "none" \notin Sessions
    /\ ThreadNames /\ MirrorBounds

LEMMA ServicesInitInv == ASSUME Named, Init PROVE ServicesInv
  <1>1. HaiProof!Inv
    BY HaiInit, HaiProof!InitInv DEF Init
  <1>2. ReceiptInv
    BY ReceiptInitInv DEF Init
  <1>3. BackupInv
    BY BackupInitInv DEF Init, Named
  <1>4. focus = "schema" => SchemaInv
    BY FoundSound, SchemaInitInv DEF Init, Schema!Init
  <1>5. MirrorInv
    BY MirrorInitInv DEF Init, Named
  <1>6. SlotsInv
    <2>1. 1 \in Reports!Slots
      BY DEF Reports!Slots
    <2> QED
      BY <2>1, SlotsInitInv DEF Init
  <1>7. InboxInv
    BY InboxInitInv DEF Init
  <1>8. ComplInv
    BY ComplInitInv DEF Init
  <1> QED
    BY <1>1, <1>2, <1>3, <1>4, <1>5, <1>6, <1>7, <1>8 DEF ServicesInv

LEMMA ServicesNextInv ==
    ASSUME Named, ServicesInv, [Next]_vars
    PROVE  ServicesInv'
  <1>1. HaiProof!Inv'
    <2>1. HaiProof!Next \/ UNCHANGED HaiProof!vars
      BY OneFocus, HaiNext DEF haiVars, HaiProof!vars
    <2> QED
      BY <2>1, HaiProof!StepInv DEF Named, ServicesInv
  <1>2. ReceiptInv'
    <2>1. Receipts!Next \/ UNCHANGED Receipts!vars
      BY OneFocus DEF receiptVars, Receipts!vars
    <2> QED
      BY <2>1, ReceiptStepInv DEF Named, ServicesInv
  <1>3. BackupInv'
    <2>1. Backup!Next \/ UNCHANGED Backup!vars
      BY OneFocus DEF backupVars, Backup!vars
    <2> QED
      BY <2>1, BackupStepInv DEF Named, ServicesInv
  <1>4. focus' = "schema" => SchemaInv'
    <2> SUFFICES ASSUME focus = "schema" PROVE SchemaInv'
      BY OneFocus
    <2>1. SchemaInv
      BY DEF ServicesInv
    <2>2. Schema!Next \/ UNCHANGED schemaVars
      BY OneFocus
    <2> QED
      BY <2>1, <2>2, SchemaNextInv, SchemaStutters
  <1>5. MirrorInv'
    BY OneFocus, MirrorNextInv, MirrorStutters DEF Named, ServicesInv
  <1>6. SlotsInv'
    <2>1. SlotsInv /\ (Reports!Next \/ UNCHANGED reportVars)
      BY OneFocus DEF ServicesInv
    <2>2. ASSUME UNCHANGED reportVars PROVE SlotsInv'
      <3>1. UNCHANGED <<run, files, reportProc, kept, slot>>
        BY <2>2 DEF reportVars
      <3>2. slot' \in Reports!Slots
        BY <2>1, <3>1 DEF SlotsInv, SlotTypes
      <3> QED
        BY <2>1, <3>1, <3>2, SlotsStutter
    <2> QED
      BY <2>1, <2>2, SlotsNextInv
  <1>7. InboxInv'
    <2>1. InboxInv /\ (Inbox!Next \/ UNCHANGED Inbox!vars)
      BY OneFocus DEF ServicesInv, inboxVars, Inbox!vars
    <2> QED
      BY <2>1, WatchedSeverity, InboxNextInv, InboxStutter
  <1>8. ComplInv'
    <2>1. ComplInv /\ (Compl!Next \/ UNCHANGED Compl!vars)
      BY OneFocus DEF ServicesInv, complVars, Compl!vars
    <2> QED
      BY <2>1, ComplNextInv, ComplStutter
  <1> QED
    BY <1>1, <1>2, <1>3, <1>4, <1>5, <1>6, <1>7, <1>8 DEF ServicesInv

LEMMA ServicesInvariance == ASSUME Named PROVE Spec => []ServicesInv
  <1>1. Init => ServicesInv
    BY ServicesInitInv
  <1>2. ServicesInv /\ [Next]_vars => ServicesInv'
    BY ServicesNextInv
  <1> QED
    BY <1>1, <1>2, PTL DEF Spec

-----------------------------------------------------------------------------
\* The answers that callers of the HAI connector are given tell one story.
\* (HaiConnectorService.execute)
THEOREM ServicesAnswer == ASSUME Named PROVE Spec => []AnswersAgree
  <1>1. ServicesInv => AnswersAgree
    <2> SUFFICES ASSUME ServicesInv PROVE Hai!AnswersAgree
      BY DEF AnswersAgree
    <2>1. HaiProof!AnswersAgree
      BY HaiProof!AgreeInv DEF Named, ServicesInv
    <2> QED
      BY <2>1 DEF Hai!AnswersAgree, HaiProof!AnswersAgree, Hai!None,
                  HaiProof!None
  <1> QED
    BY <1>1, ServicesInvariance, PTL

\* Two browsers never work on one document.
\* (LocalWaveReceiptExecutorService)
THEOREM ServicesExclude == ASSUME Named PROVE Spec => []ExclusiveOrder
  <1>1. ServicesInv => ExclusiveOrder
    BY ReceiptsExclude DEF ServicesInv, ExclusiveOrder
  <1> QED
    BY <1>1, ServicesInvariance, PTL

\* A restore is all or nothing, and what it replaced is in a package.
\* (LocalBackupService.restore_backup)
THEOREM ServicesRestore ==
    ASSUME Named PROVE Spec => []RestoreAllOrNothing
  <1>1. ServicesInv => RestoreAllOrNothing
    BY RestoresWhole DEF ServicesInv, RestoreAllOrNothing
  <1> QED
    BY <1>1, ServicesInvariance, PTL

\* A ledger is upgraded after its backup, as a whole, and what a process that
\* died has left half upgraded is upgraded further; for any processes and
\* columns.  (LocalOperationsLedger, _prepare_schema_migration_backup,
\* _init_schema)
THEOREM ServicesUpgrade == ASSUME Named PROVE Spec => []SchemaUpgraded
  <1>1. ServicesInv => SchemaUpgraded
    BY UpgradedInv DEF ServicesInv, SchemaUpgraded
  <1> QED
    BY <1>1, ServicesInvariance, PTL

\* What stays in Wave while a sync runs is not reported as gone, and what is
\* not there is; for any page size, pages that shift, faults and deaths.
\* (WaveappsEntitySyncService.sync, mark_wave_entities_missing)
THEOREM ServicesMirror == ASSUME Named PROVE Spec => []MissingIsGone
  <1>1. Named /\ ServicesInv => MissingIsGone
    BY GoneMissing DEF Named, ServicesInv, MissingIsGone
  <1> QED
    BY <1>1, ServicesInvariance, PTL

\* One process makes the report of a slot, and a prepared one has its files;
\* the inbox has what is wrong, and what was acknowledged stays so; and an
\* assessment is answered with the findings that its facts give rise to, with
\* nothing open but in the newest of a period; for any processes and formats.
\* (claim_financial_report_slot, LocalNotificationService.refresh,
\* LocalComplianceService.assess, create_compliance_assessment)
THEOREM ServicesTell == ASSUME Named PROVE Spec => []OperatorTold
  <1>1. ServicesInv => OperatorTold
    BY SlotsWhole, InboxHolds, ComplHolds DEF ServicesInv, OperatorTold
  <1> QED
    BY <1>1, ServicesInvariance, PTL

\* Restored source evidence that was changed since is never overwritten.
\* (LocalBackupService, extraction into the restore directory)
THEOREM ServicesEvidence ==
    ASSUME Named PROVE Spec => EvidenceNotOverwritten
  <1>1. ServicesInv /\ [Next]_vars =>
            [\A p \in Backup!Ids :
                trees[p] = "damaged" => trees'[p] = "damaged"]_trees
    <2> SUFFICES ASSUME ServicesInv, [Next]_vars, NEW p \in Backup!Ids,
                        trees[p] = "damaged"
                 PROVE  trees'[p] = "damaged"
      OBVIOUS
    <2>1. Backup!Next \/ UNCHANGED Backup!vars
      BY OneFocus DEF backupVars, Backup!vars
    <2> QED
      BY <2>1, EvidenceStep DEF ServicesInv
  <1> QED
    BY <1>1, ServicesInvariance, PTL
       DEF Spec, EvidenceNotOverwritten, Backup!EvidenceNotOverwritten

LEMMA JournalInit == ASSUME Hai!Init PROVE Hai!Journal!Init
  BY DEF Hai!Init, Hai!Phase, Hai!Journal!Init, Hai!Journal!NoContract,
         Hai!None

LEMMA JournalNext ==
    ASSUME Named, ServicesInv, ServicesInv', [Next]_vars
    PROVE  [Hai!Journal!Next]_(Hai!Journal!jvars)
  <1>1. HaiProof!Next \/ UNCHANGED HaiProof!vars
    BY OneFocus, HaiNext DEF haiVars, HaiProof!vars
  <1>2. HaiProof!Journal!Next \/ UNCHANGED HaiProof!Journal!jvars
    BY <1>1, HaiProof!JournalStep DEF Named, ServicesInv
  <1>3. ASSUME HaiProof!Journal!Next PROVE Hai!Journal!Next
    BY <1>3, Zenon
       DEF Hai!Phase, HaiProof!Phase, Hai!None, HaiProof!None, Hai!Stored,
           HaiProof!Stored, Hai!Entries, HaiProof!Entries, Hai!Journal!Next,
           HaiProof!Journal!Next, Hai!Journal!Bind, HaiProof!Journal!Bind,
           Hai!Journal!Start, HaiProof!Journal!Start, Hai!Journal!Settle,
           HaiProof!Journal!Settle, Hai!Journal!Answer,
           HaiProof!Journal!Answer, Hai!Journal!Justified,
           HaiProof!Journal!Justified, Hai!Journal!Statuses,
           HaiProof!Journal!Statuses, Hai!Journal!Neutral,
           HaiProof!Journal!Neutral
  <1>4. UNCHANGED HaiProof!Journal!jvars => UNCHANGED Hai!Journal!jvars
    BY DEF Hai!Journal!jvars, HaiProof!Journal!jvars, Hai!Phase,
           HaiProof!Phase, Hai!None, HaiProof!None
  <1> QED
    BY <1>2, <1>3, <1>4

\* A command runs at most once under its request id, which is bound to one
\* contract and has at most one outcome: every step of the services is one of
\* the journal's, or none.  (HaiConnectorService.execute)
THEOREM ServicesJournal == ASSUME Named PROVE Spec => OneExecutionPerRequest
  <1>1. Init => Hai!Journal!Init
    BY JournalInit DEF Init
  <1>2. ServicesInv /\ ServicesInv' /\ [Next]_vars
            => [Hai!Journal!Next]_(Hai!Journal!jvars)
    BY JournalNext
  <1> QED
    BY <1>1, <1>2, ServicesInvariance, PTL
       DEF Spec, OneExecutionPerRequest, Hai!OneExecutionPerRequest,
           Hai!Journal!Spec
=============================================================================
