------------------------------ MODULE WaveMirror -----------------------------
(***************************************************************************)
(* The mirror of a Wave account's entities in the ledger:                  *)
(* WaveappsEntitySyncService.sync over the wave_entities and               *)
(* wave_sync_runs tables.                                                  *)
(*                                                                         *)
(* A process is the worker, whose cycle refreshes the mirror when it is    *)
(* due, or an API thread that was asked to.  Nothing keeps two of them     *)
(* from syncing at the same time.  An action is one request to Wave or one *)
(* ledger transaction.  Wave's users add and remove entities meanwhile,    *)
(* and Wave answers by page number.  Entities of one type and one target   *)
(* system are modelled; the types of a run follow each other and share     *)
(* nothing but the run.                                                    *)
(***************************************************************************)
EXTENDS Integers, FiniteSets, Sequences, SequencesExt

CONSTANTS
    Procs,
    Entities,
    PageSize,
    MaxPages,       \* max_pages of the request
    MaxRuns,        \* bound: wave_sync_runs rows
    MaxEdits,       \* bound: entities added or removed in Wave
    MaxFaults,      \* bound: requests that fail or find the quota used up
    MaxCrashes      \* bound: processes that die

VARIABLES
    shelf,      \* the entities in Wave, in the order in which it lists them
    mirror,     \* wave_entities: presence_status and last_sync_run_id
    syncRun,    \* wave_sync_runs: the status of each row
    proc,       \* what each process is doing
    edits, faults, crashes,
    \* Observations of each process's sync
    always,     \* entities that have been in Wave since it began
    never,      \* entities that have not been in Wave since it began
    since,      \* what happened in Wave since its last page: "add", "remove"
    disturbed   \* another sync ran, or an addition made up for a removal
                \* between two of its pages

observed == <<always, never, since, disturbed>>
vars == <<shelf, mirror, syncRun, proc, edits, faults, crashes, observed>>

Runs == 1..MaxRuns
NoRun == 0
NoTotal == -1

Started == Cardinality({r \in Runs : syncRun[r] # "none"})

Idle == [at |-> "idle", run |-> NoRun, page |-> 1, total |-> NoTotal,
         seen |-> {}, left |-> <<>>, last |-> FALSE]

TypeOK ==
    /\ shelf \in SeqOf(Entities, Cardinality(Entities)) /\ IsInjective(shelf)
    /\ mirror \in [Entities -> [presence : {"none", "present",
                                            "missing_downstream"},
                                run : Runs \cup {NoRun}]]
    /\ syncRun \in [Runs -> {"none", "running", "completed", "failed"}]
    /\ \A p \in Procs :
        /\ proc[p].at \in {"idle", "fetch", "store", "mark", "fail",
                           "finish", "dead"}
        /\ proc[p].run \in Runs \cup {NoRun}
        /\ proc[p].seen \subseteq Entities

Init ==
    /\ shelf = SetToSeq(Entities)
    /\ mirror = [e \in Entities |-> [presence |-> "none", run |-> NoRun]]
    /\ syncRun = [r \in Runs |-> "none"]
    /\ proc = [p \in Procs |-> Idle]
    /\ edits = 0 /\ faults = 0 /\ crashes = 0
    /\ always = [p \in Procs |-> {}]
    /\ never = [p \in Procs |-> {}]
    /\ since = [p \in Procs |-> {}]
    /\ disturbed = [p \in Procs |-> FALSE]

Syncing(p) == proc[p].at \notin {"idle", "dead"}

\* _wave_entity_sync_plan: a target that was never synced is due, a current
\* mirror once it is stale, a failed, interrupted or running sync once the
\* retry time is over.  Time is not modelled, so that every row can be due.
Begin(p) ==
    /\ proc[p].at = "idle"
    /\ Started < MaxRuns
    /\ syncRun' = [syncRun EXCEPT ![Started + 1] = "running"]
    /\ proc' = [proc EXCEPT ![p] = [Idle EXCEPT !.at = "fetch",
                                                !.run = Started + 1]]
    /\ always' = [always EXCEPT ![p] = ToSet(shelf)]
    /\ never' = [never EXCEPT ![p] = Entities \ ToSet(shelf)]
    /\ since' = [since EXCEPT ![p] = {}]
    /\ disturbed' = [q \in Procs |->
            \/ q # p /\ disturbed[q]
            \/ q = p /\ \E o \in Procs \ {p} : Syncing(o)
            \/ q # p /\ Syncing(q)]
    /\ UNCHANGED <<shelf, mirror, edits, faults, crashes>>

TotalPages == IF shelf = <<>> THEN 1
              ELSE (Len(shelf) + PageSize - 1) \div PageSize

PageOf(n) == SubSeq(shelf, (n - 1) * PageSize + 1,
                    IF n * PageSize > Len(shelf) THEN Len(shelf)
                    ELSE n * PageSize)

\* Mutant: the total of a later page is not compared.
TotalKept_Unchecked(p) == TRUE
TotalKept(p) == proc[p].total \in {NoTotal, Len(shelf)}

Goto(p, pc) == proc' = [proc EXCEPT ![p].at = pc]

\* A request for one page.  The pages of a collection that has become
\* shorter end at once: Wave answers an empty page past the last.
Fetch(p) ==
    /\ proc[p].at = "fetch"
    /\ IF ~ TotalKept(p) THEN Goto(p, "fail")
       ELSE proc' = [proc EXCEPT
                ![p].at = "store",
                ![p].total = Len(shelf),
                ![p].left = PageOf(proc[p].page),
                ![p].last = proc[p].page >= TotalPages]
    /\ since' = [since EXCEPT ![p] = {}]
    /\ disturbed' = [disturbed EXCEPT
            ![p] = @ \/ /\ since[p] = {"add", "remove"}
                        /\ proc[p].total # NoTotal]
    /\ UNCHANGED <<shelf, mirror, syncRun, edits, faults, crashes, always,
                   never>>

\* upsert_wave_entity for the next entity of the page.
Store(p) ==
    /\ proc[p].at = "store" /\ proc[p].left # <<>>
    /\ LET e == Head(proc[p].left) IN
       IF e \in proc[p].seen
       THEN Goto(p, "fail") /\ UNCHANGED mirror
       ELSE /\ mirror' = [mirror EXCEPT ![e] = [presence |-> "present",
                                               run |-> proc[p].run]]
            /\ proc' = [proc EXCEPT ![p].seen = @ \cup {e},
                                    ![p].left = Tail(@)]
    /\ UNCHANGED <<shelf, syncRun, edits, faults, crashes, observed>>

Captured(p) == Cardinality(proc[p].seen) = proc[p].total

\* The end of a page: the next one, the end of the traversal, or too many.
Turn(p) ==
    /\ proc[p].at = "store" /\ proc[p].left = <<>>
    /\ CASE proc[p].last -> Goto(p, IF Captured(p) THEN "mark" ELSE "fail")
         [] ~ proc[p].last /\ proc[p].page < MaxPages ->
                proc' = [proc EXCEPT ![p].at = "fetch", ![p].page = @ + 1]
         [] OTHER -> Goto(p, "fail")
    /\ UNCHANGED <<shelf, mirror, syncRun, edits, faults, crashes, observed>>

\* Mutant: only what no sync has ever seen is taken for missing.
Missed_Unknown(p, e) == mirror[e].run = NoRun
Missed(p, e) == mirror[e].run # proc[p].run

\* mark_wave_entities_missing, one update of all rows.
Mark(p) ==
    /\ proc[p].at = "mark"
    /\ mirror' = [e \in Entities |->
            IF mirror[e].presence = "present" /\ Missed(p, e)
            THEN [mirror[e] EXCEPT !.presence = "missing_downstream"]
            ELSE mirror[e]]
    /\ Goto(p, "finish")
    /\ UNCHANGED <<shelf, syncRun, edits, faults, crashes, observed>>

\* update_wave_sync_run with the outcome.
Finish(p) ==
    /\ proc[p].at \in {"finish", "fail"}
    /\ syncRun' = [syncRun EXCEPT ![proc[p].run] =
            IF proc[p].at = "finish" THEN "completed" ELSE "failed"]
    /\ proc' = [proc EXCEPT ![p] = Idle]
    /\ UNCHANGED <<shelf, mirror, edits, faults, crashes, observed>>

\* The quota guard refuses, the request or its answer fails, or a
\* transaction raises.
Fail(p) ==
    /\ proc[p].at \in {"fetch", "store", "mark"}
    /\ faults < MaxFaults
    /\ faults' = faults + 1
    /\ Goto(p, "fail")
    /\ UNCHANGED <<shelf, mirror, syncRun, edits, crashes, observed>>

Die(p) ==
    /\ Syncing(p)
    /\ crashes < MaxCrashes
    /\ crashes' = crashes + 1
    /\ Goto(p, "dead")
    /\ UNCHANGED <<shelf, mirror, syncRun, edits, faults, observed>>

\* A process that died is started again; its run stays running.
Restart(p) ==
    /\ proc[p].at = "dead"
    /\ proc' = [proc EXCEPT ![p] = Idle]
    /\ UNCHANGED <<shelf, mirror, syncRun, edits, faults, crashes, observed>>

Edited(kind, sh) ==
    /\ edits < MaxEdits
    /\ edits' = edits + 1
    /\ shelf' = sh
    /\ always' = [p \in Procs |-> always[p] \cap ToSet(sh)]
    /\ never' = [p \in Procs |-> never[p] \ ToSet(sh)]
    /\ since' = [p \in Procs |-> since[p] \cup {kind}]
    /\ UNCHANGED <<mirror, syncRun, proc, faults, crashes, disturbed>>

\* A user of Wave adds an entity, at either end of the list, or removes one.
AddEntity ==
    \E e \in Entities \ ToSet(shelf), front \in BOOLEAN :
        Edited("add", IF front THEN <<e>> \o shelf ELSE Append(shelf, e))
RemoveEntity ==
    \E i \in DOMAIN shelf : Edited("remove", RemoveAt(shelf, i))

Next ==
    \/ \E p \in Procs :
        \/ Begin(p) \/ Fetch(p) \/ Store(p) \/ Turn(p) \/ Mark(p)
        \/ Finish(p) \/ Fail(p) \/ Die(p) \/ Restart(p)
    \/ AddEntity \/ RemoveEntity

Spec == Init /\ [][Next]_vars

-----------------------------------------------------------------------------
(* Properties *)

\* When a sync has completed, what stayed in Wave all the while is in the
\* mirror as present, and what was not there all the while is not: pages
\* that shift under the traversal, faults, deaths and entities added or
\* removed never make FAB report an invoice as gone that is there.  It
\* leaves out syncs of which two ran at a time, and those during which an
\* addition made up for a removal between two pages, which no page shows.
MissingIsGone ==
    \A p \in Procs : proc[p].at = "finish" /\ ~ disturbed[p] =>
        /\ \A e \in always[p] : mirror[e].presence = "present"
        /\ \A e \in never[p] : mirror[e].presence # "present"
=============================================================================
