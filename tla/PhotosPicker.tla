----------------------------- MODULE PhotosPicker ----------------------------
(***************************************************************************)
(* Supervised sessions of the Google Photos Picker:                        *)
(* LocalGooglePhotosPickerService over workflow_runs rows, and the picker  *)
(* API that GooglePhotosPickerClient calls.                                *)
(*                                                                         *)
(* A process is an API thread that serves create, collect or cancel.  An   *)
(* action is one ledger transaction or one request to Google; whatever a   *)
(* request reads from a row it goes on using, since no write of these rows *)
(* looks at what they have become.  Registration of a photo is one step    *)
(* here (see ConnectorIntake for what it consists of).                     *)
(***************************************************************************)
EXTENDS Integers, FiniteSets, FiniteSetsExt

CONSTANTS
    Procs,
    Items,          \* what a user can select
    Photos,         \* those of them that are photos: the others are skipped
    MaxItems,       \* google_photos_max_items: more are not listed
    MaxSessions,    \* bound: sessions that are created
    MaxCollects,    \* bound: collections and cancellations
    MaxFaults,      \* bound: requests that fail or whose answer is lost
    MaxCrashes      \* bound: deaths of a thread

VARIABLES
    run,        \* workflow_runs: the row of each session
    picker,     \* Google's side: each session and what was selected in it
    registered, \* the items that are documents
    proc,       \* what each thread is doing
    collects, faults, crashes,
    \* Observations
    emptied,    \* sessions that a collection has deleted
    orphans,    \* sessions FAB never learned of: answer lost, thread dead
    crossed,    \* a session was cancelled while it was being created
    disturbed   \* requests for one session overlapped, an answer to a
                \* deletion was lost, Google dropped a session or a thread died

counters == <<collects, faults, crashes>>
observed == <<emptied, orphans, crossed, disturbed>>
vars == <<run, picker, registered, proc, counters, observed>>

Slots == 1..MaxSessions
None == 0

NoRow == [status |-> "none", session |-> None, deleted |-> FALSE]
Row(status, copy) == [copy EXCEPT !.status = status]

Ended == {"completed", "completed_with_skips", "completed_no_selection",
          "cancelled"}
Active == {"creating", "awaiting_user_selection", "collecting", "partial",
           "completed_cleanup_required"}

Idle == [at |-> "idle", row |-> None, copy |-> NoRow, left |-> {},
         evidence |-> FALSE, skipped |-> FALSE, errors |-> FALSE, cut |-> FALSE,
         uncleaned |-> FALSE]

TypeOK ==
    /\ run \in [Slots ->
            [status : Ended \cup Active \cup {"none", "failed"},
             session : Slots \cup {None}, deleted : BOOLEAN]]
    /\ picker \in [Slots -> [state : {"none", "open", "gone"},
                                chosen : BOOLEAN, items : SUBSET Items]]
    /\ registered \subseteq Photos
    /\ \A p \in Procs :
        /\ proc[p].at \in {"idle", "row", "ask", "keep", "mark", "poll",
                           "list", "item", "delete", "finish", "cancel",
                           "cancelled", "fail"}
        /\ proc[p].row \in Slots \cup {None}
    /\ emptied \subseteq Slots /\ orphans \subseteq Slots

Init ==
    /\ run = [r \in Slots |-> NoRow]
    /\ picker = [s \in Slots |-> [state |-> "none", chosen |-> FALSE,
                                     items |-> {}]]
    /\ registered = {}
    /\ proc = [p \in Procs |-> Idle]
    /\ collects = 0 /\ faults = 0 /\ crashes = 0
    /\ emptied = {} /\ orphans = {} /\ crossed = FALSE /\ disturbed = FALSE

Goto(p, pc) == proc' = [proc EXCEPT ![p].at = pc]
Done(p) == proc' = [proc EXCEPT ![p] = Idle]
Write(r, row) == run' = [run EXCEPT ![r] = row]

\* _session_requires_attention.
NeedsAttention(r) ==
    \/ run[r].status \in Active
    \/ run[r].status = "failed" /\ run[r].session # None /\ ~ run[r].deleted

Busy(r) == \E p \in Procs : proc[p].row = r

------------------------------- (* create *) --------------------------------

\* create_session: an active session is answered with itself.
Create(p) ==
    /\ proc[p].at = "idle"
    /\ \E r \in Slots : run[r].status = "none"
    /\ \A r \in Slots : ~ NeedsAttention(r)
    /\ Goto(p, "row")
    /\ UNCHANGED <<run, picker, registered, counters, observed>>

CreateRow(p) ==
    /\ proc[p].at = "row"
    /\ IF \E r \in Slots : run[r].status = "none"
       THEN LET r == Min({q \in Slots : run[q].status = "none"}) IN
            /\ Write(r, [NoRow EXCEPT !.status = "creating"])
            /\ proc' = [proc EXCEPT ![p].at = "ask", ![p].row = r,
                                    ![p].copy = run'[r]]
       ELSE Done(p) /\ UNCHANGED run
    /\ UNCHANGED <<picker, registered, counters, observed>>

\* A new session at Google.  When the call fails, or its link is not to be
\* trusted and the session cannot be deleted again, FAB forgets the session.
Ask(p) ==
    LET s == Min({q \in Slots : picker[q].state = "none"})
        opened == [picker EXCEPT ![s].state = "open"] IN
    /\ proc[p].at = "ask"
    /\ \/ /\ picker' = opened
          /\ proc' = [proc EXCEPT ![p].at = "keep", ![p].copy.session = s]
          /\ UNCHANGED <<faults, orphans>>
       \/ /\ faults < MaxFaults /\ faults' = faults + 1
          /\ \/ picker' = opened /\ orphans' = orphans \cup {s}
             \/ UNCHANGED <<picker, orphans>>
          /\ Goto(p, "fail")
    /\ UNCHANGED <<run, registered, collects, crashes, emptied, crossed,
                   disturbed>>

Keep(p) ==
    /\ proc[p].at = "keep"
    /\ Write(proc[p].row, Row("awaiting_user_selection", proc[p].copy))
    /\ Done(p)
    /\ UNCHANGED <<picker, registered, counters, observed>>

------------------------------- (* collect *) -------------------------------

\* collect_session reads the row; an ended session is answered as it is.
Collect(p, r) ==
    /\ proc[p].at = "idle" /\ collects < MaxCollects
    /\ run[r].status \notin Ended \cup {"none"}
    /\ collects' = collects + 1
    /\ proc' = [proc EXCEPT
            ![p] = [Idle EXCEPT !.row = r, !.copy = run[r],
                    !.at = IF run[r].session = None THEN "fail" ELSE "mark"]]
    /\ disturbed' = (disturbed \/ Busy(r))
    /\ UNCHANGED <<run, picker, registered, faults, crashes, emptied, orphans,
                   crossed>>

Mark(p) ==
    /\ proc[p].at = "mark"
    /\ run' = [run EXCEPT ![proc[p].row].status = "collecting"]
    /\ Goto(p, "poll")
    /\ UNCHANGED <<picker, registered, counters, observed>>

\* Nothing has been selected yet: the session goes on waiting.
Poll(p) ==
    LET s == proc[p].copy.session IN
    /\ proc[p].at = "poll"
    /\ CASE picker[s].state # "open" -> Goto(p, "fail") /\ UNCHANGED run
         [] picker[s].state = "open" /\ picker[s].chosen ->
                Goto(p, "list") /\ UNCHANGED run
         [] OTHER -> /\ Write(proc[p].row, Row("awaiting_user_selection",
                                               proc[p].copy))
                     /\ Done(p)
    /\ UNCHANGED <<picker, registered, counters, observed>>

\* Mutant: a list that was cut short is taken for the whole selection.
Cut_Never(found, all) == FALSE
Cut(found, all) == found # all

\* list_media_items pages through the selection up to max_items.
List(p) ==
    LET s == proc[p].copy.session
        all == picker[s].items IN
    /\ proc[p].at = "list"
    /\ IF picker[s].state # "open" THEN Goto(p, "fail")
       ELSE \E found \in SUBSET all :
            /\ Cardinality(found) =
                 IF Cardinality(all) > MaxItems THEN MaxItems
                 ELSE Cardinality(all)
            /\ proc' = [proc EXCEPT ![p].at = "item", ![p].left = found,
                                    ![p].cut = Cut(found, all)]
    /\ UNCHANGED <<run, picker, registered, counters, observed>>

\* Mutant: an item that fails is counted as skipped only.
Failed_Skip(p, i) ==
    proc' = [proc EXCEPT ![p].left = @ \ {i}, ![p].skipped = TRUE]
Failed(p, i) ==
    proc' = [proc EXCEPT ![p].left = @ \ {i}, ![p].skipped = TRUE,
                         ![p].errors = TRUE]

\* The next item: registered, skipped because it is no photo, or failed in
\* its download or its registration.
Item(p) ==
    /\ proc[p].at = "item"
    /\ \E i \in proc[p].left :
        \/ /\ i \in Photos
           /\ registered' = registered \cup {i}
           /\ proc' = [proc EXCEPT ![p].left = @ \ {i}, ![p].evidence = TRUE]
           /\ UNCHANGED faults
        \/ /\ i \notin Photos
           /\ proc' = [proc EXCEPT ![p].left = @ \ {i}, ![p].skipped = TRUE]
           /\ UNCHANGED <<registered, faults>>
        \/ /\ i \in Photos
           /\ faults < MaxFaults /\ faults' = faults + 1
           /\ Failed(p, i)
           /\ UNCHANGED registered
    /\ UNCHANGED <<run, picker, collects, crashes, observed>>

\* All items are through; an incomplete list is an error as well.
ItemsDone(p) ==
    LET errors == proc[p].errors \/ proc[p].cut IN
    /\ proc[p].at = "item" /\ proc[p].left = {}
    /\ proc' = [proc EXCEPT ![p].errors = errors,
            ![p].at = IF errors THEN "finish" ELSE "delete"]
    /\ UNCHANGED <<run, picker, registered, counters, observed>>

\* delete_session: a session that is gone is an error, and so is an answer
\* that is lost.
Delete(p, yes, no) ==
    LET s == proc[p].copy.session
        gone == [picker EXCEPT ![s].state = "gone"] IN
    \/ /\ picker[s].state = "open" /\ picker' = gone /\ yes
       /\ UNCHANGED <<faults, disturbed>>
    \/ /\ picker[s].state # "open" /\ no
       /\ UNCHANGED <<picker, faults, disturbed>>
    \/ /\ faults < MaxFaults /\ faults' = faults + 1 /\ no
       /\ \/ UNCHANGED <<picker, disturbed>>
          \/ picker' = gone /\ disturbed' = TRUE

CleanUp(p) ==
    /\ proc[p].at = "delete"
    /\ Delete(p,
              proc' = [proc EXCEPT ![p].copy.deleted = TRUE,
                                   ![p].at = "finish"],
              proc' = [proc EXCEPT ![p].uncleaned = TRUE, ![p].at = "finish",
                                   ![p].copy.deleted = FALSE])
    /\ emptied' = emptied \cup
            (IF picker' # picker THEN {proc[p].copy.session} ELSE {})
    /\ UNCHANGED <<run, registered, collects, crashes, orphans, crossed>>

\* The outcome of a collection.  Only a clean one ends the session.
Outcome(p) ==
    IF proc[p].uncleaned THEN "completed_cleanup_required"
    ELSE IF proc[p].errors
         THEN IF proc[p].evidence THEN "partial" ELSE "failed"
    ELSE IF proc[p].skipped THEN "completed_with_skips"
    ELSE IF proc[p].evidence THEN "completed" ELSE "completed_no_selection"

Finish(p) ==
    /\ proc[p].at = "finish"
    /\ Write(proc[p].row, Row(Outcome(p), proc[p].copy))
    /\ Done(p)
    /\ UNCHANGED <<picker, registered, counters, observed>>

------------------------------- (* cancel *) --------------------------------

Cancel(p, r) ==
    /\ proc[p].at = "idle" /\ collects < MaxCollects
    /\ run[r].status \notin Ended \cup {"none"}
    /\ collects' = collects + 1
    /\ proc' = [proc EXCEPT
            ![p] = [Idle EXCEPT !.row = r, !.copy = run[r],
                    !.at = IF run[r].session = None \/ run[r].deleted
                           THEN "cancelled" ELSE "cancel"]]
    /\ disturbed' = (disturbed \/ Busy(r))
    /\ crossed' = (crossed \/ (Busy(r) /\ run[r].session = None))
    /\ UNCHANGED <<run, picker, registered, faults, crashes, emptied, orphans>>

\* Mutant: the cancellation does not wait for the deletion.
Refused_Anyway == "cancelled"
Refused == "fail"

CancelDelete(p) ==
    /\ proc[p].at = "cancel"
    /\ Delete(p, Goto(p, "cancelled"), Goto(p, Refused))
    /\ UNCHANGED <<run, registered, collects, crashes, emptied, orphans, crossed>>

Cancelled(p) ==
    /\ proc[p].at = "cancelled"
    /\ Write(proc[p].row, [proc[p].copy EXCEPT !.status = "cancelled",
                                              !.deleted = TRUE])
    /\ Done(p)
    /\ UNCHANGED <<picker, registered, counters, observed>>

------------------------ (* failures and the outside *) ---------------------

\* _fail_session writes the metadata it was given; a session whose creation
\* failed keeps what its row says.
Fail(p) ==
    LET r == proc[p].row IN
    /\ proc[p].at = "fail"
    /\ Write(r, Row("failed", IF proc[p].copy.session = None THEN run[r]
                              ELSE proc[p].copy))
    /\ Done(p)
    /\ UNCHANGED <<picker, registered, counters, observed>>

\* The poll or the list fails on the way.
Fault(p) ==
    /\ proc[p].at \in {"poll", "list"}
    /\ faults < MaxFaults /\ faults' = faults + 1
    /\ Goto(p, "fail")
    /\ UNCHANGED <<run, picker, registered, collects, crashes, observed>>

Die(p) ==
    /\ proc[p].at # "idle" /\ crashes < MaxCrashes
    /\ crashes' = crashes + 1
    /\ Done(p)
    /\ orphans' = IF proc[p].at = "keep"
                  THEN orphans \cup {proc[p].copy.session} ELSE orphans
    /\ disturbed' = TRUE
    /\ UNCHANGED <<run, picker, registered, collects, faults, emptied, crossed>>

\* The user selects in the picker, once.
Select ==
    \E s \in Slots, chosen \in SUBSET Items :
        /\ picker[s].state = "open" /\ ~ picker[s].chosen
        /\ picker' = [picker EXCEPT ![s].chosen = TRUE, ![s].items = chosen]
        /\ UNCHANGED <<run, registered, proc, counters, observed>>

\* Google drops a session when its time is over.
Drop ==
    \E s \in Slots :
        /\ picker[s].state = "open"
        /\ picker' = [picker EXCEPT ![s].state = "gone"]
        /\ disturbed' = TRUE
        /\ UNCHANGED <<run, registered, proc, counters, emptied, orphans,
                       crossed>>

Next ==
    \/ \E p \in Procs :
        \/ Create(p) \/ CreateRow(p) \/ Ask(p) \/ Keep(p)
        \/ Mark(p) \/ Poll(p) \/ List(p) \/ Item(p) \/ ItemsDone(p)
        \/ CleanUp(p) \/ Finish(p) \/ CancelDelete(p) \/ Cancelled(p)
        \/ Fail(p) \/ Fault(p) \/ Die(p)
        \/ \E r \in Slots : Collect(p, r) \/ Cancel(p, r)
    \/ Select \/ Drop

Spec == Init /\ [][Next]_vars

-----------------------------------------------------------------------------
(* Properties *)

\* A collection deletes the session at Google only when every photo that was
\* selected in it is a document of FAB: a failed download, a failed
\* registration or a list that was cut short keeps it, also while another
\* request cancels or collects the same session.
SelectionKept ==
    \A s \in emptied : picker[s].items \cap Photos \subseteq registered

\* FAB and Google agree on what is open.  A session that is open at Google
\* has a row that asks for attention, so that it gets collected or
\* cancelled, unless FAB never learned of it or the session was cancelled
\* while it was being created; and as long as nothing of what "disturbed"
\* lists has happened, a row that asks for attention has its session, so
\* that the operator can end it and start another.
SessionsAccounted ==
    /\ ~ crossed => \A s \in Slots \ orphans : picker[s].state = "open" =>
        \/ \E r \in Slots : run[r].session = s /\ NeedsAttention(r)
        \/ \E p \in Procs : proc[p].at = "keep" /\ proc[p].copy.session = s
    /\ ~ disturbed =>
        \A r \in Slots : NeedsAttention(r) /\ ~ Busy(r) =>
            run[r].session # None /\ picker[run[r].session].state = "open"
=============================================================================
