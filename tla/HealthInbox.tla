---------------------------- MODULE HealthInbox ----------------------------
(***************************************************************************)
(* LocalOperationsHealth, which finds what needs the operator, and         *)
(* LocalNotificationService, which keeps an inbox of it.                   *)
(*                                                                         *)
(* The worker, in each pass, and the API refresh the inbox: the issues are *)
(* computed from one snapshot of the ledger, and then written one by one,  *)
(* each in a transaction of its own, before what is no issue any more is   *)
(* resolved.  Meanwhile other refreshes, the operator and the rest of FAB  *)
(* go on.  A notification is known by the type of its issue and the thing  *)
(* that it is about.                                                       *)
(***************************************************************************)
EXTENDS Integers, FiniteSets

CONSTANTS
    Procs,        \* processes that refresh the inbox
    Things,       \* rows of the ledger that may need attention
    Rules,        \* [Things -> the rules of HealthRules for such a row]
    Watched,      \* event types that the operator may have a preference for
    MaxChanges,   \* bound: rows that change or grow old
    MaxRefreshes, \* bound: refreshes that begin
    MaxActs,      \* bound: notifications and preferences that are edited
    MaxCrashes    \* bound: refreshes that die

VARIABLES
    row,      \* each thing's status, and whether it is older than allowed
    note,     \* the status of each notification, "none" without one
    prefs,    \* notification_preferences
    proc,     \* what each process has still to write
    changes, refreshes, acts, crashes,
    settled,  \* the last refresh was alone and nothing has changed since
    acked     \* what was acknowledged with every refresh aware of it

vars == <<row, note, prefs, proc, changes, refreshes, acts, crashes,
          settled, acked>>

-----------------------------------------------------------------------------
\* The issues of a snapshot, see HealthRules.

Statuses(t) == {r.status : r \in Rules[t]} \cup {"done"}

\* A notification stands for a thing and the type of what is wrong with it.
Notes == UNION {{<<t, r.type>> : r \in Rules[t]} : t \in Things}

Found(t) ==
    {[note |-> <<t, r.type>>, severity |-> r.severity] :
        r \in {q \in Rules[t] : /\ q.status = row[t].status
                                /\ q.stale => row[t].old}}
Issues == UNION {Found(t) : t \in Things}
Open == {i.note : i \in Issues}

-----------------------------------------------------------------------------
\* next: the issue that is written next, and whether it may be shown.
Idle == [at |-> "idle", todo |-> {}, seen |-> {}, next |-> {}, alone |-> TRUE]

Preferences == {"unset", "off", "low", "medium", "high"}

TypeOK ==
    LET issues == [note : Notes, severity : {"low", "medium", "high"}]
    IN /\ row \in [Things -> [status : UNION {Statuses(t) : t \in Things},
                              old : BOOLEAN]]
       /\ note \in [Notes -> {"none", "unread", "read", "acknowledged",
                              "resolved", "suppressed"}]
       /\ prefs \in [Watched \cup {"*"} -> Preferences]
       /\ \A p \in Procs :
           /\ proc[p].at \in {"idle", "next", "write"}
           /\ \A w \in proc[p].next : w \in [issue : issues, visible : BOOLEAN]
           /\ proc[p].todo \subseteq issues /\ proc[p].seen \subseteq Notes
           /\ proc[p].alone \in BOOLEAN
       /\ changes \in 0..MaxChanges /\ refreshes \in 0..MaxRefreshes
       /\ acts \in 0..MaxActs /\ crashes \in 0..MaxCrashes
       /\ settled \in BOOLEAN /\ acked \subseteq Notes

Init ==
    /\ row \in [Things -> {[status |-> "done", old |-> FALSE]}]
    /\ note = [n \in Notes |-> "none"]
    /\ prefs = [type \in Watched \cup {"*"} |-> "unset"]
    /\ proc = [p \in Procs |-> Idle]
    /\ changes = 0 /\ refreshes = 0 /\ acts = 0 /\ crashes = 0
    /\ settled = FALSE /\ acked = {}

Refreshing(p) == proc[p].at # "idle"
Alone(p) == \A q \in Procs \ {p} : ~Refreshing(q)
\* Something happens that the refreshes under way have not seen.
Disturbed == proc' = [p \in Procs |-> [proc[p] EXCEPT !.alone = FALSE]]

\* effective_preference and _preference_allows.
Minimum(type) ==
    IF type \in Watched /\ prefs[type] # "unset" THEN prefs[type]
    ELSE IF prefs["*"] # "unset" THEN prefs["*"] ELSE "low"

Allows(issue) ==
    LET least == Minimum(issue.note[2])
    IN CASE least = "off" -> FALSE
         [] least = "low" -> TRUE
         [] least = "medium" -> issue.severity # "low"
         [] least = "high" -> issue.severity = "high"

\* Every refresh under way has found the issue, and may show it.
Shown(n) ==
    /\ n \in Open
    /\ \A i \in Issues : i.note = n => Allows(i)
    /\ \A p \in Procs :
        Refreshing(p) =>
            /\ n \in proc[p].seen
            /\ \A i \in proc[p].todo : i.note = n => Allows(i)
            /\ \A w \in proc[p].next : w.issue.note = n => w.visible

\* The rest of FAB changes a row, or leaves it as it is for too long.
Change(t) ==
    /\ changes < MaxChanges /\ changes' = changes + 1
    /\ \/ \E s \in Statuses(t) \ {row[t].status} :
            row' = [row EXCEPT ![t] = [status |-> s, old |-> FALSE]]
       \/ ~row[t].old /\ row' = [row EXCEPT ![t].old = TRUE]
    /\ settled' = FALSE /\ Disturbed
    /\ UNCHANGED <<note, prefs, refreshes, acts, crashes>>
    /\ acked' = {n \in acked : Shown(n)'}

-----------------------------------------------------------------------------
\* LocalNotificationService.refresh

\* Mutant: whatever is still an issue is unread again.
Upserted_Unread(status, visible) == IF visible THEN "unread" ELSE "suppressed"
\* upsert_notification: what was read or acknowledged stays so; what was
\* resolved or hidden and is an issue that may be shown is unread again.
Upserted(status, visible) ==
    IF ~visible THEN "suppressed"
    ELSE IF status \in {"none", "resolved", "suppressed"} THEN "unread"
    ELSE status

Start(p) ==
    /\ ~Refreshing(p) /\ refreshes < MaxRefreshes
    /\ refreshes' = refreshes + 1
    /\ proc' = [q \in Procs |->
           IF q = p THEN [at |-> "next", todo |-> Issues, seen |-> Open,
                          next |-> {}, alone |-> Alone(p)]
           ELSE [proc[q] EXCEPT !.alone = @ /\ ~Refreshing(q)]]
    /\ UNCHANGED <<row, note, prefs, changes, acts, crashes, settled, acked>>

\* The preference is read before the transaction that writes.
Prefer(p) ==
    /\ proc[p].at = "next" /\ proc[p].todo # {}
    /\ \E issue \in proc[p].todo :
        proc' = [proc EXCEPT
            ![p].next = {[issue |-> issue, visible |-> Allows(issue)]},
            ![p].todo = @ \ {issue}, ![p].at = "write"]
    /\ UNCHANGED <<row, note, prefs, changes, refreshes, acts, crashes,
                   settled, acked>>

Write(p) ==
    /\ proc[p].at = "write"
    /\ \E w \in proc[p].next :
        note' = [note EXCEPT ![w.issue.note] = Upserted(@, w.visible)]
    /\ proc' = [proc EXCEPT ![p].next = {}, ![p].at = "next"]
    /\ settled' = FALSE
    /\ UNCHANGED <<row, prefs, changes, refreshes, acts, crashes, acked>>

\* Mutant: what was acknowledged is dealt with.
Inactive_Seen(p) ==
    {n \in Notes : note[n] # "none" /\ (n \notin proc[p].seen
                                        \/ note[n] = "acknowledged")}
\* resolve_inactive_notifications.
Inactive(p) ==
    {n \in Notes : note[n] # "none" /\ n \notin proc[p].seen}

Resolve(p) ==
    /\ proc[p].at = "next" /\ proc[p].todo = {}
    /\ note' = [n \in Notes |->
                   IF n \in Inactive(p) THEN "resolved" ELSE note[n]]
    /\ settled' = proc[p].alone
    /\ proc' = [proc EXCEPT ![p] = Idle]
    /\ UNCHANGED <<row, prefs, changes, refreshes, acts, crashes, acked>>

-----------------------------------------------------------------------------
\* update_status: the operator may give any notification any status.
SetStatus(n) ==
    /\ note[n] # "none" /\ acts < MaxActs
    /\ acts' = acts + 1
    /\ \E status \in {"unread", "read", "acknowledged", "resolved"} :
        /\ note' = [note EXCEPT ![n] = status]
        /\ acked' = IF status = "acknowledged" /\ Shown(n) THEN acked \cup {n}
                    ELSE acked \ {n}
    /\ settled' = FALSE /\ Disturbed
    /\ UNCHANGED <<row, prefs, changes, refreshes, crashes>>

\* update_preference.
SetPreference(type) ==
    /\ acts < MaxActs /\ acts' = acts + 1
    /\ \E least \in Preferences \ {"unset"} :
        prefs' = [prefs EXCEPT ![type] = least]
    /\ acked' = {} /\ settled' = FALSE /\ Disturbed
    /\ UNCHANGED <<row, note, changes, refreshes, crashes>>

Crash(p) ==
    /\ Refreshing(p) /\ crashes < MaxCrashes
    /\ crashes' = crashes + 1
    /\ proc' = [proc EXCEPT ![p] = Idle]
    /\ UNCHANGED <<row, note, prefs, changes, refreshes, acts, settled, acked>>

Next ==
    \/ \E t \in Things : Change(t)
    \/ \E p \in Procs : Start(p) \/ Prefer(p) \/ Write(p) \/ Resolve(p) \/ Crash(p)
    \/ \E n \in Notes : SetStatus(n)
    \/ \E type \in Watched \cup {"*"} : SetPreference(type)

-----------------------------------------------------------------------------
\* Properties

\* After a refresh that nothing has disturbed the inbox has what is wrong and
\* nothing else, whatever earlier refreshes, that overlapped or died, and the
\* operator have left in it; hidden is only what the preferences hide.
InboxAgrees ==
    settled =>
        /\ \A n \in Notes : n \in Open <=> note[n] \notin {"none", "resolved"}
        /\ \A i \in Issues : note[i.note] = "suppressed" <=> ~Allows(i)

\* What was acknowledged stays so for as long as it is an issue, refreshes
\* that overlap or die included.
AcknowledgedStays == \A n \in acked : note[n] = "acknowledged"

InboxTold == InboxAgrees /\ AcknowledgedStays
=============================================================================
