--------------------------- MODULE RequestJournal ---------------------------
(***************************************************************************)
(* What a caller of FAB may rely on when it delivers a command under a     *)
(* request id of its own, as often as it likes: the id is bound to the     *)
(* contract of one command and payload, the command runs at most once      *)
(* under that id, its outcome is recorded at most once, and every answer   *)
(* that names an outcome or a conflict can be read off the journal.        *)
(***************************************************************************)
EXTENDS Integers

CONSTANTS
    Requests,   \* request ids
    Contracts,  \* commands with their normalized payloads
    Entries     \* what the journal can say of a contract

VARIABLES
    journal,    \* phase and contract of each request id
    runs,       \* how often a command was started under the id
    replies     \* the answers given, as records [req, contract, status]

jvars == <<journal, runs, replies>>

NoContract == "none"

Phases == {"open", "bound", "running", "completed", "failed"}

\* Statuses that carry no news about the journal.
Neutral == {"execution_in_progress", "blocked"}

Justified(r, c, status) ==
    LET e == journal[r] IN
    CASE status \in {"completed", "already_executed"} -> e.phase = "completed"
      [] status \in {"failed", "previously_failed"} -> e.phase = "failed"
      [] status = "idempotency_conflict" -> e.phase # "open" /\ e.contract # c
      [] status = "execution_indeterminate" ->
            e.phase # "open" /\ e.contract = c
      [] OTHER -> status \in Neutral

Init ==
    /\ journal = [r \in Requests |-> [phase |-> "open",
                                      contract |-> NoContract]]
    /\ runs = [r \in Requests |-> 0]
    /\ replies = {}

Bind(r, e) ==
    /\ journal[r].phase = "open"
    /\ journal' = [journal EXCEPT ![r] = [phase |-> "bound", contract |-> e]]
    /\ UNCHANGED <<runs, replies>>

Start(r) ==
    /\ journal[r].phase = "bound"
    /\ journal' = [journal EXCEPT ![r].phase = "running"]
    /\ runs' = [runs EXCEPT ![r] = @ + 1]
    /\ UNCHANGED replies

Settle(r) ==
    /\ journal[r].phase = "running"
    /\ \E outcome \in {"completed", "failed"} :
            journal' = [journal EXCEPT ![r].phase = outcome]
    /\ UNCHANGED <<runs, replies>>

Answer(r, c, status) ==
    /\ Justified(r, c, status)
    /\ replies' = replies \cup {[req |-> r, contract |-> c,
                                 status |-> status]}
    /\ UNCHANGED <<journal, runs>>

Statuses ==
    {"completed", "already_executed", "failed", "previously_failed",
     "idempotency_conflict", "execution_indeterminate"} \cup Neutral

\* An answer that was given before changes nothing.
Next ==
    \E r \in Requests :
        \/ \E e \in Entries : Bind(r, e)
        \/ Start(r)
        \/ Settle(r)
        \/ /\ replies' # replies
           /\ \E c \in Contracts, s \in Statuses : Answer(r, c, s)

Spec == Init /\ [][Next]_jvars
=============================================================================
