--------------------------- MODULE Reconciliation ---------------------------
(***************************************************************************)
(* Matching documents with bank transactions:                              *)
(* LocalReconciliationService over reconciliation_matches,                 *)
(* bank_transactions, documents, review_items and bookkeeping_records.     *)
(*                                                                         *)
(* A process runs the matcher, decides a match or a review, imports a      *)
(* statement again, or refreshes records.  What a handler has read decides *)
(* its writes; every write is a transaction of its own, and a process may  *)
(* die between two of them.  Amounts, dates and vendors are a score.       *)
(***************************************************************************)
EXTENDS Integers, Sequences, FiniteSets

CONSTANTS
    Procs,          \* the worker and the API threads
    Docs, Txs,
    Score,          \* [Txs \X Docs -> Nat]: 0 is below the threshold
    MaxMatches,     \* bound: rows of reconciliation_matches
    MaxOps,         \* bound: handlers that are begun
    MaxCrashes      \* bound: processes that die

VARIABLES
    bank,       \* reconciliation_status of each bank transaction
    doc,        \* reconciliation_status of each document
    matches,    \* reconciliation_matches, in the order of their ids
    reviews,    \* open review items
    bankRec, docRec,    \* bookkeeping records: status, reconciliation status
    proc, ops, crashes,
    \* Observations: what operators decided of a match; whether handlers ran
    \* at the same time; transactions imported again since their last write
    decided, overlapped, reset

vars == <<bank, doc, matches, reviews, bankRec, docRec, proc, ops, crashes,
          decided, overlapped, reset>>

NoDoc == "no document"
NoTx == "no transaction"
None == "none"

Final == {"approved", "reconciled"}
Kept == Final \cup {"rejected", "ignored"}
ResolutionStatuses ==
    {"approved", "reconciled", "rejected", "resolved", "ignored",
     "needs_review"}
MatchStatuses ==
    ResolutionStatuses \cup {"candidate", "missing_receipt",
                             "unmatched_document"}
BankFinal == {"approved", "reconciled", "ignored"}
Reasons == {"reconciliation_candidate", "missing_receipt",
            "unmatched_document"}

Idle == [at |-> "idle", txs |-> {}, free |-> {}, todo |-> <<>>]

DocStatuses ==
    {"not_started", "candidate", "unmatched", "reconciled", "rejected",
     "ignored", "resolved", "needs_review"}
BankStatuses ==
    {"not_started", "candidate", "missing_receipt", "approved", "reconciled",
     "rejected", "ignored", "resolved", "needs_review"}

TypeOK ==
    /\ bank \in [Txs -> BankStatuses]
    /\ doc \in [Docs -> DocStatuses]
    /\ Len(matches) <= MaxMatches
    /\ \A i \in DOMAIN matches :
        /\ matches[i].doc \in Docs \cup {NoDoc}
        /\ matches[i].tx \in Txs \cup {NoTx}
        /\ matches[i].status \in MatchStatuses
    /\ reviews \subseteq [doc : Docs \cup {NoDoc}, match : 1..MaxMatches,
                          reason : Reasons]
    /\ bankRec \in [Txs -> BankStatuses \cup {None}]
    /\ docRec \in [Docs -> DocStatuses \cup {None}]
    /\ \A p \in Procs : proc[p].at \in {"idle", "run", "dead"}

Init ==
    /\ bank = [t \in Txs |-> "not_started"]
    /\ doc = [d \in Docs |-> "not_started"]
    /\ matches = <<>>
    /\ reviews = {}
    /\ bankRec = [t \in Txs |-> None]
    /\ docRec = [d \in Docs |-> None]
    /\ proc = [p \in Procs |-> Idle]
    /\ ops = 0 /\ crashes = 0
    /\ decided = <<>>
    /\ overlapped = FALSE
    /\ reset = {}

-----------------------------------------------------------------------------
\* What a resolution makes of the document and of the bank transaction.
DocumentStatus(status) ==
    CASE status \in Final -> "reconciled"
      [] status \in {"rejected", "ignored", "resolved"} -> status
      [] OTHER -> "needs_review"

\* Mutant: a decision against a match leaves the transaction reconciled.
BankStatus_Sticky(status) ==
    IF status \in Final \cup {"rejected"} THEN "reconciled"
    ELSE IF status \in {"ignored", "resolved", "missing_receipt", "candidate"}
    THEN status ELSE "needs_review"
BankStatus(status) ==
    CASE status \in Final -> "reconciled"
      [] status \in {"rejected", "ignored", "resolved", "missing_receipt",
                     "candidate"} -> status
      [] OTHER -> "needs_review"

\* What the decision of a review means for its match.
ReviewMeans(reason, status) ==
    CASE status = "ignored" -> "ignored"
      [] reason = "reconciliation_candidate"
         /\ status \in {"approved", "rejected"} -> status
      [] reason \in {"missing_receipt", "unmatched_document"}
         /\ status = "rejected" -> "ignored"
      [] OTHER -> "resolved"

\* _existing_reconciliation: the latest row of that document and that
\* transaction; without a document, the latest row of the transaction.
Latest(S) == IF S = {} THEN 0 ELSE CHOOSE i \in S : \A j \in S : j <= i
Existing(d, t) ==
    Latest({i \in DOMAIN matches :
                matches[i].tx = t /\ (d # NoDoc => matches[i].doc = d)})

\* The writes of a handler.
MatchWrite(i, d, t, s) == [op |-> "match", id |-> i, doc |-> d, tx |-> t,
                           status |-> s]
DocWrite(d, s) == [op |-> "doc", doc |-> d, status |-> s]
DocRecord(d, s) == [op |-> "docRec", doc |-> d, status |-> s]
Queue(d, i, r) == [op |-> "queue", doc |-> d, match |-> i, reason |-> r]
CloseLinked(d) == [op |-> "closeLinked", doc |-> d]

\* The bank transaction is written before its bookkeeping record.  A row
\* without a transaction has no bankTransaction in its metadata.
BankWrites(t, s) ==
    IF t = NoTx THEN <<>>
    ELSE <<[op |-> "bank", tx |-> t, status |-> s],
           [op |-> "bankRec", tx |-> t, status |-> s]>>

CandidateWrites(d, t) ==
    LET i == Existing(d, t) IN
    IF i # 0 /\ matches[i].status \in Kept
    THEN BankWrites(t, BankStatus(matches[i].status))
    ELSE <<MatchWrite(i, d, t, "candidate"), DocWrite(d, "candidate")>>
         \o BankWrites(t, "candidate")
         \o <<Queue(d, i, "reconciliation_candidate"),
              DocRecord(d, "candidate")>>

\* The record of the transaction is written a second time at the end.
MissingWrites(t) ==
    LET i == Existing(NoDoc, t) IN
    IF i # 0 THEN BankWrites(t, matches[i].status)
    ELSE <<MatchWrite(0, NoDoc, t, "missing_receipt")>>
         \o BankWrites(t, "missing_receipt")
         \o <<Queue(NoDoc, 0, "missing_receipt")>>

UnmatchedWrites(d) ==
    IF Existing(d, NoTx) # 0 THEN <<>>
    ELSE <<MatchWrite(0, d, NoTx, "unmatched_document"),
           DocWrite(d, "unmatched"), DocRecord(d, "unmatched"),
           Queue(d, 0, "unmatched_document")>>

\* resolve_match: the row, the document with its record and reviews, the
\* transaction with its record.
ResolveWrites(i, status) ==
    LET d == matches[i].doc IN
    <<MatchWrite(i, d, matches[i].tx, status)>>
    \o (IF d = NoDoc THEN <<>>
        ELSE <<DocWrite(d, DocumentStatus(status)),
               DocRecord(d, DocumentStatus(status)), CloseLinked(d)>>)
    \o BankWrites(matches[i].tx, BankStatus(status))

-----------------------------------------------------------------------------
Busy == {p \in Procs : proc[p].at # "idle" /\ proc[p].at # "dead"}

Begin(p, state) ==
    /\ proc[p].at = "idle"
    /\ ops < MaxOps
    /\ ops' = ops + 1
    /\ proc' = [proc EXCEPT ![p] = state]
    /\ overlapped' = (overlapped \/ Busy # {})

\* Handlers that only write.
Start(p, writes) == Begin(p, [Idle EXCEPT !.at = "run", !.todo = writes])

Untouched ==
    UNCHANGED <<bank, doc, matches, reviews, bankRec, docRec, crashes, reset>>

\* Transactions that are not final are matched with every document that is
\* processed, also with those that are reconciled.
Candidates == {t \in Txs : bank[t] \notin BankFinal}
Run(p) ==
    /\ Begin(p, [Idle EXCEPT !.at = "run", !.txs = Candidates, !.free = Docs])
    /\ Untouched /\ UNCHANGED decided

\* reconcile: each transaction takes the best document that is left.
Best(t, free) ==
    {d \in free : /\ Score[t, d] > 0
                  /\ \A e \in free : Score[t, e] <= Score[t, d]}

Result(p, txs, free, writes) ==
    /\ proc[p].at = "run" /\ proc[p].todo = <<>>
    /\ proc' = [proc EXCEPT ![p] = [at |-> "run", txs |-> txs, free |-> free,
                                    todo |-> writes]]
    /\ Untouched /\ UNCHANGED <<ops, decided, overlapped>>

Match(p) ==
    \E t \in proc[p].txs :
    \E d \in Best(t, proc[p].free) :
        Result(p, proc[p].txs \ {t}, proc[p].free \ {d},
               CandidateWrites(d, t))

Missing(p) ==
    \E t \in proc[p].txs :
        /\ Best(t, proc[p].free) = {}
        /\ Result(p, proc[p].txs \ {t}, proc[p].free, MissingWrites(t))

Unmatched(p) ==
    /\ proc[p].txs = {}
    /\ \E d \in proc[p].free :
        Result(p, {}, proc[p].free \ {d}, UnmatchedWrites(d))

\* Both end with run_completed or with the answer.
Finish(p) ==
    /\ proc[p] = [Idle EXCEPT !.at = "run"]
    /\ proc' = [proc EXCEPT ![p] = Idle]
    /\ Untouched /\ UNCHANGED <<ops, decided, overlapped>>

\* The operator decides a match on the dashboard.
Resolve(p, i, status) ==
    /\ Start(p, ResolveWrites(i, status))
    /\ decided' = [decided EXCEPT ![i] = status]
    /\ Untouched

\* The operator decides a review: it is closed, its match resolved, and the
\* document's record written once more.
ResolveReview(p, r, status) ==
    LET meant == ReviewMeans(r.reason, status) IN
    /\ Start(p, <<[op |-> "close", review |-> r]>>
                \o ResolveWrites(r.match, meant)
                \o (IF r.doc = NoDoc THEN <<>>
                    ELSE <<[op |-> "refresh", doc |-> r.doc]>>))
    /\ decided' = [decided EXCEPT ![r.match] = meant]
    /\ Untouched

\* A statement that is imported again overwrites the transaction.
Reimport(p, t) ==
    /\ Start(p, <<[op |-> "import", tx |-> t]>>)
    /\ Untouched /\ UNCHANGED decided

\* refresh_documents and refresh_bank_transactions take the status from the
\* document and from the transaction.
Refresh(p) ==
    /\ \/ \E d \in Docs : Start(p, <<[op |-> "refresh", doc |-> d]>>)
       \/ \E t \in Txs : Start(p, <<[op |-> "refreshBank", tx |-> t]>>)
    /\ Untouched /\ UNCHANGED decided

-----------------------------------------------------------------------------
\* A new row gets the next id, which the review that follows refers to.
IdOf(w) == IF w.id = 0 THEN Len(matches) + 1 ELSE w.id
WriteMatch(w) ==
    LET row == [doc |-> w.doc, tx |-> w.tx, status |-> w.status] IN
    /\ IF w.id = 0
       THEN /\ Len(matches) < MaxMatches
            /\ matches' = Append(matches, row)
            /\ decided' = Append(decided, None)
       ELSE /\ matches' = [matches EXCEPT ![w.id] = row]
            /\ UNCHANGED decided
    /\ UNCHANGED <<bank, doc, reviews, bankRec, docRec, reset>>

Numbered(rest, i) ==
    [k \in DOMAIN rest |->
        IF rest[k].op = "queue" THEN [rest[k] EXCEPT !.match = i] ELSE rest[k]]

\* One review of a document and a reason is open; missing receipts have no
\* document and are always queued.
WriteReview(w) ==
    /\ reviews' =
        IF w.doc # NoDoc /\ \E r \in reviews : r.doc = w.doc /\ r.reason = w.reason
        THEN reviews
        ELSE reviews \cup {[doc |-> w.doc, match |-> w.match,
                            reason |-> w.reason]}
    /\ UNCHANGED <<bank, doc, matches, bankRec, docRec, decided, reset>>

Linked(d) ==
    {r \in reviews : /\ r.doc = d
                     /\ r.reason \in {"reconciliation_candidate",
                                      "unmatched_document"}}

Commit(p) ==
    LET w == Head(proc[p].todo)
        rest == Tail(proc[p].todo)
    IN
    /\ proc[p].at = "run" /\ proc[p].todo # <<>>
    /\ proc' = [proc EXCEPT ![p].todo =
                    IF w.op = "match" THEN Numbered(rest, IdOf(w)) ELSE rest]
    /\ \/ w.op = "match" /\ WriteMatch(w)
       \/ w.op = "queue" /\ WriteReview(w)
       \/ /\ w.op \in {"close", "closeLinked"}
          /\ reviews' = reviews \ (IF w.op = "close" THEN {w.review}
                                                     ELSE Linked(w.doc))
          /\ UNCHANGED <<bank, doc, matches, bankRec, docRec, decided, reset>>
       \/ /\ w.op = "doc"
          /\ doc' = [doc EXCEPT ![w.doc] = w.status]
          /\ UNCHANGED <<bank, matches, reviews, bankRec, docRec, decided,
                         reset>>
       \/ /\ w.op \in {"docRec", "refresh"}
          /\ docRec' = [docRec EXCEPT ![w.doc] =
                            IF w.op = "refresh" THEN doc[w.doc] ELSE w.status]
          /\ UNCHANGED <<bank, doc, matches, reviews, bankRec, decided, reset>>
       \/ /\ w.op = "bank"
          /\ bank' = [bank EXCEPT ![w.tx] = w.status]
          /\ UNCHANGED <<doc, matches, reviews, bankRec, docRec, decided,
                         reset>>
       \/ /\ w.op = "import"
          /\ bank' = [bank EXCEPT ![w.tx] = "not_started"]
          /\ reset' = reset \cup {w.tx}
          /\ UNCHANGED <<doc, matches, reviews, bankRec, docRec, decided>>
       \/ /\ w.op \in {"bankRec", "refreshBank"}
          /\ bankRec' = [bankRec EXCEPT ![w.tx] =
                            IF w.op = "refreshBank" THEN bank[w.tx]
                                                    ELSE w.status]
          /\ reset' = reset \ {w.tx}
          /\ UNCHANGED <<bank, doc, matches, reviews, docRec, decided>>
    /\ UNCHANGED <<ops, crashes, overlapped>>

\* A process dies between two writes.
Crash(p) ==
    /\ proc[p].at = "run"
    /\ crashes < MaxCrashes
    /\ crashes' = crashes + 1
    /\ proc' = [proc EXCEPT ![p] = Idle]
    /\ UNCHANGED <<bank, doc, matches, reviews, bankRec, docRec, ops, decided,
                   overlapped, reset>>

Next ==
    \E p \in Procs :
        \/ Run(p) \/ Match(p) \/ Missing(p) \/ Unmatched(p) \/ Finish(p)
        \/ \E i \in DOMAIN matches :
            \E s \in ResolutionStatuses : Resolve(p, i, s)
        \/ \E r \in reviews :
            \E s \in {"approved", "rejected", "resolved", "ignored"} :
                ResolveReview(p, r, s)
        \/ \E t \in Txs : Reimport(p, t)
        \/ Refresh(p)
        \/ Commit(p)
        \/ Crash(p)

Spec == Init /\ [][Next]_vars

-----------------------------------------------------------------------------
Quiet == Busy = {} /\ crashes = 0 /\ ~ overlapped

Decisive(s) == s \in Kept

\* When handlers follow one another and none dies, what the operator decided
\* of a match stands, however often the matcher runs and statements are
\* imported again; a transaction and a document are reconciled only through a
\* match that is; records say what their rows say, except for a transaction
\* that was just imported again; and a decided match leaves no review of its
\* document behind that asks for the decision again.
\* (run, resolve_match, record_reconciliation_state)
DecisionsStand ==
    Quiet =>
        /\ \A i \in DOMAIN matches :
            decided[i] \in Kept => matches[i].status = decided[i]
        /\ \A t \in Txs : bank[t] \in Final =>
            \E i \in DOMAIN matches :
                matches[i].tx = t /\ matches[i].status \in Final
        /\ \A d \in Docs : doc[d] = "reconciled" =>
            /\ \E i \in DOMAIN matches :
                matches[i].doc = d /\ matches[i].status \in Final
            /\ Linked(d) = {}
        /\ \A d \in Docs : docRec[d] \in {None, doc[d]}
        /\ \A t \in Txs \ reset : bankRec[t] \in {None, bank[t]}
=============================================================================
