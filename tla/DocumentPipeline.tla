-------------------------- MODULE DocumentPipeline --------------------------
(***************************************************************************)
(* From an imported document to a draft: LocalDocumentProcessor            *)
(* (process_imported, process_document, retry_document),                   *)
(* LocalReviewService.resolve_review_item and                              *)
(* LocalRoutingService.prepare_document_route, over the tables             *)
(* bookkeeping_documents, duplicate_candidates, review_items and           *)
(* routing_attempts.                                                       *)
(*                                                                         *)
(* The worker and the threads of the API run the same operations on the    *)
(* same rows, under no common lock: an endpoint that processes, decides or *)
(* routes a document asks for none.  A document that was read once is      *)
(* written later, in a transaction of its own that compares nothing.       *)
(*                                                                         *)
(* A document is its number: the id of its row.  Which documents show the  *)
(* same receipt is given; the detector recognises what was read, and the   *)
(* operator decides a pair as it is.  All review reasons other than        *)
(* duplicate_candidate are one.                                            *)
(*                                                                         *)
(* Not modelled: the repairs that begin a batch (cyclic links, pairs whose *)
(* evidence changed) and the reprocessing of stored OCR, since the         *)
(* evidence of a document does not change here; category and vendor rules, *)
(* bookkeeping records, blocked routes.                                    *)
(***************************************************************************)
EXTENDS Integers, FiniteSets

CONSTANTS
    NDocs,       \* documents are numbered in the order of their import
    Same(_, _),  \* two documents show the same receipt
    Alike(_, _), \* the detector takes them for the same, rightly or not
    Procs,       \* the worker and the API threads
    MaxFaults    \* bound: readings that fail and processes that die

VARIABLES
    doc,        \* the row of each document, with its open reviews
    pair,       \* status of the duplicate candidate of each pair
    routed,     \* documents that have a prepared draft
    proc,       \* what each process is doing
    faults,
    \* Observations, never read by the code's guards:
    missed,     \* documents whose comparison named no older copy (or, without
                \* one, no lookalike) although there is one
    torn,       \* documents on which two operations ran at the same time, or
                \* one died half-way
    stale       \* documents of which a candidate was opened or decided by
                \* another operation while they were being decided

vars == <<doc, pair, routed, proc, faults, missed, torn, stale>>

Docs == 1..NDocs
Pairs == {dc \in Docs \X Docs : dc[1] > dc[2]}
Pair(d, e) == IF d > e THEN <<d, e>> ELSE <<e, d>>
Other(c, d) == IF c[1] = d THEN c[2] ELSE c[1]

None == 0

Statuses == {"absent", "imported", "processed", "needs_review", "failed",
             "reviewed", "duplicate", "export_draft_prepared"}

Absent == [status |-> "absent", link |-> None, read |-> FALSE,
           dupReview |-> FALSE, otherReview |-> FALSE]

Idle == [at |-> "idle", todo |-> {}, d |-> None, e |-> None, others |-> {},
         flag |-> FALSE, to |-> "absent"]

TypeOK ==
    /\ doc \in [Docs -> [status : Statuses, link : 0..NDocs, read : BOOLEAN,
                         dupReview : BOOLEAN, otherReview : BOOLEAN]]
    /\ pair \in [Pairs -> {"none", "pending", "approved", "rejected"}]
    /\ routed \subseteq Docs /\ missed \subseteq Docs /\ torn \subseteq Docs
    /\ stale \subseteq Docs
    /\ \A p \in Procs :
        /\ proc[p].at \in {"idle", "next", "match", "update", "reviews",
                           "queue", "resolve", "supersede", "link", "close", "remain",
                           "final", "draft"}
        /\ proc[p].todo \subseteq Docs /\ proc[p].others \subseteq Pairs
        /\ proc[p].d \in 0..NDocs /\ proc[p].e \in 0..NDocs
        /\ proc[p].flag \in BOOLEAN /\ proc[p].to \in Statuses

Init ==
    /\ doc = [d \in Docs |-> Absent]
    /\ pair = [c \in Pairs |-> "none"]
    /\ routed = {} /\ missed = {} /\ torn = {} /\ stale = {}
    /\ proc = [p \in Procs |-> Idle]
    /\ faults = 0

\* Somebody else is at work on the document.
Meet(p, d) == IF \E q \in Procs \ {p} : proc[q].d = d THEN torn \cup {d} ELSE torn

\* Somebody else is deciding a document of the pair that is written here.
Overtaken(p, c) ==
    stale \cup {d \in {c[1], c[2]} : \E q \in Procs \ {p} :
                    proc[q].d = d /\ proc[q].at \in {"resolve", "supersede", "link"}}

Goto(p, pc) == proc' = [proc EXCEPT ![p].at = pc]
Stop(p) == proc' = [proc EXCEPT ![p] = Idle]

\* Mutant: a candidate that was decided may be decided again.
OpenPairs_Any(d) ==
    {c \in Pairs : d \in {c[1], c[2]} /\ pair[c] # "none"}
\* The open candidates that get_document hands over with a document.
OpenPairs(d) ==
    {c \in Pairs : d \in {c[1], c[2]} /\ pair[c] = "pending"}

\* Mutant: a duplicate review does not hold a document back.
HasReview_Other(d) == doc[d].otherReview
HasReview(d) == doc[d].dupReview \/ doc[d].otherReview

\* The intake registers the next document.
Import(d) ==
    /\ doc[d].status = "absent"
    /\ \A e \in Docs : e < d => doc[e].status # "absent"
    /\ doc' = [doc EXCEPT ![d].status = "imported"]
    /\ UNCHANGED <<pair, routed, proc, faults, missed, torn, stale>>

(***************************************************************************)
(* Processing.                                                             *)
(***************************************************************************)
BeginBatch(p) ==
    /\ proc[p] = Idle
    /\ \E d \in Docs : doc[d].status = "imported"
    /\ proc' = [proc EXCEPT ![p].at = "next",
                    ![p].todo = {d \in Docs : doc[d].status = "imported"}]
    /\ UNCHANGED <<doc, pair, routed, faults, missed, torn, stale>>

\* The endpoint that processes a document takes one of any status.
BeginProcess(p, d) ==
    /\ proc[p] = Idle
    /\ doc[d].status # "absent"
    /\ proc' = [proc EXCEPT ![p].at = "next", ![p].todo = {d}]
    /\ UNCHANGED <<doc, pair, routed, faults, missed, torn, stale>>

BeginRetry(p, d) ==
    /\ proc[p] = Idle
    /\ doc[d].status = "failed"
    /\ doc' = [doc EXCEPT ![d].status = "imported"]
    /\ proc' = [proc EXCEPT ![p].at = "next", ![p].todo = {d}]
    /\ UNCHANGED <<pair, routed, faults, missed, torn, stale>>

\* The newest document of the batch comes first.
Newest(S) == CHOOSE d \in S : \A e \in S : e <= d

\* A batch goes on with its next document or is over.
Resume(p, todo) ==
    proc' = [proc EXCEPT ![p] = IF todo = {} THEN Idle
                                ELSE [Idle EXCEPT !.at = "next", !.todo = todo]]
NextDocument(p) == Resume(p, proc[p].todo)

Read(p) ==
    /\ proc[p].at = "next"
    /\ LET d == Newest(proc[p].todo)
           rest == proc[p].todo \ {d}
       IN IF doc[d].link # None
          THEN doc' = [doc EXCEPT ![d].dupReview = TRUE] /\ Resume(p, rest)
          ELSE /\ proc' = [proc EXCEPT ![p].at = "match", ![p].d = d,
                                       ![p].todo = rest]
               /\ UNCHANGED doc
    /\ torn' = Meet(p, Newest(proc[p].todo))
    /\ UNCHANGED <<pair, routed, faults, missed, stale>>

\* A missing source file asks for review; anything else that goes wrong while
\* the document is read and categorised makes it fail.
ReadingFails(p) ==
    /\ proc[p].at = "match"
    /\ faults < MaxFaults
    /\ faults' = faults + 1
    /\ \E status \in {"needs_review", "failed"} :
            doc' = [doc EXCEPT ![proc[p].d].status = status,
                              ![proc[p].d].otherReview = TRUE]
    /\ NextDocument(p)
    /\ UNCHANGED <<pair, routed, missed, torn, stale>>

\* Mutant: a confirmed duplicate is compared like an original.
Comparable_Linked(d) ==
    {e \in Docs : e < d /\ doc[e].read /\ doc[e].status # "failed"}
\* What _duplicate_match compares a document with: of a document that was
\* never read there is no vendor, date or amount to compare.
Comparable(d) ==
    {e \in Docs : e < d /\ doc[e].read /\ doc[e].link = None
                  /\ doc[e].status \notin {"duplicate", "failed"}}
Matches(d) == {e \in Comparable(d) : Alike(d, e)}

\* What the comparison should have named: an older document of the same
\* receipt, or else one that looks like it.
Due(d) ==
    LET copies == {e \in Docs : e < d /\ Same(d, e)}
    IN IF copies # {} THEN copies ELSE {e \in Docs : e < d /\ Alike(d, e)}

\* The first match becomes a candidate, pending whatever it was.
Match(p) ==
    LET d == proc[p].d IN
    /\ proc[p].at = "match"
    /\ \E e \in IF Matches(d) = {} THEN {None} ELSE Matches(d), flag \in BOOLEAN :
        /\ pair' = IF e = None THEN pair ELSE [pair EXCEPT ![<<d, e>>] = "pending"]
        /\ proc' = [proc EXCEPT ![p].at = "update", ![p].e = e, ![p].flag = flag]
        /\ stale' = IF e = None THEN stale ELSE Overtaken(p, <<d, e>>)
        /\ missed' = IF Due(d) # {} /\ e \notin Due(d) THEN missed \cup {d} ELSE missed
    /\ UNCHANGED <<doc, routed, faults, torn>>

Update(p) ==
    LET d == proc[p].d
        held == proc[p].e # None \/ proc[p].flag
    IN
    /\ proc[p].at = "update"
    /\ doc' = [doc EXCEPT ![d].read = TRUE,
                          ![d].status = IF held THEN "needs_review" ELSE "processed"]
    /\ Goto(p, "reviews")
    /\ UNCHANGED <<pair, routed, faults, missed, torn, stale>>

\* Reviews whose reason is gone are resolved, then those of the reasons found
\* are queued, duplicate_candidate last.
Reviews(p) ==
    LET d == proc[p].d IN
    /\ proc[p].at = "reviews"
    /\ doc' = [doc EXCEPT ![d].otherReview = proc[p].flag,
                          ![d].dupReview = @ /\ proc[p].e # None]
    /\ IF proc[p].e # None THEN Goto(p, "queue") ELSE NextDocument(p)
    /\ UNCHANGED <<pair, routed, faults, missed, torn, stale>>

QueueDuplicate(p) ==
    /\ proc[p].at = "queue"
    /\ doc' = [doc EXCEPT ![proc[p].d].dupReview = TRUE]
    /\ NextDocument(p)
    /\ UNCHANGED <<pair, routed, faults, missed, torn, stale>>

Process(p) ==
    \/ BeginBatch(p) \/ Read(p) \/ ReadingFails(p) \/ Match(p)
    \/ Update(p) \/ Reviews(p) \/ QueueDuplicate(p)
    \/ \E d \in Docs : BeginProcess(p, d) \/ BeginRetry(p, d)

(***************************************************************************)
(* Reviews.                                                                *)
(***************************************************************************)
\* An approval closes the other candidates that the document had when it was
\* read.
Superseded(d, c) == IF Same(c[1], c[2]) THEN OpenPairs(d) \ {c} ELSE {}

\* The operator decides one open candidate, older or newer, of a document.
BeginDecision(p, d, c) ==
    /\ proc[p] = Idle
    /\ doc[d].dupReview
    /\ c \in OpenPairs(d)
    /\ proc' = [proc EXCEPT ![p] =
            [Idle EXCEPT !.at = "resolve", !.d = d, !.e = Other(c, d),
                         !.flag = Same(c[1], c[2]),
                         !.others = Superseded(d, c),
                         !.todo = {doc[d].link} \ {None}]]
    /\ torn' = Meet(p, d)
    /\ UNCHANGED <<doc, pair, routed, faults, missed, stale>>

\* A rejection takes away the link that the document had to the other one.
Unlinks(p) == proc[p].e \in proc[p].todo

ResolveCandidate(p) ==
    LET c == Pair(proc[p].d, proc[p].e) IN
    /\ proc[p].at = "resolve"
    /\ pair' = [pair EXCEPT ![c] = IF proc[p].flag THEN "approved" ELSE "rejected"]
    /\ Goto(p, IF proc[p].others = {} THEN "link" ELSE "supersede")
    /\ stale' = Overtaken(p, c)
    /\ UNCHANGED <<doc, routed, faults, missed, torn>>

\* Each in a transaction of its own, whatever has become of it.
Supersede(p) ==
    /\ proc[p].at = "supersede"
    /\ \E c \in proc[p].others :
        /\ pair' = [pair EXCEPT ![c] = "rejected"]
        /\ proc' = [proc EXCEPT ![p].others = @ \ {c},
                ![p].at = IF proc[p].others = {c} THEN "link" ELSE "supersede"]
        /\ stale' = Overtaken(p, c)
    /\ UNCHANGED <<doc, routed, faults, missed, torn>>

Link(p) ==
    LET d == proc[p].d
        e == proc[p].e
    IN
    /\ proc[p].at = "link"
    /\ doc' = IF proc[p].flag
              THEN [doc EXCEPT ![d].link = e, ![d].status = "duplicate"]
              ELSE IF Unlinks(p) THEN [doc EXCEPT ![d].link = None]
              ELSE doc
    /\ Goto(p, "close")
    /\ UNCHANGED <<pair, routed, faults, missed, torn, stale>>

\* Mutant: the first decision closes the review.
StaysOpen_Never(d) == FALSE
StaysOpen(d) == OpenPairs(d) # {}

\* _final_processing_status is found out first and written later.
End(p, status) ==
    proc' = [proc EXCEPT ![p] = [Idle EXCEPT !.at = "final", !.d = proc[p].d,
                                             !.to = status]]

\* An approval closes all reviews of the document.
CloseReview(p) ==
    LET d == proc[p].d IN
    /\ proc[p].at = "close"
    /\ doc' = IF proc[p].flag
              THEN [doc EXCEPT ![d].dupReview = FALSE, ![d].otherReview = FALSE]
              ELSE [doc EXCEPT ![d].dupReview = @ /\ StaysOpen(d)]
    /\ End(p, IF proc[p].flag THEN "duplicate"
              ELSE IF doc'[d].dupReview \/ doc'[d].otherReview
                   THEN "needs_review" ELSE "reviewed")
    /\ UNCHANGED <<pair, routed, faults, missed, torn, stale>>

\* Another review is applied (or turned down, which approves nothing).
ResolveOther(p, d, applied) ==
    /\ proc[p] = Idle
    /\ doc[d].otherReview
    /\ doc' = [doc EXCEPT ![d].otherReview = FALSE,
                          ![d].status = IF applied THEN "needs_review" ELSE @]
    /\ proc' = [proc EXCEPT ![p] =
                    [Idle EXCEPT !.at = "remain", !.d = d, !.flag = applied]]
    /\ torn' = Meet(p, d)
    /\ UNCHANGED <<pair, routed, faults, missed, stale>>

RemainingReviews(p) ==
    /\ proc[p].at = "remain"
    /\ End(p, IF proc[p].flag /\ ~HasReview(proc[p].d) THEN "reviewed"
                                                     ELSE "needs_review")
    /\ UNCHANGED <<doc, pair, routed, faults, missed, torn, stale>>

FinalStatus(p) ==
    /\ proc[p].at = "final"
    /\ doc' = [doc EXCEPT ![proc[p].d].status = proc[p].to]
    /\ Stop(p)
    /\ UNCHANGED <<pair, routed, faults, missed, torn, stale>>

Review(p) ==
    \/ \E d \in Docs, c \in Pairs : BeginDecision(p, d, c)
    \/ ResolveCandidate(p) \/ Supersede(p) \/ Link(p) \/ CloseReview(p)
    \/ \E d \in Docs, applied \in BOOLEAN : ResolveOther(p, d, applied)
    \/ RemainingReviews(p) \/ FinalStatus(p)

(***************************************************************************)
(* Routing.                                                                *)
(***************************************************************************)
Routable(d) ==
    /\ doc[d].link = None
    /\ doc[d].status \in {"processed", "reviewed"}
    /\ ~HasReview(d)
    /\ doc[d].read

BeginRoute(p, d) ==
    /\ proc[p] = Idle
    /\ Routable(d)
    /\ proc' = [proc EXCEPT ![p] = [Idle EXCEPT !.at = "draft", !.d = d]]
    /\ torn' = Meet(p, d)
    /\ UNCHANGED <<doc, pair, routed, faults, missed, stale>>

\* A document whose operation has a draft already keeps its status.
Draft(p) ==
    /\ proc[p].at = "draft"
    /\ routed' = routed \cup {proc[p].d}
    /\ \/ doc' = [doc EXCEPT ![proc[p].d].status = "export_draft_prepared"]
       \/ proc[p].d \in routed /\ UNCHANGED doc
    /\ Stop(p)
    /\ UNCHANGED <<pair, faults, missed, torn, stale>>

Route(p) == Draft(p) \/ \E d \in Docs : BeginRoute(p, d)

Crash(p) ==
    /\ faults < MaxFaults
    /\ proc[p] # Idle
    /\ faults' = faults + 1
    /\ torn' = torn \cup ({proc[p].d} \ {None})
    /\ Stop(p)
    /\ UNCHANGED <<doc, pair, routed, missed, stale>>

Next ==
    \/ \E d \in Docs : Import(d)
    \/ \E p \in Procs : Process(p) \/ Review(p) \/ Route(p) \/ Crash(p)

Spec == Init /\ [][Next]_vars

(***************************************************************************)
(* Properties.                                                             *)
(***************************************************************************)
\* Nobody is at work on the document and nobody cut a work on it short.
Settled(d) == d \notin torn /\ \A p \in Procs : proc[p].d # d

\* "Detect duplicates with exact fingerprints and fuzzy matching"
\* (fab_comprehensive_scope.md:69): of the documents of one receipt at most one
\* gets a draft.  The newest document of a batch is read first and compared only with
\* older ones, which have not been read yet; neither becomes a duplicate.
OneDraftPerReceipt ==
    \A c \in Pairs : Same(c[1], c[2]) => ~({c[1], c[2]} \subseteq routed)

\* Once the comparison has named the older copy, the two never both get a
\* draft: whatever is retried, processed again, decided, resolved and routed
\* in whatever order, until one document is confirmed to be the duplicate.
\* Unless two operations on the newer document overlap or one dies half-way.
\* This is so for up to three documents.  Of four, an approval for a document
\* in the middle supersedes the pair of a newer copy, whose review stays but
\* is then closed by the rejection of its last, unrelated candidate.
OneDraft ==
    \A c \in Pairs :
        /\ Same(c[1], c[2]) /\ {c[1], c[2]} \subseteq routed
        => c[1] \in missed \cup torn

\* Nobody decided a document of the pair on a copy that others made old.
Intact(c) == {c[1], c[2]} \cap (torn \cup stale) = {}

\* Documents that reach themselves along links of intact pairs.
Step(S) == {doc[d].link : d \in {x \in S : doc[x].link # None
                                             /\ Intact(Pair(x, doc[x].link))}}
Reach(d) ==
    LET reach[n \in 1..NDocs] ==
            IF n = 1 THEN Step({d}) ELSE reach[n - 1] \cup Step(reach[n - 1])
    IN reach[NDocs]
InCycle == {d \in Docs : d \in Reach(d)}

\* Confirmed duplicates lead to a document that is none: links form no cycle,
\* in which every copy of a receipt would be set aside as a duplicate of
\* another.  Decisions may run at the same time; a cycle takes a document
\* whose candidates another operation wrote while it was being decided.
LinksEnd == InCycle = {}

\* A document with an undecided candidate is held by the review in which it
\* is decided: no reprocessing, other decision or other review takes the
\* review away and leaves the pair behind.  duplicate_candidates and
\* bookkeeping_documents agree: a pair is approved if and only if one of its
\* documents is linked to the other, although the two tables are written in
\* different transactions, and a later decision of either document may write
\* them again.  The second part leaves out documents whose candidates another
\* operation wrote while they were being decided: resolve_duplicate_candidate
\* compares nothing, and an approval then supersedes, from its old copy of
\* the document, a pair that somebody else has just approved.
HeldUntilDecided ==
    \A c \in Pairs :
        /\ pair[c] = "pending" /\ Settled(c[1]) /\ c[1] \notin missed
                => doc[c[1]].dupReview
        /\ Settled(c[1]) /\ Settled(c[2]) /\ Intact(c)
                => (pair[c] = "approved"
                        <=> doc[c[1]].link = c[2] \/ doc[c[2]].link = c[1])
=============================================================================
