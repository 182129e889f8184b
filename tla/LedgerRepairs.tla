---------------------------- MODULE LedgerRepairs ---------------------------
(***************************************************************************)
(* The repairs of LocalDocumentProcessor over documents that earlier       *)
(* versions and earlier readings left behind: cyclic duplicate links,      *)
(* duplicate pairs whose evidence changed, category reviews of trusted     *)
(* vendors, blank OCR, machine reviews of stored OCR, and document types.  *)
(*                                                                         *)
(* process_imported runs the first three before its batch and the last     *)
(* after it; the worker and the API run the others.  A repair plans on     *)
(* what it reads and then writes document by document, in transactions of  *)
(* their own, while operators correct and decide.  One repair is at work   *)
(* at a time.  How a document is read, compared and decided step by step   *)
(* is DocumentPipeline's; here each of these is one step.                  *)
(***************************************************************************)
EXTENDS Integers, Sequences, FiniteSets, SequencesExt

CONSTANTS
    NDocs,      \* documents, numbered in the order of their import
    Past,       \* what earlier versions may have left: [link, open,
                \* reviews, untyped]
    MaxOps,     \* bound: repairs that are begun and what operators do
    MaxCrashes  \* bound: processes that die

VARIABLES
    doc,        \* bookkeeping_documents with the reasons of open reviews
    open,       \* open rows of duplicate_candidates:
                \* <<document, candidate, match_type>>
    alike,      \* pairs that the detector takes for duplicates by now
    todo,       \* the writes that the repair at work has still to make
    ops, crashes,
    \* Observations:
    confirmed,  \* links that an operator decided and that are in no cycle
    suspects,   \* documents whose cyclic link was cleared and of which no
                \* operator has decided since
    claims,     \* claims of the same bytes that no operator has decided
    reads,      \* how often blank OCR was retried
    met         \* an operator decided or corrected while a repair was at work

vars == <<doc, open, alike, todo, ops, crashes, confirmed, suspects, claims,
          reads, met>>

Docs == 1..NDocs
None == 0
Pairs == {{d, e} : d, e \in Docs} \ {{d} : d \in Docs}

Duplicate == "duplicate_candidate"
Category == "low_confidence_categorization"
Blank == "empty_ocr_text"
NonPosting == "non_posting_document_type"
CreditNote == "credit_note_posting_review"
TypeConflict == "document_type_conflict"
Reasons == {Duplicate, Category, Blank, NonPosting, CreditNote, TypeConflict}
\* Kinds of rows: "hash" claims the same bytes of two documents whose current
\* hashes do not say so, "current" has the reason that the detector gives by
\* now, "former" another one.
Kinds == {"hash", "current", "former"}
Statuses == {"processed", "needs_review", "duplicate", "reviewed"}

TypeOK ==
    /\ doc \in [Docs -> [status : Statuses, link : 0..NDocs,
                         reviews : SUBSET Reasons, recovery : BOOLEAN,
                         reassessed : BOOLEAN, typed : BOOLEAN]]
    /\ open \subseteq Docs \X Docs \X Kinds
    /\ alike \subseteq Pairs
    /\ confirmed \subseteq Docs \X Docs /\ suspects \subseteq Docs
    /\ \A i \in DOMAIN todo : todo[i].d \in Docs

Links == [d \in Docs |-> doc[d].link]

\* duplicate_link_cycles: the documents that reach themselves.
Follow(links, S) == {links[d] : d \in S} \ {None}
InCycle(links) ==
    LET reach[n \in 1..NDocs, d \in Docs] ==
            IF n = 1 THEN Follow(links, {d})
            ELSE reach[n - 1, d] \cup Follow(links, reach[n - 1, d])
    IN {d \in Docs : d \in reach[NDocs, d]}

\* A link with an open row still waits for its review; without one it was
\* confirmed.
Row(past, d) ==
    LET rows == {r \in past.open : r[1] = d}
        reviews == past.reviews[d] \cup (IF rows # {} THEN {Duplicate} ELSE {})
    IN [status |-> IF past.link[d] # None /\ rows = {} THEN "duplicate"
                   ELSE IF reviews # {} THEN "needs_review" ELSE "processed",
        link |-> past.link[d], reviews |-> reviews,
        recovery |-> FALSE, reassessed |-> FALSE, typed |-> d \notin past.untyped]

Init ==
    /\ \E past \in Past :
        /\ doc = [d \in Docs |-> Row(past, d)]
        /\ open = past.open
        /\ confirmed = {l \in Docs \X Docs :
                            /\ past.link[l[1]] = l[2]
                            /\ ~ \E r \in past.open : r[1] = l[1]
                            /\ l[1] \notin InCycle(past.link)}
    /\ alike \in SUBSET {c \in Pairs : \A d \in c : Blank \notin doc[d].reviews}
    /\ todo = <<>>
    /\ ops = 0 /\ crashes = 0
    /\ claims = {r \in open : r[3] = "hash"}
    /\ suspects = {} /\ reads = [d \in Docs |-> 0] /\ met = FALSE

-----------------------------------------------------------------------------
AtWork == todo # <<>>

\* A repair, with the writes it has planned; its backup has been taken, or it
\* raises before the first write.
Plan(writes) ==
    /\ ~ AtWork
    /\ writes # <<>>
    /\ ops < MaxOps
    /\ ops' = ops + 1
    /\ todo' = writes
    /\ UNCHANGED <<doc, open, alike, crashes, confirmed, suspects, claims, reads,
                   met>>

Sorted(S) == SetToSortSeq(S, <)
ForEach(S, Writes(_)) == FlattenSeq([i \in 1..Cardinality(S) |-> Writes(Sorted(S)[i])])
Write(op, d, e) == [op |-> op, d |-> d, e |-> e]
WriteRow(op, r) == [op |-> op, d |-> r[1], row |-> r]

\* repair_duplicate_cycles.
CycleWrites(d) ==
    <<Write("clear", d, None), Write("hold", d, None),
      Write("queueCycle", d, None)>>
RepairCycles == Plan(ForEach(InCycle(Links), CycleWrites))

\* duplicate_candidate_reassessment_plan: a pair without a confirmed
\* duplicate and without a claim of the same bytes, which is either linked and
\* waiting, or not linked at all.
Older(c) == CHOOSE d \in c : \A e \in c : d <= e
Newer(c) == CHOOSE d \in c : \A e \in c : e <= d
PairOf(r) == {r[1], r[2]}
RowsOf(c) == {r \in open : PairOf(r) = c}
LinkedTo(c) == {d \in c : doc[d].link \in c}
\* Mutant: a claim of the same bytes is reassessed like the others.
Reassessable_AnyClaim(c) ==
    /\ RowsOf(c) # {}
    /\ \A d \in c : doc[d].status # "duplicate"
    /\ IF LinkedTo(c) # {}
       THEN c \notin alike /\ \A d \in LinkedTo(c) : Duplicate \in doc[d].reviews
       ELSE /\ \A d \in c : doc[d].link = None
            /\ c \in alike => RowsOf(c) # {<<Newer(c), Older(c), "current">>}
Reassessable(c) ==
    /\ RowsOf(c) # {}
    /\ \A r \in RowsOf(c) : r[3] # "hash"
    /\ \A d \in c : doc[d].status # "duplicate"
    /\ IF LinkedTo(c) # {}
       THEN c \notin alike /\ \A d \in LinkedTo(c) : Duplicate \in doc[d].reviews
       ELSE /\ \A d \in c : doc[d].link = None
            /\ c \in alike => RowsOf(c) # {<<Newer(c), Older(c), "current">>}

\* The rows are closed; the newer document gets the row and the review, or
\* the link that waited is taken away.
PairWrites(c) ==
    LET close == [i \in 1..Cardinality(RowsOf(c)) |->
                    WriteRow("close", SetToSeq(RowsOf(c))[i])]
    IN close \o
       IF c \in alike
       THEN <<WriteRow("open", <<Newer(c), Older(c), "current">>),
              Write("queue", Newer(c), None)>>
       ELSE ForEach(LinkedTo(c),
                    LAMBDA d : <<Write("unlink", d, doc[d].link)>>)

SettleWrites(d) == <<Write("release", d, None), Write("settle", d, None)>>

\* reassess_duplicate_candidates: the pairs, then the documents.
Reassess ==
    LET due == {c \in Pairs : Reassessable(c)}
        order == SetToSeq(due)
    IN Plan(FlattenSeq([i \in DOMAIN order |-> PairWrites(order[i])])
            \o ForEach(UNION due, SettleWrites))

\* apply_trusted_category_suggestions.
Trusted(d) ==
    /\ Category \in doc[d].reviews
    /\ doc[d].status # "duplicate"
    /\ doc[d].link # None => Duplicate \in doc[d].reviews
\* Mutant: the document is ready once it has its category.
TrustedWrites_Ready(d) == <<Write("category", d, None), Write("ready", d, None)>>
TrustedWrites(d) == <<Write("category", d, None), Write("final", d, None)>>
ApplyTrusted == Plan(ForEach({d \in Docs : Trusted(d)}, TrustedWrites))

\* reprocess_incomplete: marked before it is read.
Incomplete(d) ==
    doc[d].status = "needs_review" /\ Blank \in doc[d].reviews
        /\ ~ doc[d].recovery
\* Mutant: marked after it is read.
IncompleteWrites_Late(d) ==
    <<Write("readBlank", d, None), Write("mark", d, None)>>
IncompleteWrites(d) ==
    <<Write("mark", d, None), Write("readBlank", d, None)>>
ReprocessIncomplete ==
    Plan(ForEach({d \in Docs : Incomplete(d)}, IncompleteWrites))

\* reprocess_review_queue: read, then marked.
Stored(d) ==
    /\ doc[d].status = "needs_review"
    /\ Blank \notin doc[d].reviews
    /\ doc[d].reviews \cap {Category, TypeConflict} # {}
    /\ doc[d].link # None => Duplicate \in doc[d].reviews
    /\ ~ doc[d].reassessed
StoredWrites(d) ==
    <<Write("readStored", d, None), Write("markStored", d, None)>>
ReprocessStored == Plan(ForEach({d \in Docs : Stored(d)}, StoredWrites))

\* backfill_document_types, on the links that it has read before the first
\* write.
TypeWrites(d) == <<Write("type", d, doc[d].link)>>
BackfillTypes == Plan(ForEach({d \in Docs : ~ doc[d].typed}, TypeWrites))

-----------------------------------------------------------------------------
Hold(d, reviews, status) == [doc EXCEPT ![d].reviews = reviews,
                                        ![d].status = status]
Remaining(d) == IF doc[d].reviews = {} THEN "processed" ELSE "needs_review"

\* The older documents that a reading may name.
Comparable(d) ==
    {e \in Docs : e < d /\ {d, e} \in alike' /\ doc[e].link = None
                  /\ doc[e].status # "duplicate"}

\* Blank OCR has nothing to compare; a recovered one may look like others.
Recovered(d, found) ==
    IF Blank \in doc[d].reviews /\ Blank \notin found
    THEN {{d, e} : e \in {x \in Docs \ {d} : Blank \notin doc[x].reviews}}
    ELSE {}

\* What the OCR may leave to be reviewed.
FoundIn(stored) ==
    {{}, {Category}, {NonPosting}} \cup IF stored THEN {} ELSE {{Blank}}

\* process_document: a link that waits is left alone unless stored OCR is
\* read; stored OCR never takes the duplicate review away.
Reading(d, stored) ==
    IF doc[d].link # None /\ ~ (stored /\ Duplicate \in doc[d].reviews)
    THEN doc' = Hold(d, doc[d].reviews \cup {Duplicate}, doc[d].status)
         /\ UNCHANGED <<open, alike>>
    ELSE \E found \in FoundIn(stored) :
         /\ \E new \in SUBSET Recovered(d, found) : alike' = alike \cup new
         /\ \E e \in IF Comparable(d) = {} THEN {None} ELSE Comparable(d) :
            LET reviews == found
                    \cup (IF e # None \/ (stored /\ Duplicate \in doc[d].reviews)
                          THEN {Duplicate} ELSE {})
            IN /\ open' = IF e = None THEN open
                          ELSE open \cup {<<d, e, "current">>}
               /\ doc' = [doc EXCEPT ![d].reviews = reviews,
                                     ![d].status = IF reviews = {}
                                       THEN "processed" ELSE "needs_review",
                                     ![d].typed = TRUE]

\* What the type found in the stored OCR makes of the open reviews.  One that
\* contradicts the stored type closes none; otherwise a type that is not for
\* posting closes all but the duplicate review of a linked document, and a
\* credit note the review of the other type.
TypedReviews(reviews, link) ==
    {reviews, reviews \cup {TypeConflict},
     {NonPosting} \cup IF link # None THEN reviews \cap {Duplicate} ELSE {},
     reviews \cup {NonPosting, TypeConflict},
     (reviews \ {NonPosting}) \cup {CreditNote},
     reviews \cup {CreditNote, TypeConflict}}
Typing(w) ==
    \E reviews \in TypedReviews(doc[w.d].reviews, w.e) :
        doc' = [doc EXCEPT ![w.d].typed = TRUE, ![w.d].reviews = reviews]

\* Own rows only: of a row that names the document as the candidate, the
\* other document has the review.
OwnRows(d) == {r \in open : r[1] = d}

Apply(w) ==
    \/ /\ w.op = "clear"
       /\ doc' = [doc EXCEPT ![w.d].link = None]
       /\ suspects' = suspects \cup {w.d}
       /\ UNCHANGED <<open, alike, reads>>
    \/ /\ w.op \in {"hold", "ready"}
       /\ doc' = [doc EXCEPT ![w.d].status = IF w.op = "hold"
                            THEN "needs_review" ELSE "processed"]
       /\ UNCHANGED <<open, alike, suspects, reads>>
    \/ /\ w.op \in {"queue", "queueCycle"}
       /\ doc' = [doc EXCEPT ![w.d].reviews = @ \cup {Duplicate}]
       /\ UNCHANGED <<open, alike, suspects, reads>>
    \/ /\ w.op \in {"close", "open"}
       /\ open' = IF w.op = "open" THEN open \cup {w.row}
                                   ELSE open \ {w.row}
       /\ UNCHANGED <<doc, alike, suspects, reads>>
    \/ /\ w.op = "unlink"
       /\ doc' = IF doc[w.d].link = w.e THEN [doc EXCEPT ![w.d].link = None]
                                        ELSE doc
       /\ UNCHANGED <<open, alike, suspects, reads>>
    \/ /\ w.op = "release"
       /\ doc' = IF OwnRows(w.d) = {} /\ doc[w.d].link = None
                 THEN [doc EXCEPT ![w.d].reviews = @ \ {Duplicate}] ELSE doc
       /\ UNCHANGED <<open, alike, suspects, reads>>
    \/ /\ w.op = "settle"
       /\ doc' = IF doc[w.d].status = "needs_review"
                 THEN [doc EXCEPT ![w.d].status = Remaining(w.d)] ELSE doc
       /\ UNCHANGED <<open, alike, suspects, reads>>
    \/ /\ w.op = "category"
       /\ doc' = [doc EXCEPT ![w.d].reviews = @ \ {Category}]
       /\ UNCHANGED <<open, alike, suspects, reads>>
    \/ /\ w.op = "final"
       /\ doc' = [doc EXCEPT ![w.d].status = Remaining(w.d)]
       /\ UNCHANGED <<open, alike, suspects, reads>>
    \/ /\ w.op \in {"mark", "markStored"}
       /\ doc' = IF w.op = "mark" THEN [doc EXCEPT ![w.d].recovery = TRUE]
                                  ELSE [doc EXCEPT ![w.d].reassessed = TRUE]
       /\ UNCHANGED <<open, alike, suspects, reads>>
    \/ /\ w.op \in {"readBlank", "readStored"}
       /\ Reading(w.d, w.op = "readStored")
       /\ reads' = IF w.op = "readBlank" THEN [reads EXCEPT ![w.d] = @ + 1]
                                         ELSE reads
       /\ UNCHANGED suspects
    \/ /\ w.op = "type" /\ Typing(w)
       /\ UNCHANGED <<open, alike, suspects, reads>>

Commit ==
    /\ AtWork
    /\ Apply(Head(todo))
    /\ todo' = Tail(todo)
    /\ UNCHANGED <<ops, crashes, confirmed, claims, met>>

Crash ==
    /\ AtWork
    /\ crashes < MaxCrashes
    /\ crashes' = crashes + 1
    /\ todo' = <<>>
    /\ UNCHANGED <<doc, open, alike, ops, confirmed, suspects, claims, reads, met>>

-----------------------------------------------------------------------------
\* An operator decides an open row of a document that has the review; where
\* no row is open, the review is refused.  Nothing asks whether the other
\* document is itself a duplicate.
Approve(d, e) ==
    /\ doc' = [doc EXCEPT ![d].link = e, ![d].status = "duplicate",
                          ![d].reviews = {}]
    /\ open' = {r \in open : d \notin PairOf(r)}
    /\ confirmed' = {l \in {x \in confirmed : x[1] # d} \cup {<<d, e>>} :
                        l[1] \notin InCycle([Links EXCEPT ![d] = e])}
Reject(d, e) ==
    /\ \E r \in RowsOf({d, e}) : open' = open \ {r}
    /\ LET rest == {r \in open' : d \in PairOf(r)}
           reviews == IF rest = {} THEN doc[d].reviews \ {Duplicate}
                                   ELSE doc[d].reviews
       IN doc' = [doc EXCEPT ![d].link = IF @ = e THEN None ELSE @,
                             ![d].reviews = reviews,
                             ![d].status = IF reviews = {} THEN "reviewed"
                                                        ELSE "needs_review"]
    /\ UNCHANGED confirmed

Decide(d, e) ==
    /\ ops < MaxOps /\ ops' = ops + 1
    /\ Duplicate \in doc[d].reviews
    /\ RowsOf({d, e}) # {}
    /\ Approve(d, e) \/ Reject(d, e)
    /\ suspects' = suspects \ {d}
    /\ claims' = claims \cap open'
    /\ met' = (met \/ AtWork)
    /\ UNCHANGED <<alike, todo, crashes, reads>>

\* A correction may show that two documents differ, or give the detector
\* another reason.
Correct(c) ==
    /\ ops < MaxOps /\ ops' = ops + 1
    /\ c \in alike
    /\ \/ alike' = alike \ {c} /\ UNCHANGED open
       \/ /\ open' = {IF PairOf(r) = c /\ r[3] = "current"
                      THEN <<r[1], r[2], "former">> ELSE r : r \in open}
          /\ open' # open
          /\ UNCHANGED alike
    /\ met' = (met \/ AtWork)
    /\ UNCHANGED <<doc, todo, crashes, confirmed, suspects, claims, reads>>

Next ==
    \/ RepairCycles \/ Reassess \/ ApplyTrusted
    \/ ReprocessIncomplete \/ ReprocessStored \/ BackfillTypes
    \/ Commit \/ Crash
    \/ \E d, e \in Docs : Decide(d, e)
    \/ \E c \in Pairs : Correct(c)

Spec == Init /\ [][Next]_vars

-----------------------------------------------------------------------------
Quiet == ~ AtWork /\ crashes = 0 /\ ~ met

\* Blank OCR is retried once, also when the process dies while it reads.  Only
\* an operator closes a claim of the same bytes ("Never discard an existing
\* byte-identity claim without both current hashes").  Between repairs that ran
\* to their end with no operator in their way: the links that operators decided
\* stand; a document that waits for review has one open; and a document with a
\* row of its own, of a pair that still looks like a duplicate, has a review
\* that holds it.
\* (process_imported, reprocess_incomplete, reprocess_review_queue)
RepairsKeepGates ==
    /\ \A d \in Docs : reads[d] <= 1
    /\ claims \subseteq open
    /\ Quiet =>
        /\ \A l \in confirmed : doc[l[1]].link = l[2]
        /\ \A d \in Docs :
            /\ doc[d].status = "needs_review" => doc[d].reviews # {}
            /\ doc[d].status = "processed" => Duplicate \notin doc[d].reviews
        /\ \A r \in open :
            PairOf(r) \in alike
                => doc[r[1]].reviews \cap {Duplicate, NonPosting} # {}

\* "Remove cyclic confirmed links while preserving every duplicate review
\* gate" (repair_duplicate_cycles, local_processing.py:402): a document whose
\* cyclic link was cleared stays in review until an operator decides it.  The
\* reassessment that process_imported runs next does not know why the review
\* is open and closes it, when the only row of the document is one of another
\* pair that is rejected.
SuspectsHeld ==
    Quiet => \A d \in suspects : doc[d].reviews \cap {Duplicate, NonPosting} # {}
=============================================================================
