------------------------------ MODULE Compliance ------------------------------
(***************************************************************************)
(* LocalComplianceService: provisional VAT and retention evidence.         *)
(*                                                                         *)
(* The worker, in each pass, and the API assess a period.  An assessment   *)
(* reads the records, the VAT report, which reads them again, and the      *)
(* files of their documents, for the checksum and again for the findings;  *)
(* then one transaction of the ledger either finds the assessment that has *)
(* the same checksum or inserts it with its findings and supersedes the    *)
(* open findings of the other assessments of its period.  Meanwhile        *)
(* records and files change and the operator decides on findings.          *)
(***************************************************************************)
EXTENDS Integers, Sequences, FiniteSets

CONSTANTS
    Procs,          \* processes that assess
    Records,        \* bookkeeping records, each of one document with a file
    Qualities,      \* what a record's VAT evidence may amount to: "complete",
                    \* "excluded", "excessive", "unrated" or "untaxed"
    Periods,        \* periods of which all these records are part
    MaxAssessments, \* bound: assessments that begin
    MaxEvents       \* bound: changes, decisions and deaths, taken together

VARIABLES
    rev,         \* how often the records have been written (their updated_at)
    quality,     \* what each record's VAT evidence amounts to
    filed,       \* the records whose document has its file
    assessments, \* compliance_assessments with their findings, by id
    retained,    \* retention_records: the file seen, by which assessment
    audited,     \* assessments that have their audit event
    proc,        \* what each process has read
    begun, events,
    answers,     \* how the last assessment was answered, if it was undisturbed
    reopened     \* findings that the operator opened when superseded

vars == <<rev, quality, filed, assessments, retained, audited, proc, begun,
          events, answers, reopened>>

Severity ==
    [vat_exceeds_gross           |-> "high",
     source_document_missing     |-> "high",
     report_vat_exceeds_gross    |-> "high",
     vat_rate_unrecognized       |-> "medium",
     vat_classification_missing  |-> "low"]
Codes == DOMAIN Severity

\* A finding is about a record, or (the report's) about all of them.
All == "all"
Findings == Codes \X (Records \cup {All})
Decisions == {"acknowledged", "resolved", "accepted_exception"}
OpenStatuses == {"open", "acknowledged"}

-----------------------------------------------------------------------------
\* What an assessment finds in what it has read.

\* The VAT report's gate.
Blockers(q) == {c \in {"report_vat_exceeds_gross"} :
                    \E r \in Records : q[r] = "excessive"}

\* A record whose VAT exceeds its gross amount is looked at no further.
CodesOf(q, present) ==
    CASE q = "excluded" -> {}
      [] q = "excessive" -> {"vat_exceeds_gross"}
      [] OTHER ->
            {c \in {"vat_rate_unrecognized"} : q = "unrated"}
                \cup {c \in {"vat_classification_missing"} : q = "untaxed"}
                \cup {c \in {"source_document_missing"} : ~present}

FindingsIn(q, blockers, files) ==
    {<<c, All>> : c \in blockers}
        \cup UNION {{<<c, r>> : c \in CodesOf(q[r], r \in files)} :
                        r \in Records}

\* The status that goes with findings that are open.
StatusOf(open) ==
    IF \E f \in open : Severity[f[1]] = "high" THEN "blocked"
    ELSE IF open # {} THEN "needs_review" ELSE "ready"

OpenIn(a) == {f \in DOMAIN a.findings : a.findings[f] \in OpenStatuses}

\* Mutant: the checksum leaves the files out.
ChecksumOf_Records(version, blockers, files) ==
    [rev |-> version, blockers |-> blockers, files |-> {}]
\* _source_checksum: the file's presence, size and time of modification are
\* in it, so that a file which comes back gives the old checksum again.
ChecksumOf(version, blockers, files) ==
    [rev |-> version, blockers |-> blockers, files |-> files]

-----------------------------------------------------------------------------
Idle == [at |-> "idle"]

Init ==
    /\ rev = 0 /\ quality = [r \in Records |-> "complete"] /\ filed = Records
    /\ assessments = <<>> /\ audited = {} /\ answers = {} /\ reopened = {}
    /\ retained = [r \in Records |-> [by |-> 0, present |-> FALSE]]
    /\ proc = [p \in Procs |-> Idle]
    /\ begun = 0 /\ events = 0

Ids == DOMAIN assessments
Newest(period) ==
    LET ids == {i \in Ids : assessments[i].period = period}
    IN  {i \in ids : \A j \in ids : j <= i}

TypeOK ==
    /\ rev \in 0..MaxEvents /\ quality \in [Records -> Qualities]
    /\ filed \subseteq Records
    /\ \A i \in Ids :
        LET a == assessments[i]
        IN  /\ a.period \in Periods
            /\ a.status \in {"blocked", "needs_review", "ready"}
            /\ DOMAIN a.findings \subseteq Findings
            /\ \A f \in DOMAIN a.findings :
                a.findings[f] \in OpenStatuses \cup Decisions \cup {"superseded"}
    /\ retained \in [Records -> [by : 0..MaxAssessments, present : BOOLEAN]]
    /\ audited \subseteq Ids
    /\ \A p \in Procs :
        proc[p].at \in {"idle", "report", "checksum", "find", "store",
                        "answer", "audit"}
    /\ begun \in 0..MaxAssessments /\ events \in 0..MaxEvents

\* Whoever assesses now has not seen this.
Disturbed == proc' = [p \in Procs |->
                 IF proc[p].at = "idle" THEN Idle
                 ELSE [proc[p] EXCEPT !.alone = FALSE]]

ChangeRecord(r) ==
    /\ events < MaxEvents /\ events' = events + 1
    /\ \E q \in Qualities \ {quality[r]} : quality' = [quality EXCEPT ![r] = q]
    /\ rev' = rev + 1 /\ Disturbed
    /\ UNCHANGED <<filed, assessments, retained, audited, begun, answers,
                   reopened>>

\* A file disappears, or is put back as it was.
ChangeFile(r) ==
    /\ events < MaxEvents /\ events' = events + 1
    /\ filed' = IF r \in filed THEN filed \ {r} ELSE filed \cup {r}
    /\ Disturbed
    /\ UNCHANGED <<rev, quality, assessments, retained, audited, begun, answers,
                   reopened>>

-----------------------------------------------------------------------------
\* assess

Read(p, step) ==
    /\ proc' = [proc EXCEPT ![p] = step]
    /\ UNCHANGED <<rev, quality, filed, assessments, retained, audited, begun,
                   events, answers, reopened>>

Load(p, period) ==
    /\ proc[p].at = "idle" /\ begun < MaxAssessments /\ begun' = begun + 1
    /\ proc' = [q \in Procs |->
           CASE q = p -> [at |-> "report", period |-> period, rev |-> rev,
                          quality |-> quality, blockers |-> {}, sum |-> {},
                          found |-> {}, files |-> {}, id |-> 0,
                          alone |-> \A o \in Procs \ {p} : proc[o].at = "idle"]
             [] q # p /\ proc[q].at = "idle" -> Idle
             [] OTHER -> [proc[q] EXCEPT !.alone = FALSE]]
    /\ UNCHANGED <<rev, quality, filed, assessments, retained, audited, events,
                   answers, reopened>>

Report(p) ==
    /\ proc[p].at = "report"
    /\ Read(p, [proc[p] EXCEPT !.at = "checksum",
                               !.blockers = Blockers(quality)])

Checksum(p) ==
    /\ proc[p].at = "checksum"
    /\ Read(p, [proc[p] EXCEPT !.at = "find",
           !.sum = {ChecksumOf(proc[p].rev, proc[p].blockers, filed)}])

\* _findings, and _retention_records, which looks at the files once more.
Find(p) ==
    /\ proc[p].at = "find"
    /\ Read(p, [proc[p] EXCEPT !.at = "store", !.files = filed,
           !.found = FindingsIn(proc[p].quality, proc[p].blockers, filed)])

\* Mutant: the open findings of the period stay open.
Superseded_None(a, period) == a
\* The status and the counts of the older assessment stay as they are.
Superseded(a, period) ==
    IF a.period # period THEN a
    ELSE [a EXCEPT !.findings = [f \in DOMAIN a.findings |->
             IF a.findings[f] \in OpenStatuses THEN "superseded"
             ELSE a.findings[f]]]

\* create_compliance_assessment
Store(p) ==
    LET me == proc[p]
        same == {i \in Ids : /\ assessments[i].period = me.period
                             /\ {assessments[i].sum} = me.sum}
        new == [period |-> me.period, sum |-> CHOOSE s \in me.sum : TRUE,
                status |-> StatusOf(me.found),
                findings |-> [f \in me.found |-> "open"],
                undisturbed |-> me.alone]
    IN  /\ me.at = "store"
        /\ \/ /\ same # {}
              /\ \E i \in same :
                  proc' = [proc EXCEPT ![p].at = "answer", ![p].id = i]
              /\ UNCHANGED <<assessments, retained, reopened>>
           \/ /\ same = {}
              /\ assessments' = Append(
                     [i \in Ids |-> Superseded(assessments[i], me.period)], new)
              /\ retained' = [r \in Records |->
                     [by |-> Len(assessments) + 1, present |-> r \in me.files]]
              /\ proc' = [proc EXCEPT ![p].at = "audit",
                                      ![p].id = Len(assessments) + 1]
              /\ reopened' = {o \in reopened :
                                assessments[o[1]].period # me.period}
        /\ UNCHANGED <<rev, quality, filed, audited, begun, events, answers>>

\* The findings are listed, and a new assessment gets its audit event.
Answer(p) ==
    LET me == proc[p]
        listed == assessments[me.id].findings
    IN  /\ me.at \in {"answer", "audit"}
        /\ audited' = IF me.at = "audit" THEN audited \cup {me.id} ELSE audited
        /\ answers' = IF ~me.alone THEN {}
               ELSE {[id |-> me.id, findings |-> DOMAIN listed,
                      facts |-> FindingsIn(quality, Blockers(quality), filed)]}
        /\ proc' = [proc EXCEPT ![p] = Idle]
        /\ UNCHANGED <<rev, quality, filed, assessments, retained, begun, events,
                       reopened>>

Crash(p) ==
    /\ proc[p].at # "idle" /\ events < MaxEvents /\ events' = events + 1
    /\ proc' = [proc EXCEPT ![p] = Idle]
    /\ UNCHANGED <<rev, quality, filed, assessments, retained, audited, begun,
                   answers, reopened>>

-----------------------------------------------------------------------------
\* update_finding: any finding may be given any of the operator's statuses.

Decide(i, f, status) ==
    LET a == assessments[i]
        b == [a EXCEPT !.findings[f] = status]
    IN  /\ events < MaxEvents /\ events' = events + 1
        /\ f \in DOMAIN a.findings
        /\ assessments' = [assessments EXCEPT
               ![i] = [b EXCEPT !.status = StatusOf(OpenIn(b))]]
        /\ reopened' = IF a.findings[f] \in OpenStatuses THEN reopened
                       ELSE reopened \cup {<<i, f>>}
        /\ UNCHANGED <<rev, quality, filed, retained, audited, proc, begun,
                       answers>>

Next ==
    \/ \E r \in Records : ChangeRecord(r) \/ ChangeFile(r)
    \/ \E p \in Procs, period \in Periods : Load(p, period)
    \/ \E p \in Procs : \/ Report(p) \/ Checksum(p) \/ Find(p)
                        \/ Store(p) \/ Answer(p) \/ Crash(p)
    \/ \E i \in Ids, f \in Findings, status \in Decisions \cup {"open"} :
        Decide(i, f, status)

-----------------------------------------------------------------------------
\* The properties

\* LocalComplianceService.assess: what an undisturbed assessment is answered
\* with has exactly the findings that the records and their files give rise
\* to, also when it is an earlier assessment that is found by its checksum.
\* It leaves out answers from assessments that were made while a file came or
\* went between the checksum and the findings: they are kept under a checksum
\* that does not tell, and are answered whenever the files are so again.
AnswersApply ==
    \A answer \in answers :
        assessments[answer.id].undisturbed => answer.findings = answer.facts

\* create_compliance_assessment: outside the newest assessment of a period
\* nothing is open but what the operator has opened again, and the newest
\* one says of its own findings what is still open.  It covers overlapping
\* assessments, the later of which may have read older facts.
OneOpenAssessment ==
    \A i \in Ids :
        LET a == assessments[i]
        IN  IF i \in Newest(a.period) THEN a.status = StatusOf(OpenIn(a))
            ELSE \A f \in OpenIn(a) : <<i, f>> \in reopened
===============================================================================
