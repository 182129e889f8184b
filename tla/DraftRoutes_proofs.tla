------------------------- MODULE DraftRoutes_proofs -------------------------
(***************************************************************************)
(* The same facts are drafted once, a transaction once for Wave, and who   *)
(* says that there is a draft has one: for every set of processes and      *)
(* every bound.                                                            *)
(*                                                                         *)
(* What is still to be done carries the argument.  A call keeps at most    *)
(* one attempt, and says that there is a draft only after it has kept one  *)
(* or has seen one (Founded), so that it may die at any step.  What it is  *)
(* about to draft has not been drafted (Fresh): its gates were looked at   *)
(* with the attempts there were, and while no two calls route the source,  *)
(* nobody else adds one before it does.                                    *)
(***************************************************************************)
EXTENDS DraftRoutes, SequenceTheorems, WellFoundedInduction, TLAPS

LEMMA Linear == IsWellFoundedOn({ss \in Nat \X Nat : ss[1] < ss[2]}, Nat)
  BY NatLessThanWellFounded DEF OpToRel

\* A set of naturals has a smallest number.
LEMMA Smallest ==
    ASSUME NEW S \in SUBSET Nat, S # {}
    PROVE  \E n \in S : \A m \in S : n <= m
  <1>1. PICK n \in S :
            \A y \in S : <<y, n>> \notin {ss \in Nat \X Nat : ss[1] < ss[2]}
    BY Linear, WFMin
  <1>2. ASSUME NEW m \in S PROVE n <= m
    <2>1. <<m, n>> \notin {ss \in Nat \X Nat : ss[1] < ss[2]}
      BY <1>1
    <2>2. ~ (m < n)
      BY <2>1
    <2> QED
      BY <2>2
  <1> QED
    BY <1>2

-----------------------------------------------------------------------------
\* The facts, the records, the steps of calls and what is attempted.
FactSet == [rev : Nat, quality : {"blank", "short", "full"}]
RecordStatuses ==
    {"none", "draft", "ready_to_route", "needs_review", "missing_receipt",
     "reconciled", "supporting_evidence", "duplicate", "rejected",
     "export_draft_prepared"}
Exports ==
    (Outcomes \ {"already_prepared"})
    \cup {"none", "not_started", "ready", "not_applicable", "blocked",
          "blocked_by_review", "blocked_missing_receipt",
          "blocked_unsupported_target"}
RecordSet == [status : RecordStatuses, export : Exports, review : BOOLEAN,
              facts : FactSet]
SourceSet == [status : {"processed", "needs_review", "duplicate",
                        "export_draft_prepared"},
              open : BOOLEAN, dup : BOOLEAN, type : Types, recon : Recons,
              facts : FactSet]
Operations == (Targets \cup {"none"}) \X FactSet
Attempted == Outcomes \ {"already_prepared"}
AttemptSet == [status : Attempted, op : Operations]
Given == {"none", "export_draft_prepared", "needs_review"}
Steps ==
    [do : {"attempt"}, status : Attempted, op : Operations]
    \cup [do : {"source"}, status : {"export_draft_prepared", "needs_review"}]
    \cup [do : {"review"}] \cup [do : {"derive"}, status : Given]
    \cup [do : {"store"}]
    \cup [do : {"export"}, export : Exports, status : Given]
    \cup [do : {"look"}, copy : RecordSet, target : Targets]
CallSet == [routes : BOOLEAN, held : RecordSet, todo : Seq(Steps)]

RouteTypes ==
    /\ kind \in {"document", "bank"}
    /\ source \in SourceSet /\ rec \in RecordSet
    /\ attempts \in Seq(AttemptSet)
    /\ proc \in [Procs -> CallSet]
    /\ edits \in Nat /\ crossed \in BOOLEAN

\* Steps that keep an attempt, that keep a draft, and that say there is one.
Keeps(step) == step.do = "attempt"
Drafts(step) == step.do = "attempt" /\ step.status = "draft_prepared"
Claims(step) ==
    \/ step.do = "source" /\ step.status = "export_draft_prepared"
    \/ step.do = "export" /\ step.export = "draft_prepared"

Prepared == HasAnyDraft(attempts)

\* A call keeps one attempt, and claims a draft that there is or that it has
\* kept before.
KeepsOne(todo) ==
    \A i, j \in 1..Len(todo) : Keeps(todo[i]) /\ Keeps(todo[j]) => i = j
Founded(todo, has) ==
    \A i \in 1..Len(todo) : Claims(todo[i]) =>
        has \/ \E j \in 1..Len(todo) : j < i /\ Drafts(todo[j])
Plain(todo) ==
    \A i \in 1..Len(todo) : ~ Keeps(todo[i]) /\ todo[i].do # "look"
Looks(todo) == \E i \in 1..Len(todo) : todo[i].do = "look"

\* What a call is about to draft is new.
New(op) ==
    /\ ~ HasDraft(attempts, op)
    /\ kind = "bank" /\ op[1] = "wave" => ~ HasAnyDraft(attempts)
Fresh(todo) == \A i \in 1..Len(todo) : Drafts(todo[i]) => New(todo[i].op)

\* A call that may draft routes; nobody else routes while it does.
CallRight(p) ==
    /\ proc[p].held.export = "draft_prepared" => Prepared
    /\ Plain(proc[p].todo) \/ proc[p].routes
    /\ Looks(proc[p].todo) => Len(proc[p].todo) = 1
    /\ KeepsOne(proc[p].todo) /\ Founded(proc[p].todo, Prepared)
    /\ ~ crossed => Fresh(proc[p].todo)
Single ==
    ~ crossed => \A p, q \in Procs : proc[p].routes /\ proc[q].routes => p = q

RouteInv ==
    /\ RouteTypes /\ Single /\ RoutedOnce /\ ClaimedDraftsExist
    /\ \A p \in Procs : CallRight(p)

-----------------------------------------------------------------------------
\* The status of the first check that holds, when there is none or some.
CheckSet == BOOLEAN \X (Outcomes \ {"draft_prepared"})

LEMMA FirstCheck ==
    ASSUME NEW checks \in Seq(CheckSet)
    PROVE  \/ /\ FirstOf(checks) = "draft_prepared"
              /\ \A i \in 1..Len(checks) : ~ checks[i][1]
           \/ \E i \in 1..Len(checks) :
                 checks[i][1] /\ FirstOf(checks) = checks[i][2]
  <1> DEFINE hits == {i \in 1..Len(checks) : checks[i][1]}
             hit == SelectInSeq(checks, LAMBDA c : c[1])
  <1>1. hit = IF hits # {} THEN Min(hits) ELSE 0
    BY DEF SelectInSeq
  <1>2. CASE hits = {}
    <2>1. hit = 0
      BY <1>1, <1>2
    <2>2. FirstOf(checks) = "draft_prepared"
      BY <2>1 DEF FirstOf
    <2> QED
      BY <1>2, <2>2
  <1>3. CASE hits # {}
    <2>1. hits \in SUBSET Nat
      BY LenProperties
    <2>2. \E n \in hits : \A m \in hits : n <= m
      BY <1>3, <2>1, Smallest
    <2>3. Min(hits) \in hits
      BY <2>2 DEF Min
    <2>4. hit = Min(hits) /\ hit # 0
      BY <1>1, <1>3, <2>3, LenProperties
    <2>5. FirstOf(checks) = checks[hit][2]
      BY <2>4 DEF FirstOf
    <2> QED
      BY <2>3, <2>4, <2>5
  <1> QED
    BY <1>2, <1>3

\* The elements of two lists that are joined.
LEMMA Joined ==
    ASSUME NEW S, NEW s \in Seq(S), NEW t \in Seq(S)
    PROVE  /\ s \o t \in Seq(S)
           /\ \A i \in 1..Len(s) : \E k \in 1..Len(s \o t) : (s \o t)[k] = s[i]
           /\ \A i \in 1..Len(t) : \E k \in 1..Len(s \o t) : (s \o t)[k] = t[i]
           /\ \A k \in 1..Len(s \o t) :
                 \/ \E i \in 1..Len(s) : (s \o t)[k] = s[i]
                 \/ \E i \in 1..Len(t) : (s \o t)[k] = t[i]
  <1>1. /\ s \o t \in Seq(S) /\ Len(s \o t) = Len(s) + Len(t)
        /\ \A i \in 1..Len(s) + Len(t) : (s \o t)[i] =
               IF i <= Len(s) THEN s[i] ELSE t[i - Len(s)]
        /\ Len(s) \in Nat /\ Len(t) \in Nat
    BY ConcatProperties, LenProperties
  <1>2. \A i \in 1..Len(s) : (s \o t)[i] = s[i] /\ i \in 1..Len(s \o t)
    BY <1>1
  <1>3. ASSUME NEW i \in 1..Len(t)
        PROVE  (s \o t)[i + Len(s)] = t[i] /\ i + Len(s) \in 1..Len(s \o t)
    <2>1. i + Len(s) \in 1..Len(s) + Len(t) /\ ~ (i + Len(s) <= Len(s))
          /\ i + Len(s) - Len(s) = i
      BY <1>1
    <2> QED
      BY <1>1, <2>1
  <1>4. ASSUME NEW k \in 1..Len(s \o t)
        PROVE  \/ \E i \in 1..Len(s) : (s \o t)[k] = s[i]
               \/ \E i \in 1..Len(t) : (s \o t)[k] = t[i]
    <2>1. CASE k <= Len(s)
      BY <1>1, <2>1
    <2>2. CASE ~ (k <= Len(s))
      <3>1. k - Len(s) \in 1..Len(t)
        BY <1>1, <2>2
      <3> QED
        BY <1>1, <2>2, <3>1
    <2> QED
      BY <2>1, <2>2
  <1> QED
    BY <1>1, <1>2, <1>3, <1>4

\* Checks that are lists of checks, and of which "already_prepared" holds only
\* if there is any draft; and lists whose checks are all in another.
Sound(s, any) ==
    /\ s \in Seq(CheckSet)
    /\ \A i \in 1..Len(s) : s[i][1] /\ s[i][2] = "already_prepared" => any
Within(s, t) == \A i \in 1..Len(s) : \E k \in 1..Len(t) : t[k] = s[i]

LEMMA SoundJoined ==
    ASSUME NEW s, NEW t, NEW any, Sound(s, any), Sound(t, any)
    PROVE  Sound(s \o t, any) /\ Within(s, s \o t) /\ Within(t, s \o t)
  <1>1. s \in Seq(CheckSet) /\ t \in Seq(CheckSet)
    BY DEF Sound
  <1>2. s \o t \in Seq(CheckSet)
    BY <1>1, Joined
  <1>3. \A k \in 1..Len(s \o t) :
            \/ \E i \in 1..Len(s) : (s \o t)[k] = s[i]
            \/ \E i \in 1..Len(t) : (s \o t)[k] = t[i]
    BY <1>1, Joined
  <1>4. Within(s, s \o t) /\ Within(t, s \o t)
    BY <1>1, Joined DEF Within
  <1> QED
    BY <1>2, <1>3, <1>4 DEF Sound

LEMMA OneCheck ==
    ASSUME NEW any, NEW a \in CheckSet,
           a[1] /\ a[2] = "already_prepared" => any
    PROVE  Sound(<<a>>, any) /\ Len(<<a>>) = 1 /\ <<a>>[1] = a
  BY DEF Sound

LEMMA TwoChecks ==
    ASSUME NEW any, NEW a \in CheckSet, NEW b \in CheckSet,
           a[1] /\ a[2] = "already_prepared" => any,
           b[1] /\ b[2] = "already_prepared" => any
    PROVE  /\ Sound(<<a, b>>, any) /\ Len(<<a, b>>) = 2
           /\ <<a, b>>[1] = a /\ <<a, b>>[2] = b
  BY DEF Sound

LEMMA ThreeChecks ==
    ASSUME NEW any, NEW a \in CheckSet, NEW b \in CheckSet, NEW c \in CheckSet,
           a[1] /\ a[2] = "already_prepared" => any,
           b[1] /\ b[2] = "already_prepared" => any,
           c[1] /\ c[2] = "already_prepared" => any
    PROVE  /\ Sound(<<a, b, c>>, any) /\ Len(<<a, b, c>>) = 3
           /\ <<a, b, c>>[2] = b
  <1>1. <<a, b, c>> \in Seq(CheckSet) /\ Len(<<a, b, c>>) = 3
    OBVIOUS
  <1>2. <<a, b, c>>[1] = a /\ <<a, b, c>>[2] = b /\ <<a, b, c>>[3] = c
    OBVIOUS
  <1>3. \A i \in 1..3 : i = 1 \/ i = 2 \/ i = 3
    OBVIOUS
  <1> QED
    BY <1>1, <1>2, <1>3 DEF Sound

LEMMA PlanSound ==
    ASSUME NEW facts, NEW list, NEW target
    PROVE  /\ Sound(PlanChecks(facts, list, target), HasAnyDraft(list))
           /\ \E i \in 1..Len(PlanChecks(facts, list, target)) :
                 PlanChecks(facts, list, target)[i]
                     = <<HasDraft(list, Operation(target, facts)),
                         "already_prepared">>
  <1>1. PICK a \in BOOLEAN : a = (facts.quality = "blank")
    OBVIOUS
  <1>2. PICK b \in BOOLEAN : b = HasDraft(list, Operation(target, facts))
    BY DEF HasDraft
  <1>3. PICK c \in BOOLEAN : c = (facts.quality = "short")
    OBVIOUS
  <1>4. b => HasAnyDraft(list)
    BY <1>2 DEF HasDraft, HasAnyDraft
  <1>5. PICK x \in CheckSet, y \in CheckSet, z \in CheckSet :
            /\ x = <<a, "needs_review">> /\ y = <<b, "already_prepared">>
            /\ z = <<c, "needs_review">>
    BY DEF CheckSet, Outcomes
  <1>6. PlanChecks(facts, list, target) = <<x, y, z>>
    BY <1>1, <1>2, <1>3, <1>5 DEF PlanChecks
  <1>7. /\ x[1] /\ x[2] = "already_prepared" => HasAnyDraft(list)
        /\ y[1] /\ y[2] = "already_prepared" => HasAnyDraft(list)
        /\ z[1] /\ z[2] = "already_prepared" => HasAnyDraft(list)
    BY <1>4, <1>5
  <1>8. /\ Sound(<<x, y, z>>, HasAnyDraft(list)) /\ Len(<<x, y, z>>) = 3
        /\ <<x, y, z>>[2] = y
    BY <1>7, ThreeChecks
  <1>9. 2 \in 1..Len(<<x, y, z>>)
    BY <1>8
  <1> QED
    BY <1>2, <1>5, <1>6, <1>8, <1>9

LEMMA GatesSound ==
    ASSUME NEW s \in SourceSet, NEW any
    PROVE  Sound(Gates(s), any)
  <1>1. PICK a \in BOOLEAN, b \in BOOLEAN, c \in BOOLEAN :
            a = s.dup /\ b = (s.status \notin RoutableDocument) /\ c = s.open
    BY DEF SourceSet
  <1>2. PICK x \in CheckSet, y \in CheckSet, z \in CheckSet :
            /\ x = <<a, "blocked_duplicate">> /\ y = <<b, "blocked_status">>
            /\ z = <<c, "blocked_review">>
    BY DEF CheckSet, Outcomes
  <1>3. Gates(s) = <<x, y, z>>
    BY <1>1, <1>2 DEF Gates
  <1>4. /\ x[2] # "already_prepared" /\ y[2] # "already_prepared"
        /\ z[2] # "already_prepared"
    BY <1>2
  <1> QED
    BY <1>3, <1>4, ThreeChecks

LEMMA RecordGatesSound ==
    ASSUME NEW r \in RecordSet, NEW any
    PROVE  Sound(RecordGates(r), any)
  <1>1. PICK a \in BOOLEAN, b \in BOOLEAN, c \in BOOLEAN :
            /\ a = r.review /\ b = (r.status \notin RoutableRecord)
            /\ c = (r.export \notin RoutableExport)
    BY DEF RecordSet
  <1>2. PICK x \in CheckSet, y \in CheckSet, z \in CheckSet :
            /\ x = <<a, "blocked_review">> /\ y = <<b, "blocked_status">>
            /\ z = <<c, "blocked_export_status">>
    BY DEF CheckSet, Outcomes
  <1>3. RecordGates(r) = <<x, y, z>>
    BY <1>1, <1>2 DEF RecordGates
  <1>4. /\ x[2] # "already_prepared" /\ y[2] # "already_prepared"
        /\ z[2] # "already_prepared"
    BY <1>2
  <1> QED
    BY <1>3, <1>4, ThreeChecks

\* What the first of sound checks decides.
LEMMA SoundOutcome ==
    ASSUME NEW s, NEW any, Sound(s, any)
    PROVE  /\ FirstOf(s) \in Outcomes
           /\ FirstOf(s) = "already_prepared" => any
           /\ FirstOf(s) = "draft_prepared" =>
                  \A i \in 1..Len(s) : ~ s[i][1]
  <1>1. s \in Seq(CheckSet)
    BY DEF Sound
  <1>2. CASE /\ FirstOf(s) = "draft_prepared"
             /\ \A i \in 1..Len(s) : ~ s[i][1]
    BY <1>2 DEF Outcomes
  <1>3. ASSUME NEW i \in 1..Len(s), s[i][1], FirstOf(s) = s[i][2]
        PROVE  /\ FirstOf(s) \in Outcomes
               /\ FirstOf(s) = "already_prepared" => any
               /\ FirstOf(s) # "draft_prepared"
    <2>1. s[i] \in CheckSet
      BY <1>1, ElementOfSeq
    <2> QED
      BY <1>3, <2>1 DEF CheckSet, Sound
  <1> QED
    BY <1>1, <1>2, <1>3, FirstCheck

LEMMA WithinJoined ==
    ASSUME NEW s, NEW t, NEW u, Within(s, t), Within(t, u)
    PROVE  Within(s, u)
  BY DEF Within

LEMMA DocumentOutcomes ==
    ASSUME NEW s \in SourceSet, NEW list, NEW target
    PROVE  /\ DocumentOutcome(s, list, target) \in Outcomes
           /\ DocumentOutcome(s, list, target) = "draft_prepared" =>
                  ~ HasDraft(list, Operation(target, s.facts))
           /\ DocumentOutcome(s, list, target) = "already_prepared" =>
                  HasAnyDraft(list)
  <1> DEFINE types == TypeChecks(s.type, target)
             other == <<<<target = "other", "unsupported_target">>>>
             plan == PlanChecks(s.facts, list, target)
             one == types \o other
             two == one \o Gates(s)
             all == two \o plan
             any == HasAnyDraft(list)
  <1>1. Sound(types, any)
    <2>1. PICK a \in BOOLEAN, b \in BOOLEAN :
              /\ a = (target # "other" /\ s.type = "support")
              /\ b = (target # "other" /\ s.type = "conflict")
      OBVIOUS
    <2>2. PICK x \in CheckSet, y \in CheckSet :
              /\ x = <<a, "blocked_non_posting_document_type">>
              /\ y = <<b, "blocked_document_type_conflict">>
      BY DEF CheckSet, Outcomes
    <2>3. types = <<x, y>>
      BY <2>1, <2>2 DEF TypeChecks
    <2>4. x[2] # "already_prepared" /\ y[2] # "already_prepared"
      BY <2>2
    <2> HIDE DEF types, any
    <2> QED
      BY <2>3, <2>4, TwoChecks
  <1>2. Sound(other, any)
    <2>1. PICK a \in BOOLEAN : a = (target = "other")
      OBVIOUS
    <2>2. PICK x \in CheckSet : x = <<a, "unsupported_target">>
      BY DEF CheckSet, Outcomes
    <2>3. other = <<x>> /\ x[2] # "already_prepared"
      BY <2>1, <2>2
    <2> HIDE DEF other, any
    <2> QED
      BY <2>3, OneCheck
  <1>3. Sound(Gates(s), any)
    BY GatesSound
  <1>4. PICK b : b = HasDraft(list, Operation(target, s.facts))
    OBVIOUS
  <1>5. /\ Sound(plan, any)
        /\ \E i \in 1..Len(plan) : plan[i] = <<b, "already_prepared">>
    BY <1>4, PlanSound
  <1>6. DocumentOutcome(s, list, target) = FirstOf(all)
    BY DEF DocumentOutcome
  <1> HIDE DEF types, other, plan, any
  <1>7. Sound(one, any)
    BY <1>1, <1>2, SoundJoined
  <1> HIDE DEF one
  <1>8. Sound(two, any)
    BY <1>3, <1>7, SoundJoined
  <1> HIDE DEF two
  <1>9. Sound(all, any) /\ Within(plan, all)
    BY <1>5, <1>8, SoundJoined
  <1> HIDE DEF all
  <1>10. \E k \in 1..Len(all) : all[k] = <<b, "already_prepared">>
    BY <1>5, <1>9 DEF Within
  <1>11. FirstOf(all) = "draft_prepared" => ~ b
    BY <1>9, <1>10, SoundOutcome
  <1>12. FirstOf(all) = "already_prepared" => HasAnyDraft(list)
    BY <1>9, SoundOutcome DEF any
  <1> QED
    BY <1>4, <1>6, <1>9, <1>11, <1>12, SoundOutcome

LEMMA RecordOutcomes ==
    ASSUME NEW r \in RecordSet, NEW list, NEW target
    PROVE  /\ RecordOutcome(r, list, target) \in Outcomes
           /\ RecordOutcome(r, list, target) = "draft_prepared" =>
                  /\ ~ HasDraft(list, Operation(target, r.facts))
                  /\ target = "wave" => ~ HasAnyDraft(list)
           /\ RecordOutcome(r, list, target) = "already_prepared" =>
                  HasAnyDraft(list)
  <1> DEFINE heads == << <<target = "other", "unsupported_target">>,
                         <<target = "wave" /\ HasAnyDraft(list),
                           "already_prepared">> >>
             plan == PlanChecks(r.facts, list, target)
             one == heads \o RecordGates(r)
             all == one \o plan
             any == HasAnyDraft(list)
  <1>1. PICK w \in BOOLEAN : w = (target = "wave" /\ HasAnyDraft(list))
    OBVIOUS
  <1>2. /\ Sound(heads, any)
        /\ \E i \in 1..Len(heads) : heads[i] = <<w, "already_prepared">>
    <2>1. PICK a \in BOOLEAN : a = (target = "other")
      OBVIOUS
    <2>2. PICK x \in CheckSet, y \in CheckSet :
              /\ x = <<a, "unsupported_target">> /\ y = <<w, "already_prepared">>
      BY DEF CheckSet, Outcomes
    <2>3. heads = <<x, y>>
      BY <1>1, <2>1, <2>2
    <2>4. x[2] # "already_prepared" /\ (y[1] => any)
      BY <1>1, <2>2
    <2> HIDE DEF heads, any
    <2>5. /\ Sound(<<x, y>>, any) /\ Len(<<x, y>>) = 2
          /\ <<x, y>>[2] = y
      BY <2>4, TwoChecks
    <2>6. 2 \in 1..Len(<<x, y>>)
      BY <2>5
    <2> QED
      BY <2>2, <2>3, <2>5, <2>6
  <1>3. Sound(RecordGates(r), any)
    BY RecordGatesSound
  <1>4. PICK b : b = HasDraft(list, Operation(target, r.facts))
    OBVIOUS
  <1>5. /\ Sound(plan, any)
        /\ \E i \in 1..Len(plan) : plan[i] = <<b, "already_prepared">>
    BY <1>4, PlanSound
  <1>6. RecordOutcome(r, list, target) = FirstOf(all)
    BY DEF RecordOutcome
  <1> HIDE DEF heads, plan, any
  <1>7. Sound(one, any) /\ Within(heads, one)
    BY <1>2, <1>3, SoundJoined
  <1> HIDE DEF one
  <1>8. Sound(all, any) /\ Within(plan, all) /\ Within(one, all)
    BY <1>5, <1>7, SoundJoined
  <1> HIDE DEF all
  <1>9. /\ \E k \in 1..Len(all) : all[k] = <<b, "already_prepared">>
        /\ \E k \in 1..Len(all) : all[k] = <<w, "already_prepared">>
    <2>1. Within(heads, all)
      BY <1>7, <1>8, WithinJoined
    <2> QED
      BY <1>2, <1>5, <1>8, <2>1 DEF Within
  <1>10. FirstOf(all) = "draft_prepared" => ~ b /\ ~ w
    BY <1>8, <1>9, SoundOutcome
  <1>11. FirstOf(all) = "already_prepared" => HasAnyDraft(list)
    BY <1>8, SoundOutcome DEF any
  <1>12. FirstOf(all) \in Outcomes
    BY <1>8, SoundOutcome
  <1> QED
    BY <1>1, <1>4, <1>6, <1>10, <1>11, <1>12

-----------------------------------------------------------------------------
\* The steps that a route consists of: one attempt at most, of an operation
\* that is new if it is a draft, and claims that are founded.
Silent(todo) == \A i \in 1..Len(todo) : ~ Claims(todo[i])
Drafting(todo) == \E i \in 1..Len(todo) : Drafts(todo[i])
Made(todo, op, has, new) ==
    /\ todo \in Seq(Steps) /\ ~ Looks(todo) /\ KeepsOne(todo)
    /\ Founded(todo, has)
    /\ \A i \in 1..Len(todo) : Drafts(todo[i]) => new /\ todo[i].op = op

LEMMA JoinFront ==
    ASSUME NEW s, NEW t, NEW op, NEW has, NEW new,
           s \in Seq(Steps), Plain(s), Silent(s), Made(t, op, has, new)
    PROVE  Made(s \o t, op, has, new) /\ (Drafting(t) => Drafting(s \o t))
  <1>1. t \in Seq(Steps)
    BY DEF Made
  <1>2. /\ s \o t \in Seq(Steps) /\ Len(s \o t) = Len(s) + Len(t)
        /\ \A i \in 1..Len(s) + Len(t) : (s \o t)[i] =
               IF i <= Len(s) THEN s[i] ELSE t[i - Len(s)]
        /\ Len(s) \in Nat /\ Len(t) \in Nat
    BY <1>1, ConcatProperties, LenProperties
  <1>3. ASSUME NEW i \in 1..Len(s \o t)
        PROVE  \/ i \in 1..Len(s) /\ (s \o t)[i] = s[i]
               \/ /\ i - Len(s) \in 1..Len(t)
                  /\ (s \o t)[i] = t[i - Len(s)]
    BY <1>2
  <1>4. ASSUME NEW i \in 1..Len(t)
        PROVE  i + Len(s) \in 1..Len(s \o t) /\ (s \o t)[i + Len(s)] = t[i]
    <2>1. /\ i + Len(s) \in 1..Len(s) + Len(t) /\ ~ (i + Len(s) <= Len(s))
          /\ i + Len(s) - Len(s) = i
      BY <1>2
    <2> QED
      BY <1>2, <2>1
  <1>5. \A i \in 1..Len(s) : /\ ~ Keeps(s[i]) /\ ~ Drafts(s[i])
                             /\ ~ Claims(s[i]) /\ s[i].do # "look"
    BY DEF Plain, Silent, Drafts, Keeps
  <1> HIDE DEF Keeps, Drafts, Claims
  <1>6. ~ Looks(s \o t)
    BY <1>3, <1>5 DEF Looks, Made
  <1>7. KeepsOne(s \o t)
    <2> SUFFICES ASSUME NEW i \in 1..Len(s \o t), NEW j \in 1..Len(s \o t),
                        Keeps((s \o t)[i]), Keeps((s \o t)[j])
                 PROVE  i = j
      BY DEF KeepsOne
    <2>1. /\ i - Len(s) \in 1..Len(t) /\ (s \o t)[i] = t[i - Len(s)]
          /\ j - Len(s) \in 1..Len(t) /\ (s \o t)[j] = t[j - Len(s)]
      BY <1>3, <1>5
    <2>2. i - Len(s) = j - Len(s)
      BY <2>1 DEF Made, KeepsOne
    <2> QED
      BY <1>2, <2>2
  <1>8. Founded(s \o t, has)
    <2> SUFFICES ASSUME NEW i \in 1..Len(s \o t), Claims((s \o t)[i]), ~ has
                 PROVE  \E j \in 1..Len(s \o t) : j < i /\ Drafts((s \o t)[j])
      BY DEF Founded
    <2>1. i - Len(s) \in 1..Len(t) /\ (s \o t)[i] = t[i - Len(s)]
      BY <1>3, <1>5
    <2>2. PICK j \in 1..Len(t) : j < i - Len(s) /\ Drafts(t[j])
      BY <2>1 DEF Made, Founded
    <2>3. j + Len(s) < i
      BY <1>2, <2>1, <2>2
    <2> QED
      BY <1>4, <2>2, <2>3
  <1>9. \A i \in 1..Len(s \o t) : Drafts((s \o t)[i]) =>
            new /\ (s \o t)[i].op = op
    BY <1>3, <1>5 DEF Made
  <1>10. Drafting(t) => Drafting(s \o t)
    BY <1>4 DEF Drafting
  <1> QED
    BY <1>2, <1>6, <1>7, <1>8, <1>9, <1>10 DEF Made

LEMMA JoinBack ==
    ASSUME NEW s, NEW t, NEW op, NEW has, NEW new,
           Made(s, op, has, new), t \in Seq(Steps), Plain(t),
           has \/ Drafting(s) \/ Silent(t)
    PROVE  Made(s \o t, op, has, new) /\ (Drafting(s) => Drafting(s \o t))
  <1>1. s \in Seq(Steps)
    BY DEF Made
  <1>2. /\ s \o t \in Seq(Steps) /\ Len(s \o t) = Len(s) + Len(t)
        /\ \A i \in 1..Len(s) + Len(t) : (s \o t)[i] =
               IF i <= Len(s) THEN s[i] ELSE t[i - Len(s)]
        /\ Len(s) \in Nat /\ Len(t) \in Nat
    BY <1>1, ConcatProperties, LenProperties
  <1>3. ASSUME NEW i \in 1..Len(s \o t)
        PROVE  \/ i \in 1..Len(s) /\ (s \o t)[i] = s[i]
               \/ /\ i - Len(s) \in 1..Len(t) /\ i > Len(s)
                  /\ (s \o t)[i] = t[i - Len(s)]
    BY <1>2
  <1>4. \A i \in 1..Len(s) : i \in 1..Len(s \o t) /\ (s \o t)[i] = s[i]
    BY <1>2
  <1>5. \A i \in 1..Len(t) : /\ ~ Keeps(t[i]) /\ ~ Drafts(t[i])
                             /\ t[i].do # "look"
    BY DEF Plain, Drafts, Keeps
  <1> HIDE DEF Keeps, Drafts, Claims
  <1>6. ~ Looks(s \o t)
    BY <1>3, <1>5 DEF Looks, Made
  <1>7. KeepsOne(s \o t)
    <2> SUFFICES ASSUME NEW i \in 1..Len(s \o t), NEW j \in 1..Len(s \o t),
                        Keeps((s \o t)[i]), Keeps((s \o t)[j])
                 PROVE  i = j
      BY DEF KeepsOne
    <2>1. /\ i \in 1..Len(s) /\ (s \o t)[i] = s[i]
          /\ j \in 1..Len(s) /\ (s \o t)[j] = s[j]
      BY <1>3, <1>5
    <2> QED
      BY <2>1 DEF Made, KeepsOne
  <1>8. Founded(s \o t, has)
    <2> SUFFICES ASSUME NEW i \in 1..Len(s \o t), Claims((s \o t)[i]), ~ has
                 PROVE  \E j \in 1..Len(s \o t) : j < i /\ Drafts((s \o t)[j])
      BY DEF Founded
    <2>1. CASE i \in 1..Len(s) /\ (s \o t)[i] = s[i]
      <3>1. PICK j \in 1..Len(s) : j < i /\ Drafts(s[j])
        BY <2>1 DEF Made, Founded
      <3> QED
        BY <1>4, <3>1
    <2>2. CASE /\ i - Len(s) \in 1..Len(t) /\ i > Len(s)
               /\ (s \o t)[i] = t[i - Len(s)]
      <3>1. PICK j \in 1..Len(s) : Drafts(s[j])
        BY <2>2 DEF Silent, Drafting
      <3>2. j < i
        BY <1>2, <2>2
      <3> QED
        BY <1>4, <3>1, <3>2
    <2> QED
      BY <1>3, <2>1, <2>2
  <1>9. \A i \in 1..Len(s \o t) : Drafts((s \o t)[i]) =>
            new /\ (s \o t)[i].op = op
    BY <1>3, <1>5 DEF Made
  <1>10. Drafting(s) => Drafting(s \o t)
    BY <1>4 DEF Drafting
  <1> QED
    BY <1>2, <1>6, <1>7, <1>8, <1>9, <1>10 DEF Made

LEMMA StepKinds ==
    /\ \A status \in Attempted, op \in Operations :
          /\ Insert(status, op) \in Steps /\ Keeps(Insert(status, op))
          /\ Insert(status, op).do # "look" /\ Insert(status, op).op = op
          /\ ~ Claims(Insert(status, op))
          /\ Drafts(Insert(status, op)) <=> status = "draft_prepared"
    /\ \A status \in {"export_draft_prepared", "needs_review"} :
          /\ SetSource(status) \in Steps /\ ~ Keeps(SetSource(status))
          /\ SetSource(status).do # "look"
          /\ Claims(SetSource(status)) <=> status = "export_draft_prepared"
    /\ \A status \in Given :
          /\ Derive(status) \in Steps /\ ~ Keeps(Derive(status))
          /\ Derive(status).do # "look" /\ ~ Claims(Derive(status))
    /\ \A export \in Exports, status \in Given :
          /\ Export(export, status) \in Steps
          /\ ~ Keeps(Export(export, status))
          /\ Export(export, status).do # "look"
          /\ Claims(Export(export, status)) <=> export = "draft_prepared"
    /\ Review \in Steps /\ ~ Keeps(Review) /\ Review.do # "look"
    /\ ~ Claims(Review)
    /\ Store \in Steps /\ ~ Keeps(Store) /\ Store.do # "look"
    /\ ~ Claims(Store)
  <1>1. ASSUME NEW status \in Attempted, NEW op \in Operations
        PROVE  /\ Insert(status, op) \in Steps /\ Keeps(Insert(status, op))
               /\ Insert(status, op).do # "look" /\ Insert(status, op).op = op
               /\ ~ Claims(Insert(status, op))
               /\ Drafts(Insert(status, op)) <=> status = "draft_prepared"
    BY DEF Insert, Steps, Keeps, Claims, Drafts
  <1>2. ASSUME NEW status \in {"export_draft_prepared", "needs_review"}
        PROVE  /\ SetSource(status) \in Steps /\ ~ Keeps(SetSource(status))
               /\ SetSource(status).do # "look"
               /\ Claims(SetSource(status)) <=>
                      status = "export_draft_prepared"
    BY DEF SetSource, Steps, Keeps, Claims
  <1>3. ASSUME NEW status \in Given
        PROVE  /\ Derive(status) \in Steps /\ ~ Keeps(Derive(status))
               /\ Derive(status).do # "look" /\ ~ Claims(Derive(status))
    BY DEF Derive, Steps, Keeps, Claims
  <1>4. ASSUME NEW export \in Exports, NEW status \in Given
        PROVE  /\ Export(export, status) \in Steps
               /\ ~ Keeps(Export(export, status))
               /\ Export(export, status).do # "look"
               /\ Claims(Export(export, status)) <=> export = "draft_prepared"
    BY DEF Export, Steps, Keeps, Claims
  <1>5. /\ Review \in Steps /\ ~ Keeps(Review) /\ Review.do # "look"
        /\ ~ Claims(Review)
    BY DEF Review, Steps, Keeps, Claims
  <1>6. /\ Store \in Steps /\ ~ Keeps(Store) /\ Store.do # "look"
        /\ ~ Claims(Store)
    BY DEF Store, Steps, Keeps, Claims
  <1> QED
    BY <1>1, <1>2, <1>3, <1>4, <1>5, <1>6

LEMMA ShortLists ==
    ASSUME NEW a \in Steps, NEW b \in Steps
    PROVE  /\ <<a>> \in Seq(Steps) /\ Len(<<a>>) = 1 /\ <<a>>[1] = a
           /\ <<a, b>> \in Seq(Steps) /\ Len(<<a, b>>) = 2
           /\ <<a, b>>[1] = a /\ <<a, b>>[2] = b
           /\ <<>> \in Seq(Steps) /\ Len(<<>>) = 0
  OBVIOUS

LEMMA OneStep ==
    ASSUME NEW a \in Steps, NEW op, NEW has, NEW new,
           a.do # "look", Claims(a) => has, Drafts(a) => new /\ a.op = op
    PROVE  Made(<<a>>, op, has, new) /\ (Drafts(a) => Drafting(<<a>>))
  <1>1. <<a>> \in Seq(Steps) /\ Len(<<a>>) = 1 /\ <<a>>[1] = a
    BY ShortLists
  <1>2. \A i \in 1..Len(<<a>>) : i = 1
    BY <1>1
  <1> HIDE DEF Drafts, Claims, Keeps
  <1> QED
    BY <1>1, <1>2 DEF Made, Looks, KeepsOne, Founded, Drafting

LEMMA OnePlain ==
    ASSUME NEW a \in Steps, ~ Keeps(a), a.do # "look"
    PROVE  /\ <<a>> \in Seq(Steps) /\ Plain(<<a>>)
           /\ ~ Claims(a) => Silent(<<a>>)
  <1>1. <<a>> \in Seq(Steps) /\ Len(<<a>>) = 1 /\ <<a>>[1] = a
    BY ShortLists
  <1>2. \A i \in 1..Len(<<a>>) : i = 1
    BY <1>1
  <1> QED
    BY <1>1, <1>2 DEF Plain, Silent

LEMMA EmptyMade ==
    /\ \A op, has, new : Made(<<>>, op, has, new)
    /\ <<>> \in Seq(Steps) /\ Plain(<<>>) /\ Silent(<<>>)
  <1>1. <<>> \in Seq(Steps) /\ Len(<<>>) = 0 /\ 1..Len(<<>>) = {}
    OBVIOUS
  <1> QED
    BY <1>1 DEF Made, Looks, KeepsOne, Founded, Plain, Silent

\* Two steps of which the first keeps a draft.
LEMMA TwoSteps ==
    ASSUME NEW a \in Steps, NEW b \in Steps, NEW op, NEW has, NEW new,
           a.do # "look", Claims(a) => has, Drafts(a) => new /\ a.op = op,
           ~ Keeps(b), b.do # "look", Claims(b) => has \/ Drafts(a)
    PROVE  Made(<<a, b>>, op, has, new) /\ (Drafts(a) => Drafting(<<a, b>>))
  <1>1. /\ <<a, b>> \in Seq(Steps) /\ Len(<<a, b>>) = 2
        /\ <<a, b>>[1] = a /\ <<a, b>>[2] = b
    BY ShortLists
  <1>2. \A i \in 1..Len(<<a, b>>) : i = 1 \/ i = 2
    BY <1>1
  <1>3. 1 \in 1..Len(<<a, b>>) /\ 1 < 2
    BY <1>1
  <1>4. Drafts(b) => Keeps(b)
    BY DEF Drafts, Keeps
  <1> QED
    BY <1>1, <1>2, <1>3, <1>4 DEF Made, Looks, KeepsOne, Founded, Drafting

LEMMA UpsertIs ==
    ASSUME NEW status \in Given
    PROVE  Upsert(status) \in Seq(Steps) /\ Plain(Upsert(status))
           /\ Silent(Upsert(status))
  <1>1. /\ Derive(status) \in Steps /\ Store \in Steps
        /\ ~ Keeps(Derive(status)) /\ ~ Claims(Derive(status))
        /\ Derive(status).do # "look"
        /\ ~ Keeps(Store) /\ ~ Claims(Store) /\ Store.do # "look"
    BY StepKinds
  <1>2. PICK a \in Steps, b \in Steps : a = Derive(status) /\ b = Store
    BY <1>1
  <1>3. /\ <<a, b>> \in Seq(Steps) /\ Len(<<a, b>>) = 2
        /\ <<a, b>>[1] = a /\ <<a, b>>[2] = b
    BY ShortLists
  <1>4. \A i \in 1..Len(<<a, b>>) : i = 1 \/ i = 2
    BY <1>3
  <1>5. Upsert(status) = <<a, b>>
    BY <1>2 DEF Upsert
  <1> QED
    BY <1>1, <1>2, <1>3, <1>4, <1>5 DEF Plain, Silent

LEMMA ExportsAre ==
    ASSUME NEW outcome \in Outcomes
    PROVE  /\ ExportOf(outcome) \in Exports /\ StatusFor(outcome) \in Given
           /\ ExportOf(outcome) = "draft_prepared" <=>
                  outcome \in {"draft_prepared", "already_prepared"}
  <1>1. StatusFor(outcome) \in Given
    BY DEF StatusFor, Given
  <1>2. CASE outcome \in {"blocked_document_type_conflict",
                         "blocked_non_posting_document_type"}
    BY <1>1, <1>2 DEF ExportOf, Exports, Outcomes
  <1>3. CASE outcome = "needs_review"
    BY <1>1, <1>3 DEF ExportOf, Exports, Outcomes
  <1>4. CASE outcome \in {"blocked_duplicate", "blocked_status"}
    BY <1>1, <1>4 DEF ExportOf, Exports, Outcomes
  <1>5. CASE outcome = "unsupported_target"
    BY <1>1, <1>5 DEF ExportOf, Exports, Outcomes
  <1>6. CASE outcome \in {"draft_prepared", "already_prepared"}
    BY <1>1, <1>6 DEF ExportOf, Exports, Outcomes
  <1>7. CASE outcome \in {"blocked_review", "blocked_export_status"}
    BY <1>1, <1>7 DEF ExportOf, Exports, Outcomes
  <1> QED
    BY <1>2, <1>3, <1>4, <1>5, <1>6, <1>7 DEF Outcomes

LEMMA OperationIs ==
    ASSUME NEW target \in Targets, NEW facts \in FactSet
    PROVE  /\ Operation(target, facts) \in Operations
           /\ Operation(target, facts)[1] = target
           /\ NoOperation \in Operations
  <1>1. Unknown \in FactSet
    <2>1. PICK zero \in Nat : zero = 0
      OBVIOUS
    <2> QED
      BY <2>1 DEF Unknown, FactSet
  <1> QED
    BY <1>1 DEF Operation, Operations, NoOperation

LEMMA DocumentStepsMade ==
    ASSUME NEW s \in SourceSet, NEW list, NEW target \in Targets
    PROVE  Made(DocumentSteps(s, list, target), Operation(target, s.facts),
                HasAnyDraft(list), ~ HasDraft(list, Operation(target, s.facts)))
  <1>1. PICK outcome \in Outcomes : outcome = DocumentOutcome(s, list, target)
    BY DocumentOutcomes
  <1>2. PICK status \in Given : status = StatusFor(outcome)
    BY ExportsAre
  <1>3. PICK op \in Operations : op = Operation(target, s.facts)
    BY OperationIs DEF SourceSet
  <1>4. PICK has \in BOOLEAN, new \in BOOLEAN :
            has = HasAnyDraft(list) /\ new = ~ HasDraft(list, op)
    BY DEF HasAnyDraft
  <1>5. /\ outcome = "draft_prepared" => new
        /\ outcome = "already_prepared" => has
    BY <1>1, <1>3, <1>4, DocumentOutcomes
  <1> DEFINE asks == outcome = "needs_review"
                     /\ (s.facts.quality = "blank" \/ target = "wave")
             asked == IF asks THEN <<Review>> ELSE <<>>
             attempted ==
                CASE outcome = "already_prepared" -> <<>>
                  [] outcome = "draft_prepared" ->
                       <<Insert(outcome, op), SetSource(status)>>
                  [] OTHER -> Refused(outcome, status)
             told == <<Export(ExportOf(outcome), status)>>
             one == asked \o attempted
             two == one \o Upsert(status)
             all == two \o told
  <1>6. asked \in Seq(Steps) /\ Plain(asked) /\ Silent(asked)
    BY StepKinds, OnePlain, EmptyMade
  <1>7. /\ Made(attempted, op, has, new)
        /\ outcome = "draft_prepared" => Drafting(attempted)
    <2>1. CASE outcome = "already_prepared"
      BY <2>1, EmptyMade
    <2>2. CASE outcome = "draft_prepared"
      <3>1. status = "export_draft_prepared"
        BY <1>2, <2>2 DEF StatusFor
      <3>2. PICK a \in Steps :
                /\ a = Insert("draft_prepared", op) /\ a.do # "look"
                /\ ~ Claims(a) /\ Drafts(a) /\ a.op = op
        BY StepKinds DEF Attempted, Outcomes
      <3>3. PICK b \in Steps :
                /\ b = SetSource("export_draft_prepared") /\ ~ Keeps(b)
                /\ b.do # "look"
        BY StepKinds
      <3>4. attempted = <<a, b>>
        BY <2>2, <3>1, <3>2, <3>3
      <3> HIDE DEF attempted
      <3> QED
        BY <1>5, <2>2, <3>2, <3>3, <3>4, TwoSteps
    <2>3. CASE outcome \notin {"already_prepared", "draft_prepared"}
      <3>1. PICK a \in Steps :
                /\ a = Insert(outcome, NoOperation) /\ a.do # "look"
                /\ ~ Claims(a) /\ ~ Drafts(a)
        BY <2>3, StepKinds, OperationIs DEF Attempted, SourceSet
      <3>2. Made(<<a>>, op, has, new)
        BY <3>1, OneStep
      <3>3. attempted = <<a>> \o (IF outcome = "needs_review"
                                  THEN <<SetSource(status)>> ELSE <<>>)
        BY <2>3, <3>1 DEF Refused
      <3>4. CASE outcome = "needs_review"
        <4>1. status = "needs_review"
          BY <1>2, <3>4 DEF StatusFor
        <4>2. PICK b \in Steps : /\ b = SetSource(status) /\ ~ Keeps(b)
                                 /\ ~ Claims(b) /\ b.do # "look"
          BY <4>1, StepKinds
        <4>3. <<b>> \in Seq(Steps) /\ Plain(<<b>>) /\ Silent(<<b>>)
          BY <4>2, OnePlain
        <4>4. attempted = <<a>> \o <<b>>
          BY <3>3, <3>4, <4>2
        <4> HIDE DEF attempted
        <4> QED
          BY <2>3, <3>2, <4>3, <4>4, JoinBack
      <3>5. CASE outcome # "needs_review"
        <4>1. attempted = <<a>> \o <<>>
          BY <3>3, <3>5
        <4> HIDE DEF attempted
        <4> QED
          BY <2>3, <3>2, <4>1, JoinBack, EmptyMade
      <3> QED
        BY <3>4, <3>5
    <2> QED
      BY <2>1, <2>2, <2>3
  <1>8. /\ told \in Seq(Steps) /\ Plain(told)
        /\ has \/ outcome = "draft_prepared" \/ Silent(told)
    <2>1. PICK export \in Exports : export = ExportOf(outcome)
      BY ExportsAre
    <2>2. PICK b \in Steps : /\ b = Export(export, status) /\ ~ Keeps(b)
                             /\ b.do # "look"
                             /\ Claims(b) <=> export = "draft_prepared"
      BY StepKinds
    <2>3. told = <<b>>
      BY <2>1, <2>2
    <2>4. Claims(b) => has \/ outcome = "draft_prepared"
      BY <1>5, <2>1, <2>2, ExportsAre
    <2> HIDE DEF told
    <2> QED
      BY <2>2, <2>3, <2>4, OnePlain
  <1>9. DocumentSteps(s, list, target) = all
    BY <1>1, <1>2, <1>3 DEF DocumentSteps
  <1> HIDE DEF asked, attempted, told
  <1>10. /\ Made(one, op, has, new)
         /\ outcome = "draft_prepared" => Drafting(one)
    BY <1>6, <1>7, JoinFront
  <1> HIDE DEF one
  <1>11. /\ Made(two, op, has, new)
         /\ outcome = "draft_prepared" => Drafting(two)
    BY <1>10, UpsertIs, JoinBack
  <1> HIDE DEF two
  <1>12. Made(all, op, has, new)
    BY <1>8, <1>11, JoinBack
  <1> QED
    BY <1>3, <1>4, <1>9, <1>12

LEMMA RecordStepsMade ==
    ASSUME NEW r \in RecordSet, NEW list, NEW target \in Targets
    PROVE  Made(RecordSteps(r, list, target), Operation(target, r.facts),
                HasAnyDraft(list),
                /\ ~ HasDraft(list, Operation(target, r.facts))
                /\ target = "wave" => ~ HasAnyDraft(list))
  <1>1. PICK outcome \in Outcomes : outcome = RecordOutcome(r, list, target)
    BY RecordOutcomes
  <1>2. PICK op \in Operations : op = Operation(target, r.facts)
    BY OperationIs DEF RecordSet
  <1>3. PICK has \in BOOLEAN, new \in BOOLEAN :
            /\ has = HasAnyDraft(list)
            /\ new = (/\ ~ HasDraft(list, op)
                      /\ target = "wave" => ~ HasAnyDraft(list))
    BY DEF HasAnyDraft
  <1>4. /\ outcome = "draft_prepared" => new
        /\ outcome = "already_prepared" => has
    BY <1>1, <1>2, <1>3, RecordOutcomes
  <1>5. PICK told \in Steps :
            /\ told = Export("draft_prepared", "export_draft_prepared")
            /\ ~ Keeps(told) /\ told.do # "look" /\ ~ Drafts(told)
    BY StepKinds DEF Exports, Outcomes, Given, Drafts, Keeps
  <1>6. Made(RecordSteps(r, list, target), op, has, new)
    <2>1. CASE outcome = "already_prepared"
      <3>1. RecordSteps(r, list, target) = <<told>>
        BY <1>1, <1>5, <2>1 DEF RecordSteps
      <3> QED
        BY <1>4, <1>5, <2>1, <3>1, OneStep
    <2>2. CASE outcome = "draft_prepared"
      <3>1. PICK a \in Steps :
                /\ a = Insert("draft_prepared", op) /\ a.do # "look"
                /\ ~ Claims(a) /\ Drafts(a) /\ a.op = op
        BY StepKinds DEF Attempted, Outcomes
      <3>2. RecordSteps(r, list, target) = <<a>> \o <<told>>
        BY <1>1, <1>2, <1>5, <2>2, <3>1 DEF RecordSteps
      <3>3. Made(<<a>>, op, has, new) /\ Drafting(<<a>>)
        BY <1>4, <2>2, <3>1, OneStep
      <3>4. <<told>> \in Seq(Steps) /\ Plain(<<told>>)
        BY <1>5, OnePlain
      <3> QED
        BY <3>2, <3>3, <3>4, JoinBack
    <2>3. CASE outcome \notin {"already_prepared", "draft_prepared"}
      <3>1. PICK a \in Steps :
                /\ a = Insert(outcome, NoOperation) /\ a.do # "look"
                /\ ~ Claims(a) /\ ~ Drafts(a)
        BY <2>3, StepKinds, OperationIs DEF Attempted, RecordSet
      <3>2. PICK b \in Steps :
                /\ b = Export(ExportOf(outcome), StatusFor(outcome))
                /\ ~ Keeps(b) /\ ~ Claims(b) /\ b.do # "look"
        <4>1. PICK export \in Exports, status \in Given :
                  /\ export = ExportOf(outcome) /\ status = StatusFor(outcome)
                  /\ export # "draft_prepared"
          BY <2>3, ExportsAre
        <4> QED
          BY <4>1, StepKinds
      <3>3. RecordSteps(r, list, target) = <<a, b>>
        BY <1>1, <2>3, <3>1, <3>2 DEF RecordSteps, RecordRefused
      <3> QED
        BY <3>1, <3>2, <3>3, TwoSteps
    <2> QED
      BY <2>1, <2>2, <2>3
  <1> QED
    BY <1>2, <1>3, <1>6

-----------------------------------------------------------------------------
\* What is left of a call when its first step is done.
LEMMA AfterHead ==
    ASSUME NEW todo \in Seq(Steps), todo # <<>>, NEW has
    PROVE  /\ Head(todo) \in Steps /\ Tail(todo) \in Seq(Steps)
           /\ Plain(todo) => ~ Keeps(Head(todo)) /\ Head(todo).do # "look"
                             /\ Plain(Tail(todo))
           /\ (Looks(todo) => Len(todo) = 1) => ~ Looks(Tail(todo))
           /\ KeepsOne(todo) => KeepsOne(Tail(todo))
           /\ KeepsOne(todo) /\ Keeps(Head(todo)) =>
                  \A i \in 1..Len(Tail(todo)) : ~ Keeps(Tail(todo)[i])
           /\ Founded(todo, has) =>
                  /\ Claims(Head(todo)) => has
                  /\ Founded(Tail(todo), has \/ Drafts(Head(todo)))
           /\ Fresh(todo) => Fresh(Tail(todo))
           /\ Fresh(todo) /\ Drafts(Head(todo)) => New(Head(todo).op)
  <1>1. /\ Head(todo) \in Steps /\ Tail(todo) \in Seq(Steps)
        /\ Len(Tail(todo)) = Len(todo) - 1 /\ Len(todo) \in Nat \ {0}
        /\ \A i \in 1..Len(Tail(todo)) : Tail(todo)[i] = todo[i + 1]
        /\ Head(todo) = todo[1]
    BY HeadTailProperties, EmptySeq
  <1>2. /\ 1 \in 1..Len(todo)
        /\ \A i \in 1..Len(Tail(todo)) : i + 1 \in 1..Len(todo)
    BY <1>1
  <1>3. Plain(todo) => ~ Keeps(Head(todo)) /\ Head(todo).do # "look"
                       /\ Plain(Tail(todo))
    BY <1>1, <1>2 DEF Plain
  <1>4. (Looks(todo) => Len(todo) = 1) => ~ Looks(Tail(todo))
    BY <1>1, <1>2 DEF Looks
  <1>5. ASSUME KeepsOne(todo) PROVE KeepsOne(Tail(todo))
    <2> SUFFICES ASSUME NEW i \in 1..Len(Tail(todo)),
                        NEW j \in 1..Len(Tail(todo)),
                        Keeps(Tail(todo)[i]), Keeps(Tail(todo)[j])
                 PROVE  i = j
      BY DEF KeepsOne
    <2>1. i + 1 = j + 1
      BY <1>1, <1>2, <1>5 DEF KeepsOne
    <2> QED
      BY <2>1
  <1>6. ASSUME KeepsOne(todo), Keeps(Head(todo)),
               NEW i \in 1..Len(Tail(todo))
        PROVE  ~ Keeps(Tail(todo)[i])
    BY <1>1, <1>2, <1>6 DEF KeepsOne
  <1>7. ASSUME Founded(todo, has)
        PROVE  /\ Claims(Head(todo)) => has
               /\ Founded(Tail(todo), has \/ Drafts(Head(todo)))
    <2>1. Claims(Head(todo)) => has
      BY <1>1, <1>2, <1>7 DEF Founded
    <2>2. ASSUME NEW i \in 1..Len(Tail(todo)), Claims(Tail(todo)[i]),
                 ~ (has \/ Drafts(Head(todo)))
          PROVE  \E j \in 1..Len(Tail(todo)) : j < i /\ Drafts(Tail(todo)[j])
      <3>1. PICK k \in 1..Len(todo) : k < i + 1 /\ Drafts(todo[k])
        BY <1>1, <1>2, <1>7, <2>2 DEF Founded
      <3>2. k # 1
        BY <1>1, <2>2, <3>1
      <3>3. k - 1 \in 1..Len(Tail(todo)) /\ k - 1 < i /\ k - 1 + 1 = k
        BY <1>1, <3>1, <3>2
      <3>4. Tail(todo)[k - 1] = todo[k]
        BY <1>1, <3>3
      <3> QED
        BY <3>1, <3>3, <3>4
    <2> QED
      BY <2>1, <2>2 DEF Founded
  <1>8. Fresh(todo) => Fresh(Tail(todo))
    BY <1>1, <1>2 DEF Fresh
  <1>9. Fresh(todo) /\ Drafts(Head(todo)) => New(Head(todo).op)
    BY <1>1, <1>2 DEF Fresh
  <1> QED
    BY <1>1, <1>3, <1>4, <1>5, <1>6, <1>7, <1>8, <1>9

\* An attempt that is kept comes first.
LEMMA Prepended ==
    ASSUME NEW list \in Seq(AttemptSet), NEW a \in AttemptSet
    PROVE  /\ <<a>> \o list \in Seq(AttemptSet)
           /\ Len(<<a>> \o list) = Len(list) + 1 /\ (<<a>> \o list)[1] = a
           /\ 1 \in 1..Len(<<a>> \o list)
           /\ \A i \in 1..Len(list) : /\ i + 1 \in 1..Len(<<a>> \o list)
                                      /\ (<<a>> \o list)[i + 1] = list[i]
           /\ \A j \in 1..Len(<<a>> \o list) : j # 1 =>
                 j - 1 \in 1..Len(list) /\ (<<a>> \o list)[j] = list[j - 1]
  <1>1. <<a>> \in Seq(AttemptSet) /\ Len(<<a>>) = 1 /\ <<a>>[1] = a
    OBVIOUS
  <1>2. /\ <<a>> \o list \in Seq(AttemptSet)
        /\ Len(<<a>> \o list) = Len(<<a>>) + Len(list)
        /\ \A i \in 1..Len(<<a>>) + Len(list) : (<<a>> \o list)[i] =
               IF i <= Len(<<a>>) THEN <<a>>[i] ELSE list[i - Len(<<a>>)]
        /\ Len(list) \in Nat
    BY <1>1, ConcatProperties, LenProperties
  <1>3. Len(<<a>> \o list) = Len(list) + 1
    BY <1>1, <1>2
  <1>4. 1 \in 1..Len(<<a>> \o list) /\ (<<a>> \o list)[1] = a
    BY <1>1, <1>2, <1>3
  <1>5. ASSUME NEW i \in 1..Len(list)
        PROVE  /\ i + 1 \in 1..Len(<<a>> \o list)
               /\ (<<a>> \o list)[i + 1] = list[i]
    <2>1. /\ i + 1 \in 1..Len(<<a>>) + Len(list) /\ ~ (i + 1 <= Len(<<a>>))
          /\ i + 1 - Len(<<a>>) = i
      BY <1>1, <1>2
    <2> QED
      BY <1>2, <2>1
  <1>6. ASSUME NEW j \in 1..Len(<<a>> \o list), j # 1
        PROVE  j - 1 \in 1..Len(list) /\ (<<a>> \o list)[j] = list[j - 1]
    BY <1>1, <1>2, <1>3, <1>6
  <1> QED
    BY <1>2, <1>3, <1>4, <1>5, <1>6

\* A step of one process that keeps at most one more attempt.
LEMMA CallStep ==
    ASSUME RouteInv, RouteTypes', NEW p \in Procs,
           \A q \in Procs \ {p} : proc'[q] = proc[q],
           UNCHANGED <<kind, crossed>>,
           Prepared => Prepared', attempts' = attempts \/ proc[p].routes,
           proc'[p].routes => proc[p].routes,
           CallRight(p)', RoutedOnce', ClaimedDraftsExist'
    PROVE  RouteInv'
  <1>1. Single'
    BY DEF RouteInv, Single
  <1>2. ASSUME NEW q \in Procs, q # p PROVE CallRight(q)'
    <2>1. CallRight(q) /\ proc'[q] = proc[q]
      BY <1>2 DEF RouteInv
    <2>2. CASE attempts' = attempts
      BY <2>1, <2>2 DEF CallRight, Prepared, Fresh, New
    <2>3. CASE proc[p].routes
      <3>1. ~ crossed => ~ proc[q].routes
        BY <1>2, <2>3 DEF RouteInv, Single
      <3>2. ~ crossed => Fresh(proc[q].todo)'
        BY <2>1, <3>1 DEF CallRight, Plain, Fresh, Drafts, Keeps
      <3>3. Founded(proc[q].todo, Prepared) => Founded(proc[q].todo, Prepared)'
        BY <2>1 DEF Founded
      <3> QED
        BY <2>1, <3>2, <3>3 DEF CallRight
    <2> QED
      BY <2>2, <2>3
  <1> QED
    BY <1>1, <1>2 DEF RouteInv

LEMMA IdleCall ==
    /\ Idle \in CallSet /\ ~ Idle.routes
    /\ Idle.held = NoRecord /\ Idle.todo = <<>>
    /\ NoRecord \in RecordSet /\ NoRecord.export # "draft_prepared"
    /\ Unknown \in FactSet
  <1>1. PICK unknown \in FactSet : unknown = Unknown
    <2>1. PICK zero \in Nat : zero = 0
      OBVIOUS
    <2> QED
      BY <2>1 DEF Unknown, FactSet
  <1>2. PICK none \in RecordSet :
            none = NoRecord /\ none.export # "draft_prepared"
    <2>1. PICK no \in BOOLEAN : no = FALSE
      OBVIOUS
    <2>2. PICK word \in {"none"} : TRUE
      OBVIOUS
    <2>3. word \in RecordStatuses /\ word \in Exports
      BY <2>2 DEF RecordStatuses, Exports
    <2>4. [status |-> word, export |-> word, review |-> no, facts |-> unknown]
              \in RecordSet
      BY <2>1, <2>3 DEF RecordSet
    <2>5. [status |-> word, export |-> word, review |-> no, facts |-> unknown]
              = NoRecord
      BY <1>1, <2>1, <2>2 DEF NoRecord
    <2>6. NoRecord.export # "draft_prepared"
      BY DEF NoRecord
    <2> QED
      BY <2>4, <2>5, <2>6
  <1>3. PICK empty \in Seq(Steps) : empty = <<>>
    BY EmptySeq
  <1>4. PICK no \in BOOLEAN : no = FALSE
    OBVIOUS
  <1>5. PICK idle \in CallSet :
            /\ idle = [routes |-> no, held |-> none, todo |-> empty]
            /\ ~ idle.routes /\ idle.held = none /\ idle.todo = empty
    <2>1. [routes |-> no, held |-> none, todo |-> empty] \in CallSet
      BY DEF CallSet
    <2> QED
      BY <1>4, <2>1
  <1>6. Idle = idle
    BY <1>2, <1>3, <1>4, <1>5 DEF Idle
  <1> QED
    BY <1>1, <1>2, <1>3, <1>5, <1>6

LEMMA IdleRight ==
    /\ Plain(<<>>) /\ ~ Looks(<<>>) /\ KeepsOne(<<>>) /\ Fresh(<<>>)
    /\ \A has : Founded(<<>>, has)
  <1>1. 1..Len(<<>>) = {}
    BY EmptySeq
  <1> QED
    BY <1>1 DEF Plain, Looks, KeepsOne, Fresh, Founded

-----------------------------------------------------------------------------
LEMMA TodoField ==
    ASSUME NEW call \in CallSet, NEW t \in Seq(Steps)
    PROVE  /\ [call EXCEPT !.todo = t] \in CallSet
           /\ [call EXCEPT !.todo = t].todo = t
           /\ [call EXCEPT !.todo = t].held = call.held
           /\ [call EXCEPT !.todo = t].routes = call.routes
  BY DEF CallSet

LEMMA HeldField ==
    ASSUME NEW call \in CallSet, NEW h \in RecordSet
    PROVE  /\ [call EXCEPT !.held = h] \in CallSet
           /\ [call EXCEPT !.held = h].todo = call.todo
           /\ [call EXCEPT !.held = h].held = h
           /\ [call EXCEPT !.held = h].routes = call.routes
  BY DEF CallSet

LEMMA RoutesField ==
    ASSUME NEW call \in CallSet, NEW r \in BOOLEAN
    PROVE  /\ [call EXCEPT !.routes = r] \in CallSet
           /\ [call EXCEPT !.routes = r].todo = call.todo
           /\ [call EXCEPT !.routes = r].held = call.held
           /\ [call EXCEPT !.routes = r].routes = r
  BY DEF CallSet

LEMMA Started ==
    ASSUME NEW routes \in BOOLEAN, NEW t \in Seq(Steps)
    PROVE  \E new \in CallSet :
              /\ new = [Idle EXCEPT !.routes = routes, !.todo = t]
              /\ new.todo = t /\ new.held = NoRecord /\ new.routes = routes
  <1>1. PICK idle \in CallSet : idle = Idle /\ idle.held = NoRecord
    BY IdleCall
  <1>2. PICK mid \in CallSet :
            /\ mid = [idle EXCEPT !.routes = routes]
            /\ mid.held = idle.held /\ mid.routes = routes
    BY RoutesField
  <1>3. PICK new \in CallSet :
            /\ new = [mid EXCEPT !.todo = t]
            /\ new.todo = t /\ new.held = mid.held /\ new.routes = mid.routes
    BY TodoField
  <1> QED
    BY <1>1, <1>2, <1>3

DataTypes ==
    /\ kind \in {"document", "bank"}
    /\ source \in SourceSet /\ rec \in RecordSet
    /\ attempts \in Seq(AttemptSet)
    /\ edits \in Nat

\* A call does its first step and goes on.
LEMMA Proceeds ==
    ASSUME RouteInv, NEW p \in Procs, NEW held \in RecordSet,
           proc[p].todo # <<>>, Done(p, held),
           held.export = "draft_prepared" => Prepared',
           UNCHANGED <<kind, crossed>>, DataTypes',
           \/ attempts' = attempts /\ ~ Drafts(Head(proc[p].todo))
           \/ /\ Keeps(Head(proc[p].todo)) /\ (Prepared => Prepared')
              /\ Drafts(Head(proc[p].todo)) => Prepared',
           RoutedOnce', ClaimedDraftsExist'
    PROVE  RouteInv'
  <1>1. /\ proc \in [Procs -> CallSet] /\ CallRight(p)
        /\ proc[p] \in CallSet
    BY DEF RouteInv, RouteTypes
  <1>2. proc[p].todo \in Seq(Steps)
    BY <1>1 DEF CallSet
  <1>3. PICK rest \in Seq(Steps) :
            /\ rest = Tail(proc[p].todo)
            /\ Plain(rest) \/ proc[p].routes
            /\ ~ Looks(rest) /\ KeepsOne(rest)
            /\ Keeps(Head(proc[p].todo)) =>
                   \A i \in 1..Len(rest) : ~ Keeps(rest[i])
            /\ Founded(rest, Prepared \/ Drafts(Head(proc[p].todo)))
            /\ ~ crossed => Fresh(rest)
    <2>1. PICK todo \in Seq(Steps) : todo = proc[p].todo /\ todo # <<>>
      BY <1>2
    <2>2. PICK has \in BOOLEAN : has = Prepared
      BY DEF Prepared, HasAnyDraft
    <2>3. /\ Plain(todo) \/ proc[p].routes
          /\ Looks(todo) => Len(todo) = 1
          /\ KeepsOne(todo) /\ Founded(todo, has)
          /\ ~ crossed => Fresh(todo)
      BY <1>1, <2>1, <2>2 DEF CallRight
    <2>4. PICK rest \in Seq(Steps) : rest = Tail(todo)
      BY <2>1, AfterHead
    <2>5. /\ Plain(rest) \/ proc[p].routes
          /\ ~ Looks(rest) /\ KeepsOne(rest)
          /\ ~ crossed => Fresh(rest)
      BY <2>1, <2>3, <2>4, AfterHead
    <2>6. Keeps(Head(todo)) => \A i \in 1..Len(rest) : ~ Keeps(rest[i])
      BY <2>1, <2>3, <2>4, AfterHead
    <2>7. Founded(rest, has \/ Drafts(Head(todo)))
      BY <2>1, <2>3, <2>4, AfterHead
    <2>8. Founded(rest, Prepared \/ Drafts(Head(todo)))
      BY <2>2, <2>7
    <2> QED
      BY <2>1, <2>4, <2>5, <2>6, <2>8
  <1>4. Prepared \/ Drafts(Head(proc[p].todo)) => Prepared'
    BY DEF Prepared
  <1>5. Founded(rest, Prepared')
    BY <1>3, <1>4 DEF Founded
  <1>6. ~ crossed' => Fresh(rest)'
    <2>1. CASE attempts' = attempts
      BY <1>3, <2>1 DEF Fresh, New
    <2>2. CASE Keeps(Head(proc[p].todo))
      BY <1>3, <2>2 DEF Fresh, Drafts, Keeps
    <2> QED
      BY <2>1, <2>2
  <1>7. PICK new \in CallSet :
            /\ proc' = [proc EXCEPT ![p] = new]
            /\ \/ new = Idle
               \/ new.todo = rest /\ new.held = held
                  /\ new.routes = proc[p].routes
    <2>1. CASE rest = <<>>
      <3>1. proc' = [proc EXCEPT ![p] = Idle]
        BY <1>3, <2>1 DEF Done
      <3> QED
        BY <3>1, IdleCall
    <2>2. CASE rest # <<>>
      <3>1. PICK new \in CallSet :
                /\ new = [proc[p] EXCEPT !.todo = rest, !.held = held]
                /\ new.todo = rest /\ new.held = held
                /\ new.routes = proc[p].routes
        <4>1. PICK call \in CallSet : call = proc[p]
          BY <1>1
        <4>2. PICK mid \in CallSet :
                  /\ mid = [call EXCEPT !.todo = rest]
                  /\ mid.todo = rest /\ mid.routes = call.routes
          BY TodoField
        <4>3. PICK new \in CallSet :
                  /\ new = [mid EXCEPT !.held = held]
                  /\ new.todo = mid.todo /\ new.held = held
                  /\ new.routes = mid.routes
          BY HeldField
        <4> QED
          BY <4>1, <4>2, <4>3
      <3>2. proc' = [proc EXCEPT ![p] = new]
        BY <1>3, <2>2, <3>1 DEF Done
      <3> QED
        BY <3>1, <3>2
    <2> QED
      BY <2>1, <2>2
  <1>8. /\ proc'[p] = new /\ \A q \in Procs \ {p} : proc'[q] = proc[q]
        /\ proc' \in [Procs -> CallSet]
    BY <1>1, <1>7
  <1>9. RouteTypes'
    BY <1>8 DEF RouteInv, RouteTypes, DataTypes
  <1>10. CallRight(p)'
    <2>1. CASE new = Idle
      <3>1. /\ proc'[p].todo = <<>> /\ ~ proc'[p].routes
            /\ proc'[p].held.export # "draft_prepared"
        BY <1>8, <2>1, IdleCall
      <3>2. Fresh(<<>>)'
        BY EmptySeq DEF Fresh
      <3> QED
        BY <3>1, <3>2, IdleRight DEF CallRight
    <2>2. CASE /\ new.todo = rest /\ new.held = held
               /\ new.routes = proc[p].routes
      <3>1. /\ proc'[p].todo = rest /\ proc'[p].held = held
            /\ proc'[p].routes = proc[p].routes
        BY <1>8, <2>2
      <3>2. ~ crossed' => Fresh(proc[p].todo)'
        BY <1>6, <3>1 DEF Fresh, New
      <3> QED
        BY <1>3, <1>5, <3>1, <3>2 DEF CallRight
    <2> QED
      BY <1>7, <2>1, <2>2
  <1>11. proc'[p].routes => proc[p].routes
    BY <1>7, <1>8, IdleCall
  <1>12. (Prepared => Prepared') /\ (attempts' = attempts \/ proc[p].routes)
    <2>1. Keeps(Head(proc[p].todo)) => proc[p].routes
      BY <1>1, <1>2, AfterHead DEF CallRight
    <2> QED
      BY <1>4, <2>1
  <1> QED
    BY <1>8, <1>9, <1>10, <1>11, <1>12, CallStep

\* A step that keeps no attempt leaves the drafts as they are.
LEMMA SameAttempts ==
    ASSUME RouteInv, UNCHANGED <<attempts, crossed, kind>>
    PROVE  RoutedOnce' /\ (Prepared' <=> Prepared)
  BY DEF RouteInv, RoutedOnce, Prepared

LEMMA FacingHead ==
    ASSUME RouteInv, NEW p \in Procs, proc[p].todo # <<>>
    PROVE  /\ proc[p] \in CallSet /\ proc[p].todo \in Seq(Steps)
           /\ proc[p].held \in RecordSet
           /\ Head(proc[p].todo) \in Steps
           /\ Claims(Head(proc[p].todo)) => Prepared
           /\ proc[p].held.export = "draft_prepared" => Prepared
  <1>1. /\ CallRight(p) /\ proc[p] \in CallSet
        /\ proc[p].todo \in Seq(Steps) /\ proc[p].held \in RecordSet
    BY DEF RouteInv, RouteTypes, CallSet
  <1> QED
    BY <1>1, AfterHead DEF CallRight

LEMMA InsertAttemptKeeps ==
    ASSUME RouteInv, NEW p \in Procs, InsertAttempt(p)
    PROVE  RouteInv'
  <1>1. proc[p].todo # <<>> /\ Head(proc[p].todo).do = "attempt"
    BY DEF InsertAttempt, Facing
  <1>2. PICK step \in Steps : step = Head(proc[p].todo)
    BY <1>1, FacingHead
  <1>3. step \in [do : {"attempt"}, status : Attempted, op : Operations]
    BY <1>1, <1>2 DEF Steps
  <1>4. PICK new \in AttemptSet :
            /\ new.status = step.status /\ new.op = step.op
            /\ attempts' = <<new>> \o attempts
    BY <1>2, <1>3 DEF InsertAttempt, AttemptSet
  <1>5. attempts \in Seq(AttemptSet) /\ Len(attempts) \in Nat
    BY LenProperties DEF RouteInv, RouteTypes
  <1>6. /\ attempts' \in Seq(AttemptSet)
        /\ Len(attempts') = Len(attempts) + 1 /\ attempts'[1] = new
        /\ 1 \in 1..Len(attempts')
        /\ \A i \in 1..Len(attempts) : /\ i + 1 \in 1..Len(attempts')
                                       /\ attempts'[i + 1] = attempts[i]
        /\ \A j \in 1..Len(attempts') : j # 1 =>
              j - 1 \in 1..Len(attempts) /\ attempts'[j] = attempts[j - 1]
    BY <1>4, <1>5, Prepended
  <1>7. UNCHANGED <<kind, source, rec, edits, crossed>>
    BY DEF InsertAttempt, Counted
  <1>8. Prepared => Prepared'
    BY <1>6 DEF Prepared, HasAnyDraft
  <1>9. Drafts(step) => Prepared'
    BY <1>4, <1>6 DEF Prepared, HasAnyDraft, Drafts
  <1>10. ~ crossed /\ Drafts(step) => New(step.op)
    <2>1. proc[p].todo \in Seq(Steps) /\ CallRight(p)
      BY <1>1, FacingHead DEF RouteInv
    <2> QED
      BY <1>1, <1>2, <2>1, AfterHead DEF CallRight
  <1>11. RoutedOnce'
    <2> SUFFICES ASSUME ~ crossed, NEW i \in 1..Len(attempts'),
                        NEW j \in 1..Len(attempts'), i < j,
                        attempts'[i].status = "draft_prepared",
                        attempts'[j].status = "draft_prepared"
                 PROVE  /\ attempts'[i].op # attempts'[j].op
                        /\ ~(kind = "bank" /\ attempts'[i].op[1] = "wave"
                                           /\ attempts'[j].op[1] = "wave")
      BY <1>5, <1>6, <1>7 DEF RoutedOnce
    <2>1. /\ j # 1 /\ j - 1 \in 1..Len(attempts)
          /\ attempts'[j] = attempts[j - 1]
      BY <1>6
    <2>2. CASE i = 1
      <3>1. Drafts(step) /\ attempts'[i].op = step.op
        BY <1>1, <1>2, <1>4, <1>6, <2>2 DEF Drafts
      <3>2. New(step.op)
        BY <1>10, <3>1
      <3>3. attempts[j - 1].op # step.op
        BY <2>1, <3>2 DEF New, HasDraft
      <3>4. HasAnyDraft(attempts)
        BY <2>1 DEF HasAnyDraft
      <3> QED
        BY <2>1, <3>1, <3>2, <3>3, <3>4 DEF New
    <2>3. CASE i # 1
      <3>1. /\ i - 1 \in 1..Len(attempts) /\ attempts'[i] = attempts[i - 1]
            /\ i - 1 # j - 1
        BY <1>6, <2>3
      <3> QED
        BY <2>1, <3>1 DEF RouteInv, RoutedOnce
    <2> QED
      BY <2>2, <2>3
  <1>12. ClaimedDraftsExist'
    BY <1>7, <1>8 DEF RouteInv, ClaimedDraftsExist, Prepared
  <1>13. Done(p, proc[p].held) /\ Keeps(step)
    BY <1>1, <1>2 DEF InsertAttempt, Keeps
  <1>14. /\ proc[p].held \in RecordSet
         /\ proc[p].held.export = "draft_prepared" => Prepared
    BY <1>1, FacingHead
  <1>15. DataTypes'
    BY <1>6, <1>7 DEF RouteInv, RouteTypes, DataTypes
  <1> QED
    BY <1>1, <1>2, <1>7, <1>8, <1>9, <1>11, <1>12, <1>13, <1>14, <1>15, Proceeds

\* The attempts are as they were.
LEMMA QuietProceeds ==
    ASSUME RouteInv, NEW p \in Procs, NEW held \in RecordSet,
           proc[p].todo # <<>>, Done(p, held), ~ Keeps(Head(proc[p].todo)),
           held.export = "draft_prepared" => Prepared,
           UNCHANGED <<kind, crossed, attempts, edits>>,
           source' \in SourceSet, rec' \in RecordSet,
           \/ source'.status = "export_draft_prepared"
           \/ rec'.export = "draft_prepared"
           => Prepared
    PROVE  RouteInv'
  <1>1. RoutedOnce' /\ (Prepared' <=> Prepared)
    BY SameAttempts
  <1>2. ClaimedDraftsExist'
    BY <1>1 DEF ClaimedDraftsExist, Prepared
  <1>3. DataTypes'
    BY DEF RouteInv, RouteTypes, DataTypes
  <1>4. ~ Drafts(Head(proc[p].todo))
    BY DEF Drafts, Keeps
  <1> QED
    BY <1>1, <1>2, <1>3, <1>4, Proceeds

LEMMA RouteFacts ==
    ASSUME RouteInv
    PROVE  /\ source \in SourceSet /\ rec \in RecordSet
           /\ attempts \in Seq(AttemptSet)
           /\ source.status = "export_draft_prepared" => Prepared
           /\ rec.export = "draft_prepared" => Prepared
           /\ source.facts \in FactSet /\ rec.facts \in FactSet
  BY DEF RouteInv, RouteTypes, ClaimedDraftsExist, Prepared, SourceSet,
         RecordSet

LEMMA UpdateSourceKeeps ==
    ASSUME RouteInv, NEW p \in Procs, UpdateSource(p)
    PROVE  RouteInv'
  <1>1. /\ proc[p].todo # <<>> /\ Head(proc[p].todo).do \in {"source", "review"}
        /\ Done(p, proc[p].held)
        /\ UNCHANGED <<kind, crossed, attempts, edits, rec>>
    BY DEF UpdateSource, Facing, Counted
  <1>2. PICK step \in Steps : /\ step = Head(proc[p].todo)
                              /\ Claims(step) => Prepared
    BY <1>1, FacingHead
  <1>3. ~ Keeps(step)
    BY <1>1, <1>2 DEF Keeps
  <1>4. /\ source' \in SourceSet
        /\ source'.status = "export_draft_prepared" => Prepared
    <2>1. CASE step.do = "source"
      <3>1. PICK status \in {"export_draft_prepared", "needs_review"} :
                status = step.status
        BY <2>1 DEF Steps
      <3>2. source' = [source EXCEPT !.status = status]
        BY <1>2, <2>1, <3>1 DEF UpdateSource, Facing
      <3>3. status = "export_draft_prepared" => Prepared
        BY <1>2, <2>1, <3>1 DEF Claims
      <3> QED
        BY <3>2, <3>3, RouteFacts DEF SourceSet
    <2>2. CASE step.do = "review"
      <3>1. PICK yes \in BOOLEAN : yes = TRUE
        OBVIOUS
      <3>2. source' = [source EXCEPT !.open = yes]
        BY <1>2, <2>2, <3>1 DEF UpdateSource, Facing
      <3> QED
        BY <3>2, RouteFacts DEF SourceSet
    <2> QED
      BY <1>1, <1>2, <2>1, <2>2
  <1>5. rec' \in RecordSet /\ (rec'.export = "draft_prepared" => Prepared)
    BY <1>1, RouteFacts
  <1>6. /\ proc[p].held \in RecordSet
        /\ proc[p].held.export = "draft_prepared" => Prepared
    BY <1>1, FacingHead
  <1> QED
    BY <1>1, <1>2, <1>3, <1>4, <1>5, <1>6, QuietProceeds

\* The record that follows from the source claims a draft that there is.
LEMMA DerivedRecord ==
    ASSUME RouteInv, NEW status \in Given
    PROVE  /\ DocumentRecord(status) \in RecordSet
           /\ DocumentRecord(status).export = "draft_prepared" => Prepared
  <1>1. PICK review \in BOOLEAN : review = Reviewed(source)
    BY DEF Reviewed
  <1>2. PICK export \in Exports : /\ export = ExportOfDocument(source, attempts)
                                  /\ export = "draft_prepared" => Prepared
    <2>1. CASE attempts = <<>>
      <3>1. PICK quiet \in {"not_applicable", "draft_prepared",
                            "blocked_duplicate", "blocked_by_review", "ready"} :
                /\ quiet = ExportOfDocument(source, attempts)
                /\ quiet = "draft_prepared" =>
                       source.status = "export_draft_prepared"
        BY <2>1 DEF ExportOfDocument
      <3> QED
        BY <3>1, RouteFacts DEF Exports, Outcomes
    <2>2. CASE attempts # <<>>
      <3>1. 1 \in 1..Len(attempts)
        BY <2>2, RouteFacts, EmptySeq
      <3>2. PICK latest \in Attempted : latest = attempts[1].status
        <4>1. attempts[1] \in AttemptSet
          BY <3>1, RouteFacts, ElementOfSeq
        <4> QED
          BY <4>1 DEF AttemptSet
      <3>3. latest = "draft_prepared" => Prepared
        BY <3>1, <3>2 DEF Prepared, HasAnyDraft
      <3>4. PICK word \in Attempted \cup
                    {"not_applicable", "draft_prepared", "blocked_duplicate",
                     "blocked_by_review", "ready"} :
                /\ word = ExportOfDocument(source, attempts)
                /\ word = "draft_prepared" =>
                       \/ source.status = "export_draft_prepared"
                       \/ latest = "draft_prepared"
        BY <2>2, <3>2 DEF ExportOfDocument
      <3> QED
        BY <3>3, <3>4, RouteFacts DEF Exports, Outcomes, Attempted
    <2> QED
      BY <2>1, <2>2
  <1>3. PICK word \in RecordStatuses :
            word = IF status = "none"
                   THEN IF source.type = "support" /\ ~Reviewed(source)
                        THEN "supporting_evidence" ELSE StatusOfDocument(source)
                   ELSE status
    BY DEF RecordStatuses, StatusOfDocument, Given
  <1>4. PICK facts \in FactSet : facts = source.facts
    BY RouteFacts
  <1>5. DocumentRecord(status) = [status |-> word, export |-> export,
                                  review |-> review, facts |-> facts]
    BY <1>1, <1>2, <1>3, <1>4 DEF DocumentRecord
  <1> HIDE DEF DocumentRecord
  <1> QED
    BY <1>2, <1>5 DEF RecordSet

LEMMA DerivedBankRecord ==
    ASSUME RouteInv
    PROVE  BankRecord \in RecordSet /\ BankRecord.export # "draft_prepared"
  <1> DEFINE status == CASE source.recon = "reconciled" -> "reconciled"
                         [] source.recon = "missing_receipt" -> "missing_receipt"
                         [] source.recon = "candidate" -> "needs_review"
                         [] OTHER -> "draft"
  <1>1. PICK word \in RecordStatuses : word = status
    BY DEF RecordStatuses
  <1>2. PICK review \in BOOLEAN :
            review = (word = "needs_review" \/ word = "missing_receipt")
    OBVIOUS
  <1>3. PICK export \in Exports \ {"draft_prepared"} :
            export = CASE source.recon = "reconciled" -> "not_applicable"
                       [] source.recon = "missing_receipt" ->
                              "blocked_missing_receipt"
                       [] source.recon = "candidate" -> "blocked_by_review"
                       [] OTHER -> "not_started"
    BY DEF Exports, Outcomes
  <1>4. PICK facts \in FactSet : facts = source.facts
    BY RouteFacts
  <1>5. BankRecord = [status |-> word, export |-> export, review |-> review,
                      facts |-> facts]
    BY <1>1, <1>2, <1>3, <1>4 DEF BankRecord
  <1> QED
    BY <1>3, <1>5 DEF RecordSet

LEMMA DeriveRecordKeeps ==
    ASSUME RouteInv, NEW p \in Procs, DeriveRecord(p)
    PROVE  RouteInv'
  <1>1. /\ proc[p].todo # <<>> /\ Head(proc[p].todo).do = "derive"
        /\ UNCHANGED <<kind, crossed, attempts, edits, rec, source>>
    BY DEF DeriveRecord, Facing, Counted
  <1>2. PICK step \in Steps : step = Head(proc[p].todo)
    BY <1>1, FacingHead
  <1>3. ~ Keeps(step) /\ step.status \in Given
    BY <1>1, <1>2 DEF Keeps, Steps
  <1>4. PICK held \in RecordSet : /\ Done(p, held)
                                  /\ held.export = "draft_prepared" => Prepared
    <2>1. CASE kind = "bank"
      BY <2>1, DerivedBankRecord DEF DeriveRecord
    <2>2. CASE kind # "bank"
      BY <1>2, <1>3, <2>2, DerivedRecord DEF DeriveRecord
    <2> QED
      BY <2>1, <2>2
  <1>5. /\ rec' \in RecordSet /\ (rec'.export = "draft_prepared" => Prepared)
        /\ source' \in SourceSet
        /\ source'.status = "export_draft_prepared" => Prepared
    BY <1>1, RouteFacts
  <1> QED
    BY <1>1, <1>2, <1>3, <1>4, <1>5, QuietProceeds

LEMMA StoreRecordKeeps ==
    ASSUME RouteInv, NEW p \in Procs, StoreRecord(p)
    PROVE  RouteInv'
  <1>1. /\ proc[p].todo # <<>> /\ Head(proc[p].todo).do = "store"
        /\ Done(p, proc[p].held)
        /\ UNCHANGED <<kind, crossed, attempts, edits, source>>
    BY DEF StoreRecord, Facing, Counted
  <1>2. PICK new \in RecordSet : /\ new = proc[p].held
                                 /\ new.export = "draft_prepared" => Prepared
    BY <1>1, FacingHead
  <1>3. ~ Keeps(Head(proc[p].todo))
    BY <1>1 DEF Keeps
  <1>4. rec' \in RecordSet /\ rec'.export = new.export
    <2>1. PICK facts \in FactSet : facts = rec.facts
      BY RouteFacts
    <2>2. [new EXCEPT !.facts = facts] \in RecordSet
          /\ [new EXCEPT !.facts = facts].export = new.export
      BY DEF RecordSet
    <2>3. rec' = [new EXCEPT !.facts = facts] \/ rec' = new
      BY <1>2, <2>1 DEF StoreRecord
    <2> QED
      BY <2>2, <2>3
  <1>5. /\ source' \in SourceSet
        /\ source'.status = "export_draft_prepared" => Prepared
    BY <1>1, RouteFacts
  <1> QED
    BY <1>1, <1>2, <1>3, <1>4, <1>5, QuietProceeds

LEMMA StoreExportKeeps ==
    ASSUME RouteInv, NEW p \in Procs, StoreExport(p)
    PROVE  RouteInv'
  <1>1. /\ proc[p].todo # <<>> /\ Head(proc[p].todo).do = "export"
        /\ Done(p, proc[p].held)
        /\ UNCHANGED <<kind, crossed, attempts, edits, source>>
    BY DEF StoreExport, Facing, Counted
  <1>2. PICK step \in Steps : /\ step = Head(proc[p].todo)
                              /\ Claims(step) => Prepared
    BY <1>1, FacingHead
  <1>3. step \in [do : {"export"}, export : Exports, status : Given]
    BY <1>1, <1>2 DEF Steps
  <1>4. ~ Keeps(step)
    BY <1>3 DEF Keeps
  <1>5. rec' \in RecordSet /\ (rec'.export = "draft_prepared" => Prepared)
    <2>1. PICK export \in Exports : export = step.export
      BY <1>3
    <2>2. PICK status \in RecordStatuses :
              status = IF step.status = "none" THEN rec.status ELSE step.status
      BY <1>3, RouteFacts DEF Given, RecordStatuses, RecordSet
    <2>3. PICK mid \in RecordSet :
              mid = [rec EXCEPT !.export = export] /\ mid.export = export
      <3>1. [rec EXCEPT !.export = export] \in RecordSet
            /\ [rec EXCEPT !.export = export].export = export
        BY RouteFacts DEF RecordSet
      <3> QED
        BY <3>1
    <2>4. [mid EXCEPT !.status = status] \in RecordSet
          /\ [mid EXCEPT !.status = status].export = export
      BY <2>3 DEF RecordSet
    <2>5. rec' = [rec EXCEPT !.export = export, !.status = status]
      BY <1>2, <2>1, <2>2 DEF StoreExport
    <2>6. rec' = [mid EXCEPT !.status = status]
      BY <2>3, <2>5
    <2>7. export = "draft_prepared" => Prepared
      BY <1>2, <1>3, <2>1 DEF Claims
    <2> QED
      BY <2>4, <2>6, <2>7
  <1>6. /\ source' \in SourceSet
        /\ source'.status = "export_draft_prepared" => Prepared
    BY <1>1, RouteFacts
  <1>7. /\ proc[p].held \in RecordSet
        /\ proc[p].held.export = "draft_prepared" => Prepared
    BY <1>1, FacingHead
  <1> QED
    BY <1>1, <1>2, <1>4, <1>5, <1>6, <1>7, QuietProceeds

-----------------------------------------------------------------------------
\* The lists that calls begin with are right.
LEMMA MadeRight ==
    ASSUME NEW todo, NEW op, NEW new, Made(todo, op, Prepared, new),
           new => New(op)
    PROVE  /\ todo \in Seq(Steps) /\ ~ Looks(todo) /\ KeepsOne(todo)
           /\ Founded(todo, Prepared) /\ Fresh(todo)
  BY DEF Made, Fresh

LEMMA LookUpKeeps ==
    ASSUME RouteInv, NEW p \in Procs, LookUp(p)
    PROVE  RouteInv'
  <1>1. /\ proc[p].todo # <<>> /\ Head(proc[p].todo).do = "look"
        /\ UNCHANGED <<kind, crossed, attempts, edits, source, rec>>
    BY DEF LookUp, Facing, Counted
  <1>2. PICK step \in Steps : step = Head(proc[p].todo)
    BY <1>1, FacingHead
  <1>3. PICK copy \in RecordSet, target \in Targets :
            copy = step.copy /\ target = step.target
    BY <1>1, <1>2 DEF Steps
  <1>4. PICK op \in Operations : op = Operation(target, copy.facts)
                                 /\ op[1] = target
    BY OperationIs DEF RecordSet
  <1>5. PICK new \in BOOLEAN :
            new = (/\ ~ HasDraft(attempts, op)
                   /\ target = "wave" => ~ HasAnyDraft(attempts))
    BY DEF HasDraft, HasAnyDraft
  <1>6. PICK todo : todo = RecordSteps(copy, attempts, target)
    OBVIOUS
  <1>7. Made(todo, op, Prepared, new)
    BY <1>4, <1>5, <1>6, RecordStepsMade DEF Prepared
  <1>8. new => New(op)
    BY <1>4, <1>5 DEF New
  <1>9. /\ todo \in Seq(Steps) /\ ~ Looks(todo) /\ KeepsOne(todo)
        /\ Founded(todo, Prepared) /\ Fresh(todo)
    BY <1>7, <1>8, MadeRight
  <1>10. proc[p] \in CallSet /\ proc \in [Procs -> CallSet]
    BY DEF RouteInv, RouteTypes
  <1>11. PICK call \in CallSet :
            /\ proc' = [proc EXCEPT ![p] = call]
            /\ call.todo = todo /\ call.held = proc[p].held
            /\ call.routes = proc[p].routes
    <2>1. PICK call \in CallSet :
              /\ call = [proc[p] EXCEPT !.todo = todo]
              /\ call.todo = todo /\ call.held = proc[p].held
              /\ call.routes = proc[p].routes
      BY <1>9, <1>10, TodoField
    <2>2. proc' = [proc EXCEPT ![p] = call]
      BY <1>2, <1>3, <1>6, <2>1 DEF LookUp
    <2> QED
      BY <2>1, <2>2
  <1>12. /\ proc'[p] = call /\ \A q \in Procs \ {p} : proc'[q] = proc[q]
         /\ proc' \in [Procs -> CallSet]
    BY <1>10, <1>11
  <1>13. RouteTypes'
    BY <1>1, <1>12 DEF RouteInv, RouteTypes
  <1>14. proc[p].routes /\ (call.held.export = "draft_prepared" => Prepared)
    <2>1. CallRight(p) /\ proc[p].todo \in Seq(Steps)
      BY <1>1, FacingHead DEF RouteInv
    <2>2. ~ Plain(proc[p].todo)
      BY <1>1, <2>1, AfterHead
    <2> QED
      BY <1>11, <2>1, <2>2 DEF CallRight
  <1>15. RoutedOnce' /\ (Prepared' <=> Prepared)
    BY <1>1, SameAttempts
  <1>16. ClaimedDraftsExist'
    BY <1>1 DEF RouteInv, ClaimedDraftsExist
  <1>17. CallRight(p)'
    <2>1. Fresh(todo)'
      BY <1>1, <1>9 DEF Fresh, New
    <2>2. Founded(todo, Prepared)'
      BY <1>9, <1>15 DEF Founded
    <2>3. /\ proc'[p].todo = todo /\ proc'[p].held = call.held
          /\ proc'[p].routes = call.routes
      BY <1>11, <1>12
    <2>4. Fresh(proc[p].todo)' /\ Founded(proc[p].todo, Prepared)'
      BY <2>1, <2>2, <2>3 DEF Fresh, New, Founded
    <2> QED
      BY <1>9, <1>11, <1>14, <1>15, <2>3, <2>4 DEF CallRight
  <1> QED
    BY <1>1, <1>11, <1>12, <1>13, <1>15, <1>16, <1>17, CallStep

\* A call begins.
LEMMA Begins ==
    ASSUME RouteInv, NEW p \in Procs, NEW call \in CallSet,
           proc' = [proc EXCEPT ![p] = call],
           UNCHANGED <<kind, source, rec, attempts>>, edits' \in Nat,
           crossed \in BOOLEAN, crossed' \in BOOLEAN,
           \/ ~ call.routes /\ crossed' = crossed
           \/ crossed' = (crossed \/ \E q \in Procs \ {p} : proc[q].routes),
           call.held.export = "draft_prepared" => Prepared,
           Plain(call.todo) \/ call.routes,
           Looks(call.todo) => Len(call.todo) = 1,
           KeepsOne(call.todo), Founded(call.todo, Prepared), Fresh(call.todo)
    PROVE  RouteInv'
  <1>1. /\ proc'[p] = call /\ \A q \in Procs \ {p} : proc'[q] = proc[q]
        /\ proc' \in [Procs -> CallSet]
    BY DEF RouteInv, RouteTypes
  <1>2. RouteTypes'
    BY <1>1 DEF RouteInv, RouteTypes
  <1>3. crossed => crossed'
    OBVIOUS
  <1>4. Single'
    <2> SUFFICES ASSUME ~ crossed', NEW q \in Procs, NEW r \in Procs,
                        proc'[q].routes, proc'[r].routes
                 PROVE  q = r
      BY DEF Single
    <2>1. CASE q # p /\ r # p
      BY <1>1, <1>3, <2>1 DEF RouteInv, Single
    <2>2. CASE q = p /\ r # p
      BY <1>1, <2>2
    <2>3. CASE q # p /\ r = p
      BY <1>1, <2>3
    <2> QED
      BY <2>1, <2>2, <2>3
  <1>5. RoutedOnce'
    BY <1>3 DEF RouteInv, RoutedOnce
  <1>6. ClaimedDraftsExist'
    BY DEF RouteInv, ClaimedDraftsExist
  <1>7. Prepared' <=> Prepared
    BY DEF Prepared
  <1>8. ASSUME NEW q \in Procs, q # p PROVE CallRight(q)'
    <2>1. CallRight(q) /\ proc'[q] = proc[q]
      BY <1>1, <1>8 DEF RouteInv
    <2>2. ~ crossed' => Fresh(proc[q].todo)'
      BY <1>3, <2>1 DEF CallRight, Fresh, New
    <2>3. Founded(proc[q].todo, Prepared)'
      BY <1>7, <2>1 DEF CallRight, Founded
    <2> QED
      BY <1>7, <2>1, <2>2, <2>3 DEF CallRight
  <1>9. CallRight(p)'
    <2>1. Fresh(proc[p].todo)'
      BY <1>1 DEF Fresh, New
    <2>2. Founded(proc[p].todo, Prepared)'
      BY <1>1, <1>7 DEF Founded
    <2> QED
      BY <1>1, <1>7, <2>1, <2>2 DEF CallRight
  <1> QED
    BY <1>2, <1>4, <1>5, <1>6, <1>8, <1>9 DEF RouteInv

LEMMA RouteKeeps ==
    ASSUME RouteInv, NEW p \in Procs, NEW target \in Targets,
           Route(p, target)
    PROVE  RouteInv'
  <1>1. PICK todo : /\ todo = IF kind = "document"
                              THEN DocumentSteps(source, attempts, target)
                              ELSE <<Look(rec, target)>>
                    /\ Starts(p, TRUE, todo)
    BY DEF Route
  <1>2. crossed' = (crossed \/ \E q \in Procs \ {p} : proc[q].routes)
    BY DEF Route
  <1>3. /\ todo \in Seq(Steps) /\ (Looks(todo) => Len(todo) = 1)
        /\ KeepsOne(todo) /\ Founded(todo, Prepared) /\ Fresh(todo)
    <2>1. CASE kind = "document"
      <3>1. PICK op \in Operations : op = Operation(target, source.facts)
        BY OperationIs, RouteFacts
      <3>2. PICK new \in BOOLEAN : new = ~ HasDraft(attempts, op)
        OBVIOUS
      <3>3. Made(todo, op, Prepared, new)
        BY <1>1, <2>1, <3>1, <3>2, DocumentStepsMade, RouteFacts DEF Prepared
      <3>4. new => New(op)
        BY <2>1, <3>2 DEF New
      <3> QED
        BY <3>3, <3>4, MadeRight
    <2>2. CASE kind # "document"
      <3>1. PICK a \in Steps : /\ a = Look(rec, target) /\ ~ Keeps(a)
                               /\ ~ Claims(a)
        <4>1. PICK copy \in RecordSet : copy = rec
          BY RouteFacts
        <4>2. Look(copy, target) \in Steps
          BY DEF Look, Steps
        <4>3. ~ Keeps(Look(copy, target)) /\ ~ Claims(Look(copy, target))
          BY DEF Look, Keeps, Claims
        <4> QED
          BY <4>1, <4>2, <4>3
      <3>2. <<a>> \in Seq(Steps) /\ Len(<<a>>) = 1 /\ <<a>>[1] = a
        BY ShortLists
      <3>3. \A i \in 1..Len(<<a>>) : i = 1
        BY <3>2
      <3>4. ~ Drafts(a)
        BY <3>1 DEF Keeps, Drafts
      <3>5. todo = <<a>>
        BY <1>1, <2>2, <3>1
      <3> HIDE DEF Drafts, Claims, Keeps
      <3> QED
        BY <3>1, <3>2, <3>3, <3>4, <3>5 DEF KeepsOne, Founded, Fresh
    <2> QED
      BY <2>1, <2>2
  <1>4. PICK yes \in BOOLEAN : yes = TRUE
    OBVIOUS
  <1>5. PICK call \in CallSet :
            /\ call = [Idle EXCEPT !.routes = yes, !.todo = todo]
            /\ call.todo = todo /\ call.held = NoRecord /\ call.routes = yes
    BY <1>3, Started
  <1>6. /\ proc' = [proc EXCEPT ![p] = call]
        /\ UNCHANGED <<kind, source, rec, attempts, edits>>
    BY <1>1, <1>4, <1>5 DEF Starts
  <1>7. call.held.export = "draft_prepared" => Prepared
    BY <1>5, IdleCall
  <1>8. edits' \in Nat /\ crossed \in BOOLEAN /\ crossed' \in BOOLEAN
    BY <1>2, <1>6 DEF RouteInv, RouteTypes
  <1> QED
    BY <1>2, <1>3, <1>4, <1>5, <1>6, <1>7, <1>8, Begins

LEMMA RefreshKeeps ==
    ASSUME RouteInv, NEW p \in Procs, Refresh(p)
    PROVE  RouteInv'
  <1>1. PICK todo \in Seq(Steps) : todo = Upsert("none") /\ Plain(todo)
                                   /\ Silent(todo)
    BY UpsertIs DEF Given
  <1>2. PICK no \in BOOLEAN : no = FALSE
    OBVIOUS
  <1>3. PICK call \in CallSet :
            /\ call = [Idle EXCEPT !.routes = no, !.todo = todo]
            /\ call.todo = todo /\ call.held = NoRecord /\ call.routes = no
    BY Started
  <1>4. /\ proc' = [proc EXCEPT ![p] = call]
        /\ UNCHANGED <<kind, source, rec, attempts, edits, crossed>>
    BY <1>1, <1>2, <1>3 DEF Refresh, Starts
  <1>5. /\ ~ Looks(todo) /\ KeepsOne(todo) /\ Fresh(todo)
        /\ Founded(todo, Prepared)
    BY <1>1 DEF Plain, Looks, KeepsOne, Fresh, Drafts, Keeps, Founded, Silent
  <1>6. call.held.export = "draft_prepared" => Prepared
    BY <1>3, IdleCall
  <1>7. edits' \in Nat /\ crossed \in BOOLEAN
    BY <1>4 DEF RouteInv, RouteTypes
  <1> QED
    BY <1>1, <1>2, <1>3, <1>4, <1>5, <1>6, <1>7, Begins

LEMMA ResolveKeeps ==
    ASSUME RouteInv, NEW p \in Procs,
           NEW decision \in {"approved", "needs_review", "rejected"},
           NEW quality \in {"none", "full"}, Resolve(p, decision, quality)
    PROVE  RouteInv'
  <1>1. /\ UNCHANGED <<kind, source, rec, attempts, crossed>>
        /\ edits \in Nat /\ crossed \in BOOLEAN /\ edits' \in Nat
    BY DEF Resolve, RouteInv, RouteTypes
  <1>2. PICK facts \in FactSet :
            facts = IF quality # "none"
                    THEN [rev |-> edits + 1, quality |-> quality] ELSE Unknown
    <2>1. CASE quality = "none"
      BY <2>1, IdleCall
    <2>2. CASE quality = "full"
      <3>1. PICK rev \in Nat : rev = edits + 1
        BY <1>1
      <3>2. [rev |-> rev, quality |-> quality] \in FactSet
        BY <2>2 DEF FactSet
      <3> QED
        BY <2>2, <3>1, <3>2
    <2> QED
      BY <2>1, <2>2
  <1>3. PICK update \in RecordSet : /\ update = Resolution(decision)
                                    /\ update.export = "draft_prepared" =>
                                           Prepared
    <2>1. PICK status \in RecordStatuses :
              status = IF decision \in {"approved", "resolved"}
                       THEN "ready_to_route" ELSE decision
      BY DEF RecordStatuses
    <2>2. PICK export \in Exports :
              /\ export = CASE decision \in {"approved", "resolved"} ->
                                   IF rec.export = "draft_prepared"
                                   THEN rec.export ELSE "ready"
                            [] decision = "needs_review" -> "blocked_by_review"
                            [] OTHER -> "not_applicable"
              /\ export = "draft_prepared" => rec.export = "draft_prepared"
      BY DEF Exports, Outcomes
    <2>3. PICK review \in BOOLEAN : review = (decision = "needs_review")
      OBVIOUS
    <2>4. PICK unknown \in FactSet : unknown = Unknown
      BY IdleCall
    <2>5. PICK update \in RecordSet :
              /\ update = [status |-> status, export |-> export,
                           review |-> review, facts |-> unknown]
              /\ update.export = export
      <3>1. [status |-> status, export |-> export, review |-> review,
             facts |-> unknown] \in RecordSet
        BY DEF RecordSet
      <3> QED
        BY <3>1
    <2>6. update = Resolution(decision)
      BY <2>1, <2>2, <2>3, <2>4, <2>5 DEF Resolution
    <2> QED
      BY <2>2, <2>5, <2>6, RouteFacts
  <1>4. PICK held \in RecordSet : held = [update EXCEPT !.facts = facts]
                                  /\ held.export = update.export
    <2>1. [update EXCEPT !.facts = facts] \in RecordSet
          /\ [update EXCEPT !.facts = facts].export = update.export
      BY DEF RecordSet
    <2> QED
      BY <2>1
  <1>5. PICK step \in Steps : /\ step = Store /\ ~ Keeps(step)
                              /\ ~ Claims(step) /\ step.do # "look"
    BY StepKinds
  <1>6. PICK todo \in Seq(Steps) : todo = <<step>> /\ Plain(todo)
                                   /\ Silent(todo)
    BY <1>5, OnePlain
  <1>7. PICK call \in CallSet :
            /\ call = [Idle EXCEPT !.todo = todo, !.held = held]
            /\ call.todo = todo /\ call.held = held /\ ~ call.routes
    <2>1. PICK idle \in CallSet : idle = Idle /\ ~ idle.routes
      BY IdleCall
    <2>2. PICK mid \in CallSet : /\ mid = [idle EXCEPT !.todo = todo]
                                 /\ mid.todo = todo /\ mid.routes = idle.routes
      BY TodoField
    <2>3. PICK call \in CallSet : /\ call = [mid EXCEPT !.held = held]
                                  /\ call.todo = mid.todo /\ call.held = held
                                  /\ call.routes = mid.routes
      BY HeldField
    <2> QED
      BY <2>1, <2>2, <2>3
  <1>8. proc' = [proc EXCEPT ![p] = call]
    <2>1. proc' = [proc EXCEPT ![p] =
                      [Idle EXCEPT !.todo = <<Store>>,
                                   !.held = [update EXCEPT !.facts = facts]]]
      BY <1>2, <1>3 DEF Resolve
    <2> QED
      BY <1>4, <1>5, <1>6, <1>7, <2>1
  <1>9. /\ ~ Looks(todo) /\ KeepsOne(todo) /\ Fresh(todo)
        /\ Founded(todo, Prepared)
    BY <1>6 DEF Plain, Looks, KeepsOne, Fresh, Drafts, Keeps, Founded, Silent
  <1>10. call.held.export = "draft_prepared" => Prepared
    BY <1>3, <1>4, <1>7
  <1> QED
    BY <1>1, <1>6, <1>7, <1>8, <1>9, <1>10, Begins

LEMMA CrashKeeps ==
    ASSUME RouteInv, NEW p \in Procs, Crash(p)
    PROVE  RouteInv'
  <1>1. PICK idle \in CallSet : /\ idle = Idle /\ ~ idle.routes
                                /\ idle.todo = <<>> /\ idle.held = NoRecord
    BY IdleCall
  <1>2. /\ proc' = [proc EXCEPT ![p] = idle]
        /\ UNCHANGED <<kind, source, rec, attempts, edits, crossed>>
    BY <1>1 DEF Crash
  <1>3. edits' \in Nat /\ crossed \in BOOLEAN
    BY <1>2 DEF RouteInv, RouteTypes
  <1> QED
    BY <1>1, <1>2, <1>3, IdleCall, IdleRight, Begins

-----------------------------------------------------------------------------
\* The environment changes the source, and makes no claim.
LEMMA SourceKeeps ==
    ASSUME RouteInv, UNCHANGED <<kind, rec, attempts, proc, crossed>>,
           source' \in SourceSet, edits' \in Nat,
           source'.status = "export_draft_prepared" =>
               source.status = "export_draft_prepared"
    PROVE  RouteInv'
  <1>1. RouteTypes' /\ Single' /\ RoutedOnce' /\ ClaimedDraftsExist'
    BY DEF RouteInv, RouteTypes, Single, RoutedOnce, ClaimedDraftsExist
  <1>2. ASSUME NEW p \in Procs PROVE CallRight(p)'
    <2>1. CallRight(p) /\ proc'[p] = proc[p]
      BY DEF RouteInv
    <2>2. (Prepared' <=> Prepared) /\ (~ crossed' => Fresh(proc[p].todo)')
      BY <2>1 DEF Prepared, CallRight, Fresh, New
    <2> QED
      BY <2>1, <2>2 DEF CallRight, Founded
  <1> QED
    BY <1>1, <1>2 DEF RouteInv

LEMMA StatusField ==
    ASSUME NEW s \in SourceSet,
           NEW status \in {"processed", "needs_review", "duplicate"}
    PROVE  /\ [s EXCEPT !.status = status] \in SourceSet
           /\ [s EXCEPT !.status = status].status = status
  BY DEF SourceSet

LEMMA FlagFields ==
    ASSUME NEW s \in SourceSet, NEW flag \in BOOLEAN
    PROVE  /\ [s EXCEPT !.open = flag] \in SourceSet
           /\ [s EXCEPT !.open = flag].status = s.status
           /\ [s EXCEPT !.dup = flag] \in SourceSet
           /\ [s EXCEPT !.dup = flag].status = s.status
  BY DEF SourceSet

LEMMA FactsField ==
    ASSUME NEW s \in SourceSet, NEW facts \in FactSet
    PROVE  /\ [s EXCEPT !.facts = facts] \in SourceSet
           /\ [s EXCEPT !.facts = facts].status = s.status
  BY DEF SourceSet

LEMMA EditedFacts ==
    ASSUME RouteInv, NEW facts \in FactsAfter(source.facts)
    PROVE  facts \in FactSet
  <1>1. edits + 1 \in Nat
    BY DEF RouteInv, RouteTypes
  <1> QED
    BY <1>1, RouteFacts DEF FactsAfter, FactSet

LEMMA CorrectKeeps ==
    ASSUME RouteInv, NEW facts \in FactsAfter(source.facts), Correct(facts)
    PROVE  RouteInv'
  <1>1. PICK no \in BOOLEAN : no = FALSE
    OBVIOUS
  <1>2. PICK status \in {"processed", "needs_review", "duplicate"} :
            status = "processed"
    OBVIOUS
  <1>3. PICK mid \in SourceSet :
            /\ mid = [source EXCEPT !.status = status, !.open = no, !.dup = no]
            /\ mid.status = status
    <2>1. PICK a \in SourceSet : /\ a = [source EXCEPT !.status = status]
                                 /\ a.status = status
      BY RouteFacts, StatusField
    <2>2. PICK b \in SourceSet : /\ b = [a EXCEPT !.open = no]
                                 /\ b.status = a.status
      BY FlagFields
    <2>3. PICK c \in SourceSet : /\ c = [b EXCEPT !.dup = no]
                                 /\ c.status = b.status
      BY FlagFields
    <2> QED
      BY <2>1, <2>2, <2>3
  <1>4. PICK new \in SourceSet : new = [mid EXCEPT !.facts = facts]
                                 /\ new.status = status
    BY <1>3, EditedFacts, FactsField
  <1>5. source' = new
    BY <1>1, <1>2, <1>3, <1>4 DEF Correct
  <1>6. edits' \in Nat /\ UNCHANGED <<kind, rec, attempts, proc, crossed>>
    BY DEF Correct, Edited, RouteInv, RouteTypes
  <1> QED
    BY <1>2, <1>4, <1>5, <1>6, SourceKeeps

LEMMA GateKeeps ==
    ASSUME RouteInv, NEW dup \in BOOLEAN, Gate(dup)
    PROVE  RouteInv'
  <1>1. PICK yes \in BOOLEAN : yes = TRUE
    OBVIOUS
  <1>2. PICK status \in {"processed", "needs_review", "duplicate"} :
            status = IF dup THEN "duplicate" ELSE "needs_review"
    OBVIOUS
  <1>3. PICK new \in SourceSet :
            /\ new = [source EXCEPT !.status = status, !.open = yes,
                                    !.dup = dup]
            /\ new.status = status
    <2>1. PICK a \in SourceSet : /\ a = [source EXCEPT !.status = status]
                                 /\ a.status = status
      BY RouteFacts, StatusField
    <2>2. PICK b \in SourceSet : /\ b = [a EXCEPT !.open = yes]
                                 /\ b.status = a.status
      BY FlagFields
    <2>3. PICK c \in SourceSet : /\ c = [b EXCEPT !.dup = dup]
                                 /\ c.status = b.status
      BY FlagFields
    <2> QED
      BY <2>1, <2>2, <2>3
  <1>4. source' = new
    BY <1>1, <1>2, <1>3 DEF Gate
  <1>5. edits' \in Nat /\ UNCHANGED <<kind, rec, attempts, proc, crossed>>
    BY DEF Gate, Edited, RouteInv, RouteTypes
  <1> QED
    BY <1>2, <1>3, <1>4, <1>5, SourceKeeps

LEMMA ReconcileKeeps ==
    ASSUME RouteInv, NEW recon \in Recons,
           NEW facts \in FactsAfter(source.facts), Reconcile(recon, facts)
    PROVE  RouteInv'
  <1>1. PICK mid \in SourceSet : /\ mid = [source EXCEPT !.recon = recon]
                                 /\ mid.status = source.status
    <2>1. [source EXCEPT !.recon = recon] \in SourceSet
          /\ [source EXCEPT !.recon = recon].status = source.status
      BY RouteFacts DEF SourceSet
    <2> QED
      BY <2>1
  <1>2. PICK new \in SourceSet : new = [mid EXCEPT !.facts = facts]
                                 /\ new.status = mid.status
    BY EditedFacts, FactsField
  <1>3. source' = new
    BY <1>1, <1>2 DEF Reconcile
  <1>4. edits' \in Nat /\ UNCHANGED <<kind, rec, attempts, proc, crossed>>
    BY DEF Reconcile, Edited, RouteInv, RouteTypes
  <1> QED
    BY <1>1, <1>2, <1>3, <1>4, SourceKeeps

-----------------------------------------------------------------------------
LEMMA RouteInitInv == Init => RouteInv
  <1> SUFFICES ASSUME Init PROVE RouteInv
    OBVIOUS
  <1>1. Unknown \in FactSet /\ edits \in Nat /\ crossed \in BOOLEAN
        /\ kind \in {"document", "bank"}
    BY IdleCall DEF Init
  <1>2. source \in SourceSet /\ source.status = "processed"
    <2>1. CASE kind = "document"
      <3>1. source \in [status : {"processed"}, open : {FALSE}, dup : {FALSE},
                        type : Types, recon : {"not_started"},
                        facts : [rev : {0}, quality : {"blank", "full"}]]
        BY <2>1 DEF Init
      <3>2. [rev : {0}, quality : {"blank", "full"}] \subseteq FactSet
        BY DEF FactSet
      <3>3. source \in [status : {"processed"}, open : {FALSE}, dup : {FALSE},
                        type : Types, recon : {"not_started"},
                        facts : FactSet]
        BY <3>1, <3>2
      <3> QED
        BY <3>3 DEF SourceSet, Recons
    <2>2. CASE kind # "document"
      <3>1. source \in [status : {"processed"}, open : {FALSE}, dup : {FALSE},
                        type : {"posting"}, recon : {"not_started"},
                        facts : FactSet]
        BY <1>1, <2>2 DEF Init
      <3> QED
        BY <3>1 DEF SourceSet, Recons, Types
    <2> QED
      BY <2>1, <2>2
  <1>3. rec \in RecordSet /\ rec.export # "draft_prepared"
    <2>1. CASE kind = "document"
      BY <2>1, IdleCall DEF Init
    <2>2. CASE kind # "document"
      <3>1. PICK no \in BOOLEAN : no = FALSE
        OBVIOUS
      <3>2. PICK status \in RecordStatuses : status = "draft"
        BY DEF RecordStatuses
      <3>3. PICK export \in Exports : export = "not_started"
        BY DEF Exports
      <3>4. PICK facts \in FactSet : facts = Unknown
        BY <1>1
      <3>5. [status |-> status, export |-> export, review |-> no,
             facts |-> facts] \in RecordSet
        BY DEF RecordSet
      <3>6. rec = [status |-> status, export |-> export, review |-> no,
                   facts |-> facts]
        BY <2>2, <3>1, <3>2, <3>3, <3>4 DEF Init
      <3> QED
        BY <3>3, <3>5, <3>6
    <2> QED
      BY <2>1, <2>2
  <1>4. attempts \in Seq(AttemptSet) /\ 1..Len(attempts) = {}
    BY EmptySeq DEF Init
  <1>5. /\ proc \in [Procs -> CallSet]
        /\ \A p \in Procs : /\ ~ proc[p].routes /\ proc[p].todo = <<>>
                            /\ proc[p].held.export # "draft_prepared"
    BY IdleCall DEF Init
  <1>6. RouteTypes
    BY <1>1, <1>2, <1>3, <1>4, <1>5 DEF RouteTypes
  <1>7. Single /\ RoutedOnce /\ ClaimedDraftsExist
    BY <1>2, <1>3, <1>4, <1>5 DEF Single, RoutedOnce, ClaimedDraftsExist
  <1>8. \A p \in Procs : CallRight(p)
    BY <1>5, IdleRight DEF CallRight
  <1> QED
    BY <1>6, <1>7, <1>8 DEF RouteInv

LEMMA RouteNextInv == RouteInv /\ Next => RouteInv'
  <1> SUFFICES ASSUME RouteInv, Next PROVE RouteInv'
    OBVIOUS
  <1>1. CASE \E p \in Procs, target \in Targets : Route(p, target)
    BY <1>1, RouteKeeps
  <1>2. CASE \E p \in Procs : Refresh(p)
    BY <1>2, RefreshKeeps
  <1>3. CASE \E p \in Procs,
                decision \in {"approved", "needs_review", "rejected"},
                quality \in {"none", "full"} : Resolve(p, decision, quality)
    BY <1>3, ResolveKeeps
  <1>4. CASE \E p \in Procs : LookUp(p) \/ InsertAttempt(p)
    BY <1>4, LookUpKeeps, InsertAttemptKeeps
  <1>5. CASE \E p \in Procs : UpdateSource(p) \/ DeriveRecord(p)
    BY <1>5, UpdateSourceKeeps, DeriveRecordKeeps
  <1>6. CASE \E p \in Procs : StoreRecord(p) \/ StoreExport(p) \/ Crash(p)
    BY <1>6, StoreRecordKeeps, StoreExportKeeps, CrashKeeps
  <1>7. CASE \E facts \in FactsAfter(source.facts) : Correct(facts)
    BY <1>7, CorrectKeeps
  <1>8. CASE \E dup \in BOOLEAN : Gate(dup)
    BY <1>8, GateKeeps
  <1>9. CASE \E recon \in Recons, facts \in FactsAfter(source.facts) :
                Reconcile(recon, facts)
    BY <1>9, ReconcileKeeps
  <1> QED
    BY <1>1, <1>2, <1>3, <1>4, <1>5, <1>6, <1>7, <1>8, <1>9 DEF Next

LEMMA RouteStutters == RouteInv /\ UNCHANGED vars => RouteInv'
  <1> SUFFICES ASSUME RouteInv, UNCHANGED vars PROVE RouteInv'
    OBVIOUS
  <1>1. /\ UNCHANGED <<kind, rec, attempts, proc, crossed>>
        /\ source' = source /\ edits' = edits
    BY DEF vars
  <1>2. source' \in SourceSet /\ edits' \in Nat
    BY <1>1 DEF RouteInv, RouteTypes
  <1> QED
    BY <1>1, <1>2, SourceKeeps
====
