-------------------------- MODULE MCExportHistories ------------------------
(***************************************************************************)
(* Two instances of ExportAttempts in one state space.  A behaviour is one *)
(* of                                                                      *)
(*   "race"      handlers of several processes interleave freely; the      *)
(*               sources are not edited and the bounds are small;          *)
(*   "sequence"  one handler runs at a time, and with that the histories   *)
(*               are longer: more edits, approvals, claims and deaths.     *)
(* The second is asked for more: what it promises is broken when handlers  *)
(* of one attempt overlap (see ExportDoubleClaim.cfg).                     *)
(***************************************************************************)
EXTENDS ExportAttempts, TLC

CONSTANT RaceBound      \* approvals and claims of an attempt in a race

VARIABLE focus

Short == INSTANCE ExportAttempts WITH
    MaxEdits <- 0, MaxApprovals <- RaceBound, MaxClaims <- RaceBound,
    MaxCrashes <- 1

Working == {p \in Procs : ~ Idle(p)}

HistoryInit == Init /\ focus \in {"race", "sequence"}

HistoryNext ==
    \/ focus = "race" /\ Short!Next /\ UNCHANGED focus
    \/ focus = "sequence" /\ Next /\ UNCHANGED focus
       /\ Cardinality(Working') <= 1

HistorySpec == HistoryInit /\ [][HistoryNext]_<<vars, focus>>

\* Processes differ only in what they happen to be doing.
Symmetry == Permutations(Procs)

\* What follows needs the handlers of one attempt not to overlap.
\* ExportAttempts: Wave accepts a posting at most once, a rejected one never.
SequenceHandedOnce == focus = "sequence" => HandedOnce

\* ExportAttempts: the supervised file holds an approved draft, and the
\* bookkeeping record agrees with the attempt.
SequenceAgrees == focus = "sequence" => ArtifactApproved /\ RecordAgrees
=============================================================================
