------------------------- MODULE MCAutonomyHistories -----------------------
(***************************************************************************)
(* Two instances of AutonomyCycle in one state space.  A behaviour is one  *)
(* of                                                                      *)
(*   "steady"    no process outlives its lease; cycles of two dependent    *)
(*               steps, stops, deaths and retries interleave;              *)
(*   "lapsing"   cycles and schedulers outlive their leases, so that       *)
(*               others take their place while they still work.            *)
(***************************************************************************)
EXTENDS MCAutonomyCycle

VARIABLE focus

Lapsing == INSTANCE AutonomyCycle WITH
    NSteps <- 1, External <- 0, Deps <- MCOneStep, MaxRetries <- 1,
    Sparse <- {FALSE}, Results <- {"completed"},
    Outlived <- {"cycle", "scheduler"},
    MaxRuns <- 3, MaxStops <- 0, MaxCrashes <- 0

HistoryInit ==
    \/ focus = "steady" /\ Init
    \/ focus = "lapsing" /\ Lapsing!Init

HistoryNext ==
    \/ focus = "steady" /\ Next /\ UNCHANGED focus
    \/ focus = "lapsing" /\ Lapsing!Next /\ UNCHANGED focus

HistorySpec == HistoryInit /\ [][HistoryNext]_<<vars, focus>>

\* The first three need leases to outlast their holders.
\* AutonomyCycle: cycles never overlap.
SteadyOneCycle == focus = "steady" => OneCycle

\* AutonomyCycle: after the stop at most one step starts.
SteadyStopHolds == focus = "steady" => StopHolds

\* AutonomyCycle: a run whose cycle lives is not closed as interrupted, and a
\* cycle that returns leaves no run and no step open.
SteadyRunsClosed == focus = "steady" => LiveRunsOpen /\ NothingLeftOpen

\* AutonomyCycle: a failed run gets one recovery, also when leases run out.
LapsingOneRecovery == focus = "lapsing" => Lapsing!OneRecovery
=============================================================================
