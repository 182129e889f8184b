-------------------------- MODULE MCAutonomyCycle ---------------------------
(***************************************************************************)
(* Small instances of AutonomyCycle.                                       *)
(***************************************************************************)
EXTENDS AutonomyCycle, TLC

\* process_imported, execute_approved_exports and
\* prepare_master_ledger_projection, of which only the first and the last are
\* linked in AUTONOMY_RECOVERY_DEPENDENCIES.
MCDeps == [i \in 1..3 |-> IF i = 1 THEN {3} ELSE {}]

\* process_imported, prepare_wave_drafts.
MCShortDeps == [i \in 1..2 |-> IF i = 1 THEN {2} ELSE {}]

\* One step, which nothing depends on.
MCOneStep == [i \in 1..1 |-> {}]

Symmetry == Permutations(Procs)
=============================================================================
