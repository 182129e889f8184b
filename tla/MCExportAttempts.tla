-------------------------- MODULE MCExportAttempts --------------------------
(***************************************************************************)
(* Small instances of ExportAttempts.  The configurations use the attempts *)
(* wave (to Wave), bare (to Wave, its plan without an executable action)   *)
(* and mgz (to MijnGeldzaken), and the processes p1 and p2.                *)
(***************************************************************************)
EXTENDS ExportAttempts, TLC

\* Processes differ only in what they happen to be doing.
Symmetry == Permutations(Procs)
=============================================================================
