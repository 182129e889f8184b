------------------------- MODULE MCDriveWaveDelivery ------------------------
(***************************************************************************)
(* Instances of DriveWaveDelivery for TLC.                                 *)
(***************************************************************************)
EXTENDS DriveWaveDelivery, TLC

Symmetry == Permutations(Threads)
=============================================================================
