----------------------------- MODULE MCSnapSync -----------------------------
(* Instances of SnapSync for TLC.  Threads that start alike are interchange- *)
(* able.                                                                     *)
EXTENDS SnapSync, TLC

StartedSymmetry == Permutations(Started)
=============================================================================
