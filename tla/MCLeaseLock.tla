----------------------------- MODULE MCLeaseLock -----------------------------
(***************************************************************************)
(* Instances of LeaseLock for TLC.                                         *)
(***************************************************************************)
EXTENDS LeaseLock, TLC

LeaseLockSymmetry == Permutations(Goroutines) \cup Permutations(Objects)
=============================================================================
