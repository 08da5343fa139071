--------------------------- MODULE MCRedlockClient ---------------------------
(***************************************************************************)
(* Instances of RedlockClient for TLC.                                     *)
(***************************************************************************)
EXTENDS RedlockClient, TLC

ClientSymmetry == Permutations(Clients)
=============================================================================
