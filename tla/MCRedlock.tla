------------------------------ MODULE MCRedlock --------------------------------
(***************************************************************************)
(* Redlock with two clients of one object.                                 *)
(***************************************************************************)
EXTENDS Redlock, TLC

CONSTANTS c1, c2, o1

Two == {c1, c2}
OneObject == {o1}
SameObject == c1 :> o1 @@ c2 :> o1
=============================================================================
