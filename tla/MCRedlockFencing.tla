--------------------------- MODULE MCRedlockFencing ---------------------------
(***************************************************************************)
(* RedlockFencing with two clients, each with a Redlock object of its own. *)
(***************************************************************************)
EXTENDS RedlockFencing, TLC

CONSTANTS c1, c2, o1, o2

OwnObjects == c1 :> o1 @@ c2 :> o2

\* The two processes may be exchanged, clients together with objects.
Swap == {c1 :> c2 @@ c2 :> c1 @@ o1 :> o2 @@ o2 :> o1}
=============================================================================
