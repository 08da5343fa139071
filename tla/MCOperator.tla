----------------------------- MODULE MCOperator -------------------------------
(***************************************************************************)
(* The Raft operator with the resource its markers describe, and the       *)
(* Redlock operator with the resource its manifest deploys.                *)
(***************************************************************************)
EXTENDS Operator

Small == [size |-> 1, setting |-> 1]
Large == [size |-> 2, setting |-> 2]
SmallAndLarge == {Small, Large}

InRepository ==
    {[kind |-> "raft", subresource |-> TRUE, spec |-> Large],
     [kind |-> "redlock", subresource |-> FALSE, spec |-> Small]}
=============================================================================
