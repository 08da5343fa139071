------------------------------- MODULE MCRaft --------------------------------
(***************************************************************************)
(* Instances of Raft for TLC.                                              *)
(***************************************************************************)
EXTENDS Raft, TLC

CONSTANTS n1, n2, n3

NodeSymmetry == Permutations(Nodes)

TwoTerms == [n \in Nodes |-> 2]
\* n1 runs for term 1, n2 for terms 1 and 2, n3 only votes.
LiveTerms == n1 :> 1 @@ n2 :> 1 @@ n3 :> 0
ElectionTerms == n1 :> 1 @@ n2 :> 2 @@ n3 :> 0
=============================================================================
