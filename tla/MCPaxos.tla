------------------------------ MODULE MCPaxos --------------------------------
(***************************************************************************)
(* Instances of Paxos for TLC.                                             *)
(***************************************************************************)
EXTENDS PaxosInvariant, TLC

CONSTANTS a1, a2, a3, c1, c2, c3, v1, v2

EveryAcceptor == [p \in Proposers |-> Acceptors]
AcceptorSymmetry == Permutations(Acceptors)

\* Two proposers with a call each; proposer 2 wins ties of rounds.
DuelProposerOf == c1 :> 1 @@ c2 :> 2
DuelValues == c1 :> v1 @@ c2 :> v2
DuelRounds == 1 :> 2 @@ 2 :> 1

\* Two calls at once on proposer 1, a third on proposer 2.
SharedProposerOf == c1 :> 1 @@ c2 :> 1 @@ c3 :> 2
SharedRounds == 1 :> 2 @@ 2 :> 2
SharedValues == c1 :> v1 @@ c2 :> v2 @@ c3 :> v2
=============================================================================
