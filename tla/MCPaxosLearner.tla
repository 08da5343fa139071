--------------------------- MODULE MCPaxosLearner ----------------------------
(***************************************************************************)
(* Instances of PaxosLearner for TLC.                                      *)
(***************************************************************************)
EXTENDS PaxosLearner

CONSTANTS a1, a2, a3, c1, c2, v1, v2

PollOrder == <<a1, a2, a3>>
PairOrder == <<a1, a2>>

\* Two proposers with a call each; MaxRound as small as the question allows.
DuelProposerOf == c1 :> 1 @@ c2 :> 2
DuelValues == c1 :> v1 @@ c2 :> v2
TwoRoundsFirst == 1 :> 2 @@ 2 :> 1
TwoRoundsEach == 1 :> 2 @@ 2 :> 2
EveryAcceptor == [p \in Proposers |-> Acceptors]
=============================================================================
