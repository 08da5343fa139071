----------------------------- MODULE Consensus -------------------------------
(***************************************************************************)
(* What src/pkg/paxos promises its callers, without proposals, acceptors   *)
(* or quorums: of the proposed values at most one is ever chosen, and the  *)
(* choice is final.                                                        *)
(***************************************************************************)
CONSTANT Proposed   \* the values some caller proposes
VARIABLE chosen     \* the set of values chosen so far

Init == chosen = {}

\* The first choice is the only step there is.
Choose(v) == chosen = {} /\ chosen' = {v}

Next == \E v \in Proposed : Choose(v)

Spec == Init /\ [][Next]_chosen
=============================================================================
