--------------------------- MODULE PaxosInvariant ----------------------------
(***************************************************************************)
(* The inductive invariant of Paxos, for proposers that share one list of  *)
(* acceptors and callers that propose no nil.  It is a conjunction of      *)
(* layers, each inductive given those before it; Agreement follows from    *)
(* the last.                                                               *)
(***************************************************************************)
EXTENDS Paxos

\* What agreement needs of the callers: NewProposer is given the same acceptors
\* everywhere, and no value proposed is nil.
CommonAcceptors == \A p \in Proposers : AcceptorsOf[p] = Acceptors
NoNilProposed == \A c \in Calls : CallValue[c] # Nil

InRound(c) == pc[c] \in {"phase1", "phase2"}

\* The majorities of all acceptors.
Majorities == {Q \in SUBSET Acceptors : Cardinality(Q) >= Cardinality(Acceptors) \div 2 + 1}

\* i is a proposal ID that some proposer has started.
Started(i) == i.Proposer \in Proposers /\ i.Round \in 1..round[i.Proposer]

\* Calls and votes carry IDs of rounds that were started, a call those of its own
\* Proposer.
IDsStarted ==
    /\ \A c \in Calls : InRound(c) => id[c].Proposer = ProposerOf[c] /\ Started(id[c])
    /\ \A c \in Calls : ~InRound(c) => id[c] = ZeroID
    /\ \A w \in votes : Started(w.id)

\* The registers of an acceptor cover its votes.
RegistersCoverVotes ==
    /\ \A a \in Acceptors :
         /\ ~GreaterThan(acceptedID[a], promisedID[a])
         /\ acceptedID[a] = ZeroID
              \/ [acc |-> a, id |-> acceptedID[a], val |-> acceptedVal[a]] \in votes
    /\ \A w \in votes : ~GreaterThan(w.id, acceptedID[w.acc])

\* The values proposed by some caller.
Proposals == {CallValue[c] : c \in Calls}

\* One proposal, one value, a proposed one; and nobody votes before phase 2.
OneValuePerProposal ==
    /\ \A w, x \in votes : w.id = x.id => w.val = x.val
    /\ \A c \in Calls : \A w \in votes :
         InRound(c) /\ w.id = id[c] => pc[c] = "phase2" /\ w.val = value[c]
    /\ \A c \in Calls : pc[c] = "phase2" => value[c] \in Proposals
    /\ \A w \in votes : w.val \in Proposals

\* Those a call counts have done what it counts them for, and only rounds count.
CountsAreReal ==
    \A c \in Calls :
        /\ ~InRound(c) => Promisers(c) = {}
        /\ \A a \in Promisers(c) : ~GreaterThan(id[c], promisedID[a])
        /\ \A a \in accepted[c] : [acc |-> a, id |-> id[c], val |-> value[c]] \in votes

\* No value but v can still be, or get, chosen under proposal j: a majority has
\* promised something above j and those in it that voted for j voted for v.
Settled(j, v) ==
    \E Q \in Majorities : \A a \in Q :
        /\ GreaterThan(promisedID[a], j)
        /\ \A w \in votes : w.acc = a /\ w.id = j => w.val = v

\* The IDs below i that a round can carry.
Below(i) == {j \in [Round : 1..i.Round, Proposer : Proposers] : GreaterThan(i, j)}

SafeAt(i, v) == \A j \in Below(i) : Settled(j, v)

\* Whatever is proposed or voted for is safe at its proposal.
ProposedIsSafe ==
    /\ \A c \in Calls : pc[c] = "phase2" => SafeAt(id[c], value[c])
    /\ \A w \in votes : SafeAt(w.id, w.val)

\* Everything above holds together: what is counted was done, what is reported stays
\* true, and what is proposed is safe, so that two majorities never choose
\* differently (paxos.go:190-204).
IInv ==
    /\ TypeOK
    /\ IDsStarted
    /\ ProposalsDistinct
    /\ RegistersCoverVotes
    /\ OneValuePerProposal
    /\ CountsAreReal
    /\ ReportsStayTrue
    /\ ProposedIsSafe
    /\ ReturnedIsChosen
=============================================================================
