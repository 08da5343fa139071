---------------------------- MODULE PaxosAcceptor ----------------------------
(***************************************************************************)
(* The acceptors of src/pkg/paxos/paxos.go: the registers each of them     *)
(* keeps, and what one call of Prepare, Accept or Shutdown does to them.   *)
(* Every method of Acceptor holds Acceptor.mu from its first line to its   *)
(* return, so a call is one atomic step.                                   *)
(*                                                                         *)
(* The steps below constrain only the acceptors' own variables; the        *)
(* modules that call them (Paxos, AcceptorCaller) say what the caller does *)
(* with the answer.                                                        *)
(*                                                                         *)
(* Here and in the other modules an operator named Faulty... is a bug the  *)
(* code does not have; nothing uses it.  Put in the place of the operator  *)
(* after it, it shows that the properties notice.                          *)
(***************************************************************************)
EXTENDS Integers, FiniteSets

CONSTANTS
    Acceptors,   \* the Acceptor objects
    Proposers,   \* the proposer ids; Go compares them as strings, here numbers
    Values,      \* the values that may be proposed
    Nil          \* Go's nil interface value

\* The zero ProposalID has the empty proposer string, below every other one.
ASSUME ProposersAssumption == Proposers \subseteq Nat \ {0}
ASSUME AcceptorsAssumption == IsFiniteSet(Acceptors)
ASSUME NilAssumption == Nil \notin Values

VARIABLES
    promisedID,   \* promisedID[a], acceptedID[a], acceptedVal[a], down[a]:
    acceptedID,   \* the fields of acceptor a; down is its shutdown flag
    acceptedVal,
    down

acceptorVars == <<promisedID, acceptedID, acceptedVal, down>>
-----------------------------------------------------------------------------
ProposalID == [Round : Nat, Proposer : Nat]
ZeroID == [Round |-> 0, Proposer |-> 0]

\* The order of proposals: by round, and by proposer within a round.
GreaterThan(p, other) ==
    \/ p.Round > other.Round
    \/ p.Round = other.Round /\ p.Proposer > other.Proposer

NilOrValue == Values \cup {Nil}

AcceptorTypeOK ==
    /\ promisedID \in [Acceptors -> ProposalID]
    /\ acceptedID \in [Acceptors -> ProposalID]
    /\ acceptedVal \in [Acceptors -> NilOrValue]
    /\ down \in [Acceptors -> BOOLEAN]

NewAcceptor ==
    /\ promisedID = [a \in Acceptors |-> ZeroID]
    /\ acceptedID = [a \in Acceptors |-> ZeroID]
    /\ acceptedVal = [a \in Acceptors |-> Nil]
    /\ down = [a \in Acceptors |-> FALSE]
-----------------------------------------------------------------------------
\* A Prepare is granted only to a proposal strictly above the promise.
Promises(a, id) == GreaterThan(id, promisedID[a])

\* Fault: the report leaves out what the acceptor accepted.
FaultyReport(a) == [Accepted |-> TRUE, AcceptedID |-> ZeroID, Value |-> Nil]

\* What an acceptor reports with its promise.
Report(a) == [Accepted |-> TRUE, AcceptedID |-> acceptedID[a], Value |-> acceptedVal[a]]
NoReport == [Accepted |-> FALSE, AcceptedID |-> ZeroID, Value |-> Nil]
PromiseType == [Accepted : BOOLEAN, AcceptedID : ProposalID, Value : NilOrValue]

\* Prepare(id) at a live acceptor: raise the promise, or reject.
AcceptorPrepare(a, id) ==
    /\ ~down[a]
    /\ promisedID' = IF Promises(a, id) THEN [promisedID EXCEPT ![a] = id] ELSE promisedID
    /\ UNCHANGED <<acceptedID, acceptedVal, down>>

\* Fault: Accept does not look at the promise.
FaultyAccepts(a, id) == TRUE

\* An Accept is granted to a proposal at or above the promise.
Accepts(a, id) == GreaterThan(id, promisedID[a]) \/ id = promisedID[a]

\* Accept(id, v) at a live acceptor: adopt proposal and value, or reject.
AcceptorAccept(a, id, v) ==
    /\ ~down[a]
    /\ IF Accepts(a, id)
         THEN /\ promisedID' = [promisedID EXCEPT ![a] = id]
              /\ acceptedID' = [acceptedID EXCEPT ![a] = id]
              /\ acceptedVal' = [acceptedVal EXCEPT ![a] = v]
         ELSE UNCHANGED <<promisedID, acceptedID, acceptedVal>>
    /\ UNCHANGED down

AcceptorShutdown(a) ==
    /\ down' = [down EXCEPT ![a] = TRUE]
    /\ UNCHANGED <<promisedID, acceptedID, acceptedVal>>
=============================================================================
