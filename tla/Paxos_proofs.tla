---------------------------- MODULE Paxos_proofs -----------------------------
(***************************************************************************)
(* Proofs about Paxos, for any finite set of acceptors and any number of   *)
(* proposers, calls and rounds.  The invariant is that of PaxosInvariant.  *)
(***************************************************************************)
EXTENDS PaxosInvariant, FiniteSetTheorems, TLAPS

\* The order of proposal IDs is a strict total order.
LEMMA IDOrder ==
    /\ \A i \in ProposalID : ~GreaterThan(i, i)
    /\ \A i, j \in ProposalID : GreaterThan(i, j) => ~GreaterThan(j, i)
    /\ \A i, j \in ProposalID : ~GreaterThan(i, j) /\ ~GreaterThan(j, i) => i = j
    /\ \A i, j, k \in ProposalID : GreaterThan(i, j) /\ GreaterThan(j, k) => GreaterThan(i, k)
    /\ \A i, j, k \in ProposalID : GreaterThan(i, j) /\ ~GreaterThan(k, j) => GreaterThan(i, k)
    /\ \A i, j, k \in ProposalID : ~GreaterThan(j, i) /\ GreaterThan(j, k) => GreaterThan(i, k)
    /\ ZeroID \in ProposalID
    /\ \A i \in ProposalID : ~GreaterThan(ZeroID, i)
BY DEF ProposalID, GreaterThan, ZeroID

\* Two majorities of the acceptors have a member in common.
LEMMA MajoritiesMeet ==
    ASSUME NEW P \in Majorities, NEW Q \in Majorities
    PROVE  \E a \in Acceptors : a \in P /\ a \in Q
<1> DEFINE N == Cardinality(Acceptors)
<1>1. /\ P \subseteq Acceptors /\ Q \subseteq Acceptors
      /\ Cardinality(P) >= N \div 2 + 1 /\ Cardinality(Q) >= N \div 2 + 1
    BY DEF Majorities
<1>2. IsFiniteSet(P) /\ IsFiniteSet(Q) /\ N \in Nat
    BY <1>1, AcceptorsAssumption, FS_Subset, FS_CardinalityType
<1>3. Cardinality(P) \in Nat /\ Cardinality(Q) \in Nat
    BY <1>2, FS_CardinalityType
<1>4. SUFFICES ASSUME P \cap Q = {} PROVE FALSE
    BY <1>1
<1>5. Cardinality(P \cup Q) = Cardinality(P) + Cardinality(Q)
    <2>1. Cardinality(P \cap Q) = 0
        BY <1>4, FS_EmptySet
    <2>2. Cardinality(P \cup Q) = Cardinality(P) + Cardinality(Q) - Cardinality(P \cap Q)
        BY <1>2, FS_Union
    <2> QED
        BY <1>3, <2>1, <2>2
<1>6. Cardinality(P \cup Q) <= N
    BY <1>1, P \cup Q \in SUBSET Acceptors, AcceptorsAssumption, FS_Subset
<1> QED
    BY <1>1, <1>2, <1>3, <1>5, <1>6
-----------------------------------------------------------------------------
\* The parameters, in the form the type proofs use them.
LEMMA ConstantTypes ==
    /\ \A c \in Calls : ProposerOf[c] \in Proposers /\ CallValue[c] \in NilOrValue
    /\ \A p \in Proposers : AcceptorsOf[p] \subseteq Acceptors /\ p \in Nat /\ p > 0
    /\ Nil \in NilOrValue
BY CallsAssumption, ProposersAssumption DEF NilOrValue

LEMMA TypeInit == Init => TypeOK
BY ConstantTypes, IDOrder
   DEF Init, TypeOK, AcceptorTypeOK, NewAcceptor, NoReport, PromiseType

LEMMA TypeStep == TypeOK /\ [Next]_vars => TypeOK'
<1> SUFFICES ASSUME TypeOK, [Next]_vars PROVE TypeOK'
    OBVIOUS
<1> USE ConstantTypes
<1>1. ASSUME NEW c \in Calls, StartRound(c) PROVE TypeOK'
    <2> DEFINE p == ProposerOf[c]
    <2>1. NextRound(p) \in Nat
        BY DEF TypeOK, NextRound
    <2>2. [Round |-> NextRound(p), Proposer |-> p] \in ProposalID
        BY <2>1 DEF ProposalID
    <2>3. round' \in [Proposers -> Nat] /\ id' \in [Calls -> ProposalID]
        BY <1>1, <2>1, <2>2 DEF TypeOK, StartRound
    <2>4. /\ pending' \in [Calls -> SUBSET Acceptors]
          /\ \A d \in Calls : pc'[d] # "phase2" => accepted'[d] = {}
        BY <1>1 DEF TypeOK, StartRound
    <2> QED
        BY <1>1, <2>3, <2>4 DEF TypeOK, AcceptorTypeOK, StartRound, acceptorVars
<1>2. ASSUME NEW c \in Calls, ReturnShutdown(c) PROVE TypeOK'
    BY <1>2 DEF TypeOK, AcceptorTypeOK, ReturnShutdown, acceptorVars, proposerVars
<1>3. ASSUME NEW c \in Calls, NEW a \in Acceptors, Prepare(c, a) PROVE TypeOK'
    <2>1. Report(a) \in PromiseType
        BY DEF TypeOK, AcceptorTypeOK, Report, PromiseType
    <2> QED
        BY <1>3, <2>1 DEF TypeOK, AcceptorTypeOK, Prepare, AcceptorPrepare, proposerVars
<1>4. ASSUME NEW c \in Calls, NEW a \in Acceptors, Accept(c, a) PROVE TypeOK'
    <2>1. AcceptorTypeOK'
        BY <1>4 DEF TypeOK, AcceptorTypeOK, Accept, AcceptorAccept
    <2>2. [acc |-> a, id |-> id[c], val |-> value[c]] \in Vote
        BY DEF TypeOK, Vote
    <2>3. votes' \subseteq Vote
        BY <1>4, <2>2 DEF TypeOK, Accept
    <2>4. /\ accepted' \in [Calls -> SUBSET Acceptors]
          /\ pending' \in [Calls -> SUBSET Acceptors]
        <3>1. \/ accepted' = [accepted EXCEPT ![c] = @ \cup {a}]
              \/ accepted' = accepted
            BY <1>4 DEF Accept
        <3>2. pending' = [pending EXCEPT ![c] = @ \ {a}]
            BY <1>4 DEF Accept
        <3> QED
            BY <3>1, <3>2 DEF TypeOK
    <2>5. \A d \in Calls : pc'[d] # "phase2" => accepted'[d] = {}
        <3>1. pc' = pc /\ pc[c] = "phase2" /\ \A d \in Calls : d # c => accepted'[d] = accepted[d]
            BY <1>4 DEF TypeOK, Accept
        <3> QED
            BY <3>1 DEF TypeOK
    <2> QED
        BY <1>4, <2>1, <2>3, <2>4, <2>5 DEF TypeOK, Accept, proposerVars
<1>5. ASSUME NEW c \in Calls, NEW a \in Acceptors, Unanswered(c, a) PROVE TypeOK'
    BY <1>5 DEF TypeOK, AcceptorTypeOK, Unanswered, acceptorVars, proposerVars
<1>6. ASSUME NEW c \in Calls, EndPhase1(c) PROVE TypeOK'
    <2>1. value' \in [Calls -> NilOrValue]
        BY <1>6 DEF TypeOK, EndPhase1
    <2>2. ctx' \in [Calls -> {"live", "phaseTimeout", "done"}]
        BY <1>6 DEF TypeOK, EndPhase1, PhaseContext
    <2>3. /\ pending' \in [Calls -> SUBSET Acceptors]
          /\ \A d \in Calls : pc'[d] # "phase2" => accepted'[d] = {}
        BY <1>6 DEF TypeOK, EndPhase1
    <2> QED
        BY <1>6, <2>1, <2>2, <2>3 DEF TypeOK, AcceptorTypeOK, EndPhase1, acceptorVars, proposerVars
<1>7. ASSUME NEW c \in Calls, ReturnValue(c) PROVE TypeOK'
    BY <1>7, IDOrder DEF TypeOK, AcceptorTypeOK, ReturnValue, ForgetRound, PhaseContext,
       acceptorVars, proposerVars, NoReport, PromiseType
<1>8. ASSUME NEW c \in Calls, NoQuorum(c) PROVE TypeOK'
    BY <1>8, IDOrder DEF TypeOK, AcceptorTypeOK, NoQuorum, ForgetRound, PhaseContext,
       acceptorVars, proposerVars, NoReport, PromiseType
<1>9. ASSUME NEW c \in Calls, Expire(c) PROVE TypeOK'
    BY <1>9 DEF TypeOK, AcceptorTypeOK, Expire, acceptorVars, proposerVars
<1>10. ASSUME NEW a \in Acceptors, ShutdownAcceptor(a) PROVE TypeOK'
    BY <1>10 DEF TypeOK, AcceptorTypeOK, ShutdownAcceptor, AcceptorShutdown, proposerVars, callVars
<1>11. ASSUME NEW p \in Proposers, ShutdownProposer(p) PROVE TypeOK'
    BY <1>11 DEF TypeOK, AcceptorTypeOK, ShutdownProposer, acceptorVars, callVars
<1>12. CASE UNCHANGED vars
    BY <1>12 DEF TypeOK, AcceptorTypeOK, vars, acceptorVars, proposerVars, callVars
<1> QED
    BY <1>1, <1>2, <1>3, <1>4, <1>5, <1>6, <1>7, <1>8, <1>9, <1>10, <1>11, <1>12 DEF Next, CallStep

\* Every state of the program is well typed, whatever the parameters, nil proposals
\* and proposers with different acceptors included.
THEOREM TypeCorrect == Spec => []TypeOK
BY TypeInit, TypeStep, PTL DEF Spec
-----------------------------------------------------------------------------
\* The steps that matter to agreement; every other step is quiet.
Quiet ==
    /\ UNCHANGED <<promisedID, acceptedID, acceptedVal, round, id, promises, value, accepted, votes>>
    /\ \A c \in Calls : pc'[c] = pc[c] \/ (pc[c] = "start" /\ pc'[c] = "shutdown")

Loud(c) ==
    \/ StartRound(c) \/ EndPhase1(c) \/ ReturnValue(c) \/ NoQuorum(c)
    \/ \E a \in Acceptors : Prepare(c, a) \/ Accept(c, a)

LEMMA StepKinds == TypeOK /\ [Next]_vars => Quiet \/ \E c \in Calls : Loud(c)
<1> SUFFICES ASSUME TypeOK, [Next]_vars, \A c \in Calls : ~Loud(c) PROVE Quiet
    OBVIOUS
<1>1. ASSUME NEW c \in Calls, ReturnShutdown(c) PROVE Quiet
    BY <1>1 DEF TypeOK, ReturnShutdown, Quiet, acceptorVars, proposerVars
<1>2. ASSUME NEW c \in Calls, NEW a \in Acceptors, Unanswered(c, a) PROVE Quiet
    BY <1>2 DEF Unanswered, Quiet, acceptorVars, proposerVars
<1>3. ASSUME NEW c \in Calls, Expire(c) PROVE Quiet
    BY <1>3 DEF Expire, Quiet, acceptorVars, proposerVars
<1>4. ASSUME NEW a \in Acceptors, ShutdownAcceptor(a) PROVE Quiet
    BY <1>4 DEF ShutdownAcceptor, AcceptorShutdown, Quiet, proposerVars, callVars
<1>5. ASSUME NEW p \in Proposers, ShutdownProposer(p) PROVE Quiet
    BY <1>5 DEF ShutdownProposer, Quiet, acceptorVars, callVars
<1>6. CASE UNCHANGED vars
    BY <1>6 DEF Quiet, vars, acceptorVars, proposerVars, callVars
<1> QED
    BY <1>1, <1>2, <1>3, <1>4, <1>5, <1>6 DEF Next, CallStep, Loud
-----------------------------------------------------------------------------
\* IDs belong to rounds that were started.
LEMMA IDsStep == TypeOK /\ IDsStarted /\ [Next]_vars => IDsStarted'
<1> SUFFICES ASSUME TypeOK, IDsStarted, [Next]_vars PROVE IDsStarted'
    OBVIOUS
<1> USE DEF IDsStarted, InRound, Started
<1>1. CASE Quiet
    BY <1>1 DEF Quiet
<1>2. ASSUME NEW c \in Calls, StartRound(c) PROVE IDsStarted'
    <2> DEFINE p == ProposerOf[c]
    <2>1. p \in Proposers /\ round[p] \in Nat
        BY ConstantTypes DEF TypeOK
    <2>2. /\ round' = [round EXCEPT ![p] = round[p] + 1]
          /\ id' = [id EXCEPT ![c] = [Round |-> round[p] + 1, Proposer |-> p]]
          /\ pc' = [pc EXCEPT ![c] = "phase1"]
          /\ votes' = votes
        BY <1>2 DEF StartRound, NextRound
    <2>3. \A q \in Proposers : round'[q] \in Nat /\ round[q] \in Nat /\ round'[q] >= round[q]
        BY <2>1, <2>2 DEF TypeOK
    <2>4. \A i \in ProposalID : Started(i) => Started(i)'
        BY <2>3 DEF ProposalID
    <2>5. Started(id[c])' /\ id'[c].Proposer = p
        <3>1. id'[c] = [Round |-> round[p] + 1, Proposer |-> p]
            BY <2>2 DEF TypeOK
        <3>2. round'[p] = round[p] + 1
            BY <2>1, <2>2 DEF TypeOK
        <3> QED
            BY <2>1, <3>1, <3>2
    <2>6. \A w \in votes : w.id \in ProposalID
        BY DEF TypeOK, Vote
    <2>7. \A d \in Calls : d # c => id'[d] = id[d] /\ pc'[d] = pc[d] /\ id[d] \in ProposalID
        BY <2>2 DEF TypeOK
    <2>8. pc'[c] = "phase1"
        BY <2>2 DEF TypeOK
    <2> QED
        BY <2>2, <2>4, <2>5, <2>6, <2>7, <2>8
<1>3. ASSUME NEW c \in Calls, NEW a \in Acceptors, Prepare(c, a) PROVE IDsStarted'
    BY <1>3 DEF Prepare, proposerVars
<1>4. ASSUME NEW c \in Calls, NEW a \in Acceptors, Accept(c, a) PROVE IDsStarted'
    <2>1. pc' = pc /\ id' = id /\ round' = round /\ InRound(c)
        BY <1>4 DEF Accept, proposerVars
    <2>2. \A w \in votes' : w \in votes \/ w.id = id[c]
        BY <1>4 DEF Accept
    <2> QED
        BY <2>1, <2>2
<1>5. ASSUME NEW c \in Calls, EndPhase1(c) PROVE IDsStarted'
    BY <1>5 DEF TypeOK, EndPhase1, proposerVars
<1>6. ASSUME NEW c \in Calls, ReturnValue(c) \/ NoQuorum(c) PROVE IDsStarted'
    <2>1. /\ id'[c] = ZeroID /\ ~InRound(c)'
          /\ \A d \in Calls : d # c => id'[d] = id[d] /\ pc'[d] = pc[d]
        BY <1>6 DEF TypeOK, ReturnValue, NoQuorum, ForgetRound
    <2>2. round' = round /\ votes' = votes
        BY <1>6 DEF ReturnValue, NoQuorum, proposerVars
    <2> QED
        BY <2>1, <2>2
<1> QED
    BY <1>1, <1>2, <1>3, <1>4, <1>5, <1>6, StepKinds DEF Loud

\* Rounds in progress have different IDs.
LEMMA DistinctStep ==
    TypeOK /\ IDsStarted /\ ProposalsDistinct /\ [Next]_vars => ProposalsDistinct'
<1> SUFFICES ASSUME TypeOK, IDsStarted, ProposalsDistinct, [Next]_vars PROVE ProposalsDistinct'
    OBVIOUS
<1>0. ASSUME id' = id, \A c \in Calls : InRound(c)' => InRound(c) PROVE ProposalsDistinct'
    BY <1>0 DEF ProposalsDistinct, InRound
<1>1. CASE Quiet
    BY <1>0, <1>1 DEF Quiet, InRound
<1>2. ASSUME NEW c \in Calls, StartRound(c) PROVE ProposalsDistinct'
    <2> DEFINE p == ProposerOf[c]
    <2>1. p \in Proposers /\ round[p] \in Nat
        BY ConstantTypes DEF TypeOK
    <2>2. id'[c].Round = round[p] + 1 /\ id'[c].Proposer = p
        BY <1>2 DEF TypeOK, StartRound, NextRound
    <2>3. \A d \in Calls : d # c => id'[d] = id[d] /\ pc'[d] = pc[d]
        BY <1>2 DEF TypeOK, StartRound
    <2>4. \A d \in Calls : d # c => id[d] # id'[c]
        BY <2>1, <2>2 DEF IDsStarted, Started, ZeroID
    <2> QED
        BY <2>3, <2>4 DEF ProposalsDistinct
<1>3. ASSUME NEW c \in Calls, NEW a \in Acceptors, Prepare(c, a) \/ Accept(c, a) \/ EndPhase1(c)
      PROVE ProposalsDistinct'
    BY <1>0, <1>3 DEF TypeOK, Prepare, Accept, EndPhase1, InRound
<1>4. ASSUME NEW c \in Calls, EndPhase1(c) PROVE ProposalsDistinct'
    BY <1>0, <1>4 DEF TypeOK, EndPhase1, InRound
<1>5. ASSUME NEW c \in Calls, ReturnValue(c) \/ NoQuorum(c) PROVE ProposalsDistinct'
    <2>1. /\ id'[c] = ZeroID /\ ~InRound(c)'
          /\ \A d \in Calls : d # c => id'[d] = id[d] /\ pc'[d] = pc[d]
        BY <1>5 DEF TypeOK, ReturnValue, NoQuorum, ForgetRound, InRound
    <2>2. \A d \in Calls : InRound(d) => id[d] # ZeroID
        BY DEF IDsStarted, Started, ZeroID
    <2> QED
        BY <2>1, <2>2 DEF ProposalsDistinct, InRound
<1> QED
    BY <1>1, <1>2, <1>3, <1>4, <1>5, StepKinds DEF Loud

\* What an Accept that is granted does, and what it needs; one that is not granted
\* changes none of this.
LEMMA AcceptEffect ==
    ASSUME TypeOK, NEW c \in Calls, NEW a \in Acceptors, Accept(c, a)
    PROVE  /\ UNCHANGED <<round, pc, id, promises, value>>
           /\ pc[c] = "phase2"
           /\ \/ UNCHANGED <<promisedID, acceptedID, acceptedVal, accepted, votes>>
              \/ /\ ~GreaterThan(promisedID[a], id[c])
                 /\ promisedID' = [promisedID EXCEPT ![a] = id[c]]
                 /\ acceptedID' = [acceptedID EXCEPT ![a] = id[c]]
                 /\ acceptedVal' = [acceptedVal EXCEPT ![a] = value[c]]
                 /\ accepted' = [accepted EXCEPT ![c] = @ \cup {a}]
                 /\ votes' = votes \cup {[acc |-> a, id |-> id[c], val |-> value[c]]}
<1>1. UNCHANGED <<round, pc, id, promises, value>> /\ pc[c] = "phase2"
    BY DEF Accept, proposerVars
<1>2. CASE Accepts(a, id[c])
    <2>1. ~GreaterThan(promisedID[a], id[c])
        BY <1>2, IDOrder DEF Accepts, TypeOK, AcceptorTypeOK
    <2> QED
        BY <1>1, <1>2, <2>1 DEF Accept, AcceptorAccept
<1>3. CASE ~Accepts(a, id[c])
    BY <1>1, <1>3 DEF Accept, AcceptorAccept
<1> QED
    BY <1>2, <1>3

\* What a Prepare that is granted does, and what it needs.
LEMMA PrepareEffect ==
    ASSUME TypeOK, NEW c \in Calls, NEW a \in Acceptors, Prepare(c, a)
    PROVE  /\ UNCHANGED <<round, pc, id, acceptedID, acceptedVal, value, accepted, votes>>
           /\ pc[c] = "phase1"
           /\ \/ UNCHANGED <<promisedID, promises>>
              \/ /\ GreaterThan(id[c], promisedID[a])
                 /\ promisedID' = [promisedID EXCEPT ![a] = id[c]]
                 /\ promises' = [promises EXCEPT ![c][a] = Report(a)]
BY DEF Prepare, AcceptorPrepare, Promises, proposerVars

\* Promises only rise, votes stay, and a new vote is not below the promise.
LEMMA Monotone ==
    ASSUME TypeOK, [Next]_vars
    PROVE  /\ \A a \in Acceptors : ~GreaterThan(promisedID[a], promisedID'[a])
           /\ votes \subseteq votes'
           /\ \A w \in votes' \ votes : ~GreaterThan(promisedID[w.acc], w.id)
<1> DEFINE Goal == /\ \A a \in Acceptors : ~GreaterThan(promisedID[a], promisedID'[a])
                   /\ votes \subseteq votes'
                   /\ \A w \in votes' \ votes : ~GreaterThan(promisedID[w.acc], w.id)
<1>0. \A a \in Acceptors : promisedID[a] \in ProposalID
    BY DEF TypeOK, AcceptorTypeOK
<1>1. ASSUME promisedID' = promisedID, votes' = votes PROVE Goal
    BY <1>0, <1>1, IDOrder
<1>2. CASE Quiet
    BY <1>1, <1>2 DEF Quiet
<1>3. ASSUME NEW c \in Calls, StartRound(c) \/ EndPhase1(c) \/ ReturnValue(c) \/ NoQuorum(c)
      PROVE Goal
    BY <1>1, <1>3 DEF StartRound, EndPhase1, ReturnValue, NoQuorum, acceptorVars
<1>4. ASSUME NEW c \in Calls, NEW a \in Acceptors, Prepare(c, a) PROVE Goal
    <2>1. CASE promisedID' = promisedID
        BY <1>1, <1>4, <2>1, PrepareEffect
    <2>2. CASE promisedID' # promisedID
        <3>1. /\ GreaterThan(id[c], promisedID[a]) /\ votes' = votes
              /\ promisedID' = [promisedID EXCEPT ![a] = id[c]]
            BY <1>4, <2>2, PrepareEffect
        <3>2. id[c] \in ProposalID
            BY DEF TypeOK
        <3>3. \A b \in Acceptors : promisedID'[b] = promisedID[b] \/ (b = a /\ promisedID'[b] = id[c])
            BY <3>1 DEF TypeOK, AcceptorTypeOK
        <3> QED
            BY <1>0, <3>1, <3>2, <3>3, IDOrder
    <2> QED
        BY <2>1, <2>2
<1>5. ASSUME NEW c \in Calls, NEW a \in Acceptors, Accept(c, a) PROVE Goal
    <2>1. CASE promisedID' = promisedID /\ votes' = votes
        BY <1>1, <2>1
    <2>2. CASE ~(promisedID' = promisedID /\ votes' = votes)
        <3>1. /\ ~GreaterThan(promisedID[a], id[c])
              /\ promisedID' = [promisedID EXCEPT ![a] = id[c]]
              /\ votes' = votes \cup {[acc |-> a, id |-> id[c], val |-> value[c]]}
            BY <1>5, <2>2, AcceptEffect
        <3>3. \A b \in Acceptors : promisedID'[b] = promisedID[b] \/ (b = a /\ promisedID'[b] = id[c])
            BY <3>1 DEF TypeOK, AcceptorTypeOK
        <3> QED
            BY <1>0, <3>1, <3>3, IDOrder
    <2> QED
        BY <2>1, <2>2
<1> QED
    BY <1>2, <1>3, <1>4, <1>5, StepKinds DEF Loud

\* An acceptor's registers cover its votes.
LEMMA RegistersStep == TypeOK /\ RegistersCoverVotes /\ [Next]_vars => RegistersCoverVotes'
<1> SUFFICES ASSUME TypeOK, RegistersCoverVotes, [Next]_vars PROVE RegistersCoverVotes'
    OBVIOUS
<1>0. ASSUME UNCHANGED <<promisedID, acceptedID, acceptedVal, votes>> PROVE RegistersCoverVotes'
    BY <1>0 DEF RegistersCoverVotes
<1>1. CASE Quiet
    BY <1>0, <1>1 DEF Quiet
<1>2. ASSUME NEW c \in Calls, StartRound(c) \/ EndPhase1(c) \/ ReturnValue(c) \/ NoQuorum(c)
      PROVE RegistersCoverVotes'
    BY <1>0, <1>2 DEF StartRound, EndPhase1, ReturnValue, NoQuorum, acceptorVars
<1>3. ASSUME NEW c \in Calls, NEW a \in Acceptors, Prepare(c, a) PROVE RegistersCoverVotes'
    <2>1. \A b \in Acceptors : ~GreaterThan(promisedID[b], promisedID'[b])
        BY Monotone
    <2>2. UNCHANGED <<acceptedID, acceptedVal, votes>>
        BY <1>3, PrepareEffect
    <2>3. \A b \in Acceptors : /\ acceptedID[b] \in ProposalID /\ promisedID[b] \in ProposalID
                               /\ promisedID'[b] \in ProposalID
        BY TypeStep DEF TypeOK, AcceptorTypeOK
    <2>4. \A b \in Acceptors : ~GreaterThan(acceptedID[b], promisedID'[b])
        BY <2>1, <2>3, IDOrder DEF RegistersCoverVotes
    <2> QED
        BY <2>2, <2>4 DEF RegistersCoverVotes
<1>4. ASSUME NEW c \in Calls, NEW a \in Acceptors, Accept(c, a) PROVE RegistersCoverVotes'
    <2>1. CASE UNCHANGED <<promisedID, acceptedID, acceptedVal, votes>>
        BY <1>0, <2>1
    <2> DEFINE new == [acc |-> a, id |-> id[c], val |-> value[c]]
    <2>2. CASE /\ ~GreaterThan(promisedID[a], id[c])
               /\ promisedID' = [promisedID EXCEPT ![a] = id[c]]
               /\ acceptedID' = [acceptedID EXCEPT ![a] = id[c]]
               /\ acceptedVal' = [acceptedVal EXCEPT ![a] = value[c]]
               /\ votes' = votes \cup {new}
        <3>1. /\ id[c] \in ProposalID
              /\ \A b \in Acceptors : acceptedID[b] \in ProposalID /\ promisedID[b] \in ProposalID
              /\ \A w \in votes : w.id \in ProposalID /\ w.acc \in Acceptors
            BY DEF TypeOK, AcceptorTypeOK, Vote
        <3>2. /\ promisedID'[a] = id[c] /\ acceptedID'[a] = id[c] /\ acceptedVal'[a] = value[c]
              /\ \A b \in Acceptors : b # a => /\ promisedID'[b] = promisedID[b]
                                               /\ acceptedID'[b] = acceptedID[b]
                                               /\ acceptedVal'[b] = acceptedVal[b]
            BY <2>2 DEF TypeOK, AcceptorTypeOK
        <3>3. new.acc = a /\ new.id = id[c]
            OBVIOUS
        <3>4. \A b \in Acceptors :
                /\ ~GreaterThan(acceptedID'[b], promisedID'[b])
                /\ \/ acceptedID'[b] = ZeroID
                   \/ [acc |-> b, id |-> acceptedID'[b], val |-> acceptedVal'[b]] \in votes'
            BY <2>2, <3>1, <3>2, IDOrder DEF RegistersCoverVotes
        <3>5. ASSUME NEW w \in votes' PROVE ~GreaterThan(w.id, acceptedID'[w.acc])
            <4>1. CASE w = new
                BY <3>1, <3>2, <3>3, <4>1, IDOrder
            <4>2. CASE w \in votes /\ w.acc # a
                BY <3>1, <3>2, <4>2 DEF RegistersCoverVotes
            <4>3. CASE w \in votes /\ w.acc = a
                <5>1. ~GreaterThan(w.id, acceptedID[a]) /\ ~GreaterThan(acceptedID[a], promisedID[a])
                    BY <4>3 DEF RegistersCoverVotes
                <5>2. ~GreaterThan(w.id, promisedID[a])
                    BY <3>1, <4>3, <5>1, IDOrder
                <5>3. ~GreaterThan(w.id, id[c])
                    BY <2>2, <3>1, <4>3, <5>2, IDOrder
                <5> QED
                    BY <3>2, <4>3, <5>3
            <4> QED
                BY <2>2, <4>1, <4>2, <4>3
        <3> QED
            BY <3>4, <3>5 DEF RegistersCoverVotes
    <2> QED
        BY <1>4, <2>1, <2>2, AcceptEffect
<1> QED
    BY <1>1, <1>2, <1>3, <1>4, StepKinds DEF Loud
-----------------------------------------------------------------------------
\* Phase 1 ends with a value some caller proposed.
LEMMA ChosenValueProposed ==
    ASSUME ReportsStayTrue, OneValuePerProposal, NEW c \in Calls, NEW v, ChosenValue(c, v)
    PROVE  v \in Proposals
<1>1. CallValue[c] \in Proposals
    BY DEF Proposals
<1>2. ASSUME NEW a \in Promisers(c), GreaterThan(promises[c][a].AcceptedID, ZeroID)
      PROVE  promises[c][a].Value \in Proposals
    <2> DEFINE m == promises[c][a]
               x == [acc |-> a, id |-> m.AcceptedID, val |-> m.Value]
    <2>1. m.AcceptedID # ZeroID
        BY <1>2, IDOrder
    <2>2. x \in votes /\ x.val = m.Value
        BY <2>1 DEF ReportsStayTrue
    <2> QED
        BY <2>2 DEF OneValuePerProposal
<1> QED
    BY <1>1, <1>2 DEF ChosenValue

\* One value per proposal.
LEMMA OneValueStep ==
    ASSUME TypeOK, IDsStarted, ProposalsDistinct, OneValuePerProposal, ReportsStayTrue, [Next]_vars
    PROVE  OneValuePerProposal'
<1> USE DEF InRound
<1>1. CASE Quiet
    BY <1>1 DEF Quiet, OneValuePerProposal
<1>2. ASSUME NEW c \in Calls, StartRound(c) PROVE OneValuePerProposal'
    <2> DEFINE p == ProposerOf[c]
    <2>1. p \in Proposers /\ round[p] \in Nat
        BY ConstantTypes DEF TypeOK
    <2>2. /\ id'[c].Round = round[p] + 1 /\ id'[c].Proposer = p /\ pc'[c] = "phase1"
          /\ votes' = votes /\ value' = value
          /\ \A d \in Calls : d # c => id'[d] = id[d] /\ pc'[d] = pc[d]
        BY <1>2 DEF TypeOK, StartRound, NextRound
    <2>3. \A w \in votes : w.id # id'[c]
        BY <2>1, <2>2 DEF IDsStarted, Started
    <2> QED
        BY <2>2, <2>3 DEF OneValuePerProposal
<1>3. ASSUME NEW c \in Calls, NEW a \in Acceptors, Prepare(c, a) PROVE OneValuePerProposal'
    BY <1>3, PrepareEffect DEF OneValuePerProposal
<1>4. ASSUME NEW c \in Calls, NEW a \in Acceptors, Accept(c, a) PROVE OneValuePerProposal'
    <2> DEFINE new == [acc |-> a, id |-> id[c], val |-> value[c]]
    <2>1. UNCHANGED <<pc, id, value>> /\ pc[c] = "phase2" /\ votes' \subseteq votes \cup {new}
        BY <1>4, AcceptEffect
    <2>2. new.id = id[c] /\ new.val = value[c] /\ value[c] \in Proposals
        BY <2>1 DEF OneValuePerProposal
    <2>3. \A w \in votes : w.id = id[c] => w.val = value[c]
        BY <2>1 DEF OneValuePerProposal
    <2>4. \A w, x \in votes' : w.id = x.id => w.val = x.val
        BY <2>1, <2>2, <2>3 DEF OneValuePerProposal
    <2>5. \A d \in Calls : InRound(d) /\ id[d] = id[c] => d = c
        BY DEF ProposalsDistinct
    <2>6. \A d \in Calls : \A w \in votes' :
            InRound(d) /\ w.id = id[d] => pc[d] = "phase2" /\ w.val = value[d]
        BY <2>1, <2>2, <2>5 DEF OneValuePerProposal
    <2> QED
        BY <2>1, <2>2, <2>4, <2>6 DEF OneValuePerProposal
<1>5. ASSUME NEW c \in Calls, EndPhase1(c) PROVE OneValuePerProposal'
    <2>1. PICK v \in NilOrValue : ChosenValue(c, v) /\ value' = [value EXCEPT ![c] = v]
        BY <1>5 DEF EndPhase1
    <2>2. v \in Proposals
        BY <2>1, ChosenValueProposed
    <2>3. /\ pc[c] = "phase1" /\ pc'[c] = "phase2" /\ value'[c] = v
          /\ \A d \in Calls : d # c => pc'[d] = pc[d] /\ value'[d] = value[d]
          /\ id' = id /\ votes' = votes
        BY <1>5, <2>1 DEF TypeOK, EndPhase1
    <2> QED
        BY <2>2, <2>3 DEF OneValuePerProposal
<1>6. ASSUME NEW c \in Calls, ReturnValue(c) \/ NoQuorum(c) PROVE OneValuePerProposal'
    <2>1. /\ pc'[c] \in {"returned", "start"} /\ votes' = votes
          /\ \A d \in Calls : d # c => pc'[d] = pc[d] /\ value'[d] = value[d] /\ id'[d] = id[d]
        BY <1>6 DEF TypeOK, ReturnValue, NoQuorum, ForgetRound
    <2> QED
        BY <2>1 DEF OneValuePerProposal
<1> QED
    BY <1>1, <1>2, <1>3, <1>4, <1>5, <1>6, StepKinds DEF Loud

\* What a call counts has happened.
LEMMA CountsStep ==
    ASSUME TypeOK, IDsStarted, CountsAreReal, [Next]_vars
    PROVE  CountsAreReal'
<1> USE DEF InRound
<1>0. /\ \A a \in Acceptors : /\ promisedID[a] \in ProposalID /\ promisedID'[a] \in ProposalID
                              /\ ~GreaterThan(promisedID[a], promisedID'[a])
      /\ votes \subseteq votes'
      /\ \A d \in Calls : id[d] \in ProposalID
    BY TypeStep, Monotone DEF TypeOK, AcceptorTypeOK
<1>1. \A i \in ProposalID, a \in Acceptors :
        ~GreaterThan(i, promisedID[a]) => ~GreaterThan(i, promisedID'[a])
    BY <1>0, IDOrder
<1>2. ASSUME NEW d \in Calls, id'[d] = id[d], pc'[d] = pc[d], value'[d] = value[d],
             promises'[d] = promises[d], accepted'[d] = accepted[d]
      PROVE  /\ ~InRound(d)' => Promisers(d)' = {}
             /\ \A a \in Promisers(d)' : ~GreaterThan(id'[d], promisedID'[a])
             /\ \A a \in accepted'[d] : [acc |-> a, id |-> id'[d], val |-> value'[d]] \in votes'
    <2>1. Promisers(d)' = Promisers(d) /\ Promisers(d) \subseteq Acceptors
        BY <1>2 DEF Promisers
    <2> QED
        BY <1>0, <1>1, <1>2, <2>1 DEF CountsAreReal
<1>3. CASE Quiet
    <2>1. \A d \in Calls : Promisers(d)' = Promisers(d) /\ Promisers(d) \subseteq Acceptors
        BY <1>3 DEF Quiet, Promisers
    <2> QED
        BY <1>0, <1>3, <2>1 DEF Quiet, CountsAreReal
<1>4. ASSUME NEW c \in Calls, StartRound(c) PROVE CountsAreReal'
    <2>1. /\ promises' = promises /\ accepted' = accepted /\ pc[c] = "start" /\ pc'[c] = "phase1"
          /\ \A d \in Calls : d # c => id'[d] = id[d] /\ pc'[d] = pc[d] /\ value'[d] = value[d]
        BY <1>4 DEF TypeOK, StartRound
    <2>2. Promisers(c)' = {} /\ accepted'[c] = {}
        BY <2>1 DEF TypeOK, CountsAreReal, Promisers
    <2> QED
        BY <1>2, <2>1, <2>2 DEF CountsAreReal
<1>5. ASSUME NEW c \in Calls, NEW a \in Acceptors, Prepare(c, a) PROVE CountsAreReal'
    <2>1. CASE UNCHANGED promises
        BY <1>2, <1>5, <2>1, PrepareEffect DEF CountsAreReal
    <2>2. CASE /\ promisedID' = [promisedID EXCEPT ![a] = id[c]]
               /\ promises' = [promises EXCEPT ![c][a] = Report(a)]
        <3>1. /\ UNCHANGED <<pc, id, value, accepted, votes>> /\ pc[c] = "phase1"
            BY <1>5, PrepareEffect
        <3>2. \A d \in Calls : d # c => promises'[d] = promises[d]
            BY <2>2 DEF TypeOK
        <3>3. promisedID'[a] = id[c]
            BY <2>2 DEF TypeOK, AcceptorTypeOK
        <3>4. Promisers(c)' \subseteq Promisers(c) \cup {a} /\ Promisers(c) \subseteq Acceptors
            BY <2>2 DEF TypeOK, Promisers
        <3>5. \A b \in Promisers(c)' : ~GreaterThan(id'[c], promisedID'[b])
            BY <1>0, <1>1, <3>1, <3>3, <3>4, IDOrder DEF CountsAreReal
        <3> QED
            BY <1>2, <3>1, <3>2, <3>5 DEF CountsAreReal
    <2> QED
        BY <1>5, <2>1, <2>2, PrepareEffect
<1>6. ASSUME NEW c \in Calls, NEW a \in Acceptors, Accept(c, a) PROVE CountsAreReal'
    <2>1. CASE UNCHANGED accepted
        BY <1>2, <1>6, <2>1, AcceptEffect DEF CountsAreReal
    <2>2. CASE /\ accepted' = [accepted EXCEPT ![c] = @ \cup {a}]
               /\ votes' = votes \cup {[acc |-> a, id |-> id[c], val |-> value[c]]}
        <3>1. UNCHANGED <<pc, id, promises, value>> /\ pc[c] = "phase2"
            BY <1>6, AcceptEffect
        <3>2. /\ \A d \in Calls : d # c => accepted'[d] = accepted[d]
              /\ accepted'[c] = accepted[c] \cup {a}
            BY <2>2 DEF TypeOK
        <3>3. \A b \in accepted'[c] : [acc |-> b, id |-> id'[c], val |-> value'[c]] \in votes'
            BY <2>2, <3>1, <3>2 DEF CountsAreReal
        <3>4. Promisers(c)' = Promisers(c) /\ Promisers(c) \subseteq Acceptors
            BY <3>1 DEF Promisers
        <3>5. \A b \in Promisers(c)' : ~GreaterThan(id'[c], promisedID'[b])
            BY <1>0, <1>1, <3>1, <3>4 DEF CountsAreReal
        <3> QED
            BY <1>2, <3>1, <3>2, <3>3, <3>5 DEF CountsAreReal
    <2> QED
        BY <1>6, <2>1, <2>2, AcceptEffect
<1>7. ASSUME NEW c \in Calls, EndPhase1(c) PROVE CountsAreReal'
    <2>1. /\ UNCHANGED <<promisedID, id, promises, accepted, votes>>
          /\ pc[c] = "phase1" /\ pc'[c] = "phase2"
          /\ \A d \in Calls : d # c => pc'[d] = pc[d] /\ value'[d] = value[d]
        BY <1>7 DEF TypeOK, EndPhase1, acceptorVars
    <2>2. accepted'[c] = {} /\ Promisers(c)' = Promisers(c)
        BY <2>1 DEF TypeOK, Promisers
    <2> QED
        BY <1>2, <2>1, <2>2 DEF CountsAreReal
<1>8. ASSUME NEW c \in Calls, ReturnValue(c) \/ NoQuorum(c) PROVE CountsAreReal'
    <2>1. /\ promises'[c] = [a \in Acceptors |-> NoReport] /\ accepted'[c] = {}
          /\ \A d \in Calls : d # c => /\ pc'[d] = pc[d] /\ value'[d] = value[d] /\ id'[d] = id[d]
                                       /\ promises'[d] = promises[d] /\ accepted'[d] = accepted[d]
        BY <1>8 DEF TypeOK, ReturnValue, NoQuorum, ForgetRound
    <2>2. Promisers(c)' = {}
        BY <2>1 DEF Promisers, NoReport
    <2> QED
        BY <1>2, <2>1, <2>2 DEF CountsAreReal
<1> QED
    BY <1>3, <1>4, <1>5, <1>6, <1>7, <1>8, StepKinds DEF Loud
-----------------------------------------------------------------------------
\* Reports stay true.
LEMMA ReportsStep ==
    ASSUME TypeOK, IDsStarted, RegistersCoverVotes, CountsAreReal, ReportsStayTrue, [Next]_vars
    PROVE  ReportsStayTrue'
<1> DEFINE Fits(m, a, i, V) ==
             /\ m.AcceptedID = ZeroID \/ [acc |-> a, id |-> m.AcceptedID, val |-> m.Value] \in V
             /\ \A w \in V : w.acc = a /\ GreaterThan(i, w.id) => ~GreaterThan(w.id, m.AcceptedID)
<1>1. /\ ReportsStayTrue <=> \A d \in Calls : \A a \in Promisers(d) : Fits(promises[d][a], a, id[d], votes)
      /\ ReportsStayTrue' <=> \A d \in Calls : \A a \in Promisers(d)' : Fits(promises'[d][a], a, id'[d], votes')
    BY DEF ReportsStayTrue
<1>2. /\ \A a \in Acceptors : promisedID[a] \in ProposalID /\ acceptedID[a] \in ProposalID
      /\ \A d \in Calls : id[d] \in ProposalID
      /\ \A w \in votes' : w.id \in ProposalID /\ w.acc \in Acceptors
    BY TypeStep DEF TypeOK, AcceptorTypeOK, Vote
\* A vote cast in this step is not below a promise made before it.
<1>3. ASSUME NEW d \in Calls, NEW a \in Promisers(d) PROVE Fits(promises[d][a], a, id[d], votes')
    <2>1. a \in Acceptors /\ ~GreaterThan(id[d], promisedID[a])
        BY DEF Promisers, CountsAreReal
    <2>2. ASSUME NEW w \in votes' \ votes, w.acc = a PROVE ~GreaterThan(id[d], w.id)
        <3>1. ~GreaterThan(promisedID[a], w.id) /\ w.id \in ProposalID
            BY <1>2, <2>2, Monotone
        <3> QED
            BY <1>2, <2>1, <3>1, IDOrder
    <2>3. Fits(promises[d][a], a, id[d], votes) /\ votes \subseteq votes'
        BY <1>1, Monotone
    <2> QED
        BY <2>2, <2>3
<1> HIDE DEF Fits
<1>4. ASSUME id' = id, promises' = promises PROVE ReportsStayTrue'
    <2>1. \A d \in Calls : Promisers(d)' = Promisers(d)
        BY <1>4 DEF Promisers
    <2> QED
        BY <1>1, <1>3, <1>4, <2>1
<1>5. CASE Quiet
    BY <1>4, <1>5 DEF Quiet
<1>6. ASSUME NEW c \in Calls, StartRound(c) \/ ReturnValue(c) \/ NoQuorum(c) PROVE ReportsStayTrue'
    <2>1. /\ \A d \in Calls : d # c => id'[d] = id[d] /\ promises'[d] = promises[d]
          /\ \/ promises'[c] = promises[c] /\ pc[c] = "start"
             \/ promises'[c] = [a \in Acceptors |-> NoReport]
        BY <1>6 DEF TypeOK, StartRound, ReturnValue, NoQuorum, ForgetRound
    <2>2. \A d \in Calls : d # c => Promisers(d)' = Promisers(d)
        BY <2>1 DEF Promisers
    <2>3. Promisers(c)' = {}
        BY <2>1 DEF Promisers, NoReport, CountsAreReal, InRound
    <2> QED
        BY <1>1, <1>3, <2>1, <2>2, <2>3
<1>7. ASSUME NEW c \in Calls, NEW a \in Acceptors, Prepare(c, a) PROVE ReportsStayTrue'
    <2>1. CASE promises' = promises
        BY <1>4, <1>7, <2>1, PrepareEffect
    <2>2. CASE promises' = [promises EXCEPT ![c][a] = Report(a)]
        <3>1. id' = id /\ votes' = votes
            BY <1>7, PrepareEffect
        <3>2. /\ \A d \in Calls, b \in Acceptors :
                   (d # c \/ b # a) => promises'[d][b] = promises[d][b]
              /\ promises'[c][a] = Report(a)
            BY <2>2 DEF TypeOK
        <3>3. Fits(Report(a), a, id[c], votes)
            <4>1. Report(a).AcceptedID = acceptedID[a] /\ Report(a).Value = acceptedVal[a]
                BY DEF Report
            <4> QED
                BY <4>1 DEF Fits, RegistersCoverVotes
        <3>4. \A d \in Calls : \A b \in Promisers(d)' :
                \/ b \in Promisers(d) /\ promises'[d][b] = promises[d][b]
                \/ d = c /\ b = a
            BY <3>2 DEF Promisers
        <3> QED
            BY <1>1, <1>3, <3>1, <3>2, <3>3, <3>4
    <2> QED
        BY <1>7, <2>1, <2>2, PrepareEffect
<1>8. ASSUME NEW c \in Calls, NEW a \in Acceptors, Accept(c, a) PROVE ReportsStayTrue'
    BY <1>4, <1>8, AcceptEffect
<1>9. ASSUME NEW c \in Calls, EndPhase1(c) PROVE ReportsStayTrue'
    BY <1>4, <1>9 DEF EndPhase1
<1> QED
    BY <1>5, <1>6, <1>7, <1>8, <1>9, StepKinds DEF Loud
-----------------------------------------------------------------------------
\* What is settled stays settled.
LEMMA SettledStays ==
    ASSUME TypeOK, [Next]_vars, NEW j \in ProposalID, NEW v, Settled(j, v)
    PROVE  Settled(j, v)'
<1>1. PICK Q \in Majorities : \A a \in Q :
        /\ GreaterThan(promisedID[a], j)
        /\ \A w \in votes : w.acc = a /\ w.id = j => w.val = v
    BY DEF Settled
<1>2. Q \subseteq Acceptors /\ Q \in Majorities'
    BY DEF Majorities
<1>3. \A a \in Acceptors : /\ promisedID[a] \in ProposalID /\ promisedID'[a] \in ProposalID
                           /\ ~GreaterThan(promisedID[a], promisedID'[a])
    BY TypeStep, Monotone DEF TypeOK, AcceptorTypeOK
<1>4. \A a \in Q : GreaterThan(promisedID'[a], j)
    BY <1>1, <1>2, <1>3, IDOrder
<1>5. \A w \in votes' \ votes : ~GreaterThan(promisedID[w.acc], w.id)
    BY Monotone
<1> QED
    BY <1>1, <1>2, <1>4, <1>5 DEF Settled

\* What lies below a proposal is a proposal, and not the zero one.
LEMMA BelowTyped ==
    ASSUME NEW i \in ProposalID
    PROVE  \A j \in Below(i) : j \in ProposalID /\ GreaterThan(i, j) /\ GreaterThan(j, ZeroID)
<1> SUFFICES ASSUME NEW j \in Below(i)
             PROVE  j \in ProposalID /\ GreaterThan(i, j) /\ GreaterThan(j, ZeroID)
    OBVIOUS
<1>1. i.Round \in Nat
    BY DEF ProposalID
<1>2. /\ j \in [Round : 1..i.Round, Proposer : Proposers] /\ GreaterThan(i, j)
    BY DEF Below
<1>3. j.Round \in Nat /\ j.Round > 0
    BY <1>1, <1>2
<1>4. j \in ProposalID
    <2>1. j = [Round |-> j.Round, Proposer |-> j.Proposer] /\ j.Proposer \in Nat
        BY <1>2, ProposersAssumption
    <2> QED
        BY <1>3, <2>1 DEF ProposalID
<1> QED
    BY <1>2, <1>3, <1>4 DEF GreaterThan, ZeroID

LEMMA SafeStays ==
    ASSUME TypeOK, [Next]_vars, NEW i \in ProposalID, NEW v, SafeAt(i, v)
    PROVE  \A j \in Below(i) : Settled(j, v)'
BY BelowTyped, SettledStays DEF SafeAt

\* The value phase 1 ends with is safe: either nobody in the quorum voted below the
\* proposal, or it is the value of the highest vote reported, safe there already.
LEMMA ChosenValueSafe ==
    ASSUME CommonAcceptors, NoNilProposed, TypeOK, IDsStarted, OneValuePerProposal, CountsAreReal,
           ReportsStayTrue, ProposedIsSafe,
           NEW c \in Calls, pc[c] = "phase1", HasQuorum(c, Promisers(c)),
           NEW v, ChosenValue(c, v)
    PROVE  SafeAt(id[c], v)
<1> DEFINE Q == Promisers(c)
           reports == {promises[c][a] : a \in Promisers(c)}
           voted == {m \in reports : GreaterThan(m.AcceptedID, ZeroID)}
           top == {m \in voted : \A n \in voted : ~GreaterThan(n.AcceptedID, m.AcceptedID)}
<1>1. Q \in Majorities /\ Q \subseteq Acceptors
    BY ConstantTypes DEF Promisers, Majorities, HasQuorum, QuorumSize, CommonAcceptors
<1>2. id[c] \in ProposalID /\ \A a \in Acceptors : promisedID[a] \in ProposalID
    BY DEF TypeOK, AcceptorTypeOK
<1>3. \A a \in Q : promises[c][a].AcceptedID \in ProposalID /\ promises[c][a] \in reports
    BY <1>1 DEF TypeOK, PromiseType
<1>4. SUFFICES ASSUME NEW j \in Below(id[c]) PROVE Settled(j, v)
    BY DEF SafeAt
<1>5. /\ j \in ProposalID /\ GreaterThan(id[c], j) /\ GreaterThan(j, ZeroID)
      /\ j \in [Round : 1..id[c].Round, Proposer : Proposers]
    BY <1>2, BelowTyped DEF Below
<1>6. \A a \in Q : GreaterThan(promisedID[a], j)
    BY <1>1, <1>2, <1>5, IDOrder DEF CountsAreReal
<1>7. \A a \in Q : \A w \in votes : w.acc = a /\ w.id = j => ~GreaterThan(j, promises[c][a].AcceptedID)
    BY <1>5 DEF ReportsStayTrue
\* Nobody in Q who voted at j, so j is settled for anything.
<1>8. ASSUME \A a \in Q : GreaterThan(j, promises[c][a].AcceptedID) PROVE Settled(j, v)
    BY <1>1, <1>6, <1>7, <1>8 DEF Settled
<1>9. CASE voted = {}
    <2>1. \A a \in Q : ~GreaterThan(promises[c][a].AcceptedID, ZeroID)
        BY <1>3, <1>9
    <2>2. \A a \in Q : GreaterThan(j, promises[c][a].AcceptedID)
        BY <1>3, <1>5, <2>1, IDOrder
    <2> QED
        BY <1>8, <2>2
<1>10. ASSUME NEW m \in top PROVE m.Value # Nil /\ (v = m.Value => Settled(j, v))
    <2> DEFINE b == m.AcceptedID
    <2>1. PICK a \in Q : m = promises[c][a]
        OBVIOUS
    <2>2. b \in ProposalID /\ GreaterThan(b, ZeroID) /\ b # ZeroID
        BY <1>3, <2>1, IDOrder
    <2> DEFINE x == [acc |-> a, id |-> b, val |-> m.Value]
    <2>3. x \in votes /\ x.id = b /\ x.val = m.Value
        BY <2>1, <2>2 DEF ReportsStayTrue
    <2>4. m.Value # Nil
        BY <2>3 DEF OneValuePerProposal, NoNilProposed, Proposals
    <2>5. SUFFICES ASSUME v = m.Value PROVE Settled(j, v)
        BY <2>4
    <2>6. CASE GreaterThan(j, b)
        <3>1. ASSUME NEW e \in Q PROVE GreaterThan(j, promises[c][e].AcceptedID)
            <4> DEFINE n == promises[c][e]
            <4>1. n \in reports /\ n.AcceptedID \in ProposalID
                BY <1>3
            <4>2. CASE n \in voted
                <5>1. ~GreaterThan(n.AcceptedID, b)
                    BY <4>2
                <5> QED
                    BY <1>5, <2>2, <2>6, <4>1, <5>1, IDOrder
            <4>3. CASE n \notin voted
                <5>1. ~GreaterThan(n.AcceptedID, ZeroID)
                    BY <4>1, <4>3
                <5> QED
                    BY <1>5, <4>1, <5>1, IDOrder
            <4> QED
                BY <4>2, <4>3
        <3> QED
            BY <1>8, <3>1
    <2>7. CASE j = b
        <3>1. \A w \in votes : w.id = j => w.val = v
            BY <2>3, <2>5, <2>7 DEF OneValuePerProposal
        <3> QED
            BY <1>1, <1>6, <3>1 DEF Settled
    <2>8. CASE GreaterThan(b, j)
        <3>1. SafeAt(b, v)
            BY <2>3, <2>5 DEF ProposedIsSafe
        <3>2. j \in Below(b)
            BY <1>5, <2>2, <2>8 DEF Below, GreaterThan, ProposalID
        <3> QED
            BY <3>1, <3>2 DEF SafeAt
    <2> QED
        BY <1>5, <2>2, <2>6, <2>7, <2>8, IDOrder
<1>11. \/ voted = {}
       \/ \E m \in top : v = m.Value
       \/ \E m \in top : m.Value = Nil
    BY DEF ChosenValue
<1> QED
    BY <1>9, <1>10, <1>11

\* Whatever is proposed or voted for is safe.
LEMMA SafeStep ==
    ASSUME CommonAcceptors, NoNilProposed, TypeOK, IDsStarted, OneValuePerProposal, CountsAreReal,
           ReportsStayTrue, ProposedIsSafe, [Next]_vars
    PROVE  ProposedIsSafe'
<1>1. ASSUME NEW d \in Calls, pc[d] = "phase2", id'[d] = id[d], value'[d] = value[d]
      PROVE  SafeAt(id[d], value[d])'
    <2>1. SafeAt(id[d], value[d])
        BY <1>1 DEF ProposedIsSafe
    <2>2. id[d] \in ProposalID
        BY DEF TypeOK
    <2>3. PICK v : v = value[d]
        OBVIOUS
    <2>4. \A j \in Below(id[d]) : Settled(j, v)'
        BY <2>1, <2>2, <2>3, SafeStays
    <2> QED
        BY <1>1, <2>3, <2>4 DEF SafeAt, Below
<1>2. ASSUME NEW w \in votes PROVE SafeAt(w.id, w.val)'
    BY SafeStays DEF ProposedIsSafe, SafeAt, Below, TypeOK, Vote
<1>3. ASSUME votes' = votes,
             \A d \in Calls : pc'[d] = "phase2" =>
                 pc[d] = "phase2" /\ id'[d] = id[d] /\ value'[d] = value[d]
      PROVE  ProposedIsSafe'
    BY <1>1, <1>2, <1>3 DEF ProposedIsSafe
<1>4. CASE Quiet
    BY <1>3, <1>4 DEF Quiet
<1>5. ASSUME NEW c \in Calls, StartRound(c) \/ ReturnValue(c) \/ NoQuorum(c) PROVE ProposedIsSafe'
    <2>1. /\ votes' = votes /\ pc'[c] # "phase2"
          /\ \A d \in Calls : d # c => pc'[d] = pc[d] /\ id'[d] = id[d] /\ value'[d] = value[d]
        BY <1>5 DEF TypeOK, StartRound, ReturnValue, NoQuorum, ForgetRound
    <2> QED
        BY <1>3, <2>1
<1>6. ASSUME NEW c \in Calls, NEW a \in Acceptors, Prepare(c, a) PROVE ProposedIsSafe'
    BY <1>3, <1>6, PrepareEffect
<1>7. ASSUME NEW c \in Calls, NEW a \in Acceptors, Accept(c, a) PROVE ProposedIsSafe'
    <2> DEFINE new == [acc |-> a, id |-> id[c], val |-> value[c]]
    <2>1. UNCHANGED <<pc, id, value>> /\ pc[c] = "phase2" /\ votes' \subseteq votes \cup {new}
        BY <1>7, AcceptEffect
    <2>2. SafeAt(id[c], value[c])
        BY <2>1 DEF ProposedIsSafe
    <2>3. new.id = id[c] /\ new.val = value[c]
        OBVIOUS
    <2>4. SafeAt(new.id, new.val)
        BY <2>2, <2>3
    <2>5. \A w \in votes' : SafeAt(w.id, w.val)
        BY <2>1, <2>4 DEF ProposedIsSafe
    <2>7. \A d \in Calls : pc'[d] = "phase2" => SafeAt(id[d], value[d])'
        BY <1>1, <2>1
    <2>8. ASSUME NEW w \in votes' PROVE \A j \in Below(w.id) : Settled(j, w.val)'
        <3>1. w.id \in ProposalID
            BY TypeStep DEF TypeOK, Vote
        <3> QED
            BY <2>5, <3>1, SafeStays
    <2> QED
        BY <2>7, <2>8 DEF ProposedIsSafe, SafeAt, Below
<1>8. ASSUME NEW c \in Calls, EndPhase1(c) PROVE ProposedIsSafe'
    <2>1. PICK v \in NilOrValue : ChosenValue(c, v) /\ value' = [value EXCEPT ![c] = v]
        BY <1>8 DEF EndPhase1
    <2>2. SafeAt(id[c], v)
        BY <1>8, <2>1, ChosenValueSafe DEF EndPhase1
    <2>3. /\ value'[c] = v /\ id' = id /\ votes' = votes
          /\ \A d \in Calls : d # c => pc'[d] = pc[d] /\ value'[d] = value[d]
        BY <1>8, <2>1 DEF TypeOK, EndPhase1
    <2>4. \A j \in Below(id[c]) : Settled(j, v)'
        BY <2>2, SafeStays DEF TypeOK
    <2>5. SafeAt(id[c], value[c])'
        BY <2>3, <2>4 DEF SafeAt, Below
    <2>6. \A d \in Calls : pc'[d] = "phase2" => SafeAt(id[d], value[d])'
        BY <1>1, <2>3, <2>5
    <2> QED
        BY <1>2, <2>3, <2>6 DEF ProposedIsSafe
<1> QED
    BY <1>4, <1>5, <1>6, <1>7, <1>8, StepKinds DEF Loud
-----------------------------------------------------------------------------
\* A chosen value stays chosen.
LEMMA ChosenStays ==
    ASSUME TypeOK, IDsStarted, [Next]_vars, NEW v, Chosen(v)
    PROVE  Chosen(v)'
<1>1. PICK w \in votes : w.val = v /\ Cardinality(Voters(w.id, v)) >= QuorumSize(w.id.Proposer)
    BY DEF Chosen
<1>2. votes \subseteq votes'
    BY Monotone
<1>3. w.id.Proposer \in Proposers
    BY DEF IDsStarted, Started
<1>4. /\ Voters(w.id, v) \subseteq Voters(w.id, v)'
      /\ Voters(w.id, v)' \subseteq Acceptors
    BY <1>2, <1>3, ConstantTypes DEF Voters
<1>5. /\ Cardinality(Voters(w.id, v)) <= Cardinality(Voters(w.id, v)')
      /\ Cardinality(Voters(w.id, v)) \in Nat /\ Cardinality(Voters(w.id, v)') \in Nat
    BY <1>4, AcceptorsAssumption, FS_Subset, FS_CardinalityType
<1>6. QuorumSize(w.id.Proposer) \in Int
    BY <1>3, ConstantTypes, AcceptorsAssumption, FS_Subset, FS_CardinalityType DEF QuorumSize
<1>7. Cardinality(Voters(w.id, v)') >= QuorumSize(w.id.Proposer)
    BY <1>1, <1>5, <1>6
<1> QED
    BY <1>1, <1>2, <1>7 DEF Chosen, Voters, QuorumSize

\* A Propose returns what is chosen.
LEMMA ReturnedStep ==
    ASSUME CommonAcceptors, TypeOK, IDsStarted, CountsAreReal, ReturnedIsChosen, [Next]_vars
    PROVE  ReturnedIsChosen'
<1>1. ASSUME NEW d \in Calls, pc[d] = "returned", value'[d] = value[d] PROVE Chosen(value[d])'
    <2>1. PICK v : v = value[d]
        OBVIOUS
    <2>2. Chosen(v)'
        BY <1>1, <2>1, ChosenStays DEF ReturnedIsChosen
    <2> QED
        BY <1>1, <2>1, <2>2
<1>2. ASSUME \A d \in Calls : pc'[d] = "returned" => pc[d] = "returned" /\ value'[d] = value[d]
      PROVE  ReturnedIsChosen'
    BY <1>1, <1>2 DEF ReturnedIsChosen
<1>3. CASE Quiet
    BY <1>2, <1>3 DEF Quiet
<1>4. ASSUME NEW c \in Calls, StartRound(c) \/ EndPhase1(c) \/ NoQuorum(c) PROVE ReturnedIsChosen'
    <2>1. /\ pc'[c] # "returned"
          /\ \A d \in Calls : d # c => pc'[d] = pc[d] /\ value'[d] = value[d]
        BY <1>4 DEF TypeOK, StartRound, EndPhase1, NoQuorum
    <2> QED
        BY <1>2, <2>1
<1>5. ASSUME NEW c \in Calls, NEW a \in Acceptors, Prepare(c, a) \/ Accept(c, a) PROVE ReturnedIsChosen'
    BY <1>2, <1>5, PrepareEffect, AcceptEffect
<1>6. ASSUME NEW c \in Calls, ReturnValue(c) PROVE ReturnedIsChosen'
    <2> DEFINE p == ProposerOf[c]
    <2>1. /\ pc[c] = "phase2" /\ HasQuorum(c, accepted[c]) /\ value' = value /\ votes' = votes
          /\ \A d \in Calls : d # c => pc'[d] = pc[d]
        BY <1>6 DEF TypeOK, ReturnValue
    <2>2. id[c].Proposer = p /\ p \in Proposers
        BY <2>1, ConstantTypes DEF IDsStarted, InRound
    <2>3. /\ accepted[c] \subseteq Acceptors /\ Voters(id[c], value[c]) \subseteq Acceptors
          /\ QuorumSize(p) \in Nat /\ QuorumSize(p) >= 1
        BY <2>2, ConstantTypes, AcceptorsAssumption, FS_Subset, FS_CardinalityType
           DEF TypeOK, Voters, QuorumSize
    <2>4. accepted[c] \subseteq Voters(id[c], value[c])
        BY <2>2, <2>3 DEF CountsAreReal, Voters, CommonAcceptors
    <2>5. /\ Cardinality(accepted[c]) <= Cardinality(Voters(id[c], value[c]))
          /\ Cardinality(accepted[c]) \in Nat /\ Cardinality(Voters(id[c], value[c])) \in Nat
        BY <2>3, <2>4, AcceptorsAssumption, FS_Subset, FS_CardinalityType
    <2>6. Cardinality(Voters(id[c], value[c])) >= QuorumSize(p)
        BY <2>1, <2>3, <2>5 DEF HasQuorum
    <2>7. accepted[c] # {}
        BY <2>1, <2>3, FS_EmptySet DEF HasQuorum
    <2>8. PICK a \in accepted[c] : [acc |-> a, id |-> id[c], val |-> value[c]] \in votes
        BY <2>7 DEF CountsAreReal
    <2> DEFINE w == [acc |-> a, id |-> id[c], val |-> value[c]]
    <2>9. w.id = id[c] /\ w.val = value[c] /\ w \in votes
        BY <2>8
    <2>10. Chosen(value[c])
        BY <2>2, <2>6, <2>9 DEF Chosen
    <2>11. Chosen(value[c])'
        BY <2>1, <2>10 DEF Chosen, Voters, QuorumSize
    <2> QED
        BY <1>1, <2>1, <2>11 DEF ReturnedIsChosen
<1> QED
    BY <1>3, <1>4, <1>5, <1>6, StepKinds DEF Loud
-----------------------------------------------------------------------------
LEMMA InvInit == Init => IInv
<1> SUFFICES ASSUME Init PROVE IInv
    OBVIOUS
<1>1. TypeOK
    BY TypeInit
<1>2. /\ votes = {} /\ \A c \in Calls : /\ pc[c] = "start" /\ id[c] = ZeroID /\ accepted[c] = {}
                                       /\ promises[c] = [a \in Acceptors |-> NoReport]
      /\ \A a \in Acceptors : promisedID[a] = ZeroID /\ acceptedID[a] = ZeroID
    BY DEF Init, NewAcceptor
<1>3. \A c \in Calls : Promisers(c) = {}
    BY <1>2 DEF Promisers, NoReport
<1>4. IDsStarted /\ ProposalsDistinct /\ RegistersCoverVotes
    BY <1>2, IDOrder DEF IDsStarted, ProposalsDistinct, RegistersCoverVotes, InRound
<1>5. OneValuePerProposal /\ CountsAreReal /\ ReportsStayTrue
    BY <1>2, <1>3 DEF OneValuePerProposal, CountsAreReal, ReportsStayTrue, InRound
<1>6. ProposedIsSafe /\ ReturnedIsChosen
    BY <1>2 DEF ProposedIsSafe, ReturnedIsChosen
<1> QED
    BY <1>1, <1>4, <1>5, <1>6 DEF IInv

LEMMA InvStep ==
    ASSUME CommonAcceptors, NoNilProposed
    PROVE  IInv /\ [Next]_vars => IInv'
<1> SUFFICES ASSUME IInv, [Next]_vars PROVE IInv'
    OBVIOUS
<1> USE DEF IInv
<1>1. TypeOK' /\ IDsStarted' /\ ProposalsDistinct' /\ RegistersCoverVotes'
    BY TypeStep, IDsStep, DistinctStep, RegistersStep
<1>2. OneValuePerProposal' /\ CountsAreReal'
    BY OneValueStep, CountsStep
<1>3. ReportsStayTrue' /\ ProposedIsSafe'
    BY ReportsStep, SafeStep
<1>4. ReturnedIsChosen'
    BY ReturnedStep
<1> QED
    BY <1>1, <1>2, <1>3, <1>4

\* Rounds of votes are real ones.
LEMMA VoteIDs ==
    ASSUME IInv, NEW w \in votes
    PROVE  /\ w.id.Proposer \in Proposers /\ w.id \in ProposalID
           /\ w.id.Round > 0 /\ w.id.Round \in Nat
BY DEF IInv, IDsStarted, Started, TypeOK, Vote, ProposalID

\* A quorum of the shared acceptors is one of the majorities.
LEMMA QuorumIsMajority ==
    ASSUME CommonAcceptors, IInv, NEW w \in votes, NEW v,
           Cardinality(Voters(w.id, v)) >= QuorumSize(w.id.Proposer)
    PROVE  Voters(w.id, v) \in Majorities
BY VoteIDs, ConstantTypes DEF Voters, Majorities, QuorumSize, CommonAcceptors

\* The value of a vote for a higher proposal is the one a majority voted for in a
\* lower: the majority that settled the lower one shares a member with it.
LEMMA HigherVotesFollow ==
    ASSUME IInv, NEW y \in votes, NEW z \in votes, GreaterThan(y.id, z.id),
           Voters(z.id, z.val) \in Majorities
    PROVE  y.val = z.val
<1>1. z.id \in Below(y.id)
    BY VoteIDs DEF Below, GreaterThan, ProposalID
<1>2. PICK Q \in Majorities : \A a \in Q : \A t \in votes : t.acc = a /\ t.id = z.id => t.val = y.val
    BY <1>1 DEF IInv, ProposedIsSafe, SafeAt, Settled
<1>3. PICK a \in Acceptors : a \in Q /\ a \in Voters(z.id, z.val)
    BY MajoritiesMeet
<1> DEFINE t == [acc |-> a, id |-> z.id, val |-> z.val]
<1>4. t \in votes /\ t.acc = a /\ t.id = z.id /\ t.val = z.val
    BY <1>3 DEF Voters
<1> QED
    BY <1>2, <1>3, <1>4

\* Two quorums never choose differently: the votes of the higher proposal follow the
\* lower one.
LEMMA InvAgreement ==
    ASSUME CommonAcceptors, IInv
    PROVE  Agreement
<1>1. SUFFICES ASSUME NEW u \in NilOrValue, NEW v \in NilOrValue, Chosen(u), Chosen(v)
               PROVE  u = v
    BY DEF Agreement
<1>2. PICK w \in votes : w.val = u /\ Cardinality(Voters(w.id, u)) >= QuorumSize(w.id.Proposer)
    BY <1>1 DEF Chosen
<1>3. PICK x \in votes : x.val = v /\ Cardinality(Voters(x.id, v)) >= QuorumSize(x.id.Proposer)
    BY <1>1 DEF Chosen
<1>4. w.id \in ProposalID /\ x.id \in ProposalID
    BY VoteIDs
<1>5. Voters(w.id, u) \in Majorities /\ Voters(x.id, v) \in Majorities
    BY <1>2, <1>3, QuorumIsMajority
<1>6. CASE w.id = x.id
    BY <1>2, <1>3, <1>6 DEF IInv, OneValuePerProposal
<1>7. CASE GreaterThan(w.id, x.id)
    BY <1>2, <1>3, <1>5, <1>7, HigherVotesFollow
<1>8. CASE GreaterThan(x.id, w.id)
    BY <1>2, <1>3, <1>5, <1>8, HigherVotesFollow
<1> QED
    BY <1>4, <1>6, <1>7, <1>8, IDOrder

\* A chosen value is what a majority of the acceptors hold, and goes on being that
\* while they accept later proposals.
ChosenIsHeld ==
    \A v \in NilOrValue : Chosen(v) =>
        \E Q \in Majorities : \A a \in Q : acceptedID[a].Round > 0 /\ acceptedVal[a] = v

\* Those who voted for what a majority voted for accept nothing else later.
LEMMA VotersHold ==
    ASSUME IInv, NEW w \in votes, Voters(w.id, w.val) \in Majorities, NEW a \in Voters(w.id, w.val)
    PROVE  acceptedID[a].Round > 0 /\ acceptedVal[a] = w.val
<1> DEFINE x == [acc |-> a, id |-> w.id, val |-> w.val]
           y == [acc |-> a, id |-> acceptedID[a], val |-> acceptedVal[a]]
<1>1. a \in Acceptors /\ x \in votes /\ x.acc = a /\ x.id = w.id /\ w.id \in ProposalID
    BY VoteIDs DEF Voters, Majorities
<1>2. acceptedID[a] \in ProposalID
    BY <1>1 DEF IInv, TypeOK, AcceptorTypeOK
<1>3. ~GreaterThan(w.id, acceptedID[a])
    BY <1>1 DEF IInv, RegistersCoverVotes
<1>4. acceptedID[a] # ZeroID
    <2>1. w.id.Round > 0 /\ w.id.Round \in Nat  BY VoteIDs
    <2> QED  BY <1>3, <2>1 DEF ZeroID, GreaterThan
<1>5. y \in votes /\ y.id = acceptedID[a] /\ y.val = acceptedVal[a]
    BY <1>1, <1>4 DEF IInv, RegistersCoverVotes
<1>6. acceptedID[a].Round > 0
    BY <1>5, VoteIDs
<1>7. CASE acceptedID[a] = w.id
    BY <1>5, <1>6, <1>7 DEF IInv, OneValuePerProposal
<1>8. CASE GreaterThan(acceptedID[a], w.id)
    BY <1>5, <1>6, <1>8, HigherVotesFollow
<1> QED  BY <1>1, <1>2, <1>3, <1>7, <1>8, IDOrder

LEMMA InvHeld ==
    ASSUME CommonAcceptors, IInv
    PROVE  ChosenIsHeld
<1>1. SUFFICES ASSUME NEW v \in NilOrValue, Chosen(v)
               PROVE  \E Q \in Majorities : \A a \in Q : acceptedID[a].Round > 0 /\ acceptedVal[a] = v
    BY DEF ChosenIsHeld
<1>2. PICK w \in votes : w.val = v /\ Cardinality(Voters(w.id, v)) >= QuorumSize(w.id.Proposer)
    BY <1>1 DEF Chosen
<1>3. Voters(w.id, w.val) \in Majorities
    BY <1>2, QuorumIsMajority
<1> QED  BY <1>2, <1>3, VotersHold

\* The invariant holds in every reachable state of any number of proposers that share
\* their acceptors and of callers that propose no nil.
THEOREM InvariantHolds ==
    ASSUME CommonAcceptors, NoNilProposed
    PROVE  Spec => []IInv
BY InvInit, InvStep, PTL DEF Spec

\* Agreement: under those conditions no two values are ever chosen.
THEOREM AgreementHolds ==
    ASSUME CommonAcceptors, NoNilProposed
    PROVE  Spec => []Agreement
<1>1. IInv => Agreement
    BY InvAgreement
<1> QED
    BY InvariantHolds, <1>1, PTL

\* From the moment a value is chosen a majority of the acceptors report it from State,
\* whatever rounds follow: it is there for every later scan of Learn to count
\* (paxos.go:311).
THEOREM ChosenStaysHeld ==
    ASSUME CommonAcceptors, NoNilProposed
    PROVE  Spec => []ChosenIsHeld
<1>1. IInv => ChosenIsHeld
    BY InvHeld
<1> QED
    BY InvariantHolds, <1>1, PTL

\* A promise's report stays the truth about lower proposals while its round
\* lasts, under the same conditions.
THEOREM ReportsHold ==
    ASSUME CommonAcceptors, NoNilProposed
    PROVE  Spec => []ReportsStayTrue
<1>1. IInv => ReportsStayTrue
    BY DEF IInv
<1> QED
    BY InvariantHolds, <1>1, PTL

\* Calls that share a Proposer never share a proposal ID.
THEOREM DistinctHolds ==
    ASSUME CommonAcceptors, NoNilProposed
    PROVE  Spec => []ProposalsDistinct
<1>1. IInv => ProposalsDistinct
    BY DEF IInv
<1> QED
    BY InvariantHolds, <1>1, PTL

\* What any Propose returns is the chosen value.
THEOREM ReturnedHolds ==
    ASSUME CommonAcceptors, NoNilProposed
    PROVE  Spec => []ReturnedIsChosen
<1>1. IInv => ReturnedIsChosen
    BY DEF IInv
<1> QED
    BY InvariantHolds, <1>1, PTL
-----------------------------------------------------------------------------
\* Paxos implements consensus: its chosen values start empty, and a step leaves them
\* alone or makes the one choice, of a proposed value.
THEOREM RefinesConsensus ==
    ASSUME CommonAcceptors, NoNilProposed
    PROVE  Spec => ImplementsConsensus
<1>1. Init => Abstract!Init
    BY DEF Init, Abstract!Init, ChosenValues, Chosen
<1>2. IInv /\ IInv' /\ Agreement' /\ [Next]_vars => [Abstract!Next]_ChosenValues
    <2> SUFFICES ASSUME IInv, IInv', Agreement', [Next]_vars, ChosenValues' # ChosenValues
                 PROVE  Abstract!Next
        OBVIOUS
    <2>1. \A v \in ChosenValues : v \in ChosenValues'
        BY ChosenStays DEF IInv, ChosenValues
    <2>2. PICK v \in ChosenValues' : v \notin ChosenValues
        BY <2>1
    <2>3. ChosenValues' = {v} /\ ChosenValues = {}
        BY <2>1, <2>2 DEF Agreement, ChosenValues
    <2>4. v \in Proposals
        BY <2>2 DEF ChosenValues, Chosen, IInv, OneValuePerProposal
    <2> QED
        BY <2>3, <2>4 DEF Abstract!Next, Abstract!Choose, Proposals
<1> QED
    BY <1>1, <1>2, InvariantHolds, AgreementHolds, PTL DEF ImplementsConsensus, Abstract!Spec, Spec

\* An acceptor never goes back, whatever its callers share or propose.
THEOREM NeverGoesBack == Spec => AcceptorNeverGoesBack
<1> DEFINE NoReturn == \A a \in Acceptors :
                         /\ ~GreaterThan(promisedID[a], promisedID'[a])
                         /\ ~GreaterThan(acceptedID[a], acceptedID'[a])
                         /\ ~GreaterThan(acceptedID'[a], promisedID'[a])
<1>1. Init => TypeOK /\ RegistersCoverVotes
    BY InvInit DEF IInv
<1>2. TypeOK /\ RegistersCoverVotes /\ [Next]_vars => TypeOK' /\ RegistersCoverVotes'
    BY TypeStep, RegistersStep
<1>3. TypeOK /\ RegistersCoverVotes /\ [Next]_vars => [NoReturn]_vars
    <2> SUFFICES ASSUME TypeOK, RegistersCoverVotes, [Next]_vars, NEW a \in Acceptors
                 PROVE  /\ ~GreaterThan(promisedID[a], promisedID'[a])
                        /\ ~GreaterThan(acceptedID[a], acceptedID'[a])
                        /\ ~GreaterThan(acceptedID'[a], promisedID'[a])
        OBVIOUS
    <2>1. ~GreaterThan(acceptedID'[a], promisedID'[a]) /\ RegistersCoverVotes' /\ TypeOK'
        BY <1>2 DEF RegistersCoverVotes
    <2>2. ~GreaterThan(promisedID[a], promisedID'[a]) /\ votes \subseteq votes'
        BY Monotone
    <2>3. acceptedID[a] \in ProposalID /\ acceptedID'[a] \in ProposalID
        BY <2>1 DEF TypeOK, AcceptorTypeOK
    <2> DEFINE x == [acc |-> a, id |-> acceptedID[a], val |-> acceptedVal[a]]
    <2>4. CASE acceptedID[a] = ZeroID
        BY <2>1, <2>2, <2>3, <2>4, IDOrder
    <2>5. CASE x \in votes
        <3>1. x \in votes' /\ x.acc = a /\ x.id = acceptedID[a]
            BY <2>2, <2>5
        <3>2. ~GreaterThan(acceptedID[a], acceptedID'[a])
            BY <2>1, <3>1 DEF RegistersCoverVotes
        <3> QED
            BY <2>1, <2>2, <3>2
    <2> QED
        BY <2>4, <2>5 DEF RegistersCoverVotes
<1> QED
    BY <1>1, <1>2, <1>3, PTL DEF Spec, AcceptorNeverGoesBack
=============================================================================
