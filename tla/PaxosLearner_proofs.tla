------------------------- MODULE PaxosLearner_proofs -------------------------
(***************************************************************************)
(* Proofs about the Learner beside the proposers, for any acceptors, calls *)
(* and subscribers: the composition implements Paxos alone, what is        *)
(* learned was accepted by a majority, a Learn whose scans begin after a   *)
(* value was chosen returns it, and no subscriber misses what is learned.  *)
(***************************************************************************)
EXTENDS PaxosLearner, Paxos_proofs

\* What the learner's count needs of its caller: no acceptor is in its list twice.
\* NewPaxosNode copies the list it is given and appends an acceptor that it has just
\* made (paxos.go:369), and every caller of NewLearner makes its acceptors anew.
DistinctAcceptors == IsInjective(LearnerAcceptors)

\* One of the votes V is acceptor a's for v, under some proposal.
Accepted(V, a, v) == \E w \in V : w.acc = a /\ w.val = v

\* What a scan has read are values the acceptors asked so far have accepted.
ReadsAreVotes ==
    \A k \in LearnCalls :
        \A i \in DOMAIN read[k] :
            /\ i <= Len(LearnerAcceptors)
            /\ read[k][i] # Nil => Accepted(votes, LearnerAcceptors[i], read[k][i])

\* A learner that has learned has learned a value.
ChosenIsValue == chosen => chosenValue \in Values

TypeInv == TypeOK /\ LearnerTypeOK /\ ChosenIsValue
LearnedInv == TypeInv /\ RegistersCoverVotes /\ ReadsAreVotes /\ LearnedFromMajority

\* Some call of Learn has returned v, with calls at P and their values L.
Returned(P, L, v) == \E k \in LearnCalls : P[k] = "returned" /\ L[k] = v

\* What the learner has learned some call has returned, and subscribers are told
\* nothing else.
ChosenIsReturned == chosen /\ ~Panicked => Returned(lpc, learned, chosenValue)
ToldIsReturned == \A s \in Subscribers : \A v \in Told(s) : Returned(lpc, learned, v)

ListenerInv == TypeInv /\ ChosenIsReturned /\ ToldIsReturned /\ NoListenerMissed
-----------------------------------------------------------------------------
(***************************************************************************)
(* The learner changes nothing of the acceptors and the proposers.         *)
(***************************************************************************)

LEMMA StepOfPaxos == [LearnerNext]_allVars => [Next]_vars
BY DEF LearnerNext, allVars

\* The composition implements Paxos: all that is proved of the proposers and the
\* acceptors holds beside a learner as well.
THEOREM LearnerImplementsPaxos == LearnerSpec => Spec
<1>1. LearnerInit => Init
    BY DEF LearnerInit
<1> QED  BY <1>1, StepOfPaxos, PTL DEF LearnerSpec, Spec

-----------------------------------------------------------------------------
(***************************************************************************)
(* Types.                                                                  *)
(***************************************************************************)

LEMMA LearnerTypeInit == LearnerInit => TypeInv
<1> SUFFICES ASSUME LearnerInit PROVE TypeInv
    OBVIOUS
<1>1. TypeOK  BY TypeInit DEF LearnerInit
<1>2. Cardinality({}) <= 1  BY FS_EmptySet
<1>3. Nil \in NilOrValue  BY DEF NilOrValue
<1>4. chosen \in BOOLEAN /\ chosenValue \in NilOrValue /\ learnerDown \in BOOLEAN
    BY <1>3 DEF LearnerInit
<1>5. writer \subseteq LearnCalls /\ Cardinality(writer) <= 1
    BY <1>2 DEF LearnerInit
<1>6. lpc \in [LearnCalls -> {"idle", "tick", "lock", "scan", "returned", "cancelled", "panicked"}]
    BY DEF LearnerInit
<1>7. read \in [LearnCalls -> Seq(NilOrValue)]
    BY DEF LearnerInit
<1>8. learned \in [LearnCalls -> NilOrValue]
    BY <1>3 DEF LearnerInit
<1>9. listeners \subseteq Subscribers /\ closed \subseteq listeners
    BY DEF LearnerInit
<1>10. box \in [Subscribers -> Seq(Values)] /\ \A s \in Subscribers : Len(box[s]) <= 1
    BY DEF LearnerInit
<1>11. received \in [Subscribers -> Seq(Values)]
    BY DEF LearnerInit
<1>12. ChosenIsValue
    BY DEF LearnerInit, ChosenIsValue
<1>13. LearnerTypeOK
    BY <1>4, <1>5, <1>6, <1>7, <1>8, <1>9, <1>10, <1>11, Zenon DEF LearnerTypeOK
<1> QED  BY <1>1, <1>12, <1>13 DEF TypeInv

\* No step of the learner leaves the types of its variables.
LEMMA LearnerTypeStep == TypeInv /\ [LearnerNext]_allVars => TypeInv'
<1> SUFFICES ASSUME TypeInv, [LearnerNext]_allVars PROVE LearnerTypeOK' /\ ChosenIsValue'
    BY StepOfPaxos, TypeStep DEF TypeInv
<1> DEFINE Goal == LearnerTypeOK' /\ ChosenIsValue'
<1>1. LearnerTypeOK /\ ChosenIsValue /\ TypeOK  BY DEF TypeInv
<1>2. \A x : Cardinality({x}) = 1
    BY FS_Singleton, Zenon
<1>3. Cardinality({}) <= 1  BY FS_EmptySet
<1>4. CASE UNCHANGED learnerVars
    BY <1>1, <1>4 DEF learnerVars, learnerState, learnVars, listenerVars, LearnerTypeOK, ChosenIsValue
<1>5. ASSUME NEW k \in LearnCalls, TestChosen(k) PROVE Goal
    <2>1. learned' \in [LearnCalls -> NilOrValue]
        BY <1>1, <1>5 DEF TestChosen, LearnerTypeOK
    <2>2. lpc' \in [LearnCalls -> {"idle", "tick", "lock", "scan", "returned", "cancelled", "panicked"}]
        BY <1>1, <1>5 DEF TestChosen, LearnerTypeOK
    <2> QED  BY <1>1, <1>5, <2>1, <2>2
             DEF TestChosen, learnerState, listenerVars, LearnerTypeOK, ChosenIsValue
<1>6. ASSUME NEW k \in LearnCalls, LockForScan(k) PROVE Goal
    <2>1. writer' \subseteq LearnCalls /\ Cardinality(writer') <= 1
        <3>1. Cardinality({k}) = 1  BY <1>2, Zenon
        <3>2. writer' = {k}  BY <1>6 DEF LockForScan
        <3>3. Cardinality(writer') = 1  BY <3>1, <3>2
        <3> QED  BY <3>2, <3>3
    <2>2. read' \in [LearnCalls -> Seq(NilOrValue)]
        BY <1>1, <1>6 DEF LockForScan, LearnerTypeOK
    <2>3. lpc' \in [LearnCalls -> {"idle", "tick", "lock", "scan", "returned", "cancelled", "panicked"}]
        BY <1>1, <1>6 DEF LockForScan, LearnerTypeOK
    <2> QED  BY <1>1, <1>6, <2>1, <2>2, <2>3
             DEF LockForScan, listenerVars, LearnerTypeOK, ChosenIsValue
<1>7. ASSUME NEW k \in LearnCalls, ReadState(k) PROVE Goal
    <2> DEFINE a == LearnerAcceptors[Len(read[k]) + 1]
               v == IF acceptedID[a].Round > 0 THEN acceptedVal[a] ELSE Nil
    <2>1. read[k] \in Seq(NilOrValue) /\ Len(read[k]) < Len(LearnerAcceptors)
        BY <1>1, <1>7 DEF ReadState, LearnerTypeOK
    <2>2. a \in Acceptors
        BY <2>1, LearnerAssumption
    <2>3. v \in NilOrValue
        BY <1>1, <2>2 DEF TypeOK, AcceptorTypeOK, NilOrValue
    <2>4. read' = [read EXCEPT ![k] = Append(read[k], v)]
        BY <1>7 DEF ReadState
    <2>5. read' \in [LearnCalls -> Seq(NilOrValue)]
        <3> HIDE DEF v
        <3>1. Append(read[k], v) \in Seq(NilOrValue)  BY <2>1, <2>3
        <3> QED  BY <1>1, <2>4, <3>1 DEF LearnerTypeOK
    <2> QED  BY <1>1, <1>7, <2>5
             DEF ReadState, learnerState, listenerVars, LearnerTypeOK, ChosenIsValue
<1>8. ASSUME NEW k \in LearnCalls, LearnValue(k) PROVE Goal
    <2>1. PICK v \in Values :
            /\ chosen' = TRUE /\ chosenValue' = v
            /\ \/ /\ lpc' = [lpc EXCEPT ![k] = "panicked"]
                  /\ UNCHANGED <<box, learned, writer, read>>
               \/ /\ lpc' = [lpc EXCEPT ![k] = "returned"]
                  /\ learned' = [learned EXCEPT ![k] = v]
                  /\ read' = [read EXCEPT ![k] = <<>>]
                  /\ box' = Offer(v)
                  /\ writer' = {}
        BY <1>8 DEF LearnValue, Counted
    <2>2. v \in NilOrValue  BY DEF NilOrValue
    <2>3. lpc' \in [LearnCalls -> {"idle", "tick", "lock", "scan", "returned", "cancelled", "panicked"}]
        BY <1>1, <2>1 DEF LearnerTypeOK
    <2>4. learned' \in [LearnCalls -> NilOrValue]
        BY <1>1, <2>1, <2>2 DEF LearnerTypeOK
    <2>5. read' \in [LearnCalls -> Seq(NilOrValue)]
        <3>1. read' = read \/ read' = [read EXCEPT ![k] = <<>>]
            BY <2>1
        <3>2. <<>> \in Seq(NilOrValue) /\ read \in [LearnCalls -> Seq(NilOrValue)]
            BY <1>1 DEF LearnerTypeOK
        <3> QED  BY <3>1, <3>2
    <2>6. box' \in [Subscribers -> Seq(Values)] /\ \A s \in Subscribers : Len(box'[s]) <= 1
        <3>1. CASE box' = box
            BY <1>1, <3>1 DEF LearnerTypeOK
        <3>2. CASE box' = Offer(v)
            <4>1. \A s \in Subscribers : box[s] \in Seq(Values) /\ Len(box[s]) <= 1
                BY <1>1 DEF LearnerTypeOK
            <4>2. <<v>> \in Seq(Values) /\ Len(<<v>>) <= 1  OBVIOUS
            <4> QED  BY <3>2, <4>1, <4>2 DEF Offer
        <3> QED  BY <2>1, <3>1, <3>2
    <2>7. writer' \subseteq LearnCalls /\ Cardinality(writer') <= 1
        BY <1>1, <1>3, <2>1 DEF LearnerTypeOK
    <2>8. UNCHANGED <<learnerDown, closed, listeners, received>>
        BY <1>8 DEF LearnValue
    <2>9. chosen' \in BOOLEAN /\ chosenValue' \in NilOrValue /\ ChosenIsValue'
        BY <2>1, <2>2 DEF ChosenIsValue
    <2> QED  BY <1>1, <2>3, <2>4, <2>5, <2>6, <2>7, <2>8, <2>9 DEF LearnerTypeOK
<1>9. ASSUME NEW k \in LearnCalls, ScanAgain(k) PROVE Goal
    <2>1. read' \in [LearnCalls -> Seq(NilOrValue)]
        BY <1>1, <1>9 DEF ScanAgain, LearnerTypeOK
    <2>2. lpc' \in [LearnCalls -> {"idle", "tick", "lock", "scan", "returned", "cancelled", "panicked"}]
        BY <1>1, <1>9 DEF ScanAgain, LearnerTypeOK
    <2> QED  BY <1>1, <1>3, <1>9, <2>1, <2>2 DEF ScanAgain, listenerVars, LearnerTypeOK, ChosenIsValue
<1>10. ASSUME NEW k \in LearnCalls, CancelLearn(k) PROVE Goal
    BY <1>1, <1>10 DEF CancelLearn, learnerState, listenerVars, LearnerTypeOK, ChosenIsValue
<1>11. ASSUME NEW s \in Subscribers, Subscribe(s) PROVE Goal
    <2> DEFINE b == IF chosen THEN <<chosenValue>> ELSE <<>>
    <2>1. b \in Seq(Values) /\ Len(b) <= 1  BY <1>1 DEF ChosenIsValue
    <2>2. box' = [box EXCEPT ![s] = b] /\ listeners' = listeners \cup {s}
        BY <1>11 DEF Subscribe
    <2> HIDE DEF b
    <2>3. box' \in [Subscribers -> Seq(Values)] /\ \A t \in Subscribers : Len(box'[t]) <= 1
        BY <1>1, <2>1, <2>2 DEF LearnerTypeOK
    <2> QED  BY <1>1, <1>11, <2>2, <2>3
             DEF Subscribe, learnerState, learnVars, LearnerTypeOK, ChosenIsValue
<1>12. ASSUME NEW s \in Subscribers, Receive(s) PROVE Goal
    <2>1. received[s] \o box[s] \in Seq(Values)  BY <1>1 DEF LearnerTypeOK
    <2>2. received' \in [Subscribers -> Seq(Values)]
        BY <1>1, <1>12, <2>1 DEF Receive, LearnerTypeOK
    <2>3. box' \in [Subscribers -> Seq(Values)] /\ \A t \in Subscribers : Len(box'[t]) <= 1
        BY <1>1, <1>12 DEF Receive, LearnerTypeOK
    <2> QED  BY <1>1, <1>12, <2>2, <2>3
             DEF Receive, learnerState, learnVars, LearnerTypeOK, ChosenIsValue
<1>13. CASE ShutdownLearner
    BY <1>1, <1>13 DEF ShutdownLearner, learnVars, listenerVars, LearnerTypeOK, ChosenIsValue
<1> QED
    BY <1>4, <1>5, <1>6, <1>7, <1>8, <1>9, <1>10, <1>11, <1>12, <1>13
    DEF LearnerNext, LearnerStep, LearnStep, allVars

\* The learner's flag, locks, readings and channels keep their types.
THEOREM LearnerTypeCorrect == LearnerSpec => []LearnerTypeOK
<1>1. TypeInv => LearnerTypeOK
    BY DEF TypeInv
<1> QED  BY <1>1, LearnerTypeInit, LearnerTypeStep, PTL DEF LearnerSpec
-----------------------------------------------------------------------------
(***************************************************************************)
(* What is learned was accepted by a majority.                             *)
(***************************************************************************)

\* What an acceptor has accepted it stays known to have accepted.
LEMMA AcceptedStays ==
    ASSUME TypeInv, [LearnerNext]_allVars, NEW a, NEW v, Accepted(votes, a, v)
    PROVE  Accepted(votes', a, v)
<1>1. votes \subseteq votes'
    BY StepOfPaxos, Monotone DEF TypeInv
<1> QED  BY <1>1 DEF Accepted

\* The acceptors asked that have accepted v.
Acceptances(v) == {a \in ToSet(LearnerAcceptors) : Accepted(votes, a, v)}

LEMMA AcceptancesFinite ==
    ASSUME NEW v
    PROVE  IsFiniteSet(Acceptances(v)) /\ IsFiniteSet(Acceptances(v)')
<1>1. ToSet(LearnerAcceptors) \subseteq Acceptors
    BY LearnerAssumption DEF ToSet
<1>2. Acceptances(v) \subseteq Acceptors /\ Acceptances(v)' \subseteq Acceptors
    BY <1>1 DEF Acceptances
<1> QED  BY <1>2, AcceptorsAssumption, FS_Subset

\* LearnedFromMajority in terms of them.
LEMMA LearnedMajority ==
    /\ LearnedFromMajority <=>
         (chosen => Cardinality(Acceptances(chosenValue)) >= Len(LearnerAcceptors) \div 2 + 1)
    /\ \A v : chosenValue' = v =>
         (LearnedFromMajority' <=>
           (chosen' => Cardinality(Acceptances(v)') >= Len(LearnerAcceptors) \div 2 + 1))
BY DEF LearnedFromMajority, Acceptances, Accepted

\* They only become more.
LEMMA AcceptanceCountGrows ==
    ASSUME TypeInv, [LearnerNext]_allVars, NEW v,
           Cardinality(Acceptances(v)) >= Len(LearnerAcceptors) \div 2 + 1
    PROVE  Cardinality(Acceptances(v)') >= Len(LearnerAcceptors) \div 2 + 1
<1>1. Acceptances(v) \subseteq Acceptances(v)'
    BY AcceptedStays DEF Acceptances
<1>2. Cardinality(Acceptances(v)) <= Cardinality(Acceptances(v)')
    BY <1>1, AcceptancesFinite, FS_Subset
<1>3. Cardinality(Acceptances(v)) \in Nat /\ Cardinality(Acceptances(v)') \in Nat
    BY AcceptancesFinite, FS_CardinalityType
<1>4. Len(LearnerAcceptors) \in Nat
    BY LearnerAssumption
<1> QED  BY <1>2, <1>3, <1>4

\* A value counted in a scan was accepted by as many different acceptors.
LEMMA CountedAreAccepted ==
    ASSUME DistinctAcceptors, TypeInv, ReadsAreVotes, NEW k \in LearnCalls, NEW v \in Values
    PROVE  LET I == {i \in DOMAIN read[k] : read[k][i] = v}
           IN  /\ Cardinality(I) \in Nat
               /\ Cardinality(I) <= Cardinality(Acceptances(v))
<1> DEFINE I == {i \in DOMAIN read[k] : read[k][i] = v}
           f == [i \in I |-> LearnerAcceptors[i]]
<1>1. read[k] \in Seq(NilOrValue)  BY DEF TypeInv, LearnerTypeOK
<1>2. \A i \in I : i \in DOMAIN LearnerAcceptors /\ Accepted(votes, LearnerAcceptors[i], v)
    BY <1>1, NilAssumption, LearnerAssumption DEF ReadsAreVotes
<1>3. \A i \in I : LearnerAcceptors[i] \in Acceptances(v)
    BY <1>2, LearnerAssumption DEF Acceptances, ToSet
<1>4. \A i, j \in I : LearnerAcceptors[i] = LearnerAcceptors[j] => i = j
    BY <1>2 DEF DistinctAcceptors, IsInjective
<1>5. f \in Injection(I, Acceptances(v))
    <2> HIDE DEF I
    <2> QED  BY <1>3, <1>4 DEF Injection, IsInjective
<1>6. IsFiniteSet(Acceptances(v))  BY AcceptancesFinite
<1>7. IsFiniteSet(I) /\ Cardinality(I) <= Cardinality(Acceptances(v))
    <2> HIDE DEF I, f
    <2> QED  BY <1>5, <1>6, FS_Injection
<1>8. Cardinality(I) \in Nat
    BY <1>7, FS_CardinalityType
<1> QED  BY <1>7, <1>8

\* Every step keeps the readings true and the value learned accepted by a majority.
LEMMA LearnedInvStep ==
    DistinctAcceptors /\ LearnedInv /\ [LearnerNext]_allVars => LearnedInv'
<1> SUFFICES ASSUME DistinctAcceptors, LearnedInv, [LearnerNext]_allVars
             PROVE  ReadsAreVotes' /\ LearnedFromMajority'
    BY LearnerTypeStep, StepOfPaxos, RegistersStep DEF LearnedInv, TypeInv
<1>1. /\ TypeInv /\ TypeOK /\ LearnerTypeOK /\ RegistersCoverVotes /\ ReadsAreVotes /\ LearnedFromMajority
    BY DEF LearnedInv, TypeInv
<1>2. \A a, v : Accepted(votes, a, v) => Accepted(votes', a, v)
    BY <1>1, AcceptedStays
<1>3. ASSUME NEW k \in LearnCalls,
             \A j \in LearnCalls : j # k => read'[j] = read[j],
             \A i \in DOMAIN read'[k] :
                /\ i <= Len(LearnerAcceptors)
                /\ read'[k][i] # Nil => Accepted(votes', LearnerAcceptors[i], read'[k][i])
      PROVE  ReadsAreVotes'
    BY <1>1, <1>2, <1>3 DEF ReadsAreVotes
<1>4. ASSUME UNCHANGED read PROVE ReadsAreVotes'
    BY <1>1, <1>2, <1>4 DEF ReadsAreVotes
<1>5. ASSUME UNCHANGED <<chosen, chosenValue>> PROVE LearnedFromMajority'
    BY <1>1, <1>5, AcceptanceCountGrows, LearnedMajority
<1>6. ASSUME UNCHANGED learnerVars PROVE ReadsAreVotes' /\ LearnedFromMajority'
    BY <1>4, <1>5, <1>6 DEF learnerVars, learnerState, learnVars
<1>7. ASSUME NEW k \in LearnCalls, LockForScan(k) PROVE ReadsAreVotes' /\ LearnedFromMajority'
    <2>1. read'[k] = <<>> /\ \A j \in LearnCalls : j # k => read'[j] = read[j]
        BY <1>1, <1>7 DEF LockForScan, LearnerTypeOK
    <2>2. ReadsAreVotes'  BY <1>3, <2>1
    <2> QED  BY <1>5, <1>7, <2>2 DEF LockForScan
<1>8. ASSUME NEW k \in LearnCalls, ScanAgain(k) PROVE ReadsAreVotes' /\ LearnedFromMajority'
    <2>1. read'[k] = <<>> /\ \A j \in LearnCalls : j # k => read'[j] = read[j]
        BY <1>1, <1>8 DEF ScanAgain, LearnerTypeOK
    <2>2. ReadsAreVotes'  BY <1>3, <2>1
    <2> QED  BY <1>5, <1>8, <2>2 DEF ScanAgain
<1>9. ASSUME NEW k \in LearnCalls, ReadState(k), UNCHANGED vars
      PROVE  ReadsAreVotes' /\ LearnedFromMajority'
    <2> DEFINE n == Len(read[k]) + 1
               a == LearnerAcceptors[n]
               v == IF acceptedID[a].Round > 0 THEN acceptedVal[a] ELSE Nil
    <2>1. read[k] \in Seq(NilOrValue) /\ n <= Len(LearnerAcceptors) /\ a \in Acceptors
        BY <1>1, <1>9, LearnerAssumption DEF ReadState, LearnerTypeOK
    <2>2. v # Nil => Accepted(votes', a, v)
        <3> SUFFICES ASSUME v # Nil PROVE Accepted(votes, a, v)
            BY <1>2
        <3>1. acceptedID[a].Round > 0 /\ v = acceptedVal[a]
            OBVIOUS
        <3>2. acceptedID[a] # ZeroID
            BY <3>1 DEF ZeroID
        <3>3. [acc |-> a, id |-> acceptedID[a], val |-> v] \in votes
            BY <1>1, <2>1, <3>1, <3>2 DEF RegistersCoverVotes
        <3> QED  BY <3>3 DEF Accepted
    <2>3. read' = [read EXCEPT ![k] = Append(read[k], v)]
        BY <1>9 DEF ReadState
    <2>4. read'[k] = Append(read[k], v) /\ \A j \in LearnCalls : j # k => read'[j] = read[j]
        BY <1>1, <2>3 DEF LearnerTypeOK
    <2> HIDE DEF v
    <2>5. \A i \in DOMAIN read'[k] :
             \/ i \in DOMAIN read[k] /\ read'[k][i] = read[k][i]
             \/ i = n /\ read'[k][i] = v
        BY <2>1, <2>4
    <2>6. \A i \in DOMAIN read'[k] :
             /\ i <= Len(LearnerAcceptors)
             /\ read'[k][i] # Nil => Accepted(votes', LearnerAcceptors[i], read'[k][i])
        BY <1>1, <1>2, <2>1, <2>2, <2>5 DEF ReadsAreVotes
    <2>7. ReadsAreVotes'  BY <1>3, <2>4, <2>6
    <2> QED  BY <1>5, <1>9, <2>7 DEF ReadState, learnerState
<1>10. ASSUME NEW k \in LearnCalls, LearnValue(k) PROVE ReadsAreVotes' /\ LearnedFromMajority'
    <2>1. PICK v \in Counted(k) :
            /\ chosenValue' = v
            /\ read' = read \/ read' = [read EXCEPT ![k] = <<>>]
        BY <1>10 DEF LearnValue
    <2> DEFINE n == Cardinality({i \in DOMAIN read[k] : read[k][i] = v})
    <2>2. v \in Values /\ n >= Len(LearnerAcceptors) \div 2 + 1
        BY DEF Counted
    <2>3. n \in Nat /\ n <= Cardinality(Acceptances(v))
        BY <1>1, <2>2, CountedAreAccepted
    <2>4. Cardinality(Acceptances(v)) >= Len(LearnerAcceptors) \div 2 + 1
        <3> HIDE DEF n
        <3>1. Cardinality(Acceptances(v)) \in Nat
            BY AcceptancesFinite, FS_CardinalityType
        <3>2. Len(LearnerAcceptors) \in Nat  BY LearnerAssumption
        <3> QED  BY <2>2, <2>3, <3>1, <3>2
    <2>5. LearnedFromMajority'
        BY <1>1, <2>1, <2>4, AcceptanceCountGrows, LearnedMajority
    <2>6. read' = read \/ (read'[k] = <<>> /\ \A j \in LearnCalls : j # k => read'[j] = read[j])
        BY <1>1, <2>1 DEF LearnerTypeOK
    <2> QED  BY <1>3, <1>4, <2>5, <2>6
<1>11. ASSUME NEW k \in LearnCalls, TestChosen(k) \/ CancelLearn(k)
       PROVE  ReadsAreVotes' /\ LearnedFromMajority'
    BY <1>4, <1>5, <1>11 DEF TestChosen, CancelLearn, learnerState
<1>12. ASSUME NEW s \in Subscribers, Subscribe(s) \/ Receive(s)
       PROVE  ReadsAreVotes' /\ LearnedFromMajority'
    BY <1>4, <1>5, <1>12 DEF Subscribe, Receive, learnerState, learnVars
<1>13. CASE ShutdownLearner
    BY <1>4, <1>5, <1>13 DEF ShutdownLearner, learnVars
<1> QED
    BY <1>6, <1>7, <1>8, <1>9, <1>10, <1>11, <1>12, <1>13
    DEF LearnerNext, LearnerStep, LearnStep, allVars

\* What is learned was accepted by a majority of the learner's acceptors, for any
\* lists of the proposers and any values, nil among them (paxos.go:312).
THEOREM LearnedByMajority ==
    ASSUME DistinctAcceptors
    PROVE  LearnerSpec => []LearnedFromMajority
<1>1. LearnerInit => LearnedInv
    BY LearnerTypeInit, InvInit DEF LearnerInit, IInv, LearnedInv, ReadsAreVotes, LearnedFromMajority
<1>2. LearnedInv => LearnedFromMajority
    BY DEF LearnedInv
<1> QED  BY <1>1, <1>2, LearnedInvStep, PTL DEF LearnerSpec
-----------------------------------------------------------------------------
(***************************************************************************)
(* A scan that begins after a value was chosen.                            *)
(***************************************************************************)

\* The learner was given the acceptors of the proposers, each once.
PollsAll == DistinctAcceptors /\ ToSet(LearnerAcceptors) = Acceptors

\* The acceptors Q have voted for v, in one proposal.
Took(Q, v) == \E w \in votes : w.val = v /\ Q \subseteq Voters(w.id, v)

\* Those of Q that call k has asked had v.
HeardFrom(k, Q, v) == \A i \in DOMAIN read[k] : LearnerAcceptors[i] \in Q => read[k][i] = v

\* A majority has taken v, and call k is about to scan, has v from all of them that it
\* has asked, or has returned v (or its send has ended the program).
WillLearn(k, v) ==
    \E Q \in Majorities :
        /\ Took(Q, v)
        /\ \/ lpc[k] \in {"lock", "panicked"}
           \/ lpc[k] = "scan" /\ HeardFrom(k, Q, v)
           \/ lpc[k] = "returned" /\ learned[k] = v

\* Such a majority holds v, and v is a value.
LEMMA TakersHold ==
    ASSUME CommonAcceptors, NoNilProposed, IInv, NEW Q \in Majorities, NEW v, Took(Q, v)
    PROVE  /\ v \in Values
           /\ \A a \in Q : a \in Acceptors /\ acceptedID[a].Round > 0 /\ acceptedVal[a] = v
<1>1. PICK w \in votes : w.val = v /\ Q \subseteq Voters(w.id, v)
    BY DEF Took
<1>2. w.id.Proposer \in Proposers /\ Voters(w.id, v) \subseteq Acceptors
    BY <1>1, VoteIDs, ConstantTypes DEF Voters
<1>3. Q \subseteq Acceptors /\ Cardinality(Q) >= Cardinality(Acceptors) \div 2 + 1
    BY DEF Majorities
<1>4. /\ IsFiniteSet(Voters(w.id, v)) /\ Cardinality(Q) <= Cardinality(Voters(w.id, v))
      /\ Cardinality(Q) \in Nat /\ Cardinality(Voters(w.id, v)) \in Nat /\ Cardinality(Acceptors) \in Nat
    BY <1>1, <1>2, <1>3, AcceptorsAssumption, FS_Subset, FS_CardinalityType
<1>5. Voters(w.id, v) \in Majorities
    BY <1>2, <1>3, <1>4 DEF Majorities
<1>6. v \in Values
    BY <1>1, CallsAssumption DEF IInv, OneValuePerProposal, Proposals, NoNilProposed, NilOrValue
<1> QED  BY <1>1, <1>3, <1>5, <1>6, VotersHold

\* A scan that has heard v from a majority counts it, and no other value.
LEMMA HeardIsCounted ==
    ASSUME PollsAll, LearnerTypeOK, NEW k \in LearnCalls, ScanDone(k),
           NEW Q \in Majorities, NEW v \in Values, HeardFrom(k, Q, v)
    PROVE  Counted(k) = {v}
<1> DEFINE N == Len(LearnerAcceptors)
           I(u) == {i \in DOMAIN read[k] : read[k][i] = u}
           f == [a \in Q |-> CHOOSE i \in DOMAIN LearnerAcceptors : LearnerAcceptors[i] = a]
<1>1. read[k] \in Seq(NilOrValue) /\ Len(read[k]) = N /\ N \in Nat /\ DOMAIN read[k] = 1..N
    BY LearnerAssumption DEF ScanDone, LearnerTypeOK
<1>2. DOMAIN LearnerAcceptors = 1..N /\ LearnerAcceptors \in [1..N -> Acceptors]
    BY LearnerAssumption
<1>3. IsFiniteSet(1..N) /\ Cardinality(1..N) = N
    <2>1. ASSUME NEW n \in Nat PROVE IsFiniteSet(1..n) /\ Cardinality(1..n) = n
        <3>1. IsFiniteSet(1..n) /\ Cardinality(1..n) = IF 1 > n THEN 0 ELSE n - 1 + 1
            BY FS_Interval
        <3> QED  BY <3>1
    <2> QED  BY <1>1, <2>1
<1>4. N <= Cardinality(Acceptors) /\ Cardinality(Acceptors) \in Nat
    <2>1. LearnerAcceptors \in Injection(1..N, Acceptors)
        BY <1>2 DEF PollsAll, DistinctAcceptors, Injection
    <2> QED  BY <2>1, <1>3, AcceptorsAssumption, FS_Injection, FS_CardinalityType
<1>5. \A u : IsFiniteSet(I(u)) /\ Cardinality(I(u)) \in Nat
    <2>1. \A u : I(u) \subseteq 1..N  BY <1>1
    <2> QED  BY <2>1, <1>3, FS_Subset, FS_CardinalityType
<1>6. Cardinality(Q) <= Cardinality(I(v))
    <2>1. \A a \in Q : f[a] \in DOMAIN LearnerAcceptors /\ LearnerAcceptors[f[a]] = a
        BY <1>2 DEF Majorities, PollsAll, ToSet
    <2>2. \A a \in Q : f[a] \in I(v)
        BY <1>1, <1>2, <2>1 DEF HeardFrom
    <2>3. f \in Injection(Q, I(v))
        <3>1. f \in [Q -> I(v)]  BY <2>2
        <3> HIDE DEF f, I
        <3> QED  BY <2>1, <3>1 DEF Injection, IsInjective
    <2> HIDE DEF f, I
    <2> QED  BY <1>5, <2>3, FS_Injection
<1>7. Cardinality(I(v)) >= N \div 2 + 1
    <2>1. Cardinality(Q) >= Cardinality(Acceptors) \div 2 + 1
        BY DEF Majorities
    <2>2. Cardinality(Q) \in Nat
        BY AcceptorsAssumption, FS_Subset, FS_CardinalityType DEF Majorities
    <2> HIDE DEF I, N
    <2> QED  BY <1>1, <1>4, <1>5, <1>6, <2>1, <2>2
<1>8. ASSUME NEW u, u # v, Cardinality(I(u)) >= N \div 2 + 1 PROVE FALSE
    <2>1. I(u) \cap I(v) = {} /\ I(u) \cup I(v) \subseteq 1..N
        BY <1>1, <1>8
    <2>2. Cardinality(I(u) \cup I(v)) <= N
        BY <1>3, <2>1, FS_Subset
    <2> HIDE DEF I
    <2>3. Cardinality(I(u) \cup I(v)) = Cardinality(I(u)) + Cardinality(I(v))
        <3>1. Cardinality(I(u) \cup I(v)) = Cardinality(I(u)) + Cardinality(I(v)) - Cardinality(I(u) \cap I(v))
            BY <1>5, FS_Union
        <3>2. Cardinality(I(u) \cap I(v)) = 0
            BY <2>1, FS_EmptySet
        <3> QED  BY <1>5, <3>1, <3>2
    <2> HIDE DEF N
    <2> QED  BY <1>1, <1>5, <1>7, <1>8, <2>2, <2>3
<1>9. \A u \in Values : u \in Counted(k) <=> Cardinality(I(u)) >= N \div 2 + 1
    BY DEF Counted
<1> HIDE DEF I, N
<1>10. Counted(k) \subseteq Values  BY DEF Counted
<1> QED  BY <1>7, <1>8, <1>9, <1>10

\* What a majority has taken it goes on having taken.
LEMMA TookStays ==
    ASSUME TypeOK, [LearnerNext]_allVars, NEW Q, NEW v, Took(Q, v)
    PROVE  Took(Q, v)'
<1>1. votes \subseteq votes'
    BY StepOfPaxos, Monotone
<1>2. PICK w \in votes : w.val = v /\ Q \subseteq Voters(w.id, v)
    BY DEF Took
<1>3. Voters(w.id, v) \subseteq Voters(w.id, v)'
    BY <1>1 DEF Voters
<1> QED  BY <1>1, <1>2, <1>3 DEF Took

\* No step takes a call out of that state, whatever is proposed and learned meanwhile.
LEMMA WillLearnStep ==
    ASSUME CommonAcceptors, NoNilProposed, PollsAll, TypeInv, IInv, [LearnerNext]_allVars,
           NEW k \in LearnCalls, NEW v, WillLearn(k, v)
    PROVE  WillLearn(k, v)'
<1>1. PICK Q \in Majorities :
        /\ Took(Q, v)
        /\ \/ lpc[k] \in {"lock", "panicked"}
           \/ lpc[k] = "scan" /\ HeardFrom(k, Q, v)
           \/ lpc[k] = "returned" /\ learned[k] = v
    BY DEF WillLearn
<1>2. TypeOK /\ LearnerTypeOK  BY DEF TypeInv
<1>3. Q \in Majorities' /\ Took(Q, v)'
    BY <1>1, <1>2, TookStays DEF Majorities
<1>4. ASSUME \/ lpc'[k] \in {"lock", "panicked"}
             \/ lpc'[k] = "scan" /\ \A i \in DOMAIN read'[k] : LearnerAcceptors[i] \in Q => read'[k][i] = v
             \/ lpc'[k] = "returned" /\ learned'[k] = v
      PROVE  WillLearn(k, v)'
    BY <1>3, <1>4 DEF WillLearn, HeardFrom
<1>5. ASSUME lpc'[k] = lpc[k], read'[k] = read[k], learned'[k] = learned[k] PROVE WillLearn(k, v)'
    BY <1>1, <1>4, <1>5 DEF HeardFrom
<1>6. CASE UNCHANGED learnVars
    BY <1>5, <1>6 DEF learnVars
<1>7. ASSUME NEW j \in LearnCalls, j # k, LearnStep(j) \/ CancelLearn(j) PROVE WillLearn(k, v)'
    <2>1. lpc'[k] = lpc[k] /\ learned'[k] = learned[k]
        BY <1>2, <1>7
        DEF LearnStep, TestChosen, LockForScan, ReadState, LearnValue, ScanAgain, CancelLearn, LearnerTypeOK
    <2>2. read'[k] = read[k]
        BY <1>2, <1>7
        DEF LearnStep, TestChosen, LockForScan, ReadState, LearnValue, ScanAgain, CancelLearn, LearnerTypeOK
    <2> QED  BY <1>5, <2>1, <2>2
<1>8. CASE TestChosen(k) \/ CancelLearn(k)
    BY <1>1, <1>8 DEF TestChosen, CancelLearn
<1>9. CASE LockForScan(k)
    <2>1. read'[k] = <<>> /\ lpc'[k] = "scan"
        BY <1>2, <1>9 DEF LockForScan, LearnerTypeOK
    <2> QED  BY <1>4, <2>1
<1>10. CASE ReadState(k)
    <2> DEFINE n == Len(read[k]) + 1
               a == LearnerAcceptors[n]
               u == IF acceptedID[a].Round > 0 THEN acceptedVal[a] ELSE Nil
    <2>1. read[k] \in Seq(NilOrValue) /\ lpc'[k] = "scan" /\ HeardFrom(k, Q, v)
        BY <1>1, <1>2, <1>10 DEF ReadState, LearnerTypeOK
    <2>2. a \in Q => u = v
        BY <1>1, TakersHold
    <2>3. read'[k] = Append(read[k], u)
        BY <1>2, <1>10 DEF ReadState, LearnerTypeOK
    <2> HIDE DEF u
    <2>4. \A i \in DOMAIN read'[k] :
             \/ i \in DOMAIN read[k] /\ read'[k][i] = read[k][i]
             \/ i = n /\ read'[k][i] = u
        BY <2>1, <2>3
    <2>5. \A i \in DOMAIN read'[k] : LearnerAcceptors[i] \in Q => read'[k][i] = v
        BY <2>1, <2>2, <2>4 DEF HeardFrom
    <2> QED  BY <1>4, <2>1, <2>5
<1>11. ASSUME ScanDone(k) PROVE Counted(k) = {v}
    <2>1. HeardFrom(k, Q, v)
        BY <1>1, <1>11 DEF ScanDone
    <2>2. v \in Values
        BY <1>1, TakersHold
    <2> QED  BY <1>2, <1>11, <2>1, <2>2, HeardIsCounted
<1>12. CASE LearnValue(k)
    <2>1. PICK u \in Counted(k) :
            \/ lpc' = [lpc EXCEPT ![k] = "panicked"]
            \/ lpc' = [lpc EXCEPT ![k] = "returned"] /\ learned' = [learned EXCEPT ![k] = u]
        BY <1>12 DEF LearnValue
    <2>2. u = v
        BY <1>11, <1>12, <2>1 DEF LearnValue
    <2>3. lpc'[k] = "panicked" \/ (lpc'[k] = "returned" /\ learned'[k] = v)
        BY <1>2, <2>1, <2>2 DEF LearnerTypeOK
    <2> QED  BY <1>4, <2>3
<1>13. CASE ScanAgain(k)
    BY <1>11, <1>13 DEF ScanAgain
<1>14. ASSUME NEW s \in Subscribers, Subscribe(s) \/ Receive(s) PROVE WillLearn(k, v)'
    BY <1>6, <1>14 DEF Subscribe, Receive
<1>15. CASE ShutdownLearner
    BY <1>6, <1>15 DEF ShutdownLearner
<1> QED
    BY <1>6, <1>7, <1>8, <1>9, <1>10, <1>12, <1>13, <1>14, <1>15
    DEF LearnerNext, LearnerStep, LearnStep, allVars, learnerVars

\* A call that scans has the write lock, and nobody returns before a value is learned.
ScanHasLock ==
    \A k \in LearnCalls :
        /\ lpc[k] = "scan" => writer = {k}
        /\ lpc[k] = "returned" => chosen

LEMMA ScanHasLockStep == LearnerTypeOK /\ ScanHasLock /\ [LearnerNext]_allVars => ScanHasLock'
<1> SUFFICES ASSUME LearnerTypeOK, ScanHasLock, [LearnerNext]_allVars PROVE ScanHasLock'
    OBVIOUS
<1>1. CASE UNCHANGED learnerVars
    BY <1>1 DEF ScanHasLock, learnerVars, learnerState, learnVars
<1>2. ASSUME NEW k \in LearnCalls, TestChosen(k) \/ LockForScan(k) PROVE ScanHasLock'
    BY <1>2 DEF TestChosen, LockForScan, learnerState, ScanHasLock, LearnerTypeOK
<1>3. ASSUME NEW k \in LearnCalls, ReadState(k) \/ CancelLearn(k) PROVE ScanHasLock'
    BY <1>3 DEF ReadState, CancelLearn, learnerState, ScanHasLock, LearnerTypeOK
<1>4. ASSUME NEW k \in LearnCalls, LearnValue(k) PROVE ScanHasLock'
    <2>1. /\ lpc[k] = "scan" /\ chosen'
          /\ \/ lpc' = [lpc EXCEPT ![k] = "panicked"] /\ writer' = writer
             \/ lpc' = [lpc EXCEPT ![k] = "returned"] /\ writer' = {}
        BY <1>4 DEF LearnValue, ScanDone
    <2> QED  BY <2>1 DEF ScanHasLock, LearnerTypeOK
<1>5. ASSUME NEW k \in LearnCalls, ScanAgain(k) PROVE ScanHasLock'
    BY <1>5 DEF ScanAgain, ScanDone, ScanHasLock, LearnerTypeOK
<1>6. ASSUME NEW s \in Subscribers, Subscribe(s) \/ Receive(s) PROVE ScanHasLock'
    <2>1. UNCHANGED <<chosen, writer, lpc>>
        BY <1>6 DEF Subscribe, Receive, learnerState, learnVars
    <2> QED  BY <2>1 DEF ScanHasLock
<1>7. CASE ShutdownLearner
    BY <1>7 DEF ShutdownLearner, learnVars, ScanHasLock
<1> QED
    BY <1>1, <1>2, <1>3, <1>4, <1>5, <1>6, <1>7
    DEF LearnerNext, LearnerStep, LearnStep, allVars, learnerVars

\* All will learn v: a majority has taken it, nothing else has been learned, and every
\* call that is past its test of chosen is in the state of WillLearn.
PastTest(k) == lpc[k] \in {"lock", "scan", "returned", "panicked"}

AllWillLearn(v) ==
    /\ \E Q \in Majorities : Took(Q, v)
    /\ chosen /\ ~Panicked => chosenValue = v
    /\ \A k \in LearnCalls : PastTest(k) => WillLearn(k, v)

\* No step makes a call learn anything else.
LEMMA AllWillLearnStep ==
    ASSUME CommonAcceptors, NoNilProposed, PollsAll, TypeInv, IInv, [LearnerNext]_allVars,
           NEW v, AllWillLearn(v)
    PROVE  AllWillLearn(v)'
<1>1. PICK Q \in Majorities : Took(Q, v)
    BY DEF AllWillLearn
<1>2. TypeOK /\ LearnerTypeOK  BY DEF TypeInv
<1>3. Q \in Majorities' /\ Took(Q, v)'
    BY <1>1, <1>2, TookStays DEF Majorities
<1>4. \A k \in LearnCalls : PastTest(k) => WillLearn(k, v)'
    BY WillLearnStep DEF AllWillLearn
<1>5. ASSUME NEW k \in LearnCalls, ~PastTest(k), PastTest(k)' PROVE WillLearn(k, v)'
    <2>1. TestChosen(k) /\ ~Panicked
        <3>1. lpc'[k] # lpc[k]
            BY <1>5 DEF PastTest
        <3>2. ~UNCHANGED learnVars
            BY <3>1 DEF learnVars
        <3>3. PICK j \in LearnCalls : LearnStep(j) \/ CancelLearn(j)
            BY <3>2
            DEF LearnerNext, LearnerStep, Subscribe, Receive, ShutdownLearner, allVars, learnerVars
        <3>4. j = k
            BY <1>2, <3>1, <3>3
            DEF LearnStep, TestChosen, LockForScan, ReadState, LearnValue, ScanAgain, CancelLearn, LearnerTypeOK
        <3>5. LearnStep(k) \/ CancelLearn(k)
            BY <3>3, <3>4
        <3>6. lpc[k] \notin {"lock", "scan"} /\ lpc'[k] # "cancelled"
            BY <1>5 DEF PastTest
        <3>7. TestChosen(k)
            BY <1>2, <3>5, <3>6
            DEF LearnStep, LockForScan, ReadState, LearnValue, ScanDone, ScanAgain, CancelLearn, LearnerTypeOK
        <3>8. ~Panicked
            BY <3>2 DEF LearnerNext, allVars, learnerVars
        <3> QED  BY <3>7, <3>8
    <2>2. CASE chosen
        <3>1. lpc'[k] = "returned" /\ learned'[k] = v
            BY <1>2, <2>1, <2>2 DEF TestChosen, AllWillLearn, LearnerTypeOK
        <3> QED  BY <1>3, <3>1 DEF WillLearn
    <2>3. CASE ~chosen
        <3>1. lpc'[k] \in {"tick", "lock"}
            BY <1>2, <2>1, <2>3 DEF TestChosen, LearnerTypeOK
        <3>2. lpc'[k] = "lock"
            BY <1>5, <3>1 DEF PastTest
        <3> QED  BY <1>3, <3>2 DEF WillLearn
    <2> QED  BY <2>2, <2>3
<1>6. ASSUME chosen', ~Panicked' PROVE chosenValue' = v
    <2>1. ~Panicked \/ UNCHANGED allVars
        BY DEF LearnerNext
    <2>2. CASE UNCHANGED <<chosen, chosenValue>>
        <3>1. CASE ~Panicked
            BY <1>6, <2>2, <3>1 DEF AllWillLearn
        <3>2. CASE UNCHANGED allVars
            <4>1. ~Panicked
                BY <1>6, <3>2 DEF allVars, learnerVars, learnVars, Panicked
            <4> QED  BY <1>6, <2>2, <4>1 DEF AllWillLearn
        <3> QED  BY <2>1, <3>1, <3>2
    <2>3. CASE ~UNCHANGED <<chosen, chosenValue>>
        <3>1. PICK k \in LearnCalls : LearnValue(k)
            BY <2>3
            DEF LearnerNext, LearnerStep, LearnStep, TestChosen, LockForScan, ReadState, ScanAgain,
                CancelLearn, Subscribe, Receive, ShutdownLearner, learnerState, allVars, learnerVars
        <3>2. PICK u \in Counted(k) :
                /\ chosenValue' = u
                /\ \/ lpc' = [lpc EXCEPT ![k] = "panicked"]
                   \/ lpc' = [lpc EXCEPT ![k] = "returned"] /\ learned' = [learned EXCEPT ![k] = u]
            BY <3>1 DEF LearnValue
        <3>3. lpc'[k] = "returned" /\ learned'[k] = u
            BY <1>2, <1>6, <3>2 DEF Panicked, LearnerTypeOK
        <3>4. WillLearn(k, v)'
            BY <1>4, <3>1 DEF LearnValue, ScanDone, PastTest
        <3> QED  BY <3>2, <3>3, <3>4 DEF WillLearn
    <2> QED  BY <2>2, <2>3
<1>7. \A k \in LearnCalls : PastTest(k)' => WillLearn(k, v)'
    BY <1>4, <1>5
<1> QED  BY <1>3, <1>6, <1>7 DEF AllWillLearn

\* A Learn whose scans are all ahead when a value has been chosen returns that value,
\* however its answers interleave with further rounds and with other calls of Learn.  One
\* that is at the write lock does so even if another call has learned a different value
\* before, as it does not look at chosen again (paxos.go:309).
THEOREM LateLearnIsRight ==
    ASSUME CommonAcceptors, NoNilProposed, PollsAll, NEW k \in LearnCalls, NEW v \in NilOrValue
    PROVE  LearnerSpec => [](Chosen(v) /\ ScansAhead(k) => [](lpc[k] = "returned" => learned[k] = v))
<1> DEFINE Ready == Chosen(v) /\ ScansAhead(k)
           Right == lpc[k] = "returned" => learned[k] = v
           One == WillLearn(k, v)
           All == AllWillLearn(v)
<1>1. LearnerSpec => []IInv
    BY LearnerImplementsPaxos, InvariantHolds, PTL
<1>2. LearnerSpec => []TypeInv
    BY LearnerTypeInit, LearnerTypeStep, PTL DEF LearnerSpec
<1>3. LearnerSpec => []ScanHasLock
    <2>1. LearnerInit => ScanHasLock
        BY DEF LearnerInit, ScanHasLock
    <2>2. TypeInv => LearnerTypeOK
        BY DEF TypeInv
    <2> QED  BY <1>2, <2>1, <2>2, ScanHasLockStep, PTL DEF LearnerSpec
<1>4. IInv /\ ScanHasLock /\ Ready => One \/ All
    <2> SUFFICES ASSUME IInv, ScanHasLock, Chosen(v), ScansAhead(k)
                 PROVE  WillLearn(k, v) \/ AllWillLearn(v)
        OBVIOUS
    <2>1. PICK w \in votes : w.val = v /\ Cardinality(Voters(w.id, v)) >= QuorumSize(w.id.Proposer)
        BY DEF Chosen
    <2>2. Voters(w.id, v) \in Majorities
        BY <2>1, QuorumIsMajority
    <2>3. PICK Q \in Majorities : Took(Q, v)
        BY <2>1, <2>2 DEF Took
    <2>4. CASE lpc[k] = "lock"
        BY <2>3, <2>4 DEF WillLearn
    <2>5. CASE ~chosen /\ writer = {}
        <3>1. ASSUME NEW j \in LearnCalls, PastTest(j) PROVE WillLearn(j, v)
            <4>1. lpc[j] \in {"lock", "panicked"}
                BY <2>5, <3>1 DEF PastTest, ScanHasLock
            <4> QED  BY <2>3, <4>1 DEF WillLearn
        <3> QED  BY <2>3, <2>5, <3>1 DEF AllWillLearn
    <2> QED  BY <2>4, <2>5 DEF ScansAhead
<1>5. One /\ IInv /\ TypeInv /\ [LearnerNext]_allVars => One'
    BY WillLearnStep
<1>6. All /\ IInv /\ TypeInv /\ [LearnerNext]_allVars => All'
    BY AllWillLearnStep
<1>7. One \/ All => Right
    BY DEF WillLearn, AllWillLearn, PastTest
<1> HIDE DEF Ready, Right, One, All
<1>8. LearnerSpec => [](Ready => []Right)
    BY <1>1, <1>2, <1>3, <1>4, <1>5, <1>6, <1>7, PTL DEF LearnerSpec
<1> QED  BY <1>8 DEF Ready, Right
-----------------------------------------------------------------------------
(***************************************************************************)
(* Subscribers.                                                            *)
(***************************************************************************)

\* What is received is told as much as what waits in the channel.
LEMMA ToSetOfConcat ==
    ASSUME NEW S, NEW p \in Seq(S), NEW q \in Seq(S)
    PROVE  ToSet(p \o q) = ToSet(p) \cup ToSet(q)
<1>1. /\ Len(p) \in Nat /\ Len(q) \in Nat /\ Len(p \o q) = Len(p) + Len(q)
      /\ DOMAIN p = 1..Len(p) /\ DOMAIN q = 1..Len(q) /\ DOMAIN (p \o q) = 1..(Len(p) + Len(q))
    OBVIOUS
<1>2. \A i \in 1..Len(p) : (p \o q)[i] = p[i]
    OBVIOUS
<1>3. \A i \in 1..Len(q) : (p \o q)[Len(p) + i] = q[i]
    OBVIOUS
<1>4. \A i \in 1..(Len(p) + Len(q)) : i \in 1..Len(p) \/ (i - Len(p) \in 1..Len(q) /\ i = Len(p) + (i - Len(p)))
    BY <1>1
<1>5. ASSUME NEW v \in ToSet(p \o q) PROVE v \in ToSet(p) \cup ToSet(q)
    <2>1. PICK i \in 1..(Len(p) + Len(q)) : v = (p \o q)[i]
        BY <1>1, <1>5 DEF ToSet
    <2>2. CASE i \in 1..Len(p)
        BY <1>1, <1>2, <2>1, <2>2 DEF ToSet
    <2>3. CASE i - Len(p) \in 1..Len(q) /\ i = Len(p) + (i - Len(p))
        <3> DEFINE j == i - Len(p)
        <3>1. v = q[j] /\ j \in DOMAIN q
            BY <1>1, <1>3, <2>1, <2>3
        <3> QED  BY <3>1 DEF ToSet
    <2> QED  BY <1>4, <2>2, <2>3
<1>6. ASSUME NEW v \in ToSet(p) PROVE v \in ToSet(p \o q)
    <2>1. PICK i \in 1..Len(p) : v = p[i]
        BY <1>1, <1>6 DEF ToSet
    <2> QED  BY <1>1, <1>2, <2>1 DEF ToSet
<1>7. ASSUME NEW v \in ToSet(q) PROVE v \in ToSet(p \o q)
    <2>1. PICK i \in 1..Len(q) : v = q[i]
        BY <1>1, <1>7 DEF ToSet
    <2>2. Len(p) + i \in DOMAIN (p \o q)
        BY <1>1
    <2> QED  BY <1>3, <2>1, <2>2 DEF ToSet
<1> QED  BY <1>5, <1>6, <1>7

\* A call of Learn that has returned stays so, with its value.
LEMMA ReturnsStay ==
    ASSUME LearnerTypeOK, [LearnerNext]_allVars, NEW v, Returned(lpc, learned, v)
    PROVE  Returned(lpc', learned', v)
<1>1. PICK k \in LearnCalls : lpc[k] = "returned" /\ learned[k] = v
    BY DEF Returned
<1>2. SUFFICES lpc'[k] = "returned" /\ learned'[k] = v
    BY DEF Returned
<1>3. CASE UNCHANGED learnVars
    BY <1>1, <1>3 DEF learnVars
<1>4. ASSUME NEW j \in LearnCalls, LearnStep(j) \/ CancelLearn(j)
      PROVE  lpc'[k] = "returned" /\ learned'[k] = v
    <2>1. lpc[j] # "returned" /\ j # k
        BY <1>1, <1>4
        DEF LearnStep, TestChosen, LockForScan, ReadState, LearnValue, ScanDone, ScanAgain, CancelLearn
    <2>2. lpc'[k] = lpc[k]
        BY <1>4, <2>1
        DEF LearnStep, TestChosen, LockForScan, ReadState, LearnValue, ScanAgain, CancelLearn, LearnerTypeOK
    <2>3. learned'[k] = learned[k]
        BY <1>4, <2>1
        DEF LearnStep, TestChosen, LockForScan, ReadState, LearnValue, ScanAgain, CancelLearn, LearnerTypeOK
    <2> QED  BY <1>1, <2>2, <2>3
<1>5. ASSUME NEW s \in Subscribers, Subscribe(s) \/ Receive(s)
      PROVE  lpc'[k] = "returned" /\ learned'[k] = v
    BY <1>3, <1>5 DEF Subscribe, Receive
<1>6. CASE ShutdownLearner
    BY <1>3, <1>6 DEF ShutdownLearner
<1> QED
    BY <1>3, <1>4, <1>5, <1>6 DEF LearnerNext, LearnerStep, allVars, learnerVars

\* Every step keeps the listeners of a learner that has learned told.
LEMMA ListenerInvStep == ListenerInv /\ [LearnerNext]_allVars => ListenerInv'
<1> SUFFICES ASSUME ListenerInv, [LearnerNext]_allVars
             PROVE  ChosenIsReturned' /\ ToldIsReturned' /\ NoListenerMissed'
    BY LearnerTypeStep DEF ListenerInv
<1> DEFINE R(v) == Returned(lpc', learned', v)
           T(s) == ToSet(received'[s]) \cup ToSet(box'[s])
           Goal == ChosenIsReturned' /\ ToldIsReturned' /\ NoListenerMissed'
<1>1. /\ LearnerTypeOK /\ ChosenIsValue
      /\ chosen /\ ~Panicked => Returned(lpc, learned, chosenValue)
      /\ \A s \in Subscribers : \A v \in Told(s) : R(v)
      /\ listeners \subseteq Subscribers
    BY ReturnsStay DEF ListenerInv, TypeInv, ChosenIsReturned, ToldIsReturned, LearnerTypeOK
<1>2. chosen /\ ~Panicked => R(chosenValue)
    BY <1>1, ReturnsStay
<1>3. chosen /\ ~Panicked => \A s \in listeners : Told(s) # {}
    BY DEF ListenerInv, NoListenerMissed
\* It is enough that what is learned and told has been returned, and listeners are told.
<1>4. ASSUME chosen' /\ ~Panicked' => R(chosenValue'),
             \A s \in Subscribers : \A v \in T(s) : R(v),
             chosen' /\ ~Panicked' => \A s \in listeners' : s \in Subscribers /\ T(s) # {}
      PROVE  Goal
    <2>1. ChosenIsReturned'
        BY <1>4 DEF ChosenIsReturned
    <2>2. ToldIsReturned'
        BY <1>4 DEF ToldIsReturned, Told
    <2>3. NoListenerMissed'
        <3> SUFFICES ASSUME chosen', ~Panicked', NEW s \in listeners'
                     PROVE  \/ chosenValue' \in T(s)
                            \/ \E k \in LearnCalls :
                                 lpc'[k] = "returned" /\ learned'[k] # chosenValue' /\ learned'[k] \in T(s)
            BY DEF NoListenerMissed, Told
        <3>1. PICK u \in T(s) : R(u)
            BY <1>4
        <3> HIDE DEF T
        <3> QED  BY <3>1 DEF Returned
    <2> QED  BY <2>1, <2>2, <2>3
<1>5. ASSUME ~Panicked, UNCHANGED <<chosen, chosenValue, listeners, box, received>> PROVE Goal
    <2>1. \A s : T(s) = Told(s)
        BY <1>5 DEF Told
    <2> HIDE DEF T, R, Goal
    <2> QED  BY <1>1, <1>2, <1>3, <1>4, <1>5, <2>1
<1>6. CASE UNCHANGED allVars
    BY <1>6 DEF allVars, learnerVars, learnerState, learnVars, listenerVars, ListenerInv, Told,
                ChosenIsReturned, ToldIsReturned, NoListenerMissed, Panicked, Returned
<1>7. ASSUME ~Panicked, NEW k \in LearnCalls, LearnValue(k) PROVE Goal
    <2>1. PICK v \in Counted(k) :
            /\ chosenValue' = v
            /\ \/ lpc' = [lpc EXCEPT ![k] = "panicked"] /\ box' = box
               \/ /\ lpc' = [lpc EXCEPT ![k] = "returned"]
                  /\ learned' = [learned EXCEPT ![k] = v]
                  /\ box' = Offer(v)
        BY <1>7 DEF LearnValue
    <2>2. UNCHANGED <<listeners, received>>
        BY <1>7 DEF LearnValue
    <2>3. CASE lpc' = [lpc EXCEPT ![k] = "panicked"] /\ box' = box
        <3>1. Panicked'
            BY <1>1, <2>3 DEF Panicked, LearnerTypeOK
        <3>2. \A s : T(s) = Told(s)
            BY <2>2, <2>3 DEF Told
        <3> HIDE DEF T, R, Goal
        <3> QED  BY <1>1, <1>4, <3>1, <3>2
    <2>4. CASE lpc' = [lpc EXCEPT ![k] = "returned"] /\ learned' = [learned EXCEPT ![k] = v] /\ box' = Offer(v)
        <3>1. R(v)
            BY <1>1, <2>4 DEF Returned, LearnerTypeOK
        <3>2. \A s \in Subscribers :
                 \/ s \in listeners /\ box'[s] = <<v>>
                 \/ box'[s] = box[s] /\ (s \in listeners => box[s] # <<>>)
            BY <2>4 DEF Offer
        <3>3. ASSUME NEW s \in Subscribers
              PROVE  /\ \A u \in T(s) : R(u)
                     /\ s \in listeners => T(s) # {}
            <4>1. CASE s \in listeners /\ box'[s] = <<v>>
                <5>1. ToSet(box'[s]) = {v}
                    BY <4>1 DEF ToSet
                <5>2. T(s) \subseteq Told(s) \cup {v} /\ v \in T(s)
                    BY <2>2, <5>1 DEF Told
                <5> HIDE DEF T, R
                <5> QED  BY <1>1, <3>1, <5>2
            <4>2. CASE box'[s] = box[s] /\ (s \in listeners => box[s] # <<>>)
                <5>1. T(s) = Told(s)
                    BY <2>2, <4>2 DEF Told
                <5>2. s \in listeners => T(s) # {}
                    <6>1. box[s] \in Seq(Values)
                        BY <1>1 DEF LearnerTypeOK
                    <6> QED  BY <4>2, <6>1 DEF ToSet
                <5> HIDE DEF T, R
                <5> QED  BY <1>1, <5>1, <5>2
            <4> QED  BY <3>2, <4>1, <4>2
        <3> HIDE DEF T, R, Goal
        <3> QED  BY <1>1, <1>4, <2>1, <2>2, <3>1, <3>3
    <2> QED  BY <2>1, <2>3, <2>4
<1>8. ASSUME ~Panicked, NEW t \in Subscribers, Subscribe(t) PROVE Goal
    <2> DEFINE b == IF chosen THEN <<chosenValue>> ELSE <<>>
    <2>1. UNCHANGED <<chosen, chosenValue, lpc, received>> /\ listeners' = listeners \cup {t}
        BY <1>8 DEF Subscribe, learnerState, learnVars
    <2>2. box' = [box EXCEPT ![t] = b]
        BY <1>8 DEF Subscribe
    <2>3. ToSet(b) = IF chosen THEN {chosenValue} ELSE {}
        BY DEF ToSet
    <2>4. box'[t] = b /\ \A s \in Subscribers : s # t => box'[s] = box[s]
        <3> HIDE DEF b
        <3> QED  BY <1>1, <2>2 DEF LearnerTypeOK
    <2> HIDE DEF b
    <2>5. \A s \in Subscribers : s # t => T(s) = Told(s)
        BY <2>1, <2>4 DEF Told
    <2>6. T(t) \subseteq Told(t) \cup ToSet(b) /\ ToSet(b) \subseteq T(t)
        BY <2>1, <2>4 DEF Told
    <2> HIDE DEF T, R, Goal
    <2>7. ASSUME NEW s \in Subscribers
          PROVE  /\ \A u \in T(s) : R(u)
                 /\ chosen /\ s \in listeners' => T(s) # {}
        <3>1. CASE s = t
            BY <1>1, <1>2, <1>8, <2>3, <2>6, <3>1
        <3>2. CASE s # t
            BY <1>1, <1>3, <1>8, <2>1, <2>5, <3>2
        <3> QED  BY <3>1, <3>2
    <2> QED  BY <1>1, <1>2, <1>4, <1>8, <2>1, <2>7
<1>9. ASSUME ~Panicked, NEW t \in Subscribers, Receive(t) PROVE Goal
    <2>1. UNCHANGED <<chosen, chosenValue, listeners>>
        BY <1>9 DEF Receive, learnerState
    <2>2. received[t] \in Seq(Values) /\ box[t] \in Seq(Values)
        BY <1>1 DEF LearnerTypeOK
    <2>3. /\ received'[t] = received[t] \o box[t] /\ box'[t] = <<>>
          /\ \A s \in Subscribers : s # t => received'[s] = received[s] /\ box'[s] = box[s]
        BY <1>1, <1>9 DEF Receive, LearnerTypeOK
    <2>4. T(t) = Told(t)
        <3>1. ToSet(box'[t]) = {}
            BY <2>3 DEF ToSet
        <3>2. ToSet(received'[t]) = Told(t)
            BY <2>2, <2>3, ToSetOfConcat DEF Told
        <3> QED  BY <3>1, <3>2
    <2>5. \A s \in Subscribers : T(s) = Told(s)
        BY <2>3, <2>4 DEF Told
    <2> HIDE DEF T, R, Goal
    <2> QED  BY <1>1, <1>2, <1>3, <1>4, <1>9, <2>1, <2>5
<1>10. ASSUME ~Panicked, NEW k \in LearnCalls,
              TestChosen(k) \/ LockForScan(k) \/ ReadState(k) \/ ScanAgain(k) \/ CancelLearn(k)
       PROVE  Goal
    <2>1. UNCHANGED <<chosen, chosenValue, listeners, box, received>>
        BY <1>10 DEF TestChosen, LockForScan, ReadState, ScanAgain, CancelLearn, learnerState, listenerVars
    <2> HIDE DEF Goal
    <2> QED  BY <1>5, <1>10, <2>1
<1>11. ASSUME ~Panicked, ShutdownLearner \/ UNCHANGED learnerVars PROVE Goal
    <2>1. UNCHANGED <<chosen, chosenValue, listeners, box, received>>
        BY <1>11 DEF ShutdownLearner, learnerVars, learnerState, listenerVars
    <2> HIDE DEF Goal
    <2> QED  BY <1>5, <1>11, <2>1
<1> QED
    BY <1>6, <1>7, <1>8, <1>9, <1>10, <1>11 DEF LearnerNext, LearnerStep, LearnStep

\* Until the program panics a subscriber has the value learned in its channel or has
\* received it, whenever it subscribed, unless it was told a different one that another
\* call of Learn has returned (paxos.go:322, :343).
THEOREM ListenersServed == LearnerSpec => []NoListenerMissed
<1>1. ASSUME LearnerInit PROVE ListenerInv
    <2>1. TypeInv /\ ~chosen
        BY <1>1, LearnerTypeInit DEF LearnerInit
    <2>2. \A s \in Subscribers : Told(s) = {}
        BY <1>1 DEF LearnerInit, Told, ToSet
    <2> QED  BY <2>1, <2>2 DEF ListenerInv, ChosenIsReturned, ToldIsReturned, NoListenerMissed
<1>2. ListenerInv => NoListenerMissed
    BY DEF ListenerInv
<1> QED  BY <1>1, <1>2, ListenerInvStep, PTL DEF LearnerSpec
=============================================================================
