------------------------ MODULE RedlockClient_proofs -------------------------
(***************************************************************************)
(* Proofs about the demo client for any number of instances, clients,      *)
(* calls, failed commands and expiries: who may hold the lock together     *)
(* with another, who may pass the fencing test, and who owns a lock.       *)
(***************************************************************************)
EXTENDS RedlockClient, FiniteSetTheorems, TLAPS

\* A client has set locks, or tried to.
Locking(c) == pc[c] = "acquire" \/ Holds(c)

\* A call counts its locks only from the acquisition on, and holds by a quorum.
AcquiredInCall ==
    \A c \in Clients :
        /\ pc[c] \in {"idle", "max"} => acquired[c] = {}
        /\ Holds(c) => Cardinality(acquired[c]) >= quorum

\* What a client has acquired and not lost is in Redis under its name.
AcquiredIsThere ==
    \A c \in Clients : Locking(c) => \A i \in acquired[c] \ lost[c] : OwnersOn(i) = {c}

ExclusionInv == TypeOK /\ AcquiredInCall /\ AcquiredIsThere

\* Where a client has counted its lock the token stored is its own or a larger one.
TokensPublished ==
    \A c \in Clients : Locking(c) => \A i \in acquired[c] : tokenKey[i] >= token[c]

\* An overtaken client that has not met the larger token yet has still to read it.
WillNotice(c) ==
    errs[c] \/ maxToken[c] > token[c] \/ \E i \in todo[c] : tokenKey[i] > token[c]

OvertakenNotice ==
    \A c \in Clients : ahead[c] => pc[c] # "write" /\ (pc[c] = "check" => WillNotice(c))

FenceInv == TypeOK /\ AcquiredInCall /\ (lowered \/ (TokensPublished /\ OvertakenNotice))

\* Client c's call has been to instance i, and not yet to delete its lock there.
Owes(i, c) ==
    /\ pc[c] \in {"acquire", "publish", "held", "check", "write", "release", "unlock"}
    /\ pc[c] = "acquire" => i \notin todo[c]
    /\ pc[c] \in {"release", "unlock"} => i \in todo[c]

\* Until a command fails a lock in Redis stores the token of such a call.
KeyAwaitsItsCall(i, k) == k.token = token[k.by] /\ Owes(i, k.by)

OwnerInv == TypeOK /\ (faults = 0 => \A i \in Instances : \A k \in lockKey[i] : KeyAwaitsItsCall(i, k))
-----------------------------------------------------------------------------
LEMMA Constants ==
    /\ NumInstances \in Nat /\ NumInstances > 0
    /\ MaxLocks \in Nat /\ MaxFaults \in Nat /\ quorum \in Nat /\ quorum > 0
BY RedlockClientAssumption DEF quorum

\* Two quorums have an instance in common, and none is empty.
LEMMA QuorumsMeet ==
    ASSUME NEW P \in SUBSET Instances, Cardinality(P) >= quorum
    PROVE  /\ P # {}
           /\ \A Q \in SUBSET Instances : Cardinality(Q) >= quorum => P \cap Q # {}
<1>1. IsFiniteSet(Instances) /\ Cardinality(Instances) = NumInstances
    BY Constants, FS_Interval DEF Instances
<1>2. \A Q \in SUBSET Instances : Cardinality(Q) \in Nat
    BY <1>1, FS_Subset, FS_CardinalityType
<1>3. ASSUME NEW Q \in SUBSET Instances, Cardinality(Q) >= quorum PROVE P \cap Q # {}
    <2>1. Cardinality(P) + Cardinality(Q) > NumInstances
        BY <1>2, <1>3, Constants DEF quorum
    <2> QED  BY <1>1, <2>1, FS_MajoritiesIntersect
<1>4. P # {}
    BY <1>3
<1> QED  BY <1>3, <1>4

-----------------------------------------------------------------------------
(***************************************************************************)
(* Types.                                                                  *)
(***************************************************************************)

\* The parts the actions are built from keep the types.
LEMMA PartTypes ==
    ASSUME TypeOK, NEW c \in Clients
    PROVE  /\ \A s \in Steps : Begin(c, s) \/ GoTo(c, s) =>
                pc' \in [Clients -> Steps] /\ todo' \in [Clients -> SUBSET Instances]
           /\ \A i, x, y : Command(c, i, x, y) =>
                todo' \in [Clients -> SUBSET Instances] /\ faults' \in 0..MaxFaults
           /\ Return(c) => /\ pc' \in [Clients -> Steps] /\ todo' \in [Clients -> SUBSET Instances]
                           /\ token' \in [Clients -> Nat]
                           /\ acquired' \in [Clients -> SUBSET Instances]
           /\ ForgetMaxToken(c) => maxToken' \in [Clients -> Nat] /\ errs' \in [Clients -> BOOLEAN]
           /\ \A i \in Instances, S \in SUBSET Clients :
                LostOn(i, S) => lost' \in [Clients -> SUBSET Instances]
           /\ \A i \in Instances : SetToken(c, i) =>
                tokenKey' \in [Instances -> Nat] /\ lowered' \in BOOLEAN
<1> USE Constants DEF TypeOK
<1>1. \A s \in Steps : Begin(c, s) \/ GoTo(c, s) =>
        pc' \in [Clients -> Steps] /\ todo' \in [Clients -> SUBSET Instances]
    BY DEF Begin, GoTo
<1>2. \A i, x, y : Command(c, i, x, y) =>
        todo' \in [Clients -> SUBSET Instances] /\ faults' \in 0..MaxFaults
    BY DEF Command
<1>3. Return(c) => /\ pc' \in [Clients -> Steps] /\ todo' \in [Clients -> SUBSET Instances]
                   /\ token' \in [Clients -> Nat]
                   /\ acquired' \in [Clients -> SUBSET Instances]
    BY DEF Return, GoTo, Steps
<1>4. ForgetMaxToken(c) => maxToken' \in [Clients -> Nat] /\ errs' \in [Clients -> BOOLEAN]
    BY DEF ForgetMaxToken
<1>5. ASSUME NEW i \in Instances, NEW S, LostOn(i, S)
      PROVE  lost' \in [Clients -> SUBSET Instances]
    <2>1. \A d \in Clients : lost[d] \in SUBSET Instances /\ lost[d] \cup {i} \in SUBSET Instances
        OBVIOUS
    <2> QED  BY <1>5, <2>1 DEF LostOn
<1>6. \A i \in Instances : SetToken(c, i) => tokenKey' \in [Instances -> Nat] /\ lowered' \in BOOLEAN
    BY DEF SetToken
<1> QED  BY <1>1, <1>2, <1>3, <1>4, <1>5, <1>6

\* An instance has one lock or none.
LEMMA LockKeyTypes ==
    ASSUME TypeOK, NEW i \in Instances, NEW L \in SUBSET LockRecord, \A k, l \in L : k = l,
           lockKey' = lockKey \/ lockKey' = [lockKey EXCEPT ![i] = L]
    PROVE  /\ lockKey' \in [Instances -> SUBSET LockRecord]
           /\ \A j \in Instances : \A k, l \in lockKey'[j] : k = l
BY DEF TypeOK

\* No action of the program leaves the types of the variables.
LEMMA TypeStep == TypeOK /\ [Next]_vars => TypeOK'
<1> SUFFICES ASSUME TypeOK, [Next]_vars PROVE TypeOK'
    OBVIOUS
<1> USE Constants
<1>1. CASE UNCHANGED vars
    BY <1>1 DEF vars, keys, local, history, TypeOK
<1>2. ASSUME NEW c \in Clients, Lock(c) PROVE TypeOK'
    <2>1. pc' \in [Clients -> Steps] /\ todo' \in [Clients -> SUBSET Instances]
        BY <1>2, PartTypes DEF Lock, Steps
    <2>2. locks' \in [Clients -> 0..MaxLocks] /\ lost' \in [Clients -> SUBSET Instances]
        BY <1>2 DEF Lock, TypeOK
    <2> QED  BY <1>2, <2>1, <2>2 DEF Lock, TypeOK, keys
<1>3. ASSUME NEW c \in Clients, ChooseToken(c) PROVE TypeOK'
    <2>1. /\ pc' \in [Clients -> Steps] /\ todo' \in [Clients -> SUBSET Instances]
          /\ token' \in [Clients -> Nat] /\ acquired' \in [Clients -> SUBSET Instances]
        <3>1. CASE Return(c)
            BY <3>1, PartTypes
        <3>2. CASE /\ Begin(c, "acquire") /\ UNCHANGED acquired
                   /\ token' = [token EXCEPT ![c] = maxToken[c] + 1]
            <4>1. token' \in [Clients -> Nat] /\ acquired' \in [Clients -> SUBSET Instances]
                BY <3>2 DEF TypeOK
            <4> QED  BY <3>2, <4>1, PartTypes DEF Steps
        <3> QED  BY <1>3, <3>1, <3>2 DEF ChooseToken
    <2>2. maxToken' \in [Clients -> Nat] /\ errs' \in [Clients -> BOOLEAN]
        BY <1>3, PartTypes DEF ChooseToken
    <2> QED  BY <1>3, <2>1, <2>2 DEF ChooseToken, TypeOK, keys, history
<1>4. ASSUME NEW c \in Clients, Decide(c) PROVE TypeOK'
    <2>1. pc' \in [Clients -> Steps] /\ todo' \in [Clients -> SUBSET Instances]
        BY <1>4, PartTypes DEF Decide, Steps
    <2> QED  BY <1>4, <2>1 DEF Decide, TypeOK, keys, history
<1>5. ASSUME NEW c \in Clients, Publish(c) PROVE TypeOK'
    <2>1. PICK i \in todo[c] :
            /\ \E executed, answered \in BOOLEAN :
                 /\ Command(c, i, executed, answered)
                 /\ IF executed THEN SetToken(c, i) ELSE UNCHANGED <<tokenKey, lowered>>
            /\ IF todo[c] = {i} THEN pc' = [pc EXCEPT ![c] = "held"] ELSE UNCHANGED pc
            /\ UNCHANGED <<lockKey, maxToken, token, errs, acquired, locks, lost, ahead>>
        BY <1>5 DEF Publish
    <2>2. i \in Instances  BY DEF TypeOK
    <2>3. todo' \in [Clients -> SUBSET Instances] /\ faults' \in 0..MaxFaults
        BY <2>1, PartTypes
    <2>4. tokenKey' \in [Instances -> Nat] /\ lowered' \in BOOLEAN
        <3>1. SetToken(c, i) \/ UNCHANGED <<tokenKey, lowered>>  BY <2>1
        <3> QED  BY <2>2, <3>1, PartTypes DEF TypeOK
    <2>5. pc' \in [Clients -> Steps]  BY <2>1 DEF TypeOK, Steps
    <2> QED  BY <2>1, <2>3, <2>4, <2>5 DEF TypeOK
<1>6. ASSUME NEW c \in Clients, StartUnlock(c) PROVE TypeOK'
    <2>1. pc' \in [Clients -> Steps] /\ todo' \in [Clients -> SUBSET Instances]
        BY <1>6, PartTypes DEF StartUnlock, Steps
    <2> QED  BY <1>6, <2>1 DEF StartUnlock, TypeOK, keys, history
<1>7. ASSUME NEW c \in Clients, Unlocked(c) PROVE TypeOK'
    <2>1. /\ pc' \in [Clients -> Steps] /\ todo' \in [Clients -> SUBSET Instances]
          /\ token' \in [Clients -> Nat] /\ acquired' \in [Clients -> SUBSET Instances]
        BY <1>7, PartTypes DEF Unlocked
    <2> QED  BY <1>7, <2>1 DEF Unlocked, TypeOK, keys, history
<1>8. ASSUME NEW c \in Clients, WriteWithFencing(c) PROVE TypeOK'
    <2>1. pc' \in [Clients -> Steps] /\ todo' \in [Clients -> SUBSET Instances]
        BY <1>8, PartTypes DEF WriteWithFencing, Steps
    <2>2. ahead' \in [Clients -> BOOLEAN]
        <3>1. (\E d \in Clients : Holds(d) /\ token[d] > token[c]) \in BOOLEAN
            OBVIOUS
        <3>2. ahead' = [ahead EXCEPT ![c] = \E d \in Clients : Holds(d) /\ token[d] > token[c]]
            BY <1>8 DEF WriteWithFencing
        <3> QED  BY <3>1, <3>2 DEF TypeOK
    <2> QED  BY <1>8, <2>1, <2>2 DEF WriteWithFencing, TypeOK, keys
<1>9. ASSUME NEW c \in Clients, CheckToken(c) PROVE TypeOK'
    <2>1. pc' \in [Clients -> Steps] /\ todo' \in [Clients -> SUBSET Instances]
        BY <1>9, PartTypes DEF CheckToken, Steps
    <2>2. maxToken' \in [Clients -> Nat] /\ errs' \in [Clients -> BOOLEAN]
        BY <1>9, PartTypes DEF CheckToken
    <2> QED  BY <1>9, <2>1, <2>2 DEF CheckToken, TypeOK, keys, history
<1>10. ASSUME NEW c \in Clients, Write(c) PROVE TypeOK'
    <2>1. pc' \in [Clients -> Steps] /\ todo' \in [Clients -> SUBSET Instances]
        BY <1>10, PartTypes DEF Write, Steps
    <2> QED  BY <1>10, <2>1 DEF Write, TypeOK, keys, history
<1>11. ASSUME NEW c \in Clients, NEW i \in Instances, ReadToken(c, i) PROVE TypeOK'
    <2>1. PICK answered \in BOOLEAN :
            /\ Command(c, i, TRUE, answered)
            /\ maxToken' = IF answered /\ tokenKey[i] > maxToken[c]
                             THEN [maxToken EXCEPT ![c] = tokenKey[i]] ELSE maxToken
            /\ errs' = [errs EXCEPT ![c] = @ \/ ~answered]
        BY <1>11 DEF ReadToken
    <2>2. todo' \in [Clients -> SUBSET Instances] /\ faults' \in 0..MaxFaults
        BY <2>1, PartTypes
    <2>3. maxToken' \in [Clients -> Nat]
        <3>1. maxToken' = maxToken \/ maxToken' = [maxToken EXCEPT ![c] = tokenKey[i]]  BY <2>1
        <3> QED  BY <3>1 DEF TypeOK
    <2>4. errs' \in [Clients -> BOOLEAN]  BY <2>1 DEF TypeOK
    <2> QED  BY <1>11, <2>2, <2>3, <2>4 DEF ReadToken, TypeOK, keys, history
<1>12. ASSUME NEW c \in Clients, NEW i \in Instances, AcquireInstance(c, i) PROVE TypeOK'
    <2> DEFINE new == [token |-> token[c], by |-> c]
    <2>1. PICK executed \in BOOLEAN, answered \in BOOLEAN :
            /\ Command(c, i, executed, answered)
            /\ IF executed /\ Vacant(i)
                 THEN lockKey' = [lockKey EXCEPT ![i] = {new}] /\ SetToken(c, i)
                 ELSE UNCHANGED <<keys, lowered>>
            /\ acquired' = IF answered /\ Vacant(i)
                             THEN [acquired EXCEPT ![c] = @ \cup {i}] ELSE acquired
        BY <1>12 DEF AcquireInstance
    <2>2. todo' \in [Clients -> SUBSET Instances] /\ faults' \in 0..MaxFaults
        BY <2>1, PartTypes
    <2>3. /\ lockKey' \in [Instances -> SUBSET LockRecord]
          /\ \A j \in Instances : \A k, l \in lockKey'[j] : k = l
        <3> DEFINE L == {new}
        <3>1. L \in SUBSET LockRecord  BY DEF LockRecord, TypeOK
        <3>2. \A k, l \in L : k = l  OBVIOUS
        <3>3. lockKey' = lockKey \/ lockKey' = [lockKey EXCEPT ![i] = L]  BY <2>1 DEF keys
        <3> HIDE DEF L
        <3> QED  BY <3>1, <3>2, <3>3, LockKeyTypes
    <2>4. tokenKey' \in [Instances -> Nat] /\ lowered' \in BOOLEAN
        <3>1. SetToken(c, i) \/ UNCHANGED <<tokenKey, lowered>>  BY <2>1 DEF keys
        <3> QED  BY <3>1, PartTypes DEF TypeOK
    <2>5. acquired' \in [Clients -> SUBSET Instances]  BY <2>1 DEF TypeOK
    <2> QED  BY <1>12, <2>2, <2>3, <2>4, <2>5 DEF AcquireInstance, TypeOK
<1>13. ASSUME NEW c \in Clients, NEW i \in Instances, UnlockInstance(c, i) PROVE TypeOK'
    <2> DEFINE mine == {k \in lockKey[i] : Matches(c, k)}
    <2>1. PICK executed \in BOOLEAN, answered \in BOOLEAN :
            /\ Command(c, i, executed, answered)
            /\ IF executed
                 THEN /\ lockKey' = [lockKey EXCEPT ![i] = @ \ mine]
                      /\ LostOn(i, {k.by : k \in mine} \ {c})
                 ELSE UNCHANGED <<lockKey, lost>>
        BY <1>13 DEF UnlockInstance
    <2>2. todo' \in [Clients -> SUBSET Instances] /\ faults' \in 0..MaxFaults
        BY <2>1, PartTypes
    <2>3. /\ lockKey' \in [Instances -> SUBSET LockRecord]
          /\ \A j \in Instances : \A k, l \in lockKey'[j] : k = l
        <3>1. /\ lockKey[i] \ mine \in SUBSET LockRecord
              /\ \A k, l \in lockKey[i] \ mine : k = l
            BY DEF TypeOK
        <3>2. lockKey' = lockKey \/ lockKey' = [lockKey EXCEPT ![i] = lockKey[i] \ mine]  BY <2>1
        <3> QED  BY <3>1, <3>2, LockKeyTypes
    <2>4. lost' \in [Clients -> SUBSET Instances]
        <3>1. {k.by : k \in mine} \ {c} \in SUBSET Clients  BY DEF TypeOK, LockRecord
        <3>2. lost' = lost \/ LostOn(i, {k.by : k \in mine} \ {c})  BY <2>1
        <3> HIDE DEF mine
        <3> QED  BY <3>1, <3>2, PartTypes DEF TypeOK
    <2> QED  BY <1>13, <2>2, <2>3, <2>4 DEF UnlockInstance, TypeOK
<1>14. ASSUME NEW i \in Instances, Expire(i) PROVE TypeOK'
    <2>1. /\ lockKey' \in [Instances -> SUBSET LockRecord]
          /\ \A j \in Instances : \A k, l \in lockKey'[j] : k = l
        BY <1>14, LockKeyTypes DEF Expire
    <2>2. lost' \in [Clients -> SUBSET Instances]
        <3>1. \A d \in Clients : lost[d] \cup {i} \in SUBSET Instances  BY DEF TypeOK
        <3> QED  BY <1>14, <3>1 DEF Expire, LostOn, TypeOK
    <2> QED  BY <1>14, <2>1, <2>2 DEF Expire, TypeOK, local
<1> QED
    BY <1>1, <1>2, <1>3, <1>4, <1>5, <1>6, <1>7, <1>8, <1>9, <1>10, <1>11, <1>12, <1>13, <1>14 DEF Next

LEMMA TypeInit == Init => TypeOK
<1> SUFFICES ASSUME Init PROVE TypeOK
    OBVIOUS
<1>1. lockKey \in [Instances -> SUBSET LockRecord]  BY DEF Init
<1>2. \A i \in Instances : lockKey[i] = {}  BY DEF Init
<1>3. \A i \in Instances : \A k, l \in lockKey[i] : k = l  BY <1>2
<1>4. /\ locks \in [Clients -> 0..MaxLocks] /\ faults \in 0..MaxFaults
      /\ tokenKey \in [Instances -> Nat] /\ token \in [Clients -> Nat]
      /\ maxToken \in [Clients -> Nat]
    BY Constants DEF Init
<1>5. /\ pc \in [Clients -> Steps] /\ todo \in [Clients -> SUBSET Instances]
      /\ acquired \in [Clients -> SUBSET Instances] /\ lost \in [Clients -> SUBSET Instances]
    BY DEF Init, Steps
<1>6. lowered \in BOOLEAN /\ ahead \in [Clients -> BOOLEAN] /\ errs \in [Clients -> BOOLEAN]
    BY DEF Init
<1> QED  BY <1>1, <1>3, <1>4, <1>5, <1>6 DEF TypeOK

\* The keys of the instances and the clients' calls keep their types.
THEOREM ClientTypeCorrect == Spec => []TypeOK
BY TypeInit, TypeStep, PTL DEF Spec
-----------------------------------------------------------------------------
(***************************************************************************)
(* Who holds the lock.                                                     *)
(***************************************************************************)

\* What a call has counted it forgets when it ends, and a holder has a quorum.
LEMMA AcquiredStep == TypeOK /\ AcquiredInCall /\ [Next]_vars => AcquiredInCall'
<1> SUFFICES ASSUME TypeOK, AcquiredInCall, [Next]_vars PROVE AcquiredInCall'
    OBVIOUS
<1> USE DEF Holds
<1>1. ASSUME NEW c \in Clients,
             \A d \in Clients \ {c} : pc'[d] = pc[d] /\ acquired'[d] = acquired[d],
             pc'[c] \in {"idle", "max"} => acquired'[c] = {},
             Holds(c)' => Cardinality(acquired'[c]) >= quorum
      PROVE  AcquiredInCall'
    BY <1>1 DEF AcquiredInCall
<1>2. ASSUME UNCHANGED <<pc, acquired>> PROVE AcquiredInCall'
    BY <1>2 DEF AcquiredInCall
<1>3. ASSUME NEW c \in Clients, Lock(c) PROVE AcquiredInCall'
    BY <1>1, <1>3 DEF Lock, Begin, TypeOK, AcquiredInCall
<1>4. ASSUME NEW c \in Clients, ChooseToken(c) PROVE AcquiredInCall'
    <2>1. CASE Return(c)
        BY <1>1, <2>1 DEF Return, GoTo, TypeOK
    <2>2. CASE Begin(c, "acquire") /\ UNCHANGED acquired
        BY <1>1, <2>2 DEF Begin, TypeOK
    <2> QED  BY <1>4, <2>1, <2>2 DEF ChooseToken
<1>5. ASSUME NEW c \in Clients, Decide(c) PROVE AcquiredInCall'
    BY <1>1, <1>5 DEF Decide, Begin, TypeOK
<1>6. ASSUME NEW c \in Clients, Publish(c) PROVE AcquiredInCall'
    <2>1. /\ pc[c] = "publish" /\ UNCHANGED acquired
          /\ pc' = pc \/ pc' = [pc EXCEPT ![c] = "held"]
        BY <1>6 DEF Publish
    <2> QED  BY <2>1 DEF TypeOK, AcquiredInCall
<1>7. ASSUME NEW c \in Clients, StartUnlock(c) PROVE AcquiredInCall'
    BY <1>1, <1>7 DEF StartUnlock, Begin, TypeOK
<1>8. ASSUME NEW c \in Clients, Unlocked(c) PROVE AcquiredInCall'
    BY <1>1, <1>8 DEF Unlocked, Return, GoTo, TypeOK
<1>9. ASSUME NEW c \in Clients, WriteWithFencing(c) PROVE AcquiredInCall'
    BY <1>1, <1>9 DEF WriteWithFencing, Begin, TypeOK, AcquiredInCall
<1>10. ASSUME NEW c \in Clients, CheckToken(c) PROVE AcquiredInCall'
    BY <1>1, <1>10 DEF CheckToken, Done, GoTo, TypeOK, AcquiredInCall
<1>11. ASSUME NEW c \in Clients, Write(c) PROVE AcquiredInCall'
    BY <1>1, <1>11 DEF Write, GoTo, TypeOK, AcquiredInCall
<1>12. ASSUME NEW c \in Clients, NEW i \in Instances, AcquireInstance(c, i) PROVE AcquiredInCall'
    <2>1. /\ pc[c] = "acquire" /\ UNCHANGED pc
          /\ acquired' = acquired \/ acquired' = [acquired EXCEPT ![c] = @ \cup {i}]
        BY <1>12 DEF AcquireInstance
    <2> QED  BY <1>1, <2>1 DEF TypeOK
<1>13. ASSUME NEW c \in Clients, NEW i \in Instances, ReadToken(c, i) \/ UnlockInstance(c, i)
       PROVE  AcquiredInCall'
    BY <1>2, <1>13 DEF ReadToken, UnlockInstance
<1>14. ASSUME NEW i \in Instances, Expire(i) PROVE AcquiredInCall'
    BY <1>2, <1>14 DEF Expire, local
<1>15. CASE UNCHANGED vars
    BY <1>2, <1>15 DEF vars, local
<1> QED
    BY <1>3, <1>4, <1>5, <1>6, <1>7, <1>8, <1>9, <1>10, <1>11, <1>12, <1>13, <1>14, <1>15 DEF Next

\* A step that leaves the locks in Redis and the calls' counts leaves them true.
LEMMA LocksLeftAlone ==
    ASSUME AcquiredIsThere, UNCHANGED lockKey,
           \A d \in Clients : Locking(d)' =>
               \/ Locking(d) /\ acquired'[d] = acquired[d] /\ lost[d] \subseteq lost'[d]
               \/ acquired'[d] = {}
    PROVE  AcquiredIsThere'
BY DEF AcquiredIsThere, OwnersOn

\* A lock that goes is on record as lost, if its owner counts it.
LEMMA TakenIsNoticed ==
    ASSUME TypeOK, AcquiredIsThere, NEW i \in Instances, UNCHANGED <<pc, acquired>>,
           lockKey'[i] \subseteq lockKey[i], \A j \in Instances \ {i} : lockKey'[j] = lockKey[j],
           \A d \in Clients : Locking(d) =>
               /\ lost[d] \subseteq lost'[d]
               /\ \A k \in lockKey[i] \ lockKey'[i] : k.by = d => i \in lost'[d]
    PROVE  AcquiredIsThere'
<1> SUFFICES ASSUME NEW d \in Clients, Locking(d)', NEW j \in acquired[d] \ lost'[d]
             PROVE  {k.by : k \in lockKey'[j]} = {d}
    BY DEF AcquiredIsThere, OwnersOn
<1>0. Locking(d)  BY DEF Locking, Holds
<1>1. j \in Instances /\ j \notin lost[d]  BY <1>0 DEF TypeOK
<1>2. {k.by : k \in lockKey[j]} = {d}  BY <1>0, <1>1 DEF AcquiredIsThere, OwnersOn
<1>3. lockKey'[j] = lockKey[j]
    <2>1. CASE j # i
        BY <1>1, <2>1
    <2>2. CASE j = i
        <3>1. \A k \in lockKey[i] : k.by = d  BY <1>2, <2>2
        <3> QED  BY <1>0, <2>2, <3>1
    <2> QED  BY <2>1, <2>2
<1> QED  BY <1>2, <1>3

\* A lock is set only where there is none, and goes only by a deletion.
LEMMA ThereStep == ExclusionInv /\ [Next]_vars => AcquiredIsThere'
<1> SUFFICES ASSUME ExclusionInv, [Next]_vars PROVE AcquiredIsThere'
    OBVIOUS
<1> USE DEF Locking, Holds
<1>1. TypeOK /\ AcquiredInCall /\ AcquiredIsThere  BY DEF ExclusionInv
<1>2. ASSUME NEW c \in Clients, Lock(c) PROVE AcquiredIsThere'
    BY <1>1, <1>2, LocksLeftAlone DEF Lock, Begin, TypeOK, keys
<1>3. ASSUME NEW c \in Clients, ChooseToken(c) PROVE AcquiredIsThere'
    <2>1. pc[c] = "max" /\ UNCHANGED <<lockKey, lost>>
        BY <1>3 DEF ChooseToken, Done, keys, history
    <2>2. acquired[c] = {}  BY <1>1, <2>1 DEF AcquiredInCall
    <2>3. /\ acquired'[c] = {}
          /\ \A d \in Clients \ {c} : pc'[d] = pc[d] /\ acquired'[d] = acquired[d]
        BY <1>1, <1>3, <2>2 DEF ChooseToken, Return, Begin, GoTo, TypeOK
    <2> QED  BY <1>1, <2>1, <2>3, LocksLeftAlone
<1>4. ASSUME NEW c \in Clients, Decide(c) PROVE AcquiredIsThere'
    BY <1>1, <1>4, LocksLeftAlone DEF Decide, Done, Begin, TypeOK, keys, history
<1>5. ASSUME NEW c \in Clients, Publish(c) PROVE AcquiredIsThere'
    <2>1. /\ pc[c] = "publish" /\ UNCHANGED <<lockKey, acquired, lost>>
          /\ pc' = pc \/ pc' = [pc EXCEPT ![c] = "held"]
        BY <1>5 DEF Publish
    <2> QED  BY <1>1, <2>1, LocksLeftAlone DEF TypeOK
<1>6. ASSUME NEW c \in Clients, StartUnlock(c) PROVE AcquiredIsThere'
    BY <1>1, <1>6, LocksLeftAlone DEF StartUnlock, Begin, TypeOK, keys, history
<1>7. ASSUME NEW c \in Clients, Unlocked(c) PROVE AcquiredIsThere'
    <2>1. /\ pc' = [pc EXCEPT ![c] = "idle"] /\ acquired' = [acquired EXCEPT ![c] = {}]
          /\ UNCHANGED <<lockKey, lost>>
        BY <1>7 DEF Unlocked, Return, GoTo, keys, history
    <2> QED  BY <1>1, <2>1, LocksLeftAlone DEF TypeOK
<1>8. ASSUME NEW c \in Clients, WriteWithFencing(c) \/ CheckToken(c) \/ Write(c)
      PROVE  AcquiredIsThere'
    <2>1. /\ pc[c] \in {"held", "check", "write"}
          /\ \E s \in {"held", "check", "write"} : pc' = [pc EXCEPT ![c] = s]
          /\ UNCHANGED <<lockKey, acquired, lost>>
        BY <1>8 DEF WriteWithFencing, CheckToken, Write, Done, Begin, GoTo, keys, history
    <2> QED  BY <1>1, <2>1, LocksLeftAlone DEF TypeOK
<1>9. ASSUME NEW c \in Clients, NEW i \in Instances, ReadToken(c, i) PROVE AcquiredIsThere'
    BY <1>1, <1>9, LocksLeftAlone DEF ReadToken, keys, history
<1>10. ASSUME NEW c \in Clients, NEW i \in Instances, AcquireInstance(c, i) PROVE AcquiredIsThere'
    <2> DEFINE new == [token |-> token[c], by |-> c]
    <2>1. /\ pc[c] = "acquire" /\ UNCHANGED <<pc, lost>>
          /\ \/ UNCHANGED <<lockKey, acquired>>
             \/ /\ Vacant(i) /\ lockKey' = [lockKey EXCEPT ![i] = {new}]
                /\ acquired' = acquired \/ acquired' = [acquired EXCEPT ![c] = @ \cup {i}]
        BY <1>10 DEF AcquireInstance, Command, keys
    <2>2. CASE UNCHANGED <<lockKey, acquired>>
        BY <1>1, <2>1, <2>2, LocksLeftAlone
    <2>3. CASE /\ Vacant(i) /\ lockKey' = [lockKey EXCEPT ![i] = {new}]
               /\ acquired' = acquired \/ acquired' = [acquired EXCEPT ![c] = @ \cup {i}]
        <3> SUFFICES ASSUME NEW d \in Clients, Locking(d), NEW j \in acquired'[d] \ lost[d]
                     PROVE  {k.by : k \in lockKey'[j]} = {d}
            BY <2>1 DEF AcquiredIsThere, OwnersOn
        <3>1. j \in acquired[d] \/ (j = i /\ d = c)  BY <1>1, <2>3 DEF TypeOK
        <3>2. CASE j = i
            <4>1. lockKey[i] = {}  BY <2>3 DEF Vacant
            <4>2. j \notin acquired[d]  BY <1>1, <3>2, <4>1 DEF AcquiredIsThere, OwnersOn
            <4>3. d = c /\ lockKey'[j] = {new}  BY <1>1, <2>3, <3>1, <3>2, <4>2 DEF TypeOK
            <4>4. new.by = c  OBVIOUS
            <4> QED  BY <4>3, <4>4
        <3>3. CASE j # i
            <4>1. lockKey'[j] = lockKey[j]  BY <1>1, <2>3, <3>1, <3>3 DEF TypeOK
            <4>2. {k.by : k \in lockKey[j]} = {d}
                BY <1>1, <3>1, <3>3 DEF AcquiredIsThere, OwnersOn
            <4> QED  BY <4>1, <4>2
        <3> QED  BY <3>2, <3>3
    <2> QED  BY <2>1, <2>2, <2>3
<1>11. ASSUME NEW c \in Clients, NEW i \in Instances, UnlockInstance(c, i) PROVE AcquiredIsThere'
    <2> DEFINE mine == {k \in lockKey[i] : Matches(c, k)}
    <2>1. /\ pc[c] \in {"release", "unlock"} /\ UNCHANGED <<pc, acquired>>
          /\ \/ UNCHANGED <<lockKey, lost>>
             \/ /\ lockKey' = [lockKey EXCEPT ![i] = lockKey[i] \ mine]
                /\ LostOn(i, {k.by : k \in mine} \ {c})
        BY <1>11 DEF UnlockInstance
    <2>2. CASE UNCHANGED <<lockKey, lost>>
        BY <1>1, <2>1, <2>2, LocksLeftAlone
    <2>3. CASE /\ lockKey' = [lockKey EXCEPT ![i] = lockKey[i] \ mine]
               /\ LostOn(i, {k.by : k \in mine} \ {c})
        <3>1. /\ lockKey'[i] = lockKey[i] \ mine
              /\ \A j \in Instances \ {i} : lockKey'[j] = lockKey[j]
            BY <1>1, <2>3 DEF TypeOK
        <3>2. \A d \in Clients : Locking(d) =>
                  /\ lost[d] \subseteq lost'[d]
                  /\ \A k \in lockKey[i] \ lockKey'[i] : k.by = d => i \in lost'[d]
            BY <2>1, <2>3, <3>1 DEF LostOn
        <3>3. lockKey'[i] \subseteq lockKey[i]  BY <3>1
        <3> HIDE DEF Locking, Holds
        <3> QED  BY <1>1, <2>1, <3>1, <3>2, <3>3, TakenIsNoticed
    <2> QED  BY <2>1, <2>2, <2>3
<1>12. ASSUME NEW i \in Instances, Expire(i) PROVE AcquiredIsThere'
    <2>1. /\ lockKey' = [lockKey EXCEPT ![i] = {}] /\ UNCHANGED <<pc, acquired>>
          /\ LostOn(i, OwnersOn(i))
        BY <1>12 DEF Expire, local
    <2>2. lockKey'[i] = {} /\ \A j \in Instances \ {i} : lockKey'[j] = lockKey[j]
        BY <1>1, <2>1 DEF TypeOK
    <2>3. \A d \in Clients : Locking(d) =>
              /\ lost[d] \subseteq lost'[d]
              /\ \A k \in lockKey[i] \ lockKey'[i] : k.by = d => i \in lost'[d]
        BY <2>1 DEF LostOn, OwnersOn
    <2>4. lockKey'[i] \subseteq lockKey[i]  BY <2>2
    <2> HIDE DEF Locking, Holds
    <2> QED  BY <1>1, <2>1, <2>2, <2>3, <2>4, TakenIsNoticed
<1>13. CASE UNCHANGED vars
    BY <1>1, <1>13, LocksLeftAlone DEF vars, keys, local, history
<1> QED
    BY <1>2, <1>3, <1>4, <1>5, <1>6, <1>7, <1>8, <1>9, <1>10, <1>11, <1>12, <1>13 DEF Next

\* Two holders at a time have an instance in common, whose lock is not that of
\* one of them.
THEOREM ClientExclusion == Spec => []ExclusionLostOnlyByDeletion
<1>1. Init => ExclusionInv
    <2>1. Init => AcquiredInCall /\ AcquiredIsThere
        BY DEF Init, AcquiredInCall, AcquiredIsThere, Locking, Holds
    <2> QED  BY <2>1, TypeInit DEF ExclusionInv
<1>2. ExclusionInv /\ [Next]_vars => ExclusionInv'
    BY TypeStep, AcquiredStep, ThereStep DEF ExclusionInv
<1>3. ExclusionInv => ExclusionLostOnlyByDeletion
    <2> SUFFICES ASSUME ExclusionInv, NEW c \in Clients, NEW d \in Clients,
                        Holds(c), Holds(d), c # d
                 PROVE  \E i \in acquired[c] \cap acquired[d] : i \in lost[c] \cup lost[d]
        BY DEF ExclusionLostOnlyByDeletion
    <2>1. /\ acquired[c] \in SUBSET Instances /\ Cardinality(acquired[c]) >= quorum
          /\ acquired[d] \in SUBSET Instances /\ Cardinality(acquired[d]) >= quorum
        BY DEF ExclusionInv, TypeOK, AcquiredInCall
    <2>2. PICK i : i \in acquired[c] \cap acquired[d]
        BY <2>1, QuorumsMeet
    <2>3. \A e \in {c, d} : i \notin lost[e] => OwnersOn(i) = {e}
        BY <2>2 DEF ExclusionInv, AcquiredIsThere, Locking
    <2> QED  BY <2>2, <2>3
<1> QED  BY <1>1, <1>2, <1>3, PTL DEF Spec
-----------------------------------------------------------------------------
(***************************************************************************)
(* Who passes the fencing test.                                            *)
(***************************************************************************)

\* Until a SET lowers one, the tokens stored only grow.
LEMMA TokensGrow ==
    ASSUME TypeOK, [Next]_vars, ~lowered'
    PROVE  ~lowered /\ \A i \in Instances : tokenKey'[i] >= tokenKey[i]
<1> DEFINE Goal == ~lowered /\ \A i \in Instances : tokenKey'[i] >= tokenKey[i]
<1>1. ASSUME UNCHANGED <<tokenKey, lowered>> PROVE Goal
    BY <1>1 DEF TypeOK
<1>2. ASSUME NEW c \in Clients, NEW i \in Instances, SetToken(c, i) PROVE Goal
    <2>1. /\ tokenKey' = [tokenKey EXCEPT ![i] = token[c]]
          /\ ~lowered /\ ~(token[c] < tokenKey[i])
        BY <1>2 DEF SetToken
    <2> QED  BY <2>1 DEF TypeOK
<1>3. ASSUME NEW c \in Clients, Publish(c) PROVE Goal
    <2>1. PICK i \in todo[c] : SetToken(c, i) \/ UNCHANGED <<tokenKey, lowered>>
        BY <1>3 DEF Publish
    <2>2. i \in Instances  BY DEF TypeOK
    <2> QED  BY <1>1, <1>2, <2>1, <2>2
<1>4. ASSUME NEW c \in Clients, NEW i \in Instances, AcquireInstance(c, i) PROVE Goal
    <2>1. SetToken(c, i) \/ UNCHANGED <<tokenKey, lowered>>
        BY <1>4 DEF AcquireInstance, keys
    <2> QED  BY <1>1, <1>2, <2>1
<1>5. ASSUME NEW c \in Clients,
             \/ Lock(c) \/ ChooseToken(c) \/ Decide(c) \/ StartUnlock(c) \/ Unlocked(c)
             \/ WriteWithFencing(c) \/ CheckToken(c) \/ Write(c)
      PROVE  Goal
    <2>1. UNCHANGED tokenKey
        BY <1>5 DEF Lock, ChooseToken, Decide, StartUnlock, Unlocked, WriteWithFencing,
                    CheckToken, Write, keys
    <2>2. UNCHANGED lowered
        BY <1>5 DEF Lock, ChooseToken, Decide, StartUnlock, Unlocked, WriteWithFencing,
                    CheckToken, Write, history
    <2> QED  BY <1>1, <2>1, <2>2
<1>6. ASSUME NEW c \in Clients, NEW i \in Instances, ReadToken(c, i) \/ UnlockInstance(c, i)
      PROVE  Goal
    BY <1>1, <1>6 DEF ReadToken, UnlockInstance, keys, history
<1>7. ASSUME NEW i \in Instances, Expire(i) PROVE Goal
    BY <1>1, <1>7 DEF Expire
<1>8. CASE UNCHANGED vars
    BY <1>1, <1>8 DEF vars, keys, history
<1> QED  BY <1>3, <1>4, <1>5, <1>6, <1>7, <1>8 DEF Next

\* A client that counts its lock on an instance has just stored its token there.
LEMMA PublishedStep ==
    ASSUME TypeOK, AcquiredInCall, TokensPublished, [Next]_vars, ~lowered'
    PROVE  TokensPublished'
<1> USE DEF Locking, Holds
<1>1. \A i \in Instances : /\ tokenKey'[i] >= tokenKey[i]
                           /\ tokenKey[i] \in Nat /\ tokenKey'[i] \in Nat
    BY TokensGrow, TypeStep DEF TypeOK
<1>2. \A d \in Clients : token[d] \in Nat /\ acquired[d] \subseteq Instances  BY DEF TypeOK
<1>3. ASSUME \A d \in Clients : Locking(d)' =>
                 \/ Locking(d) /\ acquired'[d] = acquired[d] /\ token'[d] = token[d]
                 \/ acquired'[d] = {}
      PROVE  TokensPublished'
    <2> SUFFICES ASSUME NEW d \in Clients, Locking(d)', NEW i \in acquired'[d]
                 PROVE  tokenKey'[i] >= token'[d]
        BY DEF TokensPublished
    <2>1. Locking(d) /\ i \in acquired[d] /\ token'[d] = token[d]  BY <1>3
    <2>2. tokenKey[i] >= token[d] /\ i \in Instances  BY <1>2, <2>1 DEF TokensPublished
    <2>3. tokenKey'[i] >= tokenKey[i]  BY <1>1, <2>2
    <2>4. tokenKey[i] \in Nat /\ tokenKey'[i] \in Nat /\ token[d] \in Nat  BY <1>1, <1>2, <2>2
    <2> QED  BY <2>1, <2>2, <2>3, <2>4
<1>4. ASSUME NEW c \in Clients, Lock(c) PROVE TokensPublished'
    BY <1>3, <1>4 DEF Lock, Begin, TypeOK
<1>5. ASSUME NEW c \in Clients, ChooseToken(c) PROVE TokensPublished'
    <2>1. acquired[c] = {}  BY <1>5 DEF ChooseToken, Done, AcquiredInCall
    <2>2. /\ acquired'[c] = {}
          /\ \A d \in Clients \ {c} : /\ pc'[d] = pc[d] /\ acquired'[d] = acquired[d]
                                      /\ token'[d] = token[d]
        BY <1>5, <2>1 DEF ChooseToken, Return, Begin, GoTo, TypeOK
    <2> QED  BY <1>3, <2>2
<1>6. ASSUME NEW c \in Clients, Decide(c) PROVE TokensPublished'
    BY <1>3, <1>6 DEF Decide, Done, Begin, TypeOK
<1>7. ASSUME NEW c \in Clients, Publish(c) PROVE TokensPublished'
    <2>1. /\ pc[c] = "publish" /\ UNCHANGED <<acquired, token>>
          /\ pc' = pc \/ pc' = [pc EXCEPT ![c] = "held"]
        BY <1>7 DEF Publish
    <2> QED  BY <1>3, <2>1 DEF TypeOK
<1>8. ASSUME NEW c \in Clients, StartUnlock(c) PROVE TokensPublished'
    BY <1>3, <1>8 DEF StartUnlock, Begin, TypeOK
<1>9. ASSUME NEW c \in Clients, Unlocked(c) PROVE TokensPublished'
    BY <1>3, <1>9 DEF Unlocked, Return, GoTo, TypeOK
<1>10. ASSUME NEW c \in Clients, WriteWithFencing(c) \/ CheckToken(c) \/ Write(c)
       PROVE  TokensPublished'
    <2>1. /\ pc[c] \in {"held", "check", "write"}
          /\ \E s \in {"held", "check", "write"} : pc' = [pc EXCEPT ![c] = s]
          /\ UNCHANGED <<acquired, token>>
        BY <1>10 DEF WriteWithFencing, CheckToken, Write, Done, Begin, GoTo
    <2> QED  BY <1>3, <2>1 DEF TypeOK
<1>11. ASSUME NEW c \in Clients, NEW i \in Instances, AcquireInstance(c, i) PROVE TokensPublished'
    <2>1. /\ pc[c] = "acquire" /\ UNCHANGED <<pc, token>>
          /\ \/ UNCHANGED acquired
             \/ SetToken(c, i) /\ acquired' = [acquired EXCEPT ![c] = @ \cup {i}]
        BY <1>11 DEF AcquireInstance, Command
    <2>2. CASE UNCHANGED acquired
        BY <1>3, <2>1, <2>2
    <2>3. CASE SetToken(c, i) /\ acquired' = [acquired EXCEPT ![c] = @ \cup {i}]
        <3> SUFFICES ASSUME NEW d \in Clients, Locking(d), NEW j \in acquired'[d]
                     PROVE  tokenKey'[j] >= token[d]
            BY <2>1 DEF TokensPublished
        <3>1. j \in acquired[d] \/ (j = i /\ d = c)  BY <2>3 DEF TypeOK
        <3>2. CASE j \in acquired[d]
            <4>1. tokenKey[j] >= token[d] /\ j \in Instances  BY <1>2, <3>2 DEF TokensPublished
            <4>2. tokenKey'[j] >= tokenKey[j]  BY <1>1, <4>1
            <4> QED  BY <1>1, <1>2, <4>1, <4>2
        <3>3. CASE j = i /\ d = c
            <4>1. tokenKey'[i] = token[c]  BY <2>3 DEF SetToken, TypeOK
            <4> QED  BY <1>2, <3>3, <4>1
        <3> QED  BY <3>1, <3>2, <3>3
    <2> QED  BY <2>1, <2>2, <2>3
<1>12. ASSUME NEW c \in Clients, NEW i \in Instances, ReadToken(c, i) \/ UnlockInstance(c, i)
       PROVE  TokensPublished'
    BY <1>3, <1>12 DEF ReadToken, UnlockInstance
<1>13. ASSUME NEW i \in Instances, Expire(i) PROVE TokensPublished'
    BY <1>3, <1>13 DEF Expire, local
<1>14. CASE UNCHANGED vars
    BY <1>3, <1>14 DEF vars, local
<1> QED
    BY <1>4, <1>5, <1>6, <1>7, <1>8, <1>9, <1>10, <1>11, <1>12, <1>13, <1>14 DEF Next

\* The larger token is stored on every instance another holder counts, so the
\* test that has heard from all instances has read it or an error.
LEMMA NoticeStep ==
    ASSUME TypeOK, AcquiredInCall, TokensPublished, OvertakenNotice, [Next]_vars, ~lowered'
    PROVE  OvertakenNotice'
<1>1. \A i \in Instances : /\ tokenKey'[i] >= tokenKey[i]
                           /\ tokenKey[i] \in Nat /\ tokenKey'[i] \in Nat
    BY TokensGrow, TypeStep DEF TypeOK
<1>2. \A d \in Clients : token[d] \in Nat /\ todo[d] \subseteq Instances /\ maxToken[d] \in Nat
    BY DEF TypeOK
<1> DEFINE Sound(d) == ahead'[d] => pc'[d] # "write" /\ (pc'[d] = "check" => WillNotice(d)')
           Same(d) == /\ ahead'[d] = ahead[d]
                      /\ pc'[d] = "write" => pc[d] = "write"
                      /\ pc'[d] = "check" =>
                            /\ pc[d] = "check" /\ todo'[d] = todo[d] /\ errs'[d] = errs[d]
                            /\ maxToken'[d] = maxToken[d] /\ token'[d] = token[d]
<1>3. ASSUME NEW d \in Clients, Same(d) PROVE Sound(d)
    <2> SUFFICES ASSUME ahead'[d], pc'[d] = "check" PROVE WillNotice(d)'
        BY <1>3 DEF OvertakenNotice
    <2>1. WillNotice(d)  BY <1>3 DEF OvertakenNotice
    <2>2. \A i \in todo[d] : tokenKey[i] > token[d] => tokenKey'[i] > token[d]
        BY <1>1, <1>2
    <2> QED  BY <1>3, <2>1, <2>2 DEF WillNotice
<1>4. ASSUME NEW c \in Clients, \A d \in Clients \ {c} : Same(d), Sound(c) PROVE OvertakenNotice'
    <2>1. \A d \in Clients : Sound(d)  BY <1>3, <1>4
    <2> QED  BY <2>1 DEF OvertakenNotice
<1>5. ASSUME \A d \in Clients : Same(d) PROVE OvertakenNotice'
    <2>1. \A d \in Clients : Sound(d)  BY <1>3, <1>5
    <2> QED  BY <2>1 DEF OvertakenNotice
<1>6. ASSUME NEW c \in Clients, WriteWithFencing(c) PROVE OvertakenNotice'
    <2>1. \A d \in Clients \ {c} : Same(d)
        BY <1>6 DEF WriteWithFencing, Begin, TypeOK
    <2>2. /\ pc'[c] = "check" /\ todo'[c] = Instances
          /\ UNCHANGED <<tokenKey, token>>
          /\ ahead'[c] = \E d \in Clients : Holds(d) /\ token[d] > token[c]
        BY <1>6 DEF WriteWithFencing, Begin, TypeOK, keys
    <2>3. ASSUME ahead'[c] PROVE WillNotice(c)'
        <3>1. PICK d \in Clients : Holds(d) /\ token[d] > token[c]  BY <2>2, <2>3
        <3>2. /\ acquired[d] \in SUBSET Instances /\ Cardinality(acquired[d]) >= quorum
            BY <3>1 DEF AcquiredInCall, TypeOK
        <3>3. PICK i : i \in acquired[d]  BY <3>2, QuorumsMeet
        <3>4. i \in Instances /\ tokenKey[i] >= token[d]
            BY <3>1, <3>2, <3>3 DEF TokensPublished, Locking
        <3>5. tokenKey[i] > token[c]  BY <1>1, <1>2, <3>1, <3>4
        <3> QED  BY <2>2, <3>4, <3>5 DEF WillNotice
    <2>4. Sound(c)  BY <2>2, <2>3
    <2> QED  BY <1>4, <2>1, <2>4
<1>7. ASSUME NEW c \in Clients, CheckToken(c) PROVE OvertakenNotice'
    <2>1. \A d \in Clients \ {c} : Same(d)
        BY <1>7 DEF CheckToken, GoTo, ForgetMaxToken, TypeOK, history
    <2>2. /\ pc[c] = "check" /\ todo[c] = {} /\ ahead'[c] = ahead[c]
          /\ pc'[c] = IF errs[c] \/ Stale(c) THEN "held" ELSE "write"
        BY <1>7 DEF CheckToken, Done, GoTo, TypeOK, history
    <2>3. ahead[c] => errs[c] \/ Stale(c)
        BY <1>2, <2>2 DEF OvertakenNotice, WillNotice, Stale
    <2>4. Sound(c)  BY <2>2, <2>3
    <2> QED  BY <1>4, <2>1, <2>4
<1>8. ASSUME NEW c \in Clients, NEW i \in Instances, ReadToken(c, i) PROVE OvertakenNotice'
    <2>1. /\ UNCHANGED <<tokenKey, pc, token, ahead>> /\ i \in todo[c]
          /\ todo' = [todo EXCEPT ![c] = @ \ {i}]
          /\ \E answered \in BOOLEAN :
               /\ maxToken' = IF answered /\ tokenKey[i] > maxToken[c]
                                THEN [maxToken EXCEPT ![c] = tokenKey[i]] ELSE maxToken
               /\ errs' = [errs EXCEPT ![c] = @ \/ ~answered]
        BY <1>8 DEF ReadToken, Command, keys, history
    <2>2. \A d \in Clients \ {c} : Same(d)  BY <2>1 DEF TypeOK
    <2>3. ASSUME WillNotice(c) PROVE WillNotice(c)'
        <3>1. todo'[c] = todo[c] \ {i}  BY <2>1 DEF TypeOK
        <3>2. \/ errs'[c]
              \/ errs'[c] = errs[c] /\ maxToken'[c] >= tokenKey[i] /\ maxToken'[c] >= maxToken[c]
            <4>1. PICK answered \in BOOLEAN :
                    /\ maxToken' = IF answered /\ tokenKey[i] > maxToken[c]
                                     THEN [maxToken EXCEPT ![c] = tokenKey[i]] ELSE maxToken
                    /\ errs' = [errs EXCEPT ![c] = @ \/ ~answered]
                BY <2>1
            <4>2. CASE answered
                <5>1. errs'[c] = errs[c]  BY <4>1, <4>2 DEF TypeOK
                <5>2. maxToken'[c] = IF tokenKey[i] > maxToken[c] THEN tokenKey[i] ELSE maxToken[c]
                    BY <4>1, <4>2 DEF TypeOK
                <5> QED  BY <1>1, <1>2, <5>1, <5>2
            <4>3. CASE ~answered
                BY <4>1, <4>3 DEF TypeOK
            <4> QED  BY <4>2, <4>3
        <3>3. maxToken'[c] \in Nat  BY TypeStep DEF TypeOK
        <3> QED  BY <1>1, <1>2, <2>1, <2>3, <3>1, <3>2, <3>3 DEF WillNotice
    <2>4. Sound(c)  BY <2>1, <2>3 DEF OvertakenNotice
    <2> QED  BY <1>4, <2>2, <2>4
<1>9. ASSUME NEW c \in Clients,
             \/ Lock(c) \/ ChooseToken(c) \/ Decide(c) \/ StartUnlock(c) \/ Unlocked(c) \/ Write(c)
      PROVE  OvertakenNotice'
    <2>1. UNCHANGED ahead
        BY <1>9 DEF Lock, ChooseToken, Decide, StartUnlock, Unlocked, Write, history
    <2>2. pc'[c] \notin {"check", "write"} /\ \A d \in Clients \ {c} : pc'[d] = pc[d]
        BY <1>9 DEF Lock, ChooseToken, Decide, StartUnlock, Unlocked, Write, Return, Begin, GoTo, TypeOK
    <2>3. \A d \in Clients \ {c} : /\ todo'[d] = todo[d] /\ errs'[d] = errs[d]
                                   /\ maxToken'[d] = maxToken[d] /\ token'[d] = token[d]
        BY <1>9 DEF Lock, ChooseToken, Decide, StartUnlock, Unlocked, Write, Return, Begin, GoTo,
                    ForgetMaxToken, TypeOK
    <2> QED  BY <1>5, <2>1, <2>2, <2>3
<1>10. ASSUME NEW c \in Clients, Publish(c) PROVE OvertakenNotice'
    <2>1. PICK i : /\ todo' = [todo EXCEPT ![c] = @ \ {i}]
                   /\ pc[c] = "publish" /\ (pc' = pc \/ pc' = [pc EXCEPT ![c] = "held"])
                   /\ UNCHANGED <<maxToken, token, errs, ahead>>
        BY <1>10 DEF Publish, Command
    <2> QED  BY <1>5, <2>1 DEF TypeOK
<1>11. ASSUME NEW c \in Clients, NEW i \in Instances, AcquireInstance(c, i) \/ UnlockInstance(c, i)
       PROVE  OvertakenNotice'
    <2>1. /\ todo' = [todo EXCEPT ![c] = @ \ {i}] /\ pc[c] \in {"acquire", "release", "unlock"}
          /\ UNCHANGED <<pc, maxToken, token, errs, ahead>>
        BY <1>11 DEF AcquireInstance, UnlockInstance, Command
    <2> QED  BY <1>5, <2>1 DEF TypeOK
<1>12. ASSUME NEW i \in Instances, Expire(i) PROVE OvertakenNotice'
    BY <1>5, <1>12 DEF Expire, local
<1>13. CASE UNCHANGED vars
    BY <1>5, <1>13 DEF vars, local, history
<1> QED
    BY <1>6, <1>7, <1>8, <1>9, <1>10, <1>11, <1>12, <1>13 DEF Next

\* Whoever held the lock with a larger token when a fencing test began makes the
\* test fail, until a late SET lowers a token.
THEOREM ClientFence == Spec => []WriterIsNotOvertaken
<1>1. Init => FenceInv
    BY TypeInit
    DEF Init, FenceInv, AcquiredInCall, TokensPublished, OvertakenNotice, Locking, Holds
<1>2. FenceInv /\ [Next]_vars => FenceInv'
    <2> SUFFICES ASSUME FenceInv, [Next]_vars, ~lowered'
                 PROVE  TokensPublished' /\ OvertakenNotice'
        BY TypeStep, AcquiredStep DEF FenceInv
    <2>1. TypeOK /\ AcquiredInCall  BY DEF FenceInv
    <2>2. ~lowered  BY <2>1, TokensGrow
    <2>3. TokensPublished /\ OvertakenNotice  BY <2>2 DEF FenceInv
    <2> QED  BY <2>1, <2>3, PublishedStep, NoticeStep
<1>3. FenceInv => WriterIsNotOvertaken
    BY DEF FenceInv, OvertakenNotice, WriterIsNotOvertaken
<1> QED  BY <1>1, <1>2, <1>3, PTL DEF Spec
-----------------------------------------------------------------------------
(***************************************************************************)
(* Who owns the locks that are in Redis.                                   *)
(***************************************************************************)

\* Commands that failed stay failed.
LEMMA FaultsGrow == TypeOK /\ [Next]_vars /\ faults' = 0 => faults = 0
<1> SUFFICES ASSUME TypeOK, [Next]_vars, faults # 0 PROVE faults' # 0
    OBVIOUS
<1>1. faults \in Nat  BY Constants DEF TypeOK
<1>2. ASSUME NEW c, NEW i, NEW x, NEW y, Command(c, i, x, y) PROVE faults' # 0
    BY <1>1, <1>2 DEF Command
<1>3. ASSUME NEW c \in Clients, Publish(c) PROVE faults' # 0
    BY <1>2, <1>3 DEF Publish
<1>4. ASSUME NEW c \in Clients, NEW i \in Instances,
             ReadToken(c, i) \/ AcquireInstance(c, i) \/ UnlockInstance(c, i)
      PROVE  faults' # 0
    BY <1>2, <1>4 DEF ReadToken, AcquireInstance, UnlockInstance
<1>5. ASSUME NEW c \in Clients,
             \/ Lock(c) \/ ChooseToken(c) \/ Decide(c) \/ StartUnlock(c) \/ Unlocked(c)
             \/ WriteWithFencing(c) \/ CheckToken(c) \/ Write(c)
      PROVE  faults' # 0
    BY <1>5 DEF Lock, ChooseToken, Decide, StartUnlock, Unlocked, WriteWithFencing, CheckToken, Write
<1>6. ASSUME NEW i \in Instances, Expire(i) PROVE faults' # 0
    BY <1>6 DEF Expire
<1>7. CASE UNCHANGED vars
    BY <1>7 DEF vars
<1> QED  BY <1>3, <1>4, <1>5, <1>6, <1>7 DEF Next

\* Without failures every lock set is deleted by its own call, if not before.
LEMMA OwnerStep == OwnerInv /\ [Next]_vars => OwnerInv'
<1> SUFFICES ASSUME TypeOK, [Next]_vars, faults' = 0,
                    \A i \in Instances : \A k \in lockKey[i] : KeyAwaitsItsCall(i, k)
             PROVE  \A i \in Instances : \A k \in lockKey'[i] : KeyAwaitsItsCall(i, k)'
    BY TypeStep, FaultsGrow DEF OwnerInv
<1> DEFINE Goal == \A i \in Instances : \A k \in lockKey'[i] : KeyAwaitsItsCall(i, k)'
           Kept(i, d) == Owes(i, d) => token'[d] = token[d] /\ Owes(i, d)'
<1>1. \A i \in Instances : \A k \in lockKey[i] : k.by \in Clients
    BY DEF TypeOK, LockRecord
<1>2. ASSUME NEW i \in Instances, NEW k \in lockKey[i], Kept(i, k.by)
      PROVE  KeyAwaitsItsCall(i, k)'
    BY <1>2 DEF KeyAwaitsItsCall
<1>3. ASSUME \A i \in Instances : lockKey'[i] \subseteq lockKey[i],
             \A i \in Instances, d \in Clients : Kept(i, d)
      PROVE  Goal
    <2> SUFFICES ASSUME NEW i \in Instances, NEW k \in lockKey'[i]
                 PROVE  KeyAwaitsItsCall(i, k)'
        OBVIOUS
    <2>1. k \in lockKey[i]  BY <1>3
    <2>2. Kept(i, k.by)  BY <1>1, <1>3, <2>1
    <2> QED  BY <1>2, <2>1, <2>2
<1> USE DEF Owes
<1>4. ASSUME NEW c \in Clients, Lock(c) \/ ChooseToken(c) PROVE Goal
    <2>1. /\ UNCHANGED lockKey /\ pc[c] \in {"idle", "max"}
          /\ \A d \in Clients \ {c} : pc'[d] = pc[d] /\ todo'[d] = todo[d] /\ token'[d] = token[d]
        BY <1>4 DEF Lock, ChooseToken, Done, Return, Begin, GoTo, TypeOK, keys
    <2> QED  BY <1>3, <2>1
<1>5. ASSUME NEW c \in Clients, Decide(c) \/ StartUnlock(c) PROVE Goal
    <2>1. /\ UNCHANGED <<lockKey, token>>
          /\ pc'[c] \in {"publish", "release", "unlock"} /\ todo'[c] = Instances
          /\ \A d \in Clients \ {c} : pc'[d] = pc[d] /\ todo'[d] = todo[d]
        BY <1>5 DEF Decide, StartUnlock, Begin, TypeOK, keys
    <2> QED  BY <1>3, <2>1
<1>6. ASSUME NEW c \in Clients, Unlocked(c) PROVE Goal
    <2>1. /\ UNCHANGED lockKey /\ pc[c] \in {"release", "unlock"} /\ todo[c] = {}
          /\ \A d \in Clients \ {c} : pc'[d] = pc[d] /\ todo'[d] = todo[d] /\ token'[d] = token[d]
        BY <1>6 DEF Unlocked, Done, Return, GoTo, TypeOK, keys
    <2> QED  BY <1>3, <2>1
<1>7. ASSUME NEW c \in Clients, WriteWithFencing(c) \/ CheckToken(c) \/ Write(c) PROVE Goal
    <2>1. /\ UNCHANGED <<lockKey, token>> /\ pc'[c] \in {"held", "check", "write"}
          /\ \A d \in Clients \ {c} : pc'[d] = pc[d] /\ todo'[d] = todo[d]
        BY <1>7 DEF WriteWithFencing, CheckToken, Write, Begin, GoTo, TypeOK, keys
    <2> QED  BY <1>3, <2>1
<1>8. ASSUME NEW c \in Clients, Publish(c) PROVE Goal
    <2>1. PICK i : /\ todo' = [todo EXCEPT ![c] = @ \ {i}]
                   /\ pc[c] = "publish" /\ (pc' = pc \/ pc' = [pc EXCEPT ![c] = "held"])
                   /\ UNCHANGED <<lockKey, token>>
        BY <1>8 DEF Publish, Command
    <2> QED  BY <1>3, <2>1 DEF TypeOK
<1>9. ASSUME NEW c \in Clients, NEW i \in Instances, ReadToken(c, i) PROVE Goal
    <2>1. /\ UNCHANGED <<lockKey, pc, token>> /\ pc[c] \in {"max", "check"}
          /\ todo' = [todo EXCEPT ![c] = @ \ {i}]
        BY <1>9 DEF ReadToken, Command, keys
    <2> QED  BY <1>3, <2>1 DEF TypeOK
<1>10. ASSUME NEW c \in Clients, NEW i \in Instances, AcquireInstance(c, i) PROVE Goal
    <2> DEFINE new == [token |-> token[c], by |-> c]
    <2>1. /\ pc[c] = "acquire" /\ UNCHANGED <<pc, token>>
          /\ todo' = [todo EXCEPT ![c] = @ \ {i}]
          /\ UNCHANGED lockKey \/ lockKey' = [lockKey EXCEPT ![i] = {new}]
        BY <1>10 DEF AcquireInstance, Command, keys
    <2>2. \A j \in Instances, d \in Clients : Kept(j, d)  BY <2>1 DEF TypeOK
    <2>3. CASE UNCHANGED lockKey
        BY <1>3, <2>2, <2>3
    <2>4. CASE lockKey' = [lockKey EXCEPT ![i] = {new}]
        <3> SUFFICES ASSUME NEW j \in Instances, NEW k \in lockKey'[j]
                     PROVE  KeyAwaitsItsCall(j, k)'
            OBVIOUS
        <3>1. CASE j = i
            <4>1. k = new  BY <2>4, <3>1 DEF TypeOK
            <4>2. k.by = c /\ k.token = token[c]  BY <4>1
            <4>3. Owes(i, c)'  BY <2>1 DEF TypeOK
            <4> QED  BY <2>1, <3>1, <4>2, <4>3 DEF KeyAwaitsItsCall
        <3>2. CASE j # i
            <4>1. k \in lockKey[j]  BY <2>4, <3>2 DEF TypeOK
            <4>2. Kept(j, k.by)  BY <1>1, <2>2, <4>1
            <4> QED  BY <1>2, <4>1, <4>2
        <3> QED  BY <3>1, <3>2
    <2> QED  BY <2>1, <2>3, <2>4
<1>11. ASSUME NEW c \in Clients, NEW i \in Instances, UnlockInstance(c, i) PROVE Goal
    <2>1. /\ pc[c] \in {"release", "unlock"} /\ UNCHANGED <<pc, token>>
          /\ todo' = [todo EXCEPT ![c] = @ \ {i}]
          /\ lockKey' = [lockKey EXCEPT ![i] = lockKey[i] \ {k \in lockKey[i] : Matches(c, k)}]
        <3>1. PICK executed \in BOOLEAN, answered \in BOOLEAN :
                /\ Command(c, i, executed, answered)
                /\ executed =>
                     lockKey' = [lockKey EXCEPT ![i] = @ \ {k \in lockKey[i] : Matches(c, k)}]
            BY <1>11 DEF UnlockInstance
        <3>2. executed
            <4>1. faults \in Nat  BY Constants DEF TypeOK
            <4> QED  BY <3>1, <4>1 DEF Command
        <3> QED  BY <1>11, <3>1, <3>2 DEF UnlockInstance, Command
    <2> SUFFICES ASSUME NEW j \in Instances, NEW k \in lockKey'[j]
                 PROVE  KeyAwaitsItsCall(j, k)'
        OBVIOUS
    <2>2. k \in lockKey[j] /\ (j = i => ~Matches(c, k))  BY <2>1 DEF TypeOK
    <2>3. k.token = token[k.by] /\ Owes(j, k.by) /\ k.by \in Clients
        BY <1>1, <2>2 DEF KeyAwaitsItsCall
    <2>4. k.by # c \/ j # i  BY <2>2, <2>3 DEF Matches
    <2>5. Kept(j, k.by)  BY <2>1, <2>3, <2>4 DEF TypeOK
    <2> QED  BY <1>2, <2>2, <2>5
<1>12. ASSUME NEW i \in Instances, Expire(i) PROVE Goal
    BY <1>3, <1>12 DEF Expire, local, TypeOK
<1>13. CASE UNCHANGED vars
    BY <1>3, <1>13 DEF vars, keys, local
<1> QED
    BY <1>4, <1>5, <1>6, <1>7, <1>8, <1>9, <1>10, <1>11, <1>12, <1>13 DEF Next

\* The clients delete each other's locks, whose tokens may be the same, but until
\* a command fails no lock stays when the call that set it is over.
THEOREM ClientOwners == Spec => []KeysHaveLiveOwners
<1>1. Init => OwnerInv
    BY TypeInit DEF Init, OwnerInv
<1>2. OwnerInv => KeysHaveLiveOwners
    BY DEF OwnerInv, KeyAwaitsItsCall, Owes, KeysHaveLiveOwners
<1> QED  BY <1>1, <1>2, OwnerStep, PTL DEF Spec
=============================================================================
