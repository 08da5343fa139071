------------------------ MODULE RedlockFencing_proofs ------------------------
(***************************************************************************)
(* What the lock promises, for any number of instances, clients, objects,  *)
(* calls, failures and expiries; then that this and what the fence         *)
(* promises also hold of the two together, and what only the two together  *)
(* promise.                                                                *)
(***************************************************************************)
EXTENDS RedlockFencing, FiniteSetTheorems, TLAPS

-----------------------------------------------------------------------------
(***************************************************************************)
(* The lock.                                                               *)
(***************************************************************************)

\* A call has its locks to count only while it sets them, cleans up or holds.
AcquiredInCall ==
    \A c \in Clients :
        /\ pc[c] \in {"idle", "incr"} => acquired[c] = {}
        /\ pc[c] = "held" => Cardinality(acquired[c]) >= quorum

\* What a client has acquired and not lost is in Redis under its name.
AcquiredIsThere ==
    \A c \in Clients : pc[c] \in {"acquire", "held"} =>
        \A i \in acquired[c] \ lost[c] : OwnersOn(i) = {c}

ExclusionInv == TypeOK /\ AcquiredInCall /\ AcquiredIsThere

\* Client c has a token of its own.
HasToken(c) == pc[c] # "idle" /\ ~(pc[c] = "incr" /\ at[c] = 1)

\* Until a reset the counter of instances[0] is ahead of every token in use.
CounterIsAhead ==
    /\ \A c \in Clients : HasToken(c) => token[c] <= tokenKey[1]
    /\ \A n \in DOMAIN granted : granted[n].token <= tokenKey[1]
    /\ \A i \in Instances : \A k \in lockKey[i] : k.token <= tokenKey[1]

\* Two calls have different tokens, also from those granted and those in Redis.
TokensDiffer ==
    /\ \A c, d \in Clients : HasToken(c) /\ HasToken(d) /\ token[c] = token[d] => c = d
    /\ \A c \in Clients, n \in DOMAIN granted :
         HasToken(c) /\ pc[c] \in {"incr", "acquire"} => token[c] # granted[n].token
    /\ \A c \in Clients, i \in Instances : \A k \in lockKey[i] :
         HasToken(c) /\ k.token = token[c] => k.by = c

TokenInv == TypeOK /\ (resets \/ (CounterIsAhead /\ TokensDiffer /\ TokensUnique))

\* Until a command fails a lock in Redis is that of a call that has yet to count,
\* keep or delete it.
KeyAwaitsItsCall(i, k) ==
    /\ k.token = token[k.by]
    /\ pc[k.by] \in {"acquire", "held", "release", "unlock"}
    /\ pc[k.by] \in {"release", "unlock"} => at[k.by] <= i

OwnerInv == TypeOK /\ (faults = 0 => \A i \in Instances : \A k \in lockKey[i] : KeyAwaitsItsCall(i, k))
-----------------------------------------------------------------------------
LEMMA Constants ==
    /\ NumInstances \in Nat /\ NumInstances > 0 /\ 1 \in Instances
    /\ \A i \in Instances : i \in Nat /\ i >= 1 /\ i <= NumInstances /\ i + 1 \in 1..(NumInstances + 1)
    /\ \A i \in 1..(NumInstances + 1) : i <= NumInstances => i \in Instances
    /\ \A c \in Clients : ObjectOf[c] \in Objects
    /\ MaxLocks \in Nat /\ MaxFaults \in Nat
BY RedlockAssumption DEF Instances

\* Two quorums have an instance in common.
LEMMA QuorumsMeet ==
    ASSUME NEW P \in SUBSET Instances, NEW Q \in SUBSET Instances,
           Cardinality(P) >= quorum, Cardinality(Q) >= quorum
    PROVE  P \cap Q # {}
<1>1. IsFiniteSet(Instances) /\ Cardinality(Instances) = NumInstances
    BY Constants, FS_Interval DEF Instances
<1>2. Cardinality(P) \in Nat /\ Cardinality(Q) \in Nat
    BY <1>1, FS_Subset, FS_CardinalityType
<1>3. Cardinality(P) + Cardinality(Q) > NumInstances
    BY <1>2, Constants DEF quorum
<1> QED BY <1>1, <1>3, FS_MajoritiesIntersect

LEMMA RedlockTypeInit == Init => TypeOK
<1> SUFFICES ASSUME Init PROVE TypeOK
    OBVIOUS
<1> USE Constants DEF Init
<1>1. /\ tokenKey \in [Instances -> Nat]
      /\ lockKey \in [Instances -> SUBSET LockRecord]
      /\ \A i \in Instances : \A k, l \in lockKey[i] : k = l
    OBVIOUS
<1>2. /\ mu \in [Objects -> SUBSET Clients]
      /\ pc \in [Clients -> {"idle", "incr", "acquire", "release", "held", "unlock"}]
      /\ at \in [Clients -> 1..(NumInstances + 1)]
    OBVIOUS
<1>3. /\ token \in [Clients -> Nat]
      /\ acquired \in [Clients -> SUBSET Instances]
      /\ lost \in [Clients -> SUBSET Instances]
    OBVIOUS
<1>4. locks \in 0..MaxLocks /\ faults \in 0..MaxFaults
    OBVIOUS
<1>6. resets \in BOOLEAN
    OBVIOUS
<1>5. granted \in Seq(Grant)
    <2>1. << >> \in Seq(Grant)
        OBVIOUS
    <2> QED BY <2>1
<1> QED BY <1>1, <1>2, <1>3, <1>4, <1>5, <1>6 DEF TypeOK
\* The parts of a step the actions are built from keep their types.
LEMMA PartTypes ==
    ASSUME TypeOK, NEW c \in Clients
    PROVE  /\ \A s \in {"idle", "incr", "acquire", "release", "held", "unlock"} : GoTo(c, s) =>
                /\ pc' \in [Clients -> {"idle", "incr", "acquire", "release", "held", "unlock"}]
                /\ at' \in [Clients -> 1..(NumInstances + 1)]
           /\ \A s : Command(c, s) => at[c] \in Instances
           /\ \A s : Command(c, s) /\ Advance(c) => at' \in [Clients -> 1..(NumInstances + 1)]
           /\ Return(c) => /\ token' \in [Clients -> Nat]
                           /\ acquired' \in [Clients -> SUBSET Instances]
           /\ FreeMutex(c) => mu' \in [Objects -> SUBSET Clients]
           /\ \A i \in Instances : \A S : LostOn(i, S) => lost' \in [Clients -> SUBSET Instances]
           /\ \A x, y \in BOOLEAN : Outcome(x, y) => faults' \in 0..MaxFaults
<1> USE Constants DEF TypeOK
<1>1. \A s \in {"idle", "incr", "acquire", "release", "held", "unlock"} : GoTo(c, s) =>
        /\ pc' \in [Clients -> {"idle", "incr", "acquire", "release", "held", "unlock"}]
        /\ at' \in [Clients -> 1..(NumInstances + 1)]
    BY DEF GoTo
<1>2. \A s : Command(c, s) => at[c] \in Instances
    BY DEF Command
<1>3. \A s : Command(c, s) /\ Advance(c) => at' \in [Clients -> 1..(NumInstances + 1)]
    BY <1>2 DEF Advance
<1>4. Return(c) => token' \in [Clients -> Nat] /\ acquired' \in [Clients -> SUBSET Instances]
    BY DEF Return
<1>5. FreeMutex(c) => mu' \in [Objects -> SUBSET Clients]
    BY DEF FreeMutex
<1>6. \A i \in Instances : \A S : LostOn(i, S) => lost' \in [Clients -> SUBSET Instances]
    <2> SUFFICES ASSUME NEW i \in Instances, NEW S, LostOn(i, S) PROVE lost' \in [Clients -> SUBSET Instances]
        OBVIOUS
    <2>1. \A d \in Clients : lost[d] \in SUBSET Instances /\ lost[d] \cup {i} \in SUBSET Instances
        OBVIOUS
    <2> QED BY <2>1 DEF LostOn
<1>7. \A x, y \in BOOLEAN : Outcome(x, y) => faults' \in 0..MaxFaults
    BY DEF Outcome
<1> QED BY <1>1, <1>2, <1>3, <1>4, <1>5, <1>6, <1>7

\* One instance's lock is replaced, or none.
LEMMA LockKeyTypes ==
    ASSUME TypeOK, NEW i \in Instances, NEW L \in SUBSET LockRecord, \A k, l \in L : k = l,
           lockKey' = lockKey \/ lockKey' = [lockKey EXCEPT ![i] = L]
    PROVE  /\ lockKey' \in [Instances -> SUBSET LockRecord]
           /\ \A j \in Instances : \A k, l \in lockKey'[j] : k = l
<1>1. lockKey \in [Instances -> SUBSET LockRecord] /\ \A j \in Instances : \A k, l \in lockKey[j] : k = l
    BY DEF TypeOK
<1>2. CASE lockKey' = lockKey
    BY <1>1, <1>2
<1>3. CASE lockKey' = [lockKey EXCEPT ![i] = L]
    BY <1>1, <1>3
<1> QED BY <1>2, <1>3

LEMMA RedlockTypeStep == TypeOK /\ [Next]_vars => TypeOK'
<1> SUFFICES ASSUME TypeOK, [Next]_vars PROVE TypeOK'
    OBVIOUS
<1> USE Constants
<1>1. CASE UNCHANGED vars
    BY <1>1 DEF vars, keys, local, history, TypeOK
<1>2. ASSUME NEW c \in Clients, Lock(c) PROVE TypeOK'
    <2>1. /\ pc' \in [Clients -> {"idle", "incr", "acquire", "release", "held", "unlock"}]
          /\ at' \in [Clients -> 1..(NumInstances + 1)]
        BY <1>2, PartTypes DEF Lock
    <2>2. mu' \in [Objects -> SUBSET Clients] /\ locks' \in 0..MaxLocks /\ lost' \in [Clients -> SUBSET Instances]
        BY <1>2 DEF Lock, TypeOK
    <2> QED BY <1>2, <2>1, <2>2 DEF Lock, TypeOK, keys
<1>3. ASSUME NEW c \in Clients, Incr(c) PROVE TypeOK'
    <2>1. PICK executed \in BOOLEAN, answered \in BOOLEAN :
            /\ Outcome(executed, answered)
            /\ tokenKey' = IF executed THEN [tokenKey EXCEPT ![at[c]] = NextCount(at[c])] ELSE tokenKey
            /\ IF at[c] = 1 /\ ~answered
                 THEN Return(c) /\ FreeMutex(c)
                 ELSE /\ Advance(c)
                      /\ token' = IF at[c] = 1 THEN [token EXCEPT ![c] = NextCount(1)] ELSE token
                      /\ UNCHANGED <<pc, mu, acquired>>
        BY <1>3 DEF Incr
    <2>2. Command(c, "incr") /\ at[c] \in Instances /\ UNCHANGED <<lockKey, locks, lost, resets, granted>>
        BY <1>3, PartTypes DEF Incr, history
    <2>3. tokenKey' \in [Instances -> Nat]
        BY <2>1, <2>2 DEF NextCount, TypeOK
    <2>6. faults' \in 0..MaxFaults
        BY <2>1, PartTypes
    <2>4. /\ pc' \in [Clients -> {"idle", "incr", "acquire", "release", "held", "unlock"}]
          /\ at' \in [Clients -> 1..(NumInstances + 1)]
          /\ mu' \in [Objects -> SUBSET Clients]
          /\ acquired' \in [Clients -> SUBSET Instances]
        BY <2>1, <2>2, PartTypes DEF Return, TypeOK
    <2>5. token' \in [Clients -> Nat]
        <3>1. NextCount(1) \in Nat
            BY DEF NextCount, TypeOK
        <3> QED BY <2>1, <3>1, PartTypes DEF TypeOK
    <2> QED BY <2>2, <2>3, <2>4, <2>5, <2>6 DEF TypeOK
<1>4. ASSUME NEW c \in Clients, StartAcquire(c) PROVE TypeOK'
    <2>1. /\ pc' \in [Clients -> {"idle", "incr", "acquire", "release", "held", "unlock"}]
          /\ at' \in [Clients -> 1..(NumInstances + 1)]
        BY <1>4, PartTypes DEF StartAcquire
    <2> QED BY <1>4, <2>1 DEF StartAcquire, TypeOK, keys, history
<1>5. ASSUME NEW c \in Clients, TryAcquire(c) PROVE TypeOK'
    <2>1. /\ Command(c, "acquire") /\ at[c] \in Instances /\ Advance(c)
          /\ UNCHANGED <<tokenKey, mu, pc, token, locks, lost, resets, granted>>
        BY <1>5, PartTypes DEF TryAcquire, history
    <2>2. faults' \in 0..MaxFaults /\ at' \in [Clients -> 1..(NumInstances + 1)]
        BY <1>5, <2>1, PartTypes DEF TryAcquire
    <2>3. acquired' \in [Clients -> SUBSET Instances]
        BY <1>5, <2>1 DEF TryAcquire, TypeOK
    <2>4. [token |-> token[c], by |-> c] \in LockRecord
        BY DEF LockRecord, TypeOK
    <2>5. lockKey' = lockKey \/ lockKey' = [lockKey EXCEPT ![at[c]] = {[token |-> token[c], by |-> c]}]
        BY <1>5 DEF TryAcquire
    <2>6. lockKey' \in [Instances -> SUBSET LockRecord] /\ \A i \in Instances : \A k, l \in lockKey'[i] : k = l
        <3> DEFINE L == {[token |-> token[c], by |-> c]}
        <3>1. L \in SUBSET LockRecord /\ \A k, l \in L : k = l
            BY <2>4
        <3>2. lockKey' = lockKey \/ lockKey' = [lockKey EXCEPT ![at[c]] = L]
            BY <2>5
        <3> HIDE DEF L
        <3> QED BY <2>1, <3>1, <3>2, LockKeyTypes
    <2> QED BY <2>1, <2>2, <2>3, <2>6 DEF TypeOK
<1>6. ASSUME NEW c \in Clients, Decide(c) PROVE TypeOK'
    <2>1. [token |-> token[c], by |-> c] \in Grant
        BY DEF Grant, LockRecord, TypeOK
    <2>2. granted' \in Seq(Grant)
        <3>1. granted \in Seq(Grant)
            BY DEF TypeOK
        <3>2. Append(granted, [token |-> token[c], by |-> c]) \in Seq(Grant)
            BY <2>1, <3>1
        <3> QED BY <1>6, <3>1, <3>2 DEF Decide
    <2>3. mu' \in [Objects -> SUBSET Clients]
        BY <1>6, PartTypes DEF Decide, TypeOK
    <2>4. /\ pc' \in [Clients -> {"idle", "incr", "acquire", "release", "held", "unlock"}]
          /\ at' \in [Clients -> 1..(NumInstances + 1)]
        BY <1>6, PartTypes DEF Decide
    <2> QED BY <1>6, <2>2, <2>3, <2>4 DEF Decide, TypeOK, keys
<1>7. ASSUME NEW c \in Clients, ForceRelease(c) PROVE TypeOK'
    <2>1. at[c] \in Instances /\ Command(c, "release") /\ UNCHANGED <<locks, granted>>
        BY <1>7, PartTypes DEF ForceRelease
    <2>2. tokenKey' \in [Instances -> Nat]
        <3>1. tokenKey' = tokenKey \/ tokenKey' = [tokenKey EXCEPT ![at[c]] = 0]
            BY <1>7 DEF ForceRelease, keys
        <3>2. tokenKey \in [Instances -> Nat]
            BY DEF TypeOK
        <3> QED BY <3>1, <3>2
    <2>7. resets' \in BOOLEAN
        BY <1>7 DEF ForceRelease, TypeOK
    <2>8. lost' \in [Clients -> SUBSET Instances]
        BY <1>7, <2>1, PartTypes DEF ForceRelease, TypeOK
    <2>3. lockKey' = lockKey \/ lockKey' = [lockKey EXCEPT ![at[c]] = @ \ DeletedBy(c, at[c])]
        BY <1>7 DEF ForceRelease, keys
    <2>4. lockKey' \in [Instances -> SUBSET LockRecord] /\ \A i \in Instances : \A k, l \in lockKey'[i] : k = l
        <3> DEFINE L == lockKey[at[c]] \ DeletedBy(c, at[c])
        <3>1. L \in SUBSET LockRecord /\ \A k, l \in L : k = l
            BY <2>1 DEF TypeOK
        <3>2. lockKey' = lockKey \/ lockKey' = [lockKey EXCEPT ![at[c]] = L]
            BY <2>3
        <3> HIDE DEF L
        <3> QED BY <2>1, <3>1, <3>2, LockKeyTypes
    <2>5. faults' \in 0..MaxFaults
        BY <1>7, PartTypes DEF ForceRelease
    <2>6. /\ pc' \in [Clients -> {"idle", "incr", "acquire", "release", "held", "unlock"}]
          /\ at' \in [Clients -> 1..(NumInstances + 1)]
          /\ mu' \in [Objects -> SUBSET Clients]
          /\ token' \in [Clients -> Nat] /\ acquired' \in [Clients -> SUBSET Instances]
        BY <1>7, <2>1, PartTypes DEF ForceRelease, Return, TypeOK
    <2> QED BY <2>1, <2>2, <2>4, <2>5, <2>6, <2>7, <2>8 DEF TypeOK
<1>8. ASSUME NEW c \in Clients, StartUnlock(c) PROVE TypeOK'
    <2>1. /\ pc' \in [Clients -> {"idle", "incr", "acquire", "release", "held", "unlock"}]
          /\ at' \in [Clients -> 1..(NumInstances + 1)]
        BY <1>8, PartTypes DEF StartUnlock
    <2> QED BY <1>8, <2>1 DEF StartUnlock, TypeOK, keys, history
<1>9. ASSUME NEW c \in Clients, Unlock(c) PROVE TypeOK'
    <2>1. at[c] \in Instances /\ Command(c, "unlock") /\ UNCHANGED <<tokenKey, mu, locks, resets, granted>>
        BY <1>9, PartTypes DEF Unlock
    <2>2. lost' \in [Clients -> SUBSET Instances]
        BY <1>9, <2>1, PartTypes DEF Unlock, TypeOK
    <2>3. lockKey' = lockKey \/ lockKey' = [lockKey EXCEPT ![at[c]] = @ \ {k \in lockKey[at[c]] : Matches(c, k)}]
        BY <1>9 DEF Unlock
    <2>4. lockKey' \in [Instances -> SUBSET LockRecord] /\ \A i \in Instances : \A k, l \in lockKey'[i] : k = l
        <3> DEFINE L == lockKey[at[c]] \ {k \in lockKey[at[c]] : Matches(c, k)}
        <3>1. L \in SUBSET LockRecord /\ \A k, l \in L : k = l
            BY <2>1 DEF TypeOK
        <3>2. lockKey' = lockKey \/ lockKey' = [lockKey EXCEPT ![at[c]] = L]
            BY <2>3
        <3> HIDE DEF L
        <3> QED BY <2>1, <3>1, <3>2, LockKeyTypes
    <2>5. faults' \in 0..MaxFaults
        BY <1>9, PartTypes DEF Unlock
    <2>6. /\ pc' \in [Clients -> {"idle", "incr", "acquire", "release", "held", "unlock"}]
          /\ at' \in [Clients -> 1..(NumInstances + 1)]
          /\ token' \in [Clients -> Nat] /\ acquired' \in [Clients -> SUBSET Instances]
        BY <1>9, <2>1, PartTypes DEF Unlock, Return, TypeOK
    <2> QED BY <2>1, <2>2, <2>4, <2>5, <2>6 DEF TypeOK
<1>10. ASSUME NEW i \in Instances, Expire(i) PROVE TypeOK'
    <2>1. lost' \in [Clients -> SUBSET Instances]
        BY <1>10 DEF Expire, LostOn, TypeOK
    <2>2. lockKey' \in [Instances -> SUBSET LockRecord] /\ \A j \in Instances : \A k, l \in lockKey'[j] : k = l
        BY <1>10 DEF Expire, TypeOK
    <2> QED BY <1>10, <2>1, <2>2 DEF Expire, TypeOK, local
<1> QED BY <1>1, <1>2, <1>3, <1>4, <1>5, <1>6, <1>7, <1>8, <1>9, <1>10 DEF Next, ClientStep
\* Type correctness, for any parameters.
THEOREM RedlockTypeCorrect == Spec => []TypeOK
BY RedlockTypeInit, RedlockTypeStep, PTL DEF Spec
-----------------------------------------------------------------------------
LEMMA AcquiredStep == TypeOK /\ TypeOK' /\ AcquiredInCall /\ [Next]_vars => AcquiredInCall'
<1> SUFFICES ASSUME TypeOK, TypeOK', AcquiredInCall, [Next]_vars PROVE AcquiredInCall'
    OBVIOUS
<1> USE DEF AcquiredInCall
<1>1. CASE UNCHANGED vars
    BY <1>1 DEF vars, local
<1>2. ASSUME NEW c \in Clients, Lock(c) PROVE AcquiredInCall'
    BY <1>2 DEF Lock, GoTo, TypeOK
<1>3. ASSUME NEW c \in Clients, Incr(c) PROVE AcquiredInCall'
    <2>1. pc[c] = "incr" /\ (UNCHANGED <<pc, acquired>> \/ Return(c))
        BY <1>3 DEF Incr, Command
    <2> QED BY <2>1 DEF Return, GoTo, TypeOK
<1>4. ASSUME NEW c \in Clients, StartAcquire(c) PROVE AcquiredInCall'
    BY <1>4 DEF StartAcquire, GoTo, TypeOK
<1>5. ASSUME NEW c \in Clients, TryAcquire(c) PROVE AcquiredInCall'
    <2>1. pc[c] = "acquire" /\ UNCHANGED pc /\ \A d \in Clients \ {c} : acquired'[d] = acquired[d]
        BY <1>5 DEF TryAcquire, Command, TypeOK
    <2> QED BY <2>1
<1>6. ASSUME NEW c \in Clients, Decide(c) PROVE AcquiredInCall'
    BY <1>6 DEF Decide, GoTo, TypeOK
<1>7. ASSUME NEW c \in Clients, ForceRelease(c) PROVE AcquiredInCall'
    <2>1. pc[c] = "release" /\ (UNCHANGED <<pc, acquired>> \/ Return(c))
        BY <1>7 DEF ForceRelease, Command
    <2> QED BY <2>1 DEF Return, GoTo, TypeOK
<1>8. ASSUME NEW c \in Clients, StartUnlock(c) PROVE AcquiredInCall'
    BY <1>8 DEF StartUnlock, GoTo, TypeOK
<1>9. ASSUME NEW c \in Clients, Unlock(c) PROVE AcquiredInCall'
    <2>1. pc[c] = "unlock" /\ (UNCHANGED <<pc, acquired>> \/ Return(c))
        BY <1>9 DEF Unlock, Command
    <2> QED BY <2>1 DEF Return, GoTo, TypeOK
<1>10. ASSUME NEW i \in Instances, Expire(i) PROVE AcquiredInCall'
    BY <1>10 DEF Expire, local
<1> QED BY <1>1, <1>2, <1>3, <1>4, <1>5, <1>6, <1>7, <1>8, <1>9, <1>10 DEF Next, ClientStep

\* A step that leaves the locks alone keeps AcquiredIsThere.
LEMMA LocksLeftAlone ==
    ASSUME AcquiredIsThere, UNCHANGED lockKey,
           \A d \in Clients : pc'[d] \in {"acquire", "held"} =>
               \/ pc[d] \in {"acquire", "held"} /\ acquired'[d] = acquired[d] /\ lost'[d] = lost[d]
               \/ acquired'[d] = {}
    PROVE  AcquiredIsThere'
<1>1. \A j : OwnersOn(j)' = OwnersOn(j)
    BY DEF OwnersOn
<1> QED BY <1>1 DEF AcquiredIsThere

\* A step that changes one instance's lock keeps AcquiredIsThere if those whose lock
\* it was notice, those in T apart, who have no more use for it.
LEMMA TakenIsNoticed ==
    ASSUME TypeOK, AcquiredIsThere, NEW i \in Instances, NEW S, NEW T,
           \A j \in Instances \ {i} : lockKey'[j] = lockKey[j],
           lockKey'[i] = lockKey[i] \/ (LostOn(i, S) /\ OwnersOn(i) \ T \subseteq S),
           UNCHANGED lost \/ LostOn(i, S),
           \A d \in Clients : pc'[d] \in {"acquire", "held"} =>
               pc'[d] = pc[d] /\ d \notin T /\ acquired'[d] = acquired[d]
    PROVE  AcquiredIsThere'
<1> SUFFICES ASSUME NEW d \in Clients, pc'[d] \in {"acquire", "held"}, NEW j \in acquired'[d] \ lost'[d]
             PROVE  OwnersOn(j)' = {d}
    BY DEF AcquiredIsThere
<1>1. pc[d] \in {"acquire", "held"} /\ d \notin T /\ j \in acquired[d] /\ j \in Instances
    BY DEF TypeOK
<1>2. lost[d] \subseteq lost'[d]
    <2>1. lost' = lost \/ LostOn(i, S)
        OBVIOUS
    <2>2. CASE LostOn(i, S)
        BY <2>2 DEF LostOn
    <2> QED BY <2>1, <2>2
<1>3. OwnersOn(j) = {d}
    BY <1>1, <1>2 DEF AcquiredIsThere
<1>4. lockKey'[j] = lockKey[j]
    <2>1. SUFFICES ASSUME j = i, lockKey'[i] # lockKey[i] PROVE FALSE
        BY <1>1
    <2>2. d \in S /\ LostOn(i, S)
        BY <1>1, <1>3, <2>1
    <2> QED BY <1>1, <2>1, <2>2 DEF LostOn, TypeOK
<1> QED BY <1>3, <1>4 DEF OwnersOn

LEMMA ThereStep == ExclusionInv /\ [Next]_vars => AcquiredIsThere'
<1> SUFFICES ASSUME ExclusionInv, [Next]_vars PROVE AcquiredIsThere'
    OBVIOUS
<1> USE DEF ExclusionInv
<1>1. CASE UNCHANGED vars
    BY <1>1, LocksLeftAlone DEF vars, keys, local, history
<1>2. ASSUME NEW c \in Clients, Lock(c) PROVE AcquiredIsThere'
    <2>1. \A d \in Clients : pc'[d] \in {"acquire", "held"} =>
            pc[d] \in {"acquire", "held"} /\ acquired'[d] = acquired[d] /\ lost'[d] = lost[d]
        BY <1>2 DEF Lock, GoTo, TypeOK
    <2> QED BY <1>2, <2>1, LocksLeftAlone DEF Lock, keys
<1>3. ASSUME NEW c \in Clients, Incr(c) PROVE AcquiredIsThere'
    <2>1. pc[c] = "incr" /\ (UNCHANGED <<pc, acquired>> \/ Return(c)) /\ UNCHANGED <<lockKey, lost>>
        BY <1>3 DEF Incr, Command, history
    <2>2. \A d \in Clients : pc'[d] \in {"acquire", "held"} =>
            pc[d] \in {"acquire", "held"} /\ acquired'[d] = acquired[d] /\ lost'[d] = lost[d]
        BY <2>1 DEF Return, GoTo, TypeOK
    <2> QED BY <2>1, <2>2, LocksLeftAlone
<1>4. ASSUME NEW c \in Clients, StartAcquire(c) PROVE AcquiredIsThere'
    <2>1. acquired[c] = {}
        BY <1>4 DEF StartAcquire, LoopDone, AcquiredInCall
    <2>2. \A d \in Clients : pc'[d] \in {"acquire", "held"} =>
            \/ pc[d] \in {"acquire", "held"} /\ acquired'[d] = acquired[d] /\ lost'[d] = lost[d]
            \/ acquired'[d] = {}
        BY <1>4, <2>1 DEF StartAcquire, GoTo, history, TypeOK
    <2> QED BY <1>4, <2>2, LocksLeftAlone DEF StartAcquire, keys
<1>5. ASSUME NEW c \in Clients, TryAcquire(c) PROVE AcquiredIsThere'
    <2>0. PICK i \in Instances : i = at[c]
        BY <1>5, PartTypes DEF TryAcquire
    <2>1. i \in Instances /\ pc[c] = "acquire" /\ UNCHANGED <<pc, lost>>
        BY <1>5 DEF TryAcquire, Command, history
    <2>2. \/ lockKey' = lockKey /\ acquired' = acquired
          \/ /\ lockKey[i] = {} /\ lockKey' = [lockKey EXCEPT ![i] = {[token |-> token[c], by |-> c]}]
             /\ acquired' = acquired \/ acquired' = [acquired EXCEPT ![c] = @ \cup {i}]
        BY <1>5, <2>0 DEF TryAcquire, Outcome, Vacant
    <2>3. CASE lockKey' = lockKey /\ acquired' = acquired
        BY <2>1, <2>3 DEF AcquiredIsThere, OwnersOn
    <2>4. CASE /\ lockKey[i] = {} /\ lockKey' = [lockKey EXCEPT ![i] = {[token |-> token[c], by |-> c]}]
               /\ acquired' = acquired \/ acquired' = [acquired EXCEPT ![c] = @ \cup {i}]
        <3>1. lockKey'[i] = {[token |-> token[c], by |-> c]} /\ \A j \in Instances \ {i} : lockKey'[j] = lockKey[j]
            BY <2>1, <2>4 DEF TypeOK
        <3>5. OwnersOn(i)' = {c}
            <4> DEFINE rec == [token |-> token[c], by |-> c]
            <4>1. lockKey'[i] = {rec} /\ rec.by = c
                BY <3>1
            <4> HIDE DEF rec
            <4> QED BY <4>1 DEF OwnersOn
        <3>6. OwnersOn(i) = {}
            BY <2>4 DEF OwnersOn
        <3>7. \A j \in Instances \ {i} : OwnersOn(j)' = OwnersOn(j)
            BY <3>1 DEF OwnersOn
        <3>2. OwnersOn(i)' = {c} /\ OwnersOn(i) = {} /\ \A j \in Instances \ {i} : OwnersOn(j)' = OwnersOn(j)
            BY <3>5, <3>6, <3>7
        <3>3. \A d \in Clients : \A j \in acquired'[d] : j \in Instances /\ (j \in acquired[d] \/ (d = c /\ j = i))
            BY <2>1, <2>4 DEF TypeOK
        <3>4. \A d \in Clients : pc[d] \in {"acquire", "held"} => i \notin acquired[d] \ lost[d]
            BY <3>2 DEF AcquiredIsThere
        <3>8. ASSUME NEW d \in Clients, pc'[d] \in {"acquire", "held"}, NEW j \in acquired'[d] \ lost'[d]
              PROVE  OwnersOn(j)' = {d}
            <4>1. CASE d = c /\ j = i
                BY <3>5, <4>1
            <4>2. CASE j \in acquired[d]
                <5>1. j \in Instances /\ OwnersOn(j) = {d}
                    BY <2>1, <3>3, <3>8, <4>2 DEF AcquiredIsThere
                <5>2. j # i
                    BY <2>1, <3>4, <3>8, <4>2
                <5> QED BY <3>7, <5>1, <5>2
            <4> QED BY <3>3, <3>8, <4>1, <4>2
        <3> QED BY <3>8 DEF AcquiredIsThere
    <2> QED BY <2>2, <2>3, <2>4
<1>6. ASSUME NEW c \in Clients, Decide(c) PROVE AcquiredIsThere'
    <2>1. \A d \in Clients : pc'[d] \in {"acquire", "held"} =>
            pc[d] \in {"acquire", "held"} /\ acquired'[d] = acquired[d] /\ lost'[d] = lost[d]
        BY <1>6 DEF Decide, LoopDone, GoTo, TypeOK
    <2> QED BY <1>6, <2>1, LocksLeftAlone DEF Decide, keys
<1>7. ASSUME NEW c \in Clients, ForceRelease(c) PROVE AcquiredIsThere'
    <2> DEFINE i == at[c]
               S == OwnersOn(i) \ {c}
    <2>1. i \in Instances /\ pc[c] = "release" /\ (UNCHANGED <<pc, acquired>> \/ Return(c))
        BY <1>7, PartTypes DEF ForceRelease, Command
    <2>2. \A d \in Clients : pc'[d] \in {"acquire", "held"} => pc'[d] = pc[d] /\ d # c /\ acquired'[d] = acquired[d]
        BY <2>1 DEF Return, GoTo, TypeOK
    <2>3. \/ UNCHANGED <<lockKey, lost>>
          \/ lockKey' = [lockKey EXCEPT ![i] = @ \ DeletedBy(c, i)] /\ LostOn(i, S)
        BY <1>7 DEF ForceRelease, keys
    <2>4. \A j \in Instances \ {i} : lockKey'[j] = lockKey[j]
        BY <2>3 DEF TypeOK
    <2>5. S = OwnersOn(i) \ {c}
        OBVIOUS
    <2> HIDE DEF S
    <2>6. lockKey'[i] = lockKey[i] \/ (LostOn(i, S) /\ OwnersOn(i) \ {c} \subseteq S)
        BY <2>3, <2>5
    <2>7. UNCHANGED lost \/ LostOn(i, S)
        BY <2>3
    <2>8. \A d \in Clients : pc'[d] \in {"acquire", "held"} => pc'[d] = pc[d] /\ d \notin {c} /\ acquired'[d] = acquired[d]
        BY <2>2
    <2> QED BY <2>1, <2>4, <2>6, <2>7, <2>8, TakenIsNoticed
<1>8. ASSUME NEW c \in Clients, StartUnlock(c) PROVE AcquiredIsThere'
    <2>1. \A d \in Clients : pc'[d] \in {"acquire", "held"} =>
            pc[d] \in {"acquire", "held"} /\ acquired'[d] = acquired[d] /\ lost'[d] = lost[d]
        BY <1>8 DEF StartUnlock, GoTo, history, TypeOK
    <2> QED BY <1>8, <2>1, LocksLeftAlone DEF StartUnlock, keys
<1>9. ASSUME NEW c \in Clients, Unlock(c) PROVE AcquiredIsThere'
    <2> DEFINE i == at[c]
               mine == {k \in lockKey[i] : Matches(c, k)}
               S == {k.by : k \in mine} \ {c}
    <2>1. i \in Instances /\ pc[c] = "unlock" /\ (UNCHANGED <<pc, acquired>> \/ Return(c))
        BY <1>9, PartTypes DEF Unlock, Command
    <2>2. \A d \in Clients : pc'[d] \in {"acquire", "held"} => pc'[d] = pc[d] /\ d # c /\ acquired'[d] = acquired[d]
        BY <2>1 DEF Return, GoTo, TypeOK
    <2>3. \/ UNCHANGED <<lockKey, lost>>
          \/ lockKey' = [lockKey EXCEPT ![i] = @ \ mine] /\ LostOn(i, S)
        BY <1>9 DEF Unlock
    <2>4. \A j \in Instances \ {i} : lockKey'[j] = lockKey[j]
        BY <2>3 DEF TypeOK
    <2>5. lockKey'[i] = lockKey[i] \/ mine # {}
        <3>1. lockKey'[i] = lockKey[i] \/ lockKey'[i] = lockKey[i] \ mine
            BY <2>1, <2>3 DEF TypeOK
        <3>2. mine = {} => lockKey[i] \ mine = lockKey[i]
            OBVIOUS
        <3> QED BY <3>1, <3>2
    <2>6. mine # {} => OwnersOn(i) \ {c} \subseteq S
        <3>1. \A k, l \in lockKey[i] : k = l
            BY <2>1 DEF TypeOK
        <3> QED BY <3>1 DEF OwnersOn
    <2> HIDE DEF S, mine
    <2>7. lockKey'[i] = lockKey[i] \/ (LostOn(i, S) /\ OwnersOn(i) \ {c} \subseteq S)
        BY <2>3, <2>5, <2>6
    <2>8. UNCHANGED lost \/ LostOn(i, S)
        BY <2>3
    <2>9. \A d \in Clients : pc'[d] \in {"acquire", "held"} => pc'[d] = pc[d] /\ d \notin {c} /\ acquired'[d] = acquired[d]
        BY <2>2
    <2> QED BY <2>1, <2>4, <2>7, <2>8, <2>9, TakenIsNoticed
<1>10. ASSUME NEW i \in Instances, Expire(i) PROVE AcquiredIsThere'
    <2>1. LostOn(i, OwnersOn(i)) /\ UNCHANGED <<pc, acquired>> /\ \A j \in Instances \ {i} : lockKey'[j] = lockKey[j]
        BY <1>10 DEF Expire, local, TypeOK
    <2>2. PICK S : LostOn(i, S) /\ S = OwnersOn(i)
        BY <2>1
    <2>3. PICK T : T = {}
        OBVIOUS
    <2>4. \A d \in Clients : pc'[d] \in {"acquire", "held"} => pc'[d] = pc[d] /\ d \notin T /\ acquired'[d] = acquired[d]
        BY <2>1, <2>3
    <2>5. lockKey'[i] = lockKey[i] \/ (LostOn(i, S) /\ OwnersOn(i) \ T \subseteq S)
        BY <2>2, <2>3
    <2>6. UNCHANGED lost \/ LostOn(i, S)
        BY <2>2
    <2> QED BY <2>1, <2>4, <2>5, <2>6, TakenIsNoticed
<1> QED BY <1>1, <1>2, <1>3, <1>4, <1>5, <1>6, <1>7, <1>8, <1>9, <1>10 DEF Next, ClientStep

LEMMA ExclusionInit == Init => ExclusionInv
<1> SUFFICES ASSUME Init PROVE ExclusionInv
    OBVIOUS
<1>1. \A c \in Clients : pc[c] = "idle" /\ acquired[c] = {}
    BY DEF Init
<1> QED BY <1>1, RedlockTypeInit DEF ExclusionInv, AcquiredInCall, AcquiredIsThere

LEMMA ExclusionStep == ExclusionInv /\ [Next]_vars => ExclusionInv'
BY RedlockTypeStep, AcquiredStep, ThereStep DEF ExclusionInv

LEMMA ExclusionFollows == ExclusionInv => ExclusionLostOnlyByDeletion
<1> SUFFICES ASSUME ExclusionInv, NEW c \in Clients, NEW d \in Clients, Holds(c), Holds(d), c # d
             PROVE  \E i \in acquired[c] \cap acquired[d] : i \in lost[c] \cup lost[d]
    BY DEF ExclusionLostOnlyByDeletion
<1>1. acquired[c] \cap acquired[d] # {}
    BY QuorumsMeet DEF ExclusionInv, TypeOK, AcquiredInCall, Holds
<1>2. PICK i \in acquired[c] \cap acquired[d] : TRUE
    BY <1>1
<1>3. i \in lost[c] \/ OwnersOn(i) = {c}
    BY <1>2 DEF ExclusionInv, AcquiredIsThere, Holds
<1>4. i \in lost[d] \/ OwnersOn(i) = {d}
    BY <1>2 DEF ExclusionInv, AcquiredIsThere, Holds
<1> QED BY <1>2, <1>3, <1>4

\* Two holders at a time have an instance in common, and one of them has lost its key
\* there: no order of commands, failures and expiries lets a second client in otherwise.
THEOREM ExclusionHolds == Spec => []ExclusionLostOnlyByDeletion
BY ExclusionInit, ExclusionStep, ExclusionFollows, PTL DEF Spec
-----------------------------------------------------------------------------
LEMMA TokensAreNat ==
    ASSUME TypeOK
    PROVE  /\ tokenKey[1] \in Nat /\ \A c \in Clients : token[c] \in Nat
           /\ \A n \in DOMAIN granted : granted[n].token \in Nat
           /\ \A i \in Instances : \A k \in lockKey[i] : k.token \in Nat
<1>1. tokenKey[1] \in Nat /\ \A c \in Clients : token[c] \in Nat
    BY Constants DEF TypeOK
<1>2. \A n \in DOMAIN granted : granted[n].token \in Nat
    <2>1. granted \in Seq(Grant)
        BY DEF TypeOK
    <2>2. \A n \in DOMAIN granted : granted[n] \in Grant
        BY <2>1
    <2> QED BY <2>2 DEF Grant, LockRecord
<1>3. \A i \in Instances : \A k \in lockKey[i] : k.token \in Nat
    <2>1. \A i \in Instances : \A k \in lockKey[i] : k \in LockRecord
        BY DEF TypeOK
    <2> QED BY <2>1 DEF LockRecord
<1> QED BY <1>1, <1>2, <1>3

\* Deleting from one instance's lock.
LEMMA Deleted ==
    ASSUME TypeOK, NEW i \in Instances, NEW D,
           lockKey' = lockKey \/ lockKey' = [lockKey EXCEPT ![i] = @ \ D]
    PROVE  \A j \in Instances : lockKey'[j] \subseteq lockKey[j]
<1> TAKE j \in Instances
<1>1. lockKey'[j] = lockKey[j] \/ lockKey'[j] = lockKey[j] \ D
    BY DEF TypeOK
<1> QED BY <1>1

\* A step that raises no counter, sets no lock and grants nothing keeps what is said
\* of tokens.
LEMMA TokensLeftAlone ==
    ASSUME TypeOK, CounterIsAhead, TokensDiffer, TokensUnique,
           tokenKey'[1] >= tokenKey[1], tokenKey'[1] \in Nat, UNCHANGED granted,
           \A i \in Instances : lockKey'[i] \subseteq lockKey[i],
           \A c \in Clients : HasToken(c)' =>
               /\ HasToken(c) /\ token'[c] = token[c]
               /\ pc'[c] \in {"incr", "acquire"} => pc[c] \in {"incr", "acquire"}
    PROVE  CounterIsAhead' /\ TokensDiffer' /\ TokensUnique'
<1>1. /\ tokenKey[1] \in Nat /\ \A c \in Clients : token[c] \in Nat
      /\ \A n \in DOMAIN granted : granted[n].token \in Nat
      /\ \A i \in Instances : \A k \in lockKey[i] : k.token \in Nat
    BY TokensAreNat
<1>2. CounterIsAhead'
    BY <1>1 DEF CounterIsAhead
<1>3. TokensDiffer'
    BY <1>1 DEF TokensDiffer
<1>4. TokensUnique'
    BY DEF TokensUnique
<1> QED BY <1>2, <1>3, <1>4

LEMMA TokenStep ==
    ASSUME TypeOK, TypeOK', CounterIsAhead, TokensDiffer, TokensUnique, Next, ~resets'
    PROVE  CounterIsAhead' /\ TokensDiffer' /\ TokensUnique'
<1>1. /\ tokenKey[1] \in Nat /\ \A c \in Clients : token[c] \in Nat
      /\ \A n \in DOMAIN granted : granted[n].token \in Nat
      /\ \A i \in Instances : \A k \in lockKey[i] : k.token \in Nat
    BY TokensAreNat
<1>2. ASSUME NEW c \in Clients, Lock(c) PROVE CounterIsAhead' /\ TokensDiffer' /\ TokensUnique'
    <2>1. /\ pc' = [pc EXCEPT ![c] = "incr"] /\ at' = [at EXCEPT ![c] = 1]
          /\ UNCHANGED <<tokenKey, lockKey, token, granted>>
        BY <1>2 DEF Lock, GoTo, keys
    <2>2. \A d \in Clients : HasToken(d)' => HasToken(d) /\ pc'[d] = pc[d]
        BY <2>1 DEF HasToken, TypeOK
    <2> QED BY <1>1, <2>1, <2>2, TokensLeftAlone
<1>3. ASSUME NEW c \in Clients, Incr(c) PROVE CounterIsAhead' /\ TokensDiffer' /\ TokensUnique'
    <2>0. PICK i \in Instances : i = at[c]
        BY <1>3, PartTypes DEF Incr
    <2>1. pc[c] = "incr" /\ UNCHANGED <<lockKey, granted>>
        BY <1>3 DEF Incr, Command, history
    <2>2. \/ /\ i # 1 /\ UNCHANGED <<pc, token>> /\ at' = [at EXCEPT ![c] = @ + 1]
             /\ tokenKey' = tokenKey \/ tokenKey' = [tokenKey EXCEPT ![i] = NextCount(i)]
          \/ /\ i = 1 /\ pc' = [pc EXCEPT ![c] = "idle"] /\ token' = [token EXCEPT ![c] = 0]
             /\ tokenKey' = tokenKey \/ tokenKey' = [tokenKey EXCEPT ![i] = NextCount(i)]
             /\ at' = [at EXCEPT ![c] = 1]
          \/ /\ i = 1 /\ UNCHANGED pc /\ token' = [token EXCEPT ![c] = NextCount(1)]
             /\ at' = [at EXCEPT ![c] = @ + 1]
             /\ tokenKey' = [tokenKey EXCEPT ![1] = NextCount(1)]
        BY <1>3, <2>0 DEF Incr, Outcome, Return, GoTo, Advance
    <2>7. tokenKey'[1] \in Nat
        BY Constants DEF TypeOK
    <2>8. tokenKey' = tokenKey \/ tokenKey' = [tokenKey EXCEPT ![i] = NextCount(i)] => tokenKey'[1] >= tokenKey[1]
        <3>1. CASE tokenKey' = tokenKey
            BY <1>1, <3>1
        <3>2. CASE tokenKey' = [tokenKey EXCEPT ![i] = NextCount(i)]
            <4>1. tokenKey'[1] = tokenKey[1] \/ tokenKey'[1] = tokenKey[1] + 1
                BY <3>2, Constants DEF NextCount, TypeOK
            <4> QED BY <1>1, <4>1
        <3> QED BY <3>1, <3>2
    <2>3. tokenKey'[1] \in Nat /\ (tokenKey' = tokenKey \/ tokenKey' = [tokenKey EXCEPT ![i] = NextCount(i)] => tokenKey'[1] >= tokenKey[1])
        BY <2>7, <2>8
    <2>4. CASE /\ i # 1 /\ UNCHANGED <<pc, token>> /\ at' = [at EXCEPT ![c] = @ + 1]
               /\ tokenKey' = tokenKey \/ tokenKey' = [tokenKey EXCEPT ![i] = NextCount(i)]
        <3>1. \A d \in Clients : HasToken(d)' => HasToken(d) /\ pc'[d] = pc[d] /\ token'[d] = token[d]
            BY <2>0, <2>4 DEF HasToken, TypeOK
        <3> QED BY <2>1, <2>3, <2>4, <3>1, TokensLeftAlone
    <2>5. CASE /\ i = 1 /\ pc' = [pc EXCEPT ![c] = "idle"] /\ token' = [token EXCEPT ![c] = 0]
               /\ tokenKey' = tokenKey \/ tokenKey' = [tokenKey EXCEPT ![i] = NextCount(i)]
               /\ at' = [at EXCEPT ![c] = 1]
        <3>1. \A d \in Clients : HasToken(d)' => HasToken(d) /\ pc'[d] = pc[d] /\ token'[d] = token[d]
            BY <2>5 DEF HasToken, TypeOK
        <3> QED BY <2>1, <2>3, <2>5, <3>1, TokensLeftAlone
    <2>6. CASE /\ i = 1 /\ UNCHANGED pc /\ token' = [token EXCEPT ![c] = NextCount(1)]
               /\ at' = [at EXCEPT ![c] = @ + 1]
               /\ tokenKey' = [tokenKey EXCEPT ![1] = NextCount(1)]
        <3>1. tokenKey'[1] = tokenKey[1] + 1 /\ token'[c] = tokenKey[1] + 1
            BY <2>6, Constants DEF NextCount, TypeOK
        <3>2. \A d \in Clients \ {c} : token'[d] = token[d] /\ (HasToken(d)' => HasToken(d)) /\ pc'[d] = pc[d]
            BY <2>6 DEF HasToken, TypeOK
        <3>3. CounterIsAhead'
            BY <1>1, <2>1, <3>1, <3>2 DEF CounterIsAhead
        <3>4. TokensDiffer'
            <4>1. \A d \in Clients : HasToken(d)' /\ d # c => token'[d] # token'[c]
                BY <1>1, <3>1, <3>2 DEF CounterIsAhead
            <4>2. \A n \in DOMAIN granted : granted[n].token # token'[c]
                BY <1>1, <3>1 DEF CounterIsAhead
            <4>3. \A j \in Instances : \A k \in lockKey[j] : k.token # token'[c]
                BY <1>1, <3>1 DEF CounterIsAhead
            <4> QED BY <2>1, <3>2, <4>1, <4>2, <4>3 DEF TokensDiffer
        <3>5. TokensUnique'
            BY <2>1 DEF TokensUnique
        <3> QED BY <3>3, <3>4, <3>5
    <2> QED BY <2>2, <2>4, <2>5, <2>6
<1>4. ASSUME NEW c \in Clients, StartAcquire(c) PROVE CounterIsAhead' /\ TokensDiffer' /\ TokensUnique'
    <2>1. /\ pc[c] = "incr" /\ at[c] = NumInstances + 1 /\ pc' = [pc EXCEPT ![c] = "acquire"] /\ at' = [at EXCEPT ![c] = 1]
          /\ UNCHANGED <<tokenKey, lockKey, token, granted>>
        BY <1>4 DEF StartAcquire, LoopDone, GoTo, keys, history
    <2>2. at[c] # 1
        BY <2>1, Constants
    <2>3. \A d \in Clients : HasToken(d)' => HasToken(d) /\ (pc'[d] = pc[d] \/ d = c)
        BY <2>1, <2>2 DEF HasToken, TypeOK
    <2> QED BY <1>1, <2>1, <2>3, TokensLeftAlone
<1>5. ASSUME NEW c \in Clients, TryAcquire(c) PROVE CounterIsAhead' /\ TokensDiffer' /\ TokensUnique'
    <2>0. PICK i \in Instances : i = at[c]
        BY <1>5, PartTypes DEF TryAcquire
    <2>1. /\ pc[c] = "acquire" /\ UNCHANGED <<tokenKey, pc, token, granted>> /\ at' = [at EXCEPT ![c] = @ + 1]
          /\ lockKey' = lockKey \/ lockKey' = [lockKey EXCEPT ![i] = {[token |-> token[c], by |-> c]}]
        BY <1>5, <2>0 DEF TryAcquire, Command, Advance, history
    <2>2. \A d \in Clients : HasToken(d)' => HasToken(d)
        BY <2>1 DEF HasToken, TypeOK
    <2>3. HasToken(c)
        BY <2>1 DEF HasToken
    <2>4. \A j \in Instances : \A k \in lockKey'[j] : k \in lockKey[j] \/ (k.token = token[c] /\ k.by = c)
        <3>1. \A j \in Instances : lockKey'[j] = lockKey[j] \/ lockKey'[j] = {[token |-> token[c], by |-> c]}
            BY <2>1 DEF TypeOK
        <3> QED BY <3>1
    <2>5. CounterIsAhead'
        BY <1>1, <2>1, <2>2, <2>3, <2>4 DEF CounterIsAhead
    <2>6. TokensDiffer'
        BY <1>1, <2>1, <2>2, <2>3, <2>4 DEF TokensDiffer
    <2>7. TokensUnique'
        BY <2>1 DEF TokensUnique
    <2> QED BY <2>5, <2>6, <2>7
<1>6. ASSUME NEW c \in Clients, Decide(c) PROVE CounterIsAhead' /\ TokensDiffer' /\ TokensUnique'
    <2>1. /\ pc[c] = "acquire" /\ UNCHANGED <<tokenKey, lockKey, token>> /\ HasToken(c)
          /\ \/ pc' = [pc EXCEPT ![c] = "release"] /\ UNCHANGED granted
             \/ pc' = [pc EXCEPT ![c] = "held"] /\ granted' = Append(granted, [token |-> token[c], by |-> c])
          /\ at' = [at EXCEPT ![c] = 1]
        BY <1>6 DEF Decide, LoopDone, GoTo, keys, HasToken
    <2>2. \A d \in Clients : (HasToken(d)' => HasToken(d)) /\ (d # c => pc'[d] = pc[d])
        BY <2>1 DEF HasToken, TypeOK
    <2>3. pc'[c] \in {"release", "held"}
        BY <2>1 DEF TypeOK
    <2>4. CASE UNCHANGED granted
        BY <1>1, <2>1, <2>2, <2>3, <2>4, TokensLeftAlone
    <2>5. CASE granted' = Append(granted, [token |-> token[c], by |-> c])
        <3>1. granted \in Seq(Grant)
            BY DEF TypeOK
        <3>2. /\ DOMAIN granted' = DOMAIN granted \cup {Len(granted) + 1}
              /\ Len(granted) + 1 \notin DOMAIN granted
              /\ \A n \in DOMAIN granted : granted'[n] = granted[n]
              /\ granted'[Len(granted) + 1] = [token |-> token[c], by |-> c]
            BY <2>5, <3>1
        <3>3. \A n \in DOMAIN granted : granted[n].token # token[c]
            BY <2>1 DEF TokensDiffer
        <3>4. TokensUnique'
            BY <3>2, <3>3 DEF TokensUnique
        <3>5. CounterIsAhead'
            BY <2>1, <2>2, <3>2 DEF CounterIsAhead
        <3>6. TokensDiffer'
            <4>1. \A d, e \in Clients : HasToken(d)' /\ HasToken(e)' /\ token'[d] = token'[e] => d = e
                BY <2>1, <2>2 DEF TokensDiffer
            <4>2. \A d \in Clients, n \in DOMAIN granted' :
                    HasToken(d)' /\ pc'[d] \in {"incr", "acquire"} => token'[d] # granted'[n].token
                BY <2>1, <2>2, <2>3, <3>2 DEF TokensDiffer
            <4>3. \A d \in Clients, j \in Instances : \A k \in lockKey'[j] :
                    HasToken(d)' /\ k.token = token'[d] => k.by = d
                BY <2>1, <2>2 DEF TokensDiffer
            <4> QED BY <4>1, <4>2, <4>3 DEF TokensDiffer
        <3> QED BY <3>4, <3>5, <3>6
    <2> QED BY <2>1, <2>4, <2>5
<1>7. ASSUME NEW c \in Clients, ForceRelease(c) PROVE CounterIsAhead' /\ TokensDiffer' /\ TokensUnique'
    <2>0. PICK i \in Instances : i = at[c]
        BY <1>7, PartTypes DEF ForceRelease
    <2>1. /\ pc[c] = "release" /\ UNCHANGED granted
          /\ \/ UNCHANGED <<pc, token>> /\ at' = [at EXCEPT ![c] = @ + 1]
             \/ pc' = [pc EXCEPT ![c] = "idle"] /\ token' = [token EXCEPT ![c] = 0] /\ at' = [at EXCEPT ![c] = 1]
        BY <1>7 DEF ForceRelease, Command, Return, GoTo, Advance
    <2>2. /\ lockKey' = lockKey \/ lockKey' = [lockKey EXCEPT ![i] = @ \ DeletedBy(c, i)]
          /\ tokenKey' = tokenKey \/ (i # 1 /\ tokenKey' = [tokenKey EXCEPT ![i] = 0])
        BY <1>7, <2>0 DEF ForceRelease, keys
    <2>3. tokenKey'[1] = tokenKey[1] /\ \A j \in Instances : lockKey'[j] \subseteq lockKey[j]
        <3>1. tokenKey'[1] = tokenKey[1]
            BY <2>2, Constants DEF TypeOK
        <3> QED BY <2>2, <3>1, Deleted
    <2>4. \A d \in Clients : HasToken(d)' => HasToken(d) /\ pc'[d] = pc[d] /\ token'[d] = token[d]
        BY <2>1 DEF HasToken, TypeOK
    <2> QED BY <1>1, <2>1, <2>3, <2>4, TokensLeftAlone
<1>8. ASSUME NEW c \in Clients, StartUnlock(c) PROVE CounterIsAhead' /\ TokensDiffer' /\ TokensUnique'
    <2>1. /\ pc[c] = "held" /\ pc' = [pc EXCEPT ![c] = "unlock"] /\ at' = [at EXCEPT ![c] = 1]
          /\ UNCHANGED <<tokenKey, lockKey, token, granted>>
        BY <1>8 DEF StartUnlock, GoTo, keys, history
    <2>2. \A d \in Clients : HasToken(d)' => HasToken(d) /\ (pc'[d] = pc[d] \/ pc'[d] = "unlock")
        BY <2>1 DEF HasToken, TypeOK
    <2> QED BY <1>1, <2>1, <2>2, TokensLeftAlone
<1>9. ASSUME NEW c \in Clients, Unlock(c) PROVE CounterIsAhead' /\ TokensDiffer' /\ TokensUnique'
    <2>0. PICK i \in Instances : i = at[c]
        BY <1>9, PartTypes DEF Unlock
    <2>1. /\ pc[c] = "unlock" /\ UNCHANGED <<tokenKey, granted>>
          /\ \/ UNCHANGED <<pc, token>> /\ at' = [at EXCEPT ![c] = @ + 1]
             \/ pc' = [pc EXCEPT ![c] = "idle"] /\ token' = [token EXCEPT ![c] = 0] /\ at' = [at EXCEPT ![c] = 1]
        BY <1>9 DEF Unlock, Command, Return, GoTo, Advance
    <2>2. lockKey' = lockKey \/ lockKey' = [lockKey EXCEPT ![i] = @ \ {k \in lockKey[i] : Matches(c, k)}]
        BY <1>9, <2>0 DEF Unlock
    <2>3. \A j \in Instances : lockKey'[j] \subseteq lockKey[j]
        BY <2>2, Deleted
    <2>4. \A d \in Clients : HasToken(d)' => HasToken(d) /\ pc'[d] = pc[d] /\ token'[d] = token[d]
        BY <2>1 DEF HasToken, TypeOK
    <2> QED BY <1>1, <2>1, <2>3, <2>4, TokensLeftAlone
<1>10. ASSUME NEW i \in Instances, Expire(i) PROVE CounterIsAhead' /\ TokensDiffer' /\ TokensUnique'
    <2>1. UNCHANGED <<tokenKey, pc, at, token, granted>> /\ \A j \in Instances : lockKey'[j] \subseteq lockKey[j]
        BY <1>10 DEF Expire, local, TypeOK
    <2>2. \A d \in Clients : HasToken(d)' => HasToken(d)
        BY <2>1 DEF HasToken
    <2> QED BY <1>1, <2>1, <2>2, TokensLeftAlone
<1> QED BY <1>2, <1>3, <1>4, <1>5, <1>6, <1>7, <1>8, <1>9, <1>10 DEF Next, ClientStep
LEMMA ResetsStay == TypeOK /\ [Next]_vars /\ ~resets' => ~resets
<1> SUFFICES ASSUME TypeOK, [Next]_vars, ~resets' PROVE ~resets
    OBVIOUS
<1>1. CASE UNCHANGED vars
    BY <1>1 DEF vars, history
<1>2. ASSUME NEW c \in Clients, ForceRelease(c) PROVE ~resets
    BY <1>2 DEF ForceRelease
<1>3. ASSUME NEW c \in Clients, ~ForceRelease(c), Lock(c) \/ ClientStep(c) PROVE ~resets
    BY <1>3 DEF ClientStep, Lock, Incr, StartAcquire, TryAcquire, Decide, StartUnlock, Unlock, history
<1>4. ASSUME NEW i \in Instances, Expire(i) PROVE ~resets
    BY <1>4 DEF Expire
<1> QED BY <1>1, <1>2, <1>3, <1>4 DEF Next

LEMMA TokenInvInit == Init => TokenInv
<1> SUFFICES ASSUME Init PROVE TokenInv
    OBVIOUS
<1>1. TypeOK
    BY RedlockTypeInit
<1>2. /\ \A c \in Clients : ~HasToken(c)
      /\ \A i \in Instances : lockKey[i] = {}
    BY DEF Init, HasToken
<1>3. DOMAIN granted = {}
    <2>1. granted = << >>
        BY DEF Init
    <2> QED BY <2>1
<1> QED BY <1>1, <1>2, <1>3 DEF TokenInv, CounterIsAhead, TokensDiffer, TokensUnique

LEMMA TokenInvStep == TokenInv /\ [Next]_vars => TokenInv'
<1> SUFFICES ASSUME TokenInv, [Next]_vars PROVE TokenInv'
    OBVIOUS
<1>1. TypeOK /\ TypeOK'
    BY RedlockTypeStep DEF TokenInv
<1>2. SUFFICES ASSUME ~resets' PROVE CounterIsAhead' /\ TokensDiffer' /\ TokensUnique'
    BY <1>1 DEF TokenInv
<1>3. CounterIsAhead /\ TokensDiffer /\ TokensUnique
    BY <1>1, <1>2, ResetsStay DEF TokenInv
<1>4. CASE UNCHANGED vars
    <2>1. UNCHANGED <<tokenKey, lockKey, token, granted, pc, at>>
        BY <1>4 DEF vars, keys, local, history
    <2>2. \A c \in Clients : HasToken(c)' => HasToken(c)
        BY <2>1 DEF HasToken
    <2>3. tokenKey[1] \in Nat
        BY <1>1, TokensAreNat
    <2> QED BY <1>1, <1>3, <2>1, <2>2, <2>3, TokensLeftAlone
<1> QED BY <1>1, <1>2, <1>3, <1>4, TokenStep

LEMMA TokenInvHolds == Spec => []TokenInv
BY TokenInvInit, TokenInvStep, PTL DEF Spec

\* No token is given out twice until a cleanup deletes the counter of instances[0].
THEOREM NoReuse == Spec => []TokenReuseNeedsReset
<1>1. TokenInv => TokenReuseNeedsReset
    BY DEF TokenInv, TokenReuseNeedsReset, TokensDiffer, HasToken
<1> QED BY <1>1, TokenInvHolds, PTL

\* Until then Unlock deletes its caller's locks only.
THEOREM UnlockSpares == Spec => UnlockSparesOthers
<1>1. TokenInv /\ [Next]_vars =>
        [\A c \in Clients, i \in Instances :
           Unlock(c) /\ lockKey'[i] # lockKey[i] /\ ~resets => OwnersOn(i) = {c}]_vars
    <2> SUFFICES ASSUME TokenInv, NEW c \in Clients, NEW i \in Instances,
                        Unlock(c), lockKey'[i] # lockKey[i], ~resets
                 PROVE  OwnersOn(i) = {c}
        BY DEF TokenInv
    <2>1. TypeOK /\ TokensDiffer
        BY DEF TokenInv
    <2>2. HasToken(c)
        BY DEF Unlock, Command, HasToken
    <2>3. at[c] \in Instances
        BY <2>1, PartTypes DEF Unlock
    <2>4. lockKey' = lockKey \/ lockKey' = [lockKey EXCEPT ![at[c]] = @ \ {k \in lockKey[at[c]] : Matches(c, k)}]
        BY DEF Unlock
    <2>5. i = at[c] /\ lockKey'[i] = lockKey[i] \ {k \in lockKey[i] : Matches(c, k)}
        BY <2>1, <2>3, <2>4 DEF TypeOK
    <2>6. PICK k \in lockKey[i] : Matches(c, k)
        BY <2>5
    <2>7. k.by = c
        BY <2>1, <2>2, <2>6 DEF TokensDiffer, Matches
    <2>8. \A l \in lockKey[i] : l = k
        BY <2>1 DEF TypeOK
    <2> QED BY <2>6, <2>7, <2>8 DEF OwnersOn
<1> QED BY <1>1, TokenInvHolds, PTL DEF Spec, UnlockSparesOthers
-----------------------------------------------------------------------------
LEMMA OwnerInvStep == OwnerInv /\ [Next]_vars => OwnerInv'
<1> SUFFICES ASSUME OwnerInv, [Next]_vars PROVE OwnerInv'
    OBVIOUS
<1>1. TypeOK /\ TypeOK'
    BY RedlockTypeStep DEF OwnerInv
<1>2. SUFFICES ASSUME faults' = 0, NEW j \in Instances, NEW k \in lockKey'[j]
               PROVE  KeyAwaitsItsCall(j, k)'
    BY <1>1 DEF OwnerInv
<1>3. k.by \in Clients /\ k.token \in Nat
    <2>1. k \in LockRecord
        BY <1>1 DEF TypeOK
    <2> QED BY <2>1 DEF LockRecord
<1>4. faults \in Nat
    BY <1>1, Constants DEF TypeOK
\* A step of a command that is answered.
<1>5. \A x, y \in BOOLEAN : Outcome(x, y) => x /\ y /\ faults = 0
    BY <1>2, <1>4 DEF Outcome
<1>6. faults = 0 /\ k \in lockKey[j] => KeyAwaitsItsCall(j, k)
    BY DEF OwnerInv
<1>7. CASE UNCHANGED vars
    BY <1>2, <1>6, <1>7 DEF vars, keys, local, KeyAwaitsItsCall
<1>8. ASSUME NEW c \in Clients, Lock(c) PROVE KeyAwaitsItsCall(j, k)'
    BY <1>1, <1>2, <1>3, <1>6, <1>8 DEF Lock, GoTo, keys, KeyAwaitsItsCall, TypeOK
<1>9. ASSUME NEW c \in Clients, Incr(c) PROVE KeyAwaitsItsCall(j, k)'
    <2>1. faults = 0 /\ UNCHANGED <<pc, lockKey>> /\ pc[c] = "incr" /\ Advance(c)
          /\ \A d \in Clients \ {c} : token'[d] = token[d]
        BY <1>1, <1>5, <1>9 DEF Incr, Command, TypeOK
    <2>2. KeyAwaitsItsCall(j, k)
        BY <1>2, <1>6, <2>1
    <2> QED BY <1>1, <1>3, <2>1, <2>2 DEF KeyAwaitsItsCall, Advance, TypeOK
<1>10. ASSUME NEW c \in Clients, StartAcquire(c) PROVE KeyAwaitsItsCall(j, k)'
    BY <1>1, <1>2, <1>3, <1>6, <1>10 DEF StartAcquire, LoopDone, GoTo, keys, KeyAwaitsItsCall, TypeOK
<1>11. ASSUME NEW c \in Clients, TryAcquire(c) PROVE KeyAwaitsItsCall(j, k)'
    <2>1. faults = 0 /\ UNCHANGED <<pc, token>> /\ pc[c] = "acquire" /\ Advance(c)
        BY <1>5, <1>11 DEF TryAcquire, Command
    <2>2. k \in lockKey[j] \/ (k.token = token[c] /\ k.by = c)
        <3>1. lockKey' = lockKey \/ lockKey' = [lockKey EXCEPT ![at[c]] = {[token |-> token[c], by |-> c]}]
            BY <1>11 DEF TryAcquire
        <3>2. lockKey'[j] = lockKey[j] \/ lockKey'[j] = {[token |-> token[c], by |-> c]}
            BY <1>1, <3>1 DEF TypeOK
        <3> QED BY <1>2, <3>2
    <2>3. CASE k \in lockKey[j]
        BY <1>1, <1>3, <1>6, <2>1, <2>3 DEF KeyAwaitsItsCall, Advance, TypeOK
    <2>4. CASE k.token = token[c] /\ k.by = c
        BY <2>1, <2>4 DEF KeyAwaitsItsCall
    <2> QED BY <2>2, <2>3, <2>4
<1>12. ASSUME NEW c \in Clients, Decide(c) PROVE KeyAwaitsItsCall(j, k)'
    <2>1. faults = 0 /\ UNCHANGED <<lockKey, token>> /\ pc[c] = "acquire" /\ at' = [at EXCEPT ![c] = 1]
          /\ \E s \in {"held", "release"} : pc' = [pc EXCEPT ![c] = s]
        BY <1>2, <1>12 DEF Decide, LoopDone, GoTo, keys
    <2>2. KeyAwaitsItsCall(j, k)
        BY <1>2, <1>6, <2>1
    <2>3. CASE k.by = c
        <3>1. pc'[c] \in {"held", "release"} /\ at'[c] = 1
            BY <1>1, <2>1 DEF TypeOK
        <3>2. 1 <= j
            BY Constants
        <3> QED BY <2>1, <2>2, <2>3, <3>1, <3>2 DEF KeyAwaitsItsCall
    <2>4. CASE k.by # c
        BY <1>1, <1>3, <2>1, <2>2, <2>4 DEF KeyAwaitsItsCall, TypeOK
    <2> QED BY <2>3, <2>4
<1>13. ASSUME NEW c \in Clients, ForceRelease(c) PROVE KeyAwaitsItsCall(j, k)'
    <2>0. PICK i \in Instances : i = at[c]
        BY <1>1, <1>13, PartTypes DEF ForceRelease
    <2>1. /\ faults = 0 /\ lockKey' = [lockKey EXCEPT ![i] = @ \ DeletedBy(c, i)] /\ pc[c] = "release"
          /\ IF i = NumInstances THEN Return(c) ELSE Advance(c) /\ UNCHANGED <<pc, token>>
        BY <1>5, <1>13, <2>0 DEF ForceRelease, Command
    <2>2. k \in lockKey[j] /\ j # i
        BY <1>1, <1>2, <2>1 DEF DeletedBy, TypeOK
    <2>3. KeyAwaitsItsCall(j, k)
        BY <1>6, <2>1, <2>2
    <2>4. k.by = c => i < j
        <3>1. k.by = c => i <= j
            BY <2>0, <2>1, <2>3 DEF KeyAwaitsItsCall
        <3> QED BY <2>2, <3>1, Constants
    <2>7. i \in Nat /\ j \in Nat /\ j <= NumInstances /\ NumInstances \in Nat
        BY Constants
    <2>5. CASE i = NumInstances
        <3>1. k.by # c
            BY <2>4, <2>5, <2>7
        <3>2. k.by \in Clients /\ Return(c)
            BY <1>1, <1>3, <2>1, <2>5
        <3>3. pc'[k.by] = pc[k.by] /\ at'[k.by] = at[k.by] /\ token'[k.by] = token[k.by]
            BY <1>1, <3>1, <3>2 DEF Return, GoTo, TypeOK
        <3> QED BY <2>3, <3>3 DEF KeyAwaitsItsCall
    <2>6. CASE i # NumInstances
        <3>1. UNCHANGED <<pc, token>> /\ at' = [at EXCEPT ![c] = i + 1]
            BY <2>0, <2>1, <2>6 DEF Advance
        <3>4. at'[c] = i + 1
            BY <1>1, <3>1 DEF TypeOK
        <3>2. k.by = c => at'[c] <= j
            BY <2>4, <2>7, <3>4
        <3>3. k.by # c => at'[k.by] = at[k.by]
            BY <1>1, <1>3, <3>1 DEF TypeOK
        <3> QED BY <2>3, <3>1, <3>2, <3>3 DEF KeyAwaitsItsCall
    <2> QED BY <2>5, <2>6
<1>14. ASSUME NEW c \in Clients, StartUnlock(c) PROVE KeyAwaitsItsCall(j, k)'
    <2>1. faults = 0 /\ KeyAwaitsItsCall(j, k)
        BY <1>2, <1>6, <1>14 DEF StartUnlock, keys
    <2> QED BY <1>1, <1>3, <1>14, <2>1, Constants DEF StartUnlock, GoTo, KeyAwaitsItsCall, TypeOK
<1>15. ASSUME NEW c \in Clients, Unlock(c) PROVE KeyAwaitsItsCall(j, k)'
    <2>0. PICK i \in Instances : i = at[c]
        BY <1>1, <1>15, PartTypes DEF Unlock
    <2>1. /\ faults = 0 /\ pc[c] = "unlock"
          /\ lockKey' = [lockKey EXCEPT ![i] = @ \ {l \in lockKey[i] : Matches(c, l)}]
          /\ IF i = NumInstances THEN Return(c) ELSE Advance(c) /\ UNCHANGED <<pc, token>>
        BY <1>5, <1>15, <2>0 DEF Unlock, Command
    <2>2. k \in lockKey[j] /\ (j = i => ~Matches(c, k))
        <3>1. lockKey'[j] = IF j = i THEN lockKey[i] \ {l \in lockKey[i] : Matches(c, l)} ELSE lockKey[j]
            BY <1>1, <2>1 DEF TypeOK
        <3> QED BY <1>2, <3>1
    <2>3. KeyAwaitsItsCall(j, k)
        BY <1>6, <2>1, <2>2
    <2>4. k.by = c => i < j
        BY <2>0, <2>1, <2>2, <2>3, Constants DEF KeyAwaitsItsCall, Matches
    <2>7. i \in Nat /\ j \in Nat /\ j <= NumInstances /\ NumInstances \in Nat
        BY Constants
    <2>5. CASE i = NumInstances
        <3>1. k.by # c
            BY <2>4, <2>5, <2>7
        <3>2. k.by \in Clients /\ Return(c)
            BY <1>1, <1>3, <2>1, <2>5
        <3>3. pc'[k.by] = pc[k.by] /\ at'[k.by] = at[k.by] /\ token'[k.by] = token[k.by]
            BY <1>1, <3>1, <3>2 DEF Return, GoTo, TypeOK
        <3> QED BY <2>3, <3>3 DEF KeyAwaitsItsCall
    <2>6. CASE i # NumInstances
        <3>1. UNCHANGED <<pc, token>> /\ at' = [at EXCEPT ![c] = i + 1]
            BY <2>0, <2>1, <2>6 DEF Advance
        <3>4. at'[c] = i + 1
            BY <1>1, <3>1 DEF TypeOK
        <3>2. k.by = c => at'[c] <= j
            BY <2>4, <2>7, <3>4
        <3>3. k.by # c => at'[k.by] = at[k.by]
            BY <1>1, <1>3, <3>1 DEF TypeOK
        <3> QED BY <2>3, <3>1, <3>2, <3>3 DEF KeyAwaitsItsCall
    <2> QED BY <2>5, <2>6
<1>16. ASSUME NEW i \in Instances, Expire(i) PROVE KeyAwaitsItsCall(j, k)'
    <2>1. faults = 0 /\ k \in lockKey[j] /\ UNCHANGED <<pc, at, token>>
        BY <1>1, <1>2, <1>16 DEF Expire, local, TypeOK
    <2> QED BY <1>6, <2>1 DEF KeyAwaitsItsCall
<1> QED
    BY <1>7, <1>8, <1>9, <1>10, <1>11, <1>12, <1>13, <1>14, <1>15, <1>16 DEF Next, ClientStep

\* Until a command fails every lock in Redis is somebody's.
THEOREM KeysHaveOwners == Spec => []KeysHaveLiveOwners
<1>1. Init => OwnerInv
    <2> SUFFICES ASSUME Init PROVE OwnerInv
        OBVIOUS
    <2>1. \A i \in Instances : lockKey[i] = {}
        BY DEF Init
    <2> QED BY <2>1, RedlockTypeInit DEF OwnerInv
<1>2. OwnerInv => KeysHaveLiveOwners
    BY DEF OwnerInv, KeyAwaitsItsCall, KeysHaveLiveOwners
<1> QED BY <1>1, <1>2, OwnerInvStep, PTL DEF Spec

-----------------------------------------------------------------------------
(***************************************************************************)
(* The lock and the fence.                                                 *)
(***************************************************************************)

F == INSTANCE Fencing_proofs WITH TokenOf <- [h \in Holders |-> h[2]], pc <- wpc, faults <- wfaults

LEMMA HoldersType == \A h \in Holders : h = <<h[1], h[2]>> /\ h[1] \in Clients /\ h[2] \in 1..MaxToken
BY DEF Holders

\* Every step of the composition is one of the lock or none to it ...
THEOREM RefinesRedlock == SpecBoth => Spec
<1>1. InitBoth => Init
    BY DEF InitBoth
<1>2. [NextBoth]_varsBoth => [Next]_vars
    <2> SUFFICES ASSUME [NextBoth]_varsBoth PROVE [Next]_vars
        OBVIOUS
    <2>1. CASE UNCHANGED varsBoth
        BY <2>1 DEF varsBoth
    <2>2. CASE LockStep
        BY <2>2 DEF LockStep, Next
    <2>3. CASE \E c \in Clients : Write(c)
        BY <2>3 DEF Write
    <2> QED BY <2>1, <2>2, <2>3 DEF NextBoth
<1> QED BY <1>1, <1>2, PTL DEF SpecBoth, Spec

\* ... and one of the fence or none to it.
THEOREM RefinesFencing == SpecBoth => W!Spec
<1>1. InitBoth => W!Init
    BY DEF InitBoth
<1>2. [NextBoth]_varsBoth => [W!Next]_W!vars
    <2> SUFFICES ASSUME [NextBoth]_varsBoth PROVE [W!Next]_W!vars
        OBVIOUS
    <2>1. CASE UNCHANGED varsBoth
        BY <2>1 DEF varsBoth, fencing, W!vars
    <2>2. CASE LockStep
        BY <2>2 DEF LockStep, fencing, W!vars
    <2>3. ASSUME NEW c \in Clients, Write(c) PROVE W!Next
        <3>1. <<c, token[c]>> \in Holders /\ W!Step(<<c, token[c]>>)
            BY <2>3 DEF Write, Holders
        <3> QED BY <3>1 DEF W!Next
    <2> QED BY <2>1, <2>2, <2>3 DEF NextBoth
<1> QED BY <1>1, <1>2, PTL DEF SpecBoth, W!Spec

\* The instance of Fencing whose theorems are used here is the one of RedlockFencing.
LEMMA SameFencing == F!FencingAssumption /\ (W!Spec => F!Spec)
<1>1. F!FencingAssumption
    BY CompositionAssumption DEF W!FencingAssumption, F!FencingAssumption
<1>2. W!Init => F!Init
    BY DEF W!Init, F!Init, W!Keys, F!Keys
<1>3. [W!Next]_W!vars => [F!Next]_F!vars
    <2>1. \A h \in Holders : W!StartWrite(h) => F!StartWrite(h)
        BY DEF W!StartWrite, W!GoTo, W!Written, F!StartWrite, F!GoTo, F!Written
    <2>2. \A h \in Holders : W!GetFence(h) => F!GetFence(h)
        BY DEF W!GetFence, W!GoTo, W!Fail, W!Stale, F!GetFence, F!GoTo, F!Fail, F!Stale
    <2>3. \A h \in Holders : W!FirstSet(h) => F!FirstSet(h)
        BY DEF W!FirstSet, W!GoTo, W!Fail, W!Store, W!Race, W!WriteOrder,
               F!FirstSet, F!GoTo, F!Fail, F!Store, F!Race, F!WriteOrder
    <2>4. \A h \in Holders : W!SecondSet(h) => F!SecondSet(h)
        BY DEF W!SecondSet, W!GoTo, W!Fail, W!Store, W!Race, W!WriteOrder,
               F!SecondSet, F!GoTo, F!Fail, F!Store, F!Race, F!WriteOrder
    <2> QED BY <2>1, <2>2, <2>3, <2>4 DEF W!Next, W!Step, W!vars, F!Next, F!Step, F!vars
<1> QED BY <1>1, <1>2, <1>3, PTL DEF W!Spec, F!Spec

LEMMA FencingHolds ==
    /\ SpecBoth => []F!FInv
    /\ SpecBoth => DataNeverGoesBack
<1>1. F!FencingAssumption /\ (SpecBoth => F!Spec)
    BY SameFencing, RefinesFencing, PTL
<1>2. F!Init => F!FInv
    BY <1>1, F!FInvInit
<1>3. F!FInv /\ [F!Next]_F!vars => F!FInv'
    BY <1>1, F!FInvStep
<1>4. F!Spec => F!DataNeverGoesBack
    BY <1>1, F!DataGrows
<1>5. [raced' \/ store'.data >= store.data]_F!vars => [raced' \/ store'.data >= store.data]_W!vars
    BY DEF F!vars, W!vars
<1> QED BY <1>1, <1>2, <1>3, <1>4, <1>5, PTL DEF F!Spec, F!DataNeverGoesBack, W!DataNeverGoesBack, DataNeverGoesBack

\* The fence covers the data until two writes race.
THEOREM BothFenceCovers == SpecBoth => []FenceCoversData
<1>1. F!FInv => FenceCoversData
    BY DEF F!FInv, W!FenceCoversData, FenceCoversData
<1> QED BY <1>1, FencingHolds, PTL

\* A write that began after a newer one, or one of its token, sets nothing.
THEOREM BothLateRejected == SpecBoth => []LateWriteRejected
<1>1. F!FInv => LateWriteRejected
    BY DEF F!FInv, F!TokenIsNew, F!Writing, W!LateWriteRejected, LateWriteRejected
<1> QED BY <1>1, FencingHolds, PTL

\* A token writes once, whoever holds it.
THEOREM BothWriteOnce == SpecBoth => []TokenWritesOnce
<1>1. F!FInv => TokenWritesOnce
    BY DEF F!FInv, F!TokenWritesOnce, W!TokenWritesOnce, TokenWritesOnce
<1> QED BY <1>1, FencingHolds, PTL

\* Newer data is not replaced by older data.
THEOREM BothDataGrows == SpecBoth => DataNeverGoesBack
BY FencingHolds
-----------------------------------------------------------------------------
\* Who is in Write holds the lock with the token he writes with.
WriterHolds ==
    \A h \in Holders : wpc[h] # "idle" =>
        pc[h[1]] = "held" /\ token[h[1]] = h[2] /\ calls[h] >= 1

\* The last grant is that of the holder.
HolderIsLast ==
    \A c \in Clients : Holds(c) =>
        Len(granted) > 0 /\ granted[Len(granted)] = [token |-> token[c], by |-> c]

\* The fence was set by a write with a token that was granted.
FenceWasGranted ==
    \/ store.fence = 0
    \/ \E h \in Holders :
         /\ store.fence = h[2]
         /\ calls[h] >= 1 /\ (calls[h] = 1 => wpc[h] # "get")
         /\ \E n \in DOMAIN granted : granted[n] = [token |-> h[2], by |-> h[1]]

\* Until a key is lost holders follow each other one by one.
OneByOne == (\A c \in Clients : lost[c] = {}) /\ HolderIsLast /\ FenceWasGranted

LockInv == ExclusionInv /\ TokenInv /\ F!TypeOK
BothInv == LockInv /\ WriterHolds /\ (slipped \/ resets \/ OneByOne)

\* A client's step leaves the others' token and place alone, and only Decide makes a
\* holder.
LEMMA OthersStay ==
    ASSUME TypeOK, NEW c \in Clients, Lock(c) \/ ClientStep(c)
    PROVE  /\ \A d \in Clients \ {c} : pc'[d] = pc[d] /\ token'[d] = token[d]
           /\ \/ granted' = granted /\ pc'[c] # "held"
              \/ UNCHANGED token /\ granted' = Append(granted, [token |-> token[c], by |-> c])
<1> USE DEF TypeOK
<1>1. CASE Lock(c)
    BY <1>1 DEF Lock, GoTo
<1>2. CASE Incr(c)
    BY <1>2 DEF Incr, Command, Return, GoTo, history
<1>3. CASE StartAcquire(c)
    BY <1>3 DEF StartAcquire, GoTo, history
<1>4. CASE TryAcquire(c)
    BY <1>4 DEF TryAcquire, Command, history
<1>5. CASE Decide(c)
    BY <1>5 DEF Decide, GoTo
<1>6. CASE ForceRelease(c)
    BY <1>6 DEF ForceRelease, Command, Return, GoTo
<1>7. CASE StartUnlock(c)
    BY <1>7 DEF StartUnlock, GoTo, history
<1>8. CASE Unlock(c)
    BY <1>8 DEF Unlock, Command, Return, GoTo
<1> QED BY <1>1, <1>2, <1>3, <1>4, <1>5, <1>6, <1>7, <1>8 DEF ClientStep

\* What a step of Write does, seen from the lock.
LEMMA WriteStep ==
    ASSUME F!TypeOK, NEW c \in Clients, Write(c), NEW h \in Holders, h = <<c, token[c]>>
    PROVE  /\ Holds(c) /\ UNCHANGED <<pc, token, granted, lost, resets, slipped>>
           /\ \A g \in Holders \ {h} : wpc'[g] = wpc[g] /\ calls'[g] = calls[g]
           /\ wpc[h] = "idle" => calls'[h] = calls[h] + 1
           /\ wpc[h] # "idle" => calls'[h] = calls[h] /\ wpc'[h] # "get"
           /\ \/ store'.fence = store.fence
              \/ store'.fence = h[2] /\ wpc[h] = "set1"
<1> USE DEF F!TypeOK, F!Keys
<1>1. Holds(c) /\ W!Step(h) /\ UNCHANGED <<pc, token, granted, lost, resets, slipped>>
    BY DEF Write, vars, keys, local, history, Holds
<1>2. CASE W!StartWrite(h)
    BY <1>1, <1>2 DEF W!StartWrite, W!GoTo
<1>3. CASE W!GetFence(h)
    BY <1>1, <1>3 DEF W!GetFence, W!GoTo, W!Fail
<1>4. CASE W!FirstSet(h)
    BY <1>1, <1>4 DEF W!FirstSet, W!GoTo, W!Fail, W!Store, W!WriteOrder
<1>5. CASE W!SecondSet(h)
    BY <1>1, <1>5 DEF W!SecondSet, W!GoTo, W!Fail, W!Store, W!WriteOrder
<1> QED BY <1>1, <1>2, <1>3, <1>4, <1>5 DEF W!Step

\* The three kinds of step.
LEMMA Steps ==
    ASSUME [NextBoth]_varsBoth
    PROVE  \/ \E c \in Clients : (Lock(c) \/ (ClientStep(c) /\ ~Writing(c))) /\ LockStep
           \/ (UNCHANGED <<vars, slipped>> \/ \E i \in Instances : Expire(i) /\ LockStep) /\ UNCHANGED fencing
           \/ \E c \in Clients : Write(c)
BY DEF NextBoth, LockStep, varsBoth

LEMMA WriterStep ==
    ASSUME LockInv, F!TypeOK', WriterHolds, [NextBoth]_varsBoth
    PROVE  WriterHolds'
<1>1. TypeOK /\ F!TypeOK
    BY DEF LockInv, ExclusionInv
<1>2. ASSUME NEW c \in Clients, Lock(c) \/ (ClientStep(c) /\ ~Writing(c)), LockStep PROVE WriterHolds'
    <2>1. ~Writing(c)
        <3>1. CASE Lock(c)
            <4> SUFFICES ASSUME NEW t \in 1..MaxToken, wpc[<<c, t>>] # "idle" PROVE FALSE
                BY DEF Writing
            <4>1. <<c, t>> \in Holders
                BY DEF Holders
            <4>2. pc[c] = "held"
                BY <4>1 DEF WriterHolds
            <4> QED BY <3>1, <4>2 DEF Lock
        <3> QED BY <1>2, <3>1
    <2>2. UNCHANGED <<wpc, calls>>
        BY <1>2 DEF LockStep, fencing
    <2>3. ASSUME NEW h \in Holders, wpc[h] # "idle" PROVE h[1] \in Clients \ {c}
        BY <2>1, <2>3, HoldersType DEF Writing
    <2>4. \A d \in Clients \ {c} : pc'[d] = pc[d] /\ token'[d] = token[d]
        BY <1>1, <1>2, OthersStay
    <2> QED BY <2>2, <2>3, <2>4 DEF WriterHolds
<1>3. ASSUME UNCHANGED <<vars, slipped>> \/ \E i \in Instances : Expire(i), UNCHANGED fencing PROVE WriterHolds'
    BY <1>3 DEF vars, local, fencing, Expire, WriterHolds
<1>4. ASSUME NEW c \in Clients, Write(c) PROVE WriterHolds'
    <2>1. PICK h \in Holders : h = <<c, token[c]>>
        BY <1>4 DEF Write, Holders
    <2>2. calls[h] \in Nat /\ (wpc[h] # "idle" => calls[h] >= 1)
        BY <1>1, CompositionAssumption DEF F!TypeOK, W!FencingAssumption, WriterHolds
    <2>3. calls'[h] >= 1
        BY <1>1, <1>4, <2>1, <2>2, WriteStep
    <2>4. Holds(c) /\ UNCHANGED <<pc, token>> /\ \A g \in Holders \ {h} : wpc'[g] = wpc[g] /\ calls'[g] = calls[g]
        BY <1>1, <1>4, <2>1, WriteStep
    <2>5. \A g \in Holders \ {h} : wpc'[g] # "idle" => pc'[g[1]] = "held" /\ token'[g[1]] = g[2] /\ calls'[g] >= 1
        BY <2>4 DEF WriterHolds
    <2>6. h[1] = c /\ h[2] = token[c]
        BY <2>1
    <2> QED BY <2>3, <2>4, <2>5, <2>6 DEF WriterHolds, Holds
<1> QED BY <1>2, <1>3, <1>4, Steps

\* A step of the lock that loses no key and resets no counter.
LEMMA LockKeepsOneByOne ==
    ASSUME LockInv, ExclusionInv', OneByOne, UNCHANGED fencing, \A c \in Clients : lost'[c] = {},
           NEW c \in Clients, Lock(c) \/ ClientStep(c)
    PROVE  OneByOne'
<1>1. TypeOK /\ granted \in Seq(Grant)
    BY DEF LockInv, ExclusionInv, TypeOK
<1>2. /\ \A d \in Clients \ {c} : pc'[d] = pc[d] /\ token'[d] = token[d]
      /\ \/ granted' = granted /\ pc'[c] # "held"
         \/ UNCHANGED token /\ granted' = Append(granted, [token |-> token[c], by |-> c])
    BY <1>1, OthersStay
<1>3. CASE granted' = granted /\ pc'[c] # "held"
    BY <1>2, <1>3 DEF OneByOne, HolderIsLast, FenceWasGranted, fencing, Holds
<1>4. CASE UNCHANGED token /\ granted' = Append(granted, [token |-> token[c], by |-> c])
    <2>1. /\ Len(granted') = Len(granted) + 1 /\ Len(granted') > 0
          /\ granted'[Len(granted')] = [token |-> token[c], by |-> c]
          /\ \A n \in DOMAIN granted : n \in DOMAIN granted' /\ granted'[n] = granted[n]
        BY <1>1, <1>4
    <2>2. FenceWasGranted'
        BY <2>1 DEF OneByOne, FenceWasGranted, fencing
    <2>3. CASE Holds(c)'
        <3>1. ASSUME NEW d \in Clients, Holds(d)' PROVE d = c
            <4>1. ExclusionLostOnlyByDeletion'
                BY ExclusionFollows, PTL
            <4> QED BY <2>3, <3>1, <4>1 DEF ExclusionLostOnlyByDeletion
        <3> QED BY <1>4, <2>1, <2>2, <3>1 DEF OneByOne, HolderIsLast
    <2>4. CASE ~Holds(c)'
        <3>1. Decide(c)
            <4>1. granted' # granted
                BY <1>1, <2>1
            <4> QED BY <4>1 DEF ClientStep, Lock, Incr, StartAcquire, TryAcquire, ForceRelease, StartUnlock, Unlock, history
        <3> QED BY <1>1, <2>1, <2>4, <3>1 DEF Decide, GoTo, Holds, TypeOK
    <2> QED BY <2>3, <2>4
<1> QED BY <1>2, <1>3, <1>4

\* A step of Write: the fence takes the token of the holder, who has the last grant.
LEMMA WriteKeepsOneByOne ==
    ASSUME LockInv, WriterHolds, OneByOne, NEW c \in Clients, Write(c)
    PROVE  OneByOne'
<1>1. F!TypeOK /\ granted \in Seq(Grant)
    BY DEF LockInv, ExclusionInv, TypeOK
<1>2. PICK h \in Holders : h = <<c, token[c]>>
    BY DEF Write, Holders
<1>3. /\ Holds(c) /\ UNCHANGED <<pc, token, granted, lost>>
      /\ \A g \in Holders \ {h} : wpc'[g] = wpc[g] /\ calls'[g] = calls[g]
      /\ wpc[h] = "idle" => calls'[h] = calls[h] + 1
      /\ wpc[h] # "idle" => calls'[h] = calls[h] /\ wpc'[h] # "get"
      /\ \/ store'.fence = store.fence
         \/ store'.fence = h[2] /\ wpc[h] = "set1"
    BY <1>1, <1>2, WriteStep
<1>4. (\A d \in Clients : lost'[d] = {}) /\ HolderIsLast'
    BY <1>3 DEF OneByOne, HolderIsLast, Holds
<1>5. \A g \in Holders : calls[g] \in Nat
    BY <1>1, CompositionAssumption DEF F!TypeOK, W!FencingAssumption
<1>6. CASE store'.fence = store.fence
    <2>1. CASE store.fence = 0
        BY <1>4, <1>6, <2>1 DEF OneByOne, FenceWasGranted
    <2>2. CASE store.fence # 0
        <3>1. PICK g \in Holders : /\ store.fence = g[2]
                                   /\ calls[g] >= 1 /\ (calls[g] = 1 => wpc[g] # "get")
                                   /\ \E n \in DOMAIN granted : granted[n] = [token |-> g[2], by |-> g[1]]
            BY <2>2 DEF OneByOne, FenceWasGranted
        <3>2. calls'[g] >= 1 /\ (calls'[g] = 1 => wpc'[g] # "get")
            BY <1>3, <1>5, <3>1
        <3>3. FenceWasGranted'
            BY <1>3, <1>6, <3>1, <3>2 DEF FenceWasGranted
        <3> QED BY <1>4, <3>3 DEF OneByOne
    <2> QED BY <2>1, <2>2
<1>7. CASE store'.fence = h[2] /\ wpc[h] = "set1"
    <2>1. calls'[h] >= 1 /\ wpc'[h] # "get"
        BY <1>3, <1>7 DEF WriterHolds
    <2>2. Len(granted) \in DOMAIN granted /\ granted[Len(granted)] = [token |-> h[2], by |-> h[1]]
        BY <1>1, <1>2, <1>3 DEF OneByOne, HolderIsLast
    <2> QED BY <1>3, <1>4, <1>7, <2>1, <2>2 DEF OneByOne, FenceWasGranted
<1> QED BY <1>3, <1>6, <1>7

LEMMA BothInvStep ==
    LockInv /\ LockInv' /\ WriterHolds /\ (slipped \/ resets \/ OneByOne) /\ [NextBoth]_varsBoth
        => WriterHolds' /\ (slipped' \/ resets' \/ OneByOne')
<1> SUFFICES ASSUME LockInv, LockInv', WriterHolds, slipped \/ resets \/ OneByOne, [NextBoth]_varsBoth
             PROVE  WriterHolds' /\ (slipped' \/ resets' \/ OneByOne')
    OBVIOUS
<1>1. WriterHolds'
    BY WriterStep DEF LockInv
<1>2. SUFFICES ASSUME ~slipped', ~resets' PROVE OneByOne'
    BY <1>1
<1>3. TypeOK /\ ExclusionInv' /\ TypeOK'
    BY DEF LockInv, ExclusionInv
<1>4. CASE LockStep
    <2>1. ~slipped /\ \A c \in Clients : lost'[c] \subseteq lost[c]
        BY <1>2, <1>4 DEF LockStep
    <2>2. ~resets
        <3>1. [Next]_vars
            BY <1>4 DEF LockStep, Next
        <3> QED BY <1>2, <1>3, <3>1, ResetsStay
    <2>3. OneByOne /\ \A c \in Clients : lost'[c] = {}
        BY <2>1, <2>2 DEF OneByOne
    <2>4. ASSUME NEW c \in Clients, Lock(c) \/ ClientStep(c) PROVE OneByOne'
        BY <1>3, <1>4, <2>3, <2>4, LockKeepsOneByOne DEF LockStep
    <2>5. ASSUME NEW i \in Instances, Expire(i) PROVE OneByOne'
        BY <1>4, <2>3, <2>5 DEF LockStep, fencing, Expire, local, OneByOne, HolderIsLast, FenceWasGranted, Holds
    <2> QED BY <1>4, <2>4, <2>5 DEF LockStep
<1>5. ASSUME NEW c \in Clients, Write(c) PROVE OneByOne'
    <2>1. UNCHANGED <<slipped, resets>>
        BY <1>5 DEF Write, vars, history
    <2> QED BY <1>2, <1>5, <2>1, WriteKeepsOneByOne
<1>6. CASE UNCHANGED varsBoth
    BY <1>2, <1>6 DEF varsBoth, vars, local, history, fencing, OneByOne, HolderIsLast, FenceWasGranted, Holds
<1> QED BY <1>4, <1>5, <1>6 DEF NextBoth

LEMMA BothInvHolds == SpecBoth => []BothInv
<1>1. SpecBoth => []LockInv
    <2>1. SpecBoth => []ExclusionInv
        BY RefinesRedlock, ExclusionInit, ExclusionStep, PTL DEF Spec
    <2>2. SpecBoth => []TokenInv
        BY RefinesRedlock, TokenInvHolds, PTL
    <2>3. F!FInv => F!TypeOK
        BY DEF F!FInv
    <2> QED BY <2>1, <2>2, <2>3, FencingHolds, PTL DEF LockInv
<1>2. InitBoth => WriterHolds /\ (slipped \/ resets \/ OneByOne)
    <2> SUFFICES ASSUME InitBoth PROVE WriterHolds /\ OneByOne
        OBVIOUS
    <2>1. WriterHolds
        BY DEF InitBoth, W!Init, WriterHolds
    <2>2. (\A c \in Clients : lost[c] = {}) /\ HolderIsLast
        BY DEF InitBoth, Init, HolderIsLast, Holds
    <2>3. FenceWasGranted
        BY DEF InitBoth, W!Init, W!Keys, FenceWasGranted
    <2> QED BY <2>1, <2>2, <2>3 DEF OneByOne
<1>3. SpecBoth => [](WriterHolds /\ (slipped \/ resets \/ OneByOne))
    BY <1>1, <1>2, BothInvStep, PTL DEF SpecBoth
<1> QED BY <1>1, <1>3, PTL DEF BothInv

\* Writes race only after a holder has lost a key: both writers hold the lock, and two
\* holders have an instance in common where one has lost its key.
THEOREM RacesNeedLostLocks == SpecBoth => RaceNeedsLostLock
<1>1. BothInv /\ [NextBoth]_varsBoth => [raced' /\ ~raced => Lost]_varsBoth
    <2> SUFFICES ASSUME BothInv, NextBoth, raced', ~raced PROVE Lost
        OBVIOUS
    <2>1. PICK c \in Clients : Write(c)
        BY DEF NextBoth, LockStep, fencing
    <2>2. PICK h \in Holders : h = <<c, token[c]>>
        BY <2>1 DEF Write, Holders
    <2>3. Holds(c) /\ W!Step(h)
        BY <2>1, <2>2 DEF Write, Holds
    <2>4. PICK g \in Holders \ {h} : wpc[g] \in {"set1", "set2"}
        BY <2>3 DEF W!Step, W!StartWrite, W!GetFence, W!FirstSet, W!SecondSet, W!Race
    <2>5. Holds(g[1]) /\ g[2] = token[g[1]] /\ g[1] \in Clients
        BY <2>4, HoldersType DEF BothInv, WriterHolds, Holds
    <2>6. g[1] # c
        BY <2>2, <2>4, <2>5, HoldersType
    <2>7. ExclusionLostOnlyByDeletion
        BY ExclusionFollows DEF BothInv, LockInv
    <2> QED BY <2>3, <2>5, <2>6, <2>7 DEF ExclusionLostOnlyByDeletion, Lost
<1> QED BY <1>1, BothInvHolds, PTL DEF SpecBoth, RaceNeedsLostLock

\* The fence refuses a holder's first write only for one of the three causes.
THEOREM RefusalsHaveCauses == SpecBoth => RefusalHasCause
<1>1. BothInv /\ [NextBoth]_varsBoth =>
        [\A c \in Clients : Refused(c) => Overtaken(c) \/ slipped \/ resets]_varsBoth
    <2> SUFFICES ASSUME BothInv, NextBoth, NEW c \in Clients, Refused(c), ~slipped, ~resets
                 PROVE  Overtaken(c)
        OBVIOUS
    <2>1. /\ OneByOne /\ TokensUnique /\ TypeOK /\ F!TypeOK /\ granted \in Seq(Grant)
          /\ \A n \in DOMAIN granted : granted[n].token \in Nat
        BY TokensAreNat DEF BothInv, LockInv, TokenInv, TypeOK
    <2>2. PICK h \in Holders : h = <<c, token[c]>>
        BY DEF Refused
    <2>3. Holds(c) /\ calls[h] = 1 /\ wpc[h] = "get" /\ wpc'[h] = "idle" /\ wfaults' = wfaults
        BY <2>2 DEF Refused
    <2>4. PICK d \in Clients : Write(d)
        BY <2>3 DEF NextBoth, LockStep, fencing
    <2>5. PICK g \in Holders : g = <<d, token[d]>> /\ W!Step(g)
        BY <2>4 DEF Write, Holders
    <2>6. g = h
        BY <2>1, <2>3, <2>4, <2>5, WriteStep
    <2>7. h[2] <= store.fence /\ store.fence \in Nat /\ h[2] \in Nat /\ h[2] > 0
        <3>1. W!GetFence(h)
            BY <2>3, <2>5, <2>6 DEF W!Step, W!StartWrite, W!FirstSet, W!SecondSet
        <3>2. wfaults \in Nat
            BY <2>1, CompositionAssumption DEF F!TypeOK, W!FencingAssumption
        <3>3. W!Stale(h)
            BY <2>1, <2>3, <3>1, <3>2 DEF W!GetFence, W!GoTo, W!Fail, F!TypeOK
        <3>4. store.fence \in Nat
            BY <2>1 DEF F!TypeOK, F!Keys
        <3>5. h[2] \in Nat /\ h[2] > 0
            BY HoldersType, CompositionAssumption
        <3> QED BY <3>3, <3>4, <3>5 DEF W!Stale
    <2>8. PICK f \in Holders, n \in DOMAIN granted :
            /\ store.fence = f[2]
            /\ calls[f] = 1 => wpc[f] # "get"
            /\ granted[n] = [token |-> f[2], by |-> f[1]]
        BY <2>1, <2>7 DEF OneByOne, FenceWasGranted
    <2> DEFINE L == Len(granted)
    <2>9. L \in DOMAIN granted /\ granted[L] = [token |-> token[c], by |-> c] /\ \A m \in DOMAIN granted : m <= L
        BY <2>1, <2>3 DEF OneByOne, HolderIsLast
    <2>10. n # L
        <3> SUFFICES ASSUME n = L PROVE FALSE
            OBVIOUS
        <3>1. f[1] = c /\ f[2] = token[c]
            BY <2>8, <2>9
        <3>2. f = h
            BY <2>2, <3>1, HoldersType
        <3> QED BY <2>3, <2>8, <3>2
    <2>11. granted[n].token > token[c]
        <3>1. granted[n].token # granted[L].token
            BY <2>1, <2>9, <2>10 DEF TokensUnique
        <3>2. granted[n].token = store.fence /\ granted[L].token = token[c] /\ token[c] = h[2]
            BY <2>2, <2>8, <2>9
        <3> QED BY <2>7, <3>1, <3>2
    <2>12. Mine(c) = L
        <3>1. \A m \in DOMAIN granted : m \in Nat
            BY <2>1
        <3>2. \A m \in DOMAIN granted :
                (granted[m].by = c /\ \A k \in DOMAIN granted : granted[k].by = c => k <= m) <=> m = L
            BY <2>9, <3>1
        <3> QED BY <2>9, <3>2 DEF Mine
    <2>13. n \in 1..(L - 1)
        <3>1. DOMAIN granted = 1..L /\ L \in Nat
            BY <2>1
        <3> QED BY <2>10, <3>1
    <2> QED BY <2>11, <2>12, <2>13 DEF Overtaken
<1> QED BY <1>1, BothInvHolds, PTL DEF SpecBoth, RefusalHasCause
=============================================================================
