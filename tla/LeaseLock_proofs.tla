--------------------------- MODULE LeaseLock_proofs --------------------------
(***************************************************************************)
(* The lease locks, for any goroutines and any number of lock objects.     *)
(***************************************************************************)
EXTENDS LeaseLock, FiniteSetTheorems, TLAPS

CallsOf == {"idle", "Lock", "Unlock", "Renew", "ReleaseLock", "CleanupExpired"}

\* A lease has been granted once or not at all.
GrantedOnce == \A o \in Objects : granted[o] = {} \/ (lease[o] = "live" /\ \E g \in Goroutines : granted[o] = {g})

\* A mutex that is not given back is that of a lock that has had an owner.
HeldHasOwner == \A o \in Objects : mu[o] # Nobody => HasOwner(o)

LInv == TypeOK /\ GrantedOnce /\ WaitersAreWaiting /\ HeldHasOwner /\ ManagerStuckBehindTakenLock
-----------------------------------------------------------------------------
LEMMA LeaseTypeInit == Init => TypeOK
BY DEF Init, TypeOK

LEMMA LeaseTypeStep == TypeOK /\ [Next]_vars => TypeOK'
<1> SUFFICES ASSUME TypeOK, [Next]_vars PROVE TypeOK'
    OBVIOUS
<1> USE DEF TypeOK
<1>1. CASE UNCHANGED vars
    BY <1>1 DEF vars
<1>2. ASSUME NEW g \in Goroutines, GetLock(g) PROVE TypeOK'
    BY <1>2 DEF GetLock
<1>3. ASSUME NEW g \in Goroutines, Acquire(g) PROVE TypeOK'
    BY <1>3 DEF Acquire, acquire, Calls
<1>4. ASSUME NEW g \in Goroutines, Wait(g) PROVE TypeOK'
    BY <1>4 DEF Wait, Block, Calls
<1>5. ASSUME NEW g \in Goroutines, Cancel(g) PROVE TypeOK'
    BY <1>5 DEF Cancel, Block, removeWaiter
<1>6. ASSUME NEW g \in Goroutines, Unlock(g) \/ Renew(g) PROVE TypeOK'
    BY <1>6 DEF Unlock, Renew, Reenter, Block, Calls
<1>7. ASSUME NEW g \in Goroutines, ReleaseLock(g) PROVE TypeOK'
    BY <1>7 DEF ReleaseLock, KeepManager, Block
<1>8. ASSUME NEW g \in Goroutines, CleanupExpired(g) PROVE TypeOK'
    BY <1>8 DEF CleanupExpired, KeepManager, Block
<1>9. ASSUME NEW o \in Objects, Expire(o) PROVE TypeOK'
    BY <1>9 DEF Expire
<1> QED BY <1>1, <1>2, <1>3, <1>4, <1>5, <1>6, <1>7, <1>8, <1>9 DEF Next

\* Type correctness: the manager's entry and every goroutine's lock are objects that
\* were created.
THEOREM LeaseTypeCorrect == Spec => []TypeOK
BY LeaseTypeInit, LeaseTypeStep, PTL DEF Spec
-----------------------------------------------------------------------------
LEMMA GrantStep == TypeOK /\ GrantedOnce /\ [Next]_vars => GrantedOnce'
<1> SUFFICES ASSUME TypeOK, GrantedOnce, [Next]_vars PROVE GrantedOnce'
    OBVIOUS
<1> USE DEF GrantedOnce
<1>1. ASSUME NEW g \in Goroutines, Acquire(g) PROVE GrantedOnce'
    <2>1. PICK o \in Objects : o = lock[g]
        BY <1>1 DEF Acquire, Calls, TypeOK
    <2>2. granted[o] = {} /\ granted' = [granted EXCEPT ![o] = @ \cup {g}] /\ lease' = [lease EXCEPT ![o] = "live"]
        BY <1>1, <2>1 DEF Acquire, acquire, isLockAvailable
    <2>3. granted'[o] = {g} /\ lease'[o] = "live"
        BY <2>2 DEF TypeOK
    <2>4. \A p \in Objects \ {o} : granted'[p] = granted[p] /\ lease'[p] = lease[p]
        BY <2>2 DEF TypeOK
    <2> QED BY <2>3, <2>4
<1>2. ASSUME NEW o \in Objects, Expire(o) PROVE GrantedOnce'
    BY <1>2 DEF Expire, TypeOK
<1>3. CASE UNCHANGED <<lease, granted>>
    BY <1>3
<1> QED
    BY <1>1, <1>2, <1>3 DEF Next, vars, GetLock, Wait, Cancel, Unlock, Renew, Reenter, ReleaseLock, CleanupExpired

LEMMA WaiterStep == TypeOK /\ WaitersAreWaiting /\ [Next]_vars => WaitersAreWaiting'
<1> SUFFICES ASSUME TypeOK, WaitersAreWaiting, [Next]_vars, NEW o \in Objects
             PROVE  waiters'[o] = {g \in Goroutines : pc'[g] = "Lock" /\ lock'[g] = o}
    BY DEF WaitersAreWaiting
<1>0. waiters[o] = {g \in Goroutines : pc[g] = "Lock" /\ lock[g] = o}
    BY DEF WaitersAreWaiting
<1>1. ASSUME NEW g \in Goroutines, GetLock(g) PROVE waiters'[o] = {h \in Goroutines : pc'[h] = "Lock" /\ lock'[h] = o}
    <2>1. pc[g] = "idle" /\ UNCHANGED <<pc, waiters>> /\ \A h \in Goroutines \ {g} : lock'[h] = lock[h]
        BY <1>1 DEF GetLock, TypeOK
    <2> QED BY <1>0, <2>1
<1>2. ASSUME NEW g \in Goroutines, Wait(g) PROVE waiters'[o] = {h \in Goroutines : pc'[h] = "Lock" /\ lock'[h] = o}
    <2>1. /\ lock[g] \in Objects /\ UNCHANGED lock
          /\ pc'[g] = "Lock" /\ \A h \in Goroutines \ {g} : pc'[h] = pc[h]
          /\ waiters'[o] = IF lock[g] = o THEN waiters[o] \cup {g} ELSE waiters[o]
        BY <1>2 DEF Wait, Calls, Block, TypeOK
    <2>2. CASE lock[g] = o
        BY <1>0, <2>1, <2>2
    <2>3. CASE lock[g] # o
        BY <1>0, <2>1, <2>3
    <2> QED BY <2>2, <2>3
<1>3. ASSUME NEW g \in Goroutines, Cancel(g) PROVE waiters'[o] = {h \in Goroutines : pc'[h] = "Lock" /\ lock'[h] = o}
    <2>1. /\ UNCHANGED lock
          /\ pc'[g] = "idle" /\ \A h \in Goroutines \ {g} : pc'[h] = pc[h]
          /\ waiters'[o] = IF lock[g] = o THEN waiters[o] \ {g} ELSE waiters[o]
        BY <1>3 DEF Cancel, removeWaiter, Block, TypeOK
    <2>2. CASE lock[g] = o
        BY <1>0, <2>1, <2>2
    <2>3. CASE lock[g] # o
        BY <1>0, <2>1, <2>3
    <2> QED BY <2>2, <2>3
<1>4. ASSUME NEW g \in Goroutines, pc[g] = "idle", UNCHANGED <<waiters, lock>>,
             UNCHANGED pc \/ \E call \in {"Unlock", "Renew", "ReleaseLock", "CleanupExpired"} : Block(g, call)
      PROVE  waiters'[o] = {h \in Goroutines : pc'[h] = "Lock" /\ lock'[h] = o}
    <2>1. pc'[g] # "Lock" /\ \A h \in Goroutines \ {g} : pc'[h] = pc[h]
        BY <1>4 DEF Block, TypeOK
    <2> QED BY <1>0, <1>4, <2>1
<1>5. CASE UNCHANGED <<waiters, lock, pc>>
    BY <1>0, <1>5
<1>6. ASSUME NEW g \in Goroutines, Unlock(g) \/ Renew(g) PROVE waiters'[o] = {h \in Goroutines : pc'[h] = "Lock" /\ lock'[h] = o}
    BY <1>4, <1>6 DEF Unlock, Renew, Reenter, Calls
<1>7. ASSUME NEW g \in Goroutines, ReleaseLock(g) PROVE waiters'[o] = {h \in Goroutines : pc'[h] = "Lock" /\ lock'[h] = o}
    BY <1>4, <1>7 DEF ReleaseLock, KeepManager
<1>8. ASSUME NEW g \in Goroutines, CleanupExpired(g) PROVE waiters'[o] = {h \in Goroutines : pc'[h] = "Lock" /\ lock'[h] = o}
    BY <1>4, <1>8 DEF CleanupExpired, KeepManager
<1> QED
    BY <1>1, <1>2, <1>3, <1>5, <1>6, <1>7, <1>8 DEF Next, vars, Acquire, Expire

LEMMA ManagerStep ==
    TypeOK /\ HeldHasOwner /\ ManagerStuckBehindTakenLock /\ [Next]_vars
        => HeldHasOwner' /\ ManagerStuckBehindTakenLock'
<1> SUFFICES ASSUME TypeOK, HeldHasOwner, ManagerStuckBehindTakenLock, [Next]_vars
             PROVE  HeldHasOwner' /\ ManagerStuckBehindTakenLock'
    OBVIOUS
<1> USE LeaseLockAssumption DEF HeldHasOwner, ManagerStuckBehindTakenLock, HasOwner
\* A step that neither takes a mutex nor gives up a lock.
<1>1. ASSUME UNCHANGED <<mu, managerMu>>, entry' = entry \/ managerMu = Nobody,
             \A o \in Objects : lease'[o] = lease[o] \/ lease'[o] # "none"
      PROVE  HeldHasOwner' /\ ManagerStuckBehindTakenLock'
    BY <1>1 DEF TypeOK
<1>2. ASSUME NEW g \in Goroutines, GetLock(g) \/ Wait(g) \/ Cancel(g)
      PROVE  HeldHasOwner' /\ ManagerStuckBehindTakenLock'
    BY <1>1, <1>2 DEF GetLock, Wait, Cancel
<1>3. ASSUME NEW g \in Goroutines, Acquire(g) PROVE HeldHasOwner' /\ ManagerStuckBehindTakenLock'
    <2>1. \A o \in Objects : lease'[o] = lease[o] \/ lease'[o] # "none"
        BY <1>3 DEF Acquire, acquire, TypeOK
    <2> QED BY <1>1, <1>3, <2>1 DEF Acquire
<1>4. ASSUME NEW o \in Objects, Expire(o) PROVE HeldHasOwner' /\ ManagerStuckBehindTakenLock'
    <2>1. \A p \in Objects : lease'[p] = lease[p] \/ lease'[p] # "none"
        BY <1>4 DEF Expire, TypeOK
    <2> QED BY <1>1, <1>4, <2>1 DEF Expire
<1>5. CASE UNCHANGED vars
    BY <1>5 DEF vars
<1>6. ASSUME NEW g \in Goroutines, Unlock(g) \/ Renew(g) PROVE HeldHasOwner' /\ ManagerStuckBehindTakenLock'
    <2>1. PICK o \in Objects : o = lock[g] /\ mu' = [mu EXCEPT ![o] = g] /\ lease[o] # "none"
        BY <1>6 DEF Unlock, Renew, Reenter, Calls, TypeOK
    <2>2. UNCHANGED <<lease, entry, managerMu>> /\ g # Nobody
        BY <1>6 DEF Unlock, Renew, Reenter
    <2>3. mu'[o] = g /\ \A p \in Objects \ {o} : mu'[p] = mu[p]
        BY <2>1 DEF TypeOK
    <2>4. HeldHasOwner'
        BY <2>1, <2>2, <2>3
    <2>5. managerMu # Nobody => entry \in Objects
        BY DEF TypeOK
    <2> QED BY <2>1, <2>2, <2>3, <2>4, <2>5
<1>7. ASSUME NEW g \in Goroutines, ReleaseLock(g) PROVE HeldHasOwner' /\ ManagerStuckBehindTakenLock'
    <2>1. PICK o \in Objects : o = entry
        BY <1>7 DEF ReleaseLock, TypeOK
    <2>2. managerMu = Nobody /\ g # Nobody /\ UNCHANGED lease
        BY <1>7 DEF ReleaseLock
    <2>3. CASE mu[o] = Nobody /\ lease[o] = "none"
        BY <1>1, <1>7, <2>1, <2>2, <2>3 DEF ReleaseLock
    <2>4. CASE ~(mu[o] = Nobody /\ lease[o] = "none")
        <3>1. UNCHANGED entry /\ mu' = [mu EXCEPT ![o] = IF @ = Nobody THEN g ELSE @]
            BY <1>7, <2>1, <2>4 DEF ReleaseLock
        <3>2. mu'[o] # Nobody /\ lease[o] # "none" /\ \A p \in Objects \ {o} : mu'[p] = mu[p]
            BY <2>2, <2>4, <3>1 DEF TypeOK
        <3> QED BY <2>1, <2>2, <3>1, <3>2
    <2> QED BY <2>3, <2>4
<1>8. ASSUME NEW g \in Goroutines, CleanupExpired(g) PROVE HeldHasOwner' /\ ManagerStuckBehindTakenLock'
    <2>1. entry \in Objects /\ managerMu = Nobody /\ UNCHANGED <<lease, mu>>
        BY <1>8 DEF CleanupExpired, TypeOK
    <2>2. managerMu' # Nobody => UNCHANGED entry /\ mu[entry] # Nobody
        BY <1>8, <2>1 DEF CleanupExpired
    <2> QED BY <2>1, <2>2
<1> QED BY <1>2, <1>3, <1>4, <1>5, <1>6, <1>7, <1>8 DEF Next

LEMMA LInvInit == Init => LInv
<1> SUFFICES ASSUME Init PROVE LInv
    OBVIOUS
<1> USE DEF Init
<1>1. TypeOK
    BY LeaseTypeInit
<1>2. GrantedOnce /\ HeldHasOwner /\ ManagerStuckBehindTakenLock
    BY DEF GrantedOnce, HeldHasOwner, ManagerStuckBehindTakenLock
<1>3. WaitersAreWaiting
    BY DEF WaitersAreWaiting
<1> QED BY <1>1, <1>2, <1>3 DEF LInv

LEMMA LInvHolds == Spec => []LInv
<1>1. LInv /\ [Next]_vars => LInv'
    BY LeaseTypeStep, GrantStep, WaiterStep, ManagerStep DEF LInv
<1> QED BY LInvInit, <1>1, PTL DEF Spec

\* While its lease lives, a lock object has been given to one goroutine only.
THEOREM OneGrant == Spec => []OneLiveGrant
<1>1. LInv => OneLiveGrant
    <2> SUFFICES ASSUME LInv, NEW o \in Objects
                 PROVE  Cardinality(granted[o]) <= 1 /\ (granted[o] # {} => lease[o] = "live")
        BY DEF OneLiveGrant
    <2>1. CASE granted[o] = {}
        BY <2>1, FS_EmptySet
    <2>2. CASE lease[o] = "live" /\ \E g \in Goroutines : granted[o] = {g}
        BY <2>2, FS_Singleton
    <2> QED BY <2>1, <2>2 DEF LInv, GrantedOnce
<1> QED BY <1>1, LInvHolds, PTL

\* The channels in waiters are those of the calls that wait.
THEOREM WaitersWait == Spec => []WaitersAreWaiting
<1>1. LInv => WaitersAreWaiting
    BY DEF LInv
<1> QED BY <1>1, LInvHolds, PTL

\* The manager is stuck only behind a lock that has been taken.
THEOREM ManagerStuck == Spec => []ManagerStuckBehindTakenLock
<1>1. LInv => ManagerStuckBehindTakenLock
    BY DEF LInv
<1> QED BY <1>1, LInvHolds, PTL
=============================================================================
