------------------------------ MODULE LeaseLock ------------------------------
(***************************************************************************)
(* The lease locks of src/pkg/leaselock/leaselock.go for one id, with the  *)
(* manager that hands them out: goroutines get a LeaseLock object from the *)
(* manager and lock, renew and unlock it.  A goroutine has one call under  *)
(* way at a time.                                                          *)
(*                                                                         *)
(* A call holds LeaseLock.mu from its first line to its last, or up to its *)
(* select, and is one step, unless it stops on the way.  Unlock and Renew  *)
(* do whenever the lock has an owner: they hold mu and call IsHeld, which  *)
(* locks mu again.  What follows (the release of the lock, the wakeup of   *)
(* the waiters, the new expiry time) is never reached and left out.  An    *)
(* object's owner is its own id or nobody.                                 *)
(***************************************************************************)
EXTENDS Naturals, FiniteSets

CONSTANTS
    Goroutines,
    Objects,     \* bound: the LeaseLock objects that may be created
    Nobody       \* the holder of a free mutex, the entry of an absent id

ASSUME LeaseLockAssumption ==
    IsFiniteSet(Goroutines) /\ Nobody \notin Goroutines \cup Objects

VARIABLES
    lease,     \* lease[o]: "none" (owner is empty), "live" or "expired"
    mu,        \* mu[o]: who holds the object's mutex between two steps
    waiters,   \* waiters[o]: the goroutines with a channel in waiters
    created,   \* the objects created so far
    entry,     \* the manager's entry for the id
    managerMu, \* who holds the manager's mutex between two steps
    lock,      \* lock[g]: the object g has got from the manager
    pc,        \* pc[g]: the call g is blocked in, or "idle"
    granted    \* history: granted[o], who was given the lock in its live lease

vars == <<lease, mu, waiters, created, entry, managerMu, lock, pc, granted>>

TypeOK ==
    /\ lease \in [Objects -> {"none", "live", "expired"}]
    /\ mu \in [Objects -> Goroutines \cup {Nobody}]
    /\ waiters \in [Objects -> SUBSET Goroutines]
    /\ created \subseteq Objects
    /\ entry \in created \cup {Nobody}
    /\ managerMu \in Goroutines \cup {Nobody}
    /\ lock \in [Goroutines -> created \cup {Nobody}]
    /\ pc \in [Goroutines -> {"idle", "Lock", "Unlock", "Renew", "ReleaseLock", "CleanupExpired"}]
    /\ granted \in [Objects -> SUBSET Goroutines]

Init ==
    /\ lease = [o \in Objects |-> "none"]
    /\ mu = [o \in Objects |-> Nobody]
    /\ waiters = [o \in Objects |-> {}]
    /\ created = {} /\ entry = Nobody /\ managerMu = Nobody
    /\ lock = [g \in Goroutines |-> Nobody]
    /\ pc = [g \in Goroutines |-> "idle"]
    /\ granted = [o \in Objects |-> {}]
-----------------------------------------------------------------------------
Block(g, call) == pc' = [pc EXCEPT ![g] = call]

\* g calls a method of its object and gets the object's mutex.
Calls(g) == pc[g] = "idle" /\ lock[g] # Nobody /\ mu[lock[g]] = Nobody

\* Fault: the lease is not looked at.
FaultyIsLockAvailable(o) == TRUE

isLockAvailable(o) == lease[o] # "live"

acquire(g, o) ==
    /\ lease' = [lease EXCEPT ![o] = "live"]
    /\ granted' = [granted EXCEPT ![o] = @ \cup {g}]

\* Lock, or TryLock, on a lock that is available.
Acquire(g) ==
    /\ Calls(g) /\ isLockAvailable(lock[g])
    /\ acquire(g, lock[g])
    /\ UNCHANGED <<mu, waiters, created, entry, managerMu, lock, pc>>

\* Lock on one that is not: wait for a channel or the context.  (TryLock returns
\* false.)
Wait(g) ==
    /\ Calls(g) /\ ~isLockAvailable(lock[g])
    /\ waiters' = [waiters EXCEPT ![lock[g]] = @ \cup {g}]
    /\ Block(g, "Lock")
    /\ UNCHANGED <<lease, mu, created, entry, managerMu, lock, granted>>

\* Fault: the channel of a cancelled call stays in waiters.
FaultyRemoveWaiter(g, o) == waiters[o]

removeWaiter(g, o) == waiters[o] \ {g}

\* The context of a waiting Lock ends.
Cancel(g) ==
    /\ pc[g] = "Lock" /\ mu[lock[g]] = Nobody
    /\ waiters' = [waiters EXCEPT ![lock[g]] = removeWaiter(g, lock[g])]
    /\ Block(g, "idle")
    /\ UNCHANGED <<lease, mu, created, entry, managerMu, lock, granted>>

\* Fault: the owner is not looked at.
FaultyHasOwner(o) == TRUE

HasOwner(o) == lease[o] # "none"

\* Unlock or Renew of a lock that has an owner, live or expired.  (Without one
\* they return ErrNotOwner.)
Reenter(g, call) ==
    /\ Calls(g) /\ HasOwner(lock[g])
    /\ mu' = [mu EXCEPT ![lock[g]] = g]
    /\ Block(g, call)
    /\ UNCHANGED <<lease, waiters, created, entry, managerMu, lock, granted>>

Unlock(g) == Reenter(g, "Unlock")
Renew(g) == Reenter(g, "Renew")

\* The clock passes expireAt.
Expire(o) ==
    /\ lease[o] = "live"
    /\ lease' = [lease EXCEPT ![o] = "expired"]
    /\ granted' = [granted EXCEPT ![o] = {}]
    /\ UNCHANGED <<mu, waiters, created, entry, managerMu, lock, pc>>

GetLock(g) ==
    /\ pc[g] = "idle" /\ managerMu = Nobody
    /\ IF entry = Nobody
         THEN \E o \in Objects \ created :
                /\ created' = created \cup {o}
                /\ entry' = o
                /\ lock' = [lock EXCEPT ![g] = o]
         ELSE lock' = [lock EXCEPT ![g] = entry] /\ UNCHANGED <<created, entry>>
    /\ UNCHANGED <<lease, mu, waiters, managerMu, pc, granted>>

\* ReleaseLock and CleanupExpired call a method of the entry under the manager's
\* mutex; when that does not return, neither mutex is given back.
KeepManager(g, call) == managerMu' = g /\ Block(g, call)

ReleaseLock(g) ==
    /\ pc[g] = "idle" /\ managerMu = Nobody /\ entry # Nobody
    /\ IF mu[entry] = Nobody /\ ~HasOwner(entry)
         THEN entry' = Nobody /\ UNCHANGED <<mu, managerMu, pc>>
         ELSE /\ KeepManager(g, "ReleaseLock")
              /\ mu' = [mu EXCEPT ![entry] = IF @ = Nobody THEN g ELSE @]
              /\ UNCHANGED entry
    /\ UNCHANGED <<lease, waiters, created, lock, granted>>

\* now.After(expireAt); the expireAt of a lock never taken is the zero time.
Expired(o) == lease[o] # "live"

CleanupExpired(g) ==
    /\ pc[g] = "idle" /\ managerMu = Nobody /\ entry # Nobody
    /\ IF mu[entry] = Nobody
         THEN entry' = (IF Expired(entry) THEN Nobody ELSE entry) /\ UNCHANGED <<managerMu, pc>>
         ELSE KeepManager(g, "CleanupExpired") /\ UNCHANGED entry
    /\ UNCHANGED <<lease, mu, waiters, created, lock, granted>>

Next ==
    \/ \E g \in Goroutines :
         \/ GetLock(g) \/ Acquire(g) \/ Wait(g) \/ Cancel(g) \/ Unlock(g) \/ Renew(g)
         \/ ReleaseLock(g) \/ CleanupExpired(g)
    \/ \E o \in Objects : Expire(o)

Spec == Init /\ [][Next]_vars
-----------------------------------------------------------------------------
\* While its lease lives, a lock object has been given to one goroutine only.
OneLiveGrant ==
    \A o \in Objects : Cardinality(granted[o]) <= 1 /\ (granted[o] # {} => lease[o] = "live")

\* The channels in waiters are those of the calls that wait, each once.
WaitersAreWaiting ==
    \A o \in Objects : waiters[o] = {g \in Goroutines : pc[g] = "Lock" /\ lock[g] = o}

\* The manager is stuck only behind a lock that has been taken, never behind one
\* that is free.
ManagerStuckBehindTakenLock ==
    managerMu # Nobody => entry # Nobody /\ mu[entry] # Nobody /\ lease[entry] # "none"
=============================================================================
