------------------------------ MODULE Redlock --------------------------------
(***************************************************************************)
(* The lock of src/pkg/redlock/redlock.go on one lock name: clients call   *)
(* Lock and Unlock on Redlock objects, which work through the Redis        *)
(* instances one command at a time.                                        *)
(*                                                                         *)
(* Redis executes a command or a Lua script atomically, so one command is  *)
(* one step, and other clients act between two of them.  A command may     *)
(* fail, before or after the instance executed it; Lock gives up when the  *)
(* first INCR fails, counts a failed acquisition as not acquired, and      *)
(* ignores every other failure.  A Redlock object runs one Lock at a time  *)
(* (Redlock.mu); Unlock takes no mutex.                                    *)
(***************************************************************************)
EXTENDS Integers, FiniteSets, Sequences

CONSTANTS
    NumInstances,   \* len(instances); instance 1 is instances[0]
    Clients,        \* the goroutines that lock and unlock
    Objects,        \* the Redlock objects, one per process that uses the lock
    ObjectOf,       \* ObjectOf[c]: the object client c calls
    MaxLocks,       \* bound: the Lock calls in all
    MaxFaults,      \* bound: the commands that fail in all
    MayExpire       \* bound: the instances where a lock's PX may run out

ASSUME RedlockAssumption ==
    /\ NumInstances \in Nat \ {0}
    /\ ObjectOf \in [Clients -> Objects]
    /\ MaxLocks \in Nat /\ MaxFaults \in Nat
    /\ MayExpire \subseteq 1..NumInstances

Instances == 1..NumInstances

\* Fault: half of the instances.
FaultyQuorum == NumInstances \div 2

quorum == NumInstances \div 2 + 1

VARIABLES
    tokenKey,   \* tokenKey[i]: the counter on instance i, 0 if absent
    lockKey,    \* lockKey[i]: the lock on instance i, a set of at most one
                \* record: the token stored and, as history, who stored it
    mu,         \* mu[o]: the client in Lock on object o, if any
    pc,         \* pc[c]: where client c is
    at,         \* at[c]: the instance its next command goes to
    token,      \* token[c]: newToken
    acquired,   \* acquired[c]: the instances counted in acquired
    locks,      \* how often Lock was called
    faults,     \* how many commands have failed
    lost,       \* history: lost[c], where the lock c set was deleted by another
                \* client or expired during Lock and while c holds it
    resets,     \* history: whether instances[0] lost its token counter
    granted     \* history: the successful Lock calls, in their order

keys == <<tokenKey, lockKey>>
local == <<pc, at, token, acquired, locks>>
history == <<lost, resets, granted>>
vars == <<keys, mu, local, faults, history>>

LockRecord == [token : Nat, by : Clients]
Grant == LockRecord

TypeOK ==
    /\ tokenKey \in [Instances -> Nat]
    /\ lockKey \in [Instances -> SUBSET LockRecord]
    /\ \A i \in Instances : \A k, l \in lockKey[i] : k = l
    /\ mu \in [Objects -> SUBSET Clients]
    /\ pc \in [Clients -> {"idle", "incr", "acquire", "release", "held", "unlock"}]
    /\ at \in [Clients -> 1..(NumInstances + 1)]
    /\ token \in [Clients -> Nat]
    /\ acquired \in [Clients -> SUBSET Instances]
    /\ locks \in 0..MaxLocks
    /\ faults \in 0..MaxFaults
    /\ lost \in [Clients -> SUBSET Instances]
    /\ resets \in BOOLEAN
    /\ granted \in Seq(Grant)

Init ==
    /\ tokenKey = [i \in Instances |-> 0]
    /\ lockKey = [i \in Instances |-> {}]
    /\ mu = [o \in Objects |-> {}]
    /\ pc = [c \in Clients |-> "idle"]
    /\ at = [c \in Clients |-> 1]
    /\ token = [c \in Clients |-> 0]
    /\ acquired = [c \in Clients |-> {}]
    /\ locks = 0
    /\ faults = 0
    /\ lost = [c \in Clients |-> {}]
    /\ resets = FALSE
    /\ granted = << >>
-----------------------------------------------------------------------------
\* c sends a command to the instance its loop has reached.
Command(c, step) == pc[c] = step /\ at[c] <= NumInstances
Advance(c) == at' = [at EXCEPT ![c] = @ + 1]
LoopDone(c, step) == pc[c] = step /\ at[c] = NumInstances + 1
GoTo(c, step) == pc' = [pc EXCEPT ![c] = step] /\ at' = [at EXCEPT ![c] = 1]

\* c's call returns and its locals go out of scope.
Return(c) ==
    /\ GoTo(c, "idle")
    /\ token' = [token EXCEPT ![c] = 0]
    /\ acquired' = [acquired EXCEPT ![c] = {}]
FreeMutex(c) == mu' = [mu EXCEPT ![ObjectOf[c]] = {}]

\* The outcome of a command: the instance executed it or not, the caller sees it
\* succeed or fail.
Outcome(executed, answered) ==
    \/ executed /\ answered /\ UNCHANGED faults
    \/ ~answered /\ faults < MaxFaults /\ faults' = faults + 1

\* Those in S that are calling or holding lose what they have on instance i.
LostOn(i, S) == lost' = [c \in Clients |-> IF c \in S /\ pc[c] # "idle" THEN lost[c] \cup {i} ELSE lost[c]]
OwnersOn(i) == {k.by : k \in lockKey[i]}

\* Lock: take the object's mutex.
Lock(c) ==
    /\ pc[c] = "idle" /\ locks < MaxLocks
    /\ mu[ObjectOf[c]] = {}
    /\ mu' = [mu EXCEPT ![ObjectOf[c]] = {c}]
    /\ locks' = locks + 1
    /\ lost' = [lost EXCEPT ![c] = {}]
    /\ GoTo(c, "incr")
    /\ UNCHANGED <<keys, token, acquired, faults, resets, granted>>

\* Fault: the counter is created but not raised.
FaultyNextCount(i) == 1

NextCount(i) == tokenKey[i] + 1

\* INCR on every instance; the first one's answer is the token, and only its
\* failure counts.
Incr(c) ==
    LET i == at[c] IN
    /\ Command(c, "incr")
    /\ \E executed, answered \in BOOLEAN :
         /\ Outcome(executed, answered)
         /\ tokenKey' = IF executed THEN [tokenKey EXCEPT ![i] = NextCount(i)] ELSE tokenKey
         /\ IF i = 1 /\ ~answered
              THEN Return(c) /\ FreeMutex(c)
              ELSE /\ Advance(c)
                   /\ token' = IF i = 1 THEN [token EXCEPT ![c] = NextCount(1)] ELSE token
                   /\ UNCHANGED <<pc, mu, acquired>>
    /\ UNCHANGED <<lockKey, locks, history>>

StartAcquire(c) ==
    /\ LoopDone(c, "incr")
    /\ GoTo(c, "acquire")
    /\ UNCHANGED <<keys, mu, token, acquired, locks, faults, history>>

\* Fault: SET without the test whether the key exists.
FaultyVacant(i) == TRUE

Vacant(i) == lockKey[i] = {}

\* tryAcquire's script: set the lock if there is none.
TryAcquire(c) ==
    LET i == at[c] IN
    /\ Command(c, "acquire")
    /\ \E executed, answered \in BOOLEAN :
         /\ Outcome(executed, answered)
         /\ lockKey' = IF executed /\ Vacant(i)
                         THEN [lockKey EXCEPT ![i] = {[token |-> token[c], by |-> c]}]
                         ELSE lockKey
         /\ acquired' = IF answered /\ Vacant(i) THEN [acquired EXCEPT ![c] = @ \cup {i}] ELSE acquired
    /\ Advance(c)
    /\ UNCHANGED <<tokenKey, mu, pc, token, locks, faults, history>>

\* Enough instances said yes: return the token; otherwise clean up.
Decide(c) ==
    /\ LoopDone(c, "acquire")
    /\ IF Cardinality(acquired[c]) >= quorum
         THEN /\ GoTo(c, "held") /\ FreeMutex(c)
              /\ granted' = Append(granted, [token |-> token[c], by |-> c])
         ELSE GoTo(c, "release") /\ UNCHANGED <<mu, granted>>
    /\ UNCHANGED <<keys, token, acquired, locks, faults, lost, resets>>

\* Fault: only the lock key is deleted where c has acquired it.
FaultyDeletedBy(c, i) == IF i \in acquired[c] THEN lockKey[i] ELSE {}

\* The lock forceRelease deletes: whatever is there.
DeletedBy(c, i) == lockKey[i]

\* forceRelease: DEL of the lock and the token counter, whoever they belong to;
\* then Lock returns its error.
ForceRelease(c) ==
    LET i == at[c] IN
    /\ Command(c, "release")
    /\ \E executed, answered \in BOOLEAN :
         /\ Outcome(executed, answered)
         /\ IF executed
              THEN /\ lockKey' = [lockKey EXCEPT ![i] = @ \ DeletedBy(c, i)]
                   /\ tokenKey' = [tokenKey EXCEPT ![i] = 0]
                   /\ LostOn(i, OwnersOn(i) \ {c})
                   /\ resets' = (resets \/ i = 1)
              ELSE UNCHANGED <<keys, lost, resets>>
    /\ IF i = NumInstances
         THEN Return(c) /\ FreeMutex(c)
         ELSE Advance(c) /\ UNCHANGED <<pc, mu, token, acquired>>
    /\ UNCHANGED <<locks, granted>>

\* The holder calls Unlock with the token it was given.
StartUnlock(c) ==
    /\ pc[c] = "held"
    /\ GoTo(c, "unlock")
    /\ UNCHANGED <<keys, mu, token, acquired, locks, faults, history>>

\* Fault: delete without comparing.
FaultyMatches(c, k) == TRUE

\* Fault: compare with the token counted last on the instance.
FaultyMatchesCount(c, k) == k.token = tokenKey[at[c]]

\* The test of Unlock's script.
Matches(c, k) == k.token = token[c]

\* Unlock's script: delete the lock if it stores the token.
Unlock(c) ==
    LET i == at[c]
        mine == {k \in lockKey[i] : Matches(c, k)} IN
    /\ Command(c, "unlock")
    /\ \E executed, answered \in BOOLEAN :
         /\ Outcome(executed, answered)
         /\ IF executed
              THEN /\ lockKey' = [lockKey EXCEPT ![i] = @ \ mine]
                   /\ LostOn(i, {k.by : k \in mine} \ {c})
              ELSE UNCHANGED <<lockKey, lost>>
    /\ IF i = NumInstances THEN Return(c) ELSE Advance(c) /\ UNCHANGED <<pc, token, acquired>>
    /\ UNCHANGED <<tokenKey, mu, locks, resets, granted>>

\* A lock's PX runs out on one instance; the token counter has no TTL.
Expire(i) ==
    /\ i \in MayExpire /\ lockKey[i] # {}
    /\ lockKey' = [lockKey EXCEPT ![i] = {}]
    /\ LostOn(i, OwnersOn(i))
    /\ UNCHANGED <<tokenKey, mu, local, faults, resets, granted>>

ClientStep(c) ==
    \/ Incr(c) \/ StartAcquire(c) \/ TryAcquire(c) \/ Decide(c)
    \/ ForceRelease(c) \/ StartUnlock(c) \/ Unlock(c)

Next ==
    \/ \E c \in Clients : Lock(c) \/ ClientStep(c)
    \/ \E i \in Instances : Expire(i)

Spec == Init /\ [][Next]_vars
-----------------------------------------------------------------------------
Holds(c) == pc[c] = "held"

\* At most one client holds the lock (docs/verification.md:35-43).
MutualExclusion == \A c, d \in Clients : Holds(c) /\ Holds(d) => c = d

\* Two holders at a time are always the work of a deletion or an expiry: on an
\* instance both have acquired, one of them has lost its key since.
ExclusionLostOnlyByDeletion ==
    \A c, d \in Clients :
        Holds(c) /\ Holds(d) /\ c # d =>
            \E i \in acquired[c] \cap acquired[d] : i \in lost[c] \cup lost[d]

\* No two grants carry the same token (docs/chaos-testing.md:83).
TokensUnique ==
    \A m, n \in DOMAIN granted : granted[m].token = granted[n].token => m = n

\* As long as no cleanup has deleted the counter of instances[0], no token is
\* given out twice, not even to a Lock call still under way.
TokenReuseNeedsReset ==
    ~resets => /\ TokensUnique
               /\ \A c \in Clients, n \in DOMAIN granted :
                     pc[c] = "acquire" => token[c] # granted[n].token

\* Until a command fails no lock outlives the call that set it: every lock in
\* Redis was set by a client that is still in Lock, holds it or is in Unlock.
KeysHaveLiveOwners ==
    faults = 0 => \A i \in Instances : \A k \in lockKey[i] : pc[k.by] # "idle"

\* Unlock deletes another client's lock only after a reset has made two clients
\* share a token.
UnlockSparesOthers ==
    [][\A c \in Clients, i \in Instances :
         Unlock(c) /\ lockKey'[i] # lockKey[i] /\ ~resets => OwnersOn(i) = {c}]_vars
=============================================================================
