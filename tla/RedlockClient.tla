---------------------------- MODULE RedlockClient ----------------------------
(***************************************************************************)
(* The demo client of src/go/redlock.go: RedlockClient objects that share  *)
(* one lock key and one token key on a number of Redis instances.          *)
(*                                                                         *)
(* getMaxToken, the acquisition and unlockAll send a command to every      *)
(* instance at once, one goroutine each, and wait for all of them; the     *)
(* SETs of the token after a successful acquisition go one by one.  Redis  *)
(* executes a command or a Lua script atomically.  A command may fail,     *)
(* before or after the instance executed it.                               *)
(***************************************************************************)
EXTENDS Integers, FiniteSets

CONSTANTS
    NumInstances,   \* len(clients)
    Clients,        \* the RedlockClient objects, each used by one goroutine
    MaxLocks,       \* bound: the Lock calls of one client
    MaxFaults,      \* bound: the commands that fail in all
    MayExpire       \* bound: the instances where a lock's PX may run out

ASSUME RedlockClientAssumption ==
    /\ NumInstances \in Nat \ {0}
    /\ MaxLocks \in Nat /\ MaxFaults \in Nat
    /\ MayExpire \subseteq 1..NumInstances

Instances == 1..NumInstances

\* Fault: half of the instances.
FaultyQuorum == NumInstances \div 2

quorum == NumInstances \div 2 + 1

VARIABLES
    tokenKey,   \* tokenKey[i]: the token stored on instance i, 0 if absent
    lockKey,    \* lockKey[i]: the lock on instance i, a set of at most one
                \* record: the token stored and, as history, who stored it
    pc,         \* pc[c]: where client c is
    todo,       \* todo[c]: the instances its current step has not heard from
    maxToken,   \* maxToken[c]: the largest token getMaxToken has read
    token,      \* token[c]: newToken
    errs,       \* errs[c]: whether getMaxToken has seen an error
    acquired,   \* acquired[c]: the instances counted in successCount
    locks,      \* locks[c]: how often c has called Lock
    faults,     \* how many commands have failed
    lost,       \* history: lost[c], where the lock c set was deleted by another
                \* client or expired during Lock and while c holds it
    lowered,    \* history: whether a SET has replaced a token by a smaller one
    ahead       \* history: ahead[c], whether another client held the lock with a
                \* larger token when c's fencing test began

keys == <<tokenKey, lockKey>>
local == <<pc, todo, maxToken, token, errs, acquired, locks>>
history == <<lost, lowered, ahead>>
vars == <<keys, local, faults, history>>

LockRecord == [token : Nat, by : Clients]
Steps == {"idle", "max", "acquire", "publish", "release", "held", "check", "write", "unlock"}

TypeOK ==
    /\ tokenKey \in [Instances -> Nat]
    /\ lockKey \in [Instances -> SUBSET LockRecord]
    /\ \A i \in Instances : \A k, l \in lockKey[i] : k = l
    /\ pc \in [Clients -> Steps]
    /\ todo \in [Clients -> SUBSET Instances]
    /\ maxToken \in [Clients -> Nat] /\ token \in [Clients -> Nat]
    /\ errs \in [Clients -> BOOLEAN]
    /\ acquired \in [Clients -> SUBSET Instances]
    /\ locks \in [Clients -> 0..MaxLocks]
    /\ faults \in 0..MaxFaults
    /\ lost \in [Clients -> SUBSET Instances]
    /\ lowered \in BOOLEAN /\ ahead \in [Clients -> BOOLEAN]

Init ==
    /\ tokenKey = [i \in Instances |-> 0]
    /\ lockKey = [i \in Instances |-> {}]
    /\ pc = [c \in Clients |-> "idle"]
    /\ todo = [c \in Clients |-> {}]
    /\ maxToken = [c \in Clients |-> 0]
    /\ token = [c \in Clients |-> 0]
    /\ errs = [c \in Clients |-> FALSE]
    /\ acquired = [c \in Clients |-> {}]
    /\ locks = [c \in Clients |-> 0]
    /\ faults = 0
    /\ lost = [c \in Clients |-> {}]
    /\ lowered = FALSE
    /\ ahead = [c \in Clients |-> FALSE]
-----------------------------------------------------------------------------
\* c starts a step in which every instance gets a command.
Begin(c, step) == pc' = [pc EXCEPT ![c] = step] /\ todo' = [todo EXCEPT ![c] = Instances]
GoTo(c, step) == pc' = [pc EXCEPT ![c] = step] /\ todo' = [todo EXCEPT ![c] = {}]
Done(c, step) == pc[c] = step /\ todo[c] = {}

\* c's command to instance i: executed or not, answered or failed.
Command(c, i, executed, answered) ==
    /\ i \in todo[c]
    /\ todo' = [todo EXCEPT ![c] = @ \ {i}]
    /\ \/ executed /\ answered /\ UNCHANGED faults
       \/ ~answered /\ faults < MaxFaults /\ faults' = faults + 1

\* Lock returns without the lock, or Unlock returns, and the locals are gone.
Return(c) ==
    /\ GoTo(c, "idle")
    /\ token' = [token EXCEPT ![c] = 0]
    /\ acquired' = [acquired EXCEPT ![c] = {}]

\* Those in S that are calling or holding lose what they have on instance i.
LostOn(i, S) ==
    lost' = [c \in Clients |-> IF c \in S /\ pc[c] # "idle" THEN lost[c] \cup {i} ELSE lost[c]]
OwnersOn(i) == {k.by : k \in lockKey[i]}

\* getMaxToken has returned.
ForgetMaxToken(c) ==
    /\ maxToken' = [maxToken EXCEPT ![c] = 0]
    /\ errs' = [errs EXCEPT ![c] = FALSE]

\* getMaxToken: a goroutine has GOT the token of instance i.
ReadToken(c, i) ==
    /\ pc[c] \in {"max", "check"}
    /\ \E answered \in BOOLEAN :
         /\ Command(c, i, TRUE, answered)
         /\ maxToken' = IF answered /\ tokenKey[i] > maxToken[c]
                          THEN [maxToken EXCEPT ![c] = tokenKey[i]] ELSE maxToken
         /\ errs' = [errs EXCEPT ![c] = @ \/ ~answered]
    /\ UNCHANGED <<keys, pc, token, acquired, locks, history>>

Lock(c) ==
    /\ pc[c] = "idle" /\ locks[c] < MaxLocks
    /\ Begin(c, "max")
    /\ locks' = [locks EXCEPT ![c] = @ + 1]
    /\ lost' = [lost EXCEPT ![c] = {}]
    /\ UNCHANGED <<keys, maxToken, token, errs, acquired, faults, lowered, ahead>>

\* The token is chosen; one unreachable instance is enough to give up.
ChooseToken(c) ==
    /\ Done(c, "max")
    /\ IF errs[c]
         THEN Return(c)
         ELSE /\ Begin(c, "acquire")
              /\ token' = [token EXCEPT ![c] = maxToken[c] + 1]
              /\ UNCHANGED acquired
    /\ ForgetMaxToken(c)
    /\ UNCHANGED <<keys, locks, faults, history>>

\* Fault: SET without the test whether the key exists.
FaultyVacant(i) == TRUE

Vacant(i) == lockKey[i] = {}

\* SET of c's token on instance i, whatever is there.
SetToken(c, i) ==
    /\ tokenKey' = [tokenKey EXCEPT ![i] = token[c]]
    /\ lowered' = (lowered \/ token[c] < tokenKey[i])

\* acquireInstance: set the lock and the token where there is no lock.
AcquireInstance(c, i) ==
    /\ pc[c] = "acquire"
    /\ \E executed, answered \in BOOLEAN :
         /\ Command(c, i, executed, answered)
         /\ IF executed /\ Vacant(i)
              THEN lockKey' = [lockKey EXCEPT ![i] = {[token |-> token[c], by |-> c]}] /\ SetToken(c, i)
              ELSE UNCHANGED <<keys, lowered>>
         /\ acquired' = IF answered /\ Vacant(i) THEN [acquired EXCEPT ![c] = @ \cup {i}] ELSE acquired
    /\ UNCHANGED <<pc, maxToken, token, errs, locks, lost, ahead>>

\* Enough instances said yes: publish the token; otherwise unlock.
Decide(c) ==
    /\ Done(c, "acquire")
    /\ Begin(c, IF Cardinality(acquired[c]) >= quorum THEN "publish" ELSE "release")
    /\ UNCHANGED <<keys, maxToken, token, errs, acquired, locks, faults, history>>

\* SET of the token on the next instance, whatever is there; after the last one
\* Lock returns the token.
Publish(c) ==
    \E i \in todo[c] :
      /\ pc[c] = "publish" /\ \A j \in todo[c] : i <= j
      /\ \E executed, answered \in BOOLEAN :
           /\ Command(c, i, executed, answered)
           /\ IF executed THEN SetToken(c, i) ELSE UNCHANGED <<tokenKey, lowered>>
      /\ IF todo[c] = {i}
           THEN pc' = [pc EXCEPT ![c] = "held"]
           ELSE UNCHANGED pc
      /\ UNCHANGED <<lockKey, maxToken, token, errs, acquired, locks, lost, ahead>>

\* Lock has found its quorum and Unlock has not begun.
Holds(c) == pc[c] \in {"publish", "held", "check", "write"}

StartUnlock(c) ==
    /\ pc[c] = "held"
    /\ Begin(c, "unlock")
    /\ UNCHANGED <<keys, maxToken, token, errs, acquired, locks, faults, history>>

\* Fault: without tostring, Lua would compare a string with a number.
FaultyMatches(c, k) == FALSE

\* The test of unlockAll's script.
Matches(c, k) == k.token = token[c]

\* unlockAll, from Unlock or from a Lock that failed: delete the lock if it
\* stores the token.
UnlockInstance(c, i) ==
    LET mine == {k \in lockKey[i] : Matches(c, k)} IN
    /\ pc[c] \in {"release", "unlock"}
    /\ \E executed, answered \in BOOLEAN :
         /\ Command(c, i, executed, answered)
         /\ IF executed
              THEN /\ lockKey' = [lockKey EXCEPT ![i] = @ \ mine]
                   /\ LostOn(i, {k.by : k \in mine} \ {c})
              ELSE UNCHANGED <<lockKey, lost>>
    /\ UNCHANGED <<tokenKey, pc, maxToken, token, errs, acquired, locks, lowered, ahead>>

Unlocked(c) ==
    /\ Done(c, "release") \/ Done(c, "unlock")
    /\ Return(c)
    /\ UNCHANGED <<keys, maxToken, errs, locks, faults, history>>

WriteWithFencing(c) ==
    /\ pc[c] = "held"
    /\ Begin(c, "check")
    /\ ahead' = [ahead EXCEPT ![c] = \E d \in Clients : Holds(d) /\ token[d] > token[c]]
    /\ UNCHANGED <<keys, maxToken, token, errs, acquired, locks, faults, lost, lowered>>

\* Fault: off by one.
FaultyStale(c) == token[c] + 1 < maxToken[c]

\* A token equal to the largest passes.
Stale(c) == token[c] < maxToken[c]

\* The fencing test.
CheckToken(c) ==
    /\ Done(c, "check")
    /\ GoTo(c, IF errs[c] \/ Stale(c) THEN "held" ELSE "write")
    /\ ForgetMaxToken(c)
    /\ UNCHANGED <<keys, token, acquired, locks, faults, history>>

\* The write itself, and the return.
Write(c) ==
    /\ pc[c] = "write"
    /\ GoTo(c, "held")
    /\ UNCHANGED <<keys, maxToken, token, errs, acquired, locks, faults, history>>

\* A lock's PX runs out on one instance; the token has no TTL.
Expire(i) ==
    /\ i \in MayExpire /\ lockKey[i] # {}
    /\ lockKey' = [lockKey EXCEPT ![i] = {}]
    /\ LostOn(i, OwnersOn(i))
    /\ UNCHANGED <<tokenKey, local, faults, lowered, ahead>>

Next ==
    \/ \E c \in Clients :
         \/ Lock(c) \/ ChooseToken(c) \/ Decide(c) \/ Publish(c) \/ StartUnlock(c)
         \/ Unlocked(c) \/ WriteWithFencing(c) \/ CheckToken(c) \/ Write(c)
    \/ \E c \in Clients, i \in Instances :
         ReadToken(c, i) \/ AcquireInstance(c, i) \/ UnlockInstance(c, i)
    \/ \E i \in Instances : Expire(i)

Spec == Init /\ [][Next]_vars
-----------------------------------------------------------------------------
\* Two holders at a time are always the work of a deletion or an expiry: on an
\* instance both have acquired, one of them has lost its key since.
ExclusionLostOnlyByDeletion ==
    \A c, d \in Clients :
        Holds(c) /\ Holds(d) /\ c # d =>
            \E i \in acquired[c] \cap acquired[d] : i \in lost[c] \cup lost[d]

\* Unless a SET of the token has come late and lowered a counter, no client passes the
\* fencing test when another one already held the lock with a larger token before the
\* test began (src/go/redlock.go:90: only the client with the largest token may write).
WriterIsNotOvertaken ==
    lowered \/ \A c \in Clients : pc[c] = "write" => ~ahead[c]

\* Until a command fails no lock outlives the call that set it, whoever wins:
\* the clients delete each other's locks, but never leave one behind.
KeysHaveLiveOwners ==
    faults = 0 => \A i \in Instances : \A k \in lockKey[i] : pc[k.by] # "idle"
=============================================================================
