------------------------------ MODULE Fencing --------------------------------
(***************************************************************************)
(* The fencing writer of src/pkg/fencing/token.go on one key: lock holders *)
(* call Write with the token of their lock.  Write reads the fence, and if *)
(* the token is larger sets the fence and then the data, three commands to *)
(* the store with no lock around them (in src/pkg/redlock/redlock.go the   *)
(* store is one Redis instance).  A command may fail, before or after the  *)
(* store executed it, and Write then returns the error at once.            *)
(*                                                                         *)
(* The data of a write stands for the write's token.  Read changes nothing *)
(* and is left out.                                                        *)
(***************************************************************************)
EXTENDS Integers

CONSTANTS
    Holders,     \* the goroutines that write, each with the token of its lock
    TokenOf,     \* TokenOf[h]: that token
    MaxWrites,   \* bound: the Write calls of one holder
    MaxFaults    \* bound: the commands that fail in all

\* What Fencing is given; a module that uses it assumes this.
FencingAssumption ==
    /\ TokenOf \in [Holders -> Nat \ {0}]
    /\ MaxWrites \in Nat /\ MaxFaults \in Nat

VARIABLES
    store,     \* store.fence: the token in fenceKey; store.data: the token of
               \* the write whose data is in dataKey; 0 where there is none
    pc,        \* pc[h]: where holder h is in Write
    calls,     \* calls[h]: how often h has called Write
    faults,    \* how many commands have failed
    written,   \* history: written[h], how many of h's calls have returned nil
    before,    \* history: before[h], the tokens whose write had returned nil when
               \* h's call began
    raced      \* history: whether a SET of one holder has come between the GET
               \* and the last SET of another

vars == <<store, pc, calls, faults, written, before, raced>>

Keys == {"fence", "data"}

TypeOK ==
    /\ store \in [Keys -> Nat]
    /\ pc \in [Holders -> {"idle", "get", "set1", "set2"}]
    /\ calls \in [Holders -> 0..MaxWrites]
    /\ faults \in 0..MaxFaults
    /\ written \in [Holders -> Nat]
    /\ before \in [Holders -> SUBSET Nat]
    /\ raced \in BOOLEAN

Init ==
    /\ store = [k \in Keys |-> 0]
    /\ pc = [h \in Holders |-> "idle"]
    /\ calls = [h \in Holders |-> 0]
    /\ faults = 0
    /\ written = [h \in Holders |-> 0]
    /\ before = [h \in Holders |-> {}]
    /\ raced = FALSE
-----------------------------------------------------------------------------
GoTo(h, step) == pc' = [pc EXCEPT ![h] = step]

\* The tokens whose write has returned nil.
Written == {TokenOf[h] : h \in {g \in Holders : written[g] > 0}}

\* The holder calls Write.
StartWrite(h) ==
    /\ pc[h] = "idle" /\ calls[h] < MaxWrites
    /\ calls' = [calls EXCEPT ![h] = @ + 1]
    /\ before' = [before EXCEPT ![h] = Written]
    /\ GoTo(h, "get")
    /\ UNCHANGED <<store, faults, written, raced>>

\* A command fails: Write returns the error.
Fail(h) ==
    /\ faults < MaxFaults
    /\ faults' = faults + 1
    /\ GoTo(h, "idle")

\* Fault: a write with the token of the fence passes.
FaultyStale(h) == TokenOf[h] < store.fence

\* The test of Write: equal tokens are stale too.
Stale(h) == TokenOf[h] <= store.fence

\* GET of the fence, and ErrStaleToken if it has reached the token.
GetFence(h) ==
    /\ pc[h] = "get"
    /\ \/ GoTo(h, IF Stale(h) THEN "idle" ELSE "set1") /\ UNCHANGED faults
       \/ Fail(h)
    /\ UNCHANGED <<store, calls, written, before, raced>>

\* Fault: the data is set before the fence.
FaultyWriteOrder == <<"data", "fence">>

WriteOrder == <<"fence", "data">>

Store(h, key) == store' = [store EXCEPT ![key] = TokenOf[h]]

\* h sends a SET while another holder has passed the test and not finished.
Race(h) == raced' = (raced \/ \E g \in Holders \ {h} : pc[g] \in {"set1", "set2"})

\* SET of the fence.
FirstSet(h) ==
    /\ pc[h] = "set1"
    /\ \/ Store(h, WriteOrder[1]) /\ GoTo(h, "set2") /\ UNCHANGED faults
       \/ (Store(h, WriteOrder[1]) \/ UNCHANGED store) /\ Fail(h)
    /\ Race(h)
    /\ UNCHANGED <<calls, written, before>>

\* SET of the data; Write returns nil.
SecondSet(h) ==
    /\ pc[h] = "set2"
    /\ \/ /\ Store(h, WriteOrder[2])
          /\ GoTo(h, "idle")
          /\ written' = [written EXCEPT ![h] = @ + 1]
          /\ UNCHANGED faults
       \/ /\ Store(h, WriteOrder[2]) \/ UNCHANGED store
          /\ Fail(h)
          /\ UNCHANGED written
    /\ Race(h)
    /\ UNCHANGED <<calls, before>>

Step(h) == StartWrite(h) \/ GetFence(h) \/ FirstSet(h) \/ SecondSet(h)

Next == \E h \in Holders : Step(h)

Spec == Init /\ [][Next]_vars
-----------------------------------------------------------------------------
\* Until two writes race, the data of a newer token is never replaced by that of an
\* older one (src/README.md:108: the mechanism prevents stale writes).
DataNeverGoesBack == [][raced' \/ store'.data >= store.data]_vars

\* Until two writes race, a call that began after a write of its token or a newer
\* one had returned never comes to set anything (docs/verification.md:53).
LateWriteRejected ==
    raced \/ \A h \in Holders : pc[h] \in {"set1", "set2"} => \A t \in before[h] : t < TokenOf[h]

\* Until two writes race, the store never holds data that its fence does not
\* protect, whatever failed between the two SETs.
FenceCoversData == raced \/ store.data <= store.fence

\* Until two writes race, a token writes once: with two holders of one token, or a
\* holder that calls again, a single call returns nil.
TokenWritesOnce ==
    raced \/ \A g, h \in Holders :
               TokenOf[g] = TokenOf[h] /\ written[g] > 0 /\ written[h] > 0 => g = h /\ written[h] = 1
=============================================================================
