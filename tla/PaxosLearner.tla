---------------------------- MODULE PaxosLearner -----------------------------
(***************************************************************************)
(* The Learner of src/pkg/paxos/paxos.go beside the proposers of Paxos:    *)
(* calls of Learn that poll the acceptors, and subscribers.                *)
(*                                                                         *)
(* Learn reads the flag chosen under the read lock, waits for its ticker,  *)
(* reads it once more, and then takes the write lock and asks the          *)
(* acceptors one after the other for their State.  Those are separate      *)
(* steps: proposers act between the answers of two acceptors, and another  *)
(* Learn may finish between the last test of chosen and the lock.          *)
(***************************************************************************)
EXTENDS Paxos, Sequences, SequencesExt

CONSTANTS
    LearnerAcceptors,   \* the sequence Learner.acceptors, polled in this order
    LearnCalls,         \* the calls of Learner.Learn
    Subscribers,        \* the callers of Learner.Subscribe
    MayStopLearning     \* whether contexts of Learn may end, Shutdown be called

ASSUME LearnerAssumption ==
    /\ LearnerAcceptors \in Seq(Acceptors)
    /\ MayStopLearning \in BOOLEAN

VARIABLES
    chosen,        \* Learner.chosen, chosenValue and shutdown
    chosenValue,
    learnerDown,
    closed,        \* the listeners whose channel Learner.Shutdown has closed
    writer,        \* the Learn call that holds Learner.mu for writing, if any
    lpc,           \* lpc[k]: where Learn call k is
    read,          \* read[k]: the values it has read from the acceptors so far
    learned,       \* learned[k]: the value it returned
    listeners,     \* the subscribers whose channel is in Learner.listeners
    box,           \* box[s]: the buffer, of capacity one, of s's channel
    received       \* received[s]: what s has received

learnerState == <<chosen, chosenValue, learnerDown, closed, writer>>
learnVars == <<lpc, read, learned>>
listenerVars == <<listeners, box, received>>
learnerVars == <<learnerState, learnVars, listenerVars>>
allVars == <<vars, learnerVars>>

LearnerTypeOK ==
    /\ chosen \in BOOLEAN /\ chosenValue \in NilOrValue /\ learnerDown \in BOOLEAN
    /\ writer \subseteq LearnCalls /\ Cardinality(writer) <= 1
    /\ lpc \in [LearnCalls -> {"idle", "tick", "lock", "scan", "returned", "cancelled", "panicked"}]
    /\ read \in [LearnCalls -> Seq(NilOrValue)]
    /\ learned \in [LearnCalls -> NilOrValue]
    /\ listeners \subseteq Subscribers /\ closed \subseteq listeners
    /\ box \in [Subscribers -> Seq(Values)] /\ \A s \in Subscribers : Len(box[s]) <= 1
    /\ received \in [Subscribers -> Seq(Values)]

LearnerInit ==
    /\ Init
    /\ chosen = FALSE /\ chosenValue = Nil /\ learnerDown = FALSE /\ closed = {}
    /\ writer = {}
    /\ lpc = [k \in LearnCalls |-> "idle"]
    /\ read = [k \in LearnCalls |-> <<>>]
    /\ learned = [k \in LearnCalls |-> Nil]
    /\ listeners = {}
    /\ box = [s \in Subscribers |-> <<>>]
    /\ received = [s \in Subscribers |-> <<>>]
-----------------------------------------------------------------------------
\* The test of chosen under the read lock, on entry and again at every tick:
\* return the value already learned, or go on.
TestChosen(k) ==
    /\ lpc[k] \in {"idle", "tick"} /\ writer = {}
    /\ IF chosen
         THEN /\ lpc' = [lpc EXCEPT ![k] = "returned"]
              /\ learned' = [learned EXCEPT ![k] = chosenValue]
         ELSE /\ lpc' = [lpc EXCEPT ![k] = IF @ = "idle" THEN "tick" ELSE "lock"]
              /\ UNCHANGED learned
    /\ UNCHANGED <<learnerState, read, listenerVars>>

\* The write lock: chosen is not tested again.
LockForScan(k) ==
    /\ lpc[k] = "lock" /\ writer = {}
    /\ writer' = {k}
    /\ lpc' = [lpc EXCEPT ![k] = "scan"]
    /\ read' = [read EXCEPT ![k] = <<>>]
    /\ UNCHANGED <<chosen, chosenValue, learnerDown, closed, learned, listenerVars>>

\* acceptor.State() of the next acceptor; a value counts only with a real round.
ReadState(k) ==
    LET a == LearnerAcceptors[Len(read[k]) + 1] IN
    /\ lpc[k] = "scan" /\ Len(read[k]) < Len(LearnerAcceptors)
    /\ read' = [read EXCEPT ![k] =
                 Append(@, IF acceptedID[a].Round > 0 THEN acceptedVal[a] ELSE Nil)]
    /\ UNCHANGED <<learnerState, lpc, learned, listenerVars>>

\* Fault: half of the acceptors will do.
FaultyCounted(k) ==
    {v \in Values : Cardinality({i \in DOMAIN read[k] : read[k][i] = v})
                      >= Len(LearnerAcceptors) \div 2}

\* Fault: one more than a majority is asked for.
FaultyCountedMore(k) ==
    {v \in Values : Cardinality({i \in DOMAIN read[k] : read[k][i] = v})
                      > Len(LearnerAcceptors) \div 2 + 1}

\* The values read often enough: counted by value, whatever their proposals.
Counted(k) ==
    {v \in Values : Cardinality({i \in DOMAIN read[k] : read[k][i] = v})
                      >= Len(LearnerAcceptors) \div 2 + 1}

\* A send that does not block: a full buffer drops the value.
Offer(v) == [s \in Subscribers |-> IF s \in listeners /\ box[s] = <<>> THEN <<v>> ELSE box[s]]

ScanDone(k) == lpc[k] = "scan" /\ Len(read[k]) = Len(LearnerAcceptors)

\* A value is counted: remember it, tell the listeners, return it.
LearnValue(k) ==
    /\ ScanDone(k)
    /\ \E v \in Counted(k) :
         /\ chosen' = TRUE
         /\ chosenValue' = v
         /\ IF closed # {}
              THEN /\ lpc' = [lpc EXCEPT ![k] = "panicked"]   \* send on a closed channel
                   /\ UNCHANGED <<box, learned, writer, read>>
              ELSE /\ lpc' = [lpc EXCEPT ![k] = "returned"]
                   /\ learned' = [learned EXCEPT ![k] = v]
                   /\ read' = [read EXCEPT ![k] = <<>>]
                   /\ box' = Offer(v)
                   /\ writer' = {}
    /\ UNCHANGED <<learnerDown, closed, listeners, received>>

\* No value yet: unlock and wait for the next tick.
ScanAgain(k) ==
    /\ ScanDone(k) /\ Counted(k) = {}
    /\ writer' = {}
    /\ lpc' = [lpc EXCEPT ![k] = "tick"]
    /\ read' = [read EXCEPT ![k] = <<>>]
    /\ UNCHANGED <<chosen, chosenValue, learnerDown, closed, learned, listenerVars>>

\* The context of Learn ends while it waits for the ticker.
CancelLearn(k) ==
    /\ MayStopLearning /\ lpc[k] = "tick"
    /\ lpc' = [lpc EXCEPT ![k] = "cancelled"]
    /\ UNCHANGED <<learnerState, read, learned, listenerVars>>

\* Fault: Subscribe does not look at chosen.
FaultySubscribe(s) ==
    /\ s \notin listeners /\ writer = {}
    /\ listeners' = listeners \cup {s}
    /\ UNCHANGED <<learnerState, learnVars, box, received>>

Subscribe(s) ==
    /\ s \notin listeners /\ writer = {}
    /\ listeners' = listeners \cup {s}
    /\ box' = [box EXCEPT ![s] = IF chosen THEN <<chosenValue>> ELSE <<>>]
    /\ UNCHANGED <<learnerState, learnVars, received>>

Receive(s) ==
    /\ box[s] # <<>>
    /\ received' = [received EXCEPT ![s] = @ \o box[s]]
    /\ box' = [box EXCEPT ![s] = <<>>]
    /\ UNCHANGED <<learnerState, learnVars, listeners>>

\* Learner.Shutdown, at most once: the flag, which nothing reads, and the channels.
ShutdownLearner ==
    /\ MayStopLearning /\ ~learnerDown /\ writer = {}
    /\ learnerDown' = TRUE
    /\ closed' = listeners
    /\ UNCHANGED <<chosen, chosenValue, writer, learnVars, listenerVars>>

LearnStep(k) == TestChosen(k) \/ LockForScan(k) \/ ReadState(k) \/ LearnValue(k) \/ ScanAgain(k)

LearnerStep ==
    \/ \E k \in LearnCalls : LearnStep(k) \/ CancelLearn(k)
    \/ \E s \in Subscribers : Subscribe(s) \/ Receive(s)
    \/ ShutdownLearner

\* A panic ends the program, proposers and all.
Panicked == \E k \in LearnCalls : lpc[k] = "panicked"

LearnerNext ==
    /\ ~Panicked
    /\ \/ Next /\ UNCHANGED learnerVars
       \/ LearnerStep /\ UNCHANGED vars

LearnerSpec == LearnerInit /\ [][LearnerNext]_allVars

\* The Go scheduler runs every goroutine, and tickers keep ticking.  A subscriber may
\* never receive: nobody waits for it.
LearnerFairSpec ==
    /\ LearnerSpec
    /\ \A c \in Calls : WF_allVars(~Panicked /\ CallStep(c) /\ UNCHANGED learnerVars)
    /\ \A k \in LearnCalls : WF_allVars(~Panicked /\ LearnStep(k) /\ UNCHANGED vars)
-----------------------------------------------------------------------------
\* What the learner took for chosen was accepted by a majority of its acceptors,
\* though perhaps under several proposals and at several times (paxos.go:312).
LearnedFromMajority ==
    chosen => Cardinality({a \in ToSet(LearnerAcceptors) :
                            \E w \in votes : w.acc = a /\ w.val = chosenValue})
                >= Len(LearnerAcceptors) \div 2 + 1

\* What s has received and what waits in its channel.
Told(s) == ToSet(received[s]) \cup ToSet(box[s])

\* A subscriber, whether it came before or after the value was learned, has that very
\* value in its channel or has received it.  The one exception is a subscriber that was
\* told another value, which another Learn returned: the second send is dropped while
\* the channel still holds the first (paxos.go:322-326, :343).
NoListenerMissed ==
    chosen /\ ~Panicked => \A s \in listeners :
        \/ chosenValue \in Told(s)
        \/ \E k \in LearnCalls :
             lpc[k] = "returned" /\ learned[k] # chosenValue /\ learned[k] \in Told(s)

ValueChosen == \E v \in Values : Chosen(v)

\* Every scan that k's answer may rest on is still to begin: k is at the lock, or nothing
\* has been learned and nobody is scanning.
ScansAhead(k) == lpc[k] = "lock" \/ (~chosen /\ writer = {})

\* Once a value is chosen every running Learn ends, however its scans interleave with
\* proposers that go on accepting the value in later rounds; and one whose scans are all
\* ahead by then ends with that value.  (One that had begun a scan may return another:
\* LearnedAgreesWithReturned.)  Its context may end first, or the send on a closed
\* channel may end the program (paxos.go:295, :309, :323).
ChosenIsLearned ==
    /\ ValueChosen ~>
           Panicked \/ \A k \in LearnCalls : lpc[k] \in {"returned", "cancelled"}
    /\ \A k \in LearnCalls :
           ValueChosen /\ ScansAhead(k) ~>
               Panicked \/ lpc[k] = "cancelled" \/ (lpc[k] = "returned" /\ Chosen(learned[k]))

\* What Learn returned and what a Propose returned are the same value
\* (paxos_test.go:99, "Learned value mismatch").
LearnedAgreesWithReturned ==
    \A k \in LearnCalls, c \in Calls :
        lpc[k] = "returned" /\ pc[c] = "returned" => learned[k] = value[c]
=============================================================================
