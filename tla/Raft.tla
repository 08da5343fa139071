-------------------------------- MODULE Raft ---------------------------------
(***************************************************************************)
(* Leader election of src/pkg/raft/raft.go.  A node is a record guarded by *)
(* Node.mu, the goroutine run() that plays follower, candidate or leader   *)
(* in a loop, a goroutine for every RPC it has under way, and the handlers *)
(* RequestVote and AppendEntries its peers call.  The code never appends   *)
(* to the log, so terms, votes and roles are all there is.                 *)
(*                                                                         *)
(* run() waits on the timer it created when it entered the wait.  Whoever  *)
(* resets the election timer stops that timer and creates another one,     *)
(* which nobody waits on; a timer that has fired stays readable.           *)
(*                                                                         *)
(* A call may be delayed, may fail before or after the peer executed it,   *)
(* and its answer may be handled at any later time.                        *)
(***************************************************************************)
EXTENDS Integers, FiniteSets

CONSTANTS
    Nodes,     \* the nodes of the cluster; everybody else is a node's peer
    NoNode,    \* votedFor = nil
    MayStop,   \* the nodes on which Stop may be called
    MayFail,   \* whether calls may return errors
    MaxTerm,   \* bound: n starts no term above MaxTerm[n]
    MaxBeats   \* bound: the heartbeats under way at a time

ASSUME RaftAssumption ==
    /\ IsFiniteSet(Nodes) /\ NoNode \notin Nodes
    /\ MayStop \subseteq Nodes
    /\ MayFail \in BOOLEAN
    /\ MaxTerm \in [Nodes -> Nat] /\ MaxBeats \in Nat

VARIABLES
    currentTerm,   \* currentTerm[n], votedFor[n], role[n]: fields of Node
    votedFor,
    role,
    loop,          \* loop[n]: where run() is: at its select, entering
                   \* runCandidate, or waiting in one of the run functions
    timer,         \* timer[n]: the timer run() waits on: "armed", "fired" or "off"
    ballot,        \* ballot[n]: term, the term of the last runCandidate
    votes,         \* votes[n]: the votes counted in it
    awaited,       \* awaited[n]: the peers whose result it still waits for
    calls,         \* the RPCs under way
    stopped,       \* the nodes whose stopChan is closed
    grants         \* history: who voted for whom, and in which term

fields == <<currentTerm, votedFor, role>>
election == <<ballot, votes, awaited>>
vars == <<fields, loop, timer, election, calls, stopped, grants>>

Peers(n) == Nodes \ {n}
Roles == {"Follower", "Candidate", "Leader"}
NoAnswer == [term |-> 0, granted |-> FALSE, given |-> FALSE]
Answer == [term : Nat, granted : BOOLEAN, given : BOOLEAN]
Call == [method : {"RequestVote", "AppendEntries"}, from : Nodes, to : Nodes,
         term : Nat, answer : Answer]
Grant == [voter : Nodes, candidate : Nodes, term : Nat]

TypeOK ==
    /\ currentTerm \in [Nodes -> Nat]
    /\ votedFor \in [Nodes -> Nodes \cup {NoNode}]
    /\ role \in [Nodes -> Roles]
    /\ loop \in [Nodes -> {"select", "starting", "follower", "candidate", "leader", "stopped"}]
    /\ timer \in [Nodes -> {"armed", "fired", "off"}]
    /\ ballot \in [Nodes -> Nat]
    /\ votes \in [Nodes -> Nat]
    /\ awaited \in [Nodes -> SUBSET Nodes]
    /\ calls \subseteq Call
    /\ stopped \subseteq Nodes
    /\ grants \subseteq Grant

Init ==
    /\ currentTerm = [n \in Nodes |-> 0]
    /\ votedFor = [n \in Nodes |-> NoNode]
    /\ role = [n \in Nodes |-> "Follower"]
    /\ loop = [n \in Nodes |-> "select"]
    /\ timer = [n \in Nodes |-> "off"]
    /\ ballot = [n \in Nodes |-> 0]
    /\ votes = [n \in Nodes |-> 0]
    /\ awaited = [n \in Nodes |-> {}]
    /\ calls = {} /\ stopped = {} /\ grants = {}
-----------------------------------------------------------------------------
AtBound(n) == currentTerm[n] >= MaxTerm[n]

GoTo(n, place) == loop' = [loop EXCEPT ![n] = place]
SetRole(n, r) == role' = [role EXCEPT ![n] = r]
SetTerm(n, t) == currentTerm' = [currentTerm EXCEPT ![n] = t]
SetVote(n, v) == votedFor' = [votedFor EXCEPT ![n] = v]

\* run() creates a timer and waits on it, or waits no more.
Arm(n) == timer' = [timer EXCEPT ![n] = "armed"]
Disarm(n) == timer' = [timer EXCEPT ![n] = "off"]

\* resetElectionTimer called while run() waits: its timer is stopped for good,
\* unless it has fired already.
ResetTimer(n) == timer' = [timer EXCEPT ![n] = IF @ = "armed" THEN "off" ELSE @]

\* At the bound a follower's timer is left running: it would only begin a candidacy.
TimerFires(n) ==
    /\ timer[n] = "armed" /\ (loop[n] = "candidate" \/ ~AtBound(n))
    /\ timer' = [timer EXCEPT ![n] = "fired"]
    /\ UNCHANGED <<fields, loop, election, calls, stopped, grants>>

becomeFollower(n, t) ==
    SetRole(n, "Follower") /\ SetTerm(n, t) /\ SetVote(n, NoNode) /\ ResetTimer(n)

\* run(): read the role and call the function for it.  A node that is Candidate
\* may have become Follower before runCandidate takes the mutex.
Dispatch(n) ==
    /\ loop[n] = "select" /\ n \notin stopped
    /\ \/ role[n] = "Follower" /\ GoTo(n, "follower") /\ Arm(n)
       \/ role[n] = "Candidate" /\ GoTo(n, "starting") /\ UNCHANGED timer
       \/ role[n] = "Leader" /\ GoTo(n, "leader") /\ UNCHANGED timer
    /\ UNCHANGED <<fields, election, calls, stopped, grants>>

\* runFollower's timer has fired.
FollowerTimeout(n) ==
    /\ loop[n] = "follower" /\ timer[n] = "fired"
    /\ IF role[n] = "Follower"
         THEN SetRole(n, "Candidate") /\ SetVote(n, n)
         ELSE UNCHANGED <<role, votedFor>>
    /\ GoTo(n, "select") /\ Disarm(n)
    /\ UNCHANGED <<currentTerm, election, calls, stopped, grants>>

\* runCandidate up to its loop: a new term, a vote for itself, a RequestVote to
\* every peer.
StartElection(n) ==
    LET t == currentTerm[n] + 1 IN
    /\ loop[n] = "starting" /\ ~AtBound(n)
    /\ SetTerm(n, t) /\ SetVote(n, n)
    /\ ballot' = [ballot EXCEPT ![n] = t]
    /\ votes' = [votes EXCEPT ![n] = 1]
    /\ awaited' = [awaited EXCEPT ![n] = Peers(n)]
    /\ calls' = calls \cup {[method |-> "RequestVote", from |-> n, to |-> p, term |-> t,
                             answer |-> NoAnswer] : p \in Peers(n)}
    /\ grants' = grants \cup {[voter |-> n, candidate |-> n, term |-> t]}
    /\ IF Peers(n) = {} THEN GoTo(n, "select") /\ UNCHANGED timer
                        ELSE GoTo(n, "candidate") /\ Arm(n)
    /\ UNCHANGED <<role, stopped>>
-----------------------------------------------------------------------------
\* Fault: an answer that has no term to tell carries -1.
FaultyReply(c, ok) ==
    LET t == IF currentTerm[c.to] > c.term THEN currentTerm[c.to] ELSE -1 IN
    calls' = (calls \ {c}) \cup {[c EXCEPT !.answer = [term |-> t, granted |-> ok, given |-> TRUE]]}

\* A term up to the request's own never says anything to the caller, and is 0.
Reply(c, ok) ==
    LET t == IF currentTerm[c.to] > c.term THEN currentTerm[c.to] ELSE 0 IN
    calls' = (calls \ {c}) \cup {[c EXCEPT !.answer = [term |-> t, granted |-> ok, given |-> TRUE]]}

\* The request is outdated, or ahead of the node.
Outdated(c) == c.term < currentTerm[c.to]

\* Fault: a request of the node's own term makes it a follower without a vote.
FaultyAhead(c) == c.term >= currentTerm[c.to]

Ahead(c) == c.term > currentTerm[c.to]

\* Fault: the vote already given is ignored.
FaultyMayVote(c) == TRUE

\* The node has no vote in the request's term, or has given it to the candidate.
MayVote(c) == Ahead(c) \/ votedFor[c.to] \in {NoNode, c.from}

\* RequestVote at c.to.  The answer carries the term from before the call.
RequestVote(c) ==
    LET n == c.to
        granted == ~Outdated(c) /\ MayVote(c)
    IN
    /\ c.method = "RequestVote" /\ ~c.answer.given
    /\ Reply(c, granted)
    /\ IF Ahead(c) THEN SetRole(n, "Follower") /\ SetTerm(n, c.term)
                   ELSE UNCHANGED <<role, currentTerm>>
    /\ votedFor' = [votedFor EXCEPT ![n] = IF granted THEN c.from
                                           ELSE IF Ahead(c) THEN NoNode ELSE @]
    /\ IF granted \/ Ahead(c) THEN ResetTimer(n) ELSE UNCHANGED timer
    /\ grants' = IF granted
                   THEN grants \cup {[voter |-> n, candidate |-> c.from, term |-> c.term]}
                   ELSE grants
    /\ UNCHANGED <<loop, election, stopped>>

\* AppendEntries at c.to, always a heartbeat.  In its own term a node only
\* resets the timer, whatever its role.
AppendEntries(c) ==
    LET n == c.to IN
    /\ c.method = "AppendEntries" /\ ~c.answer.given
    /\ Reply(c, ~Outdated(c))
    /\ CASE Outdated(c) -> UNCHANGED <<fields, timer>>
         [] Ahead(c)    -> becomeFollower(n, c.term)
         [] OTHER       -> ResetTimer(n) /\ UNCHANGED fields
    /\ UNCHANGED <<loop, election, stopped, grants>>

\* A leader's heartbeat goroutine ticks, which may still come before stopChan.
\* Two of them may serve one peer.
SendHeartbeat(n, p) ==
    LET c == [method |-> "AppendEntries", from |-> n, to |-> p, term |-> currentTerm[n],
              answer |-> NoAnswer] IN
    /\ role[n] = "Leader" /\ p \in Peers(n)
    /\ c \notin calls /\ Cardinality({d \in calls : d.method = "AppendEntries"}) < MaxBeats
    /\ calls' = calls \cup {c}
    /\ UNCHANGED <<fields, loop, timer, election, stopped, grants>>

Majority(n, k) == k > Cardinality(Peers(n)) \div 2

\* Fault: a result that is not a vote is not awaited any less.
FaultyResultsLeft(n, p) == awaited[n]

ResultsLeft(n, p) == awaited[n] \ {p}

\* Fault: one channel serves every candidacy of the node.
FaultyAwaits(n, p, t) == loop[n] = "candidate"

\* The result comes on the channel of the candidacy the node is in.
Awaits(n, p, t) == loop[n] = "candidate" /\ ballot[n] = t /\ p \in awaited[n]

\* runCandidate counts the result of peer p in candidacy t: it becomes leader in
\* the term the node is in by now, or goes on, or has heard from everybody and
\* returns.
Count(n, p, t, vote) ==
    IF Awaits(n, p, t)
      THEN IF vote /\ Majority(n, votes[n] + 1)
             THEN /\ SetRole(n, "Leader") /\ Disarm(n) /\ GoTo(n, "select")
                  /\ votes' = [votes EXCEPT ![n] = 0]
                  /\ awaited' = [awaited EXCEPT ![n] = {}]
             ELSE LET left == ResultsLeft(n, p) IN
                  /\ votes' = [votes EXCEPT ![n] = IF left = {} THEN 0 ELSE IF vote THEN @ + 1 ELSE @]
                  /\ awaited' = [awaited EXCEPT ![n] = left]
                  /\ IF left = {} THEN GoTo(n, "select") /\ Disarm(n) ELSE UNCHANGED <<loop, timer>>
                  /\ UNCHANGED role
      ELSE UNCHANGED <<role, loop, timer, votes, awaited>>

\* Fault: any other term in an answer is taken over.
FaultyHigher(c) == c.answer.term # currentTerm[c.from]

Higher(c) == c.answer.term > currentTerm[c.from]

\* An answer with a higher term makes the caller a follower; to runCandidate it
\* is a vote refused.
LearnTerm(c) ==
    /\ c.answer.given /\ Higher(c)
    /\ becomeFollower(c.from, c.answer.term)
    /\ calls' = (calls \ {c}) \cup
                {[c EXCEPT !.answer = [term |-> 0, granted |-> FALSE, given |-> TRUE]] :
                    m \in {"RequestVote"} \cap {c.method}}
    /\ UNCHANGED <<loop, election, stopped, grants>>

\* Any other answer: a vote is counted, a heartbeat's answer changes nothing.
TakeAnswer(c) ==
    /\ c.answer.given /\ ~Higher(c)
    /\ calls' = calls \ {c}
    /\ IF c.method = "RequestVote"
         THEN Count(c.from, c.to, c.term, c.answer.granted)
         ELSE UNCHANGED <<role, loop, timer, votes, awaited>>
    /\ UNCHANGED <<currentTerm, votedFor, ballot, stopped, grants>>

\* The call returns an error, whether or not the peer has executed it.
FailCall(c) ==
    /\ MayFail
    /\ calls' = calls \ {c}
    /\ IF c.method = "RequestVote"
         THEN Count(c.from, c.to, c.term, FALSE)
         ELSE UNCHANGED <<role, loop, timer, votes, awaited>>
    /\ UNCHANGED <<currentTerm, votedFor, ballot, stopped, grants>>

\* runCandidate's timer has fired.
CandidateTimeout(n) ==
    /\ loop[n] = "candidate" /\ timer[n] = "fired"
    /\ votedFor' = IF role[n] = "Candidate" THEN [votedFor EXCEPT ![n] = n] ELSE votedFor
    /\ votes' = [votes EXCEPT ![n] = 0]
    /\ awaited' = [awaited EXCEPT ![n] = {}]
    /\ GoTo(n, "select") /\ Disarm(n)
    /\ UNCHANGED <<currentTerm, role, ballot, calls, stopped, grants>>

\* Stop closes stopChan and waits for run().
Stop(n) ==
    /\ n \in MayStop \ stopped
    /\ stopped' = stopped \cup {n}
    /\ UNCHANGED <<fields, loop, timer, election, calls, grants>>

\* Fault: the leader waits for something else than stopChan.
FaultyReadsStop(n) == loop[n] \in {"select", "follower", "candidate"}

\* The places where run() reads stopChan.
ReadsStop(n) == loop[n] \in {"select", "follower", "candidate", "leader"}

\* run() reads stopChan and returns.  The handlers go on answering.
Return(n) ==
    /\ n \in stopped /\ ReadsStop(n)
    /\ GoTo(n, "stopped") /\ Disarm(n)
    /\ votes' = [votes EXCEPT ![n] = 0]
    /\ awaited' = [awaited EXCEPT ![n] = {}]
    /\ UNCHANGED <<fields, ballot, calls, stopped, grants>>

Run(n) ==
    \/ Dispatch(n) \/ FollowerTimeout(n) \/ StartElection(n) \/ CandidateTimeout(n) \/ Return(n)

Progress(c) ==
    \/ RequestVote(c) \/ AppendEntries(c) \/ LearnTerm(c) \/ TakeAnswer(c) \/ FailCall(c)

Next ==
    \/ \E n \in Nodes : Run(n) \/ TimerFires(n) \/ Stop(n)
    \/ \E n, p \in Nodes : SendHeartbeat(n, p)
    \/ \E c \in calls : Progress(c)

Spec == Init /\ [][Next]_vars

\* Goroutines run on and timers fire.  Nothing is assumed of the calls: a peer is called
\* with context.Background(), and may never return (raft.go:166).
FairSpec ==
    /\ Spec
    /\ \A n \in Nodes : WF_vars(Run(n)) /\ WF_vars(TimerFires(n))
-----------------------------------------------------------------------------
\* A node's term never decreases, whatever outdated answers and requests arrive.
TermNeverGoesBack == [][\A n \in Nodes : currentTerm'[n] >= currentTerm[n]]_vars

\* In a term a node votes for one candidate, through its own candidacies, the
\* requests of others and the resets of votedFor.
OneVotePerTerm ==
    \A g, h \in grants : g.voter = h.voter /\ g.term = h.term => g = h

Voters(n) == {g.voter : g \in {h \in grants : h.candidate = n /\ h.term = ballot[n]}}

\* A leader was given the votes of a majority of its peers in the candidacy it won.
LeaderHadMajority ==
    \A n \in Nodes : role[n] = "Leader" => Cardinality(Voters(n)) > Cardinality(Peers(n)) \div 2

\* At most one leader in a term (docs/anti-examples/raft-dual-leader.md:10-12).
Safety ==
    \A m, n \in Nodes :
        role[m] = "Leader" /\ role[n] = "Leader" /\ currentTerm[m] = currentTerm[n] => m = n

\* Two leaders of one term are the work of votes counted late: in a cluster of
\* odd size, one of them was elected by votes of an earlier term than its own.
DualLeaderHasLateVotes ==
    Cardinality(Nodes) % 2 = 1 =>
        \A m, n \in Nodes :
            /\ role[m] = "Leader" /\ ballot[m] = currentTerm[m]
            /\ role[n] = "Leader" /\ ballot[n] = currentTerm[n]
            /\ currentTerm[m] = currentTerm[n]
            => m = n

\* The call for n's present candidacy to which p has not returned.
Unreturned(n, p) ==
    \E c \in calls : c.method = "RequestVote" /\ c.from = n /\ c.to = p /\ c.term = ballot[n]

\* A candidate waits for ever in one case only: a handler has stopped the timer it waits
\* on, and some peers' results never come.  With its timer, or once every call has
\* returned, be it with an error, a refusal or a term that makes it a follower, it moves
\* on (raft.go:166, :185, :197).
CandidateMovesOn ==
    \A n \in Nodes :
        <>[](loop[n] = "candidate") =>
            <>[](timer[n] = "off" /\ awaited[n] # {} /\ \A p \in awaited[n] : Unreturned(n, p))

\* Stop returns: run() ends in whatever role the node is, unless the bound keeps
\* it from a candidacy it has entered.
StopReturns ==
    \A n \in Nodes :
        n \in stopped ~> (loop[n] = "stopped" \/ (loop[n] = "starting" /\ AtBound(n)))
=============================================================================
