----------------------------- MODULE Raft_proofs -----------------------------
(***************************************************************************)
(* Proofs about Raft for clusters of any size: its types, that terms do    *)
(* not go back, that a node votes once in a term, that a leader has had    *)
(* the votes of a majority, and what follows for two leaders of one term.  *)
(***************************************************************************)
EXTENDS Raft, FiniteSetTheorems, TLAPS

-----------------------------------------------------------------------------
(***************************************************************************)
(* What the parts of an action do to the fields they change.               *)
(***************************************************************************)

\* A reply keeps the calls well formed.
LEMMA ReplyType ==
    ASSUME TypeOK, NEW c \in calls, NEW ok \in BOOLEAN, Reply(c, ok)
    PROVE  calls' \subseteq Call
<1> DEFINE t == IF currentTerm[c.to] > c.term THEN currentTerm[c.to] ELSE 0
           d == [c EXCEPT !.answer = [term |-> t, granted |-> ok, given |-> TRUE]]
<1>1. c \in Call  BY DEF TypeOK
<1>2. t \in Nat  BY <1>1 DEF TypeOK, Call
<1>3. d \in Call  BY <1>1, <1>2 DEF Call, Answer
<1>4. calls' = (calls \ {c}) \cup {d}  BY DEF Reply
<1> QED  BY <1>3, <1>4 DEF TypeOK

\* Counting a result keeps the run loop's variables well typed.
LEMMA CountType ==
    ASSUME TypeOK, NEW n \in Nodes, NEW p \in Nodes, NEW t, NEW vote \in BOOLEAN,
           Count(n, p, t, vote)
    PROVE  /\ role' \in [Nodes -> Roles]
           /\ loop' \in [Nodes -> {"select", "starting", "follower", "candidate", "leader", "stopped"}]
           /\ timer' \in [Nodes -> {"armed", "fired", "off"}]
           /\ votes' \in [Nodes -> Nat]
           /\ awaited' \in [Nodes -> SUBSET Nodes]
<1>1. CASE ~Awaits(n, p, t)
    BY <1>1 DEF Count, TypeOK
<1>2. CASE Awaits(n, p, t) /\ vote /\ Majority(n, votes[n] + 1)
    BY <1>2 DEF Count, TypeOK, SetRole, Disarm, GoTo, Roles
<1>3. CASE Awaits(n, p, t) /\ ~(vote /\ Majority(n, votes[n] + 1))
    <2> DEFINE left == ResultsLeft(n, p)
    <2>1. left \in SUBSET Nodes  BY DEF ResultsLeft, TypeOK
    <2>2. /\ votes' = [votes EXCEPT ![n] = IF left = {} THEN 0 ELSE IF vote THEN @ + 1 ELSE @]
          /\ awaited' = [awaited EXCEPT ![n] = left]
          /\ IF left = {} THEN GoTo(n, "select") /\ Disarm(n) ELSE UNCHANGED <<loop, timer>>
          /\ UNCHANGED role
        BY <1>3 DEF Count
    <2>3. votes' \in [Nodes -> Nat]
        <3> DEFINE k == IF left = {} THEN 0 ELSE IF vote THEN votes[n] + 1 ELSE votes[n]
        <3>1. k \in Nat  BY DEF TypeOK
        <3>2. votes' = [votes EXCEPT ![n] = k]  BY <2>2
        <3> QED  BY <3>1, <3>2 DEF TypeOK
    <2>4. awaited' \in [Nodes -> SUBSET Nodes]  BY <2>1, <2>2 DEF TypeOK
    <2> QED  BY <2>2, <2>3, <2>4 DEF TypeOK, GoTo, Disarm
<1> QED  BY <1>1, <1>2, <1>3
-----------------------------------------------------------------------------
(***************************************************************************)
(* Types.                                                                  *)
(***************************************************************************)

\* No action of the program leaves the types of the variables.
LEMMA TypeStep == TypeOK /\ [Next]_vars => TypeOK'
<1> SUFFICES ASSUME TypeOK, [Next]_vars PROVE TypeOK'
    OBVIOUS
<1> USE RaftAssumption
<1>1. ASSUME NEW n \in Nodes, Dispatch(n) PROVE TypeOK'
    BY <1>1 DEF Dispatch, TypeOK, fields, election, GoTo, Arm
<1>2. ASSUME NEW n \in Nodes, FollowerTimeout(n) PROVE TypeOK'
    BY <1>2 DEF FollowerTimeout, TypeOK, election, GoTo, Disarm, SetRole, SetVote, Roles
<1>3. ASSUME NEW n \in Nodes, StartElection(n) PROVE TypeOK'
    <2> DEFINE t == currentTerm[n] + 1
               ask(p) == [method |-> "RequestVote", from |-> n, to |-> p, term |-> t,
                          answer |-> NoAnswer]
    <2>1. t \in Nat  BY DEF TypeOK
    <2>2. \A p \in Peers(n) : ask(p) \in Call
        BY <2>1 DEF Call, Answer, NoAnswer, Peers
    <2>3. calls' = calls \cup {ask(p) : p \in Peers(n)}  BY <1>3 DEF StartElection
    <2>4. calls' \subseteq Call  BY <2>2, <2>3 DEF TypeOK
    <2>5. grants' \subseteq Grant  BY <1>3, <2>1 DEF StartElection, TypeOK, Grant
    <2>6. awaited' \in [Nodes -> SUBSET Nodes]  BY <1>3 DEF StartElection, TypeOK, Peers
    <2>7. /\ loop' \in [Nodes -> {"select", "starting", "follower", "candidate", "leader", "stopped"}]
          /\ timer' \in [Nodes -> {"armed", "fired", "off"}]
        BY <1>3 DEF StartElection, TypeOK, GoTo, Arm
    <2>8. /\ currentTerm' \in [Nodes -> Nat]
          /\ votedFor' \in [Nodes -> Nodes \cup {NoNode}]
          /\ ballot' \in [Nodes -> Nat]
          /\ votes' \in [Nodes -> Nat]
          /\ role' = role /\ stopped' = stopped
        BY <1>3, <2>1 DEF StartElection, TypeOK, SetTerm, SetVote
    <2> QED  BY <2>4, <2>5, <2>6, <2>7, <2>8 DEF TypeOK
<1>4. ASSUME NEW n \in Nodes, CandidateTimeout(n) PROVE TypeOK'
    BY <1>4 DEF CandidateTimeout, TypeOK, GoTo, Disarm
<1>5. ASSUME NEW n \in Nodes, Return(n) PROVE TypeOK'
    BY <1>5 DEF Return, TypeOK, fields, GoTo, Disarm
<1>6. ASSUME NEW n \in Nodes, TimerFires(n) PROVE TypeOK'
    BY <1>6 DEF TimerFires, TypeOK, fields, election
<1>7. ASSUME NEW n \in Nodes, Stop(n) PROVE TypeOK'
    BY <1>7 DEF Stop, TypeOK, fields, election
<1>8. ASSUME NEW n \in Nodes, NEW p \in Nodes, SendHeartbeat(n, p) PROVE TypeOK'
    <2> DEFINE c == [method |-> "AppendEntries", from |-> n, to |-> p,
                     term |-> currentTerm[n], answer |-> NoAnswer]
    <2>1. c \in Call  BY DEF Call, Answer, NoAnswer, TypeOK
    <2>2. calls' = calls \cup {c}  BY <1>8 DEF SendHeartbeat
    <2> QED  BY <1>8, <2>1, <2>2 DEF SendHeartbeat, TypeOK, fields, election
<1>9. ASSUME NEW c \in calls, RequestVote(c) PROVE TypeOK'
    <2> DEFINE granted == ~Outdated(c) /\ MayVote(c)
    <2>1. c \in Call  BY DEF TypeOK
    <2>2. c.to \in Nodes /\ c.from \in Nodes /\ c.term \in Nat  BY <2>1 DEF Call
    <2>3. granted \in BOOLEAN  BY DEF Outdated, MayVote, Ahead
    <2>4. calls' \subseteq Call  BY <1>9, <2>3, ReplyType DEF RequestVote
    <2>5. role' \in [Nodes -> Roles] /\ currentTerm' \in [Nodes -> Nat]
        BY <1>9, <2>2 DEF RequestVote, TypeOK, SetRole, SetTerm, Roles
    <2>6. votedFor' \in [Nodes -> Nodes \cup {NoNode}]
        BY <1>9, <2>2 DEF RequestVote, TypeOK
    <2>7. timer' \in [Nodes -> {"armed", "fired", "off"}]
        BY <1>9, <2>2 DEF RequestVote, TypeOK, ResetTimer
    <2>8. grants' \subseteq Grant
        BY <1>9, <2>2 DEF RequestVote, TypeOK, Grant
    <2> QED  BY <1>9, <2>4, <2>5, <2>6, <2>7, <2>8 DEF RequestVote, TypeOK, election
<1>10. ASSUME NEW c \in calls, AppendEntries(c) PROVE TypeOK'
    <2>1. c \in Call  BY DEF TypeOK
    <2>2. c.to \in Nodes /\ c.term \in Nat  BY <2>1 DEF Call
    <2>3. (~Outdated(c)) \in BOOLEAN  BY DEF Outdated
    <2>4. calls' \subseteq Call  BY <1>10, <2>3, ReplyType DEF AppendEntries
    <2>5. \/ UNCHANGED <<fields, timer>>
          \/ becomeFollower(c.to, c.term)
          \/ ResetTimer(c.to) /\ UNCHANGED fields
        BY <1>10 DEF AppendEntries
    <2>6. /\ role' \in [Nodes -> Roles] /\ currentTerm' \in [Nodes -> Nat]
          /\ votedFor' \in [Nodes -> Nodes \cup {NoNode}]
          /\ timer' \in [Nodes -> {"armed", "fired", "off"}]
        BY <2>2, <2>5 DEF TypeOK, fields, becomeFollower, SetRole, SetTerm, SetVote, ResetTimer, Roles
    <2> QED  BY <1>10, <2>4, <2>6 DEF AppendEntries, TypeOK, election
<1>11. ASSUME NEW c \in calls, LearnTerm(c) PROVE TypeOK'
    <2> DEFINE d == [c EXCEPT !.answer = [term |-> 0, granted |-> FALSE, given |-> TRUE]]
    <2>1. c \in Call  BY DEF TypeOK
    <2>2. c.from \in Nodes /\ c.answer.term \in Nat  BY <2>1 DEF Call, Answer
    <2>3. d \in Call  BY <2>1 DEF Call, Answer
    <2>4. calls' \subseteq Call  BY <1>11, <2>3 DEF LearnTerm, TypeOK
    <2>5. /\ role' \in [Nodes -> Roles] /\ currentTerm' \in [Nodes -> Nat]
          /\ votedFor' \in [Nodes -> Nodes \cup {NoNode}]
          /\ timer' \in [Nodes -> {"armed", "fired", "off"}]
        BY <1>11, <2>2
        DEF LearnTerm, TypeOK, becomeFollower, SetRole, SetTerm, SetVote, ResetTimer, Roles
    <2> QED  BY <1>11, <2>4, <2>5 DEF LearnTerm, TypeOK, election
<1>12. ASSUME NEW c \in calls, TakeAnswer(c) PROVE TypeOK'
    <2>1. c \in Call  BY DEF TypeOK
    <2>2. c.from \in Nodes /\ c.to \in Nodes /\ c.answer.granted \in BOOLEAN
        BY <2>1 DEF Call, Answer
    <2>3. \/ Count(c.from, c.to, c.term, c.answer.granted)
          \/ UNCHANGED <<role, loop, timer, votes, awaited>>
        BY <1>12 DEF TakeAnswer
    <2>4. /\ role' \in [Nodes -> Roles]
          /\ loop' \in [Nodes -> {"select", "starting", "follower", "candidate", "leader", "stopped"}]
          /\ timer' \in [Nodes -> {"armed", "fired", "off"}]
          /\ votes' \in [Nodes -> Nat]
          /\ awaited' \in [Nodes -> SUBSET Nodes]
        BY <2>2, <2>3, CountType DEF TypeOK
    <2> QED  BY <1>12, <2>4 DEF TakeAnswer, TypeOK
<1>13. ASSUME NEW c \in calls, FailCall(c) PROVE TypeOK'
    <2>1. c \in Call  BY DEF TypeOK
    <2>2. c.from \in Nodes /\ c.to \in Nodes  BY <2>1 DEF Call
    <2>3. \/ Count(c.from, c.to, c.term, FALSE)
          \/ UNCHANGED <<role, loop, timer, votes, awaited>>
        BY <1>13 DEF FailCall
    <2>4. /\ role' \in [Nodes -> Roles]
          /\ loop' \in [Nodes -> {"select", "starting", "follower", "candidate", "leader", "stopped"}]
          /\ timer' \in [Nodes -> {"armed", "fired", "off"}]
          /\ votes' \in [Nodes -> Nat]
          /\ awaited' \in [Nodes -> SUBSET Nodes]
        BY <2>2, <2>3, CountType DEF TypeOK
    <2> QED  BY <1>13, <2>4 DEF FailCall, TypeOK
<1>14. CASE UNCHANGED vars
    BY <1>14 DEF vars, TypeOK, fields, election
<1> QED
    BY <1>1, <1>2, <1>3, <1>4, <1>5, <1>6, <1>7, <1>8, <1>9, <1>10, <1>11, <1>12, <1>13, <1>14
    DEF Next, Run, Progress

\* Terms, votes, roles and calls keep their types.
THEOREM TypeCorrect == Spec => []TypeOK
<1>1. Init => TypeOK
    BY RaftAssumption DEF Init, TypeOK, Roles
<1> QED  BY <1>1, TypeStep, PTL DEF Spec

-----------------------------------------------------------------------------
(***************************************************************************)
(* Terms.                                                                  *)
(***************************************************************************)

\* Every action leaves the terms alone or raises the term of one node.
LEMMA TermStep ==
    ASSUME TypeOK, [Next]_vars
    PROVE  \/ UNCHANGED currentTerm
           \/ \E n \in Nodes, t \in Nat :
                t > currentTerm[n] /\ currentTerm' = [currentTerm EXCEPT ![n] = t]
<1> DEFINE Raised == \E n \in Nodes, t \in Nat :
               t > currentTerm[n] /\ currentTerm' = [currentTerm EXCEPT ![n] = t]
<1> SUFFICES UNCHANGED currentTerm \/ Raised
    OBVIOUS
<1>1. ASSUME NEW n \in Nodes, Run(n) PROVE UNCHANGED currentTerm \/ Raised
    <2>1. CASE StartElection(n)
        <3>1. currentTerm[n] + 1 \in Nat /\ currentTerm[n] + 1 > currentTerm[n]
            BY DEF TypeOK
        <3> QED  BY <2>1, <3>1 DEF StartElection, SetTerm
    <2>2. CASE Dispatch(n) \/ FollowerTimeout(n) \/ CandidateTimeout(n) \/ Return(n)
        BY <2>2 DEF Dispatch, FollowerTimeout, CandidateTimeout, Return, fields
    <2> QED  BY <1>1, <2>1, <2>2 DEF Run
<1>2. ASSUME NEW n \in Nodes, TimerFires(n) \/ Stop(n) PROVE UNCHANGED currentTerm
    BY <1>2 DEF TimerFires, Stop, fields
<1>3. ASSUME NEW n \in Nodes, NEW p \in Nodes, SendHeartbeat(n, p) PROVE UNCHANGED currentTerm
    BY <1>3 DEF SendHeartbeat, fields
<1>4. ASSUME NEW c \in calls, Progress(c) PROVE UNCHANGED currentTerm \/ Raised
    <2>1. c \in Call  BY DEF TypeOK
    <2>2. /\ c.to \in Nodes /\ c.from \in Nodes
          /\ c.term \in Nat /\ c.answer.term \in Nat
        BY <2>1 DEF Call, Answer
    <2>3. CASE RequestVote(c)
        BY <2>2, <2>3 DEF RequestVote, Ahead, SetTerm
    <2>4. CASE AppendEntries(c)
        <3>1. \/ UNCHANGED <<fields, timer>>
              \/ Ahead(c) /\ becomeFollower(c.to, c.term)
              \/ ResetTimer(c.to) /\ UNCHANGED fields
            BY <2>4 DEF AppendEntries
        <3> QED  BY <2>2, <3>1 DEF Ahead, becomeFollower, SetTerm, fields
    <2>5. CASE LearnTerm(c)
        BY <2>2, <2>5 DEF LearnTerm, Higher, becomeFollower, SetTerm
    <2>6. CASE TakeAnswer(c) \/ FailCall(c)
        BY <2>6 DEF TakeAnswer, FailCall
    <2> QED  BY <1>4, <2>3, <2>4, <2>5, <2>6 DEF Progress
<1>5. CASE UNCHANGED vars
    BY <1>5 DEF vars, fields
<1> QED  BY <1>1, <1>2, <1>3, <1>4, <1>5 DEF Next

\* No answer, request, timeout or late call takes a node to a lower term.
THEOREM TermsOnlyGrow == Spec => TermNeverGoesBack
<1>1. TypeOK /\ [Next]_vars => [\A n \in Nodes : currentTerm'[n] >= currentTerm[n]]_vars
    <2> SUFFICES ASSUME TypeOK, [Next]_vars
                 PROVE  \A n \in Nodes : currentTerm'[n] >= currentTerm[n]
        OBVIOUS
    <2>1. CASE UNCHANGED currentTerm
        BY <2>1 DEF TypeOK
    <2>2. ASSUME NEW n \in Nodes, NEW t \in Nat, t > currentTerm[n],
                 currentTerm' = [currentTerm EXCEPT ![n] = t]
          PROVE  \A m \in Nodes : currentTerm'[m] >= currentTerm[m]
        BY <2>2 DEF TypeOK
    <2> QED  BY <2>1, <2>2, TermStep
<1> QED  BY <1>1, TypeCorrect, PTL DEF Spec, TermNeverGoesBack
-----------------------------------------------------------------------------
(***************************************************************************)
(* Votes.  VoteInv is inductive: the vote given in the current term is     *)
(* still in votedFor, or the node has become its own candidate since       *)
(* (becomeCandidate overwrites votedFor before the term goes up), and      *)
(* either way nobody else gets a second one.                               *)
(***************************************************************************)

\* Nobody calls itself.
CallsOthers == \A c \in calls : c.from # c.to

\* A vote belongs to a term its voter has reached.
GrantsReached == \A g \in grants : g.term <= currentTerm[g.voter]

\* A vote of the voter's own term still stands.
VoteStands ==
    \A g \in grants :
        g.term = currentTerm[g.voter] => votedFor[g.voter] \in {g.candidate, g.voter}

VoteInv == TypeOK /\ CallsOthers /\ GrantsReached /\ VoteStands /\ OneVotePerTerm

\* A step that gives no vote keeps the invariant if it touches votedFor only to
\* name the node itself, or in a higher term.
LEMMA QuietStep ==
    ASSUME VoteInv, grants' = grants, NEW n \in Nodes,
           \/ UNCHANGED <<currentTerm, votedFor>>
           \/ currentTerm' = currentTerm /\ votedFor' = [votedFor EXCEPT ![n] = n]
           \/ \E t \in Nat, v \in Nodes \cup {NoNode} :
                /\ t > currentTerm[n]
                /\ currentTerm' = [currentTerm EXCEPT ![n] = t]
                /\ votedFor' = [votedFor EXCEPT ![n] = v]
    PROVE  GrantsReached' /\ VoteStands' /\ OneVotePerTerm'
<1>1. OneVotePerTerm'
    BY DEF VoteInv, OneVotePerTerm
<1> SUFFICES ASSUME NEW g \in grants
             PROVE  /\ g.term <= currentTerm'[g.voter]
                    /\ g.term = currentTerm'[g.voter] => votedFor'[g.voter] \in {g.candidate, g.voter}
    BY <1>1 DEF GrantsReached, VoteStands
<1>2. /\ g \in Grant
      /\ g.term <= currentTerm[g.voter]
      /\ g.term = currentTerm[g.voter] => votedFor[g.voter] \in {g.candidate, g.voter}
    BY DEF VoteInv, TypeOK, GrantsReached, VoteStands
<1>3. g.voter \in Nodes /\ g.term \in Nat  BY <1>2 DEF Grant
<1>4. currentTerm \in [Nodes -> Nat] /\ votedFor \in [Nodes -> Nodes \cup {NoNode}]
    BY DEF VoteInv, TypeOK
<1>5. CASE UNCHANGED <<currentTerm, votedFor>>
    BY <1>2, <1>5
<1>6. CASE currentTerm' = currentTerm /\ votedFor' = [votedFor EXCEPT ![n] = n]
    BY <1>2, <1>3, <1>4, <1>6
<1>7. ASSUME NEW t \in Nat, NEW v, t > currentTerm[n],
             currentTerm' = [currentTerm EXCEPT ![n] = t],
             votedFor' = [votedFor EXCEPT ![n] = v]
      PROVE  /\ g.term <= currentTerm'[g.voter]
             /\ g.term = currentTerm'[g.voter] => votedFor'[g.voter] \in {g.candidate, g.voter}
    <2>1. CASE g.voter = n
        <3>1. currentTerm'[g.voter] = t  BY <1>4, <1>7, <2>1
        <3>2. g.term < t  BY <1>2, <1>3, <1>4, <1>7, <2>1
        <3> QED  BY <1>3, <3>1, <3>2
    <2>2. CASE g.voter # n
        BY <1>2, <1>3, <1>4, <1>7, <2>2
    <2> QED  BY <2>1, <2>2
<1> QED  BY <1>5, <1>6, <1>7

\* n gives v its vote in term t, and has given none to anyone else in it.
Gives(n, v, t) ==
    /\ t >= currentTerm[n]
    /\ currentTerm' = [currentTerm EXCEPT ![n] = t]
    /\ votedFor' = [votedFor EXCEPT ![n] = v]
    /\ grants' = grants \cup {[voter |-> n, candidate |-> v, term |-> t]}
    /\ \A g \in grants : (g.voter = n /\ g.term = t) => g.candidate = v

\* Such a vote keeps the invariant.
LEMMA VoteStep ==
    ASSUME VoteInv, NEW n \in Nodes, NEW v \in Nodes, NEW t \in Nat, Gives(n, v, t)
    PROVE  GrantsReached' /\ VoteStands' /\ OneVotePerTerm'
<1> USE DEF Gives
<1> DEFINE new == [voter |-> n, candidate |-> v, term |-> t]
<1>1. currentTerm \in [Nodes -> Nat] /\ votedFor \in [Nodes -> Nodes \cup {NoNode}]
    BY DEF VoteInv, TypeOK
<1>2. ASSUME NEW g \in grants
      PROVE  /\ g = [voter |-> g.voter, candidate |-> g.candidate, term |-> g.term]
             /\ g.voter \in Nodes /\ g.candidate \in Nodes /\ g.term \in Nat
             /\ g.term <= currentTerm[g.voter]
             /\ g.term = currentTerm[g.voter] => votedFor[g.voter] \in {g.candidate, g.voter}
    BY DEF VoteInv, TypeOK, Grant, GrantsReached, VoteStands
<1>3. currentTerm'[n] = t /\ votedFor'[n] = v  BY <1>1
<1>4. \A m \in Nodes \ {n} : currentTerm'[m] = currentTerm[m] /\ votedFor'[m] = votedFor[m]
    BY <1>1
<1>5. ASSUME NEW g \in grants
      PROVE  /\ g.term <= currentTerm'[g.voter]
             /\ g.term = currentTerm'[g.voter] => votedFor'[g.voter] \in {g.candidate, g.voter}
    <2>1. CASE g.voter = n
        BY <1>1, <1>2, <1>3, <2>1
    <2>2. CASE g.voter # n
        BY <1>2, <1>4, <2>2
    <2> QED  BY <2>1, <2>2
<1>6. ASSUME NEW g \in grants, g.voter = n, g.term = t PROVE g = new
    BY <1>2, <1>6
<1>7. new.voter = n /\ new.candidate = v /\ new.term = t
    OBVIOUS
<1>8. GrantsReached'
    BY <1>3, <1>5, <1>7 DEF GrantsReached
<1>9. VoteStands'
    BY <1>3, <1>5, <1>7 DEF VoteStands
<1>10. OneVotePerTerm'
    BY <1>6, <1>7 DEF OneVotePerTerm, VoteInv
<1> QED  BY <1>8, <1>9, <1>10

\* The calls a step leaves were there, answer known or not, or go to a peer.
LEMMA CallsStep == VoteInv /\ [Next]_vars => CallsOthers'
<1> SUFFICES ASSUME VoteInv, [Next]_vars PROVE CallsOthers'
    OBVIOUS
<1>1. calls \subseteq Call /\ CallsOthers  BY DEF VoteInv, TypeOK
<1>2. ASSUME UNCHANGED calls PROVE CallsOthers'
    BY <1>1, <1>2 DEF CallsOthers
<1>3. ASSUME NEW c \in calls, NEW a, calls' \subseteq calls \cup {[c EXCEPT !.answer = a]}
      PROVE  CallsOthers'
    <2>1. /\ [c EXCEPT !.answer = a].from = c.from
          /\ [c EXCEPT !.answer = a].to = c.to
        BY <1>1 DEF Call
    <2> QED  BY <1>1, <1>3, <2>1 DEF CallsOthers
<1>4. ASSUME NEW n \in Nodes, Run(n) PROVE CallsOthers'
    <2>1. CASE StartElection(n)
        <3> DEFINE ask(p) == [method |-> "RequestVote", from |-> n, to |-> p,
                              term |-> currentTerm[n] + 1, answer |-> NoAnswer]
        <3>1. calls' = calls \cup {ask(p) : p \in Peers(n)}  BY <2>1 DEF StartElection
        <3>2. \A p \in Peers(n) : ask(p).from # ask(p).to  BY DEF Peers
        <3> QED  BY <1>1, <3>1, <3>2 DEF CallsOthers
    <2>2. CASE Dispatch(n) \/ FollowerTimeout(n) \/ CandidateTimeout(n) \/ Return(n)
        BY <1>2, <2>2 DEF Dispatch, FollowerTimeout, CandidateTimeout, Return
    <2> QED  BY <1>4, <2>1, <2>2 DEF Run
<1>5. ASSUME NEW n \in Nodes, TimerFires(n) \/ Stop(n) PROVE CallsOthers'
    BY <1>2, <1>5 DEF TimerFires, Stop
<1>6. ASSUME NEW n \in Nodes, NEW p \in Nodes, SendHeartbeat(n, p) PROVE CallsOthers'
    <2> DEFINE c == [method |-> "AppendEntries", from |-> n, to |-> p,
                     term |-> currentTerm[n], answer |-> NoAnswer]
    <2>1. calls' = calls \cup {c} /\ p # n  BY <1>6 DEF SendHeartbeat, Peers
    <2> QED  BY <1>1, <2>1 DEF CallsOthers
<1>7. ASSUME NEW c \in calls, Progress(c) PROVE CallsOthers'
    <2>1. CASE RequestVote(c) \/ AppendEntries(c)
        <3>1. PICK ok : Reply(c, ok)  BY <2>1 DEF RequestVote, AppendEntries
        <3> QED  BY <1>3, <3>1 DEF Reply
    <2>2. CASE LearnTerm(c)
        BY <1>3, <2>2 DEF LearnTerm
    <2>3. CASE TakeAnswer(c) \/ FailCall(c)
        BY <1>1, <2>3 DEF TakeAnswer, FailCall, CallsOthers
    <2> QED  BY <1>7, <2>1, <2>2, <2>3 DEF Progress
<1>8. CASE UNCHANGED vars
    BY <1>2, <1>8 DEF vars
<1> QED  BY <1>4, <1>5, <1>6, <1>7, <1>8 DEF Next

\* VoteInv is inductive.
LEMMA VoteInvStep == VoteInv /\ [Next]_vars => VoteInv'
<1> SUFFICES ASSUME VoteInv, [Next]_vars
             PROVE  GrantsReached' /\ VoteStands' /\ OneVotePerTerm'
    BY TypeStep, CallsStep DEF VoteInv
<1> DEFINE Goal == GrantsReached' /\ VoteStands' /\ OneVotePerTerm'
<1>1. TypeOK  BY DEF VoteInv
<1>2. ASSUME UNCHANGED <<currentTerm, votedFor, grants>> PROVE Goal
    BY <1>2 DEF VoteInv, GrantsReached, VoteStands, OneVotePerTerm
<1>3. ASSUME NEW n \in Nodes, Run(n) PROVE Goal
    <2>1. CASE StartElection(n)
        <3> DEFINE t == currentTerm[n] + 1
        <3>1. t \in Nat /\ t >= currentTerm[n]  BY <1>1 DEF TypeOK
        <3>2. \A g \in grants : g.voter = n => g.term # t
            BY <1>1 DEF VoteInv, GrantsReached, TypeOK, Grant
        <3>3. /\ currentTerm' = [currentTerm EXCEPT ![n] = t]
              /\ votedFor' = [votedFor EXCEPT ![n] = n]
              /\ grants' = grants \cup {[voter |-> n, candidate |-> n, term |-> t]}
            BY <2>1 DEF StartElection, SetTerm, SetVote
        <3>4. Gives(n, n, t)
            BY <3>1, <3>2, <3>3 DEF Gives
        <3> QED  BY <3>1, <3>4, VoteStep
    <2>2. CASE FollowerTimeout(n) \/ CandidateTimeout(n)
        <3>1. /\ grants' = grants /\ currentTerm' = currentTerm
              /\ \/ votedFor' = votedFor
                 \/ votedFor' = [votedFor EXCEPT ![n] = n]
            BY <2>2 DEF FollowerTimeout, CandidateTimeout, SetVote
        <3> QED  BY <3>1, QuietStep
    <2>3. CASE Dispatch(n) \/ Return(n)
        BY <1>2, <2>3 DEF Dispatch, Return, fields
    <2> QED  BY <1>3, <2>1, <2>2, <2>3 DEF Run
<1>4. ASSUME NEW n \in Nodes, TimerFires(n) \/ Stop(n) PROVE Goal
    BY <1>2, <1>4 DEF TimerFires, Stop, fields
<1>5. ASSUME NEW n \in Nodes, NEW p \in Nodes, SendHeartbeat(n, p) PROVE Goal
    BY <1>2, <1>5 DEF SendHeartbeat, fields
<1>6. ASSUME NEW c \in calls, Progress(c) PROVE Goal
    <2>1. c \in Call /\ c.from # c.to  BY <1>1 DEF VoteInv, TypeOK, CallsOthers
    <2>2. /\ c.to \in Nodes /\ c.from \in Nodes
          /\ c.term \in Nat /\ c.answer.term \in Nat
        BY <2>1 DEF Call, Answer
    <2>3. CASE RequestVote(c)
        <3> DEFINE n == c.to
                   granted == ~Outdated(c) /\ MayVote(c)
        <3>1. currentTerm[n] \in Nat /\ votedFor[n] \in Nodes \cup {NoNode}
            BY <1>1, <2>2 DEF TypeOK
        <3>2. CASE granted
            <4>1. c.term >= currentTerm[n]
                BY <2>2, <3>1, <3>2 DEF Outdated
            <4>2. currentTerm' = [currentTerm EXCEPT ![n] = c.term]
                <5>1. CASE Ahead(c)
                    BY <2>3, <5>1 DEF RequestVote, SetTerm
                <5>2. CASE ~Ahead(c)
                    <6>1. c.term = currentTerm[n]  BY <2>2, <3>1, <4>1, <5>2 DEF Ahead
                    <6> QED  BY <1>1, <2>2, <2>3, <5>2, <6>1 DEF RequestVote, TypeOK
                <5> QED  BY <5>1, <5>2
            <4>3. /\ votedFor' = [votedFor EXCEPT ![n] = c.from]
                  /\ grants' = grants \cup {[voter |-> n, candidate |-> c.from, term |-> c.term]}
                BY <2>3, <3>2 DEF RequestVote
            <4>4. ASSUME NEW g \in grants, g.voter = n, g.term = c.term
                  PROVE  g.candidate = c.from
                <5>1. /\ g.term <= currentTerm[n]
                      /\ g.term = currentTerm[n] => votedFor[n] \in {g.candidate, n}
                    BY <4>4 DEF VoteInv, GrantsReached, VoteStands
                <5>2. ~Ahead(c) /\ g.term = currentTerm[n]
                    BY <2>2, <3>1, <4>1, <4>4, <5>1 DEF Ahead
                <5>3. votedFor[n] \in {NoNode, c.from}
                    BY <3>2, <5>2 DEF MayVote
                <5>4. votedFor[n] # NoNode
                    <6>1. g.candidate \in Nodes  BY <1>1 DEF TypeOK, Grant
                    <6> QED  BY <2>2, <5>1, <5>2, <6>1, RaftAssumption
                <5> QED  BY <2>1, <5>1, <5>2, <5>3, <5>4
            <4>5. Gives(n, c.from, c.term)
                BY <4>1, <4>2, <4>3, <4>4 DEF Gives
            <4> QED  BY <2>2, <4>5, VoteStep
        <3>3. CASE ~granted /\ Ahead(c)
            <4>1. /\ grants' = grants
                  /\ currentTerm' = [currentTerm EXCEPT ![n] = c.term]
                  /\ votedFor' = [votedFor EXCEPT ![n] = NoNode]
                  /\ c.term > currentTerm[n]
                BY <2>3, <3>3 DEF RequestVote, SetTerm, Ahead
            <4> QED  BY <2>2, <4>1, QuietStep
        <3>4. CASE ~granted /\ ~Ahead(c)
            <4>1. grants' = grants /\ currentTerm' = currentTerm
                BY <2>3, <3>4 DEF RequestVote
            <4>2. votedFor' = [votedFor EXCEPT ![n] = votedFor[n]]
                BY <2>3, <3>4 DEF RequestVote
            <4>3. votedFor' = votedFor  BY <1>1, <2>2, <4>2 DEF TypeOK
            <4> QED  BY <1>2, <4>1, <4>3
        <3> QED  BY <3>2, <3>3, <3>4
    <2>4. CASE AppendEntries(c)
        <3>1. \/ UNCHANGED <<fields, timer>>
              \/ Ahead(c) /\ becomeFollower(c.to, c.term)
              \/ ResetTimer(c.to) /\ UNCHANGED fields
            BY <2>4 DEF AppendEntries
        <3>2. grants' = grants  BY <2>4 DEF AppendEntries
        <3>3. CASE Ahead(c) /\ becomeFollower(c.to, c.term)
            BY <2>2, <3>2, <3>3, QuietStep DEF Ahead, becomeFollower, SetTerm, SetVote
        <3>4. CASE UNCHANGED fields
            BY <1>2, <3>2, <3>4 DEF fields
        <3> QED  BY <3>1, <3>3, <3>4
    <2>5. CASE LearnTerm(c)
        <3>1. /\ grants' = grants
              /\ currentTerm' = [currentTerm EXCEPT ![c.from] = c.answer.term]
              /\ votedFor' = [votedFor EXCEPT ![c.from] = NoNode]
              /\ c.answer.term > currentTerm[c.from]
            BY <2>5 DEF LearnTerm, Higher, becomeFollower, SetTerm, SetVote
        <3>2. \E t \in Nat, v \in Nodes \cup {NoNode} :
                /\ t > currentTerm[c.from]
                /\ currentTerm' = [currentTerm EXCEPT ![c.from] = t]
                /\ votedFor' = [votedFor EXCEPT ![c.from] = v]
            BY <2>2, <3>1
        <3> QED  BY <2>2, <3>1, <3>2, QuietStep
    <2>6. CASE TakeAnswer(c) \/ FailCall(c)
        BY <1>2, <2>6 DEF TakeAnswer, FailCall
    <2> QED  BY <1>6, <2>3, <2>4, <2>5, <2>6 DEF Progress
<1>7. CASE UNCHANGED vars
    BY <1>2, <1>7 DEF vars, fields
<1> QED  BY <1>3, <1>4, <1>5, <1>6, <1>7 DEF Next

\* In a term no node votes for two candidates.
THEOREM VotesOnce == Spec => []OneVotePerTerm
<1>1. Init => VoteInv
    <2>1. Init => TypeOK  BY RaftAssumption DEF Init, TypeOK, Roles
    <2> QED  BY <2>1
             DEF Init, VoteInv, CallsOthers, GrantsReached, VoteStands, OneVotePerTerm
<1>2. VoteInv => OneVotePerTerm
    BY DEF VoteInv
<1> QED  BY <1>1, <1>2, VoteInvStep, PTL DEF Spec
-----------------------------------------------------------------------------
(***************************************************************************)
(* Majorities.  MajorityInv is inductive: the votes a candidate has        *)
(* counted came from distinct peers which have voted for it, in the term   *)
(* of its candidacy, and whose results it no longer waits for.             *)
(***************************************************************************)

\* Only a voter says that it has granted its vote.
AnswersAreGrants ==
    \A c \in calls :
        c.method = "RequestVote" /\ c.answer.given /\ c.answer.granted
            => [voter |-> c.to, candidate |-> c.from, term |-> c.term] \in grants

\* The votes counted are no more than those given by peers that have been heard.
VotesCounted(n) == loop[n] = "candidate" => votes[n] <= Cardinality(Voters(n) \ awaited[n])

\* A leader does not come back to a candidacy, and was elected by a majority.
LeaderSound(n) ==
    role[n] = "Leader" =>
        /\ loop[n] \in {"select", "leader", "stopped"}
        /\ Majority(n, Cardinality(Voters(n)))

MajorityInv == AnswersAreGrants /\ \A n \in Nodes : VotesCounted(n) /\ LeaderSound(n)

\* A vote once given stays on record.
LEMMA GrantsGrow == [Next]_vars => grants \subseteq grants'
<1> SUFFICES ASSUME [Next]_vars PROVE grants \subseteq grants'
    OBVIOUS
<1>1. ASSUME NEW n \in Nodes, Run(n) PROVE grants \subseteq grants'
    BY <1>1 DEF Run, Dispatch, FollowerTimeout, StartElection, CandidateTimeout, Return
<1>2. ASSUME NEW n \in Nodes, TimerFires(n) \/ Stop(n) PROVE grants \subseteq grants'
    BY <1>2 DEF TimerFires, Stop
<1>3. ASSUME NEW n \in Nodes, NEW p \in Nodes, SendHeartbeat(n, p) PROVE grants \subseteq grants'
    BY <1>3 DEF SendHeartbeat
<1>4. ASSUME NEW c \in calls, RequestVote(c) PROVE grants \subseteq grants'
    BY <1>4 DEF RequestVote
<1>5. ASSUME NEW c \in calls, AppendEntries(c) \/ LearnTerm(c) \/ TakeAnswer(c) \/ FailCall(c)
      PROVE  grants \subseteq grants'
    BY <1>5 DEF AppendEntries, LearnTerm, TakeAnswer, FailCall
<1>6. CASE UNCHANGED vars
    BY <1>6 DEF vars
<1> QED  BY <1>1, <1>2, <1>3, <1>4, <1>5, <1>6 DEF Next, Progress

\* A node's voters are nodes, finitely many, and stay its voters while it does
\* not start another candidacy.
LEMMA VotersFinite ==
    ASSUME TypeOK, NEW n \in Nodes
    PROVE  /\ Voters(n) \subseteq Nodes
           /\ \A S \in SUBSET Voters(n) : IsFiniteSet(S) /\ Cardinality(S) \in Nat
           /\ Cardinality(Peers(n)) = Cardinality(Nodes) - 1 /\ Cardinality(Peers(n)) \in Nat
<1>1. Voters(n) \subseteq Nodes  BY DEF Voters, TypeOK, Grant
<1>2. \A S \in SUBSET Voters(n) : IsFiniteSet(S) /\ Cardinality(S) \in Nat
    BY <1>1, RaftAssumption, FS_Subset, FS_CardinalityType
<1>3. IsFiniteSet(Nodes)  BY RaftAssumption
<1>4. IsFiniteSet(Peers(n)) /\ Cardinality(Peers(n)) = Cardinality(Nodes) - 1
    BY <1>3, FS_RemoveElement DEF Peers
<1>5. Cardinality(Peers(n)) \in Nat  BY <1>4, FS_CardinalityType
<1> QED  BY <1>1, <1>2, <1>4, <1>5

LEMMA VotersAfter ==
    ASSUME TypeOK', NEW n \in Nodes
    PROVE  /\ Voters(n)' \subseteq Nodes
           /\ IsFiniteSet(Voters(n)') /\ Cardinality(Voters(n)') \in Nat
           /\ IsFiniteSet((Voters(n) \ awaited[n])') /\ Cardinality((Voters(n) \ awaited[n])') \in Nat
<1>1. Voters(n)' \subseteq Nodes  BY DEF Voters, TypeOK, Grant
<1>2. (Voters(n) \ awaited[n])' \subseteq Nodes  BY <1>1
<1> QED  BY <1>1, <1>2, RaftAssumption, FS_Subset, FS_CardinalityType

LEMMA VotersKept ==
    ASSUME NEW n \in Nodes, grants \subseteq grants', ballot'[n] = ballot[n]
    PROVE  Voters(n) \subseteq Voters(n)'
BY DEF Voters

\* What a step leaves alone of node n keeps n's part of the invariant.
LEMMA NodeLeftAlone ==
    ASSUME TypeOK, TypeOK', NEW n \in Nodes, VotesCounted(n), LeaderSound(n),
           grants \subseteq grants',
           loop'[n] = "candidate" =>
               /\ loop[n] = "candidate" /\ ballot'[n] = ballot[n]
               /\ votes'[n] = votes[n] /\ awaited'[n] = awaited[n],
           role'[n] = "Leader" =>
               /\ role[n] = "Leader" /\ ballot'[n] = ballot[n]
               /\ loop'[n] \in {loop[n], "leader", "stopped"}
    PROVE  VotesCounted(n)' /\ LeaderSound(n)'
<1>1. VotesCounted(n)'
    <2> SUFFICES ASSUME loop'[n] = "candidate"
                 PROVE  votes'[n] <= Cardinality((Voters(n) \ awaited[n])')
        BY DEF VotesCounted
    <2>1. Voters(n) \subseteq Voters(n)'  BY VotersKept
    <2>2. Voters(n) \ awaited[n] \subseteq (Voters(n) \ awaited[n])'  BY <2>1
    <2>3. Cardinality(Voters(n) \ awaited[n]) <= Cardinality((Voters(n) \ awaited[n])')
        BY <2>2, VotersAfter, FS_Subset
    <2>4. votes[n] <= Cardinality(Voters(n) \ awaited[n])  BY DEF VotesCounted
    <2>5. Cardinality(Voters(n) \ awaited[n]) \in Nat  BY VotersFinite
    <2>6. votes'[n] \in Nat /\ votes'[n] = votes[n]  BY DEF TypeOK
    <2>7. Cardinality((Voters(n) \ awaited[n])') \in Nat  BY VotersAfter
    <2> QED  BY <2>3, <2>4, <2>5, <2>6, <2>7
<1>2. LeaderSound(n)'
    <2> SUFFICES ASSUME role'[n] = "Leader"
                 PROVE  /\ loop'[n] \in {"select", "leader", "stopped"}
                        /\ Majority(n, Cardinality(Voters(n)'))
        BY DEF LeaderSound, Majority, Peers
    <2>1. loop[n] \in {"select", "leader", "stopped"} /\ Majority(n, Cardinality(Voters(n)))
        BY DEF LeaderSound
    <2>2. Voters(n) \subseteq Voters(n)'  BY VotersKept
    <2>3. Cardinality(Voters(n)) <= Cardinality(Voters(n)')
        BY <2>2, VotersAfter, FS_Subset
    <2>4. Cardinality(Voters(n)) \in Nat /\ Cardinality(Peers(n)) \in Nat  BY VotersFinite
    <2>5. Cardinality(Voters(n)') \in Nat  BY VotersAfter
    <2>6. Majority(n, Cardinality(Voters(n)'))
        BY <2>1, <2>3, <2>4, <2>5 DEF Majority
    <2>7. loop'[n] \in {"select", "leader", "stopped"}
        BY <2>1
    <2> QED  BY <2>6, <2>7
<1> QED  BY <1>1, <1>2

\* A step that touches only one node's candidacy keeps the others'.
LEMMA OthersLeftAlone ==
    ASSUME TypeOK, TypeOK', NEW n \in Nodes, \A m \in Nodes : VotesCounted(m) /\ LeaderSound(m),
           grants \subseteq grants', VotesCounted(n)', LeaderSound(n)',
           \A m \in Nodes \ {n} : /\ role'[m] = role[m] /\ loop'[m] = loop[m]
                                  /\ ballot'[m] = ballot[m] /\ votes'[m] = votes[m]
                                  /\ awaited'[m] = awaited[m]
    PROVE  \A m \in Nodes : VotesCounted(m)' /\ LeaderSound(m)'
<1> SUFFICES ASSUME NEW m \in Nodes \ {n} PROVE VotesCounted(m)' /\ LeaderSound(m)'
    OBVIOUS
<1> QED  BY NodeLeftAlone

\* A counted vote is that of a peer which had not been heard, and nodes become
\* leader only by the last vote of a majority.
LEMMA CountKeeps ==
    ASSUME TypeOK, TypeOK', \A m \in Nodes : VotesCounted(m) /\ LeaderSound(m),
           NEW n \in Nodes, NEW p \in Nodes, NEW t \in Nat, NEW vote \in BOOLEAN,
           vote => [voter |-> p, candidate |-> n, term |-> t] \in grants,
           Count(n, p, t, vote), UNCHANGED <<ballot, grants>>
    PROVE  \A m \in Nodes : VotesCounted(m)' /\ LeaderSound(m)'
<1>1. CASE ~Awaits(n, p, t)
    <2>1. UNCHANGED <<role, loop, votes, awaited>>  BY <1>1 DEF Count
    <2> QED  BY <2>1, NodeLeftAlone
<1>2. CASE Awaits(n, p, t)
    <2> DEFINE heard == Voters(n) \ awaited[n]
    <2>1. /\ loop[n] = "candidate" /\ ballot[n] = t /\ p \in awaited[n]
          /\ role[n] # "Leader" /\ votes[n] <= Cardinality(heard)
        BY <1>2 DEF Awaits, VotesCounted, LeaderSound
    <2>2. vote => p \in Voters(n)
        <3> SUFFICES ASSUME vote PROVE p \in Voters(n)
            OBVIOUS
        <3> DEFINE g == [voter |-> p, candidate |-> n, term |-> t]
        <3>1. g \in {h \in grants : h.candidate = n /\ h.term = ballot[n]} /\ g.voter = p
            BY <2>1
        <3> QED  BY <3>1 DEF Voters
    <2>3. p \notin heard  BY <2>1
    <2>4. IsFiniteSet(heard) /\ Cardinality(heard) \in Nat /\ votes[n] \in Nat
        BY VotersFinite DEF TypeOK
    <2>5. Cardinality(heard \cup {p}) = Cardinality(heard) + 1
        BY <2>3, <2>4, FS_AddElement
    <2>6. Voters(n)' = Voters(n)  BY DEF Voters
    <2>7. \A m \in Nodes \ {n} : /\ role'[m] = role[m] /\ loop'[m] = loop[m]
                                 /\ votes'[m] = votes[m] /\ awaited'[m] = awaited[m]
        BY <1>2 DEF Count, TypeOK, SetRole, Disarm, GoTo
    <2>8. CASE vote /\ Majority(n, votes[n] + 1)
        <3>1. role'[n] = "Leader" /\ loop'[n] = "select"
            BY <1>2, <2>8 DEF Count, TypeOK, SetRole, GoTo
        <3>2. Cardinality(heard \cup {p}) <= Cardinality(Voters(n))
            BY <2>2, <2>8, VotersFinite, FS_Subset
        <3>3. Cardinality(Voters(n)) \in Nat /\ Cardinality(Peers(n)) \in Nat  BY VotersFinite
        <3>4. Majority(n, Cardinality(Voters(n)))
            BY <2>1, <2>4, <2>5, <2>8, <3>2, <3>3 DEF Majority
        <3>5. LeaderSound(n)'  BY <2>6, <3>1, <3>4 DEF LeaderSound, Majority, Peers
        <3>6. VotesCounted(n)'  BY <3>1 DEF VotesCounted
        <3> QED  BY <2>7, <3>5, <3>6, OthersLeftAlone
    <2>9. CASE ~(vote /\ Majority(n, votes[n] + 1))
        <3> DEFINE left == awaited[n] \ {p}
        <3>1. /\ role' = role
              /\ awaited' = [awaited EXCEPT ![n] = left]
              /\ votes' = [votes EXCEPT ![n] = IF left = {} THEN 0 ELSE IF vote THEN @ + 1 ELSE @]
              /\ loop' = IF left = {} THEN [loop EXCEPT ![n] = "select"] ELSE loop
            BY <1>2, <2>9 DEF Count, ResultsLeft, GoTo
        <3>2. LeaderSound(n)'  BY <2>1, <3>1 DEF LeaderSound
        <3>3. VotesCounted(n)'
            <4> SUFFICES ASSUME loop'[n] = "candidate"
                         PROVE  votes'[n] <= Cardinality((Voters(n) \ awaited[n])')
                BY DEF VotesCounted
            <4>1. left # {}  BY <3>1 DEF TypeOK
            <4>2. /\ votes'[n] = IF vote THEN votes[n] + 1 ELSE votes[n]
                  /\ awaited'[n] = left
                BY <3>1, <4>1 DEF TypeOK
            <4>3. CASE vote
                <5>1. (Voters(n) \ awaited[n])' = heard \cup {p}
                    BY <2>1, <2>2, <2>6, <4>2, <4>3
                <5> QED  BY <2>1, <2>4, <2>5, <4>2, <4>3, <5>1
            <4>4. CASE ~vote
                <5>1. heard \subseteq (Voters(n) \ awaited[n])'
                    BY <2>6, <4>2
                <5>2. Cardinality(heard) <= Cardinality((Voters(n) \ awaited[n])')
                    BY <5>1, VotersAfter, FS_Subset
                <5> QED  BY <2>1, <2>4, <4>2, <4>4, <5>2, VotersAfter
            <4> QED  BY <4>3, <4>4
        <3> QED  BY <2>7, <3>2, <3>3, OthersLeftAlone
    <2> QED  BY <2>8, <2>9
<1> QED  BY <1>1, <1>2

\* A request is sent without an answer, an error brings none, and a peer which
\* says that it grants its vote has given it.
LEMMA AnswersStep == TypeOK /\ AnswersAreGrants /\ [Next]_vars => AnswersAreGrants'
<1> SUFFICES ASSUME TypeOK, AnswersAreGrants, [Next]_vars PROVE AnswersAreGrants'
    OBVIOUS
<1> DEFINE Backed(c) == c.method = "RequestVote" /\ c.answer.given /\ c.answer.granted
                            => [voter |-> c.to, candidate |-> c.from, term |-> c.term] \in grants'
<1>1. \A c \in calls : Backed(c)  BY GrantsGrow DEF AnswersAreGrants
<1>2. ASSUME \A c \in calls' : c \in calls \/ Backed(c) PROVE AnswersAreGrants'
    BY <1>1, <1>2 DEF AnswersAreGrants
<1>3. CASE calls' \subseteq calls
    BY <1>2, <1>3
<1>4. ASSUME NEW n \in Nodes, Run(n) PROVE AnswersAreGrants'
    <2>1. CASE StartElection(n)
        <3> DEFINE ask(p) == [method |-> "RequestVote", from |-> n, to |-> p,
                              term |-> currentTerm[n] + 1, answer |-> NoAnswer]
        <3>1. calls' = calls \cup {ask(p) : p \in Peers(n)}  BY <2>1 DEF StartElection
        <3>2. \A p : ~ask(p).answer.given  BY DEF NoAnswer
        <3> QED  BY <1>2, <3>1, <3>2
    <2>2. CASE Dispatch(n) \/ FollowerTimeout(n) \/ CandidateTimeout(n) \/ Return(n)
        BY <1>3, <2>2 DEF Dispatch, FollowerTimeout, CandidateTimeout, Return
    <2> QED  BY <1>4, <2>1, <2>2 DEF Run
<1>5. ASSUME NEW n \in Nodes, TimerFires(n) \/ Stop(n) PROVE AnswersAreGrants'
    BY <1>3, <1>5 DEF TimerFires, Stop
<1>6. ASSUME NEW n \in Nodes, NEW p \in Nodes, SendHeartbeat(n, p) PROVE AnswersAreGrants'
    <2> DEFINE c == [method |-> "AppendEntries", from |-> n, to |-> p,
                     term |-> currentTerm[n], answer |-> NoAnswer]
    <2>1. calls' = calls \cup {c}  BY <1>6 DEF SendHeartbeat
    <2>2. c.method # "RequestVote"  OBVIOUS
    <2> QED  BY <1>2, <2>1, <2>2
<1>7. ASSUME NEW c \in calls, Progress(c) PROVE AnswersAreGrants'
    <2>1. c \in Call  BY DEF TypeOK
    <2>2. ASSUME NEW a, calls' \subseteq calls \cup {[c EXCEPT !.answer = a]},
                 Backed([c EXCEPT !.answer = a])
          PROVE  AnswersAreGrants'
        BY <1>2, <2>2
    <2>3. ASSUME NEW a
          PROVE  LET d == [c EXCEPT !.answer = a] IN
                 d.method = c.method /\ d.answer = a /\ d.from = c.from /\ d.to = c.to /\ d.term = c.term
        BY <2>1 DEF Call
    <2>4. CASE RequestVote(c)
        <3> DEFINE granted == ~Outdated(c) /\ MayVote(c)
        <3>1. PICK t : calls' = (calls \ {c}) \cup
                  {[c EXCEPT !.answer = [term |-> t, granted |-> granted, given |-> TRUE]]}
            BY <2>4 DEF RequestVote, Reply
        <3>2. granted => [voter |-> c.to, candidate |-> c.from, term |-> c.term] \in grants'
            BY <2>4 DEF RequestVote
        <3> HIDE DEF granted
        <3> DEFINE a == [term |-> t, granted |-> granted, given |-> TRUE]
        <3>3. calls' \subseteq calls \cup {[c EXCEPT !.answer = a]}  BY <3>1
        <3>4. a.granted = granted  OBVIOUS
        <3> HIDE DEF a
        <3>5. Backed([c EXCEPT !.answer = a])  BY <2>3, <3>2, <3>4
        <3> QED  BY <2>2, <3>3, <3>5
    <2>5. CASE AppendEntries(c)
        <3>1. PICK a : calls' = (calls \ {c}) \cup {[c EXCEPT !.answer = a]}
            BY <2>5 DEF AppendEntries, Reply
        <3>2. c.method # "RequestVote"  BY <2>5 DEF AppendEntries
        <3>3. Backed([c EXCEPT !.answer = a])  BY <2>3, <3>2
        <3> QED  BY <2>2, <3>1, <3>3
    <2>6. CASE LearnTerm(c)
        <3> DEFINE a == [term |-> 0, granted |-> FALSE, given |-> TRUE]
        <3>1. calls' \subseteq calls \cup {[c EXCEPT !.answer = a]}
            BY <2>6 DEF LearnTerm
        <3>2. ~a.granted  OBVIOUS
        <3> HIDE DEF a
        <3>3. Backed([c EXCEPT !.answer = a])  BY <2>3, <3>2
        <3> QED  BY <2>2, <3>1, <3>3
    <2>7. CASE TakeAnswer(c) \/ FailCall(c)
        BY <1>3, <2>7 DEF TakeAnswer, FailCall
    <2> QED  BY <1>7, <2>4, <2>5, <2>6, <2>7 DEF Progress
<1>8. CASE UNCHANGED vars
    BY <1>3, <1>8 DEF vars
<1> QED  BY <1>4, <1>5, <1>6, <1>7, <1>8 DEF Next

\* MajorityInv is inductive, given the types.
LEMMA MajorityInvStep == TypeOK /\ MajorityInv /\ [Next]_vars => MajorityInv'
<1> SUFFICES ASSUME TypeOK, MajorityInv, [Next]_vars
             PROVE  \A m \in Nodes : VotesCounted(m)' /\ LeaderSound(m)'
    BY AnswersStep DEF MajorityInv
<1> DEFINE Goal == \A m \in Nodes : VotesCounted(m)' /\ LeaderSound(m)'
           LeftAlone(m) ==
               /\ loop'[m] = "candidate" =>
                     /\ loop[m] = "candidate" /\ ballot'[m] = ballot[m]
                     /\ votes'[m] = votes[m] /\ awaited'[m] = awaited[m]
               /\ role'[m] = "Leader" =>
                     /\ role[m] = "Leader" /\ ballot'[m] = ballot[m]
                     /\ loop'[m] \in {loop[m], "leader", "stopped"}
<1>1. /\ TypeOK' /\ grants \subseteq grants'
      /\ \A m \in Nodes : VotesCounted(m) /\ LeaderSound(m)
    BY TypeStep, GrantsGrow DEF MajorityInv
<1>2. ASSUME \A m \in Nodes : LeftAlone(m) PROVE Goal
    <2> SUFFICES ASSUME NEW m \in Nodes PROVE VotesCounted(m)' /\ LeaderSound(m)'
        OBVIOUS
    <2>1. LeftAlone(m)  BY <1>2
    <2> QED  BY <1>1, <2>1, NodeLeftAlone
<1>3. ASSUME NEW n \in Nodes, Run(n) PROVE Goal
    <2>1. CASE StartElection(n)
        <3> DEFINE t == currentTerm[n] + 1
                   g == [voter |-> n, candidate |-> n, term |-> t]
        <3>1. loop[n] = "starting" /\ role'[n] = role[n]  BY <2>1 DEF StartElection
        <3>2. LeaderSound(n)'  BY <1>1, <3>1 DEF LeaderSound
        <3>3. /\ votes'[n] = 1 /\ awaited'[n] = Peers(n) /\ ballot'[n] = t /\ g \in grants'
            BY <2>1 DEF StartElection, TypeOK
        <3>4. n \in Voters(n)'
            <4>1. g \in {h \in grants' : h.candidate = n /\ h.term = ballot'[n]} /\ g.voter = n
                BY <3>3
            <4> QED  BY <4>1 DEF Voters
        <3>5. {n} \subseteq (Voters(n) \ awaited[n])'  BY <3>3, <3>4 DEF Peers
        <3>6. Cardinality({n}) <= Cardinality((Voters(n) \ awaited[n])')
            BY <1>1, <3>5, VotersAfter, FS_Subset
        <3>7. VotesCounted(n)'  BY <3>3, <3>6, FS_Singleton DEF VotesCounted
        <3>8. \A m \in Nodes \ {n} : /\ role'[m] = role[m] /\ loop'[m] = loop[m]
                                     /\ ballot'[m] = ballot[m] /\ votes'[m] = votes[m]
                                     /\ awaited'[m] = awaited[m]
            BY <2>1 DEF StartElection, TypeOK, GoTo
        <3> QED  BY <1>1, <3>2, <3>7, <3>8, OthersLeftAlone
    <2>2. CASE Dispatch(n)
        BY <1>2, <2>2 DEF Dispatch, TypeOK, GoTo, fields, election
    <2>3. CASE FollowerTimeout(n)
        <3>1. /\ loop[n] = "follower" /\ loop' = [loop EXCEPT ![n] = "select"]
              /\ role' = role \/ role' = [role EXCEPT ![n] = "Candidate"]
              /\ UNCHANGED <<ballot, votes, awaited>>
            BY <2>3 DEF FollowerTimeout, GoTo, SetRole, election
        <3> QED  BY <1>1, <1>2, <3>1 DEF TypeOK, LeaderSound
    <2>4. CASE CandidateTimeout(n)
        BY <1>1, <1>2, <2>4 DEF CandidateTimeout, TypeOK, GoTo, LeaderSound
    <2>5. CASE Return(n)
        BY <1>2, <2>5 DEF Return, TypeOK, GoTo, fields
    <2> QED  BY <1>3, <2>1, <2>2, <2>3, <2>4, <2>5 DEF Run
<1>4. ASSUME NEW n \in Nodes, TimerFires(n) \/ Stop(n) PROVE Goal
    BY <1>2, <1>4 DEF TimerFires, Stop, fields, election
<1>5. ASSUME NEW n \in Nodes, NEW p \in Nodes, SendHeartbeat(n, p) PROVE Goal
    BY <1>2, <1>5 DEF SendHeartbeat, fields, election
<1>6. ASSUME NEW c \in calls, Progress(c) PROVE Goal
    <2>1. c \in Call  BY DEF TypeOK
    <2>2. /\ c.to \in Nodes /\ c.from \in Nodes /\ c.term \in Nat
          /\ c.answer.granted \in BOOLEAN
        BY <2>1 DEF Call, Answer
    <2>3. ASSUME NEW n \in Nodes, UNCHANGED <<loop, election>>,
                 role' = role \/ role' = [role EXCEPT ![n] = "Follower"]
          PROVE  Goal
        BY <1>2, <2>3 DEF TypeOK, election
    <2>4. CASE RequestVote(c)
        BY <2>2, <2>3, <2>4 DEF RequestVote, SetRole
    <2>5. CASE AppendEntries(c)
        <3>1. UNCHANGED <<fields, timer>> \/ becomeFollower(c.to, c.term) \/ UNCHANGED fields
            BY <2>5 DEF AppendEntries
        <3>2. UNCHANGED <<loop, election>>  BY <2>5 DEF AppendEntries
        <3> QED  BY <2>2, <2>3, <3>1, <3>2 DEF becomeFollower, SetRole, fields
    <2>6. CASE LearnTerm(c)
        BY <2>2, <2>3, <2>6 DEF LearnTerm, becomeFollower, SetRole
    <2>7. ASSUME UNCHANGED <<role, loop, timer, votes, awaited>>, UNCHANGED ballot PROVE Goal
        BY <1>2, <2>7
    <2>8. CASE TakeAnswer(c)
        <3>1. UNCHANGED <<ballot, grants>>  BY <2>8 DEF TakeAnswer
        <3>2. CASE c.method = "RequestVote"
            <4>1. Count(c.from, c.to, c.term, c.answer.granted)  BY <2>8, <3>2 DEF TakeAnswer
            <4>2. c.answer.granted =>
                      [voter |-> c.to, candidate |-> c.from, term |-> c.term] \in grants
                BY <2>8, <3>2 DEF TakeAnswer, MajorityInv, AnswersAreGrants
            <4> QED  BY <1>1, <2>2, <3>1, <4>1, <4>2, CountKeeps
        <3>3. CASE c.method # "RequestVote"
            BY <2>7, <2>8, <3>3 DEF TakeAnswer
        <3> QED  BY <3>2, <3>3
    <2>9. CASE FailCall(c)
        <3>1. UNCHANGED <<ballot, grants>>  BY <2>9 DEF FailCall
        <3>2. CASE c.method = "RequestVote"
            <4>1. Count(c.from, c.to, c.term, FALSE)  BY <2>9, <3>2 DEF FailCall
            <4> QED  BY <1>1, <2>2, <3>1, <4>1, CountKeeps
        <3>3. CASE c.method # "RequestVote"
            BY <2>7, <2>9, <3>3 DEF FailCall
        <3> QED  BY <3>2, <3>3
    <2> QED  BY <1>6, <2>4, <2>5, <2>6, <2>8, <2>9 DEF Progress
<1>7. CASE UNCHANGED vars
    BY <1>2, <1>7 DEF vars, fields, election
<1> QED  BY <1>3, <1>4, <1>5, <1>6, <1>7 DEF Next

\* The invariant holds throughout.
LEMMA MajorityAlways == Spec => []MajorityInv
<1>1. Init => MajorityInv
    BY DEF Init, MajorityInv, AnswersAreGrants, VotesCounted, LeaderSound
<1> QED  BY <1>1, MajorityInvStep, TypeCorrect, PTL DEF Spec

\* Whatever calls are lost, late or answered after a timeout, a leader has the
\* votes of a majority for the candidacy in which runCandidate made it leader.
THEOREM LeadersAreElected == Spec => []LeaderHadMajority
<1>1. MajorityInv => LeaderHadMajority
    BY DEF MajorityInv, LeaderSound, Majority, LeaderHadMajority
<1> QED  BY <1>1, MajorityAlways, PTL

\* Two leaders of one term are the same node, unless one of them was elected by
\* the votes of an earlier term: the one flaw behind the dual leader.
THEOREM DualLeadersAreLate == Spec => []DualLeaderHasLateVotes
<1>1. TypeOK /\ MajorityInv /\ OneVotePerTerm => DualLeaderHasLateVotes
    <2> SUFFICES ASSUME TypeOK, MajorityInv, OneVotePerTerm, Cardinality(Nodes) % 2 = 1,
                        NEW m \in Nodes, NEW n \in Nodes,
                        role[m] = "Leader", role[n] = "Leader", ballot[m] = ballot[n]
                 PROVE  m = n
        BY DEF DualLeaderHasLateVotes
    <2>1. /\ Majority(m, Cardinality(Voters(m))) /\ Majority(n, Cardinality(Voters(n)))
        BY DEF MajorityInv, LeaderSound
    <2>2. /\ Cardinality(Peers(m)) = Cardinality(Nodes) - 1
          /\ Cardinality(Peers(n)) = Cardinality(Nodes) - 1
          /\ Cardinality(Voters(m)) \in Nat /\ Cardinality(Voters(n)) \in Nat
          /\ Voters(m) \subseteq Nodes /\ Voters(n) \subseteq Nodes
        BY VotersFinite
    <2>3. Cardinality(Nodes) \in Nat /\ IsFiniteSet(Nodes)
        BY RaftAssumption, FS_CardinalityType
    <2>4. Cardinality(Voters(m)) + Cardinality(Voters(n)) > Cardinality(Nodes)
        BY <2>1, <2>2, <2>3 DEF Majority
    <2>5. Voters(m) \cap Voters(n) # {}
        BY <2>2, <2>3, <2>4, FS_MajoritiesIntersect
    <2>6. PICK g \in grants, h \in grants :
              /\ g.voter = h.voter
              /\ g.candidate = m /\ g.term = ballot[m]
              /\ h.candidate = n /\ h.term = ballot[n]
        BY <2>5 DEF Voters
    <2> QED  BY <2>6 DEF OneVotePerTerm
<1> QED  BY <1>1, TypeCorrect, MajorityAlways, VotesOnce, PTL
=============================================================================
