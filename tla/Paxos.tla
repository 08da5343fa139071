------------------------------- MODULE Paxos ---------------------------------
(***************************************************************************)
(* Single-decree Paxos as src/pkg/paxos/paxos.go runs it: Proposer.Propose *)
(* calls, each a goroutine that works through rounds of two phases, and    *)
(* the acceptors they call.                                                *)
(*                                                                         *)
(* A call of Propose is a process c \in Calls on the Proposer object       *)
(* ProposerOf[c].  In a phase it starts one goroutine per acceptor; each   *)
(* calls Prepare or Accept once, in any order and interleaved with those   *)
(* of other calls, and the phase ends when all of them have returned (the  *)
(* result channel is closed by wg.Wait).  Calls of one Proposer share its  *)
(* round counter.                                                          *)
(***************************************************************************)
EXTENDS PaxosAcceptor

CONSTANTS
    Calls,         \* the calls of Proposer.Propose
    ProposerOf,    \* ProposerOf[c]: the Proposer object call c is made on
    CallValue,     \* CallValue[c]: the value call c proposes, possibly Nil
    AcceptorsOf,   \* AcceptorsOf[p]: the acceptors proposer p was created with
    MaxRound,      \* bound: proposer p starts at most MaxRound[p] rounds
    MayExpire,     \* the calls whose contexts may time out or be cancelled
    MayShutdown    \* the acceptors and proposers on which Shutdown may be called

ASSUME CallsAssumption ==
    /\ ProposerOf \in [Calls -> Proposers]
    /\ CallValue \in [Calls -> NilOrValue]
    /\ AcceptorsOf \in [Proposers -> SUBSET Acceptors]
    /\ MaxRound \in [Proposers -> Nat]

VARIABLES
    round,          \* round[p]: Proposer.round
    proposerDown,   \* proposerDown[p]: Proposer.shutdown
    pc,             \* pc[c]: where call c is
    ctx,            \* ctx[c]: whether its context, or this phase's, is done
    id,             \* id[c]: proposalID of the running round
    pending,        \* pending[c]: acceptors whose goroutine has not returned
    promises,       \* promises[c][a]: the Promise acceptor a sent in phase 1
    value,          \* value[c]: chosenValue, what phase 2 sends and Propose returns
    accepted,       \* accepted[c]: acceptors that accepted in phase 2
    votes           \* history: every acceptance, <<acceptor, id, value>> as a record

proposerVars == <<round, proposerDown>>
callVars == <<pc, ctx, id, pending, promises, value, accepted>>
vars == <<acceptorVars, proposerVars, callVars, votes>>

Vote == [acc : Acceptors, id : ProposalID, val : NilOrValue]

TypeOK ==
    /\ AcceptorTypeOK
    /\ round \in [Proposers -> Nat]
    /\ proposerDown \in [Proposers -> BOOLEAN]
    /\ pc \in [Calls -> {"start", "phase1", "phase2", "returned", "shutdown"}]
    /\ ctx \in [Calls -> {"live", "phaseTimeout", "done"}]
    /\ id \in [Calls -> ProposalID]
    /\ pending \in [Calls -> SUBSET Acceptors]
    /\ promises \in [Calls -> [Acceptors -> PromiseType]]
    /\ value \in [Calls -> NilOrValue]
    /\ accepted \in [Calls -> SUBSET Acceptors]
    /\ \A c \in Calls : pc[c] # "phase2" => accepted[c] = {}
    /\ votes \subseteq Vote

Init ==
    /\ NewAcceptor
    /\ round = [p \in Proposers |-> 0]
    /\ proposerDown = [p \in Proposers |-> FALSE]
    /\ pc = [c \in Calls |-> "start"]
    /\ ctx = [c \in Calls |-> "live"]
    /\ id = [c \in Calls |-> ZeroID]
    /\ pending = [c \in Calls |-> {}]
    /\ promises = [c \in Calls |-> [a \in Acceptors |-> NoReport]]
    /\ value = [c \in Calls |-> Nil]
    /\ accepted = [c \in Calls |-> {}]
    /\ votes = {}
-----------------------------------------------------------------------------
\* The strict majority of the acceptors proposer p knows.
QuorumSize(p) == Cardinality(AcceptorsOf[p]) \div 2 + 1

\* Fault: half of the acceptors will do.
FaultyHasQuorum(c, S) == Cardinality(S) >= QuorumSize(ProposerOf[c]) - 1

HasQuorum(c, S) == Cardinality(S) >= QuorumSize(ProposerOf[c])

Promisers(c) == {a \in Acceptors : promises[c][a].Accepted}

\* context.WithTimeout(ctx, 5s): a new phase has a context of its own, which is
\* done from the start when the caller's already is.
PhaseContext(c) == IF ctx[c] = "done" THEN "done" ELSE "live"

\* Fault: round++ is missing.
FaultyNextRound(p) == round[p]

NextRound(p) == round[p] + 1

\* propose: take the next round number of the Proposer and start phase 1.
StartRound(c) ==
    LET p == ProposerOf[c] IN
    /\ pc[c] = "start"
    /\ ~proposerDown[p]
    /\ round[p] < MaxRound[p]
    /\ round' = [round EXCEPT ![p] = NextRound(p)]
    /\ id' = [id EXCEPT ![c] = [Round |-> NextRound(p), Proposer |-> p]]
    /\ pc' = [pc EXCEPT ![c] = "phase1"]
    /\ pending' = [pending EXCEPT ![c] = AcceptorsOf[p]]
    /\ UNCHANGED <<acceptorVars, proposerDown, ctx, promises, value, accepted, votes>>

\* propose returns ErrShutdown, and Propose passes it on.
ReturnShutdown(c) ==
    /\ pc[c] = "start"
    /\ proposerDown[ProposerOf[c]]
    /\ pc' = [pc EXCEPT ![c] = "shutdown"]
    /\ UNCHANGED <<acceptorVars, proposerVars, ctx, id, pending, promises, value, accepted, votes>>

\* A phase 1 goroutine: call Prepare and, granted or rejected, send the Promise.
Prepare(c, a) ==
    /\ pc[c] = "phase1" /\ a \in pending[c] /\ ctx[c] = "live"
    /\ AcceptorPrepare(a, id[c])
    /\ promises' = IF Promises(a, id[c])
                     THEN [promises EXCEPT ![c][a] = Report(a)]
                     ELSE promises
    /\ pending' = [pending EXCEPT ![c] = @ \ {a}]
    /\ UNCHANGED <<proposerVars, pc, ctx, id, value, accepted, votes>>

\* A phase 2 goroutine: call Accept and send the result.
Accept(c, a) ==
    /\ pc[c] = "phase2" /\ a \in pending[c] /\ ctx[c] = "live"
    /\ AcceptorAccept(a, id[c], value[c])
    /\ IF Accepts(a, id[c])
         THEN /\ accepted' = [accepted EXCEPT ![c] = @ \cup {a}]
              /\ votes' = votes \cup {[acc |-> a, id |-> id[c], val |-> value[c]]}
         ELSE UNCHANGED <<accepted, votes>>
    /\ pending' = [pending EXCEPT ![c] = @ \ {a}]
    /\ UNCHANGED <<proposerVars, pc, ctx, id, promises, value>>

\* A goroutine of either phase whose acceptor is shut down, or whose context is
\* done when it gets the lock: an error, and nothing is sent.
Unanswered(c, a) ==
    /\ a \in pending[c]
    /\ down[a] \/ ctx[c] # "live"
    /\ pending' = [pending EXCEPT ![c] = @ \ {a}]
    /\ UNCHANGED <<acceptorVars, proposerVars, pc, ctx, id, promises, value, accepted, votes>>

\* Fault: phase 2 proposes the caller's own value, whatever was reported.
FaultyChosenValue(c, v) == v = CallValue[c]

\* The value phase 1 ends with.  The promises are read in arrival order and
\* compared by AcceptedID with the greatest so far; a greater one replaces the
\* value only if its own is not nil, so behind a nil the result depends on the order.
ChosenValue(c, v) ==
    LET reports == {promises[c][a] : a \in Promisers(c)}
        voted == {m \in reports : GreaterThan(m.AcceptedID, ZeroID)}
        top == {m \in voted : \A n \in voted : ~GreaterThan(n.AcceptedID, m.AcceptedID)}
    IN  \/ voted = {} /\ v = CallValue[c]
        \/ \E m \in top : m.Value # Nil /\ v = m.Value
        \/ /\ \E m \in top : m.Value = Nil
           /\ v = CallValue[c] \/ \E m \in voted : m.Value # Nil /\ v = m.Value

\* Phase 1 ends with a quorum of promises: phase 2 starts.
EndPhase1(c) ==
    /\ pc[c] = "phase1" /\ pending[c] = {}
    /\ HasQuorum(c, Promisers(c))
    /\ \E v \in NilOrValue : ChosenValue(c, v) /\ value' = [value EXCEPT ![c] = v]
    /\ pc' = [pc EXCEPT ![c] = "phase2"]
    /\ ctx' = [ctx EXCEPT ![c] = PhaseContext(c)]
    /\ pending' = [pending EXCEPT ![c] = AcceptorsOf[ProposerOf[c]]]
    /\ UNCHANGED <<acceptorVars, proposerVars, id, promises, accepted, votes>>

\* Fault: the acceptances of the round are kept for the next one.
FaultyForgetRound(c) ==
    /\ id' = [id EXCEPT ![c] = ZeroID]
    /\ promises' = [promises EXCEPT ![c] = [a \in Acceptors |-> NoReport]]
    /\ ctx' = [ctx EXCEPT ![c] = PhaseContext(c)]
    /\ UNCHANGED accepted

\* propose returns: its locals go out of scope, the phase's context with them.
ForgetRound(c) ==
    /\ id' = [id EXCEPT ![c] = ZeroID]
    /\ promises' = [promises EXCEPT ![c] = [a \in Acceptors |-> NoReport]]
    /\ accepted' = [accepted EXCEPT ![c] = {}]
    /\ ctx' = [ctx EXCEPT ![c] = PhaseContext(c)]

\* Phase 2 ends with a quorum of acceptances: Propose returns the value.
ReturnValue(c) ==
    /\ pc[c] = "phase2" /\ pending[c] = {}
    /\ HasQuorum(c, accepted[c])
    /\ pc' = [pc EXCEPT ![c] = "returned"]
    /\ ForgetRound(c)
    /\ UNCHANGED <<acceptorVars, proposerVars, pending, value, votes>>

\* A phase ends without a quorum: ErrNoQuorum, on which Propose loops.  The
\* test errors.Is(err, ctx.Err()) never holds of ErrNoQuorum, so it loops even
\* when the caller's context is done.
NoQuorum(c) ==
    /\ pending[c] = {}
    /\ \/ pc[c] = "phase1" /\ ~HasQuorum(c, Promisers(c))
       \/ pc[c] = "phase2" /\ ~HasQuorum(c, accepted[c])
    /\ pc' = [pc EXCEPT ![c] = "start"]
    /\ value' = [value EXCEPT ![c] = Nil]
    /\ ForgetRound(c)
    /\ UNCHANGED <<acceptorVars, proposerVars, pending, votes>>
-----------------------------------------------------------------------------
\* The phase's five seconds pass, or the caller's context ends.
Expire(c) ==
    /\ c \in MayExpire
    /\ \/ /\ pc[c] \in {"phase1", "phase2"} /\ ctx[c] = "live"
          /\ ctx' = [ctx EXCEPT ![c] = "phaseTimeout"]
       \/ /\ pc[c] \in {"start", "phase1", "phase2"} /\ ctx[c] # "done"
          /\ ctx' = [ctx EXCEPT ![c] = "done"]
    /\ UNCHANGED <<acceptorVars, proposerVars, pc, id, pending, promises, value, accepted, votes>>

ShutdownAcceptor(a) ==
    /\ a \in MayShutdown /\ ~down[a]
    /\ AcceptorShutdown(a)
    /\ UNCHANGED <<proposerVars, callVars, votes>>

ShutdownProposer(p) ==
    /\ p \in MayShutdown /\ ~proposerDown[p]
    /\ proposerDown' = [proposerDown EXCEPT ![p] = TRUE]
    /\ UNCHANGED <<acceptorVars, round, callVars, votes>>

CallStep(c) ==
    \/ StartRound(c) \/ ReturnShutdown(c)
    \/ EndPhase1(c) \/ ReturnValue(c) \/ NoQuorum(c)
    \/ \E a \in Acceptors : Prepare(c, a) \/ Accept(c, a) \/ Unanswered(c, a)

Next ==
    \/ \E c \in Calls : CallStep(c) \/ Expire(c)
    \/ \E a \in Acceptors : ShutdownAcceptor(a)
    \/ \E p \in Proposers : ShutdownProposer(p)

Spec == Init /\ [][Next]_vars

\* The Go scheduler runs every goroutine; shutdowns and timeouts need not happen.
FairSpec == Spec /\ \A c \in Calls : WF_vars(CallStep(c))
-----------------------------------------------------------------------------
\* The acceptors that accepted v under proposal i, of those its proposer counts.
Voters(i, v) ==
    {a \in AcceptorsOf[i.Proposer] : [acc |-> a, id |-> i, val |-> v] \in votes}

\* v is chosen: under one proposal, a quorum of its proposer's acceptors took it.
Chosen(v) ==
    \E w \in votes : w.val = v /\ Cardinality(Voters(w.id, v)) >= QuorumSize(w.id.Proposer)

ChosenValues == {v \in NilOrValue : Chosen(v)}

\* At most one value is ever chosen, whatever the proposers, rounds, timeouts
\* and shutdowns: the agreement Proposer.propose exists for (paxos.go:158).
Agreement == \A u, v \in NilOrValue : Chosen(u) /\ Chosen(v) => u = v

\* A Propose that returns a value returns the chosen one, so that all calls that
\* return agree, whatever each of them proposed (paxos.go:245).
ReturnedIsChosen == \A c \in Calls : pc[c] = "returned" => Chosen(value[c])

\* No two rounds in progress carry the same proposal ID, calls that share a
\* Proposer included: round++ happens under Proposer.mu (paxos.go:164).
ProposalsDistinct ==
    \A c, d \in Calls :
        pc[c] \in {"phase1", "phase2"} /\ id[c] = id[d] => c = d

\* As long as a round lasts, the report an acceptor made with its promise stays
\* the whole truth about lower proposals: the acceptor voted as reported and has
\* not voted between the report and the promised proposal (paxos.go:82, :112).
ReportsStayTrue ==
    \A c \in Calls : \A a \in Promisers(c) :
        LET m == promises[c][a] IN
        /\ m.AcceptedID = ZeroID \/ [acc |-> a, id |-> m.AcceptedID, val |-> m.Value] \in votes
        /\ \A w \in votes : w.acc = a /\ GreaterThan(id[c], w.id)
                               => ~GreaterThan(w.id, m.AcceptedID)

\* An acceptor never goes back: neither its promise nor its accepted proposal
\* decreases, and what it accepted it had promised (paxos.go:82, :112).
AcceptorNeverGoesBack ==
    [][\A a \in Acceptors :
         /\ ~GreaterThan(promisedID[a], promisedID'[a])
         /\ ~GreaterThan(acceptedID[a], acceptedID'[a])
         /\ ~GreaterThan(acceptedID'[a], promisedID'[a])]_vars

\* Propose retries its way out of a duel: a call that may start more rounds than
\* each of its rivals returns a value, though a minority of the acceptors is shut
\* down; only rivals that never stop can keep it looping (paxos.go:245).
PatientCallReturns ==
    \A c \in Calls :
        (\A d \in Calls \ {c} : MaxRound[ProposerOf[d]] < MaxRound[ProposerOf[c]])
            => <>(pc[c] = "returned")

\* The abstract specification: the chosen values behave as a consensus object.
Abstract == INSTANCE Consensus WITH chosen <- ChosenValues, Proposed <- {CallValue[c] : c \in Calls}

\* Paxos implements consensus: once a value is chosen it stays chosen and no
\* other value joins it, and only proposed values are chosen (paxos.go:158).
ImplementsConsensus == Abstract!Spec
=============================================================================
