# Verification of the lock and consensus packages

TLA+ models of the Go code under `src/pkg`, `src/go` and `src/operators`, the TLC runs that check
them on small instances, and TLAPS proofs. `PROJECT.json` maps every definition to
the source lines it stands for, lists the hazards and the mutants every property is
shown to catch.

    tlc -config Paxos_calls.cfg MCPaxos      # a run
    tlapm Paxos_proofs.tla                   # the proofs of a component

## The system

| part | state | operations | interacts by |
|---|---|---|---|
| Paxos acceptor (`pkg/paxos`) | promisedID, acceptedID, acceptedVal, shutdown, under `mu` | Prepare, Accept, State, Shutdown | method calls from proposers' goroutines and learners |
| Paxos proposer | round, shutdown, under `mu`; locals of each Propose | Propose (loop over `propose`), Shutdown | a goroutine per acceptor and phase, results over a channel closed by `wg.Wait` |
| Paxos learner | chosen, chosenValue, listeners, under an RWMutex | Learn (100 ms poll), Subscribe, Shutdown | reads `Acceptor.State`, sends on the listeners' channels |
| Paxos node | one of each | constructor and forwards | builds the acceptor lists |
| Raft node (`pkg/raft`) | currentTerm, votedFor, role, log, electionTimer, stopChan | run() as follower, candidate, leader; RequestVote, AppendEntries; Stop | RPC goroutines, handlers called by peers, timers |
| Redlock (`pkg/redlock`) | `mu`; lock and token counter in every Redis instance | Lock (INCR, tryAcquire, forceRelease), Unlock | Redis commands and Lua scripts, one at a time |
| Fencing writer (`pkg/fencing`) | fence and data in a store | Write, Read | GET and two SETs without a lock |
| Storage adapter (`pkg/storage`) | none | forwards | go-redis |
| Lease lock (`pkg/leaselock`) | owner, expireAt, waiters, under `mu` | Lock, TryLock, Unlock, Renew, reads | channels of waiters, the clock |
| Lease lock manager | locks, under its `mu` | GetLock, ReleaseLock, CleanupExpired | calls lock methods with its own mutex held |
| Demo client (`go/redlock.go`) | token and lock keys in Redis | Lock, Unlock, WriteWithFencing | a goroutine per instance |
| Raft and Redlock operators (`operators/*/controllers`) | none of their own: the resource, its StatefulSet, Services, ConfigMap and status on the API server; a cache and a work queue in the controller manager | Reconcile: reconcileStatefulSet, reconcileService, reconcileConfigMap, updateStatus | API calls with resource versions, watch events, user edits, the garbage collector |
| `cmd/tla-gen`, `go/main.go`, `models/`, manifests, CI, docs | none | templates, a demo, text | - |

What is hard, and what makes each part correct:

* **Paxos.** Rounds of several proposers interleave over the acceptors, phases time
  out half-way, calls share a round counter, acceptors stop. One value is chosen at
  most; Propose returns it; a call that can outbid its rivals returns. Learners read
  the acceptors one at a time while this goes on.
* **Raft.** The run loop, RPC goroutines and handlers share a node's record and each
  re-locks it; a candidate counts votes in a term that may be over; timers captured
  by a `select` are replaced. One vote per term, a majority behind every leader,
  terms that never fall, loops that end.
* **Redlock.** Two Redlock objects work through the instances at the same time,
  commands fail before or after they are executed, locks expire. Holders exclude each
  other unless a lock was deleted or expired, tokens are not given twice, nothing is
  left behind.
* **Fencing.** Writers pause anywhere and fail between the SETs. The data never goes
  back, a late writer is turned away.
* **Lease lock.** Re-entrant locking, the manager's mutex around a lock's mutex,
  leases that end while calls wait.
* **Demo client.** As Redlock, with tokens chosen by reading them and shared between
  clients, so that a client's cleanup deletes another's lock.
* **Lock and fence together.** A client may lose its lock without notice and still
  write; tokens come from a counter that a cleanup deletes. The lock keeps writes from
  racing as long as it is held, the fence keeps late ones out.
* **Operators.** A sequence of API calls that may stop anywhere, computed from a cache
  that lags, beside users who edit the same objects. The objects end up as the spec
  asks, the status tells the truth, and the operator's own writes do not keep it busy.

## Modules

| module | models | state and actions |
|---|---|---|
| `PaxosAcceptor` | Acceptor | the four fields as functions of the acceptor; Prepare, Accept, Shutdown as operators the composing modules use |
| `Paxos` | Proposer over PaxosAcceptor | a process per Propose call; StartRound, a Prepare or Accept per goroutine, EndPhase1, ReturnValue, NoQuorum, Expire, shutdowns. `votes` is history: who accepted what |
| `Consensus` | - | the abstract specification: a set of chosen values that is empty or has one proposed member |
| `PaxosInvariant` | - | the inductive invariant, checked by TLC and proved |
| `PaxosLearner` | Learner beside Paxos | Learn call by call and acceptor by acceptor, Subscribe, Receive, ShutdownLearner; a send on a closed channel ends the program |
| `Raft` | raft.Node | `loop` is where run() stands, `timer` the timer it waits on, `calls` the RPC goroutines; `ballot`, `votes`, `awaited` the locals of runCandidate; `grants` is history |
| `Redlock` | Redlock over Redis | a process per client; a Redis command or script is one step and `at` the instance it goes to. `lost`, `resets`, `granted` are history |
| `RedlockClient` | RedlockClient | the same with commands to all instances at once (`todo`) |
| `Fencing` | fencing.Writer | GetFence, FirstSet, SecondSet; the data of a write stands for its token. `written`, `before`, `raced` are history |
| `RedlockFencing` | what `WithFencingWriter` joins | Redlock and an instance of Fencing whose holders are the pairs of client and token. A step of Write needs the lock, a step of the lock leaves the fence alone; one failure bound for both. `slipped` is history |
| `LeaseLock` | LeaseLock and its manager, for one id | a call is one step unless it blocks; `mu` and `managerMu` are held across steps only by calls that block |
| `Operator` | the controllers of both operators, for one resource | one API call per step: Get, UpdateCluster, ReconcileStatefulSet, the services, the ConfigMaps, UpdateStatus; around them Deliver (cache and events), Restart, users (CreateCluster, EditSpec, DeleteCluster, Meddle), pods (ScalePods, PodFails), CollectGarbage |
| `Paxos_proofs`, `PaxosLearner_proofs`, `RedlockFencing_proofs`, `RedlockClient_proofs`, `Fencing_proofs`, `Raft_proofs`, `LeaseLock_proofs`, `Operator_proofs` | - | the theorems |
| `MC...` | - | constants for TLC |

A mutex-protected section is one step; a section ends where the code unlocks, waits,
or calls another process. A Redis command or Lua script is one step, because Redis
executes it atomically. A command or RPC that fails may have been executed or not.
In `Operator` a step is one API call with the local code before it; `api` and `cache`
hold each object as a set of at most one record, and a resource version is not a number
but the question whether the server still has what was read (`IsCurrent`). The two
operators differ in their services and ConfigMaps, and `kind` says whose actions run.
Operators named `Faulty...` (and `Decremented`) are the mutants of the definitions
that follow them.

## Runs

| run | what it shows | bounds, and why they are enough |
|---|---|---|
| `paxos_calls` | Agreement, ReturnedIsChosen, ProposalsDistinct, ReportsStayTrue, AcceptorNeverGoesBack, the inductive invariant, and the refinement of Consensus | 3 acceptors, 3 calls, two on one Proposer, 2 rounds per Proposer, no timeouts: each call can be outbid after its promises, after some and after all of its acceptances, and comes back in a later round. (The same instance with timeouts of one call has 1.4 million states and passes too; it is too slow for the list, and the theorems hold for any MayExpire) |
| `paxos_progress` | with timeouts and cancellation of one call, shutdown of an acceptor and a proposer: the call that may start more rounds returns | rounds 2 and 1: one duel lost and one won. The round bound is what ends the rival; without one, two proposers may outbid each other for ever |
| `learner` | a learned value was accepted by a majority; a subscriber has that value in its channel or has received it; once a value is chosen every Learn that is not cancelled returns, and one whose scans are all ahead by then returns the chosen value | 2 acceptors, 2 Learn calls, 1 subscriber, 3 rounds in all, cancellation and shutdown: the two calls meet at both locks. With 2 acceptors both must accept, so only one value is ever accepted by a majority; what happens when there are two is in the theorems `ListenersServed` and `LateLearnIsRight` and in `learner_ballots` |
| `learner_ballots` | **violated**: Learn and Propose may return different values | 3 acceptors, 2 rounds per proposer, an acceptor that stops |
| `redlock_fencing` | of Redlock: two holders at once are always the work of a deletion or expiry; tokens repeat only after a cleanup reset the counter; no lock outlives its call until a command fails; Unlock deletes the caller's lock only. Of the fence: until two writes race it covers the data, turns late writes away, lets a token write once. Of both: writes race only when a holder has lost a key, and the holder is refused only for a cause the property names | 3 instances, 2 clients with an object each, 3 Lock calls in all, one failing command or SET, expiry on one instance, one Write per token: quorums overlap in one instance, so one is all exclusion hangs on; a second Lock sees what the first left, a third what the cleanup of the second did |
| `redlock_mutex` | **violated**: mutual exclusion, without failures or expiry | 1 object, 2 clients, up to 3 Lock calls |
| `client_exclusion` | exclusion and release for the demo client; nobody passes its fencing test behind a holder with a larger token that was there before, unless a late SET has lowered a counter | 2 clients, a Lock each, one failure, expiry on two instances |
| `raft_election` | one vote per term, majorities, terms never fall, two leaders of a term only by late votes | 3 nodes; n1 runs for term 1, n2 for terms 1 and 2, one heartbeat under way, any call fails or is late |
| `raft_live` | a candidate waits for ever only if a handler has stopped its timer and the peers it still waits for never return its calls; Stop ends run() in every role | 3 nodes, two candidates of term 1, Stop of one at any time; any call may fail, and any may never be answered. A candidate that does wait for ever is among the behaviours |
| `raft_dual` | **violated**: one leader per term | 3 nodes, 2 terms |
| `lease_calls` | one live grant, exact waiters, the manager blocks only behind a taken lock | 3 goroutines, 2 objects, every order of calls |
| `operator` | whatever was half done, failed, edited or deleted, the objects come to follow the spec, the status comes to say ready, a deleted resource leaves nothing behind, and the operator comes to rest; Running is never set against the spec of the moment | the Raft operator on a resource with a status subresource that starts with 2 replicas, the Redlock operator on one without that starts with 1; 2 specs to change between, 2 creations, 2 disturbances at any time, the cache behind on 2 objects: an edit or a failure meets every step of Reconcile and the recovery from another |

Deadlock checking is off everywhere: bounded calls, the blocked goroutines of the code
in `lease_calls`, and an operator with nothing to do really stop. Symmetry is used only in runs without liveness
properties. Every bound is a constant (MaxRound, MaxLocks, MaxFaults, MaxWrites,
MaxToken, MaxTerm, MaxBeats, MaxClusters, MaxLag, MaxDisturbances, MayExpire,
MayShutdown, MayStop).

**Fairness.** `Paxos!FairSpec`, `LearnerFairSpec` and `Raft!FairSpec` ask that a
goroutine that can run does, that tickers tick and that a running election timer fires
(at the bound a follower's does not). The Go scheduler and runtime give no less. Nothing
is assumed of failures, timeouts, cancellation, Stop or Shutdown, nor of subscribers, nor
of Raft's calls: a Peer is called with context.Background() and may never return
(raft.go:166). A candidate whose timer a handler has stopped may then wait for ever;
`CandidateMovesOn` says that this is the only way. `Operator!Spec` asks
that Reconcile goes on while there is a request or a call under way (controller-runtime's
workers, which put a request back when Reconcile returns an error), that every change
reaches the cache, that the StatefulSet controller starts and removes pods, and that the
garbage collector runs. What users do and what fails is a disturbance, never fair, and
bounded: "comes to" means once they stop.

## What disagrees with the documentation

Three disagreements are runs: `learner_ballots`, `redlock_mutex`, `raft_dual`; the
`findings` quote the lines. The models show more, which no run of this list checks:

* Fencing: the test and the SETs are separate, so two overlapping writes can put the
  older token's fence and data over the newer ones; a holder that is still older then
  passes. The passing properties say "until two writes race".
* Redlock: the cleanup of a failed Lock deletes the token counter too, so tokens
  repeat; and the client that counted first may be granted last.
* Demo client: two clients may compute one token, and a late SET sets it back.
* Raft: votes are compared with half of the *peers*, so in a cluster of four two votes
  elect; a follower that has voted or taken a heartbeat waits on a stopped timer; a
  leader that has stepped down stays in runLeader; a candidate stays one when its own
  term's leader calls.
* Lease lock: Unlock and Renew of a taken lock re-lock the mutex they hold and never
  return, and ReleaseLock blocks the manager with them. CleanupExpired drops a lock
  that was handed out and not yet taken.
* Fencing under Redlock: the rightful holder may be refused, when one that counted later
  was granted first, when somebody lost a key, or when a cleanup reset the counter.
* Operators: the manifests under `deployments/kubernetes` give the resources no status
  subresource, so Status().Update is answered NotFound, the phase stays Creating and
  the request is retried for ever; the Go markers ask for one. With one, Running stays
  when no replica is ready, and becomes true at once for a new resource whose
  predecessor's StatefulSet is still in the cache. CLUSTER_SIZE, and all of the Raft
  operator's settings, stay what they were when the ConfigMap was created. The leader
  reported is always pod 0. The Raft operator's API types have no DeepCopyObject, so
  it does not build as it is.
* Paxos: a nil proposal breaks agreement; nodes built by NewPaxosNode one after the
  other have different acceptor lists.

## Proofs

TLC checks the instances above, TLAPS the following for every value of the constants.
The only assumptions on constants are the named ASSUMEs of the modules.

**Paxos_proofs.** `TypeCorrect` and `NeverGoesBack` need nothing more. `InvariantHolds`,
`AgreementHolds`, `ReturnedHolds`, `ReportsHold`, `DistinctHolds` and `RefinesConsensus`
assume `CommonAcceptors` (all proposers were given the same acceptors) and
`NoNilProposed`; both can fail in the code, and agreement fails with them. Agreement
is not inductive: a majority for a second value must be excluded before it forms. The
invariant `IInv` does so in layers: IDs are those of started rounds (IDsStarted) and
differ (ProposalsDistinct); registers cover the votes cast (RegistersCoverVotes); one
proposal has one value (OneValuePerProposal); what calls count has happened
(CountsAreReal); a promise's report stays the whole truth about lower proposals
(ReportsStayTrue); and whatever is proposed is safe: under every lower proposal some
majority can no longer choose anything else (ProposedIsSafe). The proof has one step
per action; phase 1's choice of the value is the one that makes ProposedIsSafe hold
for a new proposal. Two majorities of the same acceptors meet, which gives Agreement,
and with it each step of Paxos is a step or a stutter of Consensus. Votes above a
majority's follow it, so the acceptors that chose a value hold it for good
(`ChosenStaysHeld`): it is there for each scan of Learn that begins later.

**PaxosLearner_proofs.** `LearnerImplementsPaxos`: the learner leaves the variables of
Paxos alone, so the theorems above hold beside it. `LearnedByMajority` needs neither
`CommonAcceptors` nor `NoNilProposed`, but `DistinctAcceptors`: the learner's list has no
acceptor twice. Learn counts answers, not acceptors; NewPaxosNode appends a new acceptor
to the list it is given (paxos.go:369) and the callers of NewLearner fill theirs with new
ones. `LearnedInv` adds that every value a scan has read is one its acceptor has a vote
for (from RegistersCoverVotes): reading takes several steps, and votes only become more.
Positions counted map one to one to acceptors, so as many have voted. That they voted in
one proposal does not follow, and fails (`learner_ballots`). What does hold for a learner
that polls exactly the proposers' acceptors is `LateLearnIsRight`: a call of Learn whose
scans are all ahead when a value has been chosen returns that value. A call at the write
lock does so even if an earlier scan took another for chosen: the invariant `WillLearn`
follows it, the majority that took the value still holds it when asked (`VotersHold`), so
the scan counts it, and two majorities of answers do not fit into one scan
(`HeardIsCounted`). If nothing has been learned and nobody scans, `AllWillLearn` follows
all calls at once: whoever learns first learns the value, and a call that finds chosen set
returns what was remembered without a scan. That is also how a wrong one spreads.
`ListenersServed`: a listener is added with the value if there is one, and a send finds its
buffer empty or is dropped. What is in the buffer then was sent before, and need not be the
value that is dropped: a second scan may have learned another. So the subscriber has the
value learned, or was told one that another Learn has returned; `ListenerInv` adds that
subscribers are told only what calls of Learn have returned (`ToldIsReturned`).

**Fencing_proofs.** `FInv` strengthens the properties: finished writes and those that
had finished when a call began are covered by the fence, a holder past the test is
ahead of it and after its first SET equal to it, and its token has not written.
Together they are inductive until a SET comes between another's GET and last SET.

**Raft_proofs.** `TypeCorrect`, `TermsOnlyGrow` and `VotesOnce`, for any number of
nodes. That a node votes once in a term is not inductive: `VoteInv` adds that recorded
votes are of terms their voters have reached, and that the vote of the voter's current
term is still in votedFor or has been overwritten by the node's own candidacy
(becomeCandidate writes votedFor before the term goes up). As nobody calls itself, that
overwriting gives nobody a second vote. `LeadersAreElected` rests on `MajorityInv`: an
answer that grants a vote is of a vote on record, for the term of the request; the votes
runCandidate has counted are no more than those of the peers it has heard in its candidacy
(the count changes by one answer, and each call is answered once); and a leader does not
come back to a candidacy without a new ballot. With VotesOnce and two majorities of an odd
cluster, two leaders elected in one term are one (`DualLeadersAreLate`): what is left for
the dual leader of `raft_dual` is a candidate whose term went on after its requests.

**RedlockFencing_proofs**, the lock alone. `ExclusionHolds` rests on `ExclusionInv`: whoever counted an instance
still has its key there or has lost it since, and a quorum meets every other; `NoReuse` on
`TokenInv`: until a reset the first instance's counter is at least every token in use or
granted, and each is at one client; `UnlockSpares` follows from it, as a key is deleted
by its token; `KeysHaveOwners` on `OwnerInv`: until a command fails a key has the token of a call
that is acquiring or holding, or has the instance still to release.

**RedlockFencing_proofs**, the two together. `RefinesRedlock` and `RefinesFencing`: every step of the
composition is a step of one part and leaves the other's variables alone. The four
properties of the fence and those of Redlock carry over through them. `BothInv` adds what
only the two together have: who writes holds the lock with the token he writes with, and
until a key is lost or the counter reset the last grant is the holder's and the fence is
the token of a grant. Two writers at once are two holders, so one has lost a key
(`RacesNeedLostLocks`); a fence above the holder's token is then an earlier grant's
(`RefusalsHaveCauses`).

**RedlockClient_proofs.** The demo client reads the token keys and then sets them in
another step, so two calls may have one token, and a key may be deleted by another's
cleanup. `ClientExclusion` rests on `ExclusionInv`: the lock of whoever counted an
instance is there, alone, or was lost since. `ClientFence` rests on `FenceInv`: until a
late SET lowers a counter, an instance counted stores the holder's token or a larger one
(`TokensPublished`), and a client overtaken before its fencing test has met an error or
the larger token, or has an instance to read that stores one (`OvertakenNotice`). Two
quorums meet, so there always is one. `ClientOwners` rests on `OwnerInv`: a lock stores
the token of a call that has still to delete it there.

**LeaseLock_proofs.** `WaitersWait` is inductive with the types. `OneGrant` adds that a
live lease has at most one grant, which ends with it; `ManagerStuck` that a mutex which is
not given back is that of a lock with an owner (`HeldHasOwner`), which it never loses.

**Operator_proofs.** `OperatorTypeCorrect` and `RunningMatches`, for any specs and bounds.
`OpInv` says that the cache is right about every object it is not behind on
(`CacheKnows`), that Reconcile has a cluster just while it runs, and that while the
resource's version is the one Reconcile has read, the cluster on the server is that copy
but for the phase Reconcile set itself (`FreshIsCurrent`). A status write is accepted only
then, so the size it was computed from is the size of that moment.

**Only model-checked**: the liveness properties PatientCallReturns, ChosenIsLearned,
CandidateMovesOn, StopReturns, ObjectsFollowSpec, BecomesReady, ComesToRest and CleanUp.
They need fairness and ENABLED, which the prover does not have. Every invariant and action
property of a passing run is the subject of a theorem.

## Not modelled

* Learner: a second Shutdown. Fencing: `Read`, which changes nothing and promises
  nothing. Raft: the log, which no code appends to; a restart, which no code does;
  how many heartbeat goroutines of earlier leaderships are still running.
* Redis itself, go-redis, the clock: a command is executed at once or not at all, PX
  may run out at any moment.
* Lease lock statistics and read-only methods; what Unlock and Renew would do after
  the second lock of their mutex.
* Operators: two of them at once (their manifests run one replica; leader election is off
  by default), the contents of pods and services, the deletion of the owner while an
  object of its own is being created by somebody else. The operators' `main.go` only
  starts the manager.
* `cmd/tla-gen` (templates), `go/main.go` (a demo with fixed sleeps), the repository's own
  models, manifests, CI and documents keep no state.
* WithLeaseLock and WithLeaseLockRenew are callers of Lock, Renew and Unlock, which the
  model lets any goroutine call at any time.

Hazards without a property, and why: a nil value in phase 1 (paxos.go:199) and acceptor
lists that differ (paxos.go:366) are assumed away by name in the proofs, since agreement
fails with them; a lock dropped by CleanupExpired before it is taken (leaselock.go:266)
and the Raft operator's ConfigMap (raftcluster_controller.go:254) leave nothing that holds
and could be stated; that a Learn which finishes after Shutdown sends on a closed channel
(paxos.go:354) is an outcome of the model, and nothing in the repository excludes it.

## Plan

1. Done: Paxos, the learner, Redlock, Fencing, their composition, the demo client, Raft,
   the lease locks and the operators, each with its runs, and proofs of all their safety
   properties.
2. Left: an abstract lock that Redlock implements until a key is lost.
