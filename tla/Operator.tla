------------------------------ MODULE Operator --------------------------------
(***************************************************************************)
(* The controllers of src/operators on one cluster resource: Reconcile     *)
(* reads the resource, writes it, and creates or updates its StatefulSet,  *)
(* Services, ConfigMap and status, one API call per step.                  *)
(*                                                                         *)
(* Reads come from the manager's cache, which lags behind the API server.  *)
(* A write with an outdated object is a conflict, a Create of an existing  *)
(* object fails, and a write that changes nothing is not an event.  Every  *)
(* error ends Reconcile and puts the request back on the queue.  Around    *)
(* it users edit and delete, calls fail, pods come and go, the operator    *)
(* restarts, and Kubernetes deletes objects whose owner is gone.           *)
(*                                                                         *)
(* A size stands for spec.size, a setting for the other fields the         *)
(* ConfigMap copies.  Status.Leader (always pod 0), CurrentReplicas and    *)
(* the objects' other fields are left out.                                 *)
(***************************************************************************)
EXTENDS Integers, FiniteSets

CONSTANTS
    Variants,        \* the operators and the resource each is given first:
                     \* [kind, subresource, spec], see the variables
    Specs,           \* the specs a user asks for: [size, setting]
    MaxClusters,     \* bound: how often the resource is created
    MaxLag,          \* bound: the objects the cache is behind on at a time
    MaxDisturbances  \* bound: what users and failures do in all

Kinds == {"raft", "redlock"}

ASSUME OperatorAssumption ==
    /\ Specs \subseteq [size : Nat \ {0}, setting : Nat]
    /\ Variants \subseteq [kind : Kinds, subresource : BOOLEAN, spec : Specs]
    /\ MaxClusters \in Nat \ {0} /\ MaxLag \in Nat /\ MaxDisturbances \in Nat

Sizes == {spec.size : spec \in Specs}
Settings == {spec.setting : spec \in Specs}

VARIABLES
    kind,          \* whose controller this is
    subresource,   \* whether the resource has a status subresource
    api,           \* api[o]: object o on the API server, a set of at most one
    cache,         \* cache[o]: the same in the manager's cache
    stale,         \* the objects with a change the cache has not seen
    queue,         \* whether the work queue holds the request
    pc,            \* where Reconcile is
    mem,           \* Reconcile's variable cluster, none while it does not run
    fresh,         \* whether the resource is unchanged since mem was read
    created,       \* how often the resource was created: the last one's UID
    disturbances   \* how many disturbances there were

server == <<api, stale>>
variant == <<kind, subresource>>
control == <<queue, pc, mem, fresh>>
vars == <<variant, server, cache, control, created, disturbances>>

Children == {"sts", "headless", "client", "config"}
Objects == Children \cup {"cluster"}

Phases == {"None", "Creating", "Running", "Degraded"}
Cluster == [uid : 1..MaxClusters, spec : Specs, phase : Phases, ready : Nat]
StatefulSet == [owner : 1..MaxClusters, size : Sizes, ready : Nat]
Service == [owner : 1..MaxClusters]
ConfigMap == [owner : 1..MaxClusters, size : Sizes, setting : Settings]

TypeOf(o) ==
    CASE o = "cluster" -> Cluster
      [] o = "sts" -> StatefulSet
      [] o = "config" -> ConfigMap
      [] OTHER -> Service

TypeOK ==
    /\ kind \in Kinds /\ subresource \in BOOLEAN
    /\ api = [o \in Objects |-> api[o]] /\ cache = [o \in Objects |-> cache[o]]
    /\ \A o \in Objects : api[o] \subseteq TypeOf(o) /\ cache[o] \subseteq TypeOf(o)
    /\ \A o \in Objects : \A x, y \in api[o] : x = y
    /\ \A o \in Objects : \A x, y \in cache[o] : x = y
    /\ stale \subseteq Objects
    /\ queue \in BOOLEAN /\ fresh \in BOOLEAN
    /\ pc \in {"idle", "update"} \cup Children \cup {"status"}
    /\ mem \subseteq Cluster
    /\ created \in 1..MaxClusters
    /\ disturbances \in 0..MaxDisturbances

\* The one element of a set.
The(S) == CHOOSE x \in S : TRUE

NewCluster(uid, spec) == [uid |-> uid, spec |-> spec, phase |-> "None", ready |-> 0]

\* A user has created the resource; the operator has not seen it.
Init ==
    /\ \E v \in Variants :
         /\ kind = v.kind /\ subresource = v.subresource
         /\ api = [o \in Objects |-> IF o = "cluster" THEN {NewCluster(1, v.spec)} ELSE {}]
    /\ cache = [o \in Objects |-> {}]
    /\ stale = {"cluster"}
    /\ queue = FALSE
    /\ pc = "idle"
    /\ mem = {}
    /\ fresh = FALSE
    /\ created = 1
    /\ disturbances = 0
-----------------------------------------------------------------------------
Disturb == disturbances < MaxDisturbances /\ disturbances' = disturbances + 1

\* Object o becomes what S holds; if that is a change, the cache is behind.
Put(o, S) ==
    /\ api' = [api EXCEPT ![o] = S]
    /\ stale' = IF S = api[o] THEN stale ELSE stale \cup {o}
    /\ Cardinality(stale') <= MaxLag

\* Fault: the error is logged and nil returned.
FaultyRequeue == pc' = "idle" /\ mem' = {} /\ fresh' = FALSE /\ UNCHANGED queue

\* Reconcile returns an error.
Requeue == pc' = "idle" /\ mem' = {} /\ fresh' = FALSE /\ queue' = TRUE

\* Reconcile goes on with the cluster m, or returns nil.
GoOn(step, m) ==
    /\ pc' = step
    /\ IF step = "idle" THEN mem' = {} /\ fresh' = FALSE ELSE mem' = m /\ UNCHANGED fresh
    /\ UNCHANGED queue

\* A call that makes object o what S holds: it works if the server accepts it,
\* and may fail anyway, before or after the server has executed it.
Call(o, S, accepted, step, m) ==
    /\ \/ accepted /\ Put(o, S) /\ GoOn(step, m) /\ UNCHANGED disturbances
       \/ ~accepted /\ UNCHANGED <<server, disturbances>> /\ Requeue
       \/ ((accepted /\ Put(o, S)) \/ UNCHANGED server) /\ Disturb /\ Requeue
    /\ UNCHANGED <<variant, cache, created>>

Create(o, record, step) == Call(o, {record}, api[o] = {}, step, mem)

\* Fault: the resource version is not sent.
FaultyIsCurrent(o) == api[o] # {}

\* Whether the server still has the version of o that Reconcile has read.
IsCurrent(o) == api[o] # {} /\ (IF o = "cluster" THEN fresh ELSE o \notin stale)

Update(o, record, step, m) == Call(o, {record}, IsCurrent(o), step, m)

SetPhase(c, phase) == [c EXCEPT !.phase = phase]

\* The head of Reconcile: the request is taken and the cluster read.
Get ==
    /\ pc = "idle" /\ queue
    /\ queue' = FALSE
    /\ mem' = cache["cluster"]
    /\ IF mem' = {}
         THEN UNCHANGED <<pc, fresh>>
         ELSE pc' = "update" /\ fresh' = ("cluster" \notin stale)
    /\ UNCHANGED <<variant, server, cache, created, disturbances>>

\* Fault: the phase is sent to the subresource.
FaultyAfterUpdate(c) == SetPhase(c, "Creating")

\* What the server stores for an Update: with a subresource the status stays.
AfterUpdate(c) == IF subresource THEN c ELSE SetPhase(c, "Creating")

\* Reconcile sets the phase and sends the cluster.  The answer is decoded over it,
\* where a phase the server does not have leaves the one just set.
UpdateCluster ==
    LET c == The(mem)
        stored == AfterUpdate(c) IN
    /\ pc = "update"
    /\ Update("cluster", stored, "sts",
              {IF stored.phase = "None" THEN SetPhase(c, "Creating") ELSE stored})

\* Nothing to do: Reconcile goes on without a call.
Skip(step) == GoOn(step, mem) /\ UNCHANGED <<variant, server, cache, created, disturbances>>

NewStatefulSet(c) == [owner |-> c.uid, size |-> c.spec.size, ready |-> 0]

\* Create it, or bring the replicas to the spec; nothing else is ever updated.
ReconcileStatefulSet ==
    LET c == The(mem)
        s == The(cache["sts"]) IN
    /\ pc = "sts"
    /\ \/ cache["sts"] = {} /\ Create("sts", NewStatefulSet(c), "headless")
       \/ /\ cache["sts"] # {} /\ s.size # c.spec.size
          /\ Update("sts", [s EXCEPT !.size = c.spec.size], "headless", mem)
       \/ cache["sts"] # {} /\ s.size = c.spec.size /\ Skip("headless")

\* After creating a service reconcileService returns, so the Raft operator's client
\* service waits for the next Reconcile.
RaftService ==
    /\ kind = "raft" /\ pc \in {"headless", "client"}
    /\ IF cache[pc] = {}
         THEN Create(pc, [owner |-> The(mem).uid], "config")
         ELSE Skip(IF pc = "headless" THEN "client" ELSE "config")

RedlockService ==
    /\ kind = "redlock" /\ pc = "headless"
    /\ IF cache["headless"] = {}
         THEN Create("headless", [owner |-> The(mem).uid], "config")
         ELSE Skip("config")

NewConfigMap(c) == [owner |-> c.uid, size |-> c.spec.size, setting |-> c.spec.setting]

\* The Raft operator leaves an existing ConfigMap alone.
RaftConfigMap ==
    /\ kind = "raft" /\ pc = "config"
    /\ IF cache["config"] = {} THEN Create("config", NewConfigMap(The(mem)), "status") ELSE Skip("status")

\* The Redlock operator writes the settings every time, but not CLUSTER_SIZE.
RedlockConfigMap ==
    /\ kind = "redlock" /\ pc = "config"
    /\ IF cache["config"] = {}
         THEN Create("config", NewConfigMap(The(mem)), "status")
         ELSE Update("config", [The(cache["config"]) EXCEPT !.setting = The(mem).spec.setting], "status", mem)

\* The status for a number of ready replicas; the phase may stay what it was.
WithStatus(c, ready) ==
    [c EXCEPT !.ready = ready,
              !.phase = IF ready = c.spec.size THEN "Running"
                        ELSE IF 0 < ready /\ ready < c.spec.size THEN "Degraded" ELSE @]

\* Status().Update answers NotFound if the resource has no status subresource.
UpdateStatus ==
    /\ pc = "status"
    /\ IF cache["sts"] = {}
         THEN Requeue /\ UNCHANGED <<variant, server, cache, created, disturbances>>
         ELSE LET c == WithStatus(The(mem), The(cache["sts"]).ready) IN
              Call("cluster", {c}, subresource /\ IsCurrent("cluster"), "idle", {})

Reconcile ==
    \/ Get \/ UpdateCluster \/ ReconcileStatefulSet
    \/ RaftService \/ RedlockService \/ RaftConfigMap \/ RedlockConfigMap
    \/ UpdateStatus

\* Fault: the services are not watched.
FaultyOwns == {"sts", "config"}

\* SetupWithManager: whose events put the request on the queue.
Owns == Children

\* The cache sees the changes of object o.
Deliver(o) ==
    /\ o \in stale
    /\ stale' = stale \ {o}
    /\ cache' = [cache EXCEPT ![o] = api[o]]
    /\ queue' = (queue \/ o \in Owns \cup {"cluster"})
    /\ UNCHANGED <<variant, api, pc, mem, fresh, created, disturbances>>

\* The operator stops anywhere and starts again with a new cache.
Restart ==
    /\ Disturb
    /\ pc' = "idle" /\ mem' = {} /\ fresh' = FALSE
    /\ cache' = api /\ stale' = {}
    /\ queue' = \E o \in Owns \cup {"cluster"} : api[o] # {}
    /\ UNCHANGED <<variant, api, created>>
-----------------------------------------------------------------------------
\* A user creates, edits or deletes the resource.
CreateCluster ==
    /\ Disturb
    /\ api["cluster"] = {} /\ created < MaxClusters
    /\ created' = created + 1
    /\ \E spec \in Specs : Put("cluster", {NewCluster(created + 1, spec)})
    /\ UNCHANGED <<variant, cache, control>>

EditSpec ==
    /\ Disturb
    /\ \E c \in api["cluster"], spec \in Specs : spec # c.spec /\ Put("cluster", {[c EXCEPT !.spec = spec]})
    /\ fresh' = FALSE
    /\ UNCHANGED <<variant, cache, queue, pc, mem, created>>

DeleteCluster ==
    /\ Disturb
    /\ api["cluster"] # {} /\ Put("cluster", {})
    /\ fresh' = FALSE
    /\ UNCHANGED <<variant, cache, queue, pc, mem, created>>

\* Somebody deletes a child or scales the StatefulSet by hand.
Meddle ==
    /\ Disturb
    /\ \/ \E o \in Children : api[o] # {} /\ Put(o, {})
       \/ \E s \in api["sts"], size \in Sizes : size # s.size /\ Put("sts", {[s EXCEPT !.size = size]})
    /\ UNCHANGED <<variant, cache, control, created>>

\* A pod starts or is removed, until there are as many as the StatefulSet wants.
ScalePods ==
    /\ \E s \in api["sts"] :
         /\ s.ready # s.size
         /\ Put("sts", {[s EXCEPT !.ready = IF @ < s.size THEN @ + 1 ELSE @ - 1]})
    /\ UNCHANGED <<variant, cache, control, created, disturbances>>

PodFails ==
    /\ Disturb
    /\ \E s \in api["sts"] : s.ready > 0 /\ Put("sts", {[s EXCEPT !.ready = @ - 1]})
    /\ UNCHANGED <<variant, cache, control, created>>

\* Fault: the client service is created without an owner reference.
FaultyOwnerReferences == Children \ {"client"}

\* The objects created with an owner reference.
OwnerReferences == Children

\* Kubernetes deletes an object whose owner is gone.
CollectGarbage(o) ==
    /\ \E r \in api[o] : r.owner \notin {c.uid : c \in api["cluster"]}
    /\ Put(o, {})
    /\ UNCHANGED <<variant, cache, control, created, disturbances>>

Next ==
    \/ Reconcile \/ Restart
    \/ \E o \in Objects : Deliver(o)
    \/ CreateCluster \/ EditSpec \/ DeleteCluster \/ Meddle
    \/ ScalePods \/ PodFails
    \/ \E o \in OwnerReferences : CollectGarbage(o)

\* The operator, the cache and Kubernetes keep working.
Fairness ==
    /\ WF_vars(Reconcile)
    /\ \A o \in Objects : WF_vars(Deliver(o))
    /\ WF_vars(ScalePods)
    /\ WF_vars(\E o \in OwnerReferences : CollectGarbage(o))

Spec == Init /\ [][Next]_vars /\ Fairness
-----------------------------------------------------------------------------
IsReady(c) == c.phase = "Running" /\ c.ready = c.spec.size

\* A cluster becomes Running only with as many ready replicas as its spec asks for
\* at that moment, however long ago Reconcile has read it.
RunningMatchesSpec ==
    [][\A b \in api["cluster"], c \in api'["cluster"] :
         b.phase # "Running" /\ c.phase = "Running" => c.ready = c.spec.size]_vars

\* What the operator makes of a resource: a StatefulSet of its size, its services
\* and its ConfigMap, which has the Redlock operator's settings.
Follows(c) ==
    /\ \E s \in api["sts"] : s.size = c.spec.size
    /\ api["headless"] # {} /\ (kind = "raft" => api["client"] # {})
    /\ \E m \in api["config"] : kind = "redlock" => m.setting = c.spec.setting

\* Once nothing disturbs it, the operator gets the objects to the spec, whatever
\* was half done (docs/architecture.md:422: self-healing).
ObjectsFollowSpec == <>[](\A c \in api["cluster"] : Follows(c))

\* ... and, with a status subresource, the status says that the cluster is ready.
BecomesReady == <>[](\A c \in api["cluster"] : subresource => IsReady(c))

\* ... and the operator has nothing more to do: its own writes do not keep it busy.
ComesToRest == subresource => <>[](pc = "idle" /\ ~queue)

\* In the end there is no object of a resource that was deleted, not even when one
\* of the same name has been created since.
CleanUp == <>[](\A o \in Children : \A r \in api[o] : r.owner \in {c.uid : c \in api["cluster"]})
=============================================================================
