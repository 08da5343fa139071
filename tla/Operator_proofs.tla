--------------------------- MODULE Operator_proofs ---------------------------
(***************************************************************************)
(* What a step of the operator or of its surroundings may never do, for    *)
(* any specs and any number of clusters, disturbances and unseen changes.  *)
(***************************************************************************)
EXTENDS Operator, TLAPS

Places == {"idle", "update"} \cup Children \cup {"status"}

\* The cache is right about what is not stale.
CacheKnows == \A o \in Objects : o \in stale \/ cache[o] = api[o]

\* Reconcile has a cluster just while it runs.
HasCluster == pc = "idle" <=> mem = {}

\* A fresh cluster is the one on the server, but for the phase Reconcile has set; it
\* does not make a cluster Running.
FreshIsCurrent ==
    fresh =>
        \E b \in api["cluster"], m \in mem :
            /\ pc = "update" => m = b
            /\ m.phase = "Running" => b.phase = "Running"

OpInv == TypeOK /\ CacheKnows /\ HasCluster /\ (\A x, y \in mem : x = y) /\ FreshIsCurrent
-----------------------------------------------------------------------------
LEMMA ObjectTypes ==
    /\ TypeOf("cluster") = Cluster /\ TypeOf("sts") = StatefulSet /\ TypeOf("config") = ConfigMap
    /\ TypeOf("headless") = Service /\ TypeOf("client") = Service
    /\ "cluster" \in Objects /\ Children \subseteq Objects /\ "cluster" \notin Children
    /\ {"sts", "config", "headless", "client"} = Children
BY DEF TypeOf, Objects, Children

LEMMA TheIsIn == \A S : S # {} => The(S) \in S
BY DEF The

LEMMA SpecTypes ==
    \A spec \in Specs : /\ spec.size \in Sizes /\ spec.setting \in Settings
                        /\ spec.size \in Nat /\ spec.size > 0
BY OperatorAssumption DEF Sizes, Settings

\* What a write of one object leaves true of the server and the cache.
LEMMA PutKeeps ==
    ASSUME TypeOK, CacheKnows, NEW o \in Objects, NEW S \in SUBSET TypeOf(o), \A x, y \in S : x = y,
           Put(o, S), UNCHANGED cache
    PROVE  /\ api' = [p \in Objects |-> api'[p]] /\ cache' = [p \in Objects |-> cache'[p]]
           /\ \A p \in Objects : api'[p] \subseteq TypeOf(p) /\ cache'[p] \subseteq TypeOf(p)
           /\ \A p \in Objects : \A x, y \in api'[p] : x = y
           /\ \A p \in Objects : \A x, y \in cache'[p] : x = y
           /\ stale' \subseteq Objects
           /\ CacheKnows'
           /\ api'[o] = S /\ \A p \in Objects \ {o} : api'[p] = api[p]
<1>1. api = [p \in Objects |-> api[p]] /\ cache = [p \in Objects |-> cache[p]]
    BY DEF TypeOK
<1>3. api' = [api EXCEPT ![o] = S] /\ stale' = IF S = api[o] THEN stale ELSE stale \cup {o}
    BY DEF Put
<1>4. api'[o] = S /\ \A p \in Objects \ {o} : api'[p] = api[p]
    BY <1>1, <1>3
<1>5. api' = [p \in Objects |-> api'[p]] /\ cache' = [p \in Objects |-> cache'[p]]
    BY <1>1, <1>3
<1>6. \A p \in Objects : api'[p] \subseteq TypeOf(p) /\ cache'[p] \subseteq TypeOf(p)
    BY <1>4 DEF TypeOK
<1>7. \A p \in Objects : \A x, y \in api'[p] : x = y
    BY <1>4 DEF TypeOK
<1>8. stale' \subseteq Objects
    BY <1>3 DEF TypeOK
<1>9. CacheKnows'
    BY <1>3, <1>4 DEF CacheKnows
<1> QED BY <1>4, <1>5, <1>6, <1>7, <1>8, <1>9 DEF TypeOK

LEMMA OpInvInit == Init => OpInv
<1> SUFFICES ASSUME Init PROVE OpInv
    OBVIOUS
<1>1. PICK v \in Variants :
        /\ kind = v.kind /\ subresource = v.subresource
        /\ api = [o \in Objects |-> IF o = "cluster" THEN {NewCluster(1, v.spec)} ELSE {}]
    BY DEF Init
<1>2. v.kind \in Kinds /\ v.subresource \in BOOLEAN /\ v.spec \in Specs
    BY OperatorAssumption
<1>3. NewCluster(1, v.spec) \in Cluster
    BY <1>2, OperatorAssumption DEF NewCluster, Cluster, Phases
<1>4. \A o \in Objects : api[o] \subseteq TypeOf(o) /\ cache[o] = {} /\ \A x, y \in api[o] : x = y
    BY <1>1, <1>3, ObjectTypes DEF Init
<1>5. api = [p \in Objects |-> api[p]] /\ cache = [p \in Objects |-> cache[p]]
    BY <1>1 DEF Init
<1>6. TypeOK
    <2>1. kind \in Kinds /\ subresource \in BOOLEAN
        BY <1>1, <1>2
    <2>2. queue \in BOOLEAN /\ fresh \in BOOLEAN
        BY DEF Init
    <2>3. created \in 1..MaxClusters /\ disturbances \in 0..MaxDisturbances
        BY OperatorAssumption DEF Init
    <2>4. stale \subseteq Objects /\ mem \subseteq Cluster /\ pc \in {"idle", "update"} \cup Children \cup {"status"}
        BY ObjectTypes DEF Init
    <2> QED BY <1>4, <1>5, <2>1, <2>2, <2>3, <2>4 DEF TypeOK
<1>7. CacheKnows
    BY <1>1, <1>4 DEF Init, CacheKnows
<1> QED BY <1>6, <1>7 DEF Init, OpInv, HasCluster, FreshIsCurrent

\* A step whose write, if any, is of an object it may write, and after which Reconcile
\* has a cluster or does not run.
StateTypes == /\ api = [p \in Objects |-> api[p]] /\ cache = [p \in Objects |-> cache[p]]
              /\ \A p \in Objects : api[p] \subseteq TypeOf(p) /\ cache[p] \subseteq TypeOf(p)
              /\ \A p \in Objects : \A x, y \in api[p] : x = y
              /\ \A p \in Objects : \A x, y \in cache[p] : x = y
              /\ stale \subseteq Objects
              /\ CacheKnows

ReconcileTypes == /\ pc \in Places /\ mem \in SUBSET Cluster /\ (\A x, y \in mem : x = y)
                  /\ HasCluster

OtherTypes == /\ kind \in Kinds /\ subresource \in BOOLEAN
              /\ queue \in BOOLEAN /\ fresh \in BOOLEAN
              /\ created \in 1..MaxClusters /\ disturbances \in 0..MaxDisturbances

LEMMA Parts == OpInv <=> StateTypes /\ ReconcileTypes /\ OtherTypes /\ FreshIsCurrent
BY DEF OpInv, TypeOK, StateTypes, ReconcileTypes, OtherTypes, Places

LEMMA PartsAfter == OpInv' <=> StateTypes' /\ ReconcileTypes' /\ OtherTypes' /\ FreshIsCurrent'
BY DEF OpInv, TypeOK, StateTypes, ReconcileTypes, OtherTypes, Places

LEMMA PutState ==
    ASSUME OpInv, NEW o \in Objects, NEW S \in SUBSET TypeOf(o), \A x, y \in S : x = y,
           Put(o, S) \/ UNCHANGED server, UNCHANGED cache
    PROVE  StateTypes'
<1>1. CASE Put(o, S)
    BY <1>1, PutKeeps DEF OpInv, StateTypes
<1>2. CASE UNCHANGED server
    BY <1>2, Parts DEF server, StateTypes, CacheKnows
<1> QED BY <1>1, <1>2

LEMMA DisturbType == OtherTypes /\ (Disturb \/ UNCHANGED disturbances) => disturbances' \in 0..MaxDisturbances
BY OperatorAssumption DEF Disturb, OtherTypes

\* A call of Reconcile.
LEMMA CallKeeps ==
    ASSUME OpInv, NEW o \in Objects, NEW S \in SUBSET TypeOf(o), \A x, y \in S : x = y,
           NEW accepted, NEW step \in Places, NEW m \in SUBSET Cluster, \A x, y \in m : x = y,
           step # "idle" => m # {}, Call(o, S, accepted, step, m)
    PROVE  StateTypes' /\ ReconcileTypes' /\ OtherTypes'
<1>1. StateTypes'
    <2>1. (Put(o, S) \/ UNCHANGED server) /\ UNCHANGED cache
        BY DEF Call
    <2> QED BY <2>1, PutState
<1>2. Requeue \/ GoOn(step, m)
    BY DEF Call
<1>3. ReconcileTypes'
    BY <1>2 DEF Requeue, GoOn, ReconcileTypes, HasCluster, Places
<1>4. OtherTypes'
    <2>1. OtherTypes
        BY Parts
    <2>2. disturbances' \in 0..MaxDisturbances
        BY <2>1, DisturbType DEF Call
    <2>3. queue' \in BOOLEAN
        BY <1>2, <2>1 DEF Requeue, GoOn, OtherTypes
    <2>4. fresh' \in BOOLEAN
        BY <1>2, <2>1 DEF Requeue, GoOn, OtherTypes
    <2>5. UNCHANGED <<kind, subresource, created>>
        BY DEF Call, variant
    <2> QED BY <2>1, <2>2, <2>3, <2>4, <2>5 DEF OtherTypes
<1> QED BY <1>1, <1>3, <1>4

\* A step that leaves the cluster on the server alone, and with it the copy unless
\* Reconcile ends.
LEMMA FreshKept ==
    ASSUME FreshIsCurrent, UNCHANGED api["cluster"],
           fresh' => fresh /\ UNCHANGED mem /\ (pc' = "update" => pc = "update")
    PROVE  FreshIsCurrent'
BY DEF FreshIsCurrent

\* A call of Reconcile for an object of its own.
LEMMA ChildCall ==
    ASSUME OpInv, NEW o \in Children, NEW S \in SUBSET TypeOf(o), \A x, y \in S : x = y,
           NEW accepted, NEW step \in Places \ {"idle", "update"}, mem # {}, Call(o, S, accepted, step, mem)
    PROVE  OpInv' /\ UNCHANGED api["cluster"]
<1>1. o \in Objects /\ o # "cluster" /\ mem \in SUBSET Cluster /\ \A x, y \in mem : x = y
    BY ObjectTypes DEF OpInv, TypeOK
<1>2. StateTypes' /\ ReconcileTypes' /\ OtherTypes'
    BY <1>1, CallKeeps
<1>3. UNCHANGED api["cluster"]
    <2>1. CASE Put(o, S)
        BY <2>1, <1>1, ObjectTypes DEF Put, OpInv, TypeOK
    <2>2. CASE UNCHANGED server
        BY <2>2 DEF server
    <2> QED BY <2>1, <2>2 DEF Call
<1>4. fresh' => fresh /\ UNCHANGED mem /\ pc' # "update"
    BY DEF Call, Requeue, GoOn
<1>5. FreshIsCurrent'
    BY <1>3, <1>4, FreshKept DEF OpInv
<1> QED BY <1>2, <1>3, <1>5, PartsAfter

\* A step of Reconcile without a call.
LEMMA SkipKeeps ==
    ASSUME OpInv, NEW step \in Places \ {"idle", "update"}, mem # {}, Skip(step)
    PROVE  OpInv' /\ UNCHANGED api["cluster"]
<1>1. /\ UNCHANGED <<kind, subresource, api, cache, stale, queue, mem, fresh, created, disturbances>>
      /\ pc' = step
    BY DEF Skip, GoOn, variant, server
<1>2. StateTypes' /\ OtherTypes'
    BY <1>1, Parts DEF StateTypes, OtherTypes, CacheKnows
<1>3. ReconcileTypes'
    BY <1>1, Parts DEF ReconcileTypes, HasCluster
<1>4. FreshIsCurrent'
    BY <1>1, FreshKept DEF OpInv
<1> QED BY <1>1, <1>2, <1>3, <1>4, PartsAfter

\* A step around Reconcile: it leaves it alone, or only ends the copy's freshness.
LEMMA OutsideWrite ==
    ASSUME OpInv, NEW o \in Objects, NEW S \in SUBSET TypeOf(o), \A x, y \in S : x = y, Put(o, S),
           UNCHANGED <<variant, cache, queue, pc, mem>>, fresh' \in {fresh, FALSE},
           o = "cluster" => ~fresh',
           created' \in 1..MaxClusters, Disturb \/ UNCHANGED disturbances
    PROVE  OpInv' /\ (o # "cluster" => UNCHANGED api["cluster"])
<1>1. StateTypes'
    BY PutState
<1>2. o # "cluster" => UNCHANGED api["cluster"]
    BY ObjectTypes DEF Put, OpInv, TypeOK
<1>3. ReconcileTypes'
    BY Parts DEF ReconcileTypes, HasCluster
<1>4. OtherTypes'
    <2>1. OtherTypes
        BY Parts
    <2>2. disturbances' \in 0..MaxDisturbances
        BY <2>1, DisturbType
    <2>3. fresh' \in BOOLEAN
        BY <2>1 DEF OtherTypes
    <2> QED BY <2>1, <2>2, <2>3 DEF OtherTypes, variant
<1>5. FreshIsCurrent'
    <2>1. CASE fresh'
        BY <2>1, <1>2, FreshKept DEF OpInv
    <2>2. CASE ~fresh'
        BY <2>2 DEF FreshIsCurrent
    <2> QED BY <2>1, <2>2
<1> QED BY <1>1, <1>2, <1>3, <1>4, <1>5, PartsAfter

\* The step of UpdateCluster: what the server stores is the cluster Reconcile has read.
LEMMA UpdateClusterKeeps ==
    ASSUME OpInv, UpdateCluster
    PROVE  /\ OpInv'
           /\ \A b \in api["cluster"], c \in api'["cluster"] :
                b.phase # "Running" => c.phase # "Running"
<1> DEFINE c == The(mem)
           stored == AfterUpdate(c)
           m == {IF stored.phase = "None" THEN SetPhase(c, "Creating") ELSE stored}
<1>1. pc = "update" /\ Call("cluster", {stored}, IsCurrent("cluster"), "sts", m)
    BY DEF UpdateCluster, Update
<1>2. c \in mem /\ c \in Cluster /\ mem = {c}
    BY <1>1, TheIsIn DEF OpInv, HasCluster, TypeOK
<1>3. SetPhase(c, "Creating") \in Cluster
    BY <1>2 DEF SetPhase, Cluster, Phases
<1>4. stored \in Cluster /\ m \in SUBSET Cluster /\ m # {} /\ \A x, y \in m : x = y
    BY <1>2, <1>3 DEF AfterUpdate
<1>5. stored.phase \in {c.phase, "Creating"}
    BY <1>2 DEF AfterUpdate, SetPhase, Cluster
<1>6. \A x \in m : x.phase = "Running" => stored.phase = "Running"
    BY <1>2 DEF SetPhase, Cluster
<1> HIDE DEF c, stored, m
<1>7. StateTypes' /\ ReconcileTypes' /\ OtherTypes'
    <2>1. "cluster" \in Objects /\ {stored} \in SUBSET TypeOf("cluster") /\ "sts" \in Places /\ "sts" # "idle"
        BY <1>4, ObjectTypes DEF Places, Children
    <2> QED BY <1>1, <1>4, <2>1, CallKeeps
<1>8. CASE Put("cluster", {stored}) /\ fresh
    <2>1. api'["cluster"] = {stored}
        BY <1>8, ObjectTypes DEF Put, OpInv, TypeOK
    <2>2. api["cluster"] = {c}
        <3>1. PICK b \in api["cluster"] : b = c
            BY <1>8, <1>1, <1>2 DEF OpInv, FreshIsCurrent
        <3>2. \A x, y \in api["cluster"] : x = y
            BY ObjectTypes DEF OpInv, TypeOK
        <3> QED BY <3>1, <3>2
    <2>3. FreshIsCurrent'
        <3>1. fresh' => pc' = "sts" /\ mem' = m
            BY <1>1 DEF Call, GoOn, Requeue
        <3> QED BY <2>1, <3>1, <1>4, <1>6 DEF FreshIsCurrent
    <2> QED BY <1>5, <1>7, <2>1, <2>2, <2>3, PartsAfter
<1>9. CASE UNCHANGED server /\ Requeue
    <2>1. FreshIsCurrent'
        BY <1>9 DEF Requeue, FreshIsCurrent
    <2>2. \A x, y \in api["cluster"] : x = y
        BY ObjectTypes DEF OpInv, TypeOK
    <2> QED BY <1>7, <1>9, <2>1, <2>2, PartsAfter DEF server
<1> QED BY <1>1, <1>8, <1>9 DEF Call, IsCurrent

\* The step of UpdateStatus: the phase becomes Running only with the replicas the
\* spec asks for, unless it was Running before.
LEMMA UpdateStatusKeeps ==
    ASSUME OpInv, UpdateStatus
    PROVE  /\ OpInv'
           /\ \A b \in api["cluster"], c \in api'["cluster"] :
                b.phase # "Running" /\ c.phase = "Running" => c.ready = c.spec.size
<1> DEFINE d == The(mem)
           ready == The(cache["sts"]).ready
           c == WithStatus(d, ready)
<1>1. FreshIsCurrent'
    BY DEF UpdateStatus, Call, GoOn, Requeue, FreshIsCurrent
<1>2. \A x, y \in api["cluster"] : x = y
    BY ObjectTypes DEF OpInv, TypeOK
<1>3. CASE cache["sts"] = {}
    <2>1. UNCHANGED <<api, cache, stale, kind, subresource, created, disturbances>> /\ Requeue
        BY <1>3 DEF UpdateStatus, variant, server
    <2>2. StateTypes' /\ ReconcileTypes' /\ OtherTypes'
        BY <2>1, Parts DEF StateTypes, ReconcileTypes, OtherTypes, CacheKnows, HasCluster, Requeue, Places
    <2> QED BY <1>1, <1>2, <2>1, <2>2, PartsAfter
<1>4. CASE cache["sts"] # {}
    <2>1. pc = "status" /\ Call("cluster", {c}, subresource /\ IsCurrent("cluster"), "idle", {})
        BY <1>4 DEF UpdateStatus
    <2>2. d \in mem /\ d \in Cluster /\ mem = {d}
        BY <2>1, TheIsIn DEF OpInv, HasCluster, TypeOK
    <2>3. ready \in Nat
        <3>1. The(cache["sts"]) \in StatefulSet
            BY <1>4, TheIsIn, ObjectTypes DEF OpInv, TypeOK, Objects
        <3> QED BY <3>1 DEF StatefulSet
    <2>4. c \in Cluster /\ c.spec = d.spec /\ c.ready = ready
        BY <2>2, <2>3 DEF WithStatus, Cluster, Phases
    <2>5. c.phase = "Running" => c.ready = c.spec.size \/ d.phase = "Running"
        BY <2>2, <2>3 DEF WithStatus, Cluster, Phases
    <2> HIDE DEF c, ready, d
    <2>6. StateTypes' /\ ReconcileTypes' /\ OtherTypes'
        <3>1. "cluster" \in Objects /\ {c} \in SUBSET TypeOf("cluster") /\ "idle" \in Places /\ {} \in SUBSET Cluster
            BY <2>4, ObjectTypes DEF Places
        <3> QED BY <2>1, <3>1, CallKeeps
    <2>7. OpInv'
        BY <1>1, <2>6, PartsAfter
    <2>8. CASE Put("cluster", {c}) /\ fresh
        <3>1. api'["cluster"] = {c}
            BY <2>8, ObjectTypes DEF Put, OpInv, TypeOK
        <3>2. PICK b \in api["cluster"] : d.phase = "Running" => b.phase = "Running"
            BY <2>8, <2>2 DEF OpInv, FreshIsCurrent
        <3> QED BY <1>2, <2>5, <2>7, <3>1, <3>2
    <2>9. CASE UNCHANGED server
        BY <1>2, <2>7, <2>9 DEF server
    <2> QED BY <2>1, <2>8, <2>9 DEF Call, IsCurrent
<1> QED BY <1>3, <1>4

LEMMA GetKeeps == OpInv /\ Get => OpInv' /\ UNCHANGED api
<1> SUFFICES ASSUME OpInv, Get PROVE OpInv' /\ UNCHANGED api
    OBVIOUS
<1>1. UNCHANGED <<kind, subresource, api, cache, stale, created, disturbances>>
    BY DEF Get, variant, server
<1>2. mem' = cache["cluster"] /\ mem' \in SUBSET Cluster /\ \A x, y \in mem' : x = y
    BY ObjectTypes DEF Get, OpInv, TypeOK
<1>3. StateTypes'
    BY <1>1, Parts DEF StateTypes, CacheKnows
<1>4. ReconcileTypes'
    <2>1. pc' \in Places
        BY DEF Get, Places
    <2>2. HasCluster'
        BY DEF Get, HasCluster
    <2> QED BY <1>2, <2>1, <2>2 DEF ReconcileTypes
<1>5. OtherTypes'
    <2>1. OtherTypes
        BY Parts
    <2>2. fresh' \in BOOLEAN
        BY <2>1 DEF Get, OtherTypes
    <2>3. queue' \in BOOLEAN
        BY DEF Get
    <2> QED BY <1>1, <2>1, <2>2, <2>3 DEF OtherTypes
<1>6. FreshIsCurrent'
    <2>1. CASE mem' = {}
        BY <2>1, <1>1 DEF Get, OpInv, FreshIsCurrent, HasCluster
    <2>2. CASE mem' # {}
        <3>1. fresh' => api'["cluster"] = mem'
            BY <2>2, <1>1, <1>2, ObjectTypes DEF Get, OpInv, CacheKnows
        <3> QED BY <2>2, <3>1 DEF FreshIsCurrent
    <2> QED BY <2>1, <2>2
<1> QED BY <1>1, <1>3, <1>4, <1>5, <1>6, PartsAfter

\* While Reconcile runs, what it writes for the cluster it has read is well typed.
LEMMA Records ==
    ASSUME OpInv, pc # "idle"
    PROVE  /\ mem # {} /\ The(mem) \in mem
           /\ {NewStatefulSet(The(mem))} \in SUBSET TypeOf("sts")
           /\ {NewConfigMap(The(mem))} \in SUBSET TypeOf("config")
           /\ \A o \in {"headless", "client"} : {[owner |-> The(mem).uid]} \in SUBSET TypeOf(o)
           /\ The(mem).spec.size \in Sizes /\ The(mem).spec.setting \in Settings
<1>1. mem # {} /\ The(mem) \in mem /\ The(mem) \in Cluster
    BY TheIsIn DEF OpInv, HasCluster, TypeOK
<1>2. The(mem).uid \in 1..MaxClusters /\ The(mem).spec \in Specs
    BY <1>1 DEF Cluster
<1>3. The(mem).spec.size \in Sizes /\ The(mem).spec.setting \in Settings
    BY <1>2, SpecTypes
<1>4. NewStatefulSet(The(mem)) \in StatefulSet
    BY <1>2, <1>3 DEF NewStatefulSet, StatefulSet
<1>5. NewConfigMap(The(mem)) \in ConfigMap
    BY <1>2, <1>3 DEF NewConfigMap, ConfigMap
<1>6. [owner |-> The(mem).uid] \in Service
    BY <1>2 DEF Service
<1> QED BY <1>1, <1>3, <1>4, <1>5, <1>6, ObjectTypes

LEMMA StatefulSetKeeps ==
    OpInv /\ ReconcileStatefulSet => OpInv' /\ UNCHANGED api["cluster"]
<1> SUFFICES ASSUME OpInv, ReconcileStatefulSet PROVE OpInv' /\ UNCHANGED api["cluster"]
    OBVIOUS
<1> DEFINE s == The(cache["sts"])
           scaled == [s EXCEPT !.size = The(mem).spec.size]
<1>1. "sts" \in Children /\ "headless" \in Places \ {"idle", "update"} /\ pc = "sts" /\ pc # "idle"
    BY DEF Children, Places, ReconcileStatefulSet
<1>2. mem # {}
    BY <1>1, Records
<1>3. CASE Create("sts", NewStatefulSet(The(mem)), "headless")
    BY <1>1, <1>2, <1>3, Records, ChildCall DEF Create
<1>4. CASE cache["sts"] # {} /\ Update("sts", scaled, "headless", mem)
    <2>1. s \in StatefulSet
        BY <1>4, TheIsIn, ObjectTypes DEF OpInv, TypeOK
    <2>2. scaled \in StatefulSet
        BY <1>1, <2>1, Records DEF StatefulSet
    <2> HIDE DEF scaled
    <2>3. {scaled} \in SUBSET TypeOf("sts")
        BY <2>2, ObjectTypes
    <2> QED BY <1>1, <1>2, <1>4, <2>3, ChildCall DEF Update
<1>5. CASE Skip("headless")
    BY <1>1, <1>2, <1>5, SkipKeeps
<1> QED BY <1>3, <1>4, <1>5 DEF ReconcileStatefulSet

LEMMA ServiceKeeps ==
    OpInv /\ (RaftService \/ RedlockService) => OpInv' /\ UNCHANGED api["cluster"]
<1> SUFFICES ASSUME OpInv, RaftService \/ RedlockService PROVE OpInv' /\ UNCHANGED api["cluster"]
    OBVIOUS
<1>1. pc \in {"headless", "client"} /\ pc \in Children /\ pc # "idle"
    BY DEF RaftService, RedlockService, Children
<1>2. {"client", "config"} \subseteq Places \ {"idle", "update"}
    BY DEF Places, Children
<1>3. mem # {}
    BY <1>1, Records
<1>4. \/ Create(pc, [owner |-> The(mem).uid], "config")
      \/ Skip("client") \/ Skip("config")
    BY DEF RaftService, RedlockService
<1>5. CASE Create(pc, [owner |-> The(mem).uid], "config")
    BY <1>1, <1>2, <1>3, <1>5, Records, ChildCall DEF Create
<1> QED BY <1>2, <1>3, <1>4, <1>5, SkipKeeps

LEMMA ConfigMapKeeps ==
    OpInv /\ (RaftConfigMap \/ RedlockConfigMap) => OpInv' /\ UNCHANGED api["cluster"]
<1> SUFFICES ASSUME OpInv, RaftConfigMap \/ RedlockConfigMap PROVE OpInv' /\ UNCHANGED api["cluster"]
    OBVIOUS
<1> DEFINE old == The(cache["config"])
           set == [old EXCEPT !.setting = The(mem).spec.setting]
<1>1. "config" \in Children /\ "status" \in Places \ {"idle", "update"} /\ pc # "idle"
    BY DEF RaftConfigMap, RedlockConfigMap, Children, Places
<1>2. mem # {}
    BY <1>1, Records
<1>3. CASE Create("config", NewConfigMap(The(mem)), "status")
    BY <1>1, <1>2, <1>3, Records, ChildCall DEF Create
<1>4. CASE Skip("status")
    BY <1>1, <1>2, <1>4, SkipKeeps
<1>5. CASE cache["config"] # {} /\ Update("config", set, "status", mem)
    <2>1. old \in ConfigMap
        BY <1>5, TheIsIn, ObjectTypes DEF OpInv, TypeOK
    <2>2. set \in ConfigMap
        BY <1>1, <2>1, Records DEF ConfigMap
    <2> HIDE DEF set
    <2>3. {set} \in SUBSET TypeOf("config")
        BY <2>2, ObjectTypes
    <2> QED BY <1>1, <1>2, <1>5, <2>3, ChildCall DEF Update
<1> QED BY <1>3, <1>4, <1>5 DEF RaftConfigMap, RedlockConfigMap

LEMMA DeliverKeeps ==
    OpInv /\ (\E o \in Objects : Deliver(o)) => OpInv' /\ UNCHANGED api
<1> SUFFICES ASSUME OpInv, NEW o \in Objects, Deliver(o) PROVE OpInv' /\ UNCHANGED api
    OBVIOUS
<1>1. UNCHANGED <<kind, subresource, api, pc, mem, fresh, created, disturbances>>
    BY DEF Deliver, variant
<1>2. cache' = [cache EXCEPT ![o] = api[o]] /\ stale' = stale \ {o} /\ queue' \in BOOLEAN
    BY DEF Deliver
<1>3. StateTypes'
    <2>1. StateTypes
        BY Parts
    <2>2. cache'[o] = api[o] /\ \A p \in Objects \ {o} : cache'[p] = cache[p]
        BY <1>2, <2>1 DEF StateTypes
    <2>3. cache' = [p \in Objects |-> cache'[p]]
        BY <1>2, <2>1 DEF StateTypes
    <2>4. CacheKnows'
        BY <1>1, <1>2, <2>1, <2>2 DEF CacheKnows, StateTypes
    <2> QED BY <1>1, <1>2, <2>1, <2>2, <2>3, <2>4 DEF StateTypes
<1>4. ReconcileTypes' /\ OtherTypes'
    BY <1>1, <1>2, Parts DEF ReconcileTypes, OtherTypes, HasCluster
<1>5. FreshIsCurrent'
    BY <1>1, FreshKept DEF OpInv
<1> QED BY <1>1, <1>3, <1>4, <1>5, PartsAfter

LEMMA RestartKeeps == OpInv /\ Restart => OpInv' /\ UNCHANGED api
<1> SUFFICES ASSUME OpInv, Restart PROVE OpInv' /\ UNCHANGED api
    OBVIOUS
<1>1. UNCHANGED <<kind, subresource, api, created>> /\ pc' = "idle" /\ mem' = {} /\ fresh' = FALSE
    BY DEF Restart, variant
<1>2. cache' = api /\ stale' = {} /\ queue' \in BOOLEAN
    BY DEF Restart
<1>3. StateTypes'
    BY <1>1, <1>2, Parts DEF StateTypes, CacheKnows
<1>4. ReconcileTypes' /\ FreshIsCurrent'
    BY <1>1 DEF ReconcileTypes, HasCluster, Places, FreshIsCurrent
<1>5. OtherTypes'
    <2>1. disturbances' \in 0..MaxDisturbances
        BY Parts, DisturbType DEF Restart
    <2> QED BY <1>1, <1>2, <2>1, Parts DEF OtherTypes
<1> QED BY <1>1, <1>3, <1>4, <1>5, PartsAfter

\* Users: whatever they do to the resource, a copy Reconcile has is fresh no more, and
\* the cluster does not become Running.
LEMMA UsersKeep ==
    ASSUME OpInv, CreateCluster \/ EditSpec \/ DeleteCluster
    PROVE  /\ OpInv'
           /\ \A b \in api["cluster"], c \in api'["cluster"] :
                b.phase # "Running" => c.phase # "Running"
<1>1. TypeOK /\ "cluster" \in Objects /\ TypeOf("cluster") = Cluster /\ api["cluster"] \subseteq Cluster
    <2>1. TypeOK
        BY DEF OpInv
    <2>2. api["cluster"] \subseteq Cluster
        BY <2>1, ObjectTypes DEF TypeOK
    <2> QED BY <2>1, <2>2, ObjectTypes
<1>2. \A x, y \in api["cluster"] : x = y
    BY <1>1 DEF TypeOK
<1>3. CASE CreateCluster
    <2>1. PICK spec \in Specs : Put("cluster", {NewCluster(created + 1, spec)})
        BY <1>3 DEF CreateCluster
    <2>2. created + 1 \in 1..MaxClusters
        BY <1>1, <1>3, OperatorAssumption DEF CreateCluster, TypeOK
    <2>3. NewCluster(created + 1, spec) \in Cluster
        BY <2>2 DEF NewCluster, Cluster, Phases
    <2>4. ~fresh /\ UNCHANGED fresh
        BY <1>3 DEF CreateCluster, OpInv, FreshIsCurrent, control
    <2>5. {NewCluster(created + 1, spec)} \in SUBSET TypeOf("cluster")
        BY <1>1, <2>3
    <2>6. OpInv'
        BY <1>1, <1>3, <2>1, <2>2, <2>4, <2>5, OutsideWrite DEF CreateCluster, control
    <2> QED BY <1>3, <2>6 DEF CreateCluster
<1>4. CASE EditSpec
    <2>1. PICK b \in api["cluster"], spec \in Specs : Put("cluster", {[b EXCEPT !.spec = spec]})
        BY <1>4 DEF EditSpec
    <2>2. [b EXCEPT !.spec = spec] \in Cluster /\ [b EXCEPT !.spec = spec].phase = b.phase
        BY <1>1 DEF Cluster
    <2>3. {[b EXCEPT !.spec = spec]} \in SUBSET TypeOf("cluster")
        BY <1>1, <2>2
    <2>4. OpInv'
        <3>1. created' \in 1..MaxClusters /\ ~fresh'
            BY <1>1, <1>4 DEF EditSpec, TypeOK
        <3> QED BY <1>1, <1>4, <2>1, <2>3, <3>1, OutsideWrite DEF EditSpec
    <2>5. api'["cluster"] = {[b EXCEPT !.spec = spec]}
        BY <1>1, <2>1 DEF Put, TypeOK
    <2> QED BY <1>2, <2>2, <2>4, <2>5
<1>5. CASE DeleteCluster
    <2>1. Put("cluster", {}) /\ created' \in 1..MaxClusters /\ ~fresh'
        BY <1>1, <1>5 DEF DeleteCluster, TypeOK
    <2>2. OpInv'
        <3>1. {} \in SUBSET TypeOf("cluster") /\ fresh' = FALSE
            BY <1>5 DEF DeleteCluster
        <3>2. UNCHANGED <<variant, cache, queue, pc, mem>> /\ Disturb
            BY <1>5 DEF DeleteCluster
        <3> QED BY <1>1, <2>1, <3>1, <3>2, OutsideWrite
    <2>3. api'["cluster"] = {}
        BY <1>1, <2>1 DEF Put, TypeOK
    <2> QED BY <2>2, <2>3
<1> QED BY <1>3, <1>4, <1>5

\* Somebody, a pod or the garbage collector changes a child: the cluster is left alone.
LEMMA ChildrenKeep ==
    ASSUME OpInv, Meddle \/ ScalePods \/ PodFails \/ \E o \in OwnerReferences : CollectGarbage(o)
    PROVE  OpInv' /\ UNCHANGED api["cluster"]
<1>1. \E o \in Children : \E S \in SUBSET TypeOf(o) : Put(o, S) /\ \A x, y \in S : x = y
    <2>1. CASE Meddle /\ \E o \in Children : Put(o, {})
        BY <2>1
    <2>2. CASE \E o \in OwnerReferences : CollectGarbage(o)
        BY <2>2 DEF CollectGarbage, OwnerReferences
    <2>3. TypeOf("sts") = StatefulSet /\ "sts" \in Children /\ api["sts"] \subseteq StatefulSet
        BY ObjectTypes DEF OpInv, TypeOK
    <2>4. CASE \E s \in api["sts"], size \in Sizes : Put("sts", {[s EXCEPT !.size = size]})
        <3>1. PICK s \in api["sts"], size \in Sizes : Put("sts", {[s EXCEPT !.size = size]})
            BY <2>4
        <3>2. [s EXCEPT !.size = size] \in StatefulSet
            BY <2>3 DEF StatefulSet
        <3> QED BY <2>3, <3>1, <3>2
    <2>5. CASE \E s \in api["sts"], n \in Nat : Put("sts", {[s EXCEPT !.ready = n]})
        <3>1. PICK s \in api["sts"], n \in Nat : Put("sts", {[s EXCEPT !.ready = n]})
            BY <2>5
        <3>2. [s EXCEPT !.ready = n] \in StatefulSet
            BY <2>3 DEF StatefulSet
        <3> QED BY <2>3, <3>1, <3>2
    <2>6. ScalePods \/ PodFails => \E s \in api["sts"], n \in Nat : Put("sts", {[s EXCEPT !.ready = n]})
        <3>1. ASSUME NEW s \in api["sts"], ScalePods \/ PodFails,
                     \/ s.ready # s.size /\ Put("sts", {[s EXCEPT !.ready = IF @ < s.size THEN @ + 1 ELSE @ - 1]})
                     \/ s.ready > 0 /\ Put("sts", {[s EXCEPT !.ready = @ - 1]})
              PROVE  \E n \in Nat : Put("sts", {[s EXCEPT !.ready = n]})
            <4>1. s.ready \in Nat /\ s.size \in Nat
                BY <2>3, SpecTypes DEF StatefulSet, Sizes
            <4>2. CASE s.ready # s.size /\ Put("sts", {[s EXCEPT !.ready = IF @ < s.size THEN @ + 1 ELSE @ - 1]})
                <5>1. (IF s.ready < s.size THEN s.ready + 1 ELSE s.ready - 1) \in Nat
                    BY <4>1, <4>2
                <5> QED BY <4>2, <5>1
            <4>3. CASE s.ready > 0 /\ Put("sts", {[s EXCEPT !.ready = @ - 1]})
                <5>1. s.ready - 1 \in Nat
                    BY <4>1, <4>3
                <5> QED BY <4>3, <5>1
            <4> QED BY <3>1, <4>2, <4>3
        <3> QED BY <3>1 DEF ScalePods, PodFails
    <2> QED BY <2>1, <2>2, <2>4, <2>5, <2>6 DEF Meddle
<1>2. /\ UNCHANGED <<variant, cache, queue, pc, mem, fresh, created>>
      /\ Disturb \/ UNCHANGED disturbances
    BY DEF Meddle, ScalePods, PodFails, CollectGarbage, control
<1>3. created' \in 1..MaxClusters /\ \A o \in Children : o \in Objects /\ o # "cluster"
    BY <1>2, ObjectTypes DEF OpInv, TypeOK
<1>4. fresh' \in {fresh, FALSE}
    BY <1>2
<1> QED BY <1>1, <1>2, <1>3, <1>4, OutsideWrite
-----------------------------------------------------------------------------
LEMMA StepKeeps ==
    ASSUME OpInv, [Next]_vars
    PROVE  /\ OpInv'
           /\ \A b \in api["cluster"], c \in api'["cluster"] :
                b.phase # "Running" /\ c.phase = "Running" => c.ready = c.spec.size
<1>1. \A b, c \in api["cluster"] : b = c
    BY ObjectTypes DEF OpInv, TypeOK
<1>2. CASE UNCHANGED vars
    <2>1. OpInv'
        BY <1>2 DEF vars, variant, server, control, OpInv, TypeOK, CacheKnows, HasCluster, FreshIsCurrent
    <2> QED BY <1>1, <1>2, <2>1 DEF vars, server
<1>3. CASE Reconcile
    BY <1>1, <1>3, GetKeeps, UpdateClusterKeeps, StatefulSetKeeps, ServiceKeeps, ConfigMapKeeps,
       UpdateStatusKeeps DEF Reconcile
<1>4. CASE Restart \/ \E o \in Objects : Deliver(o)
    BY <1>1, <1>4, RestartKeeps, DeliverKeeps
<1>5. CASE CreateCluster \/ EditSpec \/ DeleteCluster
    BY <1>5, UsersKeep
<1>6. CASE Meddle \/ ScalePods \/ PodFails \/ \E o \in OwnerReferences : CollectGarbage(o)
    BY <1>1, <1>6, ChildrenKeep
<1> QED BY <1>2, <1>3, <1>4, <1>5, <1>6 DEF Next

\* TypeOK: every variable has its type and there is at most one object of a name.
THEOREM OperatorTypeCorrect == Spec => []TypeOK
<1>1. Init => OpInv
    BY OpInvInit
<1>2. OpInv /\ [Next]_vars => OpInv'
    BY StepKeeps
<1>3. OpInv => TypeOK
    BY DEF OpInv
<1> QED BY <1>1, <1>2, <1>3, PTL DEF Spec

\* RunningMatchesSpec: Reconcile makes a cluster Running, from whatever it had read of
\* the cluster and the StatefulSet before, only with the ready replicas its spec asks
\* for at that moment.
THEOREM RunningMatches == Spec => RunningMatchesSpec
<1> DEFINE Matches == \A b \in api["cluster"], c \in api'["cluster"] :
                          b.phase # "Running" /\ c.phase = "Running" => c.ready = c.spec.size
<1>1. Init => OpInv
    BY OpInvInit
<1>2. OpInv /\ [Next]_vars => OpInv' /\ [Matches]_vars
    BY StepKeeps
<1> QED BY <1>1, <1>2, PTL DEF Spec, RunningMatchesSpec
=============================================================================
