------------------------ MODULE ClusterSetController ------------------------
(***************************************************************************)
(* The ManagedClusterSet controller of the hub                             *)
(* (pkg/controllers/clusterset/clustersetmapper).                          *)
(*                                                                         *)
(* It keeps, for every ManagedClusterSet, the ClusterRoles that users are  *)
(* bound to, and the three in-memory mappers (set -> clusters, set ->      *)
(* namespaces, global -> all clusters) from which the binding controllers  *)
(* compute who may reach which cluster.  The set's finalizer ties the two  *)
(* to the life of the set.                                                 *)
(*                                                                         *)
(* The API server's set objects (obj) and the manager's cache of them      *)
(* (seen) are two variables: what the API server has committed and the     *)
(* cache has not received is in wire.  The controller reads the cache and  *)
(* writes to the API server; a write carries the resourceVersion that was  *)
(* read and is refused when it is no longer the current one (fresh).       *)
(* Clusters and hive objects are only ever read, from the cache, so only   *)
(* their cached labels are modelled; the handler of a change runs later    *)
(* than the change of the cache (events).                                  *)
(***************************************************************************)
EXTENDS Naturals, Sequences

CONSTANTS
    ExclusiveSets,  \* names of sets whose selector is ExclusiveClusterSetLabel
    GlobalSet,      \* the set whose LabelSelector selects every cluster
    Clusters,       \* ManagedClusters
    HiveObjects,    \* ClusterPools, ClusterClaims and ClusterDeployments
    Namespaces,     \* the namespaces hive objects live in
    NamespaceOf,    \* the namespace of each hive object
    NoSet,          \* the label of an object without the clusterset label
    Gone,           \* the "label" of an object that does not exist
    MaxChurn,       \* bound: changes made by users
    MaxFaults       \* bound: failed API calls and restarts of the manager

Sets == ExclusiveSets \cup {GlobalSet}
Objects == Clusters \cup HiveObjects
Labels == ExclusiveSets \cup {NoSet, Gone}
RoleKinds == {"admin", "bind", "view"}

ASSUME SetsAssumption ==
    /\ GlobalSet \notin ExclusiveSets
    /\ NoSet \notin Sets
    /\ Gone \notin Sets
    /\ Gone # NoSet
ASSUME ObjectsAssumption ==
    /\ Clusters \cap HiveObjects = {}
    /\ NamespaceOf \in [HiveObjects -> Namespaces]
ASSUME BoundsAssumption == MaxChurn \in Nat /\ MaxFaults \in Nat

VARIABLES
    obj,              \* set objects at the API server
    wire,             \* watch events of each set the cache has not received
    seen,             \* the manager's cache of the set objects
    roles,            \* the ClusterRoles that exist for each set
    label,            \* the cached clusterset label of every object
    events,           \* label changes whose handler has not run
    queue,            \* the controller's workqueue
    pc, cur, fresh,   \* the worker: next step, its set, its copy is current
    clusterMapper,    \* clusterSetClusterMapper
    namespaceMapper,  \* clusterSetNamespaceMapper
    globalMapper,     \* globalClusterSetClusterMapper, the entry of GlobalSet
    churn, faults     \* bounded counters

apiVars == <<obj, wire, seen>>
workVars == <<pc, cur, fresh>>
mapVars == <<clusterMapper, namespaceMapper, globalMapper>>
vars == <<obj, wire, seen, roles, label, events, queue, pc, cur, fresh,
          clusterMapper, namespaceMapper, globalMapper, churn, faults>>

(***************************************************************************)
(* A set object: whether it exists, is being deleted, and holds the        *)
(* controller's finalizer.  A deleted object that holds no finalizer is    *)
(* gone.                                                                   *)
(***************************************************************************)
Absent == [phase |-> "absent", finalizer |-> FALSE]
New == [phase |-> "live", finalizer |-> FALSE]
Live == [phase |-> "live", finalizer |-> TRUE]
Dying == [phase |-> "dying", finalizer |-> TRUE]
SetObject == {Absent, New, Live, Dying}

Event == [object : Objects, old : Labels, new : Labels]
Steps == {"idle", "addFinalizer", "applyRoles", "syncClusters",
          "syncNamespaces", "clean", "removeFinalizer"}

ApiTypeOK ==
    /\ obj \in [Sets -> SetObject]
    /\ wire \in [Sets -> Seq(SetObject)]
    /\ seen \in [Sets -> SetObject]
    /\ roles \in [Sets -> SUBSET RoleKinds]
CacheTypeOK ==
    /\ label \in [Objects -> Labels]
    /\ events \in SUBSET Event
    /\ queue \in SUBSET Sets
WorkTypeOK ==
    /\ pc \in Steps
    /\ cur \in Sets \cup {NoSet}
    /\ fresh \in BOOLEAN
    /\ pc # "idle" => cur \in Sets
MapperTypeOK ==
    /\ clusterMapper \in [ExclusiveSets -> SUBSET Clusters]
    /\ namespaceMapper \in [ExclusiveSets -> SUBSET Namespaces]
    /\ globalMapper \in SUBSET Clusters
BoundTypeOK ==
    /\ churn \in 0..MaxChurn
    /\ faults \in 0..MaxFaults

TypeOK == ApiTypeOK /\ CacheTypeOK /\ WorkTypeOK /\ MapperTypeOK /\ BoundTypeOK

(***************************************************************************)
(* What the set's selector selects in the cache (generateClustersetCluster *)
(* and generateClustersetNamespace).                                       *)
(***************************************************************************)
ClustersOf(s) ==
    IF s = GlobalSet THEN {c \in Clusters : label[c] # Gone}
                     ELSE {c \in Clusters : label[c] = s}

\* Mutant: the name of the object is taken for its namespace.
NamesOf(s) == {o \in HiveObjects : label[o] = s}

NamespacesOf(s) == {NamespaceOf[h] : h \in {o \in HiveObjects : label[o] = s}}

\* The roles applyClusterSetClusterRoles keeps for a set.
RequiredRoles(s) ==
    IF s \in ExclusiveSets THEN {"admin", "bind", "view"} ELSE {"bind", "view"}

\* Mutant: the admin role is forgotten.
CleanWithoutAdmin(s) == <<"bind", "view">>

\* The order in which cleanClusterSetResource deletes them.
CleanOrder(s) ==
    IF s \in ExclusiveSets THEN <<"bind", "view", "admin">> ELSE <<"bind", "view">>

(***************************************************************************)
(* The manager starts on a hub whose sets it has never touched.            *)
(***************************************************************************)
Init ==
    /\ obj \in [Sets -> {Absent, New}]
    /\ wire = [s \in Sets |-> <<>>]
    /\ seen = obj
    /\ roles = [s \in Sets |-> {}]
    /\ label \in [Objects -> Labels]
    /\ events = {}
    /\ queue = {s \in Sets : obj[s] # Absent}
    /\ pc = "idle"
    /\ cur = NoSet
    /\ fresh = FALSE
    /\ clusterMapper = [s \in ExclusiveSets |-> {}]
    /\ namespaceMapper = [s \in ExclusiveSets |-> {}]
    /\ globalMapper = {}
    /\ churn = 0
    /\ faults = 0

-----------------------------------------------------------------------------
\* The API server commits a new state of set s and notifies the watchers.
Commit(s, o) ==
    /\ obj' = [obj EXCEPT ![s] = o]
    /\ wire' = [wire EXCEPT ![s] = Append(@, o)]

\* A user creates or deletes a set.
UserWrites(s, o) ==
    /\ churn < MaxChurn
    /\ churn' = churn + 1
    /\ Commit(s, o)
    /\ fresh' = (fresh /\ cur # s)
    /\ UNCHANGED <<seen, roles, label, events, queue, pc, cur, mapVars, faults>>

CreateSet(s) == obj[s] = Absent /\ UserWrites(s, New)

DeleteSet(s) ==
    /\ obj[s].phase = "live"
    /\ UserWrites(s, IF obj[s].finalizer THEN Dying ELSE Absent)

\* A cluster or hive object is created, relabelled or deleted, in the cache.
Relabel(o, l) ==
    /\ churn < MaxChurn
    /\ churn' = churn + 1
    /\ label[o] # l
    /\ label' = [label EXCEPT ![o] = l]
    /\ events' = events \cup {[object |-> o, old |-> label[o], new |-> l]}
    /\ UNCHANGED <<apiVars, roles, queue, workVars, mapVars, faults>>

\* The cache receives the next event of set s; its handler enqueues the set.
Deliver(s) ==
    /\ wire[s] # <<>>
    /\ seen' = [seen EXCEPT ![s] = Head(wire[s])]
    /\ wire' = [wire EXCEPT ![s] = Tail(@)]
    /\ queue' = queue \cup {s}
    /\ UNCHANGED <<obj, roles, label, events, workVars, mapVars, churn, faults>>

(***************************************************************************)
(* The handlers of clusters and hive objects.  getRequiredClusterSet is    *)
(* called with the labels of the object before and after the change; it    *)
(* names the set of the label and a set that maps the object (for a        *)
(* namespace that is in several, any of them).  A cluster's handler adds   *)
(* the global set.                                                         *)
(***************************************************************************)
LabelledSet(l) == {l} \cap ExclusiveSets

MappedSets(o) ==
    IF o \in Clusters
    THEN {s \in ExclusiveSets : o \in clusterMapper[s]}
    ELSE {s \in ExclusiveSets : NamespaceOf[o] \in namespaceMapper[s]}

\* A change of the label is handled with a call for each of the two labels.
GetObjectClusterset(e) ==
    LET mapped == MappedSets(e.object)
    IN IF mapped = {} THEN {{}}
       ELSE IF Gone \in {e.old, e.new} THEN {{s} : s \in mapped}
       ELSE {{s, t} : s, t \in mapped}

GetRequiredClusterSet(e, mapped) ==
    LabelledSet(e.old) \cup LabelledSet(e.new) \cup mapped

HandleEvent(e) ==
    /\ e \in events
    /\ events' = events \ {e}
    /\ \E mapped \in GetObjectClusterset(e) :
          queue' = queue \cup GetRequiredClusterSet(e, mapped)
                         \cup (IF e.object \in Clusters THEN {GlobalSet} ELSE {})
    /\ UNCHANGED <<apiVars, roles, label, workVars, mapVars, churn, faults>>

-----------------------------------------------------------------------------
(***************************************************************************)
(* Reconcile.                                                              *)
(***************************************************************************)
FirstStep(o) ==
    IF o.phase = "absent" THEN "idle"
    ELSE IF o.phase = "dying" THEN "clean"
    ELSE IF ~o.finalizer THEN "addFinalizer"
    ELSE "applyRoles"

\* The worker takes a set from the queue and reads it from the cache.
Start(s) ==
    /\ pc = "idle"
    /\ s \in queue
    /\ queue' = queue \ {s}
    /\ pc' = FirstStep(seen[s])
    /\ cur' = IF pc' = "idle" THEN NoSet ELSE s
    /\ fresh' = (wire[s] = <<>>)
    /\ UNCHANGED <<apiVars, roles, label, events, mapVars, churn, faults>>

\* Reconcile returns; with an error the set is queued again.
Return ==
    /\ pc' = "idle"
    /\ cur' = NoSet
    /\ fresh' = FALSE
ReturnNil == Return /\ UNCHANGED queue
ReturnError == Return /\ queue' = queue \cup {cur}

AddFinalizer ==
    /\ pc = "addFinalizer"
    /\ fresh
    /\ Commit(cur, Live)
    /\ pc' = "applyRoles"
    /\ UNCHANGED <<seen, roles, label, events, queue, cur, fresh, mapVars, churn, faults>>

\* Mutant: the Update is tried again with the same copy.
ConflictRetried ==
    /\ pc \in {"addFinalizer", "removeFinalizer"}
    /\ ~fresh
    /\ UNCHANGED vars

\* An Update with a resourceVersion that is not the current one is refused.
Conflict ==
    /\ pc \in {"addFinalizer", "removeFinalizer"}
    /\ ~fresh
    /\ ReturnError
    /\ UNCHANGED <<apiVars, roles, label, events, mapVars, churn, faults>>

ApplyRoles ==
    /\ pc = "applyRoles"
    /\ roles' = [roles EXCEPT ![cur] = @ \cup RequiredRoles(cur)]
    /\ pc' = "syncClusters"
    /\ UNCHANGED <<apiVars, label, events, queue, cur, fresh, mapVars, churn, faults>>

\* syncClustersetMapper: a set that is not exclusive only has an entry in the
\* global mapper.
SyncClusters ==
    /\ pc = "syncClusters"
    /\ IF cur \in ExclusiveSets
       THEN /\ clusterMapper' = [clusterMapper EXCEPT ![cur] = ClustersOf(cur)]
            /\ pc' = "syncNamespaces"
            /\ UNCHANGED <<queue, cur, fresh, globalMapper>>
       ELSE /\ globalMapper' = ClustersOf(cur)
            /\ ReturnNil
            /\ UNCHANGED clusterMapper
    /\ UNCHANGED <<apiVars, roles, label, events, namespaceMapper, churn, faults>>

SyncNamespaces ==
    /\ pc = "syncNamespaces"
    /\ namespaceMapper' = [namespaceMapper EXCEPT ![cur] = NamespacesOf(cur)]
    /\ ReturnNil
    /\ UNCHANGED <<apiVars, roles, label, events, clusterMapper, globalMapper, churn, faults>>

\* cleanClusterSetResource: the roles, then the entries in the mappers.
CleanClusterSetResource ==
    /\ pc = "clean"
    /\ roles' = [roles EXCEPT ![cur] = {r \in @ : \A i \in DOMAIN CleanOrder(cur) : CleanOrder(cur)[i] # r}]
    /\ IF cur \in ExclusiveSets
       THEN /\ clusterMapper' = [clusterMapper EXCEPT ![cur] = {}]
            /\ namespaceMapper' = [namespaceMapper EXCEPT ![cur] = {}]
            /\ UNCHANGED globalMapper
       ELSE /\ globalMapper' = {}
            /\ UNCHANGED <<clusterMapper, namespaceMapper>>
    /\ pc' = "removeFinalizer"
    /\ UNCHANGED <<apiVars, label, events, queue, cur, fresh, churn, faults>>

RemoveFinalizer ==
    /\ pc = "removeFinalizer"
    /\ fresh
    /\ Commit(cur, Absent)
    /\ ReturnNil
    /\ UNCHANGED <<seen, roles, label, events, mapVars, churn, faults>>

-----------------------------------------------------------------------------
Fault == faults < MaxFaults /\ faults' = faults + 1

\* An API call fails and Reconcile returns the error.
CallFails ==
    /\ pc # "idle"
    /\ Fault
    /\ ReturnError
    /\ UNCHANGED <<apiVars, roles, label, events, mapVars, churn>>

\* Mutant: the roles are deleted and created again instead of updated.
RecreateRolesFails ==
    /\ pc = "applyRoles"
    /\ Fault
    /\ \E done \in SUBSET RequiredRoles(cur) : roles' = [roles EXCEPT ![cur] = done]
    /\ ReturnError
    /\ UNCHANGED <<apiVars, label, events, mapVars, churn>>

\* The failing call is one of several: applyClusterSetClusterRoles goes on with
\* the other roles, cleanClusterSetResource stops at the first error.
ApplyRolesFails ==
    /\ pc = "applyRoles"
    /\ Fault
    /\ \E done \in SUBSET RequiredRoles(cur) :
          roles' = [roles EXCEPT ![cur] = @ \cup done]
    /\ ReturnError
    /\ UNCHANGED <<apiVars, label, events, mapVars, churn>>

CleanFails ==
    /\ pc = "clean"
    /\ Fault
    /\ \E n \in DOMAIN CleanOrder(cur) :
          roles' = [roles EXCEPT ![cur] = {r \in @ : \A i \in 1..(n - 1) : CleanOrder(cur)[i] # r}]
    /\ ReturnError
    /\ UNCHANGED <<apiVars, label, events, mapVars, churn>>

\* The manager crashes or loses the lease: the new one lists everything, and
\* its mappers are empty.
Restart ==
    /\ Fault
    /\ wire' = [s \in Sets |-> <<>>]
    /\ seen' = obj
    /\ events' = {}
    /\ queue' = {s \in Sets : obj[s] # Absent}
    /\ Return
    /\ clusterMapper' = [s \in ExclusiveSets |-> {}]
    /\ namespaceMapper' = [s \in ExclusiveSets |-> {}]
    /\ globalMapper' = {}
    /\ UNCHANGED <<obj, roles, label, churn>>

-----------------------------------------------------------------------------
User ==
    \/ \E s \in Sets : CreateSet(s) \/ DeleteSet(s)
    \/ \E o \in Objects, l \in Labels : Relabel(o, l)

Informer ==
    \/ \E s \in Sets : Deliver(s)
    \/ \E e \in events : HandleEvent(e)

Worker ==
    \/ \E s \in Sets : Start(s)
    \/ AddFinalizer \/ Conflict \/ ApplyRoles \/ SyncClusters \/ SyncNamespaces
    \/ CleanClusterSetResource \/ RemoveFinalizer

Failure == CallFails \/ ApplyRolesFails \/ CleanFails \/ Restart

Next == User \/ Informer \/ Worker \/ Failure

\* The informers and the worker are goroutines that run whenever they can;
\* users and failures owe nothing.
Fairness ==
    /\ \A s \in Sets : WF_vars(Deliver(s))
    /\ WF_vars(\E e \in events : HandleEvent(e))
    /\ WF_vars(Worker)

Spec == Init /\ [][Next]_vars
FairSpec == Spec /\ Fairness

-----------------------------------------------------------------------------
(***************************************************************************)
(* Properties.                                                             *)
(***************************************************************************)
\* Nothing of set s is left: no role, no entry in a mapper.
Cleaned(s) ==
    /\ roles[s] = {}
    /\ s \in ExclusiveSets => clusterMapper[s] = {} /\ namespaceMapper[s] = {}
    /\ s = GlobalSet => globalMapper = {}

\* The roles and the mappers are those of a live set with the cached labels.
Applied(s) ==
    /\ roles[s] = RequiredRoles(s)
    /\ s \in ExclusiveSets => /\ clusterMapper[s] = ClustersOf(s)
                             /\ namespaceMapper[s] = NamespacesOf(s)
    /\ s = GlobalSet => globalMapper = ClustersOf(s)

Exact(s) ==
    \/ obj[s] = Absent /\ Cleaned(s)
    \/ obj[s].phase = "live" /\ Applied(s)

(***************************************************************************)
(* A set that no longer exists leaves no ClusterRole and no mapper entry   *)
(* behind, wherever its deletion falls in a Reconcile, an API failure or a *)
(* restart: the finalizer is added before the first role is created and    *)
(* removed after the last one is deleted.                                  *)
(***************************************************************************)
NoOrphans == \A s \in Sets : obj[s] = Absent => Cleaned(s)

(***************************************************************************)
(* No change is lost: when every watch event is delivered, every handler   *)
(* has run and the worker has nothing to do, the roles and the three       *)
(* mappers are exactly those of the sets and labels.  The handlers of      *)
(* clusters and hive objects must therefore name every set a change        *)
(* touches, also the one an object has left.                               *)
(***************************************************************************)
Quiet ==
    /\ \A s \in Sets : wire[s] = <<>>
    /\ events = {}
    /\ queue = {}
    /\ pc = "idle"

NoLostChange == Quiet => \A s \in Sets : Exact(s)

(***************************************************************************)
(* The ClusterRoles of a set are only deleted while that set is being      *)
(* deleted, although Reconcile decides on a cached copy that may be the    *)
(* one of an earlier set of the same name.                                 *)
(***************************************************************************)
RolesOutliveTheSet ==
    [][\A s \in Sets : roles[s] \ roles'[s] # {} => obj[s] = Dying]_vars

(***************************************************************************)
(* Once users and failures stop, every deleted set goes and every other    *)
(* set has its roles and mapper entries: retries after conflicts and       *)
(* errors, and the rebuilding of the mappers after a restart, come to an   *)
(* end.                                                                    *)
(***************************************************************************)
EventuallyExact == <>[](\A s \in Sets : Exact(s))
=============================================================================
