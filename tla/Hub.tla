--------------------------------- MODULE Hub ---------------------------------
(***************************************************************************)
(* The controllers of the hub: the life of a ManagedCluster                *)
(* (ClusterLifecycle, which this module extends) and six parts that share  *)
(* no object with it or with each other: a behaviour is one of one part,   *)
(* chosen initially, and leaves the variables of the others alone.  So     *)
(* each part is on its own, with its own fairness.                         *)
(***************************************************************************)
EXTENDS ClusterLifecycle

CONSTANTS
    Sets, GlobalSet, BoundObjects, Users, NoLabel, NoName, ClusterRoles, NamespaceRoles, \* of BindingSync
    AddonSubjects, NoSubject, \* of AddonBinding: no subject, no binding
    UpdatesFail,  \* of AddonBinding
    MaxVersion,   \* bound of AddonBinding
    ClaimSets, NodeSets, \* of ClusterFacts
    Unknown,      \* no value of a claim
    Bound,        \* the bounds of each part: changes by others, failures
    None          \* the value of a variable that no part uses

VARIABLES
    part,                 \* the part that runs
    partChurn, partFaults, \* its bounded counters
    pc, dirty, cached, queued, cluster, \* variables of several parts
    kind, role, mapper, subjects, api, cache, stale, toRead, union, users, toApply, toDelete,
    pooled, label, there, claimed, labelSeen, thereSeen, claimedSeen, deploymentQueue, claimQueue, held, heldFresh,
    namespace, live, uninstalling, fresh,
    wanted, binding, version,
    addons, dying, logSeen, account, token,
    claims, nodes, online, clusterInfo, report

bindingVars == <<kind, role, mapper, subjects, api, cache, stale, toRead, union, users, toApply, toDelete>>
hiveVars == <<pooled, label, there, claimed, labelSeen, thereSeen, claimedSeen, deploymentQueue, claimQueue,
              held, heldFresh>>
globalVars == <<namespace, live, uninstalling, fresh>>
addonVars == <<wanted, binding, version>>
logVars == <<addons, dying, logSeen, account, token>>
factVars == <<claims, nodes, online, clusterInfo, report>>
hubVars == <<vars, part, partChurn, partFaults, pc, dirty, cached, queued, cluster,
             bindingVars, hiveVars, globalVars, addonVars, logVars, factVars>>

Bindings == INSTANCE BindingSync WITH churn <- partChurn, faults <- partFaults,
            MaxChurn <- Bound.bindings.churn, MaxFaults <- Bound.bindings.faults, Objects <- BoundObjects
Hive == INSTANCE HiveLabels WITH churn <- partChurn, faults <- partFaults,
            MaxChurn <- Bound.hive.churn, MaxFaults <- Bound.hive.faults, Sets <- Sets \ {GlobalSet}, Empty <- NoName
Global == INSTANCE GlobalSet WITH churn <- partChurn, faults <- partFaults,
            MaxChurn <- Bound.global.churn, MaxFaults <- Bound.global.faults
Addon == INSTANCE AddonBinding WITH churn <- partChurn, faults <- partFaults,
            MaxChurn <- Bound.addon.churn, MaxFaults <- Bound.addon.faults,
            Subjects <- AddonSubjects, Nothing <- NoSubject
Log == INSTANCE LogAccess WITH churn <- partChurn, faults <- partFaults,
            MaxChurn <- Bound.log.churn, MaxFaults <- Bound.log.faults, seen <- logSeen
Facts == INSTANCE ClusterFacts WITH churn <- partChurn, faults <- partFaults,
            MaxChurn <- Bound.facts.churn, MaxFaults <- Bound.facts.faults, info <- clusterInfo

ASSUME BindingsAssumption == Bindings!LabelsAssumption /\ Bindings!ConstantsAssumption
ASSUME FactsAssumption == Facts!ConstantsAssumption
ASSUME BoundAssumption ==
    /\ \A p \in {"hive", "global", "addon", "log"} : Bound[p].churn \in Nat /\ Bound[p].faults \in Nat
    /\ MaxVersion \in Nat

-----------------------------------------------------------------------------
NoBindings ==
    /\ kind = None /\ role = None /\ mapper = None /\ subjects = None /\ api = None /\ cache = None
    /\ stale = None /\ toRead = None /\ union = None /\ users = None /\ toApply = None /\ toDelete = None
NoHive ==
    /\ pooled = None /\ label = None /\ there = None /\ claimed = None /\ labelSeen = None
    /\ thereSeen = None /\ claimedSeen = None /\ deploymentQueue = None /\ claimQueue = None
    /\ held = None /\ heldFresh = None
NoGlobal == namespace = None /\ live = None /\ uninstalling = None /\ fresh = None
NoAddon == wanted = None /\ binding = None /\ version = None
NoLog == addons = None /\ dying = None /\ logSeen = None /\ account = None /\ token = None
NoFacts == claims = None /\ nodes = None /\ online = None /\ clusterInfo = None /\ report = None

\* A cluster is created first, if ever.
NoCluster == Init /\ obj = Absent

HubInit ==
    \/ /\ part = "lifecycle" /\ NoCluster /\ NoBindings /\ NoHive /\ NoGlobal /\ NoAddon /\ NoLog /\ NoFacts
       /\ pc = None /\ dirty = None /\ cached = None /\ queued = None /\ cluster = None
       /\ partChurn = None /\ partFaults = None
    \/ /\ part = "bindings" /\ NoCluster /\ Bindings!Init /\ NoHive /\ NoGlobal /\ NoAddon /\ NoLog /\ NoFacts
       /\ dirty = None /\ cached = None /\ queued = None /\ cluster = None
    \/ /\ part = "hive" /\ NoCluster /\ NoBindings /\ Hive!Init /\ NoGlobal /\ NoAddon /\ NoLog /\ NoFacts
       /\ pc = None /\ cached = None /\ queued = None /\ cluster = None
    \/ /\ part = "global" /\ NoCluster /\ NoBindings /\ NoHive /\ Global!Init /\ NoAddon /\ NoLog /\ NoFacts
       /\ cluster = None
    \/ /\ part = "addon" /\ NoCluster /\ NoBindings /\ NoHive /\ NoGlobal /\ Addon!Init /\ NoLog /\ NoFacts
       /\ pc = None /\ dirty = None /\ cluster = None
    \/ /\ part = "log" /\ NoCluster /\ NoBindings /\ NoHive /\ NoGlobal /\ NoAddon /\ Log!Init /\ NoFacts
       /\ pc = None /\ dirty = None /\ cached = None
    \/ /\ part = "facts" /\ NoCluster /\ NoBindings /\ NoHive /\ NoGlobal /\ NoAddon /\ NoLog
       /\ Facts!Init
       /\ pc = None /\ dirty = None /\ cached = None /\ queued = None

HubNext ==
    /\ UNCHANGED part
    /\ \/ /\ part = "lifecycle" /\ Next
          /\ UNCHANGED <<partChurn, partFaults, pc, dirty, cached, queued, cluster, bindingVars, hiveVars,
                         globalVars, addonVars, logVars, factVars>>
       \/ /\ part = "bindings" /\ Bindings!Next
          /\ UNCHANGED <<vars, dirty, cached, queued, cluster, hiveVars, globalVars, addonVars, logVars, factVars>>
       \/ /\ part = "hive" /\ Hive!Next
          /\ UNCHANGED <<vars, pc, cached, queued, cluster, bindingVars, globalVars, addonVars, logVars, factVars>>
       \/ /\ part = "global" /\ Global!Next
          /\ UNCHANGED <<vars, cluster, bindingVars, hiveVars, addonVars, logVars, factVars>>
       \/ /\ part = "addon" /\ Addon!Next
          /\ UNCHANGED <<vars, pc, dirty, cluster, bindingVars, hiveVars, globalVars, logVars, factVars>>
       \/ /\ part = "log" /\ Log!Next
          /\ UNCHANGED <<vars, pc, dirty, cached, bindingVars, hiveVars, globalVars, addonVars, factVars>>
       \/ /\ part = "facts" /\ Facts!Next
          /\ UNCHANGED <<vars, pc, dirty, cached, queued, bindingVars, hiveVars, globalVars, addonVars, logVars>>

\* The fairness of each part, while it runs.
LifecycleFairness ==
    /\ WF_vars(part = "lifecycle" /\ DeliverCluster) /\ WF_vars(part = "lifecycle" /\ DeliverRole)
    /\ WF_vars(part = "lifecycle" /\ DeliverInfo)
    /\ WF_vars(part = "lifecycle" /\ RoleWorker) /\ WF_vars(part = "lifecycle" /\ InfoWorker)

BindingsFairness ==
    /\ WF_(Bindings!vars)(part = "bindings" /\ Bindings!Round /\ UNCHANGED <<kind, role>>)
    /\ \A o \in BoundObjects : WF_(Bindings!vars)(part = "bindings" /\ Bindings!Deliver(o) /\ UNCHANGED <<kind, role>>)

HiveFairness ==
    /\ WF_(Hive!vars)(part = "hive" /\ claimed /\ Hive!Resync)
    /\ \A o \in Hive!Objects : WF_(Hive!vars)(part = "hive" /\ Hive!Deliver(o))
    /\ WF_(Hive!vars)(part = "hive" /\ Hive!ReadDeployment) /\ WF_(Hive!vars)(part = "hive" /\ Hive!ReadClaim)
    /\ \A o \in Hive!Written : WF_(Hive!vars)(part = "hive" /\ Hive!Update(o))

GlobalFairness ==
    /\ WF_(Global!vars)(part = "global" /\ Global!Worker) /\ WF_(Global!vars)(part = "global" /\ Global!Deliver)
    /\ WF_(Global!vars)(part = "global" /\ Global!Resync) /\ WF_(Global!vars)(part = "global" /\ Global!FinishNamespace)
    /\ SF_(Global!vars)(part = "global" /\ uninstalling /\ Global!DeleteNamespace)

AddonFairness ==
    /\ WF_(Addon!vars)(part = "addon" /\ Addon!Deliver) /\ WF_(Addon!vars)(part = "addon" /\ Addon!Resync)
    /\ SF_(Addon!vars)(part = "addon" /\ Addon!PermissionConfig)

LogFairness ==
    /\ WF_(Log!vars)(part = "log" /\ Log!Deliver) /\ SF_(Log!vars)(part = "log" /\ Log!Reconcile)
    /\ WF_(Log!vars)(part = "log" /\ Log!MakeToken)

FactsFairness ==
    /\ WF_(Facts!vars)(part = "facts" /\ Facts!ReportStatus) /\ WF_(Facts!vars)(part = "facts" /\ Facts!AgentSync)
    /\ WF_(Facts!vars)(part = "facts" /\ Facts!Collect) /\ WF_(Facts!vars)(part = "facts" /\ Facts!UpdateNodes)
    /\ WF_(Facts!vars)(part = "facts" /\ Facts!SyncConditions)
    /\ WF_(Facts!vars)(part = "facts" /\ Facts!AutoDetect) /\ WF_(Facts!vars)(part = "facts" /\ Facts!CountWorkers)

HubFairness ==
    /\ LifecycleFairness /\ BindingsFairness /\ HiveFairness /\ GlobalFairness /\ AddonFairness /\ LogFairness
    /\ FactsFairness

HubSpec == HubInit /\ [][HubNext]_hubVars /\ HubFairness

-----------------------------------------------------------------------------
\* The states of the parts are of their types: among others a binding's label is that of a set that
\* exists, and nothing is in a namespace that is gone.
PartsTypeOK ==
    CASE part = "lifecycle" -> TRUE
      [] part = "bindings" -> Bindings!TypeOK
      [] part = "hive" -> Hive!TypeOK
      [] part = "global" -> Global!TypeOK
      [] part = "addon" -> Addon!TypeOK
      [] part = "log" -> Log!TypeOK
      [] part = "facts" -> Facts!TypeOK

\* syncrolebinding and syncclusterrolebinding: in the end the users bound to an object are those of the
\* sets it is in (EventuallyBound of BindingSync).
EventuallyBound == <>[](part = "bindings" => \A o \in BoundObjects : api[o].users = Bindings!Entitled(o))

\* The small controllers reach their goals through stale caches, conflicts and failures: hive objects
\* have the label they inherit (EventuallyAgree of HiveLabels), the global set's namespace has its
\* objects or is let go (EventuallySettled of GlobalSet), the agent of the add-on is let in
\* (EventuallyGranted of AddonBinding) and logs are served (EventuallyAccessible of LogAccess).
EventuallyInPlace ==
    <>[](CASE part \in {"lifecycle", "bindings", "facts"} -> TRUE
           [] part = "hive" -> Hive!Agrees("deployment", "source") /\ Hive!Agrees("claim", "deployment")
           [] part = "global" -> Global!Settled
           [] part = "addon" -> Addon!Granted
           [] part = "log" -> Log!Accessible)

\* The hub never shows nodes of a cluster it calls offline (OfflineEmpty of ClusterFacts).
OfflineEmpty == part = "facts" => Facts!OfflineEmpty

\* A cluster online has its vendors, version, identity and capacity on the hub in the end
\* (EventuallyKnown of ClusterFacts).
EventuallyKnown == <>[](part = "facts" => Facts!Known)
=============================================================================
