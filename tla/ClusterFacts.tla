---------------------------- MODULE ClusterFacts ----------------------------
(***************************************************************************)
(* What the hub tells of a managed cluster.  The agent copies its claims   *)
(* (pkg/klusterlet/clusterinfo) and its nodes (pkg/klusterlet/             *)
(* nodecollector) into the status of the ManagedClusterInfo; on the hub    *)
(* (pkg/controllers/clusterinfo) one controller empties the nodes of a     *)
(* cluster that is offline, one detects the labels of the ManagedCluster   *)
(* and one counts the capacity of its workers.  Every Update of an object  *)
(* that has changed since it was read is refused.                          *)
(***************************************************************************)
EXTENDS FiniteSetsExt, Naturals, Sequences

CONSTANTS
    ClaimSets,  \* what the claims of the cluster may be: records of product, platform, id, k8sId, version,
                \* microShift
    NodeSets,   \* what its nodes may be: sets of [name, roles, cpu, sockets]
    Unknown,    \* no value of a claim, a status or a label
    MaxChurn,   \* bound: changes of the cluster, lost and found leases
    MaxFaults   \* bound: failed calls

\* What is not known is none of the values a label is given; a module that instantiates this one assumes it.
ConstantsAssumption == Unknown \notin {"auto-detect", "OpenShift"} /\ MaxChurn \in Nat /\ MaxFaults \in Nat

VARIABLES
    claims, nodes, \* of the managed cluster
    online,        \* the ManagedCluster is Available, or the hub does not know
    info,          \* ManagedClusterInfo: offline (its condition), nodes, kube, cloud, id, ocp (the type of its
                   \* distribution), labels
    cluster,       \* ManagedCluster: labels, claims (as reported), workers (capacity), cpu (capacity)
    report,        \* the collector's node list on its way into the status, with the object it read
    churn, faults

vars == <<claims, nodes, online, info, cluster, report, churn, faults>>

-----------------------------------------------------------------------------
(* Products and versions. *)

ProductOCPList == {"OpenShift", "OpenShiftDedicated", "ROSA", "ARO", "ROKS"}

\* getKubeVendor and isProductOCP.
GetKubeVendor(product) ==
    CASE product \in {"AKS", "GKE", "EKS", "IKS", "ICP", "OpenShiftDedicated", "MicroShift"} -> product
      [] product \in ProductOCPList \ {"OpenShiftDedicated"} -> "OpenShift"
      [] OTHER -> "Other"

GetCloudVendor(platform) ==
    IF platform \in {"Azure", "AWS", "IBM", "IBMZPlatform", "IBMPowerPlatform", "GCP", "VSphere", "OpenStack",
                     "RHV", "AlibabaCloud", "BareMetal", "Nutanix"}
    THEN platform ELSE "Other"

\* parseOCPVersion: the parts of the version; OCP 3 has only one.
ParseOCPVersion(version) == [major |-> version[1], minor |-> IF Len(version) = 1 THEN Unknown ELSE version[2]]

\* isWorker.
IsWorker(node) == "worker" \in node.roles \/ node.roles \cap {"master", "control-plane", "infra"} = {}

IsOCP(i) == i.ocp

-----------------------------------------------------------------------------
NoNodes == {}
NoReport == [nodes |-> NoNodes, fresh |-> FALSE]
NoSockets(ns) == {[n EXCEPT !.sockets = 0] : n \in ns}
Cpu(ns) == MapThenSumSet(LAMBDA n : n.cpu, ns)
Sockets(ns) == MapThenSumSet(LAMBDA n : n.sockets, ns)
WorkersOf(ns) == {n \in ns : IsWorker(n)}

\* What the status may show.
Reportable == {NoNodes} \cup NodeSets \cup {NoSockets(ns) : ns \in NodeSets}

\* Among others: the capacity that the hub shows is that of nodes which there were.
TypeOK ==
    /\ claims \in ClaimSets /\ nodes \in NodeSets /\ online \in BOOLEAN
    /\ info.nodes \in Reportable /\ info.offline \in BOOLEAN
    /\ cluster.cpu \in {Cpu(ns) : ns \in NodeSets}
    /\ cluster.workers.core \in {0} \cup {Cpu(ns) : ns \in NodeSets} \cup {Cpu(WorkersOf(ns)) : ns \in Reportable}
    /\ cluster.workers.socket \in {0} \cup {Sockets(WorkersOf(ns)) : ns \in Reportable}
    /\ cluster.labels.kube # Unknown /\ info.labels.kube # Unknown
    /\ churn \in 0..MaxChurn /\ faults \in 0..MaxFaults

Detect == "auto-detect"

Init ==
    /\ claims \in ClaimSets /\ nodes \in NodeSets /\ online = TRUE
    /\ cluster = [labels |-> [kube |-> Detect, cloud |-> Detect, id |-> Unknown, version |-> Unknown,
                              major |-> Unknown, minor |-> Unknown, microShift |-> Unknown,
                              managedBy |-> Unknown],
                  claims |-> Unknown, workers |-> [core |-> 0, socket |-> 0], cpu |-> Cpu(nodes)]
    /\ info = [offline |-> FALSE, nodes |-> NoNodes, kube |-> Unknown, cloud |-> Unknown, id |-> Unknown,
               ocp |-> FALSE, labels |-> cluster.labels]
    /\ report = NoReport
    /\ churn = 0 /\ faults = 0

\* A commit to the ManagedClusterInfo: the copy of the collector is no longer the current one.
Commit(i) ==
    /\ info' = i
    /\ report' = IF i = info THEN report ELSE [report EXCEPT !.fresh = FALSE]

Fault == faults < MaxFaults /\ faults' = faults + 1

-----------------------------------------------------------------------------
(* The managed cluster; its registration agent (external) reports claims and capacity. *)

ClusterChanges ==
    /\ churn < MaxChurn /\ churn' = churn + 1
    /\ claims' \in ClaimSets /\ nodes' \in NodeSets /\ <<claims', nodes'>> # <<claims, nodes>>
    /\ claims' = claims \/ nodes' = nodes
    /\ UNCHANGED <<online, info, cluster, report, faults>>

Lease ==
    /\ churn < MaxChurn /\ churn' = churn + 1
    /\ online' = ~online
    /\ UNCHANGED <<claims, nodes, info, cluster, report, faults>>

ReportStatus ==
    /\ online
    /\ cluster' = [cluster EXCEPT !.claims = claims, !.cpu = Cpu(nodes)]
    /\ UNCHANGED <<claims, nodes, online, info, report, churn, faults>>

-----------------------------------------------------------------------------
(* The agent. *)

\* The sync of defaultInfoSyncer: a claim that is not there leaves the status as it is, but a MicroShift
\* cluster is known by its id.k8s.io alone.
DefaultInfo(i) ==
    LET kube == IF claims.product = Unknown THEN i.kube ELSE GetKubeVendor(claims.product)
    IN [i EXCEPT !.kube = kube,
                 !.cloud = IF claims.platform = Unknown THEN @ ELSE GetCloudVendor(claims.platform),
                 !.id = CASE kube = "MicroShift" -> claims.k8sId
                          [] kube # "MicroShift" /\ claims.id # Unknown -> claims.id
                          [] OTHER -> @]

\* The sync of distributionInfoSyncer, after that of defaultInfoSyncer: a cluster that has been OCP once keeps
\* the type of its distribution.
DistributionInfo(i) == [i EXCEPT !.ocp = @ \/ i.kube \in {"OpenShift", "OpenShiftDedicated"}]

\* Reconcile of the agent: nothing is reported while the status says offline.
AgentSync ==
    /\ ~info.offline
    /\ Commit(DistributionInfo(DefaultInfo(info)))
    /\ UNCHANGED <<claims, nodes, online, cluster, churn, faults>>

\* reconcile of the collector: the nodes, with the sockets Prometheus tells (updateCapacityByPrometheus,
\* queryResource), or without.
Collect ==
    /\ ~info.offline /\ report = NoReport
    /\ report' = [nodes |-> nodes, fresh |-> TRUE]
    /\ UNCHANGED <<claims, nodes, online, info, cluster, churn, faults>>

CollectWithoutSockets ==
    /\ ~info.offline /\ report = NoReport /\ Fault
    /\ report' = [nodes |-> NoSockets(nodes), fresh |-> TRUE]
    /\ UNCHANGED <<claims, nodes, online, info, cluster, churn>>

\* Mutant: the list replaces whatever is there by now.
Overwrite(r) == r # NoReport

Current(r) == r.fresh

UpdateNodes ==
    /\ report # NoReport
    /\ info' = IF Current(report) THEN [info EXCEPT !.nodes = report.nodes] ELSE info
    /\ report' = NoReport
    /\ UNCHANGED <<claims, nodes, online, cluster, churn, faults>>

-----------------------------------------------------------------------------
(* The hub. *)

\* Reconcile of the ManagedClusterInfo controller: the conditions, and no nodes of a cluster offline.
SyncConditions ==
    /\ Commit([info EXCEPT !.offline = ~online, !.nodes = IF online THEN @ ELSE NoNodes])
    /\ UNCHANGED <<claims, nodes, online, cluster, churn, faults>>

\* The vendor labels an administrator has set to auto-detect.
DetectedVendors(l) ==
    [l EXCEPT !.cloud = IF @ = Detect /\ info.cloud # Unknown THEN info.cloud ELSE @,
              !.kube = CASE @ = Detect /\ info.kube = "OpenShiftDedicated" -> "OpenShift"
                         [] @ = Detect /\ info.kube \notin {Unknown, "OpenShiftDedicated"} -> info.kube
                         [] OTHER -> @,
              !.managedBy = IF l.kube = Detect /\ info.kube = "OpenShiftDedicated" THEN "platform" ELSE @,
              !.id = IF info.id = Unknown THEN @ ELSE info.id]

\* The labels of the versions the ManagedCluster reports, of MicroShift and of OCP.
DetectedMicroShift(l) ==
    IF cluster.claims = Unknown THEN l
    ELSE IF cluster.claims.microShift = Unknown THEN l
    ELSE [l EXCEPT !.microShift = cluster.claims.microShift]

DetectedOCP(l) ==
    IF cluster.claims = Unknown THEN l
    ELSE IF cluster.claims.version = <<>> THEN l
    ELSE LET v == ParseOCPVersion(cluster.claims.version)
         IN [l EXCEPT !.version = cluster.claims.version, !.major = v.major,
                      !.minor = IF v.minor = Unknown THEN @ ELSE v.minor]

DetectedVersion(l) == DetectedOCP(DetectedMicroShift(l))

\* Reconcile of the auto-detect controller; the second Update may fail and is tried again.
AutoDetect ==
    /\ LET labels == DetectedVersion(DetectedVendors(cluster.labels))
       IN /\ cluster' = [cluster EXCEPT !.labels = labels]
          /\ \/ Commit([info EXCEPT !.labels = labels]) /\ UNCHANGED faults
             \/ Fault /\ UNCHANGED <<info, report>>
    /\ UNCHANGED <<claims, nodes, online, churn>>

\* Mutant: every node is counted.
AllNodes ==
    [core |-> Cpu(info.nodes), socket |-> IF IsOCP(info) THEN Sockets(info.nodes) ELSE 0]

Workers ==
    IF IsOCP(info) THEN [core |-> Cpu(WorkersOf(info.nodes)), socket |-> Sockets(WorkersOf(info.nodes))]
                   ELSE [core |-> cluster.cpu, socket |-> 0]

\* Reconcile of the capacity controller.
CountWorkers ==
    /\ online
    /\ cluster' = [cluster EXCEPT !.workers = Workers]
    /\ UNCHANGED <<claims, nodes, online, info, report, churn, faults>>

Next ==
    \/ ClusterChanges \/ Lease \/ ReportStatus
    \/ AgentSync \/ Collect \/ CollectWithoutSockets \/ UpdateNodes
    \/ SyncConditions \/ AutoDetect \/ CountWorkers

\* Events, retries and resyncs call the controllers of both sides, the collector has a timer; its Update
\* succeeds when nothing else writes in between.
Fairness ==
    /\ WF_vars(ReportStatus) /\ WF_vars(AgentSync) /\ WF_vars(Collect) /\ WF_vars(UpdateNodes)
    /\ WF_vars(SyncConditions) /\ WF_vars(AutoDetect) /\ WF_vars(CountWorkers)

Spec == Init /\ [][Next]_vars /\ Fairness

-----------------------------------------------------------------------------
\* The hub never shows nodes of a cluster it calls offline, although the agent's collector may be about to
\* write them.
OfflineEmpty == info.offline => info.nodes = NoNodes

\* At the end a cluster online has its vendors detected, its identity, its versions and the capacity of its
\* workers on the hub: that of the nodes that work if it is or has once been OCP, else that of all nodes.
Known ==
    online =>
        /\ claims.product # Unknown => cluster.labels.kube # Detect
        /\ claims.id # Unknown /\ claims.product # "MicroShift" => cluster.labels.id = claims.id
        /\ claims.version # <<>> => cluster.labels.version = claims.version /\ cluster.labels.major = claims.version[1]
        /\ claims.microShift # Unknown => cluster.labels.microShift = claims.microShift
        /\ info.labels = cluster.labels
        /\ claims.product \in ProductOCPList => IsOCP(info)
        /\ cluster.workers =
             IF IsOCP(info) THEN [core |-> Cpu(WorkersOf(nodes)), socket |-> Sockets(WorkersOf(nodes))]
             ELSE [core |-> Cpu(nodes), socket |-> 0]

EventuallyKnown == <>[]Known
=============================================================================
