--------------------------- MODULE ClusterIdentity ---------------------------
(***************************************************************************)
(* What the agent finds out about the cluster it runs on: the claims that  *)
(* pkg/klusterlet/clusterclaim/clusterclaimer.go expects.  Pure operators  *)
(* over the facts of the cluster, f, and the calls that are lost: a        *)
(* RESTMapping that fails for whatever reason is taken for "not            *)
(* installed", and the same question is asked anew by every caller, so     *)
(* that the answers of one round need not agree.                           *)
(*                                                                         *)
(* f.git names the product in the version of Kubernetes, f.infra is the    *)
(* platform type of the Infrastructure (or None), f.arch and f.provider    *)
(* are those of the first node; versions, URLs and so on are opaque.       *)
(***************************************************************************)
EXTENDS FiniteSets

None == "none"
OCM == "open-cluster-management.io"

\* The facts of a cluster; what is not empty is a value that a claim may have.
Facts == [git : STRING, rosa : BOOLEAN, aro : BOOLEAN, ocp : BOOLEAN, osd : BOOLEAN, micro : BOOLEAN,
          infra : STRING, arch : STRING, provider : STRING, nodeRegion : STRING, ocpID : STRING,
          version : STRING, oauth : BOOLEAN, console : BOOLEAN, kube : STRING]
NotEmpty(f) == "" \notin {f.nodeRegion, f.ocpID, f.version, f.kube} /\ f.kube # None

\* Names of claims: the parts that "." joins, a domain being one part.
IDName == <<"id", "k8s.io">>
PlatformName == <<"platform", OCM>>
ProductName == <<"product", OCM>>
SchedulableName == <<"schedulable", OCM>>
ApiServerURLName == <<"apiserverurl", "openshift.io">>

\* The calls whose failure is taken for an answer: those that ask the RESTMapper, and the one for the
\* topology.
Calls == {"product", "dedicated", "aro", "id", "claims", "version", "console", "region", "topology"}

IsOpenShift(f, lost, call) == f.ocp /\ call \notin lost

\* The platforms of the products that the version of Kubernetes names.
GitPlatforms == [IKS |-> "IBM", ICP |-> "IBM", EKS |-> "AWS", GKE |-> "GCP"]

InfraPlatforms ==
    {"AWS", "Azure", "AlibabaCloud", "RHV", "GCP", "VSphere", "OpenStack", "BareMetal", "IBM", "KubeVirt", "Nutanix"}

PlatformByInfrastructure(f, product) ==
    <<f.infra, IF f.infra = "IBM" THEN "ROKS" ELSE product>>

ProviderPlatforms ==
    [ibm |-> "IBM", azure |-> "Azure", aws |-> "AWS", gce |-> "GCP", vsphere |-> "VSphere", openstack |-> "OpenStack"]

PlatformByNode(f, product) ==
    IF f.arch = "s390x" THEN <<"IBMZPlatform", product>>
    ELSE IF f.arch = "ppc64le" THEN <<"IBMPowerPlatform", product>>
    ELSE IF f.provider \in DOMAIN ProviderPlatforms
         THEN <<ProviderPlatforms[f.provider],
                IF f.provider = "azure" /\ product = "Other" THEN "AKS" ELSE product>>
    ELSE <<"Other", product>>

\* <<platform, product>>.  An outage turns OpenShift into Other, or, on a node of Azure, into AKS.
PlatformProduct(f, lost) ==
    LET ocp == IsOpenShift(f, lost, "product")
        base == IF f.osd /\ "dedicated" \notin lost THEN "OpenShiftDedicated"
                ELSE IF ocp THEN "OpenShift" ELSE "Other"
    IN  IF f.git \in DOMAIN GitPlatforms THEN <<GitPlatforms[f.git], f.git>>
        ELSE IF f.rosa THEN <<"AWS", "ROSA">>
        ELSE IF f.aro /\ "aro" \notin lost THEN <<"Azure", "ARO">>
        ELSE IF ocp /\ f.infra \in InfraPlatforms THEN PlatformByInfrastructure(f, base)
        ELSE PlatformByNode(f, IF f.micro THEN "MicroShift" ELSE base)

\* The version and the ID in the ClusterVersion; OpenShift 3 has none.
OCPVersion(f, lost, call) ==
    IF IsOpenShift(f, lost, call) /\ IsOpenShift(f, lost, "version")
    THEN [version |-> f.version, id |-> f.ocpID]
    ELSE [version |-> None, id |-> None]

\* kubeSystem says whether the namespace kube-system can be read: the last resort is a random ID.
ManagedClusterID(f, lost, kubeSystem) ==
    LET ocpID == OCPVersion(f, lost, "id").id
    IN  IF ocpID # None THEN ocpID ELSE IF kubeSystem THEN "uid" ELSE "random"

\* AWS and GCP say the region in the Infrastructure; otherwise the labels of the nodes do.
ClusterRegion(f, lost) ==
    IF IsOpenShift(f, lost, "region") /\ f.infra = None THEN None
    ELSE IF IsOpenShift(f, lost, "region") /\ f.infra \in {"AWS", "GCP"} THEN "region" ELSE f.nodeRegion

\* The console is only known of OpenShift.
ConsoleURL(f, lost) == IF IsOpenShift(f, lost, "console") /\ f.console THEN "console" ELSE None

NewClusterClaim(name, value) == [name |-> name, value |-> value, kind |-> "hub-managed"]
NewClusterClaimWithoutHubManaged(name, value) == [name |-> name, value |-> value, kind |-> "plain"]

OpenShiftClaims(f, lost) ==
    LET v == OCPVersion(f, lost, "claims")
    IN  IF ~IsOpenShift(f, lost, "claims") THEN {}
        ELSE {NewClusterClaim(<<"id", "openshift.io">>, v.id),
              NewClusterClaim(<<"version", "openshift.io">>, v.version),
              NewClusterClaim(<<"oauthredirecturis", "openshift.io">>, IF f.oauth THEN "uris" ELSE None)}
             \cup (IF f.infra = None THEN {}
                   ELSE {NewClusterClaim(<<"infrastructure", "openshift.io">>, "infra"),
                         NewClusterClaimWithoutHubManaged(ApiServerURLName, "url"),
                         NewClusterClaim(<<"controlplanetopology", "openshift.io">>,
                                         IF "topology" \in lost THEN None ELSE "topology")})

\* GenerateExpectClusterClaims: a fact that is not there is no claim.
ExpectedClaims(f, lost, kubeSystem, schedulable) ==
    LET pp == PlatformProduct(f, lost)
    IN  {c \in OpenShiftClaims(f, lost) \cup
               {NewClusterClaim(PlatformName, pp[1]),
                NewClusterClaim(ProductName, pp[2]),
                NewClusterClaim(IDName, ManagedClusterID(f, lost, kubeSystem)),
                NewClusterClaim(<<"consoleurl", "cluster", OCM>>, ConsoleURL(f, lost)),
                NewClusterClaim(<<"kubeversion", OCM>>, f.kube),
                NewClusterClaim(<<"region", OCM>>, ClusterRegion(f, lost)),
                NewClusterClaim(<<"version", "microshift.io">>, IF f.micro THEN "micro" ELSE None),
                NewClusterClaimWithoutHubManaged(SchedulableName, schedulable)} : c.value # None}

(***************************************************************************)
(* Nodes.                                                                  *)
(***************************************************************************)

\* network is the condition NetworkUnavailable; tainted is unreachable or not ready.
IsNodeReady(n) == n.ready /\ ~n.tainted /\ n.network # "True"
IsNodeSchedulable(n) == ~n.unschedulable /\ IsNodeReady(n)
ClusterSchedulable(nodes) == IF \E n \in nodes : IsNodeSchedulable(n) THEN "true" ELSE "false"
=============================================================================
