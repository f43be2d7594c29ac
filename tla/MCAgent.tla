------------------------------- MODULE MCAgent -------------------------------
(***************************************************************************)
(* Klusterlet for TLC: the clusters, their nodes and labels, the kinds of  *)
(* a view, the addresses and CAs, and the bounds.                          *)
(***************************************************************************)
EXTENDS Klusterlet, TLC

(* Clusters as the claims tell them apart, their nodes and labels. *)

Kubernetes == [git |-> "none", rosa |-> FALSE, aro |-> FALSE, ocp |-> FALSE, osd |-> FALSE, micro |-> FALSE,
               infra |-> "none", arch |-> "amd64", provider |-> "bare", nodeRegion |-> "none", ocpID |-> "none",
               version |-> "none", oauth |-> FALSE, console |-> FALSE, kube |-> "v1"]
OpenShift == [Kubernetes EXCEPT !.ocp = TRUE, !.infra = "Azure", !.provider = "azure", !.nodeRegion = "region2",
                                !.ocpID = "ocp-id", !.version = "v4", !.oauth = TRUE, !.console = TRUE]
MCClusters ==
    {OpenShift,
     [OpenShift EXCEPT !.osd = TRUE, !.infra = "BareMetal", !.provider = "bare"],
     [OpenShift EXCEPT !.ocpID = "none", !.version = "3", !.infra = "none", !.provider = "bare"],
     [OpenShift EXCEPT !.aro = TRUE],
     [Kubernetes EXCEPT !.provider = "azure", !.git = "EKS"],
     [Kubernetes EXCEPT !.micro = TRUE]}

Node(tainted, network) == [unschedulable |-> FALSE, ready |-> TRUE, tainted |-> tainted, network |-> network]
MCNodeLists == {{Node(FALSE, "Unknown")}, {Node(TRUE, "unset")}}

\* Labels of one name, without a value, and of the name of the ID; labels that are internal, or of no valid
\* name, or of names of other claims of the cluster; and no labels, or no info.
Label(key, value) == [key |-> key, value |-> value]
OCMDomain == "open-cluster-management.io"
MixedCase == "Open-Cluster-Management.io"
MCLabelSets ==
    {{Label(<<<<"env">>>>, "dev"), Label(<<<<"Env">>>>, "prod"), Label(<<<<"x">>>>, ""),
      Label(<<<<"k8s.io">>, <<"id">>>>, "mine")},
     {Label(<<<<"example.com">>, <<"team">>>>, "a"), Label(<<<<OCMDomain>>, <<"x">>>>, "a"),
      Label(<<<<"cloud">>>>, "a"), Label(<<<<"-">>>>, "a"), Label(<<<<"version", "openshift.io">>>>, "mine"),
      Label(<<<<"platform", MixedCase>>>>, "mine"), Label(<<<<"openshift.io">>, <<"apiserverurl">>>>, "mine")},
     {}}
MCDnsPart ==
    [env |-> "env", Env |-> "env", team |-> "team", x |-> "x", id |-> "id", version |-> "version",
     platform |-> "platform", apiserverurl |-> "apiserverurl"]
        @@ ("example.com" :> "example.com") @@ ("-" :> "-") @@ ("k8s.io" :> "k8s.io")
        @@ ("openshift.io" :> "openshift.io") @@ (OCMDomain :> OCMDomain) @@ (MixedCase :> OCMDomain)

MCOutages ==
    {{"product"}, {"aro"}, {"id"}, {"claims"}, {"version"}, {"topology"},
     {"product", "dedicated", "aro", "id", "claims", "version", "console", "region", "topology"}}

\* A kind with an alias, and secrets with one.
MCKindOf == [pods |-> "pods", secrets |-> "secrets", secret |-> "secrets"]

Bounds(changes, failures) == [churn |-> changes, faults |-> failures]
MCBound == [claims |-> Bounds(1, 1), view |-> Bounds(2, 1), config |-> Bounds(1, 1)]

\* The addresses and the CAs are symmetric: one to begin with is enough; so is one list of nodes, which a
\* change makes the other.  Without labels to sync, one kind of cluster is enough.
MCInit ==
    /\ AgentInit
    /\ part = "config" => server = [url |-> "url1", ca |-> "ca1"]
    /\ part = "claims" => nodes = {Node(FALSE, "Unknown")} /\ (~syncLabels => facts = OpenShift)

MCSpec == MCInit /\ [][AgentNext]_<<vars, partVars>> /\ AgentFairness
=============================================================================
