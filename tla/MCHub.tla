-------------------------------- MODULE MCHub --------------------------------
(***************************************************************************)
(* Hub for TLC: the claims and the nodes of the cluster, and the bounds.   *)
(***************************************************************************)
EXTENDS Hub

\* Claims and nodes of a cluster: of all kinds of vendors; with two kinds of workers.
Reported(product, platform, id, ocp) ==
    [product |-> product, platform |-> platform, id |-> id, k8sId |-> "k1", version |-> ocp,
     microShift |-> IF product = "MicroShift" THEN "v4.16" ELSE Unknown]
MCClaimSets ==
    {Reported("ROSA", "AWS", "ocp1", <<"4", "15", "2">>), Reported("OpenShiftDedicated", "GCP", "ocp1", <<"3">>),
     Reported("MicroShift", "Other", Unknown, <<>>), Reported(Unknown, Unknown, Unknown, <<>>)}
Machine(name, kinds, cpu, sockets) == [name |-> name, roles |-> kinds, cpu |-> cpu, sockets |-> sockets]
FirstNodes == {Machine("n1", {"master"}, 2, 1), Machine("n2", {}, 1, 1)}
MCNodeSets ==
    {FirstNodes,
     {Machine("n1", {"master", "worker"}, 2, 2), Machine("n2", {"infra"}, 1, 1)}}

MCAddonSubjects == {"u1", "u2"}

Bounds(changes, failures) == [churn |-> changes, faults |-> failures]
MCBound == [bindings |-> Bounds(3, 1), hive |-> Bounds(2, 1), global |-> Bounds(3, 2), addon |-> Bounds(3, 2),
            log |-> Bounds(4, 2), facts |-> Bounds(2, 1)]

\* No object is in a set yet, and one set of nodes is enough to begin with.
MCInit ==
    /\ HubInit
    /\ part = "bindings" => mapper = [s \in Sets |-> {}]
    /\ part = "facts" => nodes = FirstNodes

MCSpec == MCInit /\ [][HubNext]_hubVars /\ HubFairness
=============================================================================
