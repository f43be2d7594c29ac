------------------------------- MODULE MCProxy -------------------------------
(***************************************************************************)
(* Proxy for TLC: the roles and bindings, the objects of the permissions   *)
(* and of the webhook, the users with their groups, and the bounds.        *)
(***************************************************************************)
EXTENDS Proxy, MCPermissionObjects

CONSTANTS r1, r2, b1, b2

\* AuthCache: two bindings to two roles.
MCRoles == {r1, r2}
MCBindings == {b1, b2}
MCRoleOf == [b \in MCBindings |-> IF b = b1 THEN r1 ELSE r2]

\* Webhooks: an admin and a member of a set; clusters claimed from a pool, in a set, hosted and alone.
MCWebhookNames == {"c1", "c2"}
MCWebhookSets == {"s1", "global", "default"}
MCJoins == [u \in {"admin", "member"} |-> IF u = "admin" THEN {"none"} ELSE {"s1"}]
NoObject ==
    [k \in ({"cluster", "deployment"} \X MCWebhookNames) \cup {<<"pool", "pool">>} \cup ({"set"} \X MCWebhookSets) |-> None]
Put(os, k, o) == [os EXCEPT ![k] = o]
ManagedCluster(set, local) == [set |-> set, local |-> local, hostedBy |-> None, hosting |-> FALSE, dying |-> FALSE]
PooledDeployment(set) == [set |-> set, pooled |-> TRUE, agentOwned |-> FALSE]
MCInitialObjects ==
    {NoObject,
     Put(Put(NoObject, <<"cluster", "c1">>, ManagedCluster("s1", TRUE)), <<"deployment", "c1">>, PooledDeployment("s1")),
     Put(Put(NoObject, <<"cluster", "c1">>, ManagedCluster("none", FALSE)), <<"deployment", "c1">>,
         PooledDeployment("none")),
     Put(Put(NoObject, <<"cluster", "c2">>, [ManagedCluster("s1", FALSE) EXCEPT !.hostedBy = "c1"]),
         <<"cluster", "c1">>, ManagedCluster("default", FALSE)),
     Put(NoObject, <<"pool", "pool">>, [set |-> "s1"])}

\* UserIdentity: groups of all forms, with commas in two of them.
Named(piece) == <<piece>>
Team == Named(<<"icp", "ns", "team">>)
TeamWithComma == << <<"icp", "ns", "other">>, <<"devs">> >>
MCIdentityUsers == {"alice", "bob", "controller"}
MCIdentityGroups ==
    [u \in MCIdentityUsers |->
        CASE u = "alice" -> {Named(<<"icp", "default", "member">>), Team, Named(<<"system", "authenticated">>)}
          [] u = "bob" -> {Team, TeamWithComma, Named(<<"icp", "x">>), Named(<<"system">>),
                           << <<"devs">>, <<"system", "x">>, <<"icp", "ns", "others">> >>}
          [] u = "controller" -> {Named(<<"system", "serviceaccounts">>)}]
MCTeamGroups == {Team, TeamWithComma}

MCInitialWorlds == MCWorlds(Absent)

MCBound == [users |-> [churn |-> 2], webhook |-> [requests |-> 2, admitted |-> 2],
            routes |-> [churn |-> 3, faults |-> 1]]
=============================================================================
