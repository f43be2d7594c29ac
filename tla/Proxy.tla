-------------------------------- MODULE Proxy --------------------------------
(***************************************************************************)
(* Access and routing.  The cache of what subjects may see (AuthCache,     *)
(* which this module extends) and four parts that share no object with it  *)
(* or with each other: the user permissions, the validating webhook, the   *)
(* identity that an action carries, and the routes of the proxy.  A        *)
(* behaviour is one of one part, chosen initially, and leaves the          *)
(* variables of the others alone.                                          *)
(***************************************************************************)
EXTENDS AuthCache, Sequences

CONSTANTS
    Objects, PermissionContents, InitialWorlds, ManagedClusters, Requests,        \* of UserPermissions
    WebhookNames, WebhookSets, Global, Default, NoSet, WebhookUsers, Joins, InitialObjects, \* of Webhooks
    IdentityUsers, Nobody, IdentityGroups, SkipOverwriteUserList, TeamGroups,     \* of UserIdentity
    ConfigMapNames, Subs, Forbidden, Failed,                                      \* of ProxyRoutes
    Absent,  \* no object of a name
    Bound,   \* the bounds of these parts: changes by others, failures, requests
    None     \* no object; the value of a variable that no part uses

VARIABLES
    part,                                \* the part that runs
    partChurn, partFaults,               \* its bounded counters
    world, version, clusters, userPc, newHash, staged, permissions, userRoles, resourceVersionHash,
    objects, seen, admitted, requests,
    roleBindings, annotations, author, identity,
    configMaps, lister, queue, secret, ca, signer, oldest, routes, routesMoved

userVars == <<world, version, clusters, userPc, newHash, staged, permissions, userRoles, resourceVersionHash>>
hookVars == <<objects, seen, admitted, requests>>
identityVars == <<roleBindings, annotations, author, identity>>
routeVars == <<configMaps, lister, queue, secret, ca, signer, oldest, routes, routesMoved>>
proxyVars == <<vars, part, partChurn, partFaults, userVars, hookVars, identityVars, routeVars>>

Permissions == INSTANCE UserPermissions WITH churn <- partChurn, pc <- userPc, roles <- userRoles,
    Contents <- PermissionContents, Clusters <- ManagedClusters, ClustersChange <- FALSE,
    MaxChurn <- Bound.users.churn

Hooks == INSTANCE Webhooks WITH Names <- WebhookNames, Sets <- WebhookSets, Users <- WebhookUsers,
    MaxRequests <- Bound.webhook.requests, MaxAdmitted <- Bound.webhook.admitted

Identity == INSTANCE UserIdentity WITH Users <- IdentityUsers, Groups <- IdentityGroups, RoleBindings <- TeamGroups

Routes == INSTANCE ProxyRoutes WITH churn <- partChurn, faults <- partFaults, moved <- routesMoved,
    Names <- ConfigMapNames, MaxChurn <- Bound.routes.churn, MaxFaults <- Bound.routes.faults

ASSUME PermissionsAssumption == Permissions!WorldAssumption
ASSUME HooksAssumption == Hooks!InitialAssumption /\ Hooks!LimitsAssumption
ASSUME RoutesAssumption == Routes!LimitsAssumption

-----------------------------------------------------------------------------
NoUsers ==
    /\ world = None /\ version = None /\ clusters = None /\ userPc = None /\ newHash = None /\ staged = None
    /\ permissions = None /\ userRoles = None /\ resourceVersionHash = None
NoHooks == objects = None /\ seen = None /\ admitted = None /\ requests = None
NoIdentity == roleBindings = None /\ annotations = None /\ author = None /\ identity = None
NoRoutes ==
    /\ configMaps = None /\ lister = None /\ queue = None /\ secret = None /\ ca = None /\ signer = None
    /\ oldest = None /\ routes = None /\ routesMoved = None

\* The cache of a process that has just started, with nothing to see.
NoAccess == Init /\ received = Empty(Items)

ProxyInit ==
    \/ /\ part = "access" /\ Init /\ NoUsers /\ NoHooks /\ NoIdentity /\ NoRoutes
       /\ partChurn = None /\ partFaults = None
    \/ /\ part = "users" /\ NoAccess /\ Permissions!Init /\ NoHooks /\ NoIdentity /\ NoRoutes
       /\ partFaults = None
    \/ /\ part = "webhook" /\ NoAccess /\ NoUsers /\ Hooks!Init /\ NoIdentity /\ NoRoutes
       /\ partChurn = None /\ partFaults = None
    \/ /\ part = "identity" /\ NoAccess /\ NoUsers /\ NoHooks /\ Identity!Init /\ NoRoutes
       /\ partChurn = None /\ partFaults = None
    \/ part = "routes" /\ NoAccess /\ NoUsers /\ NoHooks /\ NoIdentity /\ Routes!Init

ProxyNext ==
    /\ UNCHANGED part
    /\ \/ /\ part = "access" /\ Next
          /\ UNCHANGED <<partChurn, partFaults, userVars, hookVars, identityVars, routeVars>>
       \/ /\ part = "users" /\ Permissions!Next
          /\ UNCHANGED <<vars, partFaults, hookVars, identityVars, routeVars>>
       \/ /\ part = "webhook" /\ Hooks!Next
          /\ UNCHANGED <<vars, partChurn, partFaults, userVars, identityVars, routeVars>>
       \/ /\ part = "identity" /\ Identity!Next
          /\ UNCHANGED <<vars, partChurn, partFaults, userVars, hookVars, routeVars>>
       \/ /\ part = "routes" /\ Routes!Next
          /\ UNCHANGED <<vars, userVars, hookVars, identityVars>>

\* The fairness of each part, while it runs; the webhook and the identity need none.
AccessFairness ==
    /\ WF_vars(part = "access" /\ Round)
    /\ \A i \in Items : WF_vars(part = "access" /\ Index(i))
    /\ \A kind \in Kinds : WF_vars(part = "access" /\ Bookmark(kind))

RouteFairness ==
    \A n \in ConfigMapNames :
       /\ WF_(Routes!vars)(part = "routes" /\ Routes!Deliver(n))
       /\ SF_(Routes!vars)(part = "routes" /\ Routes!Sync(n))

ProxySpec ==
    /\ ProxyInit /\ [][ProxyNext]_proxyVars
    /\ AccessFairness /\ WF_(Permissions!vars)(part = "users" /\ Permissions!Synchronize) /\ RouteFairness

-----------------------------------------------------------------------------
\* The states of the parts are of their types: among others no binding of a namespace is kept besides one
\* of its cluster, there are only supported cluster sets, and a route has no certificate of a CA to come.
PartsTypeOK ==
    CASE part \in {"access", "identity"} -> TRUE
      [] part = "users" -> Permissions!TypeOK
      [] part = "webhook" -> Hooks!TypeOK
      [] part = "routes" -> Routes!TypeOK

\* getPermissions: what is cached for a user or a group is shown, or what covers it (NothingLost of
\* UserPermissions).
NothingLost == part = "users" => Permissions!NothingLost

\* calculateResourceVersionHash: no permission changes without the hash, as long as the clusters stay
\* (HashTells of UserPermissions).
HashTells == [][part = "users" => Permissions!HashMoves]_proxyVars

\* synchronize: a round that stops because the hash is that of the last rebuild leaves nothing out
\* (NothingMissing of UserPermissions).
NothingMissing == part = "users" => Permissions!NothingMissing

\* In the end all that is granted is in the cache (EventuallyShown of UserPermissions).
EventuallyShown == <>[](part = "users" => Permissions!Shown)

\* A cluster claimed from a pool stays in its set (ClaimedStays of Webhooks).
ClaimedStays == [][part = "webhook" => Hooks!KeepsClaimed]_proxyVars

\* Nothing is put in a set or taken out of one but by who may join (OnlyMembers of Webhooks).
OnlyMembers == [][part = "webhook" => Hooks!MovedByMember]_proxyVars

\* The agent acts for the last author of an action and for none of the groups of others (ActsForAuthor of
\* UserIdentity).
ActsForAuthor == part = "identity" => Identity!ActsForAuthor

\* A request is served by the service that a ConfigMap names, with the certificate in use
\* (EventuallyServed of ProxyRoutes).
EventuallyServed == <>[](part = "routes" => \A s \in Subs : Routes!Served(s))
=============================================================================
