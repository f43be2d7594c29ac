--------------------------- MODULE UserPermissions ---------------------------
(***************************************************************************)
(* The user permission cache of the proxy server                           *)
(* (pkg/cache/userpermission): which users and groups have which role on   *)
(* which managed clusters.  Two processors fill it: one from the bindings  *)
(* and roles of the hub that allow to create ManagedClusterActions and     *)
(* ManagedClusterViews (the roles managedcluster:admin and :view), one     *)
(* from ClusterPermissions that bind discoverable ClusterRoles.            *)
(*                                                                         *)
(* A round computes a hash of the resourceVersions of what matters first   *)
(* and then, only if it is not that of the last rebuild, builds a new      *)
(* store; the world changes in between.                                    *)
(***************************************************************************)
EXTENDS Naturals

CONSTANTS
    Objects,         \* names of RBAC objects and ClusterPermissions
    Contents,        \* what each of them may contain
    InitialWorlds,
    Clusters,        \* names of managed clusters, which are their namespaces, too
    Requests,        \* users with their groups
    Absent,
    ClustersChange,  \* whether managed clusters come and go
    MaxChurn         \* bound: changes of the world

VARIABLES
    world, version,  \* the informers' caches: each object, its resourceVersion
    clusters,        \* the managed clusters
    pc, newHash, staged, \* a round
    permissions, roles, resourceVersionHash, \* the cache
    churn            \* bounded counter

worldVars == <<world, version, clusters>>
roundVars == <<pc, newHash, staged>>
cacheVars == <<permissions, roles, resourceVersionHash>>
vars == <<worldVars, roundVars, cacheVars, churn>>

Admin == "managedcluster:admin"
View == "managedcluster:view"
Everywhere == "*"

OfKind(w, kind) == {o \in Objects : w[o] # Absent /\ w[o].kind = kind}

(***************************************************************************)
(* What bindings grant: a set of records of a subject, a role, a cluster   *)
(* and a namespace, Everywhere for the whole cluster.                      *)
(***************************************************************************)
Covers(items, item) == items \cap {Everywhere, item} # {}

RulesGrantPermission(rules, resource, group) ==
    \E r \in rules : Covers(r.groups, group) /\ Covers(r.resources, resource) /\ Covers(r.verbs, "create")

\* checkRulesForPermissions: an admin needs both, and is not a viewer besides.
SyntheticRoles(rules) ==
    IF ~RulesGrantPermission(rules, "managedclusterviews", "view") THEN {}
    ELSE IF RulesGrantPermission(rules, "managedclusteractions", "action") THEN {Admin} ELSE {View}

\* The role that a binding refers to: for a ClusterRoleBinding always a ClusterRole.
Referenced(w, b) ==
    {o \in Objects :
        /\ w[o] # Absent /\ w[o].kind \in {"ClusterRole", "Role"} /\ w[o].name = w[b].role
        /\ w[o].kind = IF w[b].kind = "ClusterRoleBinding" THEN "ClusterRole" ELSE w[b].roleKind
        /\ w[o].kind = "Role" => w[o].namespace = w[b].namespace}

\* RBACSubjectsToUsersAndGroups: a ServiceAccount is a user.
UsersAndGroups(subjects) == {IF s.kind = "Group" THEN s ELSE [s EXCEPT !.kind = "User"] : s \in subjects}

\* addSyntheticPermissions, processClusterRoleBindings, processRoleBindings.
Reach(w, b, cs) == IF w[b].kind = "ClusterRoleBinding" THEN cs ELSE cs \cap {w[b].namespace}

BindingsOf(w) == OfKind(w, "ClusterRoleBinding") \cup OfKind(w, "RoleBinding")

\* What is assumed of the constants; a module that instantiates this one assumes it: subjects have a kind and
\* a name, a ClusterPermission is in the namespace of a cluster, and no ClusterRole that is discoverable has
\* the name of the role that stands for the permission to act.
WorldAssumption ==
    /\ \A o \in Objects : \A c \in Contents[o] :
          /\ c.kind \in {"ClusterRoleBinding", "RoleBinding"} =>
                \A s \in c.subjects : s = [kind |-> s.kind, name |-> s.name]
          /\ c.kind = "ClusterPermission" => c.namespace \in Clusters
          /\ c.kind = "ClusterRole" /\ c.discoverable => c.name # Admin
    /\ \A w \in InitialWorlds : w = [o \in Objects |-> w[o]] /\ \A o \in Objects : w[o] \in Contents[o] \cup {Absent}
    /\ MaxChurn \in Nat

AdminViewGrants(w, cs) ==
    UNION {UNION {[subject : UsersAndGroups(w[b].subjects), role : SyntheticRoles(w[o].rules),
                   cluster : Reach(w, b, cs), namespace : {Everywhere}] : o \in Referenced(w, b)} :
              b \in BindingsOf(w)}

DiscoverableRoles(w) == {o \in OfKind(w, "ClusterRole") : w[o].discoverable}

\* processClusterRoleBinding and processRoleBinding: bindings of discoverable roles count, and in them users and groups.
DiscoverableGrants(w) ==
    UNION {UNION {[subject : {s \in b.subjects : s.kind \in {"User", "Group"}}, role : {b.role},
                   cluster : {w[p].namespace}, namespace : {b.namespace}] :
                     b \in {x \in w[p].bindings : \E o \in DiscoverableRoles(w) : w[o].name = x.role}} :
              p \in OfKind(w, "ClusterPermission")}

\* mergeOrAppendBinding: a cluster's binding covers those of its namespaces.
Merged(grants) ==
    {g \in grants : g.namespace # Everywhere => [g EXCEPT !.namespace = Everywhere] \notin grants}

(***************************************************************************)
(* What users are shown.                                                   *)
(***************************************************************************)

\* Mutant: an admin of some cluster loses all views.
DropAllViews(grants) ==
    {g \in grants : g.role = View => ~\E a \in grants : a.role = Admin}

\* Who is the admin of a cluster is not shown as its viewer.
DropViews(grants) ==
    {g \in grants : g.role = View => ~\E a \in grants : a.role = Admin /\ a.cluster = g.cluster}

\* getPermissions: those of the user and of the groups, merged.
OwnGrants(u) ==
    {[role |-> g.role, cluster |-> g.cluster, namespace |-> g.namespace] :
        g \in {x \in permissions : x.subject \in {[kind |-> "User", name |-> u.name]}
                                                 \cup [kind : {"Group"}, name : u.groups]}}
GetPermissions(u) == DropViews(Merged(OwnGrants(u)))

\* Get and List of the cache, with the rules of the role; the label selector does not matter.
Get(u, name) ==
    [bindings |-> {g \in GetPermissions(u) : g.role = name},
     rules |-> IF name \in {Admin, View} THEN name ELSE {r.rules : r \in {x \in roles : x.name = name}}]
List(u) == {name \in {g.role : g \in GetPermissions(u)} : TRUE}

(***************************************************************************)
(* The hash.                                                               *)
(***************************************************************************)
Versions(objects) == {<<o, version[o]>> : o \in objects}

\* Mutant: a Role is not looked at again.
TracksClusterRoles(o) == world[o].kind = "ClusterRole" /\ ~world[o].discoverable

\* trackClusterRoleVersion: discoverable roles are left to the other processor.
TracksRole(o) == world[o].kind = "Role" \/ ~world[o].discoverable

\* Bindings that grant something, RoleBindings in namespaces of managed clusters only, and their roles.
Granting(b) ==
    /\ world[b].kind = "RoleBinding" => world[b].namespace \in clusters
    /\ \E o \in Referenced(world, b) : SyntheticRoles(world[o].rules) # {}

AdminViewHash ==
    Versions({b \in BindingsOf(world) : Granting(b)})
      \cup UNION {Versions({o \in Referenced(world, b) : TracksRole(o)}) :
                     b \in {x \in BindingsOf(world) : Granting(x)}}

DiscoverableHash == Versions(DiscoverableRoles(world) \cup OfKind(world, "ClusterPermission"))

Hash == <<AdminViewHash, DiscoverableHash>>

(***************************************************************************)
(* The world, and the rounds of synchronize.                               *)
(***************************************************************************)
Init ==
    /\ world \in InitialWorlds /\ version = [o \in Objects |-> 0]
    /\ clusters \in IF ClustersChange THEN SUBSET Clusters ELSE {Clusters}
    /\ pc = "idle" /\ newHash = <<{}, {}>> /\ staged = {}
    /\ permissions = {} /\ roles = {} /\ resourceVersionHash = <<>>
    /\ churn = 0

\* An informer's cache takes up a change.
WorldChanges ==
    /\ churn < MaxChurn
    /\ churn' = churn + 1
    /\ \/ /\ \E o \in Objects : \E c \in Contents[o] \cup {Absent} :
                /\ c # world[o]
                /\ world' = [world EXCEPT ![o] = c]
                /\ version' = [version EXCEPT ![o] = IF c = Absent THEN 0 ELSE churn']
          /\ UNCHANGED clusters
       \/ /\ ClustersChange
          /\ \E c \in Clusters : clusters' = IF c \in clusters THEN clusters \ {c} ELSE clusters \cup {c}
          /\ UNCHANGED <<world, version>>
    /\ UNCHANGED <<roundVars, cacheVars>>

\* calculateResourceVersionHash, one processor after the other, without the lock.
HashAdminView ==
    /\ pc = "idle"
    /\ newHash' = <<AdminViewHash, {}>>
    /\ pc' = "hash"
    /\ UNCHANGED <<worldVars, staged, cacheVars, churn>>

HashDiscoverable ==
    /\ pc = "hash"
    /\ newHash' = [newHash EXCEPT ![2] = DiscoverableHash]
    /\ pc' = IF newHash' = resourceVersionHash THEN "idle" ELSE "adminView"
    /\ UNCHANGED <<worldVars, staged, cacheVars, churn>>

SyncAdminView ==
    /\ pc = "adminView"
    /\ staged' = AdminViewGrants(world, clusters)
    /\ pc' = "discoverable"
    /\ UNCHANGED <<worldVars, newHash, cacheVars, churn>>

\* The end of synchronize with a hash for the store.
Stores(hash) ==
    /\ pc = "discoverable"
    /\ permissions' = Merged(staged \cup DiscoverableGrants(world))
    /\ roles' = {[name |-> world[o].name, rules |-> world[o].rules] : o \in DiscoverableRoles(world)}
    /\ resourceVersionHash' = hash
    /\ pc' = "idle" /\ staged' = {} /\ newHash' = <<{}, {}>>
    /\ UNCHANGED <<worldVars, churn>>

\* Mutant: the hash is computed again when the store is built.
StoresLateHash == Stores(Hash)

SyncDiscoverable == Stores(newHash)

Synchronize == HashAdminView \/ HashDiscoverable \/ SyncAdminView \/ SyncDiscoverable

Next == WorldChanges \/ Synchronize

Spec == Init /\ [][Next]_vars
Fairness == WF_vars(Synchronize)
FairSpec == Spec /\ Fairness

(***************************************************************************)
(* Properties.                                                             *)
(***************************************************************************)
Granted == AdminViewGrants(world, clusters) \cup DiscoverableGrants(world)

\* The cache holds bindings of users and groups to clusters, at most one for a whole cluster; an admin
\* may view and act.
TypeOK ==
    /\ clusters \subseteq Clusters /\ pc \in {"idle", "hash", "adminView", "discoverable"}
    /\ \A g \in permissions :
          /\ g.subject.kind \in {"User", "Group"} /\ g.cluster \in Clusters
          /\ g.namespace # Everywhere => [g EXCEPT !.namespace = Everywhere] \notin permissions
    /\ \A o \in Objects : version[o] \in 0..MaxChurn
    /\ \A rs \in {world[o].rules : o \in OfKind(world, "ClusterRole")} :
          Admin \in SyntheticRoles(rs) => RulesGrantPermission(rs, "managedclusterviews", "view")

\* store.go: whatever is cached for a user or one of the user's groups is shown, or something that
\* covers it: the whole cluster for a namespace, admin for view.
NothingLost ==
    \A u \in Requests : \A g \in OwnGrants(u) :
        \E s \in Get(u, g.role).bindings \cup Get(u, Admin).bindings :
            /\ s.role = g.role \/ g.role = View
            /\ s.cluster = g.cluster /\ s.namespace \in {Everywhere, g.namespace} /\ s.role \in List(u)

\* "a hash of the resources relevant to" the permissions: as long as the clusters stay, no permission is
\* granted or revoked without a change of the hash.
HashMoves == UNCHANGED clusters /\ Merged(Granted') # Merged(Granted) => Hash' # Hash
HashTells == [][HashMoves]_vars

\* In the end everything that is granted is in the cache, although hash and store are of different
\* moments.  (Not the converse: what came and went between the two may stay.)
Shown == \A g \in Granted : {g, [g EXCEPT !.namespace = Everywhere]} \cap permissions # {}
EventuallyShown == <>[]Shown

\* synchronize: a round that finds the hash of the last rebuild may stop, for nothing that is granted is
\* missing, although the rebuild read the world after its hash, in two steps, and the world may have moved
\* on between any of them.
NothingMissing == resourceVersionHash = Hash => Shown
=============================================================================
