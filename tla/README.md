# A TLA+ development of multicloud-operators-foundation

The repository is the "foundation" of a multicluster hub: controllers, an aggregated API server and webhooks on the hub, and an agent
(klusterlet) on every managed cluster.  This directory holds TLA+ modules of its control logic, TLC configurations that check them on
small instances, and TLAPS proofs for instances of any size.  `PROJECT.json` maps every definition to source lines, and lists the
runs, the mutants that show each property can fail, the hazards, the findings and the theorems.

## 1. The system

Everything persistent is a Kubernetes object in the hub's API server.  Every process is a set of goroutines that talk only through it,
with two exceptions: in `src/cmd/controller` the cluster set controllers share three in-memory *mappers* and two *AuthCaches*, and in
`src/cmd/proxyserver` the REST storages share two AuthCaches, the watcher lists and the list of proxy services.  A controller reads
the manager's cache, which trails the API server; it writes to the API server, where an `Update` of an object that has moved on is
refused and a merge patch is not.  Its workqueue holds a key once; a failed Reconcile is queued again; a restart re-lists everything
and forgets whatever was in memory.

### Components

| Component | State | Operations | Talks to | What is hard | Correct when |
|---|---|---|---|---|---|
| ClusterSet controller (`pkg/controllers/clusterset/clustersetmapper`) | ClusterRoles per set, finalizer of the set, three mappers | Reconcile of a set; handlers of clusters, claims, pools, deployments | mappers → binding controllers | stale copy of a recreated set; steps torn by errors and restarts; an object leaving a set must re-sync the set it left | nothing is left of a deleted set; no label change is lost |
| ClusterSetMapper (`pkg/helpers`) | set → objects, behind a lock | update, delete, get, union | read by binding controllers, some of it outside the lock | readers tear | as above |
| AuthCache (`pkg/cache`) | records of users and groups, known subjects, last resourceVersions | `synchronize` on a timer (1 s in the API server, 5 s in the controller); `List` | informers → binding controllers, clusterview API | skip decided by reflectors while indexers lag; bindings and roles read at different times; deletion by difference to the last round | a record says what RBAC says, in the end |
| Cache watchers (`pkg/cache/watcher.go`) | watcher list, known names, two channels per watch | `GroupMembershipChanged`, `Watch`, Add/RemoveWatcher | AuthCache → client | locks held across channel sends; slow or stopping client; initial objects before events | the client sees what the cache knows, in order; nothing leaks or blocks |
| Binding controllers (`syncrolebinding`, `syncclusterrolebinding`, `utils/role.go`) | managed (Cluster)RoleBindings | one round every 5 s for admin and for view | mappers, AuthCaches, bindings informer | torn reads, stale informer, restart with empty mappers | bindings are those of the users of the sets |
| Global set controller (`clusterset/globalclusterset`) | annotation of the global set; its namespace, binding and placement | Reconcile | ClusterSet controller | the namespace is read but not watched, and may be deleted for good | the namespace has its objects, or is let go |
| Cluster set label controllers (`clusterdeployment`, `clusterclaim`) | the cluster set label | copy it from pool/cluster to deployment, from deployment to claim | each other, one hop per controller | chains of stale caches | labels agree in the end |
| ClusterRole controller (`clusterrole`) | two ClusterRoles and a finalizer per cluster | Reconcile | shares the finalizer list | conflicts; steps torn by failures | roles live and go with the cluster |
| ManagedClusterInfo controllers (`clusterinfo`, `clusterca`) | ManagedClusterInfo, another finalizer, conditions, endpoint, client configs, labels, capacity | Reconcile; auto-detection; capacity; CA | shares the finalizer list; status also written by the agent | merge patches; two writers of one status | the info lives and goes with the cluster; what it says is what the cluster is |
| Image registry controller (`imageregistry`) | label and annotation on clusters, finalizer, condition | Reconcile; label, release, clean | placement decisions; all registries compete for clusters | stale labels; partial failures; nothing watches clusters | a cluster is released only by its own registry |
| Garbage collection (`gc`) | ManagedClusterActions; a finalizer that old versions put on ClusterRoles | delete 60 s after a report; remove the finalizer, once per start | action controller | deletion while the agent retries | collected after a report, and always |
| Managed service account controller | a ManagedServiceAccount per cluster | create, update, delete | two add-ons; the log sub-resource | the account is not watched | logs are served when both add-ons are there |
| Work manager add-on (`addon`) | RoleBinding; manifests | createOrUpdateRoleBinding; chart values | add-on framework | object of the cache changed before Update | the agent that has registered is let in |
| Webhooks (`webhook`) | none | admit clusters, sets, deployments, pools; write the author's identity | read other objects | check-then-act; stale lists | moves between sets are authorized; claimed clusters stay; the agent acts for the author |
| Proxy service routes (`proxyserver/getter`, `controller`) | list of service infos | add, update, remove on ConfigMap events | REST proxy | changed sub-resource; rotated certificates; tombstones | a request reaches the service a ConfigMap names |
| User permission cache (`cache/userpermission`) | permissions per user and group, hash of the last round | synchronize; list and get | userpermission API | hash of another moment than the contents; what is dropped as covered | what is granted is shown; nothing is lost |
| Klusterlet action controller | condition of the action | apply, report | hub API server; collector | applied before it is reported | done only after its effect, success is final |
| Klusterlet view controller | result and condition of the view | query, report | RESTMapper | scope changes during the query; kinds come later; secrets | the result is of the scope, and never a secret |
| Klusterlet cluster claims | ClusterClaims | detect product, platform, id, …; claims from labels; clean | every API call may fail | an outage looks like another cluster; labels of the names of claims | what every round expects stays; all agree in the end |
| Klusterlet cluster info, node collector | status of the info | Reconcile, timers | the hub's controllers write the same status | conflicts; offline clusters | see the hub's |
| REST storages and printers, generated APIs, helpers, `main`s | none | stateless requests, formatting, flags | – | – | – |

The main flow is: *labels on clusters and hive objects* → **ClusterSetController** → mappers, and *ClusterRoles and
bindings of users* → **AuthCache** → records; both → **BindingSync** → RBAC bindings per cluster and namespace; and AuthCache →
**CacheWatcher** → the clusterview watches.  Everything else follows one kind of object that several actors write: a cluster's finalizers, its
status, its claims, an action, a view, a ConfigMap.

## 2. Modules

Common conventions.  An object at the API server is `obj` (or `api`, `label`, `live`), its copy in a cache `seen` (`cache`, `cached`,
`labelSeen`, `indexed`, `lister`), and what is in between `wire`, or a flag (`lag`, `dirty`) where only the last state counts.  `fresh` says that a worker's copy still is the current one, which is what
the resourceVersion check of an `Update` tells: writes conflict when it is false.  A worker's `pc` is the next API call of Reconcile,
so that everything else may happen between any two calls.  `churn` counts what users do and `faults` counts failures, restarts
included; `MaxChurn` and `MaxFaults` bound them for TLC, and no proof depends on their values.  Definitions whose comment starts with "Mutant" are
in no specification; each is a plausible mistake, substituted for the definition it stands next to, to see that a property notices.

### Cluster sets and permissions

**ClusterSetController** (`clusterset_controller.go`).  `Start … RemoveFinalizer` are the steps of `Reconcile` in their order:
finalizer, `applyClusterSetClusterRoles`, `syncClustersetMapper` (two mappers, or the global one), or `cleanClusterSetResource`
and the removal of the finalizer.  `HandleEvent` is the watch handlers with `getRequiredClusterSet`: it runs some time after the cache has
changed, is called with the old and the new labels, and looks into the mappers of *that* moment.  A hive object's namespace, not its
name, is what the namespace mapper holds (`NamespaceOf`), and a namespace may be in several sets, one of which `GetObjectClusterset`
names.  `CallFails`, `ApplyRolesFails` and `CleanFails` end Reconcile at each call, with any prefix (deletion) or any subset
(creation, which goes on after an error) done.  `Restart` empties the mappers and re-lists.  Left out: the rules inside the roles.

**AuthCache** (`subjectrecord.go`, `managedcluster.go`, `managedclusterset.go`).  `received` is what the reflectors have queued and
`indexed` what the listers return; `moved` is the comparison of resourceVersions that `skipSynchronize` makes, and is cleared at the
*start* of a round.  A round lists resources, then bindings, then looks up one role at a time; then it writes the records of who has something,
and deletes who the last round knew and this one did not find.  Users and groups run the same code on two stores and are one set `Subjects`.

**BindingSync** (`syncrolebinding_controller.go`, `syncclusterrolebinding_controller.go`, `utils/role.go`, the readers of the mapper).
The four loops (cluster or namespace, admin or view) differ in the order of reading, in the sets they read and in the selector that
lists what may be deleted; `kind` and `role` are variables that never change, so that one run checks several of them.
Mappers and records change at any time (`UpdateMapper`, `UpdateSubjects`); `ReadSet` reads one set at a time.  `ObjectClusterset`
returns any of the sets an object is in, as Go's map order does.

**CacheWatcher** (`watcher.go`, `notifyWatchers`, the two `Watch` methods).  One user with some groups; two goroutines and a client per
watch, and the goroutine of `synchronize`, which holds `watcherLock` from `WriteRecord` to `Unlock`.  `Send` on a full channel calls
`RemoveWatcher`, which waits for the lock its own goroutine holds: `spc = "blocked"`.  `missing` are names whose object the lister does not (yet) return.

**UserPermissions** (`cache/userpermission`).  A round is `HashAdminView`, `HashDiscoverable`, `SyncAdminView`, `SyncDiscoverable`, and the world moves on
between any two: the hash that is stored is that of what was read first.  `AdminViewGrants` and `DiscoverableGrants` are the two
processors over the rules of roles, and `AddBinding`, `DropViews` the store, which keeps one binding for a whole cluster instead of those of its
namespaces, and drops views that an admin has anyway.  `MCPermissionObjects` has the small universe of roles and bindings for TLC.

**GlobalSet** (`globalclusterset`).  Reconcile creates the namespace once, which the annotation records, and then keeps a binding and a
placement in it.  Namespaces end slowly and take their objects with them; `uninstalling` is somebody who deletes it for good, again if need be.

**HiveLabels** (`clusterdeployment`, `clusterclaim`).  One deployment with its pool or cluster (`source`), and the claim that claims it; two controllers,
each with its own queue, cache and label about to be written (`held`).

### Clusters

**ClusterLifecycle** (`clusterrole_controller.go`, `clusterinfo_controller.go`).  One cluster, two controllers, one finalizer list: `Update` with
a resourceVersion (`roleFresh`) on one side, a merge patch without it (`infoCopy`, `Patch`) on the other.  The API server's rules
are explicit in `Finalized` and `Patch`: the last finalizer takes a dying object away, a dying object gets no new finalizer, a patch that changes nothing writes nothing.
Left out: the spec of the ManagedClusterInfo and the add-on condition.

**ClusterFacts** (`clusterinfo_controller.go`, `autodetect_controller.go`, `capacity_controller.go`, the agent's `defaultInfo_sync.go` and `nodecollecter.go`).  What the hub tells of a cluster: conditions, nodes, vendor, identity, version and worker capacity, written by three
controllers and two goroutines of the agent, each from a copy (`report` is the collector's).  Product and platform
names are those of the code; `GetKubeVendor`, `GetCloudVendor`, `ParseOCPVersion` and `IsWorker` are its functions.  `DistributionInfo` marks a cluster as OCP when its vendor
is OpenShift, and nothing takes the mark off: `CountWorkers` goes by it (`IsOCP`), not by the vendor of the moment.

**ClientConfig** (`clusterca_controller.go`, the endpoint of `clusterinfo_controller.go`, the agent's `klusterlet/clusterinfo/controller.go` and
`distributionInfo_sync.go`).  One OpenShift cluster whose API server has an address and a CA.  The agent's Reconcile (`AgentSync`, `AgentWrite`) writes them
into the status; `Start`, `UpdateCluster` and `UpdateStatus` are the CA controller, which merges them into the client configs and then
records the address; `UpdateEndpoint` copies the first address back.  All write with `Update` (`reportFresh`, `infoFresh`, `configsFresh`).
`AgentSyncFails` keeps what the code leaves of the DistributionInfo on an error.  Left out: every other field of the two objects.

**ClusterIdentity** and **ClusterClaims** (`klusterlet/clusterclaim`).  ClusterIdentity has pure operators: each claim as a function of the facts of a
cluster and of the calls that are *lost*; a failed call is taken for "not installed", and each caller asks on its own, so that the answers of one
round need not agree.  ClusterClaims is `syncClaims` around them: expected claims, create or update one by one with `UpdateChecks`, list the rest
from the cache and delete what is not expected, for the cluster's own claims and, if the flag `syncLabels` says so, for those made of the labels of the info.
Writing and deleting go on after a failed call and end the round with its error; any of the calls may fail together (`Lost`).  A name is the sequence of
the parts that "." joins, so that labels meet each other and the claims of the cluster by name, as they do in the code: such a claim is rewritten
by both, in turns, for as long as the label is there, and the writes of labels have no `UpdateChecks` (`clusterclaim_controller.go:138`).

**ImageRegistry** (`imageregistry_controller.go`).  Registries compete for clusters.  The worker lists the clusters by the cached
label, releases and labels them one by one, each behind a resourceVersion check that gives up after its backoff, and writes the condition; on deletion it cleans
all and removes the finalizer *even if the cleaning failed*.  The annotation is always written with the label and has no state of its
own.  Left out: deletion of clusters, and other writers of the label.

**AddonBinding** (`addon.go`).  `PermissionConfig` is `createOrUpdateRoleBinding`: it compares the object of the informer's cache with what is wanted, changes *that object*
and updates.  The object in the cache therefore is a variable of its own, which a failed Update leaves changed.

**LogAccess** (`managedserviceaccount`, `rest/log`, `getter/logProxyGetter.go`).  The account, the token that an add-on (external) makes of
it, and `Connect`, which looks for both add-ons and the token.

### Actions, views, admission and routes

**ActionRun** (`klusterlet/action`, `utils/rest/kubecontrol.go`, `gc`).  One action: `Start`, `Perform`, `Report` of the agent, with a target that others change, a kind
that may be installed later, lost updates and restarts; and the collector with its own cache.  `Perform` has the outcomes of KubeControl for each type (create, update, delete).

**ActionPromise** is the abstract specification: an action is done only after its effect, a failure may be followed by success but not the reverse, and it is
collected only after a report.  ActionRun implements it under the mapping of `status` to the condition in the API server
(`KeepsPromise`), which is checked and proved.

**ViewQuery** (`klusterlet/view`, `utils/rest/reloadmapper.go`).  Scopes name kinds directly or by an alias; `Reloaded` is the RESTMapper
that discovers anew when it does not know one; `IntervalEnds` is the update interval, counted from the last change of the condition.

**Webhooks** (`webhook/validating`).  A request is validated (`Receive`) and committed later, when others may have been committed; the API server
refuses an update of an object that has changed.  Clusters are listed from `seen`, deployments are read live.  `Timely` says what Hive does: a pooled
deployment is not created while a request for the cluster of that name is in flight.

**UserIdentity** (`webhook/mutating`, `utils/rest/helper.go`).  The author's identity in the annotations, and whom the agent impersonates.  The annotation is one string:
the groups are joined with commas, and the agent splits it at every comma, so that a group with a comma in its name arrives in pieces.  The name of a group
is therefore the sequence of its pieces, and a piece that of its parts between colons; both filters are modelled on what they see, whole names in the
webhook (`OfTeam`) and pieces in the agent (`ParseUserGroup`).

**ProxyRoutes** (`proxyserver/controller`, `getter`, `rest/proxy`).  ConfigMaps, the worker, the list of routes, tombstones (which end the process), certificates and CAs that
rotate and expire, and `ServeHTTP`.  A secret may hold a certificate that does not load with its key, and a CA bundle may have damaged blocks or be empty.  `MergeCABundle`
fails unless both bundles parse, and `Add` then keeps the route as it was, without an error that would bring the key back; `ServeHTTP` answers 500 when a route's certificates
make no transport.

### Compositions

**Hub**, **Klusterlet**, **Proxy** and **SetsAndRegistries** each put several modules together, as *parts* that share no object: a behaviour is one of one part, which `part` names
and which never changes, and the variables of the others stay at a value of no meaning.  Each part has its own fairness, guarded by
`part`.  A property of a part says `part = "…" => …`; a part's states and steps are exactly those of its module, so that one run checks what separate runs would, and the
theorems about the composition are about every part.  One module is extended, so that its own properties are checked by their own name.
Hub: ClusterLifecycle (extended), BindingSync, HiveLabels, GlobalSet, AddonBinding, LogAccess, ClusterFacts.
Klusterlet: ActionRun (extended), ClusterClaims, ViewQuery, ClientConfig.
Proxy: AuthCache (extended), UserPermissions, Webhooks, UserIdentity, ProxyRoutes.
SetsAndRegistries: ClusterSetController (extended), ImageRegistry.
The four have parameters only, with the assumptions of their parts; `MCHub`, `MCAgent`, `MCProxy`, `MCSetsAndRegistries` and `MCUserPermissions` give
them their values for TLC.  The `*_proofs` modules hold the theorems.

## 3. Properties, runs and what they show

Every module has a type invariant; those of the parts are together in `PartsTypeOK` of their run.  The other properties are the ones below.  Run names are those of `PROJECT.json`; a configuration has the name of its run.

| Run | Checks | Shows |
|---|---|---|
| SetsAndRegistries | `NoOrphans` | a set that is gone has no ClusterRole and no mapper entry, wherever its deletion falls |
| | `NoLostChange` | when nothing is left to do, roles and mappers are *exactly* those of the sets and labels |
| | `RolesOutliveTheSet` | roles are deleted only while the set they belong to is dying, although Reconcile may act on the copy of an earlier set of that name |
| | `EventuallyExact` | once users and failures stop, every set comes to that state |
| | `OnlyOwnLabels` | a label is taken off only by a Reconcile of the image registry it names, and put on only under that registry's finalizer |
| | `EventuallyGone` | a deleted image registry goes |
| CacheWatcher | `ClientFollowsKnown` | the events on their way turn what the client has seen into what the cache thinks it knows |
| | `NoWatcherLeaks` | a watch that its client stopped leaves the list |
| MCHub | `InfoGoesWithCluster` | a cluster that is gone has no ManagedClusterInfo, in spite of stale copies and unconditional patches |
| | `EventuallyComplete` | dropped finalizers and conflicts come to an end: a cluster is gone, or complete |
| | `EventuallyBound` | ClusterRoleBindings for view and RoleBindings for admin converge to the users of the sets |
| | `EventuallyInPlace` | labels reach deployments and claims, the global namespace has its objects or is let go, the add-on's agent is let in, logs are served |
| | `OfflineEmpty` | no nodes are shown of a cluster that is called offline, although the collector may be about to write them |
| | `EventuallyKnown` | a cluster online ends up with its vendor, identity, version and worker capacity on the hub |
| MCAgent | `KeepsPromise` | ActionRun implements ActionPromise |
| | `EventuallyCollectedAction` | every action is reported and collected |
| | `ClaimsStay` | no round degrades the product or platform or changes the id, unless a label has their name; none takes away a claim that every round expects, or one without the hub-managed label |
| | `EventuallySynced` | when outages and changes end the claims are those of the cluster and of its labels |
| | `NoLostUpdate` | the CA controller loses no client config of others; no result is shown of a scope that is not the view's |
| | `EventuallyShown` | when changes end a view shows what is there |
| | `EventuallyApplied` | address and CA arrive in the client configs, the address is recorded, the endpoint is that of the first entry |
| MCProxy | `KnownCoverRecords` | no record is out of reach of deletion: its subject is known |
| | `EventuallyListed` | torn reads and skipped rounds are repaired by a later round |
| | `NothingLost` | whatever is dropped from a user's permissions is covered by what stays |
| | `HashTells` | no permission changes without the hash, as long as the clusters stay |
| | `NothingMissing` | when a round stops because the hash is that of the last rebuild, nothing that is granted is missing, whatever moved between that hash and its rebuild |
| | `EventuallyShown` | in the end all that is granted is in the cache |
| | `ClaimedStays` | a cluster claimed from a pool stays where it was put, whatever was admitted before |
| | `OnlyMembers` | nothing changes its set but by a user who may join both |
| | `ActsForAuthor` | the annotations name the last author, and every group the agent takes is written, between commas, in the name of one of the author's groups |
| | `EventuallyServed` | a request reaches the service that a ConfigMap names, with the certificate in use, and fails only for certificates that are not in order; a route whose bundle cannot be merged stays as it is |
| BindingSync_leak | `EventuallyBound`, violated | finding 1 (RoleBindings for view) |
| CacheWatcher_full | `NeverBlocked`, violated | finding 2 |
| ClusterLifecycle_orphan | `RolesGoWithCluster`, violated | finding 3 |
| ClientConfig_prepended | `OneOwnEntry`, violated | finding 4 |
| AddonBinding_lost | `EventuallyGranted`, violated | finding 5 |
| UserPermissions_clusters | `EventuallyShown`, violated | finding 6 |
| Klusterlet_stable | `StableClaimsStay`, violated | finding 7 |

What the passing runs take, with two workers: SetsAndRegistries 1.2 million distinct states, MCProxy 0.9 million, MCAgent 0.7 million and MCHub 0.7 million
in two to three minutes each, CacheWatcher one minute.

### Bounds, and why they are enough

* SetsAndRegistries.  *sets*: one exclusive set and the global set, one cluster, one hive object, two user changes, one fault.  Two changes are what
  it takes to delete and recreate a set, to relabel and relabel back, or to do one of each; one fault is placed in any
  step.  Sets share no state but the worker, the queue and `events`; what a second exclusive set adds is an object that moves between
  two.  That is not in the run, for its size, but `NoOrphans`, `RolesOutliveTheSet` and `NoLostChange` are *proved* for any number of sets (section 5).
  *registries*: two registries, one cluster, two changes, one fault.  Clusters are handled one at a time and do not interact.  At the start at most the placement of the first registry has
  selected the cluster; that the second one does, too, is one of the changes, and a deletion of either the other.
* CacheWatcher: one resource, two watches (the list, the lock and one slow client among others), a channel of two events instead of
  1000, three rounds: a name comes, goes and comes again.  The violation needs two names.
* MCHub.  *lifecycle*: four changes (create, delete, create again, and one of another kind), one fault; the two controllers and
  the informers interleave freely.  *bindings*: two exclusive sets and the global set, one object, one user, three changes, one fault; two sets are
  needed for an object to move.  The view role of clusters and the admin role of namespaces are the two selectors that work; the leak has its own run.  *hive*: two sets, the empty label and none; two changes and a
  fault, so that the label changes again while the first one is on its way.  *global*: three changes and two faults.  *addon*: two subjects, three changes, two restarts; the run
  has no failing Updates (`UpdatesFail`), which are the finding.  *log*: four changes.  *facts*: a ROSA, a dedicated, a
  MicroShift and an unknown cluster; two node lists that differ in roles and sockets; two changes (of claims, nodes or the lease), one fault.
* MCAgent.  *action*: all types, targets and kinds, two changes and two failures: the first attempt is lost and the second one finds
  what it left.  *claims*: six clusters that reach the branches of the detection, two sets of labels — with names that are invalid, internal, equal to each other or to those of claims of the cluster, the ID included — and none, one change
  and an outage of one call or of all.  Of the calls that write or delete claims none, one, all but one or all come through when a round fails.  The run starts with one of the two node lists, to which
  a change leads the other, and looks at agents that do not sync labels on one kind of cluster, OpenShift, since they differ in nothing else.  *view*: two kinds, one of them secrets, an alias, two changes, one fault.
  *config*: two addresses, two CAs, one change and one fault; two of each are needed for a CA to change under an address and the reverse.
* MCProxy.  *access*: one subject, one resource, two bindings to two roles, one change.  Subjects and resources do not interact inside a round;
  two bindings are needed for one to hide what the other one loses, and for roles to be looked up at different times.  `Init` lets the indexers start
  empty, so that a round can read any mixture of the initial lists and of the change.  *users*: five objects, each with two or three contents, two changes.
  *webhook*: two clusters, three sets, an administrator and a member, two requests, which are in flight together; the initial states hold
  a claimed cluster in a set and in none, a hosted one and a pool.  *identity*: groups of every form, two of them with commas.  *routes*: two ConfigMaps, two sub-resources, three changes, one fault; every secret and bundle
  may be in order or not.

Deadlock checking is off where the system may come to rest: when nobody changes anything the workers wait.

### Fairness

Weak fairness of every worker, loop and informer: each is a goroutine that the Go scheduler runs, that waits for nothing but its
queue or timer, and whose failed work is queued again.  None of users, API server failures and restarts is fair.  The other assumptions:

* AuthCache assumes that each reflector's resourceVersion moves from time to time (`Bookmark`).  This is not in the code: client-go asks for
  watch bookmarks and the API server sends them about once a minute.  Without it a round that read indexers behind their reflectors
  is never repeated, and `EventuallyListed` fails; the code rests on it.
* CacheWatcher assumes strong fairness of `RemoveWatcher`, which waits for a mutex that is free again and again (Go's mutex hands
  itself over to a waiter that starves), and of `EndWatch`, a case of a `select` that picks among ready cases at random.
* ClientConfig, HiveLabels, GlobalSet and AddonBinding assume the resync of the informers (`Resync`), every ten hours unless a manager is told otherwise: for the CA
  controller, which does not watch the ManagedCluster; for a claimed deployment, which an event of its pool does not enqueue; for the global
  namespace, which is not watched; for the add-on, whose framework asks for the permissions again.
* AddonBinding, LogAccess and ProxyRoutes assume strong fairness of their worker (`PermissionConfig`, `Reconcile`, `Sync`): the queue tries a failed key again, with a growing delay, so that it
  is not always at the same moment that it meets a failure or a change.  GlobalSet assumes that who uninstalls the namespace keeps deleting it when it was created once more.
* ActionRun and ViewQuery assume that time passes (`Tick`, `IntervalEnds`).

### Mutants

Every property of a passing run is violated when one mapped definition is replaced by its mutant, listed in `PROJECT.json`:
`RolesOutliveTheSet`, for instance, by roles that are deleted and created again instead of updated; `EventuallyBound` by a round that leaves out what is only in the global set;
`KeepsPromise` by an Update that is not refused when the action has changed; `OfflineEmpty` by a node list that overwrites whatever is there; `ClaimedStays` by a check that does not ask whether the cluster was claimed.

## 4. Findings

Disagreements between the code and what the repository says of it; each is a counterexample of TLC.

1. **A RoleBinding for view outlives the permission** (`syncrolebinding_controller.go:111`).  For a namespace that was only in the global set
   it is created without the cluster set label, and the deletion lists by that label.
2. **A slow client blocks the cache** (`watcher.go:122`).  On a full channel `GroupMembershipChanged` calls `RemoveWatcher`, which
   locks what its caller's caller, `notifyWatchers`, already holds.
3. **ClusterRoles outlive their cluster** (`clusterinfo_controller.go:106`).  The merge patch that adds one finalizer replaces
   the list, and with it the finalizer that the ClusterRole controller has just added.
4. **An old address stays in the client configs** (`clusterca_controller.go:85`).  The applied address is recorded by a second `Update`; when that one is
   refused because the agent has reported a new address meanwhile, nothing tells any more that the old entry is the controller's own, and the new one
   is prepended.
5. **A failed Update of the add-on's RoleBinding is never repeated** (`addon.go:167`).  The object of the lister is changed before it is written, and the retry
   compares with it.
6. **A new cluster is missing from the permissions on all clusters** (`processor_admin_view.go:198`).  What a permission on all clusters expands to depends on the clusters, which are not in
   the hash that decides whether to compute anything.
7. **Stable claims are deleted in an outage** (`clusterclaimer.go:113`).  "stableClaims should not be deleted in any scenario once they are created", but nothing reads that set: the cleaning goes by
   what the round expects, and a lost RESTMapping makes OpenShift look like another cluster, whose `id.openshift.io` and `version.openshift.io` are deleted until a later round.  The other stable
   claims are expected in every round, and `ClaimsStay` says that they stay.

Two more are stated in the modules and not among the runs.  `OnlyLostIsDeleted` of CacheWatcher: the names of the one subject that is notified
(`watcher.go:113`) are compared with what the user has through all subjects, so that a watch reports as deleted what the user still has through a group.
`OneLocalCluster` of Webhooks: two requests that are validated before either is in the cache of the webhook (`webhook.go:401`) are both admitted, and there are two local clusters.

## 5. Proofs

Every invariant and every action property that a passing run checks is a theorem, and so is the refinement of `ActionPromise`.  The theorems hold for any sets of names, any functions among
the constants, and any bounds.  No theorem assumes fairness.  In every module the safety property does not follow from itself; what it needs is the named invariant.

The assumptions are those of the modules, which TLC evaluates in every run that uses them:

* names are distinct, and bounds are natural numbers (`SetsAssumption`, `ObjectsAssumption`, `ItemsAssumption`, `BoundAssumption`, …);
* the objects of the initial states are of the right kinds (`InitialAssumption` of Webhooks, `WorldAssumption` of UserPermissions), and of the cluster sets
  there are none yet when the webhook starts: one of an unsupported kind that is older than the webhook stays;
* a ClusterPermission is in the namespace of a managed cluster, and no *discoverable* ClusterRole has the name `managedcluster:admin`, which the cache gives to the permission to act: such a role,
  bound in a namespace, would hide the view of the whole cluster (`WorldAssumption`);
* the facts that a cluster reports about itself are not empty (`FactsAssumption` of ClusterClaims); of the labels nothing is assumed;
* aliases and kinds lead to kinds, and an address that no configuration has stands for none (`KindsAssumption`, `UrlsAssumption`).

**ClusterSetController_proofs.**  `TypeCorrect`, `NoOrphansHolds`, `RolesOutliveTheSetHolds`, `NoLostChangeHolds`.
Why the worker may not delete the roles of a recreated set is
an argument about what its cached copy can be.  The inductive invariant `SafeInv` adds, for every set, `StreamOK` — the last event in `wire` is the
committed state; behind an event with the finalizer come only events that have it; a copy seen dying, or about to be, means that the
set has not been completed again, because the finalizer of its successor is added by the same worker, later —, `FreshOK` — a fresh copy tells what
the set *is* —, `PlaceOK` — what each step of Reconcile may rely on —, `RolesOK`, and `CleanedOK` — without the
finalizer there is no role and no entry.  The stale copy is the crux: a worker that cleans after a Reconcile on an old copy does so on a set that is not
live with the finalizer (`PlaceOK`), whose roles have not been created yet.
`NoLostChange` needs `PendingInv` too: whatever is not as it should be is on its way to the cache, in the queue, in an
unhandled event that names the set, or still ahead of the worker (`RolesPending`, `ClusterPending`, `NamespacePending`,
`GlobalPending`, `DyingPending`; `StaleClean` for a cleaning on an old copy, which must run again).  In `Quiet` none of these
places exists.  The lemma that carries it, `HandlePending`, says that a handler names the set an object has left: by the old label, whatever the
mappers say at that moment.

**CacheWatcher_proofs.**  `TypeCorrect`, and `ClientFollowsKnownHolds` for any number of watches and channels of any capacity.  `WatchInv`: a watch is sent events only while it is on the list, and is
on it only while its goroutine runs (`ListedOK`); an event of a round goes out after the initial ones (`InOrder`); before its goroutine runs it has neither (`NewOK`); and, `Follows`, the
initial names and the two channels one behind the other turn the view into what is known.  What a sequence of events makes of a view is defined
by the last event of a name (`Remains`), so that the lemmas `RemainsAppend` and `RemainsFirst` need no induction.

**ClusterLifecycle_proofs.**  `TypeCorrect`, and `InfoGoesWithClusterHolds`.  `LifeInv` speaks of `Stream`, the states of the cluster from the one in the cache to the one at the API server.  Only one worker adds the
finalizer, on a copy that is live and has none, and removes it, on one that is dying: so a state with it is followed by states with it until the worker has seen it dying (`HeldSince`), no other cluster has it
before that (`NotAgain`, `OneDeath`, `DiesLast`), and the info is only there under it (`InfoInv`).  The other controller's Update cannot take it off because
its copy must be the current one (`RoleInv`); the merge patch of this one may take off the other's, which is finding 3.

**ImageRegistry_proofs.**  `RegistryTyped`, and `OnlyOwnLabelsHolds`, for the registries of SetsAndRegistries; `RunsSets` says that what this does is, for the cluster sets, what ClusterSetController allows.  `LabelInv`: at most one write of a label is on its way, and what follows a label is its removal, so that a cluster listed by a label has that label or none.
`RegistryInv`: a copy that is settled, live with the finalizer, is of a registry that still has it (`HeldOK`), and each step of the worker may rely on it (`WorkOK`).

**Hub_proofs.**  `PartsTyped`, `OfflineEmptyHolds`, and `RunsLifecycle`: what the hub does is, for a cluster's life, what ClusterLifecycle allows, so that its
theorems hold of the hub (`LifecycleHolds`).  The types of five parts are inductive as they stand, each bound with the counter that is raised under its guard; that nothing is in a namespace that is gone
needs that what is created is created in an active one.  For ClusterFacts the types need where every node list came from: it is none, or one of the cluster with or without
its sockets (`Reportable`).  `OfflineInv`: while the status says offline, the collector's copy is not the current one (`NotAboutToFill`), because the collector
reads only a status that is not offline, and writing the condition has made the copy old.

**Klusterlet_proofs.**  `TypeCorrect`, `KeepsPromiseHolds`, `PartsTyped`, `ClaimsStayHolds`, `NoLostUpdateHolds`, and `AgentKeepsPromise`: the agent as a whole implements ActionPromise.

* Actions.  The refinement maps the initial states to the initial state and every step to a step of ActionPromise or a stutter.
  `PromiseInv`: a cache that does not trail is exact (`CacheExact`); a fresh copy is of an action that is not done (`FreshOpen`), which is why success is final; a report of success is of an
  action that was applied (`ReportTrue`); the collector has not seen a report that was never written (`HubTrails`).
* Claims.  `ClaimsInv`: a round of the cluster's own claims always expects an ID, a platform, a product, the Kubernetes version and the schedulability (`ClaimsExpected`, `LastingClaims`), whatever calls
  fail; it gets to cleaning, and to the labels, only when all of them are there (`ClaimsThere`), so that a label of such a name finds a claim to rewrite and never makes one that is marked as a
  label's, in the API server or in the cache (`RightKind`), and the cleaning by that mark passes it by.
* Views.  `ViewInv`: a fresh copy has the scope that the view has, and the result it brings is of that scope (`CopyFresh`); no status is of a secret.
* Client configs.  `ConfigInv`: the last list on its way to the cache is the one at the API server (`WireExact`), and a fresh copy is that list (`ListFresh`), so that what
  `UpdateCluster` writes has every entry of others.

**Proxy_proofs.**  `TypeCorrect`, `KnownCoverRecordsHolds`, `PartsTyped`, `NothingLostHolds`, `HashTellsHolds`, `NothingMissingHolds`, `ActsForAuthorHolds`, `ClaimedStaysHolds`, `OnlyMembersHolds`.

* AuthCache.  `IInv`: a subject the round has given resources was found by it (`GrantsFound`).
* UserPermissions.  `UserInv`: whatever is staged or cached is of a user or a group and of a managed cluster, and the permission to act is never for a single namespace (`GoodGrant`).  So an admin's
  grant that drops a view covers it (`UserShown`).  `HashTells` rests on three lemmas: the hash is the resourceVersions of the objects it tracks (`HashContents`); an object that changes without
  the hash was tracked neither before nor after (`HashMisses`), because a version never comes back while the object is there (`VersionsOK`); and worlds that differ in
  an object which is not tracked grant the same (`GrantsStay`), since a binding without effect, and a role that nothing refers to, add nothing.
  `NothingMissing` needs more than the two moments: a grant comes from two objects, and `HashedOK` says of each such pair that, as long as both are of the resourceVersions under
  the hash (`Vouched`), its grants are in what was built after that hash, first in the staged store (`AdminViewsKept`), then in the cache (`DiscoverablesKept`, too).  A change keeps it, because its
  version is new to every hash (`PastStamps`, `KeptThroughChange`).  The converse is not so: a permission that came and went between the hash and the rebuild
  stays in the cache until another change of the hash.
* Webhooks.  The lemmas are those of Webhooks_proofs, instantiated.
* UserIdentity.  The annotations have pieces of the groups of their user only (`GroupsOfUser`), which the filters on both sides keep.
* ProxyRoutes.  `RouteInv`: what a route has was read or merged from what was read, and is of CAs that there have been (`Past`).

**Webhooks_proofs.**  The steps of the webhook, for any number of requests in flight, whose theorems are those of Proxy_proofs and, for the module alone, `ClaimedStaysHolds`, `OnlyMembersHolds` and `TypeCorrect`.
`HookInv`: what was allowed is still a member's when it is committed (`IsMember`), since it is committed on the object that was looked at; a move
that was allowed is still right by what the deployment *is* (`MovesRightly`), since deployments keep whether they are of a pool and no pooled one is created next to a request for its cluster (`PooledApart`, which rests on `Timely`).
A request for a cluster set in flight has the selector of its kind (`SelectorsOK`), so that only supported ones are stored.

**Only model-checked.**  The liveness properties (those named Eventually…, and `NoWatcherLeaks`): they need fairness and ENABLED, which the prover does not handle.
What sums of capacities and the recursive detection over sets compute would need induction over data; the theorems about ClusterFacts use only that they are functions of the nodes.
The seven findings are counterexamples, of small instances.

## 6. What is not modelled

* The rules inside roles, the layout of tables and printers, certificates' contents, logging, flags and the wiring of the `main`s.
* The work manager add-on's chart values and installation mode: functions of annotations and configuration, without state.
* The cleaner of the gc controller, which removes the finalizer of old versions from lists of objects, once per start.
* The project storage of the proxy server, which copies a list, and the registration of the APIs; generated code (deepcopy, openapi, protobuf) and vendored
  libraries, which are most of the repository's lines.  Kubernetes' API server, client-go, Hive, the add-on framework and the registration agent appear as the rules the modules state, marked external in `PROJECT.json`.
* That a subject bound only to names that no longer exist keeps its record (`subjectrecord.go:218`), that a cluster which one registry lets go is
  taken by another only after a resync, that a label stays when the cleaning of its registry fails, and that a route stays when its ConfigMap changes its sub-resource: the models have these behaviours, and no property is stated of them.
* Failing lists of the image registry controller (`imageregistry_controller.go:148-161`, `:231`): the failures of its run are those of its writes.  The early returns of the global set controller
  for a set that is gone (`globalset_controller.go:135-143`): GlobalSet is about a global set that is there.
* Modified events of the watches and `cacheError` of a watcher (the only send to it is behind the lock that is never obtained); the registration of a watch, which lists names before the watcher is on the list.
* The unlocked reads of the mapper's internal maps (`clustersetmapper.go:143`), as far as they are data races: BindingSync reads a set's entry at any moment, but a Go
  map read during a write may also crash the process.
* Mapper functions without a caller (`AddObjectInClusterSet`, `UpdateObjectInClusterSet`, `DeleteObjectInClusterSet`, `CopyClusterSetMapper`).
* Fields that are copied from one status to another and that no other code decides on: the logging endpoint and port, other fields of the DistributionInfo, the add-on condition.

## 7. What could follow

The modules cover every component that keeps state.  What is left would deepen them: a composition of ClusterSetController, AuthCache and BindingSync against one abstract action, "bindings become those of the entitled users",
which is too large for TLC as it stands; an abstract specification of the AuthCache and of the user permission cache that says what a round may see; and the registration of a watch in CacheWatcher.
