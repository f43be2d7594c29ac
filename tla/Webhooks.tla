------------------------------ MODULE Webhooks ------------------------------
(***************************************************************************)
(* The validating admission webhook (pkg/webhook/validating): it decides   *)
(* which requests for ManagedClusters, ManagedClusterSets,                 *)
(* ClusterDeployments and ClusterPools the API server may commit, and      *)
(* reads managed clusters from an informer's cache, deployments and access *)
(* reviews live.                                                           *)
(*                                                                         *)
(* A request that has been admitted is committed later: others may have    *)
(* been committed in between, but an update not over a change of its       *)
(* object.                                                                 *)
(***************************************************************************)
EXTENDS Naturals, FiniteSets

CONSTANTS
    Names,        \* managed clusters and their deployments
    Sets, Global, Default, NoSet, \* cluster sets; the global one, the default one, no label
    Users,        \* users
    Joins,        \* for each user the sets the user may join; NoSet stands for all
    None,         \* no object, no hosting cluster
    InitialObjects,
    MaxRequests,  \* bound: requests
    MaxAdmitted   \* bound: requests that are admitted and not committed

VARIABLES
    objects,      \* what is in the API server
    seen,         \* the informer's cache of managed clusters
    admitted,     \* requests on their way from the webhook
    requests      \* bounded counter

vars == <<objects, seen, admitted, requests>>

Keys == ({"cluster", "deployment"} \X Names) \cup {<<"pool", "pool">>} \cup ({"set"} \X Sets)

Labels == Sets \cup {NoSet}

\* What a request may put under a key.
Contents(key) ==
    CASE key[1] = "cluster" -> [set : Labels, local : BOOLEAN, hostedBy : {None} \cup (Names \ {key[2]}),
                                hosting : {FALSE}, dying : {FALSE}]
      [] key[1] = "deployment" -> [set : Labels, pooled : BOOLEAN, agentOwned : BOOLEAN]
      [] key[1] = "pool" -> [set : Labels]
      [] key[1] = "set" -> [selector : {"exclusive", "global", "labels"}]

\* What may be stored there: clusters start to host others, and die slowly.
Stored(key) ==
    IF key[1] = "cluster"
    THEN [set : Labels, local : BOOLEAN, hostedBy : {None} \cup (Names \ {key[2]}), hosting : BOOLEAN, dying : BOOLEAN]
    ELSE Contents(key)

\* What is assumed of the constants; a module that instantiates this one assumes it.
InitialAssumption ==
    \A os \in InitialObjects :
       /\ os = [k \in Keys |-> os[k]] /\ \A k \in Keys : os[k] \in Stored(k) \cup {None}
       /\ \A s \in Sets : os[<<"set", s>>] = None
LimitsAssumption == MaxRequests \in Nat /\ MaxAdmitted \in Nat

Cluster(n) == objects[<<"cluster", n>>]
Deployment(n) == objects[<<"deployment", n>>]

(***************************************************************************)
(* The validating webhook.                                                 *)
(***************************************************************************)

\* allowUpdateClusterSet: a SubjectAccessReview for the subresource join; of all sets if there is no label.
AllowUpdateClusterSet(user, set) == Joins[user] \cap {set, NoSet} # {}

\* Mutant: only the set that the object joins is looked at.
AllowJoin(user, old, new) == AllowUpdateClusterSet(user, new)

ValidateAllowUpdateClusterSet(user, old, new) ==
    AllowUpdateClusterSet(user, old) /\ AllowUpdateClusterSet(user, new)

\* Mutant: the global set is not looked at.
ValidateExclusiveOnly(r) == r.operation = "delete" \/ r.key[2] = Global \/ r.object.selector = "exclusive"

\* validateManagedClusterSet: the global set with its selector, and exclusive ones.
ValidateManagedClusterSet(r) ==
    \/ r.operation = "delete"
    \/ r.object.selector = IF r.key[2] = Global THEN "global" ELSE "exclusive"

\* validatingIsHypershiftHostingCluster: a cluster that is being deleted already does not count.
IsHypershiftHosting(n) == seen[n] # None /\ ~seen[n].dying /\ seen[n].hosting

ValidateClusterDeployment(r) ==
    CASE r.operation = "create" ->
            r.object.pooled \/ r.object.agentOwned \/ AllowUpdateClusterSet(r.user, r.object.set)
      [] r.operation = "update" ->
            \/ r.old.set = r.object.set
            \/ ValidateAllowUpdateClusterSet(r.user, r.old.set, r.object.set)
      [] r.operation = "delete" -> ~IsHypershiftHosting(r.key[2])

ValidateClusterPool(r) ==
    CASE r.operation = "create" -> AllowUpdateClusterSet(r.user, r.object.set)
      [] r.operation = "update" -> r.old.set = r.object.set
      [] r.operation = "delete" -> TRUE

ValidateLocalClusterCreate(r) ==
    r.object.local => \A n \in Names : seen[n] = None \/ ~seen[n].local

ValidateLocalClusterUpdate(r) == r.object.local = r.old.local

\* Mutant: whether the cluster was claimed from a pool does not matter.
AnyMayMove(r) == ValidateAllowUpdateClusterSet(r.user, r.old.set, r.object.set)

\* A cluster that was claimed from a pool may only move from no set to the default one.
MayMove(r) ==
    /\ ValidateAllowUpdateClusterSet(r.user, r.old.set, r.object.set)
    /\ LET d == Deployment(r.key[2])
       IN  d # None /\ d.pooled => r.object.set = Default /\ r.old.set = NoSet

ValidateManagedCluster(r) ==
    CASE r.operation = "create" ->
            ValidateLocalClusterCreate(r) /\ AllowUpdateClusterSet(r.user, r.object.set)
      [] r.operation = "update" ->
            ValidateLocalClusterUpdate(r) /\ (r.old.set = r.object.set \/ MayMove(r))
      [] r.operation = "delete" ->
            /\ \A n \in Names : seen[n] = None \/ seen[n].hostedBy # r.key[2]
            /\ ~IsHypershiftHosting(r.key[2])

ValidateResource(r) ==
    CASE r.key[1] = "set" -> ValidateManagedClusterSet(r)
      [] r.key[1] = "deployment" -> ValidateClusterDeployment(r)
      [] r.key[1] = "pool" -> ValidateClusterPool(r)
      [] r.key[1] = "cluster" -> ValidateManagedCluster(r)

(***************************************************************************)
(* The system.                                                             *)
(***************************************************************************)
Init ==
    /\ objects \in InitialObjects /\ seen = [n \in Names |-> Cluster(n)]
    /\ admitted = {} /\ requests = 0

\* Hive has created the pooled deployment before anybody asks for the cluster that claims it.
Timely(r) ==
    LET Pooled(q) == q.key[1] = "deployment" /\ q.operation = "create" /\ q.object.pooled
    IN  /\ Pooled(r) => Cluster(r.key[2]) = None
        /\ \A a \in admitted : a.key[2] = r.key[2] => (Pooled(a) <=> Pooled(r))

Receive(r) ==
    /\ requests < MaxRequests
    /\ r \notin admitted
    /\ Timely(r)
    /\ requests' = requests + 1
    /\ admitted' = IF ValidateResource(r) THEN admitted \cup {r} ELSE admitted
    /\ UNCHANGED <<objects, seen>>

Request ==
    \E k \in Keys, u \in Users :
        \/ objects[k] = None /\ \E o \in Contents(k) :
              Receive([operation |-> "create", key |-> k, user |-> u, old |-> None, object |-> o])
        \/ objects[k] # None /\ \E o \in Contents(k) :
              /\ k[1] = "cluster" => ~objects[k].dying /\ o.hostedBy = objects[k].hostedBy
              /\ k[1] = "deployment" => o.pooled = objects[k].pooled /\ o.agentOwned = objects[k].agentOwned
              /\ Receive([operation |-> "update", key |-> k, user |-> u, old |-> objects[k], object |-> o])
        \/ objects[k] # None /\
              Receive([operation |-> "delete", key |-> k, user |-> u, old |-> objects[k], object |-> None])

\* A cluster that is deleted is dying until its finalizers are gone.
Result(r) ==
    IF r.key[1] # "cluster" \/ r.operation = "create" THEN r.object
    ELSE IF r.operation = "delete" THEN [r.old EXCEPT !.dying = TRUE]
         ELSE [r.object EXCEPT !.hosting = r.old.hosting]

Commit ==
    \E r \in admitted :
        /\ admitted' = admitted \ {r}
        /\ objects' = IF objects[r.key] = r.old THEN [objects EXCEPT ![r.key] = Result(r)] ELSE objects
        /\ UNCHANGED <<seen, requests>>

ClusterGone ==
    \E n \in Names :
        /\ Cluster(n) # None /\ Cluster(n).dying
        /\ objects' = [objects EXCEPT ![<<"cluster", n>>] = None]
        /\ UNCHANGED <<seen, admitted, requests>>

\* The claims of the hypershift addon.
HostingChanges ==
    \E n \in Names :
        /\ Cluster(n) # None /\ ~Cluster(n).hosting
        /\ objects' = [objects EXCEPT ![<<"cluster", n>>].hosting = TRUE]
        /\ UNCHANGED <<seen, admitted, requests>>

Deliver ==
    \E n \in Names :
        /\ seen[n] # Cluster(n)
        /\ seen' = [seen EXCEPT ![n] = Cluster(n)]
        /\ UNCHANGED <<objects, admitted, requests>>

Next ==
    \/ Cardinality(admitted) < MaxAdmitted /\ Request
    \/ Commit \/ ClusterGone \/ HostingChanges \/ Deliver

Spec == Init /\ [][Next]_vars

(***************************************************************************)
(* Properties.                                                             *)
(***************************************************************************)

\* Types; the cluster sets that there are, are of the supported kinds.
TypeOK ==
    /\ \A k \in Keys : objects[k] \in Stored(k) \cup {None}
    /\ \A s \in Sets : LET o == objects[<<"set", s>>] IN
          o # None => o.selector = IF s = Global THEN "global" ELSE "exclusive"
    /\ Cardinality(admitted) <= MaxAdmitted /\ requests \in 0..MaxRequests

\* webhook.go, "the cluster is claimed from clusterpool, do not allow to update clustersetlabel": as long
\* as such a cluster is there it stays where it was put, or goes from no set to the default one,
\* whatever was admitted before.
KeepsClaimed ==
    \A n \in Names :
       Cluster(n) # None /\ Cluster(n)' # None /\ Deployment(n) # None /\ Deployment(n).pooled
         => \/ Cluster(n)'.set = Cluster(n).set
            \/ Cluster(n).set = NoSet /\ Cluster(n)'.set = Default
ClaimedStays == [][KeepsClaimed]_vars

\* Nothing moves from one set to another, and nothing is put in one, but by a user who may join both;
\* hive and the agent installer may create deployments where they like.
MovedByMember ==
    \A k \in Keys : k[1] # "set" /\ objects'[k] # None /\ objects'[k] # objects[k] =>
       \/ k[1] = "deployment" /\ objects[k] = None /\ (objects'[k].pooled \/ objects'[k].agentOwned)
       \/ objects[k] # None /\ objects'[k].set = objects[k].set
       \/ \E r \in admitted \ admitted' :
             \A o \in {objects[k], objects'[k]} \ {None} : Joins[r.user] \cap {o.set, NoSet} # {}
OnlyMembers == [][MovedByMember]_vars

\* webhook.go:391, "Only one cluster in the hub can be created as the local cluster".
OneLocalCluster == \A m, n \in Names : Cluster(m) # None /\ Cluster(n) # None /\ Cluster(m).local /\ Cluster(n).local => m = n
=============================================================================
