----------------------------- MODULE Proxy_proofs -----------------------------
(***************************************************************************)
(* Proofs about access and routing, for any subjects, roles and bindings,  *)
(* permissions, requests, groups and ConfigMaps and for any number of      *)
(* changes and failures.  Each part of Proxy has its section: an inductive *)
(* invariant, that it holds initially, and what every step does to it; the *)
(* webhook's are those of Webhooks_proofs.  The last section puts the      *)
(* parts together.                                                         *)
(***************************************************************************)
EXTENDS Proxy, TLAPS

-----------------------------------------------------------------------------
(***************************************************************************)
(* What subjects may see (AuthCache).                                      *)
(***************************************************************************)
\* A subject to whom the round has given resources has been found by it.
GrantsFound == \A u \in Subjects : grants[u] # {} => u \in found

IInv ==
    /\ TypeOK
    /\ GrantsFound
    /\ KnownCoverRecords

LEMMA ValuesContents == \A i \in Items : {} \in Values(i) /\ Values(i) \subseteq Contents
<1> SUFFICES ASSUME NEW i \in Items
             PROVE  {} \in Values(i) /\ Values(i) \subseteq Contents
  OBVIOUS
<1>1. ASSUME NEW v \in Values(i)
      PROVE  v \subseteq Resources \cup {All} \cup Subjects
  <2>1. (v \in {{}, {i}} /\ i \in Resources) \/ v \in SUBSET Resources \/ v = {All}
        \/ v \in SUBSET Subjects
    BY DEF Values
  <2> QED
    BY <2>1
<1>2. {} \in Values(i)
  BY DEF Values
<1> QED
  BY <1>1, <1>2 DEF Contents

LEMMA InitInv == Init => IInv
<1> SUFFICES ASSUME Init PROVE IInv
  OBVIOUS
<1>1. TypeOK
  BY ValuesContents, BoundAssumption DEF Init, TypeOK, Empty, Contents
<1> QED
  BY <1>1 DEF IInv, Init, GrantsFound, KnownCoverRecords, Empty

\* The existing names a role names are resources.
LEMMA RoleNamesType ==
    ASSUME TypeOK, NEW b \in Bindings
    PROVE  RoleNames(indexed[RoleOf[b]], resources) \cap resources \in SUBSET Resources
  BY DEF TypeOK

LEMMA NextType ==
    ASSUME TypeOK, [Next]_vars
    PROVE  TypeOK'
<1>1. ASSUME NEW i \in Items, NEW v \in Values(i), Receive(i, v)
      PROVE  TypeOK'
  <2>1. v \in Contents
    BY ValuesContents
  <2>2. KindOf(i) \in Kinds
    BY DEF KindOf, Kinds
  <2>3. received' \in [Items -> Contents] /\ \A j \in Items : received'[j] \in Values(j)
    BY <1>1, <2>1 DEF Receive, TypeOK
  <2>4. churn' \in 0..MaxChurn
    BY <1>1, BoundAssumption DEF Receive, TypeOK
  <2> QED
    BY <1>1, <2>2, <2>3, <2>4 DEF Receive, TypeOK, roundVars
<1>2. ASSUME NEW kind \in Kinds, Bookmark(kind)
      PROVE  TypeOK'
  BY <1>2 DEF Bookmark, TypeOK, informerVars, roundVars
<1>3. ASSUME NEW i \in Items, Index(i)
      PROVE  TypeOK'
  <2>1. indexed' \in [Items -> Contents] /\ \A j \in Items : indexed'[j] \in Values(j)
    BY <1>3 DEF Index, TypeOK
  <2> QED
    BY <1>3, <2>1 DEF Index, TypeOK, roundVars
<1>4. CASE BeginRound
  BY <1>4 DEF BeginRound, TypeOK, informerVars, roundVars
<1>5. CASE SyncResources
  BY <1>5 DEF SyncResources, TypeOK, informerVars
<1>6. CASE ListBindings
  <2>1. \A b \in Bindings : indexed[b] \in SUBSET Subjects
    BY ItemsAssumption DEF TypeOK, Values, Items
  <2>2. listed' \in [Bindings -> SUBSET Subjects]
    BY <1>6, <2>1 DEF ListBindings
  <2> QED
    BY <1>6, <2>2 DEF ListBindings, TypeOK, informerVars, Empty
<1>7. ASSUME NEW b \in Bindings, GetRole(b)
      PROVE  TypeOK'
  <2>1. found' \in SUBSET Subjects /\ grants' \in [Subjects -> SUBSET Resources]
    BY <1>7, RoleNamesType DEF GetRole, TypeOK
  <2> QED
    BY <1>7, <2>1 DEF GetRole, TypeOK, informerVars
<1>8. CASE WriteRecords
  BY <1>8 DEF WriteRecords, TypeOK, informerVars, roundVars
<1>9. CASE UNCHANGED vars
  BY <1>9 DEF vars, TypeOK
<1> QED
  BY <1>1, <1>2, <1>3, <1>4, <1>5, <1>6, <1>7, <1>8, <1>9 DEF Next, Round, Informers

LEMMA NextKnown ==
    ASSUME IInv, [Next]_vars
    PROVE  GrantsFound' /\ KnownCoverRecords'
<1> USE DEF IInv
<1>1. ASSUME UNCHANGED <<record, known, found, grants>>
      PROVE  GrantsFound' /\ KnownCoverRecords'
  BY <1>1 DEF GrantsFound, KnownCoverRecords
<1>2. CASE ListBindings
  BY <1>2 DEF ListBindings, GrantsFound, KnownCoverRecords, Empty
<1>3. ASSUME NEW b \in Bindings, GetRole(b)
      PROVE  GrantsFound' /\ KnownCoverRecords'
  BY <1>3 DEF GetRole, GrantsFound, KnownCoverRecords
<1>4. CASE WriteRecords
  <2>1. GrantsFound'
    BY <1>4 DEF WriteRecords, GrantsFound, roundVars
  <2>2. ASSUME NEW u \in Subjects, record'[u] # {}
        PROVE  u \in found
    BY <1>4, <2>2 DEF WriteRecords, GrantsFound, KnownCoverRecords
  <2> QED
    BY <1>4, <2>1, <2>2 DEF WriteRecords, KnownCoverRecords
<1> QED
  BY <1>1, <1>2, <1>3, <1>4
     DEF Next, Round, Informers, Receive, Bookmark, Index, BeginRound, SyncResources,
         roundVars, vars

LEMMA InvCorrect == Spec => []IInv
<1>1. IInv /\ [Next]_vars => IInv'
  BY NextType, NextKnown DEF IInv
<1> QED
  BY <1>1, InitInv, PTL DEF Spec

-----------------------------------------------------------------------------
(***************************************************************************)
(* The routes (ProxyRoutes).  What a route has is of the past: its bundle  *)
(* was read or merged from bundles that were read.                         *)
(***************************************************************************)
RouteFlags ==
    /\ queue \subseteq ConfigMapNames /\ routesMoved \subseteq ConfigMapNames
    /\ configMaps \in [ConfigMapNames -> Routes!ConfigMap \cup {Absent}]
    /\ lister \in [ConfigMapNames -> Routes!ConfigMap \cup {Absent}]
RouteBounded ==
    /\ partChurn \in 0..Bound.routes.churn /\ partFaults \in 0..Bound.routes.faults
    /\ \E n \in 0..partChurn : secret \in Routes!Secret(n)
    /\ signer \in 0..partChurn /\ ca \in Routes!CABundle(signer) /\ oldest \in 0..signer
Past(bundle) == bundle.certs \cup bundle.damaged \subseteq 0..signer
GoodRoute(r) == r.name \in ConfigMapNames /\ Past(r.ca)
RoutesGood ==
    /\ routes = [s \in Subs |-> routes[s]]
    /\ \A s \in Subs : routes[s] # Absent => GoodRoute(routes[s])

RouteInv == RouteFlags /\ RouteBounded /\ RoutesGood

LEMMA RouteBounds == Bound.routes.churn \in Nat /\ Bound.routes.faults \in Nat
  BY RoutesAssumption DEF Routes!LimitsAssumption

LEMMA RouteType == RouteInv => Routes!TypeOK
<1> SUFFICES ASSUME RouteInv PROVE Routes!TypeOK
  OBVIOUS
<1>1. 0..partChurn \subseteq 0..Bound.routes.churn
  BY RouteBounds DEF RouteInv, RouteBounded
<1> QED
  BY <1>1, Zenon DEF RouteInv, RouteFlags, RouteBounded, RoutesGood, GoodRoute, Past, Routes!TypeOK

LEMMA RouteInit == Routes!Init => RouteInv
  BY RouteBounds, 0 \in 0..0 DEF Routes!Init, RouteInv, RouteFlags, RouteBounded, RoutesGood

\* A route that is new, or merged with the one that was there.
LEMMA AddFacts ==
    ASSUME RouteInv, NEW s \in Subs, NEW n \in ConfigMapNames
    PROVE  LET rs == Routes!Add(s, Routes!GenerateServiceInfo(n))
           IN  /\ rs = [t \in Subs |-> rs[t]]
               /\ \A t \in Subs : rs[t] # Absent => GoodRoute(rs[t])
<1> DEFINE new == Routes!GenerateServiceInfo(n)
           both == Routes!MergeCABundle(routes[s].ca, new.ca)
           merged == [new EXCEPT !.ca = both]
           rs == Routes!Add(s, new)
<1>1. new = [name |-> n, secret |-> secret, ca |-> ca] /\ Past(ca)
  BY DEF Routes!GenerateServiceInfo, RouteInv, RouteBounded, Past, Routes!CABundle
<1>2. merged = [name |-> n, secret |-> secret, ca |-> both]
  BY <1>1
<1>3. GoodRoute(new)
  BY <1>1 DEF GoodRoute
<1>4. routes[s] # Absent => both = Failed \/ Past(both)
  <2>1. routes[s] # Absent => Past(routes[s].ca)
    BY DEF RouteInv, RoutesGood, GoodRoute
  <2> QED
    BY <1>1, <2>1 DEF Routes!MergeCABundle, Past
<1>5. routes[s] # Absent => both = Failed \/ GoodRoute(merged)
  BY <1>2, <1>4 DEF GoodRoute
<1>6. \/ routes[s] = Absent /\ rs = [routes EXCEPT ![s] = new]
      \/ routes[s] # Absent /\ both # Failed /\ rs = [routes EXCEPT ![s] = merged]
      \/ rs = routes
  BY Zenon DEF Routes!Add
<1> HIDE DEF new, both, merged, rs
<1>7. ASSUME NEW r, GoodRoute(r), rs = [routes EXCEPT ![s] = r]
      PROVE  /\ rs = [t \in Subs |-> rs[t]]
             /\ \A t \in Subs : rs[t] # Absent => GoodRoute(rs[t])
  <2>1. routes = [t \in Subs |-> routes[t]]
    BY DEF RouteInv, RoutesGood
  <2>2. rs = [t \in Subs |-> rs[t]] /\ \A t \in Subs : rs[t] = IF t = s THEN r ELSE routes[t]
    BY <1>7, <2>1
  <2> QED
    BY <1>7, <2>2 DEF RouteInv, RoutesGood
<1>8. /\ rs = [t \in Subs |-> rs[t]]
      /\ \A t \in Subs : rs[t] # Absent => GoodRoute(rs[t])
  BY <1>3, <1>5, <1>6, <1>7 DEF RouteInv, RoutesGood
<1> QED
  BY <1>8 DEF rs, new

LEMMA DeleteFacts ==
    ASSUME RouteInv, NEW n, NEW rs \in Routes!DeleteRoute(n)
    PROVE  /\ rs = [t \in Subs |-> rs[t]]
           /\ \A t \in Subs : rs[t] # Absent => rs[t] = routes[t]
<1>1. rs = routes \/ \E s \in Subs : rs = [routes EXCEPT ![s] = Absent]
  BY DEF Routes!DeleteRoute
<1> QED
  BY <1>1 DEF RouteInv, RoutesGood

LEMMA RouteStep == RouteInv /\ [Routes!Next]_(Routes!vars) => RouteInv'
<1> SUFFICES ASSUME RouteInv, [Routes!Next]_(Routes!vars) PROVE RouteInv'
  OBVIOUS
<1>1. RouteFlags'
  <2>1. ASSUME NEW n \in ConfigMapNames, Routes!ConfigMapChanges(n) PROVE RouteFlags'
    <3>1. /\ \E c \in Routes!ConfigMap \cup {Absent} : configMaps' = [configMaps EXCEPT ![n] = c]
          /\ routesMoved' \in {routesMoved, routesMoved \cup {n}} /\ UNCHANGED <<lister, queue>>
      BY <2>1, Zenon DEF Routes!ConfigMapChanges
    <3> QED
      BY <3>1 DEF RouteInv, RouteFlags
  <2>2. ASSUME NEW n \in ConfigMapNames, Routes!Deliver(n) PROVE RouteFlags'
    BY <2>2 DEF RouteInv, RouteFlags, Routes!Deliver
  <2>3. ASSUME NEW n \in ConfigMapNames, Routes!Sync(n) PROVE RouteFlags'
    <3>1. queue' \in {queue, queue \ {n}} /\ UNCHANGED <<configMaps, lister, routesMoved>>
      BY <2>3, Zenon DEF Routes!Sync
    <3> QED
      BY <3>1 DEF RouteInv, RouteFlags
  <2>4. ASSUME Routes!Restarted, UNCHANGED configMaps PROVE RouteFlags'
    BY <2>4 DEF RouteInv, RouteFlags, Routes!Restarted
  <2>5. ASSUME UNCHANGED <<configMaps, lister, queue, routesMoved>> PROVE RouteFlags'
    BY <2>5 DEF RouteInv, RouteFlags
  <2> QED
    BY <2>1, <2>2, <2>3, <2>4, <2>5, Zenon DEF Routes!Next, Routes!vars, Routes!certVars, Routes!Tombstone, Routes!Restart,
       Routes!SyncFails, Routes!RotateSecret, Routes!RotateCA, Routes!Expire
<1>2. RouteBounded'
  <2>1. /\ \/ UNCHANGED <<partChurn, partFaults>>
           \/ partChurn < Bound.routes.churn /\ partChurn' = partChurn + 1 /\ UNCHANGED partFaults
           \/ partFaults < Bound.routes.faults /\ partFaults' = partFaults + 1 /\ UNCHANGED partChurn
        /\ \/ UNCHANGED secret
           \/ secret' \in Routes!Secret(secret.cert + 1) /\ partChurn' = partChurn + 1
        /\ \/ UNCHANGED <<ca, signer, oldest>>
           \/ /\ signer' = signer + 1 /\ ca' \in Routes!CABundle(signer + 1) /\ partChurn' = partChurn + 1
              /\ UNCHANGED oldest
           \/ oldest < signer /\ oldest' = oldest + 1 /\ UNCHANGED <<ca, signer>>
    BY Zenon DEF Routes!Next, Routes!vars, Routes!certVars, Routes!Churn, Routes!ConfigMapChanges, Routes!Deliver, Routes!Sync,
       Routes!Tombstone, Routes!Restart, Routes!SyncFails, Routes!RotateSecret, Routes!RotateCA, Routes!Expire
  <2>2. PICK n \in 0..partChurn : secret \in Routes!Secret(n)
    BY DEF RouteInv, RouteBounded
  <2>3. secret.cert = n
    BY <2>2 DEF Routes!Secret
  <2>4. \E k \in 0..partChurn' : secret' \in Routes!Secret(k)
    <3>1. CASE UNCHANGED secret
      BY <2>1, <2>2, <3>1 DEF RouteInv, RouteBounded
    <3>2. CASE secret' \in Routes!Secret(n + 1) /\ partChurn' = partChurn + 1
      BY <3>2 DEF RouteInv, RouteBounded
    <3> QED
      BY <2>1, <2>3, <3>1, <3>2
  <2>5. signer' \in 0..partChurn' /\ ca' \in Routes!CABundle(signer') /\ oldest' \in 0..signer'
    BY <2>1, RouteBounds DEF RouteInv, RouteBounded
  <2>6. partChurn' \in 0..Bound.routes.churn /\ partFaults' \in 0..Bound.routes.faults
    BY <2>1, RouteBounds DEF RouteInv, RouteBounded
  <2> QED
    BY <2>4, <2>5, <2>6 DEF RouteBounded
<1>3. RoutesGood'
  <2>1. signer \in Nat /\ (signer' = signer \/ signer' = signer + 1)
    <3>1. signer' = signer \/ signer' = signer + 1
      BY Zenon DEF Routes!Next, Routes!vars, Routes!certVars, Routes!ConfigMapChanges, Routes!Deliver, Routes!Sync,
         Routes!Tombstone, Routes!Restart, Routes!SyncFails, Routes!RotateSecret, Routes!RotateCA, Routes!Expire
    <3> QED
      BY <3>1 DEF RouteInv, RouteBounded
  <2>2. \A r : GoodRoute(r) => GoodRoute(r)'
    BY <2>1 DEF GoodRoute, Past
  <2>3. ASSUME NEW rs, routes' = rs, rs = [t \in Subs |-> rs[t]], \A t \in Subs : rs[t] # Absent => GoodRoute(rs[t])
        PROVE  RoutesGood'
    BY <2>2, <2>3 DEF RoutesGood, GoodRoute
  <2>4. ASSUME NEW n \in ConfigMapNames, Routes!Sync(n) PROVE RoutesGood'
    <3>1. \/ routes' \in Routes!DeleteRoute(n)
          \/ lister[n] # Absent /\ routes' = Routes!Add(lister[n].sub, Routes!GenerateServiceInfo(n))
          \/ UNCHANGED routes
      BY <2>4, Zenon DEF Routes!Sync
    <3>2. lister[n] # Absent => lister[n].sub \in Subs
      BY DEF RouteInv, RouteFlags, Routes!ConfigMap
    <3>3. CASE routes' \in Routes!DeleteRoute(n)
      BY <2>3, <3>3, DeleteFacts DEF RouteInv, RoutesGood
    <3>4. CASE lister[n] # Absent /\ routes' = Routes!Add(lister[n].sub, Routes!GenerateServiceInfo(n))
      BY <2>3, <3>2, <3>4, AddFacts
    <3>5. CASE UNCHANGED routes
      BY <2>3, <3>5 DEF RouteInv, RoutesGood
    <3> QED
      BY <3>1, <3>3, <3>4, <3>5
  <2>5. ASSUME Routes!Restarted PROVE RoutesGood'
    BY <2>5 DEF Routes!Restarted, RoutesGood
  <2>6. ASSUME UNCHANGED routes PROVE RoutesGood'
    BY <2>3, <2>6 DEF RouteInv, RoutesGood
  <2> QED
    BY <2>4, <2>5, <2>6, Zenon DEF Routes!Next, Routes!vars, Routes!certVars, Routes!ConfigMapChanges, Routes!Deliver,
       Routes!Tombstone, Routes!Restart, Routes!SyncFails, Routes!RotateSecret, Routes!RotateCA, Routes!Expire
<1> QED
  BY <1>1, <1>2, <1>3 DEF RouteInv

-----------------------------------------------------------------------------
(***************************************************************************)
(* For whom the agent acts (UserIdentity).  The annotations have pieces of *)
(* the groups of their user only, whoever has passed the action on.        *)
(***************************************************************************)
GroupsOfUser ==
    annotations.user # Nobody => annotations.groups \subseteq Identity!Pieces(IdentityGroups[annotations.user])

IdentityInv == Identity!ActsForAuthor /\ GroupsOfUser

LEMMA IdentityInit == Identity!Init => IdentityInv
  BY DEF Identity!Init, Identity!Nothing, Identity!ActsForAuthor, IdentityInv, GroupsOfUser

LEMMA IdentityStep == IdentityInv /\ [Identity!Next]_(Identity!vars) => IdentityInv'
<1> SUFFICES ASSUME IdentityInv, [Identity!Next]_(Identity!vars) PROVE IdentityInv'
  OBVIOUS
<1>1. ASSUME UNCHANGED <<annotations, author, identity>> PROVE IdentityInv'
  BY <1>1 DEF IdentityInv, GroupsOfUser, Identity!ActsForAuthor
<1>2. ASSUME NEW u \in IdentityUsers, Identity!Write(u) PROVE IdentityInv'
  <2>1. identity' = identity
    BY <1>2 DEF Identity!Write
  <2>2. CASE u \in SkipOverwriteUserList
    <3>1. annotations' = annotations /\ author' = author
      BY <1>2, <2>2 DEF Identity!Write, Identity!MutateResource
    <3> QED
      BY <2>1, <3>1, <1>1
  <2>3. CASE u \notin SkipOverwriteUserList
    <3>1. annotations' = Identity!MergeUserIdentityToAnnotations(u) /\ author' = u
      BY <1>2, <2>3 DEF Identity!Write, Identity!MutateResource
    <3>2. annotations'.user = u /\ annotations'.groups \subseteq Identity!Pieces(IdentityGroups[u])
      BY <3>1 DEF Identity!MergeUserIdentityToAnnotations, Identity!Pieces
    <3> QED
      BY <2>1, <3>1, <3>2 DEF IdentityInv, GroupsOfUser, Identity!ActsForAuthor
  <2> QED
    BY <2>2, <2>3
<1>3. ASSUME Identity!Act PROVE IdentityInv'
  <2>1. /\ identity'.user = annotations.user
        /\ identity'.groups = Identity!ParseUserGroup(annotations.groups)
        /\ annotations' = annotations /\ author' = author
    BY <1>3 DEF Identity!Act
  <2>2. ASSUME NEW g \in Identity!ParseUserGroup(annotations.groups)
        PROVE  \E p \in annotations.groups :
                  \/ p[1] = "system" /\ g = p
                  \/ Len(p) = 3 /\ p[1] = "icp" /\ g = <<"mcm", "", p[3]>>
    BY <2>2, Zenon DEF Identity!ParseUserGroup
  <2> QED
    BY <2>1, <2>2 DEF IdentityInv, GroupsOfUser, Identity!ActsForAuthor
<1> QED
  BY <1>1, <1>2, <1>3 DEF Identity!Next, Identity!vars, Identity!RoleBindingChanges

-----------------------------------------------------------------------------
(***************************************************************************)
(* The webhook (Webhooks), whose proofs are those of Webhooks_proofs.      *)
(***************************************************************************)
HookProofs == INSTANCE Webhooks_proofs WITH Names <- WebhookNames, Sets <- WebhookSets, Users <- WebhookUsers,
    MaxRequests <- Bound.webhook.requests, MaxAdmitted <- Bound.webhook.admitted

LEMMA HookNextSame == Hooks!Next <=> HookProofs!Next
<1>1. \A S : Hooks!Cardinality(S) = HookProofs!Cardinality(S)
  BY Zenon DEF Hooks!Cardinality, HookProofs!Cardinality
<1>2. \A r : Hooks!ValidateResource(r) = HookProofs!ValidateResource(r)
  BY Zenon DEF Hooks!Cluster, HookProofs!Cluster, Hooks!Deployment, HookProofs!Deployment, Hooks!AllowUpdateClusterSet, HookProofs!AllowUpdateClusterSet, Hooks!ValidateAllowUpdateClusterSet, HookProofs!ValidateAllowUpdateClusterSet, Hooks!ValidateManagedClusterSet, HookProofs!ValidateManagedClusterSet, Hooks!IsHypershiftHosting, HookProofs!IsHypershiftHosting, Hooks!ValidateClusterDeployment, HookProofs!ValidateClusterDeployment, Hooks!ValidateClusterPool, HookProofs!ValidateClusterPool, Hooks!ValidateLocalClusterCreate, HookProofs!ValidateLocalClusterCreate, Hooks!ValidateLocalClusterUpdate, HookProofs!ValidateLocalClusterUpdate, Hooks!MayMove, HookProofs!MayMove, Hooks!ValidateManagedCluster, HookProofs!ValidateManagedCluster, Hooks!ValidateResource, HookProofs!ValidateResource
<1>3. Hooks!Keys = HookProofs!Keys /\ \A k : Hooks!Contents(k) = HookProofs!Contents(k)
  BY Zenon DEF Hooks!Keys, HookProofs!Keys, Hooks!Contents, HookProofs!Contents, Hooks!Labels, HookProofs!Labels
<1>4. \A r : Hooks!Timely(r) = HookProofs!Timely(r)
  BY Zenon DEF Hooks!Timely, HookProofs!Timely, Hooks!Cluster, HookProofs!Cluster
<1>5. \A r : Hooks!Receive(r) = HookProofs!Receive(r)
  BY <1>2, <1>4, Zenon DEF Hooks!Receive, HookProofs!Receive
<1>6. Hooks!Request = HookProofs!Request
  BY <1>3, <1>5, Zenon DEF Hooks!Request, HookProofs!Request
<1>7. Hooks!Commit = HookProofs!Commit
  BY Zenon DEF Hooks!Commit, HookProofs!Commit, Hooks!Result, HookProofs!Result
<1>8. Hooks!ClusterGone = HookProofs!ClusterGone /\ Hooks!HostingChanges = HookProofs!HostingChanges
  BY Zenon DEF Hooks!ClusterGone, HookProofs!ClusterGone, Hooks!HostingChanges, HookProofs!HostingChanges, Hooks!Cluster, HookProofs!Cluster
<1>9. Hooks!Deliver = HookProofs!Deliver
  BY Zenon DEF Hooks!Deliver, HookProofs!Deliver, Hooks!Cluster, HookProofs!Cluster
<1> QED
  BY <1>1, <1>6, <1>7, <1>8, <1>9, Zenon DEF Hooks!Next, HookProofs!Next

LEMMA HookInit == Hooks!Init => HookProofs!TypeInv
<1>1. \A k : Hooks!Stored(k) = HookProofs!Stored(k)
  BY Zenon DEF Hooks!Stored, HookProofs!Stored, Hooks!Contents, HookProofs!Contents, Hooks!Labels, HookProofs!Labels
<1>2. HookProofs!InitialAssumption
  BY HooksAssumption, <1>1, Zenon DEF Hooks!InitialAssumption, HookProofs!InitialAssumption, Hooks!Keys, HookProofs!Keys
<1>3. HookProofs!LimitsAssumption
  BY HooksAssumption, Zenon DEF Hooks!LimitsAssumption, HookProofs!LimitsAssumption
<1>4. Hooks!Init => HookProofs!Init
  BY Zenon DEF Hooks!Init, HookProofs!Init, Hooks!Cluster, HookProofs!Cluster
<1> QED
  BY <1>2, <1>3, <1>4, HookProofs!InitType, Zenon

LEMMA HookType == HookProofs!TypeInv => Hooks!TypeOK
<1>1. \A k : Hooks!Stored(k) = HookProofs!Stored(k)
  BY Zenon DEF Hooks!Stored, HookProofs!Stored, Hooks!Contents, HookProofs!Contents, Hooks!Labels, HookProofs!Labels
<1>2. \A S : Hooks!Cardinality(S) = HookProofs!Cardinality(S)
  BY Zenon DEF Hooks!Cardinality, HookProofs!Cardinality
<1>3. HookProofs!TypeOK => Hooks!TypeOK
  BY <1>1, <1>2, Zenon DEF Hooks!TypeOK, HookProofs!TypeOK, Hooks!Keys, HookProofs!Keys
<1> QED
  BY <1>3, HookProofs!TypeHook, Zenon

LEMMA HookStep == HookProofs!TypeInv /\ [Hooks!Next]_(Hooks!vars) => HookProofs!TypeInv'
<1>1. HookProofs!LimitsAssumption
  BY HooksAssumption, Zenon DEF Hooks!LimitsAssumption, HookProofs!LimitsAssumption
<1>2. UNCHANGED Hooks!vars => UNCHANGED HookProofs!vars
  BY Zenon DEF Hooks!vars, HookProofs!vars
<1> QED
  BY <1>1, <1>2, HookNextSame, HookProofs!NextType, Zenon

LEMMA HookActions == HookProofs!TypeInv /\ Hooks!Next => Hooks!KeepsClaimed /\ Hooks!MovedByMember
<1>1. HookProofs!TypeInv => HookProofs!HookInv
  BY DEF HookProofs!TypeInv
<1>2. HookProofs!KeepsClaimed => Hooks!KeepsClaimed
  BY Zenon DEF Hooks!KeepsClaimed, HookProofs!KeepsClaimed, Hooks!Cluster, HookProofs!Cluster, Hooks!Deployment, HookProofs!Deployment
<1>3. HookProofs!MovedByMember => Hooks!MovedByMember
  BY Zenon DEF Hooks!MovedByMember, HookProofs!MovedByMember, Hooks!Keys, HookProofs!Keys
<1> QED
  BY <1>1, <1>2, <1>3, HookNextSame, HookProofs!NextKeepsClaimed, HookProofs!NextMovedByMember, Zenon

-----------------------------------------------------------------------------
(***************************************************************************)
(* The user permissions (UserPermissions): what is cached is of users and  *)
(* groups and of managed clusters, and the permission to act is always for *)
(* a whole cluster, so that it covers the view that is dropped for it.     *)
(***************************************************************************)
WorldOK(w) ==
    /\ w = [o \in Objects |-> w[o]]
    /\ \A o \in Objects : w[o] \in PermissionContents[o] \cup {Absent}

VersionsOK ==
    /\ partChurn \in 0..Bound.users.churn
    /\ version = [o \in Objects |-> version[o]]
    /\ \A o \in Objects : version[o] \in 0..partChurn

GoodGrant(g) ==
    /\ g = [subject |-> g.subject, role |-> g.role, cluster |-> g.cluster, namespace |-> g.namespace]
    /\ g.subject.kind \in {"User", "Group"} /\ g.cluster \in ManagedClusters
    /\ g.role = Permissions!Admin => g.namespace = Permissions!Everywhere

\* A whole cluster in place of the namespace.
Widened(g) == [g EXCEPT !.namespace = Permissions!Everywhere]

Closed(gs) == \A g \in gs : g.namespace # Permissions!Everywhere => Widened(g) \notin gs

GrantsOK ==
    /\ \A g \in staged : GoodGrant(g)
    /\ \A g \in permissions : GoodGrant(g)
    /\ Closed(permissions)

RoundOK == clusters = ManagedClusters /\ userPc \in {"idle", "hash", "adminView", "discoverable"}

UserInv == WorldOK(world) /\ VersionsOK /\ GrantsOK /\ RoundOK

LEMMA UserInit == Permissions!Init => UserInv
  BY PermissionsAssumption DEF Permissions!Init, Permissions!WorldAssumption, UserInv, WorldOK, VersionsOK,
     GrantsOK, Closed, RoundOK

LEMMA GoodAdminViews ==
    ASSUME NEW w, WorldOK(w), NEW g \in Permissions!AdminViewGrants(w, ManagedClusters)
    PROVE  GoodGrant(g)
<1>1. PICK b \in Permissions!BindingsOf(w) : \E o \in Permissions!Referenced(w, b) :
         g \in [subject : Permissions!UsersAndGroups(w[b].subjects), role : Permissions!SyntheticRoles(w[o].rules),
                cluster : Permissions!Reach(w, b, ManagedClusters), namespace : {Permissions!Everywhere}]
  BY DEF Permissions!AdminViewGrants
<1>2. w[b] \in PermissionContents[b] /\ w[b].kind \in {"ClusterRoleBinding", "RoleBinding"} /\ b \in Objects
  BY DEF Permissions!BindingsOf, Permissions!OfKind, WorldOK
<1>3. \A s \in w[b].subjects : s = [kind |-> s.kind, name |-> s.name]
  BY <1>2, PermissionsAssumption, Zenon DEF Permissions!WorldAssumption
<1>4. \A s \in Permissions!UsersAndGroups(w[b].subjects) : s.kind \in {"User", "Group"}
  BY <1>3 DEF Permissions!UsersAndGroups
<1>5. Permissions!Reach(w, b, ManagedClusters) \subseteq ManagedClusters
  BY DEF Permissions!Reach
<1> QED
  BY <1>1, <1>4, <1>5 DEF GoodGrant

LEMMA GoodDiscoverables ==
    ASSUME NEW w, WorldOK(w), NEW g \in Permissions!DiscoverableGrants(w)
    PROVE  GoodGrant(g)
<1>1. PICK p \in Permissions!OfKind(w, "ClusterPermission") : \E b \in w[p].bindings :
         /\ \E o \in Permissions!DiscoverableRoles(w) : w[o].name = b.role
         /\ g \in [subject : {s \in b.subjects : s.kind \in {"User", "Group"}}, role : {b.role},
                   cluster : {w[p].namespace}, namespace : {b.namespace}]
  BY DEF Permissions!DiscoverableGrants
<1>2. w[p] \in PermissionContents[p] /\ w[p].kind = "ClusterPermission" /\ p \in Objects
  BY DEF Permissions!OfKind, WorldOK
<1>3. w[p].namespace \in ManagedClusters
  BY <1>2, PermissionsAssumption DEF Permissions!WorldAssumption
<1>4. PICK b \in w[p].bindings :
         /\ \E o \in Permissions!DiscoverableRoles(w) : w[o].name = b.role
         /\ g \in [subject : {s \in b.subjects : s.kind \in {"User", "Group"}}, role : {b.role},
                   cluster : {w[p].namespace}, namespace : {b.namespace}]
  BY <1>1
<1>5. PICK o \in Permissions!DiscoverableRoles(w) : w[o].name = b.role
  BY <1>4
<1>6. w[o] \in PermissionContents[o] /\ w[o].kind = "ClusterRole" /\ o \in Objects /\ w[o].discoverable
  BY DEF Permissions!DiscoverableRoles, Permissions!OfKind, WorldOK
<1>7. w[o].name # Permissions!Admin
  BY <1>6, PermissionsAssumption DEF Permissions!WorldAssumption
<1> QED
  BY <1>3, <1>4, <1>5, <1>7 DEF GoodGrant

LEMMA GoodMerged ==
    ASSUME NEW gs, \A g \in gs : GoodGrant(g)
    PROVE  (\A g \in Permissions!Merged(gs) : GoodGrant(g)) /\ Closed(Permissions!Merged(gs))
  BY DEF Permissions!Merged, Closed, Widened

LEMMA UserStep == UserInv /\ [Permissions!Next]_(Permissions!vars) => UserInv'
<1> SUFFICES ASSUME UserInv, [Permissions!Next]_(Permissions!vars) PROVE UserInv'
  OBVIOUS
<1>1. Bound.users.churn \in Nat
  BY PermissionsAssumption DEF Permissions!WorldAssumption
<1>2. ASSUME Permissions!WorldChanges PROVE UserInv'
  <2>1. PICK o \in Objects : \E c \in PermissionContents[o] \cup {Absent} :
           /\ world' = [world EXCEPT ![o] = c]
           /\ version' = [version EXCEPT ![o] = IF c = Absent THEN 0 ELSE partChurn']
    BY <1>2, Zenon DEF Permissions!WorldChanges
  <2>2. /\ partChurn < Bound.users.churn /\ partChurn' = partChurn + 1
        /\ UNCHANGED <<clusters, userPc, staged, permissions>>
    BY <1>2, Zenon DEF Permissions!WorldChanges, Permissions!roundVars, Permissions!cacheVars
  <2>3. WorldOK(world')
    BY <2>1 DEF UserInv, WorldOK
  <2>4. VersionsOK'
    BY <1>1, <2>1, <2>2 DEF UserInv, VersionsOK
  <2> QED
    BY <2>2, <2>3, <2>4 DEF UserInv, GrantsOK, Closed, Widened, GoodGrant, RoundOK
<1>3. ASSUME UNCHANGED <<world, version, partChurn>>, GrantsOK', RoundOK' PROVE UserInv'
  BY <1>3 DEF UserInv, WorldOK, VersionsOK
<1>4. ASSUME UNCHANGED <<staged, permissions>> PROVE GrantsOK'
  BY <1>4 DEF UserInv, GrantsOK, Closed, Widened, GoodGrant
<1>5. ASSUME Permissions!HashAdminView PROVE UserInv'
  BY <1>3, <1>4, <1>5 DEF Permissions!HashAdminView, Permissions!worldVars, Permissions!cacheVars, UserInv, RoundOK
<1>6. ASSUME Permissions!HashDiscoverable PROVE UserInv'
  BY <1>3, <1>4, <1>6 DEF Permissions!HashDiscoverable, Permissions!worldVars, Permissions!cacheVars, UserInv, RoundOK
<1>7. ASSUME Permissions!SyncAdminView PROVE UserInv'
  <2>1. GrantsOK'
    <3>1. \A g \in staged' : GoodGrant(g)
      BY <1>7, GoodAdminViews DEF Permissions!SyncAdminView, UserInv, RoundOK
    <3>2. UNCHANGED permissions
      BY <1>7 DEF Permissions!SyncAdminView, Permissions!cacheVars
    <3> QED
      BY <3>1, <3>2 DEF UserInv, GrantsOK, Closed, Widened, GoodGrant
  <2> QED
    BY <1>3, <1>7, <2>1 DEF Permissions!SyncAdminView, Permissions!worldVars, UserInv, RoundOK
<1>8. ASSUME Permissions!SyncDiscoverable PROVE UserInv'
  <2>1. GrantsOK'
    <3> DEFINE gs == staged \cup Permissions!DiscoverableGrants(world)
    <3>1. permissions' = Permissions!Merged(gs) /\ staged' = {}
      BY <1>8 DEF Permissions!SyncDiscoverable, Permissions!Stores
    <3>2. \A g \in gs : GoodGrant(g)
      BY GoodDiscoverables DEF UserInv, GrantsOK
    <3> HIDE DEF gs
    <3> QED
      BY <3>1, <3>2, GoodMerged DEF GrantsOK, Closed, Widened, GoodGrant
  <2> QED
    BY <1>3, <1>8, <2>1 DEF Permissions!SyncDiscoverable, Permissions!Stores, Permissions!worldVars, UserInv, RoundOK
<1>9. ASSUME UNCHANGED Permissions!vars PROVE UserInv'
  BY <1>3, <1>4, <1>9 DEF Permissions!vars, Permissions!worldVars, Permissions!roundVars, Permissions!cacheVars,
     UserInv, RoundOK
<1> QED
  BY <1>2, <1>5, <1>6, <1>7, <1>8, <1>9 DEF Permissions!Next, Permissions!Synchronize

LEMMA UserType == UserInv => Permissions!TypeOK
<1> SUFFICES ASSUME UserInv PROVE Permissions!TypeOK
  OBVIOUS
<1>1. \A o \in Objects : version[o] \in 0..Bound.users.churn
  BY PermissionsAssumption DEF Permissions!WorldAssumption, UserInv, VersionsOK
<1>2. \A rs : Permissions!Admin \in Permissions!SyntheticRoles(rs)
              => Permissions!RulesGrantPermission(rs, "managedclusterviews", "view")
  BY DEF Permissions!SyntheticRoles, Permissions!Admin, Permissions!View
<1> QED
  BY <1>1, <1>2 DEF UserInv, RoundOK, GrantsOK, GoodGrant, Closed, Widened, Permissions!TypeOK

LEMMA UserShown == UserInv => Permissions!NothingLost
<1> SUFFICES ASSUME UserInv, NEW u \in Requests, NEW g \in Permissions!OwnGrants(u)
             PROVE  \E s \in Permissions!Get(u, g.role).bindings \cup Permissions!Get(u, Permissions!Admin).bindings :
                       /\ s.role = g.role \/ g.role = Permissions!View
                       /\ s.cluster = g.cluster /\ s.namespace \in {Permissions!Everywhere, g.namespace}
                       /\ s.role \in Permissions!List(u)
  BY DEF Permissions!NothingLost
<1> DEFINE own == Permissions!OwnGrants(u)
           merged == Permissions!Merged(own)
           shown == Permissions!GetPermissions(u)
<1>1. \A x \in own : /\ x = [role |-> x.role, cluster |-> x.cluster, namespace |-> x.namespace]
                     /\ x.role = Permissions!Admin => x.namespace = Permissions!Everywhere
  BY DEF Permissions!OwnGrants, UserInv, GrantsOK, GoodGrant
<1>2. shown = Permissions!DropViews(merged)
  BY DEF Permissions!GetPermissions
<1>3. \A name : Permissions!Get(u, name).bindings = {x \in shown : x.role = name}
  BY DEF Permissions!Get
<1>4. \A x \in shown : x.role \in Permissions!List(u)
  BY DEF Permissions!List
<1> HIDE DEF own, shown
<1>5. PICK h \in merged : /\ h.role = g.role /\ h.cluster = g.cluster
                          /\ h.namespace \in {Permissions!Everywhere, g.namespace}
  <2> DEFINE wide == [g EXCEPT !.namespace = Permissions!Everywhere]
  <2>1. g \in own
    BY DEF own
  <2>2. CASE wide \in own
    <3>1. wide.role = g.role /\ wide.cluster = g.cluster /\ wide.namespace = Permissions!Everywhere
      BY <1>1, <2>1
    <3> QED
      BY <2>2, <3>1 DEF Permissions!Merged
  <2>3. CASE wide \notin own
    BY <2>1, <2>3 DEF Permissions!Merged
  <2> QED
    BY <2>2, <2>3
<1>6. merged \subseteq own
  BY DEF Permissions!Merged
<1> HIDE DEF merged
<1>7. CASE h \in shown
  BY <1>3, <1>4, <1>5, <1>7
<1>8. CASE h \notin shown
  <2>1. PICK a \in merged : a.role = Permissions!Admin /\ a.cluster = h.cluster /\ h.role = Permissions!View
    BY <1>2, <1>8 DEF Permissions!DropViews
  <2>2. a \in shown
    BY <1>2, <2>1 DEF Permissions!DropViews, Permissions!Admin, Permissions!View
  <2>3. a.namespace = Permissions!Everywhere
    BY <1>1, <1>6, <2>1
  <2> QED
    BY <1>3, <1>4, <1>5, <2>1, <2>2, <2>3
<1> QED
  BY <1>7, <1>8

(* What the hash is of: the bindings that grant something, and the roles they refer to. *)

Grants(w, cs, b) ==
    /\ w[b].kind = "RoleBinding" => w[b].namespace \in cs
    /\ \E o \in Permissions!Referenced(w, b) : Permissions!SyntheticRoles(w[o].rules) # {}
Granters(w, cs) == {b \in Permissions!BindingsOf(w) : Grants(w, cs, b)}
RolesTracked(w, b) == {o \in Permissions!Referenced(w, b) : w[o].kind = "Role" \/ ~w[o].discoverable}
Tracked(w, cs) == Granters(w, cs) \cup UNION {RolesTracked(w, b) : b \in Granters(w, cs)}
Discoverables(w) == Permissions!DiscoverableRoles(w) \cup Permissions!OfKind(w, "ClusterPermission")

\* The resourceVersions of some objects.
Stamped(v, os) == {<<o, v[o]>> : o \in os}

LEMMA HashContents ==
    /\ Permissions!AdminViewHash = Stamped(version, Tracked(world, clusters))
    /\ Permissions!DiscoverableHash = Stamped(version, Discoverables(world))
<1>1. Permissions!DiscoverableHash = Stamped(version, Discoverables(world))
  BY DEF Permissions!DiscoverableHash, Permissions!Versions, Stamped, Discoverables
<1>2. Granters(world, clusters) = {b \in Permissions!BindingsOf(world) : Permissions!Granting(b)}
  BY DEF Granters, Grants, Permissions!Granting
<1>3. \A b : RolesTracked(world, b) = {o \in Permissions!Referenced(world, b) : Permissions!TracksRole(o)}
  BY DEF RolesTracked, Permissions!TracksRole
<1>4. Permissions!AdminViewHash = Stamped(version, Granters(world, clusters))
         \cup UNION {Stamped(version, RolesTracked(world, b)) : b \in Granters(world, clusters)}
  BY <1>2, <1>3 DEF Permissions!AdminViewHash, Permissions!Versions, Stamped
<1> QED
  BY <1>1, <1>4 DEF Tracked, Stamped

LEMMA HashContentsNext ==
    /\ Permissions!AdminViewHash' = Stamped(version', Tracked(world', clusters'))
    /\ Permissions!DiscoverableHash' = Stamped(version', Discoverables(world'))
<1>1. Permissions!DiscoverableHash' = Stamped(version', Discoverables(world'))
  BY DEF Permissions!DiscoverableHash, Permissions!Versions, Stamped, Discoverables
<1>2. Granters(world', clusters') = {b \in Permissions!BindingsOf(world') : Permissions!Granting(b)'}
  BY DEF Granters, Grants, Permissions!Granting
<1>3. \A b : RolesTracked(world', b) = {o \in Permissions!Referenced(world', b) : Permissions!TracksRole(o)'}
  BY DEF RolesTracked, Permissions!TracksRole
<1>4. Permissions!AdminViewHash' = Stamped(version', Granters(world', clusters'))
         \cup UNION {Stamped(version', RolesTracked(world', b)) : b \in Granters(world', clusters')}
  BY <1>2, <1>3 DEF Permissions!AdminViewHash, Permissions!Versions, Stamped
<1> QED
  BY <1>1, <1>4 DEF Tracked, Stamped

\* What one object's content does not matter to: the hash that has it neither before nor after a change.
LEMMA HashMisses ==
    ASSUME NEW v, NEW x, NEW o, NEW before, NEW after,
           Stamped(x, after) = Stamped(v, before), o \in after => x[o] # v[o]
    PROVE  o \notin before /\ o \notin after
<1>1. ASSUME o \in before PROVE o \in after /\ x[o] = v[o]
  <2>1. <<o, v[o]>> \in Stamped(x, after)
    BY <1>1 DEF Stamped
  <2> QED
    BY <2>1 DEF Stamped
<1>2. ASSUME o \in after PROVE x[o] = v[o]
  <2>1. <<o, x[o]>> \in Stamped(v, before)
    BY <1>2 DEF Stamped
  <2> QED
    BY <2>1 DEF Stamped
<1> QED
  BY <1>1, <1>2

\* Worlds that differ in an object that the hash does not have grant the same.
LEMMA GrantsStay ==
    ASSUME NEW w, NEW x, NEW cs, NEW o, \A p \in Objects \ {o} : x[p] = w[p],
           o \notin Tracked(w, cs), o \notin Discoverables(w)
    PROVE  /\ Permissions!AdminViewGrants(w, cs) \subseteq Permissions!AdminViewGrants(x, cs)
           /\ Permissions!DiscoverableGrants(w) \subseteq Permissions!DiscoverableGrants(x)
<1>1. ASSUME NEW g \in Permissions!AdminViewGrants(w, cs)
      PROVE  g \in Permissions!AdminViewGrants(x, cs)
  <2>1. PICK b \in Permissions!BindingsOf(w) : \E r \in Permissions!Referenced(w, b) :
           g \in [subject : Permissions!UsersAndGroups(w[b].subjects), role : Permissions!SyntheticRoles(w[r].rules),
                  cluster : Permissions!Reach(w, b, cs), namespace : {Permissions!Everywhere}]
    BY DEF Permissions!AdminViewGrants
  <2>2. PICK r \in Permissions!Referenced(w, b) :
           g \in [subject : Permissions!UsersAndGroups(w[b].subjects), role : Permissions!SyntheticRoles(w[r].rules),
                  cluster : Permissions!Reach(w, b, cs), namespace : {Permissions!Everywhere}]
    BY <2>1
  <2>3. Permissions!SyntheticRoles(w[r].rules) # {}
    BY <2>2
  <2>4. w[b].kind = "RoleBinding" => w[b].namespace \in cs
    BY <2>2 DEF Permissions!Reach
  <2>5. b \in Granters(w, cs) /\ b # o
    BY <2>3, <2>4 DEF Granters, Grants, Tracked
  <2>6. r # o
    <3>1. CASE w[r].kind = "Role" \/ ~w[r].discoverable
      BY <2>5, <3>1 DEF Tracked, RolesTracked
    <3>2. CASE w[r].kind # "Role" /\ w[r].discoverable
      BY <3>2 DEF Discoverables, Permissions!DiscoverableRoles, Permissions!OfKind, Permissions!Referenced
    <3> QED
      BY <3>1, <3>2
  <2>7. x[b] = w[b] /\ x[r] = w[r]
    BY <2>5, <2>6 DEF Permissions!BindingsOf, Permissions!OfKind, Permissions!Referenced
  <2>8. b \in Permissions!BindingsOf(x)
    BY <2>7 DEF Permissions!BindingsOf, Permissions!OfKind
  <2>9. r \in Permissions!Referenced(x, b)
    BY <2>7 DEF Permissions!Referenced
  <2>10. Permissions!Reach(x, b, cs) = Permissions!Reach(w, b, cs)
    BY <2>7 DEF Permissions!Reach
  <2>11. g \in [subject : Permissions!UsersAndGroups(x[b].subjects), role : Permissions!SyntheticRoles(x[r].rules),
               cluster : Permissions!Reach(x, b, cs), namespace : {Permissions!Everywhere}]
    BY <2>2, <2>7, <2>10
  <2> QED
    BY <2>8, <2>9, <2>11 DEF Permissions!AdminViewGrants
<1>2. ASSUME NEW g \in Permissions!DiscoverableGrants(w)
      PROVE  g \in Permissions!DiscoverableGrants(x)
  <2>1. PICK p \in Permissions!OfKind(w, "ClusterPermission") : \E b \in w[p].bindings :
           /\ \E r \in Permissions!DiscoverableRoles(w) : w[r].name = b.role
           /\ g \in [subject : {s \in b.subjects : s.kind \in {"User", "Group"}}, role : {b.role},
                     cluster : {w[p].namespace}, namespace : {b.namespace}]
    BY DEF Permissions!DiscoverableGrants
  <2>2. x[p] = w[p] /\ p \in Permissions!OfKind(x, "ClusterPermission")
    BY DEF Discoverables, Permissions!OfKind
  <2>3. \A r \in Permissions!DiscoverableRoles(w) : x[r] = w[r] /\ r \in Permissions!DiscoverableRoles(x)
    BY DEF Discoverables, Permissions!DiscoverableRoles, Permissions!OfKind
  <2>4. PICK b \in x[p].bindings :
           /\ \E r \in Permissions!DiscoverableRoles(x) : x[r].name = b.role
           /\ g \in [subject : {s \in b.subjects : s.kind \in {"User", "Group"}}, role : {b.role},
                     cluster : {x[p].namespace}, namespace : {b.namespace}]
    BY <2>1, <2>2, <2>3, Zenon
  <2> QED
    BY <2>2, <2>4 DEF Permissions!DiscoverableGrants
<1> QED
  BY <1>1, <1>2

LEMMA UserHash == UserInv /\ [Permissions!Next]_(Permissions!vars) => Permissions!HashMoves
<1> SUFFICES ASSUME UserInv, [Permissions!Next]_(Permissions!vars), UNCHANGED clusters,
                    Permissions!Hash' = Permissions!Hash
             PROVE  Permissions!Granted' = Permissions!Granted
  BY DEF Permissions!HashMoves
<1>1. /\ Stamped(version', Tracked(world', clusters)) = Stamped(version, Tracked(world, clusters))
      /\ Stamped(version', Discoverables(world')) = Stamped(version, Discoverables(world))
  <2>1. Permissions!AdminViewHash' = Permissions!AdminViewHash /\ Permissions!DiscoverableHash' = Permissions!DiscoverableHash
    BY DEF Permissions!Hash
  <2> QED
    BY <2>1, HashContents, HashContentsNext
<1>2. ASSUME Permissions!WorldChanges PROVE Permissions!Granted' = Permissions!Granted
  <2>1. PICK o \in Objects : \E c \in PermissionContents[o] \cup {Absent} :
           /\ world' = [world EXCEPT ![o] = c]
           /\ version' = [version EXCEPT ![o] = IF c = Absent THEN 0 ELSE partChurn']
    BY <1>2, Zenon DEF Permissions!WorldChanges
  <2>2. partChurn' = partChurn + 1
    BY <1>2, Zenon DEF Permissions!WorldChanges
  <2>3. \A p \in Objects \ {o} : world'[p] = world[p]
    BY <2>1 DEF UserInv, WorldOK
  <2>4. world'[o] # Absent => version'[o] # version[o]
    BY <2>1, <2>2, PermissionsAssumption DEF UserInv, WorldOK, VersionsOK, Permissions!WorldAssumption
  <2>5. \A p \in Tracked(world', clusters) \cup Discoverables(world') : world'[p] # Absent
    BY DEF Tracked, Granters, RolesTracked, Discoverables, Permissions!BindingsOf, Permissions!OfKind,
       Permissions!Referenced, Permissions!DiscoverableRoles
  <2>6. o \notin Tracked(world, clusters) /\ o \notin Tracked(world', clusters)
    BY <1>1, <2>4, <2>5, HashMisses
  <2>7. o \notin Discoverables(world) /\ o \notin Discoverables(world')
    BY <1>1, <2>4, <2>5, HashMisses
  <2>8. /\ Permissions!AdminViewGrants(world', clusters) = Permissions!AdminViewGrants(world, clusters)
        /\ Permissions!DiscoverableGrants(world') = Permissions!DiscoverableGrants(world)
    <3>1. /\ Permissions!AdminViewGrants(world, clusters) \subseteq Permissions!AdminViewGrants(world', clusters)
          /\ Permissions!DiscoverableGrants(world) \subseteq Permissions!DiscoverableGrants(world')
      BY <2>3, <2>6, <2>7, GrantsStay
    <3>2. \A p \in Objects \ {o} : world[p] = world'[p]
      BY <2>3
    <3>3. /\ Permissions!AdminViewGrants(world', clusters) \subseteq Permissions!AdminViewGrants(world, clusters)
          /\ Permissions!DiscoverableGrants(world') \subseteq Permissions!DiscoverableGrants(world)
      BY <2>6, <2>7, <3>2, GrantsStay
    <3> QED
      BY <3>1, <3>3
  <2> QED
    BY <2>8 DEF Permissions!Granted
<1>3. ASSUME UNCHANGED world PROVE Permissions!Granted' = Permissions!Granted
  BY <1>3 DEF Permissions!Granted
<1> QED
  BY <1>2, <1>3 DEF Permissions!Next, Permissions!Synchronize, Permissions!HashAdminView, Permissions!HashDiscoverable,
     Permissions!SyncAdminView, Permissions!SyncDiscoverable, Permissions!Stores, Permissions!vars, Permissions!worldVars

(***************************************************************************)
(* What the hash of the last rebuild vouches for.  A grant of the admin    *)
(* and view processor comes from a binding and a role, one of the other    *)
(* from a ClusterPermission and a discoverable role.  As long as the       *)
(* resourceVersions of both objects are those under the hash, neither has  *)
(* changed since the hash was computed, and so not since the data were     *)
(* read: the grant is in what is kept under that hash.                     *)
(***************************************************************************)
AdminViewsOf(w, b, r) ==
    [subject : Permissions!UsersAndGroups(w[b].subjects), role : Permissions!SyntheticRoles(w[r].rules),
     cluster : Permissions!Reach(w, b, ManagedClusters), namespace : {Permissions!Everywhere}]
DiscoverablesOf(w, p, b) ==
    [subject : {s \in b.subjects : s.kind \in {"User", "Group"}}, role : {b.role},
     cluster : {w[p].namespace}, namespace : {b.namespace}]

AdminViewPairs(w) == {x \in Objects \X Objects : x[1] \in Permissions!BindingsOf(w) /\ x[2] \in Permissions!Referenced(w, x[1])}
DiscoverablePairs(w) ==
    {x \in Objects \X Objects :
        x[1] \in Permissions!OfKind(w, "ClusterPermission") /\ x[2] \in Permissions!DiscoverableRoles(w)}

\* The resourceVersions under a hash, and whether both objects of a pair are still of them.
Stamps(hash) == hash[1] \cup hash[2]
Vouched(stamps, v, x) == <<x[1], v[x[1]]>> \in stamps /\ <<x[2], v[x[2]]>> \in stamps

Covered(gs, g) == g \in gs \/ Widened(g) \in gs

AdminViewsKept(stamps, v, w, gs) ==
    \A x \in AdminViewPairs(w) :
        Vouched(stamps, v, x) => \A g \in AdminViewsOf(w, x[1], x[2]) : Covered(gs, g)
DiscoverablesKept(stamps, v, w, gs) ==
    \A x \in DiscoverablePairs(w) :
        Vouched(stamps, v, x) =>
            \A b \in {c \in w[x[1]].bindings : c.role = w[x[2]].name} :
                \A g \in DiscoverablesOf(w, x[1], b) : Covered(gs, g)

\* No resourceVersion under a hash is of the future.
PastStamps(stamps) == \A o, n : <<o, n>> \in stamps => n \in 0..partChurn

HashedOK ==
    /\ newHash = <<newHash[1], newHash[2]>>
    /\ PastStamps(Stamps(newHash))
    /\ userPc = "discoverable" => AdminViewsKept(Stamps(newHash), version, world, staged)
    /\ resourceVersionHash # <<>> =>
          /\ PastStamps(Stamps(resourceVersionHash))
          /\ AdminViewsKept(Stamps(resourceVersionHash), version, world, permissions)
          /\ DiscoverablesKept(Stamps(resourceVersionHash), version, world, permissions)

LEMMA HashedInit == Permissions!Init => HashedOK
  BY DEF Permissions!Init, HashedOK, PastStamps, Stamps

\* Merging leaves everything covered.
LEMMA MergedCovers ==
    ASSUME NEW gs, NEW g, GoodGrant(g), Covered(gs, g)
    PROVE  Covered(Permissions!Merged(gs), g)
<1>1. Widened(g).namespace = Permissions!Everywhere /\ Widened(Widened(g)) = Widened(g)
  BY DEF GoodGrant, Widened
<1>2. Widened(g) \in gs => Widened(g) \in Permissions!Merged(gs)
  BY <1>1 DEF Permissions!Merged
<1>3. Widened(g) \notin gs => g \in Permissions!Merged(gs)
  BY DEF Permissions!Merged, Covered, Widened
<1> QED
  BY <1>2, <1>3 DEF Covered

LEMMA GoodOfPairs ==
    ASSUME UserInv
    PROVE  /\ \A x \in AdminViewPairs(world) : \A g \in AdminViewsOf(world, x[1], x[2]) :
                 g \in Permissions!AdminViewGrants(world, clusters) /\ GoodGrant(g)
           /\ \A x \in DiscoverablePairs(world) : \A b \in {c \in world[x[1]].bindings : c.role = world[x[2]].name} :
                 \A g \in DiscoverablesOf(world, x[1], b) :
                     g \in Permissions!DiscoverableGrants(world) /\ GoodGrant(g)
<1>1. ASSUME NEW x \in AdminViewPairs(world), NEW g \in AdminViewsOf(world, x[1], x[2])
      PROVE  g \in Permissions!AdminViewGrants(world, clusters)
  BY <1>1 DEF AdminViewPairs, AdminViewsOf, Permissions!AdminViewGrants, UserInv, RoundOK
<1>2. ASSUME NEW x \in DiscoverablePairs(world), NEW b \in {c \in world[x[1]].bindings : c.role = world[x[2]].name},
             NEW g \in DiscoverablesOf(world, x[1], b)
      PROVE  g \in Permissions!DiscoverableGrants(world)
  BY <1>2 DEF DiscoverablePairs, DiscoverablesOf, Permissions!DiscoverableGrants
<1> QED
  BY <1>1, <1>2, GoodAdminViews, GoodDiscoverables DEF UserInv, RoundOK

\* A change of one object: its resourceVersion is new to every hash, and pairs without it are as before.
LEMMA KeptThroughChange ==
    ASSUME NEW stamps, NEW v, NEW y, NEW w, NEW z, NEW o, NEW gs,
           \A p \in Objects \ {o} : z[p] = w[p] /\ y[p] = v[p],
           z[o] # Absent => <<o, y[o]>> \notin stamps
    PROVE  /\ AdminViewsKept(stamps, v, w, gs) => AdminViewsKept(stamps, y, z, gs)
           /\ DiscoverablesKept(stamps, v, w, gs) => DiscoverablesKept(stamps, y, z, gs)
<1>1. ASSUME AdminViewsKept(stamps, v, w, gs), NEW x \in AdminViewPairs(z), Vouched(stamps, y, x)
      PROVE  \A g \in AdminViewsOf(z, x[1], x[2]) : Covered(gs, g)
  <2>1. x[1] # o /\ x[2] # o
    BY <1>1 DEF AdminViewPairs, Vouched, Permissions!BindingsOf, Permissions!OfKind, Permissions!Referenced
  <2>2. x[1] \in Objects /\ x[2] \in Objects /\ z[x[1]] = w[x[1]] /\ z[x[2]] = w[x[2]]
    BY <2>1 DEF AdminViewPairs
  <2>3. x \in AdminViewPairs(w)
    BY <2>2 DEF AdminViewPairs, Permissions!BindingsOf, Permissions!OfKind, Permissions!Referenced
  <2>4. Vouched(stamps, v, x)
    BY <1>1, <2>1, <2>2 DEF Vouched
  <2>5. AdminViewsOf(z, x[1], x[2]) = AdminViewsOf(w, x[1], x[2])
    BY <2>2 DEF AdminViewsOf, Permissions!Reach
  <2> QED
    BY <1>1, <2>3, <2>4, <2>5 DEF AdminViewsKept
<1>2. ASSUME DiscoverablesKept(stamps, v, w, gs), NEW x \in DiscoverablePairs(z), Vouched(stamps, y, x),
             NEW b \in {c \in z[x[1]].bindings : c.role = z[x[2]].name}
      PROVE  \A g \in DiscoverablesOf(z, x[1], b) : Covered(gs, g)
  <2>1. x[1] # o /\ x[2] # o
    BY <1>2 DEF DiscoverablePairs, Vouched, Permissions!DiscoverableRoles, Permissions!OfKind
  <2>2. x[1] \in Objects /\ x[2] \in Objects /\ z[x[1]] = w[x[1]] /\ z[x[2]] = w[x[2]]
    BY <2>1 DEF DiscoverablePairs
  <2>3. x \in DiscoverablePairs(w)
    BY <2>2 DEF DiscoverablePairs, Permissions!DiscoverableRoles, Permissions!OfKind
  <2>4. Vouched(stamps, v, x)
    BY <1>2, <2>1, <2>2 DEF Vouched
  <2>5. b \in {c \in w[x[1]].bindings : c.role = w[x[2]].name}
    BY <2>2
  <2>6. DiscoverablesOf(z, x[1], b) = DiscoverablesOf(w, x[1], b)
    BY <2>2 DEF DiscoverablesOf
  <2> QED
    BY <1>2, <2>3, <2>4, <2>5, <2>6 DEF DiscoverablesKept
<1> QED
  BY <1>1, <1>2 DEF AdminViewsKept, DiscoverablesKept

LEMMA HashedStep == UserInv /\ HashedOK /\ [Permissions!Next]_(Permissions!vars) => HashedOK'
<1> SUFFICES ASSUME UserInv, HashedOK, [Permissions!Next]_(Permissions!vars) PROVE HashedOK'
  OBVIOUS
<1>1. partChurn \in Nat /\ partChurn' \in Nat /\ partChurn <= partChurn'
  BY DEF UserInv, VersionsOK, Permissions!Next, Permissions!WorldChanges, Permissions!Synchronize,
     Permissions!HashAdminView, Permissions!HashDiscoverable, Permissions!SyncAdminView,
     Permissions!SyncDiscoverable, Permissions!Stores, Permissions!vars
<1>2. \A stamps : PastStamps(stamps) => PastStamps(stamps)'
  BY <1>1 DEF PastStamps
<1>3. PastStamps(Permissions!AdminViewHash) /\ PastStamps(Permissions!DiscoverableHash)
  <2>1. Tracked(world, clusters) \cup Discoverables(world) \subseteq Objects
    BY DEF Tracked, Granters, RolesTracked, Discoverables, Permissions!BindingsOf, Permissions!OfKind,
       Permissions!Referenced, Permissions!DiscoverableRoles
  <2> QED
    BY <2>1, HashContents DEF PastStamps, Stamped, UserInv, VersionsOK
<1>4. ASSUME UNCHANGED <<world, version, permissions, resourceVersionHash>>
      PROVE  resourceVersionHash' # <<>> =>
                /\ PastStamps(Stamps(resourceVersionHash))'
                /\ AdminViewsKept(Stamps(resourceVersionHash), version, world, permissions)'
                /\ DiscoverablesKept(Stamps(resourceVersionHash), version, world, permissions)'
  BY <1>2, <1>4 DEF HashedOK, Stamps, AdminViewsKept, DiscoverablesKept
<1>5. ASSUME Permissions!WorldChanges PROVE HashedOK'
  <2>1. PICK o \in Objects : \E c \in PermissionContents[o] \cup {Absent} :
           /\ world' = [world EXCEPT ![o] = c]
           /\ version' = [version EXCEPT ![o] = IF c = Absent THEN 0 ELSE partChurn']
    BY <1>5, Zenon DEF Permissions!WorldChanges
  <2>2. /\ partChurn' = partChurn + 1
        /\ UNCHANGED <<userPc, newHash, staged, permissions, resourceVersionHash>>
    BY <1>5, Zenon DEF Permissions!WorldChanges, Permissions!roundVars, Permissions!cacheVars
  <2>3. \A p \in Objects \ {o} : world'[p] = world[p] /\ version'[p] = version[p]
    BY <2>1 DEF UserInv, WorldOK, VersionsOK
  <2>4. world'[o] # Absent => version'[o] = partChurn + 1
    BY <2>1, <2>2 DEF UserInv, WorldOK, VersionsOK
  <2>5. \A stamps : PastStamps(stamps) => (world'[o] # Absent => <<o, version'[o]>> \notin stamps)
    BY <1>1, <2>4 DEF PastStamps
  <2>6. ASSUME NEW stamps, NEW gs, PastStamps(stamps)
        PROVE  /\ AdminViewsKept(stamps, version, world, gs) => AdminViewsKept(stamps, version', world', gs)
               /\ DiscoverablesKept(stamps, version, world, gs) => DiscoverablesKept(stamps, version', world', gs)
    BY <2>3, <2>5, <2>6, KeptThroughChange
  <2>7. /\ newHash' = <<newHash'[1], newHash'[2]>>
        /\ PastStamps(Stamps(newHash))'
        /\ userPc' = "discoverable" => AdminViewsKept(Stamps(newHash'), version', world', staged')
    BY <1>2, <2>2, <2>6 DEF HashedOK, Stamps
  <2>8. resourceVersionHash' # <<>> =>
           /\ PastStamps(Stamps(resourceVersionHash))'
           /\ AdminViewsKept(Stamps(resourceVersionHash'), version', world', permissions')
           /\ DiscoverablesKept(Stamps(resourceVersionHash'), version', world', permissions')
    BY <1>2, <2>2, <2>6 DEF HashedOK, Stamps
  <2> QED
    BY <2>7, <2>8 DEF HashedOK, AdminViewsKept, DiscoverablesKept
<1>6. ASSUME Permissions!HashAdminView PROVE HashedOK'
  <2>1. /\ newHash' = <<Permissions!AdminViewHash, {}>> /\ userPc' = "hash"
        /\ UNCHANGED <<world, version, permissions, resourceVersionHash>>
    BY <1>6, Zenon DEF Permissions!HashAdminView, Permissions!worldVars, Permissions!cacheVars
  <2>2. PastStamps(Stamps(newHash))'
    BY <1>2, <1>3, <2>1 DEF Stamps
  <2> QED
    BY <1>4, <2>1, <2>2 DEF HashedOK
<1>7. ASSUME Permissions!HashDiscoverable PROVE HashedOK'
  <2>1. /\ newHash' = [newHash EXCEPT ![2] = Permissions!DiscoverableHash] /\ userPc' \in {"idle", "adminView"}
        /\ UNCHANGED <<world, version, permissions, resourceVersionHash>>
    BY <1>7, Zenon DEF Permissions!HashDiscoverable, Permissions!worldVars, Permissions!cacheVars
  <2>2. newHash' = <<newHash[1], Permissions!DiscoverableHash>>
    BY <2>1 DEF HashedOK
  <2>3. PastStamps(newHash[1])
    BY DEF HashedOK, PastStamps, Stamps
  <2>4. PastStamps(Stamps(newHash))'
    BY <1>1, <1>3, <2>2, <2>3 DEF PastStamps, Stamps
  <2> QED
    BY <1>4, <2>1, <2>2, <2>4 DEF HashedOK
<1>8. ASSUME Permissions!SyncAdminView PROVE HashedOK'
  <2>1. /\ staged' = Permissions!AdminViewGrants(world, clusters)
        /\ UNCHANGED <<world, version, newHash, permissions, resourceVersionHash>>
    BY <1>8, Zenon DEF Permissions!SyncAdminView, Permissions!worldVars, Permissions!cacheVars
  <2>2. AdminViewsKept(Stamps(newHash), version, world, staged)'
    BY <2>1, GoodOfPairs DEF AdminViewsKept, Covered
  <2>3. PastStamps(Stamps(newHash))'
    BY <1>2, <2>1 DEF HashedOK, Stamps
  <2> QED
    BY <1>4, <2>1, <2>2, <2>3 DEF HashedOK
<1>9. ASSUME Permissions!SyncDiscoverable PROVE HashedOK'
  <2> DEFINE gs == staged \cup Permissions!DiscoverableGrants(world)
  <2>1. /\ userPc = "discoverable" /\ permissions' = Permissions!Merged(gs) /\ resourceVersionHash' = newHash
        /\ userPc' = "idle" /\ newHash' = <<{}, {}>> /\ UNCHANGED <<world, version>>
    BY <1>9, Zenon DEF Permissions!SyncDiscoverable, Permissions!Stores, Permissions!worldVars
  <2>2. AdminViewsKept(Stamps(newHash), version, world, permissions')
    <3>1. AdminViewsKept(Stamps(newHash), version, world, gs)
      BY <2>1 DEF HashedOK, AdminViewsKept, Covered
    <3> HIDE DEF gs
    <3> QED
      BY <2>1, <3>1, GoodOfPairs, MergedCovers DEF AdminViewsKept
  <2>3. DiscoverablesKept(Stamps(newHash), version, world, permissions')
    <3>1. DiscoverablesKept(Stamps(newHash), version, world, gs)
      BY GoodOfPairs DEF DiscoverablesKept, Covered
    <3> HIDE DEF gs
    <3> QED
      BY <2>1, <3>1, GoodOfPairs, MergedCovers DEF DiscoverablesKept
  <2> HIDE DEF gs
  <2>4. /\ PastStamps(Stamps(resourceVersionHash))'
        /\ AdminViewsKept(Stamps(resourceVersionHash'), version', world', permissions')
        /\ DiscoverablesKept(Stamps(resourceVersionHash'), version', world', permissions')
    BY <1>2, <2>1, <2>2, <2>3 DEF HashedOK, Stamps
  <2>5. PastStamps(Stamps(newHash))'
    BY <2>1 DEF PastStamps, Stamps
  <2> QED
    BY <2>1, <2>4, <2>5 DEF HashedOK, AdminViewsKept, DiscoverablesKept
<1>10. ASSUME UNCHANGED Permissions!vars PROVE HashedOK'
  <2>1. UNCHANGED <<world, version, partChurn, userPc, newHash, staged, permissions, resourceVersionHash>>
    BY <1>10 DEF Permissions!vars, Permissions!worldVars, Permissions!roundVars, Permissions!cacheVars
  <2> QED
    BY <2>1 DEF HashedOK, PastStamps, Stamps, AdminViewsKept, DiscoverablesKept
<1> QED
  BY <1>5, <1>6, <1>7, <1>8, <1>9, <1>10 DEF Permissions!Next, Permissions!Synchronize

\* If the hash is that of the last rebuild, it vouches for everything that is granted.
LEMMA HashedShown == UserInv /\ HashedOK => Permissions!NothingMissing
<1> SUFFICES ASSUME UserInv, HashedOK, resourceVersionHash = Permissions!Hash, NEW g \in Permissions!Granted
             PROVE  Covered(permissions, g)
  BY DEF Permissions!NothingMissing, Permissions!Shown, Covered, Widened
<1> DEFINE stamps == Stamps(resourceVersionHash)
<1>1. /\ resourceVersionHash # <<>>
      /\ stamps = Stamped(version, Tracked(world, ManagedClusters) \cup Discoverables(world))
  BY HashContents DEF Permissions!Hash, Stamps, Stamped, UserInv, RoundOK
<1>2. /\ AdminViewsKept(stamps, version, world, permissions)
      /\ DiscoverablesKept(stamps, version, world, permissions)
  BY <1>1 DEF HashedOK
<1> HIDE DEF stamps
<1>3. CASE g \in Permissions!AdminViewGrants(world, ManagedClusters)
  <2>1. PICK b \in Permissions!BindingsOf(world), r \in Objects :
           r \in Permissions!Referenced(world, b) /\ g \in AdminViewsOf(world, b, r)
    BY <1>3 DEF Permissions!AdminViewGrants, AdminViewsOf, Permissions!Referenced
  <2>2. Permissions!SyntheticRoles(world[r].rules) # {}
    BY <2>1 DEF AdminViewsOf
  <2>3. world[b].kind = "RoleBinding" => world[b].namespace \in ManagedClusters
    BY <2>1 DEF AdminViewsOf, Permissions!Reach
  <2>4. b \in Granters(world, ManagedClusters)
    BY <2>1, <2>2, <2>3 DEF Granters, Grants
  <2>5. r \in Tracked(world, ManagedClusters) \cup Discoverables(world)
    <3>1. CASE world[r].kind = "Role" \/ ~world[r].discoverable
      BY <2>1, <2>4, <3>1 DEF Tracked, RolesTracked
    <3>2. CASE world[r].kind # "Role" /\ world[r].discoverable
      BY <2>1, <3>2 DEF Discoverables, Permissions!DiscoverableRoles, Permissions!OfKind, Permissions!Referenced
    <3> QED
      BY <3>1, <3>2
  <2>6. Vouched(stamps, version, <<b, r>>)
    BY <1>1, <2>4, <2>5 DEF Vouched, Stamped, Tracked
  <2>7. <<b, r>> \in AdminViewPairs(world)
    BY <2>1 DEF AdminViewPairs, Permissions!BindingsOf, Permissions!OfKind
  <2> QED
    BY <1>2, <2>1, <2>6, <2>7 DEF AdminViewsKept
<1>4. CASE g \in Permissions!DiscoverableGrants(world)
  <2>1. PICK p \in Permissions!OfKind(world, "ClusterPermission") :
           \E b \in {x \in world[p].bindings : \E r \in Permissions!DiscoverableRoles(world) : world[r].name = x.role} :
              g \in DiscoverablesOf(world, p, b)
    BY <1>4 DEF Permissions!DiscoverableGrants, DiscoverablesOf
  <2>2. PICK b \in world[p].bindings :
           /\ \E r \in Permissions!DiscoverableRoles(world) : world[r].name = b.role
           /\ g \in DiscoverablesOf(world, p, b)
    BY <2>1
  <2>3. PICK r \in Permissions!DiscoverableRoles(world) : world[r].name = b.role
    BY <2>2
  <2>4. Vouched(stamps, version, <<p, r>>)
    BY <1>1 DEF Vouched, Stamped, Discoverables
  <2>5. <<p, r>> \in DiscoverablePairs(world)
    BY DEF DiscoverablePairs, Permissions!DiscoverableRoles, Permissions!OfKind
  <2> QED
    BY <1>2, <2>2, <2>3, <2>4, <2>5 DEF DiscoverablesKept
<1> QED
  BY <1>3, <1>4 DEF Permissions!Granted, UserInv, RoundOK

-----------------------------------------------------------------------------
(* The parts together. *)

ProxyInv ==
    /\ part \in {"access", "users", "webhook", "identity", "routes"}
    /\ IInv
    /\ part = "users" => UserInv /\ HashedOK
    /\ part = "webhook" => HookProofs!TypeInv
    /\ part = "identity" => IdentityInv
    /\ part = "routes" => RouteInv

LEMMA ProxyInitInv == ProxyInit => ProxyInv
  BY InitInv, UserInit, HashedInit, HookInit, IdentityInit, RouteInit, Zenon DEF ProxyInit, NoAccess, ProxyInv

\* A step of the proxy is one of the part that runs.
LEMMA ProxyStep ==
    ASSUME [ProxyNext]_proxyVars
    PROVE  /\ part' = part
           /\ [Next]_vars
           /\ part = "users" => [Permissions!Next]_(Permissions!vars)
           /\ part = "webhook" => [Hooks!Next]_(Hooks!vars)
           /\ part = "identity" => [Identity!Next]_(Identity!vars)
           /\ part = "routes" => [Routes!Next]_(Routes!vars)
<1>1. CASE ProxyNext
  BY <1>1, Zenon DEF ProxyNext
<1>2. CASE UNCHANGED proxyVars
  BY <1>2, Zenon DEF proxyVars, userVars, hookVars, identityVars, routeVars, Permissions!vars, Permissions!worldVars,
     Permissions!roundVars, Permissions!cacheVars, Hooks!vars, Identity!vars, Routes!vars, Routes!certVars
<1> QED
  BY <1>1, <1>2

LEMMA ProxyNextInv == ProxyInv /\ [ProxyNext]_proxyVars => ProxyInv'
<1> SUFFICES ASSUME ProxyInv, [ProxyNext]_proxyVars PROVE ProxyInv'
  OBVIOUS
<1>1. part' = part
  BY ProxyStep
<1>2. IInv'
  <2>1. IInv /\ [Next]_vars
    BY ProxyStep DEF ProxyInv
  <2> QED
    BY <2>1, NextType, NextKnown, Zenon DEF IInv
<1>3. part = "users" => UserInv' /\ HashedOK'
  BY ProxyStep, UserStep, HashedStep DEF ProxyInv
<1>4. part = "webhook" => HookProofs!TypeInv'
  BY ProxyStep, HookStep DEF ProxyInv
<1>5. part = "identity" => IdentityInv'
  BY ProxyStep, IdentityStep DEF ProxyInv
<1>6. part = "routes" => RouteInv'
  BY ProxyStep, RouteStep DEF ProxyInv
<1> QED
  BY <1>1, <1>2, <1>3, <1>4, <1>5, <1>6, Zenon DEF ProxyInv

LEMMA ProxyInvariant == ProxySpec => []ProxyInv
  BY ProxyInitInv, ProxyNextInv, PTL DEF ProxySpec

\* What the proxy does is, for the variables of the cache, what AuthCache allows.
LEMMA RunsCache == ProxySpec => Spec
<1>1. ProxyInit => Init
  BY Zenon DEF ProxyInit, NoAccess
<1>2. [ProxyNext]_proxyVars => [Next]_vars
  BY ProxyStep
<1> QED
  BY <1>1, <1>2, PTL DEF ProxySpec, Spec

-----------------------------------------------------------------------------
(* The theorems. *)

\* auth_cache.go: the cache keeps every variable within its type, whatever changes arrive in the middle of a round.
THEOREM TypeCorrect == ProxySpec => []TypeOK
<1>1. IInv => TypeOK
  BY DEF IInv
<1> QED
  BY <1>1, InvCorrect, RunsCache, PTL

\* auth_cache.go, synchronize and purgeDeletedNamespaces: no record is out of reach of deletion, for its subject
\* is a known one, for any subjects, resources and bindings and in any order of changes.
THEOREM KnownCoverRecordsHolds == ProxySpec => []KnownCoverRecords
<1>1. IInv => KnownCoverRecords
  BY DEF IInv
<1> QED
  BY <1>1, InvCorrect, RunsCache, PTL

\* The states of the parts are of their types, for any objects, sets, users, groups and ConfigMaps and any
\* number of changes and failures: no permission of a namespace is kept besides one of its cluster, the hub
\* stores no cluster set of another kind than the webhook supports, and a route has no certificate of a CA
\* to come.
THEOREM PartsTyped == ProxySpec => []PartsTypeOK
<1>1. ProxyInv => PartsTypeOK
  BY UserType, HookType, RouteType, Zenon DEF ProxyInv, PartsTypeOK
<1> QED
  BY <1>1, ProxyInvariant, PTL

\* store.go, getPermissions: for any bindings, requests and groups, merging and dropping of views lose nothing of
\* what is cached for a user or a group of the user.
THEOREM NothingLostHolds == ProxySpec => []NothingLost
<1>1. ProxyInv => NothingLost
  BY UserShown DEF ProxyInv, NothingLost
<1> QED
  BY <1>1, ProxyInvariant, PTL

\* sync.go, synchronize: for any roles and bindings and however the world moves between the hash and the two
\* steps of the rebuild, a round that stops because the hash is that of the last rebuild leaves out nothing
\* that is granted.
THEOREM NothingMissingHolds == ProxySpec => []NothingMissing
<1>1. ProxyInv => NothingMissing
  BY HashedShown DEF ProxyInv, NothingMissing
<1> QED
  BY <1>1, ProxyInvariant, PTL

\* admission.go, MergeUserIdentityToAnnotations, and helper.go, ParseUserGroup: whoever writes or passes on an
\* action, the agent acts for its last author and takes no group for the author's that is not written in the
\* name of one of the author's groups, as one of the system or as the team of one of icp; for any users and
\* groups, those with commas in their names included.
THEOREM ActsForAuthorHolds == ProxySpec => []ActsForAuthor
<1>1. ProxyInv => ActsForAuthor
  BY DEF ProxyInv, IdentityInv, ActsForAuthor
<1> QED
  BY <1>1, ProxyInvariant, PTL

\* cache.go, calculateResourceVersionHash: for any roles and bindings, no change of one object grants or revokes
\* anything without a change of the hash, although the hash leaves out what grants nothing.
THEOREM HashTellsHolds == ProxySpec => HashTells
<1>1. ProxyInv /\ [ProxyNext]_proxyVars => [part = "users" => Permissions!HashMoves]_proxyVars
  BY ProxyStep, UserHash DEF ProxyInv
<1> QED
  BY <1>1, ProxyInvariant, PTL DEF ProxySpec, HashTells

\* webhook.go: whatever requests are admitted and in whatever order they are committed, a cluster claimed from a
\* pool stays in its set, or goes from none to the default one.
THEOREM ClaimedStaysHolds == ProxySpec => ClaimedStays
<1>1. ProxyInv /\ [ProxyNext]_proxyVars => [part = "webhook" => Hooks!KeepsClaimed]_proxyVars
  BY HookActions, Zenon DEF ProxyInv, ProxyNext
<1> QED
  BY <1>1, ProxyInvariant, PTL DEF ProxySpec, ClaimedStays

\* webhook.go: nothing is put in a set or moved to another one but by a user who may join both.
THEOREM OnlyMembersHolds == ProxySpec => OnlyMembers
<1>1. ProxyInv /\ [ProxyNext]_proxyVars => [part = "webhook" => Hooks!MovedByMember]_proxyVars
  BY HookActions, Zenon DEF ProxyInv, ProxyNext
<1> QED
  BY <1>1, ProxyInvariant, PTL DEF ProxySpec, OnlyMembers
=============================================================================
