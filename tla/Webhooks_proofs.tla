--------------------------- MODULE Webhooks_proofs ---------------------------
(***************************************************************************)
(* Proofs of ClaimedStays, OnlyMembers and TypeOK: what was checked when a *)
(* request came still counts when it is committed.                         *)
(***************************************************************************)
EXTENDS Webhooks, FiniteSetTheorems, TLAPS

\* The hub stores what it should.
ObjectsOK ==
    /\ objects = [k \in Keys |-> objects[k]]
    /\ \A k \in Keys : objects[k] \in Stored(k) \cup {None}

\* A request of one of the three kinds; an update of a deployment does not put it in a pool.
IsRequest(r) ==
    /\ r.key \in Keys /\ r.operation \in {"create", "update", "delete"}
    /\ r.operation = "create" => r.old = None
    /\ r.operation # "create" => r.old \in Stored(r.key) /\ r.old # None
    /\ r.operation = "delete" => r.object = None
    /\ r.operation # "delete" => r.object \in Contents(r.key)
    /\ r.operation = "update" /\ r.key[1] = "deployment" => r.object.pooled = r.old.pooled

\* The user may join where the object comes from and where it goes to, if it moves.
IsMember(r) ==
    /\ r.operation = "create" /\ r.key[1] # "set" =>
          \/ r.key[1] = "deployment" /\ (r.object.pooled \/ r.object.agentOwned)
          \/ AllowUpdateClusterSet(r.user, r.object.set)
    /\ r.operation = "update" /\ r.key[1] # "set" =>
          \/ r.old.set = r.object.set
          \/ ValidateAllowUpdateClusterSet(r.user, r.old.set, r.object.set)

\* A claimed cluster is only on its way from no set to the default one, by what its deployment is now.
MovesRightly(r) ==
    r.operation = "update" /\ r.key[1] = "cluster" /\ r.old.set # r.object.set =>
       LET d == Deployment(r.key[2])
       IN  d # None /\ d.pooled => r.object.set = Default /\ r.old.set = NoSet

RequestsOK == \A r \in admitted : IsRequest(r) /\ IsMember(r) /\ MovesRightly(r)

\* No deployment enters a pool next to a request for its cluster.
PooledCreate(q) == q.key[1] = "deployment" /\ q.operation = "create" /\ q.object.pooled
PooledApart == \A a, b \in admitted : a.key[2] = b.key[2] => (PooledCreate(a) <=> PooledCreate(b))

HookInv == ObjectsOK /\ RequestsOK /\ PooledApart

-----------------------------------------------------------------------------
(* Keys and what is stored under them. *)

LEMMA KeyKinds ==
    ASSUME NEW k \in Keys
    PROVE  /\ k = <<k[1], k[2]>>
           /\ k[1] \in {"cluster", "deployment", "pool", "set"}
           /\ k[1] \in {"cluster", "deployment"} => k[2] \in Names
  BY DEF Keys

LEMMA NameKeys ==
    ASSUME NEW n \in Names
    PROVE  /\ <<"cluster", n>> \in Keys /\ <<"deployment", n>> \in Keys
           /\ <<"cluster", n>>[1] = "cluster" /\ <<"cluster", n>>[2] = n
           /\ <<"deployment", n>>[1] = "deployment" /\ <<"deployment", n>>[2] = n
           /\ \A m : <<"cluster", n>> # <<"deployment", m>>
  BY DEF Keys

ClusterObject(k) ==
    [set : Labels, local : BOOLEAN, hostedBy : {None} \cup (Names \ {k[2]}), hosting : BOOLEAN, dying : BOOLEAN]

LEMMA StoredClusters ==
    ASSUME NEW k \in Keys, k[1] = "cluster"
    PROVE  /\ Stored(k) = ClusterObject(k)
           /\ Contents(k) \subseteq ClusterObject(k)
<1>1. Stored(k) = ClusterObject(k)
  BY DEF Stored, ClusterObject
<1>2. Contents(k) = [set : Labels, local : BOOLEAN, hostedBy : {None} \cup (Names \ {k[2]}),
                     hosting : {FALSE}, dying : {FALSE}]
  BY DEF Contents
<1>3. ASSUME NEW o \in Contents(k) PROVE o \in ClusterObject(k)
  <2>1. o \in [set : Labels, local : BOOLEAN, hostedBy : {None} \cup (Names \ {k[2]}),
               hosting : {FALSE}, dying : {FALSE}]
    BY <1>2, Zenon
  <2> QED
    BY <2>1 DEF ClusterObject
<1> QED
  BY <1>1, <1>3

LEMMA ClusterFields ==
    ASSUME NEW k \in Keys, k[1] = "cluster", NEW o \in Stored(k), NEW b \in BOOLEAN
    PROVE  /\ [o EXCEPT !.dying = b] \in Stored(k) /\ [o EXCEPT !.dying = b].set = o.set
           /\ [o EXCEPT !.hosting = b] \in Stored(k) /\ [o EXCEPT !.hosting = b].set = o.set
           /\ o.hosting \in BOOLEAN
<1>1. o \in ClusterObject(k)
  BY StoredClusters
<1>2. /\ [o EXCEPT !.dying = b] \in ClusterObject(k) /\ [o EXCEPT !.dying = b].set = o.set
      /\ [o EXCEPT !.hosting = b] \in ClusterObject(k) /\ [o EXCEPT !.hosting = b].set = o.set
      /\ o.hosting \in BOOLEAN
  BY <1>1 DEF ClusterObject
<1> QED
  BY <1>2, StoredClusters

LEMMA StoredOthers ==
    ASSUME NEW k \in Keys, k[1] # "cluster"
    PROVE  Stored(k) = Contents(k)
  BY DEF Stored

\* What a request leaves under its key: something that may be there, with the set it asks for.
LEMMA ResultFacts ==
    ASSUME NEW r, IsRequest(r)
    PROVE  /\ Result(r) \in Stored(r.key) \cup {None}
           /\ r.operation # "delete" => Result(r).set = r.object.set
           /\ r.operation = "delete" /\ r.key[1] = "cluster" => Result(r).set = r.old.set
           /\ r.operation = "delete" /\ r.key[1] # "cluster" => Result(r) = None
           /\ r.key[1] # "cluster" => Result(r) = r.object
<1> USE DEF IsRequest
<1>1. CASE r.key[1] # "cluster"
  BY <1>1, StoredOthers DEF Result
<1>2. CASE r.key[1] = "cluster" /\ r.operation = "create"
  BY <1>2, StoredClusters DEF Result
<1>3. CASE r.key[1] = "cluster" /\ r.operation = "update"
  <2>1. PICK b : b = r.old.hosting
    OBVIOUS
  <2>2. r.key \in Keys /\ r.object \in Stored(r.key) /\ b \in BOOLEAN
    BY <1>3, <2>1, StoredClusters, ClusterFields
  <2>3. Result(r) = [r.object EXCEPT !.hosting = b]
    BY <1>3, <2>1 DEF Result
  <2>4. /\ [r.object EXCEPT !.hosting = b] \in Stored(r.key)
        /\ [r.object EXCEPT !.hosting = b].set = r.object.set
    BY <1>3, <2>2, ClusterFields, Zenon
  <2> QED
    BY <1>3, <2>3, <2>4
<1>4. CASE r.key[1] = "cluster" /\ r.operation = "delete"
  <2>1. Result(r) = [r.old EXCEPT !.dying = TRUE]
    BY <1>4 DEF Result
  <2>2. r.key \in Keys /\ r.old \in Stored(r.key) /\ TRUE \in BOOLEAN
    BY <1>4
  <2>3. [r.old EXCEPT !.dying = TRUE] \in Stored(r.key) /\ [r.old EXCEPT !.dying = TRUE].set = r.old.set
    BY <1>4, <2>2, ClusterFields, Zenon
  <2> QED
    BY <1>4, <2>1, <2>3
<1> QED
  BY <1>1, <1>2, <1>3, <1>4

-----------------------------------------------------------------------------
(* Admission. *)

\* What the webhook has allowed is a member's, and right by what it saw of the deployment.
LEMMA ValidatedIsRight ==
    ASSUME NEW r, IsRequest(r), ValidateResource(r)
    PROVE  IsMember(r) /\ MovesRightly(r)
<1>1. r.key[1] \in {"cluster", "deployment", "pool", "set"}
  BY KeyKinds DEF IsRequest
<1>2. CASE r.key[1] = "set"
  BY <1>2 DEF IsMember, MovesRightly
<1>3. CASE r.key[1] = "pool"
  <2>1. ValidateClusterPool(r)
    BY <1>3 DEF ValidateResource
  <2> QED
    BY <1>3, <2>1 DEF ValidateClusterPool, IsMember, MovesRightly
<1>4. CASE r.key[1] = "deployment"
  <2>1. ValidateClusterDeployment(r)
    BY <1>4 DEF ValidateResource
  <2> QED
    BY <1>4, <2>1 DEF ValidateClusterDeployment, IsMember, MovesRightly
<1>5. CASE r.key[1] = "cluster"
  <2>1. ValidateManagedCluster(r)
    BY <1>5 DEF ValidateResource
  <2>2. CASE r.operation = "update"
    <3>1. r.old.set = r.object.set \/ MayMove(r)
      BY <2>1, <2>2 DEF ValidateManagedCluster
    <3> QED
      BY <1>5, <2>2, <3>1 DEF MayMove, IsMember, MovesRightly
  <2>3. CASE r.operation # "update"
    BY <1>5, <2>1, <2>3 DEF ValidateManagedCluster, IsMember, MovesRightly
  <2> QED
    BY <2>2, <2>3
<1> QED
  BY <1>1, <1>2, <1>3, <1>4, <1>5

LEMMA ReceiveKeeps ==
    ASSUME HookInv, NEW r, IsRequest(r), Receive(r)
    PROVE  HookInv'
<1>1. UNCHANGED objects
  BY DEF Receive
<1>2. ObjectsOK'
  BY <1>1 DEF HookInv, ObjectsOK
<1>3. \A a \in admitted : MovesRightly(a)'
  BY <1>1 DEF HookInv, RequestsOK, MovesRightly, Deployment
<1>4. CASE ~ValidateResource(r)
  <2>1. admitted' = admitted
    BY <1>4 DEF Receive
  <2> QED
    BY <1>2, <1>3, <2>1 DEF HookInv, RequestsOK, PooledApart
<1>5. CASE ValidateResource(r)
  <2>1. admitted' = admitted \cup {r}
    BY <1>5 DEF Receive
  <2>2. IsMember(r) /\ MovesRightly(r)'
    <3>1. IsMember(r) /\ MovesRightly(r)
      BY <1>5, ValidatedIsRight
    <3> QED
      BY <1>1, <3>1 DEF MovesRightly, Deployment
  <2>3. \A a \in admitted : a.key[2] = r.key[2] => (PooledCreate(a) <=> PooledCreate(r))
    BY DEF Receive, Timely, PooledCreate
  <2>4. PooledApart'
    BY <2>1, <2>3 DEF HookInv, PooledApart
  <2>5. RequestsOK'
    BY <1>3, <2>1, <2>2 DEF HookInv, RequestsOK
  <2> QED
    BY <1>2, <2>4, <2>5 DEF HookInv
<1> QED
  BY <1>4, <1>5

LEMMA RequestOnlyAsks == Request => UNCHANGED objects
<1>1. \A r : Receive(r) => UNCHANGED objects
  BY DEF Receive
<1> QED
  BY <1>1, Zenon DEF Request

LEMMA RequestKeeps ==
    ASSUME HookInv, Request
    PROVE  HookInv'
<1>1. PICK k \in Keys, u \in Users :
        \/ objects[k] = None /\ \E o \in Contents(k) :
              Receive([operation |-> "create", key |-> k, user |-> u, old |-> None, object |-> o])
        \/ objects[k] # None /\ \E o \in Contents(k) :
              /\ k[1] = "deployment" => o.pooled = objects[k].pooled
              /\ Receive([operation |-> "update", key |-> k, user |-> u, old |-> objects[k], object |-> o])
        \/ objects[k] # None /\
              Receive([operation |-> "delete", key |-> k, user |-> u, old |-> objects[k], object |-> None])
  BY DEF Request
<1>2. objects[k] # None => objects[k] \in Stored(k)
  BY DEF HookInv, ObjectsOK
<1>3. ASSUME NEW o \in Contents(k),
             Receive([operation |-> "create", key |-> k, user |-> u, old |-> None, object |-> o])
      PROVE  HookInv'
  <2>1. IsRequest([operation |-> "create", key |-> k, user |-> u, old |-> None, object |-> o])
    BY <1>3 DEF IsRequest
  <2> QED
    BY <1>3, <2>1, ReceiveKeeps
<1>4. ASSUME objects[k] # None, NEW o \in Contents(k), k[1] = "deployment" => o.pooled = objects[k].pooled,
             Receive([operation |-> "update", key |-> k, user |-> u, old |-> objects[k], object |-> o])
      PROVE  HookInv'
  <2>1. IsRequest([operation |-> "update", key |-> k, user |-> u, old |-> objects[k], object |-> o])
    BY <1>2, <1>4 DEF IsRequest
  <2> QED
    BY <1>4, <2>1, ReceiveKeeps
<1>5. ASSUME objects[k] # None,
             Receive([operation |-> "delete", key |-> k, user |-> u, old |-> objects[k], object |-> None])
      PROVE  HookInv'
  <2>1. IsRequest([operation |-> "delete", key |-> k, user |-> u, old |-> objects[k], object |-> None])
    BY <1>2, <1>5 DEF IsRequest
  <2> QED
    BY <1>5, <2>1, ReceiveKeeps
<1> QED
  BY <1>1, <1>3, <1>4, <1>5

-----------------------------------------------------------------------------
(* Commits. *)

\* Only the object of the request changes, and only if it still is the one that was looked at.
LEMMA CommitChanges ==
    ASSUME HookInv, Commit
    PROVE  \E r \in admitted :
              /\ IsRequest(r) /\ IsMember(r) /\ MovesRightly(r)
              /\ admitted' = admitted \ {r}
              /\ objects' = [k \in Keys |-> objects'[k]]
              /\ \A k \in Keys : k # r.key => objects'[k] = objects[k]
              /\ objects'[r.key] # objects[r.key] =>
                    objects[r.key] = r.old /\ objects'[r.key] = Result(r)
<1>1. PICK r \in admitted :
        /\ admitted' = admitted \ {r}
        /\ objects' = IF objects[r.key] = r.old THEN [objects EXCEPT ![r.key] = Result(r)] ELSE objects
  BY DEF Commit
<1>2. IsRequest(r) /\ IsMember(r) /\ MovesRightly(r) /\ r.key \in Keys
  BY DEF HookInv, RequestsOK, IsRequest
<1>3. objects = [k \in Keys |-> objects[k]]
  BY DEF HookInv, ObjectsOK
<1>4. CASE objects[r.key] = r.old
  <2> DEFINE os == [objects EXCEPT ![r.key] = Result(r)]
  <2>1. /\ os = [k \in Keys |-> os[k]] /\ os[r.key] = Result(r)
        /\ \A k \in Keys : k # r.key => os[k] = objects[k]
    BY <1>2, <1>3
  <2>2. objects' = os
    BY <1>1, <1>4
  <2> HIDE DEF os
  <2> QED
    BY <1>1, <1>2, <1>4, <2>1, <2>2
<1>5. CASE objects[r.key] # r.old
  BY <1>1, <1>2, <1>3, <1>5
<1> QED
  BY <1>4, <1>5

LEMMA CommitKeeps ==
    ASSUME HookInv, Commit
    PROVE  HookInv'
<1>1. PICK r \in admitted :
        /\ IsRequest(r) /\ IsMember(r) /\ MovesRightly(r)
        /\ admitted' = admitted \ {r}
        /\ objects' = [k \in Keys |-> objects'[k]]
        /\ \A k \in Keys : k # r.key => objects'[k] = objects[k]
        /\ objects'[r.key] # objects[r.key] => objects[r.key] = r.old /\ objects'[r.key] = Result(r)
  BY CommitChanges
<1>2. ObjectsOK'
  <2>1. ASSUME NEW k \in Keys PROVE objects'[k] \in Stored(k) \cup {None}
    BY <1>1, ResultFacts DEF HookInv, ObjectsOK
  <2>2. (Keys = Keys') /\ (\A k \in Keys : Stored(k)' = Stored(k))
    BY DEF Keys, Stored, Contents, Labels
  <2> QED
    BY <1>1, <2>1 DEF ObjectsOK
<1>3. PooledApart'
  BY <1>1 DEF HookInv, PooledApart
<1>4. ASSUME NEW a \in admitted, a # r PROVE MovesRightly(a)'
  <2> SUFFICES ASSUME a.operation = "update", a.key[1] = "cluster", a.old.set # a.object.set,
                      Deployment(a.key[2])' # None, Deployment(a.key[2])'.pooled
               PROVE  a.object.set = Default /\ a.old.set = NoSet
    BY DEF MovesRightly, Deployment
  <2> DEFINE n == a.key[2]
             key == <<"deployment", n>>
  <2>1. n \in Names /\ key \in Keys /\ key[1] = "deployment" /\ key[2] = n
    BY KeyKinds, NameKeys DEF HookInv, RequestsOK, IsRequest
  <2>2. MovesRightly(a)
    BY DEF HookInv, RequestsOK
  <2>3. CASE objects'[key] = objects[key]
    BY <2>2, <2>3 DEF MovesRightly, Deployment
  <2>4. CASE objects'[key] # objects[key]
    <3>1. r.key = key /\ objects[key] = r.old /\ objects'[key] = Result(r)
      BY <1>1, <2>1, <2>4
    <3>2. Result(r) = r.object
      BY <1>1, <2>1, <3>1, ResultFacts
    <3>3. r.operation # "delete"
      BY <1>1, <2>1, <3>1, ResultFacts DEF Deployment
    <3>4. r.operation # "create"
      <4>1. ~PooledCreate(a)
        BY DEF PooledCreate
      <4>2. ~PooledCreate(r)
        BY <2>1, <3>1, <4>1 DEF HookInv, PooledApart
      <4> QED
        BY <2>1, <3>1, <3>2, <4>2 DEF PooledCreate, Deployment
    <3>5. r.old # None /\ r.object.pooled = r.old.pooled
      BY <1>1, <2>1, <3>1, <3>3, <3>4 DEF IsRequest
    <3>6. Deployment(n) # None /\ Deployment(n).pooled
      BY <3>1, <3>2, <3>5 DEF Deployment
    <3> QED
      BY <2>2, <3>6 DEF MovesRightly
  <2> QED
    BY <2>3, <2>4
<1>5. RequestsOK'
  BY <1>1, <1>4 DEF HookInv, RequestsOK
<1> QED
  BY <1>2, <1>3, <1>5 DEF HookInv

-----------------------------------------------------------------------------
(* The other steps touch clusters only. *)

LEMMA ClusterStep ==
    ASSUME HookInv, NEW n \in Names, NEW o \in Stored(<<"cluster", n>>) \cup {None},
           objects' = [objects EXCEPT ![<<"cluster", n>>] = o], UNCHANGED admitted
    PROVE  /\ HookInv'
           /\ objects'[<<"cluster", n>>] = o
           /\ \A k \in Keys : k # <<"cluster", n>> => objects'[k] = objects[k]
<1> DEFINE key == <<"cluster", n>>
<1>1. key \in Keys /\ \A m : key # <<"deployment", m>>
  BY NameKeys
<1>2. /\ objects' = [k \in Keys |-> objects'[k]] /\ objects'[key] = o
      /\ \A k \in Keys : k # key => objects'[k] = objects[k]
  BY <1>1 DEF HookInv, ObjectsOK
<1>3. ObjectsOK'
  <2>1. \A k \in Keys : objects'[k] \in Stored(k) \cup {None}
    BY <1>2 DEF HookInv, ObjectsOK
  <2> QED
    BY <1>2, <2>1 DEF ObjectsOK
<1>4. ASSUME NEW a \in admitted PROVE MovesRightly(a)'
  <2>1. MovesRightly(a) /\ IsRequest(a)
    BY DEF HookInv, RequestsOK
  <2>2. CASE a.key[1] = "cluster"
    <3>1. <<"deployment", a.key[2]>> \in Keys
      BY <2>1, <2>2, KeyKinds, NameKeys DEF IsRequest
    <3>2. Deployment(a.key[2])' = Deployment(a.key[2])
      BY <1>1, <1>2, <3>1 DEF Deployment
    <3> QED
      BY <2>1, <3>2 DEF MovesRightly
  <2>3. CASE a.key[1] # "cluster"
    BY <2>3 DEF MovesRightly
  <2> QED
    BY <2>2, <2>3
<1>5. HookInv'
  BY <1>3, <1>4 DEF HookInv, RequestsOK, PooledApart
<1> QED
  BY <1>2, <1>5

LEMMA HostingFacts ==
    ASSUME HookInv, HostingChanges
    PROVE  /\ HookInv'
           /\ \A k \in Keys : objects'[k] # objects[k] => objects[k] # None /\ objects'[k].set = objects[k].set
<1>1. PICK n \in Names :
        /\ objects[<<"cluster", n>>] # None
        /\ objects' = [objects EXCEPT ![<<"cluster", n>>].hosting = TRUE]
        /\ UNCHANGED admitted
  BY DEF HostingChanges, Cluster
<1> DEFINE key == <<"cluster", n>>
           o == [objects[key] EXCEPT !.hosting = TRUE]
<1>2. key \in Keys /\ key[1] = "cluster" /\ objects[key] \in Stored(key)
  BY <1>1, NameKeys DEF HookInv, ObjectsOK
<1>3. o \in Stored(key) /\ o.set = objects[key].set
  BY <1>2, ClusterFields
<1>4. objects' = [objects EXCEPT ![key] = o]
  BY <1>1
<1> HIDE DEF o
<1>5. /\ HookInv' /\ objects'[key] = o
      /\ \A k \in Keys : k # key => objects'[k] = objects[k]
  BY <1>1, <1>3, <1>4, ClusterStep
<1>6. ASSUME NEW k \in Keys, objects'[k] # objects[k] PROVE objects[k] # None /\ objects'[k].set = objects[k].set
  BY <1>1, <1>3, <1>5, <1>6
<1> QED
  BY <1>5, <1>6

LEMMA GoneFacts ==
    ASSUME HookInv, ClusterGone
    PROVE  HookInv' /\ \A k \in Keys : objects'[k] # objects[k] => objects'[k] = None
  BY ClusterStep DEF ClusterGone

LEMMA InitHook ==
    ASSUME InitialAssumption, Init
    PROVE  HookInv
  BY DEF Init, InitialAssumption, HookInv, ObjectsOK, RequestsOK, PooledApart

LEMMA NextHook ==
    ASSUME HookInv, [Next]_vars
    PROVE  HookInv'
<1>1. CASE Request
  BY <1>1, RequestKeeps
<1>2. CASE Commit
  BY <1>2, CommitKeeps
<1>3. CASE ClusterGone
  BY <1>3, GoneFacts
<1>4. CASE HostingChanges
  BY <1>4, HostingFacts
<1>5. CASE Deliver \/ UNCHANGED vars
  <2>1. UNCHANGED <<objects, admitted>>
    BY <1>5 DEF Deliver, vars
  <2> QED
    BY <2>1 DEF HookInv, ObjectsOK, RequestsOK, MovesRightly, Deployment, PooledApart
<1> QED
  BY <1>1, <1>2, <1>3, <1>4, <1>5 DEF Next

-----------------------------------------------------------------------------
(* The properties of a step. *)

LEMMA NextKeepsClaimed ==
    ASSUME HookInv, Next
    PROVE  KeepsClaimed
<1> SUFFICES ASSUME NEW n \in Names, Cluster(n) # None, Cluster(n)' # None,
                    Deployment(n) # None, Deployment(n).pooled
             PROVE  \/ Cluster(n)'.set = Cluster(n).set
                    \/ Cluster(n).set = NoSet /\ Cluster(n)'.set = Default
  BY DEF KeepsClaimed
<1> DEFINE key == <<"cluster", n>>
<1>1. key \in Keys /\ key[1] = "cluster" /\ key[2] = n
  BY NameKeys
<1>2. CASE Commit
  <2>1. PICK r \in admitted :
          /\ IsRequest(r) /\ MovesRightly(r)
          /\ \A k \in Keys : k # r.key => objects'[k] = objects[k]
          /\ objects'[r.key] # objects[r.key] => objects[r.key] = r.old /\ objects'[r.key] = Result(r)
    BY <1>2, CommitChanges
  <2>2. CASE objects'[key] = objects[key]
    BY <2>2 DEF Cluster
  <2>3. CASE objects'[key] # objects[key]
    <3>1. r.key = key /\ objects[key] = r.old /\ objects'[key] = Result(r)
      BY <1>1, <2>1, <2>3
    <3>2. r.operation # "create"
      BY <2>1, <3>1 DEF IsRequest, Cluster
    <3>3. CASE r.operation = "delete"
      BY <1>1, <2>1, <3>1, <3>3, ResultFacts DEF Cluster
    <3>4. CASE r.operation = "update"
      <4>1. Cluster(n)'.set = r.object.set /\ Cluster(n) = r.old
        BY <2>1, <3>1, <3>4, ResultFacts DEF Cluster
      <4> QED
        BY <1>1, <2>1, <3>1, <3>4, <4>1 DEF MovesRightly
    <3> QED
      BY <2>1, <3>2, <3>3, <3>4 DEF IsRequest
  <2> QED
    BY <2>2, <2>3
<1>3. CASE Request \/ Deliver
  BY <1>3, RequestOnlyAsks DEF Deliver, Cluster
<1>4. CASE ClusterGone
  BY <1>1, <1>4, GoneFacts DEF Cluster
<1>5. CASE HostingChanges
  BY <1>1, <1>5, HostingFacts DEF Cluster
<1> QED
  BY <1>2, <1>3, <1>4, <1>5 DEF Next

LEMMA NextMovedByMember ==
    ASSUME HookInv, Next
    PROVE  MovedByMember
<1> SUFFICES ASSUME NEW k \in Keys, k[1] # "set", objects'[k] # None, objects'[k] # objects[k]
             PROVE  \/ k[1] = "deployment" /\ objects[k] = None /\ (objects'[k].pooled \/ objects'[k].agentOwned)
                    \/ objects[k] # None /\ objects'[k].set = objects[k].set
                    \/ \E r \in admitted \ admitted' :
                          \A o \in {objects[k], objects'[k]} \ {None} : Joins[r.user] \cap {o.set, NoSet} # {}
  BY DEF MovedByMember
<1>1. CASE Commit
  <2>1. PICK r \in admitted :
          /\ IsRequest(r) /\ IsMember(r)
          /\ admitted' = admitted \ {r}
          /\ \A j \in Keys : j # r.key => objects'[j] = objects[j]
          /\ objects'[r.key] # objects[r.key] => objects[r.key] = r.old /\ objects'[r.key] = Result(r)
    BY <1>1, CommitChanges
  <2>2. r.key = k /\ objects[k] = r.old /\ objects'[k] = Result(r) /\ r \in admitted \ admitted'
    BY <2>1
  <2>3. CASE r.operation = "create"
    <3>1. objects[k] = None /\ objects'[k] = r.object
      BY <2>1, <2>2, <2>3 DEF IsRequest, Result
    <3> QED
      BY <2>1, <2>2, <2>3, <3>1 DEF IsMember, AllowUpdateClusterSet
  <2>4. CASE r.operation = "update"
    <3>1. objects[k] # None /\ objects'[k].set = r.object.set
      BY <2>1, <2>2, <2>4, ResultFacts DEF IsRequest
    <3> QED
      BY <2>1, <2>2, <2>4, <3>1 DEF IsMember, ValidateAllowUpdateClusterSet, AllowUpdateClusterSet
  <2>5. CASE r.operation = "delete"
    <3>1. k[1] = "cluster" /\ objects'[k].set = objects[k].set
      BY <2>1, <2>2, <2>5, ResultFacts
    <3> QED
      BY <2>1, <2>2, <2>5, <3>1 DEF IsRequest
  <2> QED
    BY <2>1, <2>3, <2>4, <2>5 DEF IsRequest
<1>2. CASE Request \/ Deliver
  BY <1>2, RequestOnlyAsks DEF Deliver
<1>3. CASE ClusterGone
  BY <1>3, GoneFacts
<1>4. CASE HostingChanges
  BY <1>4, HostingFacts
<1> QED
  BY <1>1, <1>2, <1>3, <1>4 DEF Next

-----------------------------------------------------------------------------
(***************************************************************************)
(* The types: no request puts a set of another kind on its way, and as     *)
(* many are on their way as may be.                                        *)
(***************************************************************************)
Selector(s) == IF s = Global THEN "global" ELSE "exclusive"
SelectorsOK ==
    /\ \A s \in Sets : objects[<<"set", s>>] # None => objects[<<"set", s>>].selector = Selector(s)
    /\ \A r \in admitted : r.key[1] = "set" /\ r.operation # "delete" => r.object.selector = Selector(r.key[2])
CountsOK ==
    /\ IsFiniteSet(admitted) /\ Cardinality(admitted) <= MaxAdmitted
    /\ requests \in 0..MaxRequests

TypeInv == HookInv /\ SelectorsOK /\ CountsOK

LEMMA TypeHook == TypeInv => TypeOK
  BY DEF TypeInv, HookInv, ObjectsOK, SelectorsOK, Selector, CountsOK, TypeOK

LEMMA InitType ==
    ASSUME InitialAssumption, LimitsAssumption, Init
    PROVE  TypeInv
<1>1. HookInv
  BY InitHook
<1>2. SelectorsOK
  BY DEF Init, InitialAssumption, SelectorsOK
<1>3. CountsOK
  BY FS_EmptySet DEF Init, LimitsAssumption, CountsOK
<1> QED
  BY <1>1, <1>2, <1>3 DEF TypeInv

LEMMA SetKeys ==
    ASSUME NEW s \in Sets
    PROVE  /\ <<"set", s>> \in Keys /\ <<"set", s>>[1] = "set" /\ <<"set", s>>[2] = s
           /\ \A n : <<"set", s>> # <<"cluster", n>>
  BY DEF Keys

LEMMA ReceiveSelects ==
    ASSUME TypeInv, LimitsAssumption, Cardinality(admitted) < MaxAdmitted, NEW r, Receive(r)
    PROVE  SelectorsOK' /\ CountsOK'
<1>1. UNCHANGED objects /\ requests' = requests + 1 /\ requests < MaxRequests
  BY DEF Receive
<1>2. admitted' = admitted \/ (admitted' = admitted \cup {r} /\ ValidateResource(r))
  BY Zenon DEF Receive
<1>3. CountsOK'
  <2>1. IsFiniteSet(admitted') /\ Cardinality(admitted') <= MaxAdmitted
    <3>0. IsFiniteSet(admitted)
      BY DEF TypeInv, CountsOK
    <3>1. Cardinality(admitted) \in Nat /\ Cardinality(admitted \cup {r}) <= Cardinality(admitted) + 1
      <4>1. Cardinality(admitted) \in Nat
        BY <3>0, FS_CardinalityType
      <4>2. Cardinality(admitted \cup {r}) \in {Cardinality(admitted), Cardinality(admitted) + 1}
        BY <3>0, FS_AddElement, Zenon
      <4> QED
        BY <4>1, <4>2
    <3>2. IsFiniteSet(admitted \cup {r})
      BY FS_AddElement DEF TypeInv, CountsOK
    <3>3. MaxAdmitted \in Nat /\ Cardinality(admitted) <= MaxAdmitted
      BY DEF TypeInv, CountsOK, LimitsAssumption
    <3>4. \A n, m \in Nat : n < MaxAdmitted /\ m <= n + 1 => m <= MaxAdmitted
      BY <3>3
    <3>5. Cardinality(admitted \cup {r}) <= MaxAdmitted
      BY <3>1, <3>2, <3>4, FS_CardinalityType
    <3> QED
      BY <1>2, <3>0, <3>2, <3>3, <3>5
  <2> QED
    BY <1>1, <2>1 DEF TypeInv, CountsOK, LimitsAssumption
<1>4. SelectorsOK'
  <2>1. ValidateResource(r) /\ r.key[1] = "set" /\ r.operation # "delete" => r.object.selector = Selector(r.key[2])
    BY DEF ValidateResource, ValidateManagedClusterSet, Selector
  <2> QED
    BY <1>1, <1>2, <2>1 DEF TypeInv, SelectorsOK
<1> QED
  BY <1>3, <1>4

LEMMA CommitSelects ==
    ASSUME TypeInv, LimitsAssumption, Commit
    PROVE  SelectorsOK' /\ CountsOK'
<1>1. PICK r \in admitted :
        /\ IsRequest(r) /\ admitted' = admitted \ {r}
        /\ \A k \in Keys : k # r.key => objects'[k] = objects[k]
        /\ objects'[r.key] # objects[r.key] => objects'[r.key] = Result(r)
  BY CommitChanges DEF TypeInv
<1>2. requests' = requests
  BY DEF Commit
<1>3. CountsOK'
  <2>1. IsFiniteSet(admitted)
    BY DEF TypeInv, CountsOK
  <2>2. Cardinality(admitted) \in Nat
    BY <2>1, FS_CardinalityType
  <2>3. IsFiniteSet(admitted \ {r}) /\ Cardinality(admitted \ {r}) = Cardinality(admitted) - 1
    BY <1>1, <2>1, FS_RemoveElement
  <2> QED
    BY <1>1, <1>2, <2>2, <2>3 DEF TypeInv, CountsOK, LimitsAssumption
<1>4. ASSUME NEW s \in Sets, objects'[<<"set", s>>] # None
      PROVE  objects'[<<"set", s>>].selector = Selector(s)
  <2>1. CASE objects'[<<"set", s>>] = objects[<<"set", s>>]
    BY <1>4, <2>1 DEF TypeInv, SelectorsOK
  <2>2. CASE objects'[<<"set", s>>] # objects[<<"set", s>>]
    <3>1. r.key = <<"set", s>> /\ objects'[<<"set", s>>] = Result(r)
      BY <1>1, <2>2, SetKeys
    <3>2. r.key[1] = "set" /\ r.key[2] = s
      BY <3>1
    <3>3. Result(r) = r.object
      BY <1>1, <3>2, ResultFacts
    <3>4. r.operation # "delete"
      BY <1>1, <1>4, <3>1, <3>3 DEF IsRequest
    <3> QED
      BY <3>1, <3>2, <3>3, <3>4 DEF TypeInv, SelectorsOK
  <2> QED
    BY <2>1, <2>2
<1> QED
  BY <1>1, <1>3, <1>4 DEF TypeInv, SelectorsOK

\* The other steps touch clusters only.
LEMMA OthersSelect ==
    ASSUME TypeInv, HostingChanges \/ ClusterGone \/ Deliver \/ UNCHANGED vars
    PROVE  SelectorsOK' /\ CountsOK'
<1>1. UNCHANGED <<admitted, requests>>
  BY DEF HostingChanges, ClusterGone, Deliver, vars
<1>2. \A s \in Sets : objects'[<<"set", s>>] = objects[<<"set", s>>]
  <2>1. \/ \E n \in Names : objects' = [objects EXCEPT ![<<"cluster", n>>] = None]
        \/ \E n \in Names : objects' = [objects EXCEPT ![<<"cluster", n>>].hosting = TRUE]
        \/ UNCHANGED objects
    BY Zenon DEF HostingChanges, ClusterGone, Deliver, vars
  <2> QED
    BY <2>1, SetKeys DEF TypeInv, HookInv, ObjectsOK
<1> QED
  BY <1>1, <1>2 DEF TypeInv, SelectorsOK, CountsOK

LEMMA NextType ==
    ASSUME TypeInv, LimitsAssumption, [Next]_vars
    PROVE  TypeInv'
<1>1. HookInv'
  BY NextHook DEF TypeInv
<1>2. ASSUME Cardinality(admitted) < MaxAdmitted, Request PROVE SelectorsOK' /\ CountsOK'
  <2>1. \E r : Receive(r)
    BY <1>2, Zenon DEF Request
  <2> QED
    BY <1>2, <2>1, ReceiveSelects
<1>3. SelectorsOK' /\ CountsOK'
  BY <1>2, CommitSelects, OthersSelect DEF Next
<1> QED
  BY <1>1, <1>3 DEF TypeInv

-----------------------------------------------------------------------------
\* webhook.go, validateUpdateClusterSet: for any clusters, sets and users, and any requests in flight
\* together, a cluster claimed from a pool stays in its set or goes from none to the default one.
THEOREM ClaimedStaysHolds ==
    ASSUME InitialAssumption
    PROVE  Spec => ClaimedStays
<1>1. Init => HookInv
  BY InitHook
<1>2. HookInv /\ [Next]_vars => HookInv'
  BY NextHook
<1>3. HookInv /\ Next => KeepsClaimed
  BY NextKeepsClaimed
<1> QED
  BY <1>1, <1>2, <1>3, PTL DEF Spec, ClaimedStays

\* webhook.go, validateAllowUpdateClusterSet: nothing is put in a set or taken out of one but by a user who
\* may join it, and by hive and the agent installer when they create deployments.
THEOREM OnlyMembersHolds ==
    ASSUME InitialAssumption
    PROVE  Spec => OnlyMembers
<1>1. Init => HookInv
  BY InitHook
<1>2. HookInv /\ [Next]_vars => HookInv'
  BY NextHook
<1>3. HookInv /\ Next => MovedByMember
  BY NextMovedByMember
<1> QED
  BY <1>1, <1>2, <1>3, PTL DEF Spec, OnlyMembers

\* webhook.go, validateManagedClusterSet: the sets that there are are of a supported kind, whichever
\* requests are on their way together; and the objects are of their types.
THEOREM TypeCorrect ==
    ASSUME InitialAssumption, LimitsAssumption
    PROVE  Spec => []TypeOK
<1>1. Init => TypeInv
  BY InitType
<1>2. TypeInv /\ [Next]_vars => TypeInv'
  BY NextType
<1> QED
  BY <1>1, <1>2, TypeHook, PTL DEF Spec
=============================================================================
