--------------------- MODULE ClusterSetController_proofs ---------------------
(***************************************************************************)
(* Proofs about ClusterSetController: for any sets, clusters and hive      *)
(* objects, and any number of user changes and failures, a deleted set     *)
(* leaves nothing behind, the roles of a set are only deleted with it, and *)
(* no change of a label or a set is lost.                                  *)
(***************************************************************************)
EXTENDS ClusterSetController, SequenceTheorems, TLAPS

Finalized(s) == obj[s].finalizer

(***************************************************************************)
(* The watch: the last event on its way is the committed state, and a set  *)
(* once delivered with the finalizer keeps it, in every later event, until *)
(* the cache has seen it dying.                                            *)
(***************************************************************************)
StreamOK(s) ==
    /\ wire[s] = <<>> => obj[s] = seen[s]
    /\ wire[s] # <<>> => obj[s] = wire[s][Len(wire[s])]
    /\ seen[s] = Live => \A i \in DOMAIN wire[s] : wire[s][i].finalizer
    /\ \A i, j \in DOMAIN wire[s] :
          i < j /\ wire[s][i] = Live => wire[s][j].finalizer
    /\ seen[s] = Dying => obj[s] # Live
    /\ \A i \in DOMAIN wire[s] : wire[s][i] = Dying => obj[s] # Live

\* What the worker's place in Reconcile says of the set it works on.
FreshOK ==
    /\ pc = "addFinalizer" /\ fresh =>
          obj[cur] = New /\ seen[cur] = obj[cur] /\ wire[cur] = <<>>
    /\ pc \in {"clean", "removeFinalizer"} /\ fresh =>
          obj[cur] = Dying /\ seen[cur] = obj[cur] /\ wire[cur] = <<>>
PlaceOK ==
    /\ pc \in {"applyRoles", "syncClusters", "syncNamespaces"} => Finalized(cur)
    /\ pc \in {"clean", "removeFinalizer"} => obj[cur] # Live
    /\ pc = "removeFinalizer" => Cleaned(cur)

\* A set has no role but its own, and without the finalizer it has no role and
\* no entry in a mapper.
RolesOK == \A s \in Sets : roles[s] \subseteq RequiredRoles(s)
CleanedOK == \A s \in Sets : ~Finalized(s) => Cleaned(s)

SafeInv ==
    /\ TypeOK
    /\ \A s \in Sets : StreamOK(s)
    /\ FreshOK
    /\ PlaceOK
    /\ RolesOK
    /\ CleanedOK

(***************************************************************************)
(* No change is lost: what is not as it should be is on its way to the     *)
(* cache, in the queue, in a handler, or still ahead of the worker.        *)
(***************************************************************************)
Busy(s) == wire[s] # <<>> \/ s \in queue
At(s, steps) == cur = s /\ pc \in steps
EventOn(s, kind) ==
    \E e \in events : /\ e.object \in kind
                      /\ s \in {e.old, e.new} \/ (s = GlobalSet /\ kind = Clusters)

RolesPending(s) ==
    obj[s].phase = "live" /\ roles[s] # RequiredRoles(s) =>
        Busy(s) \/ At(s, {"addFinalizer", "applyRoles"})
ClusterPending(s) ==
    s \in ExclusiveSets /\ obj[s].phase = "live" /\ clusterMapper[s] # ClustersOf(s) =>
        Busy(s) \/ At(s, {"addFinalizer", "applyRoles", "syncClusters"})
                \/ EventOn(s, Clusters)
NamespacePending(s) ==
    s \in ExclusiveSets /\ obj[s].phase = "live" /\ namespaceMapper[s] # NamespacesOf(s) =>
        Busy(s) \/ At(s, {"addFinalizer", "applyRoles", "syncClusters", "syncNamespaces"})
                \/ EventOn(s, HiveObjects)
GlobalPending(s) ==
    s = GlobalSet /\ obj[s].phase = "live" /\ globalMapper # ClustersOf(s) =>
        Busy(s) \/ At(s, {"addFinalizer", "applyRoles", "syncClusters"})
                \/ EventOn(s, Clusters)
DyingPending(s) == obj[s] = Dying => Busy(s) \/ At(s, {"clean", "removeFinalizer"})
StaleClean ==
    pc \in {"clean", "removeFinalizer"} => obj[cur] = Dying \/ Busy(cur)

Pending(s) ==
    /\ RolesPending(s)
    /\ ClusterPending(s)
    /\ NamespacePending(s)
    /\ GlobalPending(s)
    /\ DyingPending(s)

PendingInv ==
    /\ \A s \in Sets : Pending(s)
    /\ StaleClean

-----------------------------------------------------------------------------
(***************************************************************************)
(* The four states of a set object, told apart by phase and finalizer.     *)
(* Every other proof uses them through these facts alone.                  *)
(***************************************************************************)
LEMMA ObjectFacts ==
    /\ SetObject = {Absent, New, Live, Dying}
    /\ Absent.phase = "absent" /\ Absent.finalizer = FALSE
    /\ New.phase = "live" /\ New.finalizer = FALSE
    /\ Live.phase = "live" /\ Live.finalizer = TRUE
    /\ Dying.phase = "dying" /\ Dying.finalizer = TRUE
    /\ Absent # New /\ Absent # Live /\ Absent # Dying
    /\ New # Live /\ New # Dying /\ Live # Dying
  BY DEF SetObject, Absent, New, Live, Dying

LEMMA ObjectTypes ==
    /\ Absent \in SetObject /\ New \in SetObject
    /\ Live \in SetObject /\ Dying \in SetObject
  BY DEF SetObject

\* The operators of the module return what their names say.
LEMMA OperatorTypes ==
    ASSUME label \in [Objects -> Labels], NEW s \in Sets
    PROVE  /\ ClustersOf(s) \in SUBSET Clusters
           /\ NamespacesOf(s) \in SUBSET Namespaces
           /\ RequiredRoles(s) \in SUBSET RoleKinds
  BY ObjectsAssumption DEF ClustersOf, NamespacesOf, RequiredRoles, RoleKinds

\* getRequiredClusterSet names sets, whatever the mappers say.
LEMMA RequiredSets ==
    ASSUME NEW e \in Event, NEW mapped \in GetObjectClusterset(e)
    PROVE  GetRequiredClusterSet(e, mapped) \subseteq Sets
  BY DEF GetObjectClusterset, GetRequiredClusterSet, LabelledSet, MappedSets, Sets

(***************************************************************************)
(* Type correctness, one group of variables at a time.                     *)
(***************************************************************************)
LEMMA InitType == Init => TypeOK
<1> SUFFICES ASSUME Init PROVE TypeOK
  OBVIOUS
<1>1. ApiTypeOK
  BY ObjectTypes DEF Init, ApiTypeOK
<1>2. CacheTypeOK
  BY DEF Init, CacheTypeOK
<1>3. WorkTypeOK
  BY DEF Init, WorkTypeOK, Steps
<1>4. MapperTypeOK
  BY DEF Init, MapperTypeOK
<1>5. BoundTypeOK
  BY BoundsAssumption DEF Init, BoundTypeOK
<1> QED
  BY <1>1, <1>2, <1>3, <1>4, <1>5 DEF TypeOK

LEMMA NextType ==
    ASSUME TypeOK, [Next]_vars
    PROVE  TypeOK'
<1> USE DEF TypeOK
<1>1. ASSUME NEW s \in Sets, CreateSet(s) \/ DeleteSet(s)
      PROVE  TypeOK'
  <2> PICK o \in SetObject : UserWrites(s, o)
    BY <1>1, ObjectTypes DEF CreateSet, DeleteSet
  <2>1. ApiTypeOK'
    BY DEF UserWrites, ApiTypeOK, Commit
  <2>2. CacheTypeOK'
    BY DEF UserWrites, CacheTypeOK
  <2>3. WorkTypeOK'
    BY DEF UserWrites, WorkTypeOK
  <2>4. MapperTypeOK'
    BY DEF UserWrites, MapperTypeOK, mapVars
  <2>5. BoundTypeOK'
    BY BoundsAssumption DEF UserWrites, BoundTypeOK
  <2> QED
    BY <2>1, <2>2, <2>3, <2>4, <2>5
<1>2. ASSUME NEW o \in Objects, NEW l \in Labels, Relabel(o, l)
      PROVE  TypeOK'
  <2>1. ApiTypeOK'
    BY <1>2 DEF Relabel, ApiTypeOK, apiVars
  <2>2. CacheTypeOK'
    BY <1>2 DEF Relabel, CacheTypeOK, Event
  <2>3. WorkTypeOK'
    BY <1>2 DEF Relabel, WorkTypeOK, workVars
  <2>4. MapperTypeOK'
    BY <1>2 DEF Relabel, MapperTypeOK, mapVars
  <2>5. BoundTypeOK'
    BY <1>2, BoundsAssumption DEF Relabel, BoundTypeOK
  <2> QED
    BY <2>1, <2>2, <2>3, <2>4, <2>5
<1>3. ASSUME NEW s \in Sets, Deliver(s)
      PROVE  TypeOK'
  <2>1. ApiTypeOK'
    BY <1>3 DEF Deliver, ApiTypeOK
  <2>2. CacheTypeOK'
    BY <1>3 DEF Deliver, CacheTypeOK
  <2>3. WorkTypeOK'
    BY <1>3 DEF Deliver, WorkTypeOK, workVars
  <2>4. MapperTypeOK'
    BY <1>3 DEF Deliver, MapperTypeOK, mapVars
  <2>5. BoundTypeOK'
    BY <1>3 DEF Deliver, BoundTypeOK
  <2> QED
    BY <2>1, <2>2, <2>3, <2>4, <2>5
<1>4. ASSUME NEW e \in events, HandleEvent(e)
      PROVE  TypeOK'
  <2>1. ApiTypeOK'
    BY <1>4 DEF HandleEvent, ApiTypeOK, apiVars
  <2>2. CacheTypeOK'
    BY <1>4, RequiredSets DEF HandleEvent, CacheTypeOK, Sets
  <2>3. WorkTypeOK'
    BY <1>4 DEF HandleEvent, WorkTypeOK, workVars
  <2>4. MapperTypeOK'
    BY <1>4 DEF HandleEvent, MapperTypeOK, mapVars
  <2>5. BoundTypeOK'
    BY <1>4 DEF HandleEvent, BoundTypeOK
  <2> QED
    BY <2>1, <2>2, <2>3, <2>4, <2>5
<1>5. ASSUME NEW s \in Sets, Start(s)
      PROVE  TypeOK'
  <2>1. ApiTypeOK'
    BY <1>5 DEF Start, ApiTypeOK, apiVars
  <2>2. CacheTypeOK'
    BY <1>5 DEF Start, CacheTypeOK
  <2>3. WorkTypeOK'
    BY <1>5 DEF Start, WorkTypeOK, FirstStep, Steps
  <2>4. MapperTypeOK'
    BY <1>5 DEF Start, MapperTypeOK, mapVars
  <2>5. BoundTypeOK'
    BY <1>5 DEF Start, BoundTypeOK
  <2> QED
    BY <2>1, <2>2, <2>3, <2>4, <2>5
<1>6. CASE AddFinalizer
  <2>1. ApiTypeOK'
    BY <1>6, ObjectTypes DEF AddFinalizer, ApiTypeOK, WorkTypeOK, Commit
  <2>2. CacheTypeOK'
    BY <1>6 DEF AddFinalizer, CacheTypeOK
  <2>3. WorkTypeOK'
    BY <1>6 DEF AddFinalizer, WorkTypeOK, Steps
  <2>4. MapperTypeOK'
    BY <1>6 DEF AddFinalizer, MapperTypeOK, mapVars
  <2>5. BoundTypeOK'
    BY <1>6 DEF AddFinalizer, BoundTypeOK
  <2> QED
    BY <2>1, <2>2, <2>3, <2>4, <2>5
<1>7. CASE Conflict
  <2>1. ApiTypeOK'
    BY <1>7 DEF Conflict, ReturnError, Return, ApiTypeOK, apiVars
  <2>2. CacheTypeOK'
    BY <1>7 DEF Conflict, ReturnError, Return, CacheTypeOK, WorkTypeOK
  <2>3. WorkTypeOK'
    BY <1>7 DEF Conflict, ReturnError, Return, WorkTypeOK, Steps
  <2>4. MapperTypeOK'
    BY <1>7 DEF Conflict, ReturnError, Return, MapperTypeOK, mapVars
  <2>5. BoundTypeOK'
    BY <1>7 DEF Conflict, ReturnError, Return, BoundTypeOK
  <2> QED
    BY <2>1, <2>2, <2>3, <2>4, <2>5
<1>8. CASE CallFails
  <2>1. ApiTypeOK'
    BY <1>8 DEF CallFails, Fault, ReturnError, Return, ApiTypeOK, apiVars
  <2>2. CacheTypeOK'
    BY <1>8 DEF CallFails, Fault, ReturnError, Return, CacheTypeOK, WorkTypeOK
  <2>3. WorkTypeOK'
    BY <1>8 DEF CallFails, Fault, ReturnError, Return, WorkTypeOK, Steps
  <2>4. MapperTypeOK'
    BY <1>8 DEF CallFails, Fault, ReturnError, Return, MapperTypeOK, mapVars
  <2>5. BoundTypeOK'
    BY <1>8, BoundsAssumption DEF CallFails, Fault, ReturnError, Return, BoundTypeOK
  <2> QED
    BY <2>1, <2>2, <2>3, <2>4, <2>5
<1>9. CASE ApplyRoles
  <2>1. ApiTypeOK'
    BY <1>9, OperatorTypes DEF ApplyRoles, ApiTypeOK, CacheTypeOK, WorkTypeOK, apiVars
  <2>2. CacheTypeOK'
    BY <1>9 DEF ApplyRoles, CacheTypeOK
  <2>3. WorkTypeOK'
    BY <1>9 DEF ApplyRoles, WorkTypeOK, Steps
  <2>4. MapperTypeOK'
    BY <1>9 DEF ApplyRoles, MapperTypeOK, mapVars
  <2>5. BoundTypeOK'
    BY <1>9 DEF ApplyRoles, BoundTypeOK
  <2> QED
    BY <2>1, <2>2, <2>3, <2>4, <2>5
<1>10. CASE ApplyRolesFails
  <2>1. ApiTypeOK'
    BY <1>10, OperatorTypes
       DEF ApplyRolesFails, Fault, ReturnError, Return, ApiTypeOK, CacheTypeOK, WorkTypeOK, apiVars
  <2>2. CacheTypeOK'
    BY <1>10 DEF ApplyRolesFails, Fault, ReturnError, Return, CacheTypeOK, WorkTypeOK
  <2>3. WorkTypeOK'
    BY <1>10 DEF ApplyRolesFails, Fault, ReturnError, Return, WorkTypeOK, Steps
  <2>4. MapperTypeOK'
    BY <1>10 DEF ApplyRolesFails, Fault, ReturnError, Return, MapperTypeOK, mapVars
  <2>5. BoundTypeOK'
    BY <1>10, BoundsAssumption
       DEF ApplyRolesFails, Fault, ReturnError, Return, BoundTypeOK
  <2> QED
    BY <2>1, <2>2, <2>3, <2>4, <2>5
<1>11. CASE SyncClusters
  <2>1. ApiTypeOK'
    BY <1>11 DEF SyncClusters, ReturnNil, Return, ApiTypeOK, apiVars
  <2>2. CacheTypeOK'
    BY <1>11 DEF SyncClusters, ReturnNil, Return, CacheTypeOK
  <2>3. WorkTypeOK'
    BY <1>11 DEF SyncClusters, ReturnNil, Return, WorkTypeOK, Steps
  <2>4. MapperTypeOK'
    BY <1>11, OperatorTypes
       DEF SyncClusters, ReturnNil, Return, MapperTypeOK, CacheTypeOK, WorkTypeOK, Sets
  <2>5. BoundTypeOK'
    BY <1>11 DEF SyncClusters, ReturnNil, Return, BoundTypeOK
  <2> QED
    BY <2>1, <2>2, <2>3, <2>4, <2>5
<1>12. CASE SyncNamespaces
  <2>1. ApiTypeOK'
    BY <1>12 DEF SyncNamespaces, ReturnNil, Return, ApiTypeOK, apiVars
  <2>2. CacheTypeOK'
    BY <1>12 DEF SyncNamespaces, ReturnNil, Return, CacheTypeOK
  <2>3. WorkTypeOK'
    BY <1>12 DEF SyncNamespaces, ReturnNil, Return, WorkTypeOK, Steps
  <2>4. MapperTypeOK'
    BY <1>12, OperatorTypes
       DEF SyncNamespaces, ReturnNil, Return, MapperTypeOK, CacheTypeOK, WorkTypeOK
  <2>5. BoundTypeOK'
    BY <1>12 DEF SyncNamespaces, ReturnNil, Return, BoundTypeOK
  <2> QED
    BY <2>1, <2>2, <2>3, <2>4, <2>5
<1>13. CASE CleanClusterSetResource
  <2>1. ApiTypeOK'
    BY <1>13 DEF CleanClusterSetResource, ApiTypeOK, WorkTypeOK, apiVars
  <2>2. CacheTypeOK'
    BY <1>13 DEF CleanClusterSetResource, CacheTypeOK
  <2>3. WorkTypeOK'
    BY <1>13 DEF CleanClusterSetResource, WorkTypeOK, Steps
  <2>4. MapperTypeOK'
    BY <1>13 DEF CleanClusterSetResource, MapperTypeOK
  <2>5. BoundTypeOK'
    BY <1>13 DEF CleanClusterSetResource, BoundTypeOK
  <2> QED
    BY <2>1, <2>2, <2>3, <2>4, <2>5
<1>14. CASE CleanFails
  <2>1. ApiTypeOK'
    BY <1>14 DEF CleanFails, Fault, ReturnError, Return, ApiTypeOK, WorkTypeOK, apiVars
  <2>2. CacheTypeOK'
    BY <1>14 DEF CleanFails, Fault, ReturnError, Return, CacheTypeOK, WorkTypeOK
  <2>3. WorkTypeOK'
    BY <1>14 DEF CleanFails, Fault, ReturnError, Return, WorkTypeOK, Steps
  <2>4. MapperTypeOK'
    BY <1>14 DEF CleanFails, Fault, ReturnError, Return, MapperTypeOK, mapVars
  <2>5. BoundTypeOK'
    BY <1>14, BoundsAssumption DEF CleanFails, Fault, ReturnError, Return, BoundTypeOK
  <2> QED
    BY <2>1, <2>2, <2>3, <2>4, <2>5
<1>15. CASE RemoveFinalizer
  <2>1. ApiTypeOK'
    BY <1>15, ObjectTypes
       DEF RemoveFinalizer, ReturnNil, Return, ApiTypeOK, WorkTypeOK, Commit
  <2>2. CacheTypeOK'
    BY <1>15 DEF RemoveFinalizer, ReturnNil, Return, CacheTypeOK
  <2>3. WorkTypeOK'
    BY <1>15 DEF RemoveFinalizer, ReturnNil, Return, WorkTypeOK, Steps
  <2>4. MapperTypeOK'
    BY <1>15 DEF RemoveFinalizer, ReturnNil, Return, MapperTypeOK, mapVars
  <2>5. BoundTypeOK'
    BY <1>15 DEF RemoveFinalizer, ReturnNil, Return, BoundTypeOK
  <2> QED
    BY <2>1, <2>2, <2>3, <2>4, <2>5
<1>16. CASE Restart
  <2>1. ApiTypeOK'
    BY <1>16 DEF Restart, Fault, Return, ApiTypeOK
  <2>2. CacheTypeOK'
    BY <1>16 DEF Restart, Fault, Return, CacheTypeOK
  <2>3. WorkTypeOK'
    BY <1>16 DEF Restart, Fault, Return, WorkTypeOK, Steps
  <2>4. MapperTypeOK'
    BY <1>16 DEF Restart, Fault, Return, MapperTypeOK
  <2>5. BoundTypeOK'
    BY <1>16, BoundsAssumption DEF Restart, Fault, Return, BoundTypeOK
  <2> QED
    BY <2>1, <2>2, <2>3, <2>4, <2>5
<1>17. CASE UNCHANGED vars
  BY <1>17 DEF vars, ApiTypeOK, CacheTypeOK, WorkTypeOK, MapperTypeOK, BoundTypeOK
<1> QED
  BY <1>1, <1>2, <1>3, <1>4, <1>5, <1>6, <1>7, <1>8, <1>9, <1>10, <1>11, <1>12, <1>13, <1>14, <1>15, <1>16, <1>17
     DEF Next, User, Informer, Worker, Failure

(***************************************************************************)
(* The controller keeps every variable within its type, whatever users do  *)
(* and whichever calls fail.                                               *)
(***************************************************************************)
THEOREM TypeCorrect == Spec => []TypeOK
<1>1. Init => TypeOK
  BY InitType
<1>2. TypeOK /\ [Next]_vars => TypeOK'
  BY NextType
<1> QED
  BY <1>1, <1>2, PTL DEF Spec

-----------------------------------------------------------------------------
(***************************************************************************)
(* The watch.  A committed state may follow the ones on their way when it  *)
(* keeps the finalizer, or there was none to keep, or the cache has seen   *)
(* the set dying; the finalizer is only added to a set the cache knows.    *)
(***************************************************************************)
LEMMA CommitStream ==
    ASSUME TypeOK, \A t \in Sets : StreamOK(t),
           NEW s \in Sets, NEW o \in SetObject, Commit(s, o), UNCHANGED seen,
           o.finalizer \/ ~obj[s].finalizer \/ (wire[s] = <<>> /\ seen[s] = Dying),
           o = Live => wire[s] = <<>> /\ seen[s] = New
    PROVE  \A t \in Sets : StreamOK(t)'
<1> SUFFICES ASSUME NEW t \in Sets PROVE StreamOK(t)'
  OBVIOUS
<1> DEFINE w == wire[s]
<1>1. w \in Seq(SetObject) /\ obj[s] \in SetObject /\ Len(w) \in Nat
  BY DEF TypeOK, ApiTypeOK
<1>2. CASE t # s
  BY <1>2 DEF Commit, StreamOK, TypeOK, ApiTypeOK
<1>3. CASE t = s
  <2>1. wire'[s] = Append(w, o) /\ obj'[s] = o
    BY DEF Commit, TypeOK, ApiTypeOK
  <2>2. /\ Len(wire'[s]) = Len(w) + 1
        /\ wire'[s][Len(w) + 1] = o
        /\ DOMAIN wire'[s] = 1..(Len(w) + 1)
        /\ \A i \in 1..Len(w) : wire'[s][i] = w[i]
    BY <1>1, <2>1
  <2>3. w # <<>> => Len(w) \in 1..Len(w)
    BY <1>1
  <2>4. ASSUME seen[s] = Live PROVE o.finalizer
    BY <1>1, <2>3, <2>4, ObjectFacts DEF StreamOK
  <2>5. ASSUME NEW i \in 1..Len(w), w[i] = Live PROVE o.finalizer
    BY <1>1, <2>3, <2>5, ObjectFacts DEF StreamOK
  <2>6. wire'[s] # <<>>
    BY <1>1, <2>2
  <2>7. seen'[s] = Live => \A i \in DOMAIN wire'[s] : wire'[s][i].finalizer
    BY <1>1, <2>2, <2>4 DEF StreamOK
  <2>8. \A i, j \in DOMAIN wire'[s] :
           i < j /\ wire'[s][i] = Live => wire'[s][j].finalizer
    BY <1>1, <2>2, <2>5 DEF StreamOK
  <2>9. seen'[s] = Dying => obj'[s] # Live
    BY <2>1, ObjectFacts
  <2>10. \A i \in DOMAIN wire'[s] : wire'[s][i] = Dying => obj'[s] # Live
    BY <1>1, <2>1, <2>2, ObjectFacts
  <2> QED
    BY <1>3, <2>1, <2>2, <2>6, <2>7, <2>8, <2>9, <2>10 DEF StreamOK
<1> QED
  BY <1>2, <1>3

LEMMA EmptyLen == \A v : v = <<>> => Len(v) = 0
  OBVIOUS

\* What Tail leaves of a sequence.
LEMMA TailFacts ==
    ASSUME NEW S, NEW w \in Seq(S), w # <<>>
    PROVE  /\ Len(w) \in Nat \ {0}
           /\ Len(Tail(w)) = Len(w) - 1
           /\ DOMAIN Tail(w) = 1..(Len(w) - 1)
           /\ \A i \in 1..(Len(w) - 1) : Tail(w)[i] = w[i + 1]
           /\ Tail(w) = <<>> => Len(w) = 1
           /\ Len(w) = 1 => Tail(w) = <<>>
<1>1. Len(w) \in Nat \ {0} /\ Tail(w) \in Seq(S)
  OBVIOUS
<1>2. Len(Tail(w)) = Len(w) - 1
  OBVIOUS
<1>3. DOMAIN Tail(w) = 1..(Len(w) - 1)
  BY <1>1, <1>2
<1>4. \A i \in 1..(Len(w) - 1) : Tail(w)[i] = w[i + 1]
  OBVIOUS
<1>5. Tail(w) = <<>> => Len(w) = 1
  <2>1. Tail(w) = <<>> => Len(Tail(w)) = 0
    BY EmptyLen, Zenon
  <2> QED
    BY <1>1, <1>2, <2>1
<1>6. Len(w) = 1 => Tail(w) = <<>>
  <2>1. Tail(w) # <<>> => Len(Tail(w)) # 0
    BY <1>1, EmptySeq, Zenon
  <2> QED
    BY <1>1, <1>2, <2>1
<1> QED
  BY <1>1, <1>2, <1>3, <1>4, <1>5, <1>6

LEMMA DeliverStream ==
    ASSUME TypeOK, \A t \in Sets : StreamOK(t), NEW s \in Sets, Deliver(s)
    PROVE  \A t \in Sets : StreamOK(t)'
<1> SUFFICES ASSUME NEW t \in Sets PROVE StreamOK(t)'
  OBVIOUS
<1> DEFINE w == wire[s]
<1>1. w \in Seq(SetObject) /\ w # <<>> /\ Len(w) \in Nat \ {0}
  BY DEF TypeOK, ApiTypeOK, Deliver
<1>2. CASE t # s
  BY <1>2 DEF Deliver, StreamOK, TypeOK, ApiTypeOK
<1>3. CASE t = s
  <2>1. wire'[s] = Tail(w) /\ obj'[s] = obj[s] /\ seen'[s] = w[1]
    BY <1>1 DEF Deliver, TypeOK, ApiTypeOK
  <2>2. /\ Len(wire'[s]) = Len(w) - 1
        /\ DOMAIN wire'[s] = 1..(Len(w) - 1)
        /\ \A i \in 1..(Len(w) - 1) : wire'[s][i] = w[i + 1]
        /\ wire'[s] = <<>> => Len(w) = 1
        /\ wire'[s] # <<>> => Len(w) - 1 \in 1..(Len(w) - 1)
    BY <1>1, <2>1, TailFacts
  <2>3. /\ obj[s] = w[Len(w)]
        /\ \A i, j \in 1..Len(w) : i < j /\ w[i] = Live => w[j].finalizer
        /\ \A i \in 1..Len(w) : w[i] = Dying => obj[s] # Live
        /\ 1 \in 1..Len(w)
    BY <1>1 DEF StreamOK
  <2>4. \A i \in 1..(Len(w) - 1) : i + 1 \in 1..Len(w) /\ 1 < i + 1
    BY <1>1
  <2>5. wire'[s] = <<>> => obj'[s] = seen'[s]
    BY <2>1, <2>2, <2>3
  <2>6. wire'[s] # <<>> => obj'[s] = wire'[s][Len(wire'[s])]
    BY <1>1, <2>1, <2>2, <2>3
  <2>7. seen'[s] = Live => \A i \in DOMAIN wire'[s] : wire'[s][i].finalizer
    BY <1>1, <2>1, <2>2, <2>3, <2>4
  <2>8. ASSUME NEW i \in DOMAIN wire'[s], NEW j \in DOMAIN wire'[s], i < j, wire'[s][i] = Live
        PROVE  wire'[s][j].finalizer
    <3>1. wire'[s][i] = w[i + 1] /\ wire'[s][j] = w[j + 1] /\ i + 1 \in 1..Len(w) /\ j + 1 \in 1..Len(w)
      BY <2>2, <2>4, <2>8
    <3>2. i + 1 < j + 1
      BY <1>1, <2>2, <2>8
    <3>3. QED
      BY <2>3, <2>8, <3>1, <3>2
  <2>9. seen'[s] = Dying => obj'[s] # Live
    BY <1>1, <2>1, <2>3
  <2>10. \A i \in DOMAIN wire'[s] : wire'[s][i] = Dying => obj'[s] # Live
    BY <1>1, <2>1, <2>2, <2>3, <2>4
  <2> QED
    BY <1>3, <2>5, <2>6, <2>7, <2>8, <2>9, <2>10 DEF StreamOK
<1> QED
  BY <1>2, <1>3

\* Steps that leave the set objects and the cache alone.
LEMMA StreamUnchanged ==
    ASSUME \A t \in Sets : StreamOK(t), UNCHANGED apiVars
    PROVE  \A t \in Sets : StreamOK(t)'
  BY DEF StreamOK, apiVars

LEMMA NextStream ==
    ASSUME SafeInv, [Next]_vars
    PROVE  \A t \in Sets : StreamOK(t)'
<1> USE DEF SafeInv
<1>1. ASSUME NEW s \in Sets, CreateSet(s)
      PROVE  \A t \in Sets : StreamOK(t)'
  <2>1. Commit(s, New) /\ UNCHANGED seen /\ ~obj[s].finalizer
    BY <1>1, ObjectFacts DEF CreateSet, UserWrites
  <2> QED
    BY <2>1, CommitStream, ObjectTypes, ObjectFacts
<1>2. ASSUME NEW s \in Sets, DeleteSet(s)
      PROVE  \A t \in Sets : StreamOK(t)'
  <2>1. PICK o \in {Dying, Absent} :
           Commit(s, o) /\ UNCHANGED seen /\ (o.finalizer \/ ~obj[s].finalizer)
    BY <1>2, ObjectFacts DEF DeleteSet, UserWrites
  <2> QED
    BY <2>1, CommitStream, ObjectTypes, ObjectFacts
<1>3. ASSUME NEW s \in Sets, Deliver(s)
      PROVE  \A t \in Sets : StreamOK(t)'
  BY <1>3, DeliverStream
<1>4. CASE AddFinalizer
  <2>1. /\ cur \in Sets /\ Commit(cur, Live) /\ UNCHANGED seen
        /\ wire[cur] = <<>> /\ seen[cur] = New
    BY <1>4 DEF AddFinalizer, FreshOK, TypeOK, WorkTypeOK
  <2> QED
    BY <2>1, CommitStream, ObjectTypes, ObjectFacts
<1>5. CASE RemoveFinalizer
  <2>1. /\ cur \in Sets /\ Commit(cur, Absent) /\ UNCHANGED seen
        /\ wire[cur] = <<>> /\ seen[cur] = Dying
    BY <1>5 DEF RemoveFinalizer, FreshOK, TypeOK, WorkTypeOK
  <2> QED
    BY <2>1, CommitStream, ObjectTypes, ObjectFacts
<1>6. CASE Restart
  <2>1. \A t \in Sets : wire'[t] = <<>> /\ seen'[t] = obj'[t]
    BY <1>6 DEF Restart
  <2> QED
    BY <2>1, ObjectFacts DEF StreamOK
<1>7. ASSUME UNCHANGED apiVars PROVE \A t \in Sets : StreamOK(t)'
  BY <1>7, StreamUnchanged
<1>8. UNCHANGED vars => UNCHANGED apiVars
  BY DEF vars, apiVars
<1> QED
  BY <1>1, <1>2, <1>3, <1>4, <1>5, <1>6, <1>7, <1>8
     DEF Next, User, Informer, Worker, Failure, Relabel, HandleEvent, Start, Conflict,
         ApplyRoles, SyncClusters, SyncNamespaces, CleanClusterSetResource, CallFails,
         ApplyRolesFails, CleanFails, apiVars

-----------------------------------------------------------------------------
(***************************************************************************)
(* The rest of SafeInv, one conjunct at a time.                            *)
(***************************************************************************)
LEMMA InitSafe == Init => SafeInv
<1> SUFFICES ASSUME Init PROVE SafeInv
  OBVIOUS
<1>1. TypeOK
  BY InitType
<1>2. \A s \in Sets : obj[s] \in {Absent, New} /\ seen[s] = obj[s] /\ wire[s] = <<>>
  BY DEF Init
<1>3. \A s \in Sets : StreamOK(s)
  BY <1>2, ObjectFacts DEF StreamOK
<1>4. FreshOK /\ PlaceOK
  BY DEF Init, FreshOK, PlaceOK
<1>5. \A s \in Sets : roles[s] = {} /\ Cleaned(s)
  BY DEF Init, Cleaned
<1> QED
  BY <1>1, <1>3, <1>4, <1>5 DEF SafeInv, RolesOK, CleanedOK

\* A user's change: only set s, and only to a state other than Live; what
\* had the finalizer keeps it.
LEMMA UserFacts ==
    ASSUME SafeInv, NEW s \in Sets, CreateSet(s) \/ DeleteSet(s)
    PROVE  /\ obj'[s] # Live
           /\ Finalized(s)' <=> Finalized(s)
           /\ \A t \in Sets \ {s} : obj'[t] = obj[t] /\ wire'[t] = wire[t]
           /\ fresh' = (fresh /\ cur # s)
           /\ UNCHANGED <<seen, roles, pc, cur, mapVars>>
<1>1. PICK o \in {New, Dying, Absent} : UserWrites(s, o) /\ o.finalizer = obj[s].finalizer
  <2>1. CASE CreateSet(s)
    BY <2>1, ObjectFacts DEF CreateSet
  <2>2. CASE DeleteSet(s)
    <3>1. obj[s].finalizer \in BOOLEAN
      BY ObjectFacts DEF SafeInv, TypeOK, ApiTypeOK
    <3> QED
      BY <2>2, <3>1, ObjectFacts DEF DeleteSet
  <2> QED
    BY <2>1, <2>2
<1>2. /\ obj' = [obj EXCEPT ![s] = o]
      /\ wire' = [wire EXCEPT ![s] = Append(@, o)]
      /\ fresh' = (fresh /\ cur # s)
      /\ UNCHANGED <<seen, roles, pc, cur, mapVars>>
  BY <1>1 DEF UserWrites, Commit
<1>3. obj'[s] = o
  BY <1>2 DEF SafeInv, TypeOK, ApiTypeOK
<1>4. \A t \in Sets \ {s} : obj'[t] = obj[t] /\ wire'[t] = wire[t]
  BY <1>2 DEF SafeInv, TypeOK, ApiTypeOK
<1> QED
  BY <1>1, <1>2, <1>3, <1>4, ObjectFacts DEF Finalized

\* The worker starts on the step that the cached set calls for.
LEMMA StartFacts ==
    ASSUME SafeInv, NEW s \in Sets, Start(s)
    PROVE  /\ pc' \in {"idle", "addFinalizer", "applyRoles", "clean"}
           /\ pc' = "addFinalizer" => seen[s] = New
           /\ pc' = "applyRoles" => seen[s] = Live
           /\ pc' = "clean" => seen[s] = Dying
           /\ seen[s] # Absent => pc' # "idle"
           /\ pc' # "idle" => cur' = s
           /\ fresh' => wire[s] = <<>> /\ obj[s] = seen[s]
           /\ UNCHANGED <<obj, wire, seen, roles, mapVars>>
<1>1. seen[s] \in SetObject
  BY DEF SafeInv, TypeOK, ApiTypeOK
<1>2. fresh' => wire[s] = <<>> /\ obj[s] = seen[s]
  BY DEF Start, SafeInv, StreamOK
<1> QED
  BY <1>1, <1>2, ObjectFacts DEF Start, FirstStep, apiVars

LEMMA NextFresh ==
    ASSUME SafeInv, [Next]_vars
    PROVE  FreshOK'
<1> USE DEF SafeInv
<1>0. pc # "idle" => cur \in Sets
  BY DEF TypeOK, WorkTypeOK
<1>1. ASSUME NEW s \in Sets, CreateSet(s) \/ DeleteSet(s)
      PROVE  FreshOK'
  BY <1>0, <1>1, UserFacts DEF FreshOK
<1>2. ASSUME NEW s \in Sets, Deliver(s)
      PROVE  FreshOK'
  <2>1. /\ wire[s] # <<>>
        /\ \A t \in Sets \ {s} : wire'[t] = wire[t] /\ seen'[t] = seen[t]
        /\ UNCHANGED <<obj, pc, cur, fresh>>
    BY <1>2 DEF Deliver, workVars, TypeOK, ApiTypeOK
  <2> QED
    BY <1>0, <2>1 DEF FreshOK
<1>3. ASSUME NEW s \in Sets, Start(s)
      PROVE  FreshOK'
  BY <1>3, StartFacts DEF FreshOK
<1>4. CASE CleanClusterSetResource
  BY <1>4 DEF CleanClusterSetResource, FreshOK, apiVars
<1>5. ASSUME pc' \notin {"addFinalizer", "clean", "removeFinalizer"}
      PROVE  FreshOK'
  BY <1>5 DEF FreshOK
<1>6. ASSUME UNCHANGED <<apiVars, workVars>>
      PROVE  FreshOK'
  BY <1>6 DEF FreshOK, apiVars, workVars
<1>7. UNCHANGED vars => UNCHANGED <<apiVars, workVars>>
  BY DEF vars, apiVars, workVars
<1>8. SyncClusters => pc' \notin {"addFinalizer", "clean", "removeFinalizer"}
  BY DEF SyncClusters, ReturnNil, Return
<1> QED
  BY <1>1, <1>2, <1>3, <1>4, <1>5, <1>6, <1>7, <1>8
     DEF Next, User, Informer, Worker, Failure, Relabel, HandleEvent, AddFinalizer, Conflict,
         ApplyRoles, SyncNamespaces, RemoveFinalizer, CallFails, ApplyRolesFails,
         CleanFails, Restart, ReturnNil, ReturnError, Return, workVars

LEMMA NextPlace ==
    ASSUME SafeInv, [Next]_vars
    PROVE  PlaceOK'
<1> USE DEF SafeInv
<1>0. /\ pc # "idle" => cur \in Sets
      /\ \A s \in Sets : obj[s] \in SetObject
  BY DEF TypeOK, WorkTypeOK, ApiTypeOK
<1>1. ASSUME NEW s \in Sets, CreateSet(s) \/ DeleteSet(s)
      PROVE  PlaceOK'
  <2>1. Cleaned(cur)' = Cleaned(cur)
    BY <1>1, UserFacts DEF Cleaned, mapVars
  <2>2. pc # "idle" => /\ Finalized(cur)' <=> Finalized(cur)
                       /\ obj[cur] # Live => obj'[cur] # Live
                       /\ UNCHANGED <<pc, cur>>
    BY <1>0, <1>1, UserFacts DEF Finalized
  <2>3. pc' = pc
    BY <1>1, UserFacts
  <2> QED
    BY <2>1, <2>2, <2>3 DEF PlaceOK, Cleaned, Finalized
<1>2. ASSUME UNCHANGED <<obj, roles, pc, cur, mapVars>>
      PROVE  PlaceOK'
  BY <1>2 DEF PlaceOK, Finalized, Cleaned, mapVars
<1>3. ASSUME NEW s \in Sets, Start(s)
      PROVE  PlaceOK'
  <2>1. seen[s] = Live => Finalized(s)
    <3> SUFFICES ASSUME seen[s] = Live PROVE Finalized(s)
      OBVIOUS
    <3>1. CASE wire[s] = <<>>
      BY <3>1, ObjectFacts DEF StreamOK, Finalized
    <3>2. CASE wire[s] # <<>>
      <4>1. Len(wire[s]) \in DOMAIN wire[s]
        BY <3>2 DEF TypeOK, ApiTypeOK
      <4> QED
        BY <3>2, <4>1 DEF StreamOK, Finalized
    <3> QED
      BY <3>1, <3>2
  <2>2. seen[s] = Dying => obj[s] # Live
    BY DEF StreamOK
  <2> QED
    BY <1>3, <2>1, <2>2, StartFacts DEF PlaceOK, Finalized
<1>4. CASE AddFinalizer
  BY <1>0, <1>4, ObjectFacts DEF AddFinalizer, Commit, PlaceOK, Finalized, TypeOK, ApiTypeOK
<1>5. CASE ApplyRoles
  BY <1>5 DEF ApplyRoles, PlaceOK, Finalized, apiVars
<1>6. CASE SyncClusters
  BY <1>6 DEF SyncClusters, ReturnNil, Return, PlaceOK, Finalized, apiVars
<1>7. CASE CleanClusterSetResource
  <2>1. roles'[cur] = {}
    <3>1. roles[cur] \subseteq RequiredRoles(cur)
      BY <1>0, <1>7 DEF RolesOK, CleanClusterSetResource
    <3>2. \A r \in RequiredRoles(cur) : \E i \in DOMAIN CleanOrder(cur) : CleanOrder(cur)[i] = r
      BY DEF RequiredRoles, CleanOrder
    <3> QED
      BY <1>0, <1>7, <3>1, <3>2 DEF CleanClusterSetResource, TypeOK, ApiTypeOK
  <2>2. Cleaned(cur)'
    BY <1>0, <1>7, <2>1, SetsAssumption
       DEF CleanClusterSetResource, Cleaned, TypeOK, MapperTypeOK, Sets
  <2> QED
    BY <1>7, <2>2 DEF CleanClusterSetResource, PlaceOK, Cleaned, apiVars
<1>8. ASSUME pc' = "idle"
      PROVE  PlaceOK'
  BY <1>8 DEF PlaceOK
<1>9. UNCHANGED vars => UNCHANGED <<obj, roles, pc, cur, mapVars>>
  BY DEF vars, mapVars
<1> QED
  BY <1>1, <1>2, <1>3, <1>4, <1>5, <1>6, <1>7, <1>8, <1>9
     DEF Next, User, Informer, Worker, Failure, Relabel, Deliver, HandleEvent, Conflict,
         SyncNamespaces, RemoveFinalizer, CallFails, ApplyRolesFails,
         CleanFails, Restart, ReturnNil, ReturnError, Return, workVars, apiVars

LEMMA NextRoles ==
    ASSUME SafeInv, [Next]_vars
    PROVE  RolesOK'
<1> USE DEF SafeInv
<1>1. ASSUME \A s \in Sets : roles'[s] \subseteq roles[s] \cup RequiredRoles(s)
      PROVE  RolesOK'
  BY <1>1 DEF RolesOK, RequiredRoles
<1>2. ASSUME UNCHANGED roles
      PROVE  RolesOK'
  BY <1>1, <1>2
<1>3. UNCHANGED vars => UNCHANGED roles
  BY DEF vars
<1>4. CASE ApplyRoles
  BY <1>1, <1>4 DEF ApplyRoles, TypeOK, ApiTypeOK
<1>5. CASE ApplyRolesFails
  BY <1>1, <1>5 DEF ApplyRolesFails, TypeOK, ApiTypeOK
<1>6. CASE CleanClusterSetResource
  BY <1>1, <1>6 DEF CleanClusterSetResource, TypeOK, ApiTypeOK
<1>7. CASE CleanFails
  BY <1>1, <1>7 DEF CleanFails, TypeOK, ApiTypeOK
<1> QED
  BY <1>2, <1>3, <1>4, <1>5, <1>6, <1>7
     DEF Next, User, Informer, Worker, Failure, CreateSet, DeleteSet, UserWrites, Relabel,
         Deliver, HandleEvent, Start, AddFinalizer, Conflict, SyncClusters, SyncNamespaces,
         RemoveFinalizer, CallFails, Restart

LEMMA NextCleaned ==
    ASSUME SafeInv, [Next]_vars
    PROVE  CleanedOK'
<1> USE DEF SafeInv
<1>0. pc # "idle" => cur \in Sets
  BY DEF TypeOK, WorkTypeOK
<1>1. ASSUME NEW s \in Sets, CreateSet(s) \/ DeleteSet(s)
      PROVE  CleanedOK'
  <2>1. \A t \in Sets : Finalized(t)' <=> Finalized(t)
    BY <1>1, UserFacts DEF Finalized
  <2>2. \A t \in Sets : Cleaned(t)' <=> Cleaned(t)
    BY <1>1, UserFacts DEF Cleaned, mapVars
  <2> QED
    BY <2>1, <2>2 DEF CleanedOK
<1>2. ASSUME UNCHANGED <<obj, roles, mapVars>>
      PROVE  CleanedOK'
  BY <1>2 DEF CleanedOK, Finalized, Cleaned, mapVars
<1>3. UNCHANGED vars => UNCHANGED <<obj, roles, mapVars>>
  BY DEF vars, mapVars
<1>4. ASSUME NEW t \in Sets,
             \A s \in Sets \ {t} : Cleaned(s) => Cleaned(s)',
             \A s \in Sets \ {t} : obj'[s] = obj[s],
             Finalized(t)' \/ Cleaned(t)'
      PROVE  CleanedOK'
  BY <1>4 DEF CleanedOK, Finalized
<1>5. CASE AddFinalizer
  <2>1. \A s \in Sets : Cleaned(s) => Cleaned(s)'
    BY <1>5 DEF AddFinalizer, Cleaned, mapVars
  <2>2. \A s \in Sets \ {cur} : obj'[s] = obj[s]
    BY <1>0, <1>5 DEF AddFinalizer, Commit, TypeOK, ApiTypeOK
  <2>3. obj'[cur] = Live
    BY <1>0, <1>5 DEF AddFinalizer, Commit, TypeOK, ApiTypeOK
  <2>4. cur \in Sets
    BY <1>0, <1>5 DEF AddFinalizer
  <2> QED
    BY <1>4, <2>1, <2>2, <2>3, <2>4, ObjectFacts DEF Finalized
<1>6. CASE ApplyRoles \/ ApplyRolesFails \/ SyncClusters \/ SyncNamespaces
  <2>1. /\ cur \in Sets
        /\ Finalized(cur)
        /\ UNCHANGED obj
    BY <1>0, <1>6 DEF ApplyRoles, ApplyRolesFails, SyncClusters, SyncNamespaces, PlaceOK, apiVars
  <2>2. \A s \in Sets \ {cur} :
           /\ roles'[s] = roles[s]
           /\ s \in ExclusiveSets => /\ clusterMapper'[s] = clusterMapper[s]
                                    /\ namespaceMapper'[s] = namespaceMapper[s]
           /\ s = GlobalSet => globalMapper' = globalMapper
    <3>1. \A s \in Sets \ {cur} : roles'[s] = roles[s]
      BY <1>6, <2>1 DEF ApplyRoles, ApplyRolesFails, SyncClusters, SyncNamespaces,
            TypeOK, ApiTypeOK
    <3>2. \A s \in ExclusiveSets \ {cur} : /\ clusterMapper'[s] = clusterMapper[s]
                                           /\ namespaceMapper'[s] = namespaceMapper[s]
      BY <1>6, <2>1 DEF ApplyRoles, ApplyRolesFails, SyncClusters, SyncNamespaces, mapVars,
            TypeOK, MapperTypeOK
    <3>3. cur # GlobalSet => globalMapper' = globalMapper
      BY <1>6, <2>1 DEF ApplyRoles, ApplyRolesFails, SyncClusters, SyncNamespaces, mapVars, Sets
    <3> QED
      BY <3>1, <3>2, <3>3
  <2>3. \A s \in Sets \ {cur} : Cleaned(s) => Cleaned(s)'
    BY <2>2 DEF Cleaned
  <2> QED
    BY <1>4, <2>1, <2>3 DEF Finalized
<1>7. CASE CleanClusterSetResource \/ CleanFails
  <2>1. /\ cur \in Sets
        /\ UNCHANGED obj
    BY <1>0, <1>7 DEF CleanClusterSetResource, CleanFails, apiVars
  <2>2. \A s \in Sets : roles'[s] \subseteq roles[s]
    BY <1>7, <2>1 DEF CleanClusterSetResource, CleanFails, TypeOK, ApiTypeOK
  <2>3. \A s \in ExclusiveSets : /\ clusterMapper'[s] \in {clusterMapper[s], {}}
                                 /\ namespaceMapper'[s] \in {namespaceMapper[s], {}}
    BY <1>7, <2>1 DEF CleanClusterSetResource, CleanFails, mapVars, TypeOK, MapperTypeOK
  <2>4. globalMapper' \in {globalMapper, {}}
    BY <1>7 DEF CleanClusterSetResource, CleanFails, mapVars
  <2>5. \A s \in Sets : Cleaned(s) => Cleaned(s)'
    BY <2>2, <2>3, <2>4 DEF Cleaned
  <2> QED
    BY <2>1, <2>5 DEF CleanedOK, Finalized
<1>8. CASE RemoveFinalizer
  <2>1. \A s \in Sets : Cleaned(s) => Cleaned(s)'
    BY <1>8 DEF RemoveFinalizer, Cleaned, mapVars
  <2>2. cur \in Sets /\ \A s \in Sets \ {cur} : obj'[s] = obj[s]
    BY <1>0, <1>8 DEF RemoveFinalizer, Commit, TypeOK, ApiTypeOK
  <2>3. Cleaned(cur)
    BY <1>8 DEF RemoveFinalizer, PlaceOK
  <2> QED
    BY <1>4, <2>1, <2>2, <2>3
<1>9. CASE Restart
  <2>1. \A s \in Sets : Cleaned(s) => Cleaned(s)'
    BY <1>9 DEF Restart, Cleaned
  <2> QED
    BY <1>9, <2>1 DEF Restart, CleanedOK, Finalized
<1> QED
  BY <1>1, <1>2, <1>3, <1>5, <1>6, <1>7, <1>8, <1>9
     DEF Next, User, Informer, Worker, Failure, Relabel, Deliver, HandleEvent, Start,
         Conflict, CallFails, apiVars

LEMMA NextSafe == SafeInv /\ [Next]_vars => SafeInv'
  BY NextType, NextStream, NextFresh, NextPlace, NextRoles, NextCleaned DEF SafeInv

LEMMA SafeCorrect == Spec => []SafeInv
  BY InitSafe, NextSafe, PTL DEF Spec

(***************************************************************************)
(* A set that no longer exists leaves no ClusterRole and no mapper entry   *)
(* behind.                                                                 *)
(***************************************************************************)
THEOREM NoOrphansHolds == Spec => []NoOrphans
<1>1. SafeInv => NoOrphans
  BY ObjectFacts DEF SafeInv, CleanedOK, NoOrphans, Finalized
<1> QED
  BY <1>1, SafeCorrect, PTL

(***************************************************************************)
(* A ClusterRole of a set is only deleted while that set is being deleted, *)
(* also when Reconcile decides on a stale copy of an earlier set.          *)
(***************************************************************************)
THEOREM RolesOutliveTheSetHolds == Spec => RolesOutliveTheSet
<1> DEFINE Step == \A s \in Sets : roles[s] \ roles'[s] # {} => obj[s] = Dying
<1>1. SafeInv /\ [Next]_vars => [Step]_vars
  <2> SUFFICES ASSUME SafeInv, Next PROVE Step
    OBVIOUS
  <2>1. CASE CleanClusterSetResource \/ CleanFails
    <3>1. cur \in Sets /\ obj[cur] \in SetObject /\ obj[cur] # Live
      BY <2>1 DEF CleanClusterSetResource, CleanFails, SafeInv, PlaceOK, TypeOK, WorkTypeOK, ApiTypeOK
    <3>2. \A s \in Sets \ {cur} : roles'[s] = roles[s]
      BY <2>1, <3>1 DEF CleanClusterSetResource, CleanFails, SafeInv, TypeOK, ApiTypeOK
    <3>3. obj[cur] # Dying => roles[cur] = {}
      BY <3>1, ObjectFacts DEF SafeInv, CleanedOK, Cleaned, Finalized
    <3> QED
      BY <3>1, <3>2, <3>3
  <2>2. CASE ApplyRoles \/ ApplyRolesFails
    <3>1. \A s \in Sets : roles[s] \subseteq roles'[s]
      BY <2>2 DEF ApplyRoles, ApplyRolesFails, SafeInv, TypeOK, ApiTypeOK
    <3> QED
      BY <3>1
  <2>3. CASE UNCHANGED roles
    BY <2>3
  <2> QED
    BY <2>1, <2>2, <2>3
       DEF Next, User, Informer, Worker, Failure, CreateSet, DeleteSet, UserWrites, Relabel,
           Deliver, HandleEvent, Start, AddFinalizer, Conflict, SyncClusters, SyncNamespaces,
           RemoveFinalizer, CallFails, Restart
<1> QED
  BY <1>1, SafeCorrect, PTL DEF Spec, RolesOutliveTheSet

-----------------------------------------------------------------------------
(***************************************************************************)
(* No change is lost.  A set is busy, or nothing a step does touches it,   *)
(* or the step is the next one of its own Reconcile.                       *)
(***************************************************************************)
LEMMA BusyPending ==
    ASSUME NEW s \in Sets, Busy(s)'
    PROVE  Pending(s)'
  BY DEF Pending, RolesPending, ClusterPending, NamespacePending, GlobalPending, DyingPending

LEMMA UntouchedPending ==
    ASSUME NEW s \in Sets, Pending(s),
           obj'[s] = obj[s], wire'[s] = wire[s], roles'[s] = roles[s],
           s \in queue => s \in queue',
           cur = s => UNCHANGED <<pc, cur>>,
           s \in ExclusiveSets => /\ clusterMapper'[s] = clusterMapper[s]
                                  /\ namespaceMapper'[s] = namespaceMapper[s],
           s = GlobalSet => globalMapper' = globalMapper,
           UNCHANGED <<label, events>>
    PROVE  Pending(s)'
<1>1. ClustersOf(s)' = ClustersOf(s) /\ NamespacesOf(s)' = NamespacesOf(s)
  BY DEF ClustersOf, NamespacesOf
<1>2. Busy(s) => Busy(s)'
  BY DEF Busy
<1>3. \A steps : At(s, steps) => At(s, steps)'
  BY DEF At
<1>4. \A kind : EventOn(s, kind)' <=> EventOn(s, kind)
  BY DEF EventOn
<1>5. RolesPending(s)'
  BY <1>2, <1>3 DEF Pending, RolesPending
<1>6. ClusterPending(s)'
  BY <1>1, <1>2, <1>3, <1>4 DEF Pending, ClusterPending
<1>7. NamespacePending(s)'
  BY <1>1, <1>2, <1>3, <1>4 DEF Pending, NamespacePending
<1>8. GlobalPending(s)'
  BY <1>1, <1>2, <1>3, <1>4 DEF Pending, GlobalPending
<1>9. DyingPending(s)'
  BY <1>2, <1>3 DEF Pending, DyingPending
<1> QED
  BY <1>5, <1>6, <1>7, <1>8, <1>9 DEF Pending

\* A label change leaves an event for every set whose clusters or namespaces
\* it changes.
LEMMA RelabelPending ==
    ASSUME TypeOK, NEW o \in Objects, NEW l \in Labels, Relabel(o, l),
           NEW s \in Sets, Pending(s)
    PROVE  Pending(s)'
<1> DEFINE e == [object |-> o, old |-> label[o], new |-> l]
<1>1. /\ events' = events \cup {e}
      /\ label \in [Objects -> Labels]
      /\ label' = [label EXCEPT ![o] = l]
      /\ UNCHANGED <<obj, wire, roles, queue, pc, cur, mapVars>>
  BY DEF Relabel, apiVars, workVars, TypeOK, CacheTypeOK
<1>2. (Busy(s) => Busy(s)') /\ \A steps : At(s, steps) => At(s, steps)'
  BY <1>1 DEF Busy, At
<1>3. \A kind : EventOn(s, kind) => EventOn(s, kind)'
  BY <1>1 DEF EventOn
<1>4. ASSUME ClustersOf(s)' # ClustersOf(s)
      PROVE  EventOn(s, Clusters)'
  <2>1. o \in Clusters /\ (s = GlobalSet \/ s \in {label[o], l})
    BY <1>1, <1>4, ObjectsAssumption DEF ClustersOf, Objects
  <2>2. e \in events' /\ e.object = o /\ e.old = label[o] /\ e.new = l
    BY <1>1
  <2> QED
    BY <2>1, <2>2 DEF EventOn
<1>5. ASSUME NamespacesOf(s)' # NamespacesOf(s)
      PROVE  EventOn(s, HiveObjects)'
  <2>1. o \in HiveObjects /\ s \in {label[o], l}
    BY <1>1, <1>5, ObjectsAssumption DEF NamespacesOf, Objects
  <2>2. e \in events' /\ e.object = o /\ e.old = label[o] /\ e.new = l
    BY <1>1
  <2> QED
    BY <2>1, <2>2 DEF EventOn
<1>6. RolesPending(s)' /\ DyingPending(s)'
  BY <1>1, <1>2 DEF Pending, RolesPending, DyingPending
<1>7. ClusterPending(s)' /\ GlobalPending(s)'
  BY <1>1, <1>2, <1>3, <1>4 DEF Pending, ClusterPending, GlobalPending, mapVars
<1>8. NamespacePending(s)'
  BY <1>1, <1>2, <1>3, <1>5 DEF Pending, NamespacePending, mapVars
<1> QED
  BY <1>6, <1>7, <1>8 DEF Pending

\* The handler enqueues every set its event was pending for.
LEMMA HandlePending ==
    ASSUME TypeOK, NEW e \in events, HandleEvent(e), NEW s \in Sets, Pending(s)
    PROVE  Pending(s)'
<1>1. CASE s \in queue'
  BY <1>1, BusyPending DEF Busy
<1>2. CASE s \notin queue'
  <2>1. /\ events' = events \ {e}
        /\ queue \subseteq queue'
        /\ UNCHANGED <<obj, wire, roles, label, pc, cur, mapVars>>
    BY DEF HandleEvent, apiVars, workVars
  <2>2. (s \in ExclusiveSets => s \notin {e.old, e.new})
        /\ (e.object \in Clusters => s # GlobalSet)
    BY <1>2 DEF HandleEvent, GetRequiredClusterSet, LabelledSet
  <2>3. (Busy(s) => Busy(s)') /\ \A steps : At(s, steps) => At(s, steps)'
    BY <2>1 DEF Busy, At
  <2>4. ClustersOf(s)' = ClustersOf(s) /\ NamespacesOf(s)' = NamespacesOf(s)
    BY <2>1 DEF ClustersOf, NamespacesOf
  <2>5. s \in ExclusiveSets => (EventOn(s, Clusters) => EventOn(s, Clusters)')
    BY <2>1, <2>2 DEF EventOn
  <2>6. s \in ExclusiveSets => (EventOn(s, HiveObjects) => EventOn(s, HiveObjects)')
    BY <2>1, <2>2 DEF EventOn
  <2>7. s = GlobalSet => (EventOn(s, Clusters) => EventOn(s, Clusters)')
    BY <2>1, <2>2 DEF EventOn
  <2>8. RolesPending(s)' /\ DyingPending(s)'
    BY <2>1, <2>3 DEF Pending, RolesPending, DyingPending
  <2>9. ClusterPending(s)' /\ NamespacePending(s)'
    BY <2>1, <2>3, <2>4, <2>5, <2>6 DEF Pending, ClusterPending, NamespacePending, mapVars
  <2>10. GlobalPending(s)'
    BY <2>1, <2>3, <2>4, <2>7 DEF Pending, GlobalPending, mapVars
  <2> QED
    BY <2>8, <2>9, <2>10 DEF Pending
<1> QED
  BY <1>1, <1>2

LEMMA StartPending ==
    ASSUME SafeInv, NEW t \in Sets, Start(t), NEW s \in Sets, Pending(s)
    PROVE  Pending(s)'
<1>1. pc = "idle" /\ queue' = queue \ {t} /\ UNCHANGED <<label, events>>
  BY DEF Start
<1>2. UNCHANGED <<obj, wire, seen, roles, mapVars>>
  BY StartFacts
<1>3. CASE wire[s] # <<>>
  BY <1>2, <1>3, BusyPending DEF Busy
<1>4. CASE wire[s] = <<>> /\ s = t
  <2>1. obj[s] = seen[s] /\ obj[s] \in SetObject
    BY <1>4 DEF SafeInv, StreamOK, TypeOK, ApiTypeOK
  <2>2. obj[s].phase = "live" => At(s, {"addFinalizer", "applyRoles"})'
    BY <1>4, <2>1, StartFacts, ObjectFacts DEF At
  <2>3. obj[s] = Dying => At(s, {"clean", "removeFinalizer"})'
    BY <1>4, <2>1, StartFacts, ObjectFacts DEF At
  <2>4. RolesPending(s)' /\ DyingPending(s)'
    BY <1>2, <2>2, <2>3 DEF RolesPending, DyingPending
  <2>5. ClusterPending(s)' /\ NamespacePending(s)' /\ GlobalPending(s)'
    BY <1>2, <2>2 DEF ClusterPending, NamespacePending, GlobalPending, At
  <2> QED
    BY <2>4, <2>5 DEF Pending
<1>5. CASE wire[s] = <<>> /\ s # t
  <2>1. s \in queue <=> s \in queue'
    BY <1>1, <1>5
  <2>2. Busy(s) => Busy(s)'
    BY <1>2, <2>1 DEF Busy
  <2>3. ClustersOf(s)' = ClustersOf(s) /\ NamespacesOf(s)' = NamespacesOf(s)
    BY <1>1 DEF ClustersOf, NamespacesOf
  <2>4. \A kind : EventOn(s, kind)' <=> EventOn(s, kind)
    BY <1>1 DEF EventOn
  <2>5. RolesPending(s)' /\ DyingPending(s)'
    BY <1>1, <1>2, <2>2 DEF Pending, RolesPending, DyingPending, At
  <2>6. ClusterPending(s)' /\ GlobalPending(s)'
    BY <1>1, <1>2, <2>2, <2>3, <2>4 DEF Pending, ClusterPending, GlobalPending, At, mapVars
  <2>7. NamespacePending(s)'
    BY <1>1, <1>2, <2>2, <2>3, <2>4 DEF Pending, NamespacePending, At, mapVars
  <2> QED
    BY <2>5, <2>6, <2>7 DEF Pending
<1> QED
  BY <1>3, <1>4, <1>5

\* The worker's own set, when a Reconcile goes on or returns nil.
LEMMA WorkPending ==
    ASSUME SafeInv, PendingInv, NEW s \in Sets, s = cur,
           ApplyRoles \/ SyncClusters \/ SyncNamespaces \/ CleanClusterSetResource
    PROVE  Pending(s)'
<1>1. Pending(s)
  BY DEF PendingInv
<1>2. UNCHANGED <<obj, wire, label, events>> /\ queue' = queue
  BY DEF ApplyRoles, SyncClusters, SyncNamespaces, CleanClusterSetResource, ReturnNil, apiVars
<1>3. /\ ClustersOf(s)' = ClustersOf(s) /\ NamespacesOf(s)' = NamespacesOf(s)
      /\ \A kind : EventOn(s, kind)' <=> EventOn(s, kind)
      /\ Busy(s)' <=> Busy(s)
  BY <1>2 DEF ClustersOf, NamespacesOf, EventOn, Busy
<1>4. CASE ApplyRoles
  <2>1. pc = "applyRoles" /\ At(s, {"syncClusters"})'
    BY <1>4 DEF ApplyRoles, At
  <2>2. roles'[s] = RequiredRoles(s)
    BY <1>4 DEF ApplyRoles, SafeInv, RolesOK, TypeOK, ApiTypeOK
  <2>3. RolesPending(s)' /\ DyingPending(s)'
    BY <1>1, <1>2, <1>3, <2>1, <2>2 DEF Pending, RolesPending, DyingPending, At
  <2>4. ClusterPending(s)' /\ NamespacePending(s)' /\ GlobalPending(s)'
    BY <2>1 DEF ClusterPending, NamespacePending, GlobalPending, At
  <2> QED
    BY <2>3, <2>4 DEF Pending
<1>5. CASE SyncClusters
  <2>1. pc = "syncClusters" /\ roles' = roles
    BY <1>5 DEF SyncClusters
  <2>2. s \in ExclusiveSets =>
           clusterMapper'[s] = ClustersOf(s) /\ s # GlobalSet /\ At(s, {"syncNamespaces"})'
    BY <1>5, SetsAssumption DEF SyncClusters, At, SafeInv, TypeOK, MapperTypeOK
  <2>3. s \notin ExclusiveSets => globalMapper' = ClustersOf(s)
    BY <1>5 DEF SyncClusters
  <2>4. RolesPending(s)' /\ DyingPending(s)'
    BY <1>1, <1>2, <1>3, <2>1 DEF Pending, RolesPending, DyingPending, At
  <2>5. ClusterPending(s)' /\ NamespacePending(s)' /\ GlobalPending(s)'
    BY <1>3, <2>2, <2>3 DEF ClusterPending, NamespacePending, GlobalPending, At
  <2> QED
    BY <2>4, <2>5 DEF Pending
<1>6. CASE SyncNamespaces
  <2>1. pc = "syncNamespaces" /\ UNCHANGED <<roles, clusterMapper, globalMapper>>
    BY <1>6 DEF SyncNamespaces
  <2>2. s \in ExclusiveSets => namespaceMapper'[s] = NamespacesOf(s)
    BY <1>6 DEF SyncNamespaces, SafeInv, TypeOK, MapperTypeOK
  <2>3. RolesPending(s)' /\ DyingPending(s)'
    BY <1>1, <1>2, <1>3, <2>1 DEF Pending, RolesPending, DyingPending, At
  <2>4. ClusterPending(s)' /\ GlobalPending(s)'
    BY <1>1, <1>2, <1>3, <2>1 DEF Pending, ClusterPending, GlobalPending, At
  <2>5. NamespacePending(s)'
    BY <1>3, <2>2 DEF NamespacePending
  <2> QED
    BY <2>3, <2>4, <2>5 DEF Pending
<1>7. CASE CleanClusterSetResource
  <2>1. obj[s] = Dying \/ Busy(s)
    BY <1>7 DEF CleanClusterSetResource, PendingInv, StaleClean
  <2>2. At(s, {"removeFinalizer"})'
    BY <1>7 DEF CleanClusterSetResource, At
  <2>3. CASE Busy(s)
    BY <1>3, <2>3, BusyPending
  <2>4. CASE obj[s] = Dying
    BY <1>2, <2>2, <2>4, ObjectFacts
       DEF Pending, RolesPending, ClusterPending, NamespacePending, GlobalPending,
           DyingPending, At
  <2> QED
    BY <2>1, <2>3, <2>4
<1> QED
  BY <1>4, <1>5, <1>6, <1>7

LEMMA NextPending ==
    ASSUME SafeInv, PendingInv, [Next]_vars
    PROVE  \A s \in Sets : Pending(s)'
<1> SUFFICES ASSUME NEW s \in Sets PROVE Pending(s)'
  OBVIOUS
<1>0. Pending(s) /\ TypeOK /\ (pc # "idle" => cur \in Sets)
  BY DEF PendingInv, SafeInv, TypeOK, WorkTypeOK
<1>1. ASSUME NEW t \in Sets, CreateSet(t) \/ DeleteSet(t)
      PROVE  Pending(s)'
  <2>1. /\ UNCHANGED <<label, events, queue>>
        /\ \E o : wire' = [wire EXCEPT ![t] = Append(@, o)]
    BY <1>1 DEF CreateSet, DeleteSet, UserWrites, Commit
  <2>2. CASE s = t
    <3>1. wire'[s] # <<>>
      BY <2>1, <2>2, <1>0 DEF TypeOK, ApiTypeOK
    <3> QED
      BY <3>1, BusyPending DEF Busy
  <2>3. CASE s # t
    BY <1>0, <1>1, <2>1, <2>3, UserFacts, UntouchedPending DEF mapVars
  <2> QED
    BY <2>2, <2>3
<1>2. ASSUME NEW o \in Objects, NEW l \in Labels, Relabel(o, l)
      PROVE  Pending(s)'
  BY <1>0, <1>2, RelabelPending
<1>3. ASSUME NEW t \in Sets, Deliver(t)
      PROVE  Pending(s)'
  <2>1. CASE s = t
    BY <1>3, <2>1, BusyPending DEF Deliver, Busy
  <2>2. CASE s # t
    BY <1>0, <1>3, <2>2, UntouchedPending DEF Deliver, mapVars, workVars, TypeOK, ApiTypeOK
  <2> QED
    BY <2>1, <2>2
<1>4. ASSUME NEW e \in events, HandleEvent(e)
      PROVE  Pending(s)'
  BY <1>0, <1>4, HandlePending
<1>5. ASSUME NEW t \in Sets, Start(t)
      PROVE  Pending(s)'
  BY <1>0, <1>5, StartPending
<1>6. CASE AddFinalizer \/ RemoveFinalizer
  <2>1. CASE s = cur
    <3>1. wire'[s] # <<>>
      BY <1>0, <1>6, <2>1 DEF AddFinalizer, RemoveFinalizer, Commit, TypeOK, ApiTypeOK
    <3> QED
      BY <3>1, BusyPending DEF Busy
  <2>2. CASE s # cur
    BY <1>0, <1>6, <2>2, UntouchedPending
       DEF AddFinalizer, RemoveFinalizer, Commit, ReturnNil, mapVars, TypeOK, ApiTypeOK
  <2> QED
    BY <2>1, <2>2
<1>7. CASE Conflict \/ CallFails \/ ApplyRolesFails \/ CleanFails
  <2>1. queue' = queue \cup {cur}
    BY <1>7 DEF Conflict, CallFails, ApplyRolesFails, CleanFails, ReturnError
  <2>2. CASE s = cur
    BY <2>1, <2>2, BusyPending DEF Busy
  <2>3. CASE s # cur
    <3>1. roles'[s] = roles[s]
      BY <1>0, <1>7, <2>3 DEF Conflict, CallFails, ApplyRolesFails, CleanFails, TypeOK, ApiTypeOK
    <3>2. UNCHANGED <<obj, wire, label, events, mapVars>>
      BY <1>7 DEF Conflict, CallFails, ApplyRolesFails, CleanFails, apiVars
    <3> QED
      BY <1>0, <2>1, <2>3, <3>1, <3>2, UntouchedPending DEF mapVars
  <2> QED
    BY <2>2, <2>3
<1>8. CASE ApplyRoles \/ SyncClusters \/ SyncNamespaces \/ CleanClusterSetResource
  <2>1. CASE s = cur
    BY <1>8, <2>1, WorkPending
  <2>2. CASE s # cur
    <3>1. cur \in Sets /\ UNCHANGED <<obj, wire, label, events, queue>>
      BY <1>0, <1>8 DEF ApplyRoles, SyncClusters, SyncNamespaces, CleanClusterSetResource,
            ReturnNil, apiVars
    <3>2. roles'[s] = roles[s]
      BY <1>0, <1>8, <2>2
         DEF ApplyRoles, SyncClusters, SyncNamespaces, CleanClusterSetResource, TypeOK, ApiTypeOK
    <3>3. s \in ExclusiveSets => /\ clusterMapper'[s] = clusterMapper[s]
                                /\ namespaceMapper'[s] = namespaceMapper[s]
      BY <1>0, <1>8, <2>2
         DEF ApplyRoles, SyncClusters, SyncNamespaces, CleanClusterSetResource, mapVars,
             TypeOK, MapperTypeOK
    <3>4. s = GlobalSet => globalMapper' = globalMapper
      BY <1>8, <2>2, <3>1
         DEF ApplyRoles, SyncClusters, SyncNamespaces, CleanClusterSetResource, mapVars, Sets
    <3> QED
      BY <1>0, <2>2, <3>1, <3>2, <3>3, <3>4, UntouchedPending
  <2> QED
    BY <2>1, <2>2
<1>9. CASE Restart
  <2>1. obj' = obj /\ (obj[s] # Absent => s \in queue')
    BY <1>9 DEF Restart
  <2>2. CASE obj[s] # Absent
    BY <2>1, <2>2, BusyPending DEF Busy
  <2>3. CASE obj[s] = Absent
    BY <2>1, <2>3, ObjectFacts
       DEF Pending, RolesPending, ClusterPending, NamespacePending, GlobalPending, DyingPending
  <2> QED
    BY <2>2, <2>3
<1>10. CASE UNCHANGED vars
  BY <1>0, <1>10, UntouchedPending DEF vars
<1> QED
  BY <1>1, <1>2, <1>3, <1>4, <1>5, <1>6, <1>7, <1>8, <1>9, <1>10
     DEF Next, User, Informer, Worker, Failure

LEMMA NextStaleClean ==
    ASSUME SafeInv, PendingInv, [Next]_vars
    PROVE  StaleClean'
<1>0. StaleClean /\ TypeOK /\ (pc # "idle" => cur \in Sets)
  BY DEF PendingInv, SafeInv, TypeOK, WorkTypeOK
<1>1. ASSUME NEW t \in Sets, CreateSet(t) \/ DeleteSet(t)
      PROVE  StaleClean'
  <2>1. queue' = queue /\ wire'[t] # <<>>
    BY <1>0, <1>1 DEF CreateSet, DeleteSet, UserWrites, Commit, TypeOK, ApiTypeOK
  <2> QED
    BY <1>0, <1>1, <2>1, UserFacts DEF StaleClean, Busy
<1>2. ASSUME NEW t \in Sets, Deliver(t)
      PROVE  StaleClean'
  BY <1>0, <1>2 DEF Deliver, StaleClean, Busy, workVars, TypeOK, ApiTypeOK
<1>3. ASSUME NEW t \in Sets, Start(t)
      PROVE  StaleClean'
  <2>1. CASE wire[t] = <<>>
    BY <1>3, <2>1, StartFacts DEF StaleClean, SafeInv, StreamOK
  <2>2. CASE wire[t] # <<>>
    BY <1>3, <2>2, StartFacts DEF StaleClean, Busy
  <2> QED
    BY <2>1, <2>2
<1>4. ASSUME UNCHANGED <<obj, wire, pc, cur>>, queue \subseteq queue'
      PROVE  StaleClean'
  BY <1>0, <1>4 DEF StaleClean, Busy
<1>5. CASE CleanClusterSetResource
  BY <1>0, <1>5 DEF CleanClusterSetResource, StaleClean, Busy, apiVars
<1>6. ASSUME pc' \notin {"clean", "removeFinalizer"}
      PROVE  StaleClean'
  BY <1>6 DEF StaleClean
<1>7. SyncClusters => pc' \notin {"clean", "removeFinalizer"}
  BY DEF SyncClusters, ReturnNil, Return
<1>8. UNCHANGED vars => UNCHANGED <<obj, wire, pc, cur>> /\ queue \subseteq queue'
  BY DEF vars
<1> QED
  BY <1>1, <1>2, <1>3, <1>4, <1>5, <1>6, <1>7, <1>8
     DEF Next, User, Informer, Worker, Failure, Relabel, HandleEvent, AddFinalizer, Conflict,
         ApplyRoles, SyncNamespaces, RemoveFinalizer, CallFails, ApplyRolesFails, CleanFails,
         Restart, ReturnNil, ReturnError, Return, apiVars, workVars

LEMMA InitPending == Init => PendingInv
<1> SUFFICES ASSUME Init PROVE PendingInv
  OBVIOUS
<1>1. ASSUME NEW s \in Sets PROVE Pending(s)
  <2>1. obj[s] = Absent \/ (obj[s] # Absent /\ Busy(s))
    BY DEF Init, Busy
  <2> QED
    BY <2>1, ObjectFacts
       DEF Pending, RolesPending, ClusterPending, NamespacePending, GlobalPending, DyingPending
<1>2. StaleClean
  BY DEF Init, StaleClean
<1> QED
  BY <1>1, <1>2 DEF PendingInv

(***************************************************************************)
(* No change is lost: a quiet controller has exactly the roles and mapper  *)
(* entries of the sets and labels, because whatever is not exact is busy,  *)
(* named by an event, or ahead of the worker.                              *)
(***************************************************************************)
THEOREM NoLostChangeHolds == Spec => []NoLostChange
<1>1. Init => SafeInv /\ PendingInv
  BY InitSafe, InitPending
<1>2. SafeInv /\ PendingInv /\ [Next]_vars => (SafeInv /\ PendingInv)'
  BY NextSafe, NextPending, NextStaleClean DEF PendingInv
<1>3. SafeInv /\ PendingInv => NoLostChange
  <2> SUFFICES ASSUME SafeInv, PendingInv, Quiet, NEW s \in Sets
               PROVE  Exact(s)
    BY DEF NoLostChange
  <2>1. Pending(s) /\ obj[s] \in SetObject
    BY DEF PendingInv, SafeInv, TypeOK, ApiTypeOK
  <2>2. ~Busy(s) /\ \A steps : "idle" \notin steps => ~At(s, steps)
    BY DEF Quiet, Busy, At
  <2>3. \A kind : ~EventOn(s, kind)
    BY DEF Quiet, EventOn
  <2>4. CASE obj[s] = Absent
    BY <2>4, ObjectFacts DEF SafeInv, CleanedOK, Finalized, Exact
  <2>5. CASE obj[s] = Dying
    BY <2>1, <2>2, <2>5 DEF Pending, DyingPending
  <2>6. CASE obj[s].phase = "live"
    <3>1. roles[s] = RequiredRoles(s)
      BY <2>1, <2>2, <2>6 DEF Pending, RolesPending
    <3>2. s \in ExclusiveSets => /\ clusterMapper[s] = ClustersOf(s)
                                /\ namespaceMapper[s] = NamespacesOf(s)
      BY <2>1, <2>2, <2>3, <2>6 DEF Pending, ClusterPending, NamespacePending
    <3>3. s = GlobalSet => globalMapper = ClustersOf(s)
      BY <2>1, <2>2, <2>3, <2>6 DEF Pending, GlobalPending
    <3> QED
      BY <2>6, <3>1, <3>2, <3>3 DEF Exact, Applied
  <2> QED
    BY <2>1, <2>4, <2>5, <2>6, ObjectFacts
<1> QED
  BY <1>1, <1>2, <1>3, PTL DEF Spec
=============================================================================
