------------------------------ MODULE Hub_proofs ------------------------------
(***************************************************************************)
(* Proofs about the parts of the hub: the type invariant of each, and      *)
(* OfflineEmpty, why the nodes of an offline cluster stay empty although   *)
(* the agent's collector may have read them before.  What is proved of the *)
(* life of a cluster in ClusterLifecycle_proofs holds of the hub, too.     *)
(***************************************************************************)
EXTENDS Hub, ClusterLifecycle_proofs, TLAPS

-----------------------------------------------------------------------------
(* The objects of the global set (GlobalSet). *)

LEMMA GlobalBounds == Bound.global.churn \in Nat /\ Bound.global.faults \in Nat
  BY BoundAssumption

GlobalFlags == uninstalling \in BOOLEAN /\ queued \in BOOLEAN /\ fresh \in BOOLEAN
GlobalBounded == partChurn \in 0..Bound.global.churn /\ partFaults \in 0..Bound.global.faults
GlobalData ==
    /\ namespace \in {"absent", "active", "terminating"}
    /\ live \subseteq Global!Parts /\ cached \subseteq Global!Parts /\ dirty \subseteq Global!Parts
    /\ namespace = "absent" => live \cap Global!InNamespace = {}
    /\ pc \in {"idle", "namespace", "annotate", "check", "binding", "placement"}

LEMMA GlobalInit == Global!Init => Global!TypeOK
<1> SUFFICES ASSUME Global!Init PROVE GlobalFlags /\ GlobalBounded /\ GlobalData
  BY Zenon DEF Global!TypeOK, GlobalFlags, GlobalBounded, GlobalData
<1>1. GlobalFlags
  BY Zenon DEF Global!Init, GlobalFlags
<1>2. GlobalBounded
  BY GlobalBounds DEF Global!Init, GlobalBounded
<1>3. GlobalData
  BY DEF Global!Init, GlobalData, Global!Parts
<1> QED
  BY <1>1, <1>2, <1>3

\* Every step of the namespace's users, of the cache and of the controller keeps the types; nothing is
\* created in a namespace that is not active, and what goes with the namespace is gone with it.
LEMMA GlobalNext == Global!TypeOK /\ [Global!Next]_(Global!vars) => Global!TypeOK'
<1> SUFFICES ASSUME GlobalFlags, GlobalBounded, GlobalData, [Global!Next]_(Global!vars)
             PROVE  GlobalFlags' /\ GlobalBounded' /\ GlobalData'
  BY Zenon DEF Global!TypeOK, GlobalFlags, GlobalBounded, GlobalData
<1>1. GlobalFlags'
  BY Zenon DEF GlobalFlags, Global!Next, Global!vars, Global!apiVars, Global!cacheVars, Global!UserWrites,
     Global!BeginUninstall, Global!DeleteNamespace, Global!FinishNamespace, Global!Deliver, Global!Resync,
     Global!Restart, Global!Worker, Global!Start, Global!ApplyNamespace, Global!Annotate,
     Global!CheckNamespace, Global!ApplyBindingAndPlacement, Global!CreateMissing, Global!Fails,
     Global!ReturnError
<1>2. GlobalBounded'
  BY GlobalBounds DEF GlobalBounded, Global!Next, Global!vars, Global!UserWrites,
     Global!BeginUninstall, Global!DeleteNamespace, Global!FinishNamespace, Global!Deliver, Global!Resync,
     Global!Restart, Global!Worker, Global!Start, Global!ApplyNamespace, Global!Annotate,
     Global!CheckNamespace, Global!ApplyBindingAndPlacement, Global!CreateMissing, Global!Fails
<1>3. GlobalData'
  <2> USE DEF GlobalData, Global!Parts, Global!InNamespace, Global!apiVars, Global!cacheVars
  <2>1. CASE UNCHANGED Global!vars
    BY <2>1 DEF Global!vars
  <2>2. CASE Global!UserWrites
    BY <2>2 DEF Global!UserWrites
  <2>3. CASE Global!BeginUninstall \/ Global!DeleteNamespace
    BY <2>3 DEF Global!BeginUninstall, Global!DeleteNamespace
  <2>4. CASE Global!FinishNamespace
    BY <2>4 DEF Global!FinishNamespace
  <2>5. CASE Global!Deliver \/ Global!Resync
    BY <2>5 DEF Global!Deliver, Global!Resync
  <2>6. CASE Global!Restart
    BY <2>6 DEF Global!Restart, Global!ReturnError
  <2>7. CASE Global!Start
    BY <2>7 DEF Global!Start
  <2>8. CASE Global!ApplyNamespace
    BY <2>8 DEF Global!ApplyNamespace, Global!Fails, Global!ReturnError
  <2>9. CASE Global!Annotate
    BY <2>9 DEF Global!Annotate, Global!Fails, Global!ReturnError
  <2>10. CASE Global!CheckNamespace
    BY <2>10 DEF Global!CheckNamespace, Global!Fails, Global!ReturnError
  <2>11. CASE Global!ApplyBindingAndPlacement
    BY <2>11 DEF Global!ApplyBindingAndPlacement, Global!CreateMissing, Global!Fails, Global!ReturnError
  <2> QED
    BY <2>1, <2>2, <2>3, <2>4, <2>5, <2>6, <2>7, <2>8, <2>9, <2>10, <2>11 DEF Global!Next, Global!Worker
<1> QED
  BY <1>1, <1>2, <1>3

-----------------------------------------------------------------------------
(* The access to logs (LogAccess). *)

LEMMA LogBounds == Bound.log.churn \in Nat /\ Bound.log.faults \in Nat
  BY BoundAssumption

LogFlags == token \in BOOLEAN /\ queued \in BOOLEAN
LogBounded == partChurn \in 0..Bound.log.churn /\ partFaults \in 0..Bound.log.faults
LogData ==
    /\ cluster \in {"live", "dying", "gone"} /\ addons \subseteq Log!Addons /\ dying \subseteq addons
    /\ account \in {"none", "ours", "other"}

LEMMA LogInit == Log!Init => Log!TypeOK
<1> SUFFICES ASSUME Log!Init PROVE LogFlags /\ LogBounded /\ LogData
  BY Zenon DEF Log!TypeOK, LogFlags, LogBounded, LogData
<1>1. LogFlags
  BY Zenon DEF Log!Init, LogFlags
<1>2. LogBounded
  BY LogBounds DEF Log!Init, LogBounded
<1>3. LogData
  BY DEF Log!Init, LogData, Log!Addons
<1> QED
  BY <1>1, <1>2, <1>3

\* No step leaves a deletion behind of an add-on that is gone, or an account of an unknown kind.
LEMMA LogNext == Log!TypeOK /\ [Log!Next]_(Log!vars) => Log!TypeOK'
<1> SUFFICES ASSUME LogFlags, LogBounded, LogData, [Log!Next]_(Log!vars)
             PROVE  LogFlags' /\ LogBounded' /\ LogData'
  BY Zenon DEF Log!TypeOK, LogFlags, LogBounded, LogData
<1>1. LogFlags'
  BY Zenon DEF LogFlags, Log!Next, Log!vars, Log!ClusterChanges, Log!AddonChanges, Log!AccountChanges,
     Log!MakeToken, Log!Deliver, Log!Reconcile, Log!ReconcileFails, Log!Restart, Log!Addons
<1>2. LogBounded'
  BY LogBounds DEF LogBounded, Log!Next, Log!vars, Log!ClusterChanges, Log!AddonChanges, Log!AccountChanges,
     Log!MakeToken, Log!Deliver, Log!Reconcile, Log!ReconcileFails, Log!Restart, Log!Churn
<1>3. LogData'
  <2> USE DEF LogData, Log!Addons
  <2>1. CASE UNCHANGED Log!vars
    BY <2>1 DEF Log!vars
  <2>2. CASE Log!ClusterChanges
    BY <2>2 DEF Log!ClusterChanges
  <2>3. ASSUME NEW a \in Log!Addons, Log!AddonChanges(a) PROVE LogData'
    BY <2>3 DEF Log!AddonChanges
  <2>4. CASE Log!AccountChanges \/ Log!MakeToken
    BY <2>4 DEF Log!AccountChanges, Log!MakeToken
  <2>5. CASE Log!Deliver \/ Log!ReconcileFails \/ Log!Restart
    BY <2>5 DEF Log!Deliver, Log!ReconcileFails, Log!Restart
  <2>6. CASE Log!Reconcile
    BY <2>6 DEF Log!Reconcile, Log!Required
  <2> QED
    BY <2>1, <2>2, <2>3, <2>4, <2>5, <2>6 DEF Log!Next
<1> QED
  BY <1>1, <1>2, <1>3

-----------------------------------------------------------------------------
(* The labels of hive objects (HiveLabels). *)

LEMMA HiveBounds == Bound.hive.churn \in Nat /\ Bound.hive.faults \in Nat
  BY BoundAssumption

HiveFlags ==
    /\ pooled \in BOOLEAN /\ claimed \in BOOLEAN /\ claimedSeen \in BOOLEAN
    /\ deploymentQueue \in BOOLEAN /\ claimQueue \in BOOLEAN
HiveBounded == partChurn \in 0..Bound.hive.churn /\ partFaults \in 0..Bound.hive.faults
HiveData ==
    /\ label \in [Hive!Objects -> Hive!Labels] /\ labelSeen \in [Hive!Objects -> Hive!Labels]
    /\ held \in [Hive!Written -> Hive!Labels \cup {Hive!Nothing}]
    /\ dirty \subseteq Hive!Objects
HiveThere ==
    /\ there \in [Hive!Objects -> BOOLEAN] /\ thereSeen \in [Hive!Objects -> BOOLEAN]
    /\ heldFresh \in [Hive!Written -> BOOLEAN]

LEMMA HiveInit == Hive!Init => Hive!TypeOK
<1> SUFFICES ASSUME Hive!Init PROVE HiveFlags /\ HiveBounded /\ HiveData /\ HiveThere
  BY Zenon DEF Hive!TypeOK, HiveFlags, HiveBounded, HiveData, HiveThere
<1>1. HiveFlags
  BY Zenon DEF Hive!Init, HiveFlags
<1>2. HiveBounded
  BY HiveBounds DEF Hive!Init, HiveBounded
<1>3. HiveData
  BY DEF Hive!Init, HiveData, Hive!Labels
<1>4. HiveThere
  BY DEF Hive!Init, HiveThere
<1> QED
  BY <1>1, <1>2, <1>3, <1>4

\* Whatever is relabelled, delivered, read or written, a label is one of a set, none or the empty one; and
\* of a label that a controller is about to write the same holds.
LEMMA HiveNext == Hive!TypeOK /\ [Hive!Next]_(Hive!vars) => Hive!TypeOK'
<1> SUFFICES ASSUME HiveFlags, HiveBounded, HiveData, HiveThere, [Hive!Next]_(Hive!vars)
             PROVE  HiveFlags' /\ HiveBounded' /\ HiveData' /\ HiveThere'
  BY Zenon DEF Hive!TypeOK, HiveFlags, HiveBounded, HiveData, HiveThere
<1>1. HiveFlags'
  BY Zenon DEF HiveFlags, Hive!Next, Hive!vars, Hive!apiVars, Hive!seenVars, Hive!cacheVars, Hive!queueVars,
     Hive!Relabel, Hive!SourceChanges, Hive!Claim, Hive!Resync, Hive!Deliver, Hive!EnqueueDeployment,
     Hive!EnqueueClaim, Hive!ReadDeployment, Hive!ReadClaim, Hive!Read, Hive!Update
<1>2. HiveBounded'
  BY HiveBounds DEF HiveBounded, Hive!Next, Hive!vars, Hive!Relabel, Hive!SourceChanges, Hive!Claim,
     Hive!Resync, Hive!Deliver, Hive!ReadDeployment, Hive!ReadClaim, Hive!Read, Hive!Update
<1>3. HiveData' /\ HiveThere'
  <2> USE DEF HiveData, HiveThere, Hive!Objects, Hive!Written, Hive!apiVars, Hive!seenVars, Hive!cacheVars
  <2>1. CASE UNCHANGED Hive!vars
    BY <2>1 DEF Hive!vars
  <2>2. CASE Hive!Relabel
    BY <2>2 DEF Hive!Relabel, Hive!Changed
  <2>3. CASE Hive!SourceChanges
    BY <2>3 DEF Hive!SourceChanges, Hive!Changed, Hive!Labels
  <2>4. CASE Hive!Claim
    BY <2>4 DEF Hive!Claim
  <2>5. CASE Hive!Resync
    BY <2>5 DEF Hive!Resync
  <2>6. ASSUME NEW o \in Hive!Objects, Hive!Deliver(o) PROVE HiveData' /\ HiveThere'
    BY <2>6 DEF Hive!Deliver
  <2>7. ASSUME NEW o \in Hive!Written, NEW from \in Hive!Objects, Hive!Read(o, from) PROVE HiveData' /\ HiveThere'
    <3>1. Hive!SyncMapField(labelSeen[from]) \in Hive!Labels
      BY DEF Hive!SyncMapField, Hive!Labels
    <3> QED
      BY <2>7, <3>1 DEF Hive!Read
  <2>8. ASSUME NEW o \in Hive!Written, Hive!Update(o) PROVE HiveData' /\ HiveThere'
    BY <2>8 DEF Hive!Update
  <2> QED
    BY <2>1, <2>2, <2>3, <2>4, <2>5, <2>6, <2>7, <2>8 DEF Hive!Next, Hive!ReadDeployment, Hive!ReadClaim
<1> QED
  BY <1>1, <1>2, <1>3

-----------------------------------------------------------------------------
(* The RoleBinding of the add-on (AddonBinding). *)

LEMMA AddonBounds == Bound.addon.churn \in Nat /\ Bound.addon.faults \in Nat /\ MaxVersion \in Nat
  BY BoundAssumption

AddonBounded == partChurn \in 0..Bound.addon.churn /\ partFaults \in 0..Bound.addon.faults
AddonData ==
    /\ wanted \in AddonSubjects \cup {NoSubject}
    /\ binding \in Addon!Binding \cup {NoSubject} /\ cached \in Addon!Binding \cup {NoSubject}
    /\ version \in 0..MaxVersion

LEMMA AddonInit == Addon!Init => Addon!TypeOK
<1> SUFFICES ASSUME Addon!Init PROVE queued \in BOOLEAN /\ AddonBounded /\ AddonData
  BY Zenon DEF Addon!TypeOK, AddonBounded, AddonData
<1>1. queued \in BOOLEAN
  BY Zenon DEF Addon!Init
<1>2. AddonBounded
  BY AddonBounds DEF Addon!Init, AddonBounded
<1>3. AddonData
  BY AddonBounds DEF Addon!Init, AddonData
<1> QED
  BY <1>1, <1>2, <1>3

\* What is stored is a binding of a registered subject, or of an administrator's, in one of the versions.
LEMMA AddonStore ==
    ASSUME AddonData, NEW s \in AddonSubjects, NEW ours \in BOOLEAN, Addon!Store(s, ours)
    PROVE  binding' \in Addon!Binding /\ version' \in 0..MaxVersion
<1>1. version' \in 1..MaxVersion
  BY AddonBounds DEF AddonData, Addon!Store
<1>2. binding' = [subject |-> s, ours |-> ours, rv |-> version']
  BY DEF Addon!Store
<1> QED
  BY <1>1, <1>2 DEF Addon!Binding

\* The cached object stays a binding when the controller writes into it, because it only does so with a
\* subject that is registered.
LEMMA AddonNext == Addon!TypeOK /\ [Addon!Next]_(Addon!vars) => Addon!TypeOK'
<1> SUFFICES ASSUME queued \in BOOLEAN, AddonBounded, AddonData, [Addon!Next]_(Addon!vars)
             PROVE  queued' \in BOOLEAN /\ AddonBounded' /\ AddonData'
  BY Zenon DEF Addon!TypeOK, AddonBounded, AddonData
<1>1. queued' \in BOOLEAN
  BY Zenon DEF Addon!Next, Addon!vars, Addon!Register, Addon!Meddle, Addon!Deliver, Addon!Resync,
     Addon!Restart, Addon!PermissionConfig, Addon!Create, Addon!Update
<1>2. AddonBounded'
  <2>1. \/ UNCHANGED <<partChurn, partFaults>>
        \/ Addon!Churn /\ UNCHANGED partFaults
        \/ Addon!Refused /\ UNCHANGED partChurn
    BY Zenon DEF Addon!Next, Addon!vars, Addon!Register, Addon!Meddle, Addon!Deliver, Addon!Resync,
       Addon!Restart, Addon!PermissionConfig, Addon!Create, Addon!Update, Addon!Refused
  <2> QED
    BY <2>1, AddonBounds DEF AddonBounded, Addon!Churn, Addon!Refused
<1>3. AddonData'
  <2>1. CASE UNCHANGED Addon!vars
    BY <2>1 DEF Addon!vars, AddonData
  <2>2. ASSUME NEW s \in AddonSubjects, Addon!Register(s) PROVE AddonData'
    BY <2>2 DEF Addon!Register, AddonData
  <2>3. CASE Addon!Meddle
    <3>1. UNCHANGED <<wanted, cached>>
      BY <2>3 DEF Addon!Meddle
    <3>2. ASSUME NEW s \in AddonSubjects, NEW ours \in BOOLEAN, Addon!Store(s, ours) PROVE AddonData'
      BY <3>1, <3>2, AddonStore DEF AddonData
    <3>3. ASSUME binding' = NoSubject, UNCHANGED version PROVE AddonData'
      BY <3>1, <3>3 DEF AddonData
    <3> QED
      BY <2>3, <3>2, <3>3 DEF Addon!Meddle
  <2>4. CASE Addon!Deliver \/ Addon!Resync \/ Addon!Restart
    BY <2>4 DEF Addon!Deliver, Addon!Resync, Addon!Restart, AddonData
  <2>5. CASE Addon!PermissionConfig
    <3>1. UNCHANGED wanted
      BY <2>5 DEF Addon!PermissionConfig
    <3>2. CASE UNCHANGED <<binding, cached, version>>
      BY <3>1, <3>2 DEF AddonData
    <3>3. CASE wanted # NoSubject /\ Addon!Create
      <4>1. wanted \in AddonSubjects
        BY <3>3 DEF AddonData
      <4>2. cached' = cached /\ (Addon!Store(wanted, TRUE) \/ UNCHANGED <<binding, version>>)
        BY <3>3 DEF Addon!Create
      <4> QED
        BY <3>1, <4>1, <4>2, AddonStore DEF AddonData
    <3>4. CASE wanted # NoSubject /\ Addon!Update
      <4>1. wanted \in AddonSubjects /\ cached \in Addon!Binding
        BY <3>4 DEF AddonData, Addon!Update
      <4>2. cached' = [cached EXCEPT !.subject = wanted]
        BY <3>4 DEF Addon!Update
      <4>3. cached' \in Addon!Binding /\ cached.ours \in BOOLEAN
        BY <4>1, <4>2 DEF Addon!Binding
      <4>4. Addon!Store(wanted, cached.ours) \/ UNCHANGED <<binding, version>>
        BY <3>4 DEF Addon!Update
      <4> QED
        BY <3>1, <4>1, <4>3, <4>4, AddonStore DEF AddonData
    <3> QED
      BY <2>5, <3>2, <3>3, <3>4 DEF Addon!PermissionConfig
  <2> QED
    BY <2>1, <2>2, <2>3, <2>4, <2>5 DEF Addon!Next
<1> QED
  BY <1>1, <1>2, <1>3

-----------------------------------------------------------------------------
(* The bindings of the cluster sets (BindingSync). *)

LEMMA BindingBounds ==
    /\ Bound.bindings.churn \in Nat /\ Bound.bindings.faults \in Nat
    /\ ClusterRoles \subseteq {"admin", "view"} /\ NamespaceRoles \subseteq {"admin", "view"}
  BY BindingsAssumption DEF Bindings!ConstantsAssumption

BindingsBounded == partChurn \in 0..Bound.bindings.churn /\ partFaults \in 0..Bound.bindings.faults

BindingsLoop == kind \in {"cluster", "namespace"} /\ role \in {"admin", "view"}

BindingsRead ==
    /\ mapper \in [Sets -> SUBSET BoundObjects] /\ subjects \in [Sets -> SUBSET Users]
    /\ union \in [Sets -> SUBSET BoundObjects] /\ users \in [Sets -> SUBSET Users]
    /\ toRead \in SUBSET Sets

BindingsWritten ==
    /\ api \in [BoundObjects -> Bindings!Binding] /\ cache \in [BoundObjects -> Bindings!Binding]
    /\ stale \in SUBSET BoundObjects
    /\ \A o \in BoundObjects \ stale : cache[o] = api[o]

BindingsTodo ==
    /\ pc \in {"idle", "union", "subjects", "apply", "delete"}
    /\ toApply \in SUBSET BoundObjects /\ toDelete \in SUBSET BoundObjects

LEMMA BindingsType ==
    Bindings!TypeOK <=> BindingsBounded /\ BindingsLoop /\ BindingsRead /\ BindingsWritten /\ BindingsTodo
  BY Zenon DEF Bindings!TypeOK, BindingsBounded, BindingsLoop, BindingsRead, BindingsWritten, BindingsTodo

LEMMA NoBindingIsBinding == Bindings!NoBinding \in Bindings!Binding
  BY DEF Bindings!NoBinding, Bindings!Binding

LEMMA BindingsInit == Bindings!Init => Bindings!TypeOK
<1> SUFFICES ASSUME Bindings!Init
             PROVE  BindingsBounded /\ BindingsLoop /\ BindingsRead /\ BindingsWritten /\ BindingsTodo
  BY BindingsType
<1>1. BindingsBounded
  BY BindingBounds DEF Bindings!Init, BindingsBounded
<1>2. BindingsLoop
  BY BindingBounds DEF Bindings!Init, BindingsLoop
<1>3. BindingsRead
  BY DEF Bindings!Init, BindingsRead
<1>4. BindingsWritten
  BY NoBindingIsBinding DEF Bindings!Init, BindingsWritten
<1>5. BindingsTodo
  BY DEF Bindings!Init, BindingsTodo
<1> QED
  BY <1>1, <1>2, <1>3, <1>4, <1>5

\* GenerateObjectSubjectMap gives users, whatever the round has read.
LEMMA ObjectToSubjectIsUsers ==
    ASSUME NEW us \in [Sets -> SUBSET Users], NEW objects, NEW o
    PROVE  Bindings!ObjectToSubject(objects, us, o) \in SUBSET Users
<1>1. Bindings!RoleSets \subseteq Sets
  BY DEF Bindings!RoleSets
<1> QED
  BY <1>1 DEF Bindings!ObjectToSubject

\* The label of a binding is never the global set's, whichever of an object's sets the round takes.
LEMMA AppliedIsBinding ==
    ASSUME BindingsRead, BindingsWritten, NEW o \in BoundObjects, NEW name \in Bindings!ObjectClusterset(o)
    PROVE  [users |-> Bindings!ObjectToSubject(union, users, o),
            label |-> Bindings!MergeLabel(cache[o].label, name)] \in Bindings!Binding
<1>1. name \in Sets \cup {NoName}
  BY DEF Bindings!ObjectClusterset, Bindings!RoleSets
<1>2. cache[o].label \in (Sets \ {GlobalSet}) \cup {NoLabel, NoName}
  BY DEF BindingsWritten, Bindings!Binding
<1>3. Bindings!MergeLabel(cache[o].label, name) \in (Sets \ {GlobalSet}) \cup {NoLabel, NoName}
  BY <1>1, <1>2 DEF Bindings!MergeLabel
<1>4. Bindings!ObjectToSubject(union, users, o) \in SUBSET Users
  BY ObjectToSubjectIsUsers DEF BindingsRead
<1> QED
  BY <1>3, <1>4 DEF Bindings!Binding

\* A round and what happens meanwhile keep the types; what differs between the informer and the API server
\* is known to be stale.
LEMMA BindingsNext == Bindings!TypeOK /\ [Bindings!Next]_(Bindings!vars) => Bindings!TypeOK'
<1> SUFFICES ASSUME BindingsBounded, BindingsLoop, BindingsRead, BindingsWritten, BindingsTodo,
                    [Bindings!Next]_(Bindings!vars)
             PROVE  BindingsBounded' /\ BindingsLoop' /\ BindingsRead' /\ BindingsWritten' /\ BindingsTodo'
  BY Zenon DEF Bindings!TypeOK, BindingsBounded, BindingsLoop, BindingsRead, BindingsWritten, BindingsTodo
<1>1. BindingsBounded'
  <2>1. \/ UNCHANGED <<partChurn, partFaults>>
        \/ partChurn < Bound.bindings.churn /\ partChurn' = partChurn + 1 /\ UNCHANGED partFaults
        \/ Bindings!Fault /\ UNCHANGED partChurn
    BY Zenon DEF Bindings!Next, Bindings!vars, Bindings!Round, Bindings!Environment, Bindings!UpdateMapper,
       Bindings!UpdateSubjects, Bindings!Deliver, Bindings!Begin, Bindings!ReadSet, Bindings!ReadSubjects,
       Bindings!ApplyBinding, Bindings!ListBindings, Bindings!DeleteBinding, Bindings!EndRound,
       Bindings!WriteFails, Bindings!Restart
  <2> QED
    BY <2>1, BindingBounds DEF BindingsBounded, Bindings!Fault
<1>2. BindingsLoop'
  BY DEF Bindings!Next, Bindings!vars, Bindings!loopVars, BindingsLoop
<1>3. BindingsRead' /\ BindingsWritten' /\ BindingsTodo'
  <2> USE DEF BindingsRead, BindingsWritten, BindingsTodo, Bindings!readVars
  <2>1. CASE UNCHANGED Bindings!vars
    BY <2>1 DEF Bindings!vars
  <2>2. ASSUME NEW s \in Sets, NEW objects \in SUBSET BoundObjects, Bindings!UpdateMapper(s, objects)
        PROVE  BindingsRead' /\ BindingsWritten' /\ BindingsTodo'
    BY <2>2 DEF Bindings!UpdateMapper
  <2>3. ASSUME NEW s \in Sets, NEW us \in SUBSET Users, Bindings!UpdateSubjects(s, us)
        PROVE  BindingsRead' /\ BindingsWritten' /\ BindingsTodo'
    BY <2>3 DEF Bindings!UpdateSubjects
  <2>4. ASSUME NEW o \in BoundObjects, Bindings!Deliver(o)
        PROVE  BindingsRead' /\ BindingsWritten' /\ BindingsTodo'
    BY <2>4 DEF Bindings!Deliver
  <2>5. CASE Bindings!Begin
    BY <2>5 DEF Bindings!Begin, Bindings!RoleSets
  <2>6. ASSUME NEW s \in Sets, Bindings!ReadSet(s) PROVE BindingsRead' /\ BindingsWritten' /\ BindingsTodo'
    BY <2>6 DEF Bindings!ReadSet, Bindings!Generate
  <2>7. CASE Bindings!ReadSubjects
    BY <2>7 DEF Bindings!ReadSubjects, Bindings!Generate
  <2>8. ASSUME NEW o \in BoundObjects, Bindings!ApplyBinding(o)
        PROVE  BindingsRead' /\ BindingsWritten' /\ BindingsTodo'
    <3>1. PICK b \in Bindings!Binding : \/ UNCHANGED <<api, stale>>
                                        \/ api' = [api EXCEPT ![o] = b] /\ stale' = stale \cup {o}
      BY <2>8, AppliedIsBinding, NoBindingIsBinding DEF Bindings!ApplyBinding
    <3> QED
      BY <2>8, <3>1 DEF Bindings!ApplyBinding
  <2>9. CASE Bindings!ListBindings
    BY <2>9 DEF Bindings!ListBindings, Bindings!Listed
  <2>10. ASSUME NEW o \in BoundObjects, Bindings!DeleteBinding(o)
         PROVE  BindingsRead' /\ BindingsWritten' /\ BindingsTodo'
    BY <2>10, NoBindingIsBinding DEF Bindings!DeleteBinding
  <2>11. CASE Bindings!EndRound
    BY <2>11 DEF Bindings!EndRound
  <2>12. CASE Bindings!WriteFails
    BY <2>12 DEF Bindings!WriteFails
  <2>13. CASE Bindings!Restart
    BY <2>13 DEF Bindings!Restart
  <2> QED
    BY <2>1, <2>2, <2>3, <2>4, <2>5, <2>6, <2>7, <2>8, <2>9, <2>10, <2>11, <2>12, <2>13
       DEF Bindings!Next, Bindings!Round, Bindings!Environment
<1> QED
  BY <1>1, <1>2, <1>3

-----------------------------------------------------------------------------
(* What the hub tells of a cluster (ClusterFacts). *)

LEMMA FactsConstants ==
    /\ Unknown # Facts!Detect /\ Unknown # "OpenShift"
    /\ Bound.facts.churn \in Nat /\ Bound.facts.faults \in Nat
  BY FactsAssumption DEF Facts!ConstantsAssumption, Facts!Detect

\* What the controllers rely on when they change one field of a status, of labels or of a report.
IsLabels(l) ==
    /\ l = [kube |-> l.kube, cloud |-> l.cloud, id |-> l.id, version |-> l.version, major |-> l.major,
            minor |-> l.minor, microShift |-> l.microShift, managedBy |-> l.managedBy]
    /\ l.kube # Unknown

IsInfo(i) ==
    /\ i = [offline |-> i.offline, nodes |-> i.nodes, kube |-> i.kube, cloud |-> i.cloud, id |-> i.id,
            ocp |-> i.ocp, labels |-> i.labels]
    /\ i.offline \in BOOLEAN /\ i.nodes \in Facts!Reportable /\ i.labels.kube # Unknown

IsCluster(c) ==
    /\ c = [labels |-> c.labels, claims |-> c.claims, workers |-> c.workers, cpu |-> c.cpu]
    /\ IsLabels(c.labels)
    /\ c.cpu \in {Facts!Cpu(ns) : ns \in NodeSets}
    /\ c.workers.core \in {0} \cup {Facts!Cpu(ns) : ns \in NodeSets}
                             \cup {Facts!Cpu(Facts!WorkersOf(ns)) : ns \in Facts!Reportable}
    /\ c.workers.socket \in {0} \cup {Facts!Sockets(Facts!WorkersOf(ns)) : ns \in Facts!Reportable}

IsReport(r) == r = [nodes |-> r.nodes, fresh |-> r.fresh] /\ r.fresh \in BOOLEAN /\ r.nodes \in Facts!Reportable

FactsBounded == partChurn \in 0..Bound.facts.churn /\ partFaults \in 0..Bound.facts.faults
FactsInputs == claims \in ClaimSets /\ nodes \in NodeSets /\ online \in BOOLEAN
FactsData == IsInfo(clusterInfo) /\ IsCluster(cluster) /\ IsReport(report)

\* The condition was written after the collector has read the status, so that its Update is refused.
NotAboutToFill == clusterInfo.offline => ~report.fresh

OfflineInv == Facts!OfflineEmpty /\ NotAboutToFill
FactsInv == FactsBounded /\ FactsInputs /\ FactsData /\ OfflineInv

LEMMA FactsType == FactsInv => Facts!TypeOK /\ Facts!OfflineEmpty
  BY DEF FactsInv, FactsBounded, FactsInputs, FactsData, OfflineInv, IsInfo, IsCluster, IsLabels, Facts!TypeOK

LEMMA ReportableNodes ==
    /\ Facts!NoNodes \in Facts!Reportable
    /\ \A ns \in NodeSets : ns \in Facts!Reportable /\ Facts!NoSockets(ns) \in Facts!Reportable
  BY DEF Facts!Reportable

LEMMA FactsInit == Facts!Init => FactsInv
<1> SUFFICES ASSUME Facts!Init PROVE FactsInv
  OBVIOUS
<1>1. FactsBounded
  BY FactsConstants DEF Facts!Init, FactsBounded
<1>2. FactsInputs
  BY DEF Facts!Init, FactsInputs
<1>3. IsCluster(cluster)
  BY FactsConstants DEF Facts!Init, IsCluster, IsLabels
<1>4. IsInfo(clusterInfo)
  BY <1>3, ReportableNodes DEF Facts!Init, IsInfo, IsCluster, IsLabels
<1>5. IsReport(report) /\ OfflineInv
  BY ReportableNodes DEF Facts!Init, Facts!NoReport, IsReport, OfflineInv, Facts!OfflineEmpty, NotAboutToFill
<1> QED
  BY <1>1, <1>2, <1>3, <1>4, <1>5 DEF FactsInv, FactsData

\* The agent's syncs leave the condition, the nodes and the labels alone.
LEMMA SyncsKeep ==
    ASSUME NEW i, IsInfo(i)
    PROVE  LET j == Facts!DistributionInfo(Facts!DefaultInfo(i))
           IN  IsInfo(j) /\ j.offline = i.offline /\ j.nodes = i.nodes
<1> DEFINE d == Facts!DefaultInfo(i)
<1>1. PICK k, c, x : d = [i EXCEPT !.kube = k, !.cloud = c, !.id = x]
  BY DEF Facts!DefaultInfo
<1> HIDE DEF d
<1>2. PICK o : Facts!DistributionInfo(d) = [d EXCEPT !.ocp = o]
  BY DEF Facts!DistributionInfo
<1>3. IsInfo(d) /\ d.offline = i.offline /\ d.nodes = i.nodes
  BY <1>1 DEF IsInfo
<1>4. /\ IsInfo(Facts!DistributionInfo(d))
      /\ Facts!DistributionInfo(d).offline = i.offline /\ Facts!DistributionInfo(d).nodes = i.nodes
  BY <1>2, <1>3 DEF IsInfo
<1> QED
  BY <1>4 DEF d

\* A commit that keeps the condition and shows nodes only of a cluster online.
LEMMA CommitKeeps ==
    ASSUME FactsData, OfflineInv, NEW i, IsInfo(i), Facts!Commit(i),
           i.offline => i.nodes = Facts!NoNodes,
           i.offline /\ ~clusterInfo.offline => i # clusterInfo
    PROVE  IsInfo(clusterInfo') /\ IsReport(report') /\ OfflineInv'
<1>1. IsInfo(clusterInfo')
  BY DEF Facts!Commit
<1>2. IsReport(report')
  BY DEF FactsData, IsReport, Facts!Commit
<1>3. Facts!OfflineEmpty'
  BY DEF Facts!OfflineEmpty, Facts!Commit
<1>4. NotAboutToFill'
  <2>1. CASE i = clusterInfo
    BY <2>1 DEF OfflineInv, NotAboutToFill, Facts!Commit
  <2>2. CASE i # clusterInfo
    BY <2>2 DEF FactsData, IsReport, Facts!Commit, NotAboutToFill
  <2> QED
    BY <2>1, <2>2
<1> QED
  BY <1>1, <1>2, <1>3, <1>4 DEF OfflineInv

\* A vendor label that is detected is not unknown.
LEMMA DetectedLabels ==
    ASSUME NEW l, IsLabels(l)
    PROVE  IsLabels(Facts!DetectedVersion(Facts!DetectedVendors(l)))
<1> DEFINE v == Facts!DetectedVendors(l)
<1>1. IsLabels(v)
  <2> DEFINE k == CASE l.kube = Facts!Detect /\ clusterInfo.kube = "OpenShiftDedicated" -> "OpenShift"
                    [] l.kube = Facts!Detect /\ clusterInfo.kube \notin {Unknown, "OpenShiftDedicated"} -> clusterInfo.kube
                    [] OTHER -> l.kube
  <2>1. k # Unknown
    BY Zenon, FactsConstants DEF IsLabels
  <2> HIDE DEF k
  <2>2. PICK c, m, d : v = [l EXCEPT !.cloud = c, !.kube = k, !.managedBy = m, !.id = d]
    BY DEF Facts!DetectedVendors, k
  <2> HIDE DEF v
  <2> QED
    BY <2>1, <2>2 DEF IsLabels
<1> HIDE DEF v
<1>2. IsLabels(Facts!DetectedMicroShift(v))
  <2>1. PICK x : Facts!DetectedMicroShift(v) \in {v, [v EXCEPT !.microShift = x]}
    BY DEF Facts!DetectedMicroShift
  <2> QED
    BY <1>1, <2>1 DEF IsLabels
<1>3. ASSUME NEW w, IsLabels(w) PROVE IsLabels(Facts!DetectedOCP(w))
  <2>1. \/ Facts!DetectedOCP(w) = w
        \/ \E a, b, c : Facts!DetectedOCP(w) = [w EXCEPT !.version = a, !.major = b, !.minor = c]
    BY DEF Facts!DetectedOCP
  <2> QED
    BY <1>3, <2>1 DEF IsLabels
<1> QED
  BY <1>2, <1>3 DEF Facts!DetectedVersion, v

\* No step shows nodes of a cluster that the hub calls offline, or the capacity of nodes that there never were.
LEMMA FactsNext == FactsInv /\ [Facts!Next]_(Facts!vars) => FactsInv'
<1> SUFFICES ASSUME FactsBounded, FactsInputs, FactsData, OfflineInv, [Facts!Next]_(Facts!vars)
             PROVE  FactsBounded' /\ FactsInputs' /\ FactsData' /\ OfflineInv'
  BY DEF FactsInv
<1>1. FactsBounded'
  <2>1. \/ UNCHANGED <<partChurn, partFaults>>
        \/ partChurn < Bound.facts.churn /\ partChurn' = partChurn + 1 /\ UNCHANGED partFaults
        \/ Facts!Fault /\ UNCHANGED partChurn
    BY Zenon DEF Facts!Next, Facts!vars, Facts!ClusterChanges, Facts!Lease, Facts!ReportStatus,
       Facts!AgentSync, Facts!Collect, Facts!CollectWithoutSockets, Facts!UpdateNodes,
       Facts!SyncConditions, Facts!AutoDetect, Facts!CountWorkers
  <2> QED
    BY <2>1, FactsConstants DEF FactsBounded, Facts!Fault
<1>2. FactsInputs'
  BY Zenon DEF FactsInputs, Facts!Next, Facts!vars, Facts!ClusterChanges, Facts!Lease, Facts!ReportStatus,
     Facts!AgentSync, Facts!Collect, Facts!CollectWithoutSockets, Facts!UpdateNodes,
     Facts!SyncConditions, Facts!AutoDetect, Facts!CountWorkers
<1>3. FactsData' /\ OfflineInv'
  <2>1. CASE Facts!ClusterChanges \/ Facts!Lease \/ UNCHANGED Facts!vars
    <3>1. UNCHANGED <<clusterInfo, cluster, report>>
      BY <2>1 DEF Facts!ClusterChanges, Facts!Lease, Facts!vars
    <3> QED
      BY <3>1 DEF FactsData, OfflineInv, Facts!OfflineEmpty, NotAboutToFill
  <2>2. CASE Facts!ReportStatus \/ Facts!CountWorkers
    <3>1. UNCHANGED <<clusterInfo, report>>
      BY <2>2 DEF Facts!ReportStatus, Facts!CountWorkers
    <3>2. CASE Facts!ReportStatus
      <4>1. cluster' = [cluster EXCEPT !.claims = claims, !.cpu = Facts!Cpu(nodes)]
        BY <3>2 DEF Facts!ReportStatus
      <4>2. IsCluster(cluster')
        BY <4>1 DEF FactsData, FactsInputs, IsCluster
      <4> QED
        BY <3>1, <4>2 DEF FactsData, OfflineInv, Facts!OfflineEmpty, NotAboutToFill
    <3>3. CASE Facts!CountWorkers
      <4>1. cluster' = [cluster EXCEPT !.workers = Facts!Workers]
        BY <3>3 DEF Facts!CountWorkers
      <4>2. /\ Facts!Workers.core \in {0} \cup {Facts!Cpu(ns) : ns \in NodeSets}
                                         \cup {Facts!Cpu(Facts!WorkersOf(ns)) : ns \in Facts!Reportable}
            /\ Facts!Workers.socket \in {0} \cup {Facts!Sockets(Facts!WorkersOf(ns)) : ns \in Facts!Reportable}
        BY DEF FactsData, IsCluster, IsInfo, Facts!Workers
      <4>3. IsCluster(cluster')
        BY <4>1, <4>2 DEF FactsData, IsCluster
      <4> QED
        BY <3>1, <4>3 DEF FactsData, OfflineInv, Facts!OfflineEmpty, NotAboutToFill
    <3> QED
      BY <2>2, <3>2, <3>3
  <2>3. CASE Facts!AgentSync
    <3> DEFINE j == Facts!DistributionInfo(Facts!DefaultInfo(clusterInfo))
    <3>1. IsInfo(j) /\ j.offline = clusterInfo.offline /\ j.nodes = clusterInfo.nodes
      BY SyncsKeep DEF FactsData
    <3> QED
      BY <2>3, <3>1, CommitKeeps DEF Facts!AgentSync, FactsData, OfflineInv, Facts!OfflineEmpty
  <2>4. CASE Facts!Collect \/ Facts!CollectWithoutSockets
    <3>1. ~clusterInfo.offline /\ UNCHANGED <<clusterInfo, cluster>>
      BY <2>4 DEF Facts!Collect, Facts!CollectWithoutSockets
    <3>2. PICK ns \in Facts!Reportable : report' = [nodes |-> ns, fresh |-> TRUE]
      BY <2>4, ReportableNodes DEF Facts!Collect, Facts!CollectWithoutSockets, FactsInputs
    <3> QED
      BY <3>1, <3>2 DEF FactsData, IsReport, OfflineInv, Facts!OfflineEmpty, NotAboutToFill
  <2>5. CASE Facts!UpdateNodes
    <3>1. report' = Facts!NoReport /\ cluster' = cluster
      BY <2>5 DEF Facts!UpdateNodes
    <3>2. IsReport(report') /\ NotAboutToFill'
      BY <3>1, ReportableNodes DEF Facts!NoReport, IsReport, NotAboutToFill
    <3>3. IsInfo(clusterInfo') /\ Facts!OfflineEmpty'
      <4>1. CASE Facts!Current(report)
        <5>1. ~clusterInfo.offline
          BY <4>1 DEF OfflineInv, NotAboutToFill, Facts!Current
        <5>2. clusterInfo' = [clusterInfo EXCEPT !.nodes = report.nodes]
          BY <2>5, <4>1 DEF Facts!UpdateNodes
        <5> QED
          BY <5>1, <5>2 DEF FactsData, IsInfo, IsReport, Facts!OfflineEmpty
      <4>2. CASE ~Facts!Current(report)
        <5>1. clusterInfo' = clusterInfo
          BY <2>5, <4>2 DEF Facts!UpdateNodes
        <5> QED
          BY <5>1 DEF FactsData, OfflineInv, Facts!OfflineEmpty
      <4> QED
        BY <4>1, <4>2
    <3> QED
      BY <3>1, <3>2, <3>3 DEF FactsData, OfflineInv
  <2>6. CASE Facts!SyncConditions
    <3> DEFINE i == [clusterInfo EXCEPT !.offline = ~online, !.nodes = IF online THEN @ ELSE Facts!NoNodes]
    <3>1. IsInfo(i) /\ i.offline = ~online /\ (i.offline => i.nodes = Facts!NoNodes)
      <4>1. CASE online
        <5>1. i = [clusterInfo EXCEPT !.offline = FALSE, !.nodes = clusterInfo.nodes] BY <4>1
        <5> HIDE DEF i
        <5> QED BY <4>1, <5>1 DEF FactsData, IsInfo
      <4>2. CASE ~online
        <5>1. i = [clusterInfo EXCEPT !.offline = TRUE, !.nodes = Facts!NoNodes] BY <4>2
        <5> HIDE DEF i
        <5> QED BY <4>2, <5>1, ReportableNodes DEF FactsData, IsInfo
      <4> QED
        BY <4>1, <4>2
    <3>2. Facts!Commit(i) /\ cluster' = cluster
      BY <2>6 DEF Facts!SyncConditions
    <3> HIDE DEF i
    <3> QED
      BY <3>1, <3>2, CommitKeeps DEF FactsData
  <2>7. CASE Facts!AutoDetect
    <3> DEFINE labels == Facts!DetectedVersion(Facts!DetectedVendors(cluster.labels))
               i == [clusterInfo EXCEPT !.labels = labels]
    <3>1. /\ cluster' = [cluster EXCEPT !.labels = labels]
          /\ Facts!Commit(i) \/ UNCHANGED <<clusterInfo, report>>
      BY <2>7 DEF Facts!AutoDetect
    <3>2. IsLabels(labels)
      BY DetectedLabels DEF FactsData, IsCluster
    <3> HIDE DEF labels
    <3>3. IsCluster(cluster')
      BY <3>1, <3>2 DEF FactsData, IsCluster
    <3>4. IsInfo(i) /\ i.offline = clusterInfo.offline /\ i.nodes = clusterInfo.nodes
      BY <3>2 DEF FactsData, IsInfo, IsLabels
    <3> HIDE DEF i
    <3>5. CASE Facts!Commit(i)
      BY <3>3, <3>4, <3>5, CommitKeeps DEF FactsData, OfflineInv, Facts!OfflineEmpty
    <3>6. CASE UNCHANGED <<clusterInfo, report>>
      BY <3>3, <3>6 DEF FactsData, OfflineInv, Facts!OfflineEmpty, NotAboutToFill
    <3> QED
      BY <3>1, <3>5, <3>6
  <2> QED
    BY <2>1, <2>2, <2>3, <2>4, <2>5, <2>6, <2>7 DEF Facts!Next
<1> QED
  BY <1>1, <1>2, <1>3

-----------------------------------------------------------------------------
(* The hub. *)

HubInv ==
    /\ part \in {"lifecycle", "bindings", "hive", "global", "addon", "log", "facts"}
    /\ part = "bindings" => Bindings!TypeOK
    /\ part = "hive" => Hive!TypeOK
    /\ part = "global" => Global!TypeOK
    /\ part = "addon" => Addon!TypeOK
    /\ part = "log" => Log!TypeOK
    /\ part = "facts" => FactsInv

LEMMA HubInitInv == HubInit => HubInv
  BY BindingsInit, HiveInit, GlobalInit, AddonInit, LogInit, FactsInit DEF HubInit, HubInv

\* A step of the hub is one of the part that runs.
LEMMA HubStep ==
    ASSUME [HubNext]_hubVars
    PROVE  /\ part' = part
           /\ part = "bindings" => [Bindings!Next]_(Bindings!vars)
           /\ part = "hive" => [Hive!Next]_(Hive!vars)
           /\ part = "global" => [Global!Next]_(Global!vars)
           /\ part = "addon" => [Addon!Next]_(Addon!vars)
           /\ part = "log" => [Log!Next]_(Log!vars)
           /\ part = "facts" => [Facts!Next]_(Facts!vars)
<1>1. CASE HubNext
  BY <1>1 DEF HubNext
<1>2. CASE UNCHANGED hubVars
  BY <1>2 DEF hubVars, bindingVars, hiveVars, globalVars, addonVars, logVars, factVars, Bindings!vars,
     Hive!vars, Hive!apiVars, Hive!cacheVars, Hive!seenVars, Hive!queueVars, Global!vars, Global!apiVars,
     Global!cacheVars, Addon!vars, Log!vars, Facts!vars
<1> QED
  BY <1>1, <1>2

LEMMA HubNextInv == HubInv /\ [HubNext]_hubVars => HubInv'
<1> SUFFICES ASSUME HubInv, [HubNext]_hubVars PROVE HubInv'
  OBVIOUS
<1>1. part' = part
  BY HubStep
<1>2. part = "bindings" => Bindings!TypeOK'
  BY HubStep, BindingsNext DEF HubInv
<1>3. part = "hive" => Hive!TypeOK'
  BY HubStep, HiveNext DEF HubInv
<1>4. part = "global" => Global!TypeOK'
  BY HubStep, GlobalNext DEF HubInv
<1>5. part = "addon" => Addon!TypeOK'
  BY HubStep, AddonNext DEF HubInv
<1>6. part = "log" => Log!TypeOK'
  BY HubStep, LogNext DEF HubInv
<1>7. part = "facts" => FactsInv'
  BY HubStep, FactsNext DEF HubInv
<1> QED
  BY <1>1, <1>2, <1>3, <1>4, <1>5, <1>6, <1>7 DEF HubInv

LEMMA HubInvariant == HubSpec => []HubInv
  BY HubInitInv, HubNextInv, PTL DEF HubSpec

\* The states of the hub's controllers are of their types, for any sets, users, objects, claims and nodes and
\* for any number of changes and failures.
THEOREM PartsTyped == HubSpec => []PartsTypeOK
<1>1. HubInv => PartsTypeOK
  BY FactsType DEF HubInv, PartsTypeOK
<1> QED
  BY <1>1, HubInvariant, PTL

\* clusterinfo_controller.go and nodecollecter.go: whatever the claims and nodes of a cluster are, however
\* often it goes offline and whatever fails, the hub shows no nodes of a cluster that it calls offline.
THEOREM OfflineEmptyHolds == HubSpec => []OfflineEmpty
<1>1. HubInv => OfflineEmpty
  BY FactsType DEF HubInv, OfflineEmpty
<1> QED
  BY <1>1, HubInvariant, PTL

\* What the hub does is, for the variables of a cluster's life, what ClusterLifecycle allows.
THEOREM RunsLifecycle == HubSpec => Spec
<1>1. HubInit => Init
  BY Zenon DEF HubInit, NoCluster
<1>2. [HubNext]_hubVars => [Next]_vars
  BY Zenon DEF HubNext, hubVars
<1> QED
  BY <1>1, <1>2, PTL DEF HubSpec, Spec

\* clusterinfo_controller.go and clusterrole_controller.go, as the hub runs them: a cluster that is gone leaves no
\* ManagedClusterInfo behind, and the two controllers keep their states within their types.
THEOREM LifecycleHolds == HubSpec => []TypeOK /\ []InfoGoesWithCluster
  BY RunsLifecycle, TypeCorrect, InfoGoesWithClusterHolds, PTL
=============================================================================
