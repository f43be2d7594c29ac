------------------------- MODULE ImageRegistry_proofs -------------------------
(***************************************************************************)
(* Proofs about ImageRegistry: for any number of registries, clusters,     *)
(* changes and failures, a cluster changes hands only through the registry *)
(* that its label names.                                                   *)
(***************************************************************************)
EXTENDS SetsAndRegistries, SequenceTheorems, TLAPS

(***************************************************************************)
(* Labels.  A write of a label waits for the one before it to be seen, so  *)
(* that at most one is on its way; and what follows a label is always its  *)
(* removal.  So a cluster that was listed by the label of the worker's     *)
(* registry still has it, or has lost it by now.                           *)
(***************************************************************************)
LabelOK(c) ==
    /\ clusterWire[c] = <<>> => clusterLabel[c] = labelSeen[c]
    /\ clusterWire[c] # <<>> => clusterWire[c] = <<clusterLabel[c]>>
    /\ clusterWire[c] # <<>> /\ labelSeen[c] # NoRegistry => clusterLabel[c] = NoRegistry
RemovalOK(c) ==
    registryPc \in {"update", "clean"} /\ c \in toRemove =>
        labelSeen[c] = registryCur \/ (labelSeen[c] = NoRegistry /\ clusterWire[c] = <<>>)

(***************************************************************************)
(* Registries.  A registry seen live with the finalizer, now or in what is *)
(* on its way, has it still: only the worker takes it off, from a copy     *)
(* that is dying and is the current one.  So the worker labels clusters    *)
(* for registries with the finalizer only.                                 *)
(***************************************************************************)
Settled(o) == o.phase = "live" /\ o.finalizer
HeldOK(r) ==
    /\ registryWire[r] = <<>> => registryObj[r] = registrySeen[r]
    /\ Settled(registrySeen[r]) => registryObj[r].finalizer
    /\ \A i \in DOMAIN registryWire[r] : Settled(registryWire[r][i]) => registryObj[r].finalizer
LastOK(r) == registryWire[r] # <<>> => registryObj[r] = registryWire[r][Len(registryWire[r])]
WorkOK ==
    /\ registryPc \in {"select", "list", "update"} => registryObj[registryCur].finalizer
    /\ registryPc # "idle" /\ registryFresh => registryWire[registryCur] = <<>>
    /\ registryPc \in {"listAll", "clean", "removeFinalizer"} /\ registryFresh
         => registrySeen[registryCur].phase = "dying"

LabelInv == \A c \in Clusters : LabelOK(c) /\ RemovalOK(c)
RegistryInv == (\A r \in Registries : HeldOK(r) /\ LastOK(r)) /\ WorkOK

-----------------------------------------------------------------------------
(***************************************************************************)
(* Sequences of commits.                                                   *)
(***************************************************************************)
LEMMA SeqFacts ==
    ASSUME NEW S, NEW es \in Seq(S)
    PROVE  /\ Len(es) \in Nat /\ DOMAIN es = 1..Len(es) /\ \A i \in DOMAIN es : es[i] \in S
           /\ es = <<>> <=> Len(es) = 0
           /\ \A e \in S : /\ Append(es, e) \in Seq(S) /\ Append(es, e) # <<>>
                           /\ Len(Append(es, e)) = Len(es) + 1
                           /\ Append(es, e)[Len(es) + 1] = e
                           /\ \A i \in DOMAIN Append(es, e) : Append(es, e)[i] = e
                                 \/ (i \in DOMAIN es /\ Append(es, e)[i] = es[i])
           /\ es # <<>> => /\ Head(es) = es[1] /\ Head(es) \in S /\ 1 \in DOMAIN es
                           /\ Tail(es) \in Seq(S) /\ Len(Tail(es)) = Len(es) - 1
                           /\ \A i \in DOMAIN Tail(es) : i + 1 \in DOMAIN es /\ Tail(es)[i] = es[i + 1]
  <1>1. Len(es) \in Nat /\ DOMAIN es = 1..Len(es) /\ \A i \in DOMAIN es : es[i] \in S
    BY LenProperties, ElementOfSeq
  <1>2. es = <<>> <=> Len(es) = 0
    BY EmptySeq
  <1>3. ASSUME NEW e \in S
        PROVE  /\ Append(es, e) \in Seq(S) /\ Append(es, e) # <<>>
               /\ Len(Append(es, e)) = Len(es) + 1
               /\ Append(es, e)[Len(es) + 1] = e
               /\ \A i \in DOMAIN Append(es, e) : Append(es, e)[i] = e
                                             \/ (i \in DOMAIN es /\ Append(es, e)[i] = es[i])
    <2>1. /\ Append(es, e) \in Seq(S) /\ Append(es, e) # <<>> /\ Len(Append(es, e)) = Len(es) + 1
          /\ \A i \in 1..Len(es) : Append(es, e)[i] = es[i]
          /\ Append(es, e)[Len(es) + 1] = e
      BY AppendProperties
    <2>2. DOMAIN Append(es, e) = 1..(Len(es) + 1)
      BY <2>1, LenProperties
    <2>3. \A i \in 1..(Len(es) + 1) : i \in 1..Len(es) \/ i = Len(es) + 1
      BY <1>1
    <2>4. QED BY <1>1, <2>1, <2>2, <2>3
  <1>4. ASSUME es # <<>>
        PROVE  /\ Head(es) = es[1] /\ Head(es) \in S /\ 1 \in DOMAIN es
               /\ Tail(es) \in Seq(S) /\ Len(Tail(es)) = Len(es) - 1
               /\ \A i \in DOMAIN Tail(es) : i + 1 \in DOMAIN es /\ Tail(es)[i] = es[i + 1]
    <2>1. /\ Head(es) \in S /\ Tail(es) \in Seq(S) /\ Len(Tail(es)) = Len(es) - 1
          /\ \A i \in 1..Len(Tail(es)) : Tail(es)[i] = es[i + 1]
      BY <1>4, HeadTailProperties
    <2>2. DOMAIN Tail(es) = 1..Len(Tail(es)) BY <2>1, LenProperties
    <2>3. 1 \in DOMAIN es BY <1>1, <1>2, <1>4
    <2>4. \A i \in 1..Len(Tail(es)) : i + 1 \in 1..Len(es) BY <1>1, <2>1
    <2>5. Head(es) = es[1] OBVIOUS
    <2>6. QED BY <1>1, <2>1, <2>2, <2>3, <2>4, <2>5
  <1>5. QED BY <1>1, <1>2, <1>3, <1>4

-----------------------------------------------------------------------------
(***************************************************************************)
(* TypeOK.                                                                 *)
(***************************************************************************)
LEMMA CommitTyped ==
    ASSUME Registry!TypeOK, NEW r \in Registries, NEW o \in Registry!Registry, Registry!Commit(r, o)
    PROVE  /\ registryObj' \in [Registries -> Registry!Registry]
      /\ registrySeen' \in [Registries -> Registry!Registry]
           /\ registryWire' \in [Registries -> Seq(Registry!Registry)]
  <1>1. Append(registryWire[r], o) \in Seq(Registry!Registry) BY SeqFacts DEF Registry!TypeOK
  <1>2. QED BY <1>1 DEF Registry!Commit, Registry!TypeOK

LEMMA UpdateLabelTyped ==
    ASSUME Registry!TypeOK, NEW c \in Clusters, NEW l \in Registry!Labels, Registry!UpdateLabel(c, l)
    PROVE  /\ clusterLabel' \in [Clusters -> Registry!Labels] /\ labelSeen' \in [Clusters -> Registry!Labels]
           /\ clusterWire' \in [Clusters -> Seq(Registry!Labels)]
           /\ failed' \in BOOLEAN
  <1>1. Append(clusterWire[c], l) \in Seq(Registry!Labels) BY SeqFacts DEF Registry!TypeOK
  <1>2. QED BY <1>1 DEF Registry!UpdateLabel, Registry!CommitLabel, Registry!TypeOK, Registry!clusterVars

LEMMA Records ==
    /\ Registry!Absent \in Registry!Registry /\ Registry!New \in Registry!Registry
    /\ \A o \in Registry!Registry :
          /\ [o EXCEPT !.phase = "dying"] \in Registry!Registry
          /\ [o EXCEPT !.finalizer = TRUE] \in Registry!Registry
          /\ \A u \in {"true", "false"} : [o EXCEPT !.updated = u] \in Registry!Registry
  BY DEF Registry!Registry, Registry!Absent, Registry!New

LEMMA InitTypeOK == Registry!Init => Registry!TypeOK
  <1>1. <<>> \in Seq(Registry!Registry) /\ <<>> \in Seq(Registry!Labels) OBVIOUS
  <1>2. {Registry!Absent, Registry!New} \subseteq Registry!Registry BY Records
  <1> HIDE DEF Registry!Registry, Registry!Absent, Registry!New
  <1>3. Registry!Init => registryObj \in [Registries -> Registry!Registry] BY <1>2 DEF Registry!Init
  <1>4. Registry!Init => registryWire \in [Registries -> Seq(Registry!Registry)] BY <1>1 DEF Registry!Init
  <1>5. Registry!Init => /\ clusterLabel \in [Clusters -> Registry!Labels]
          /\ labelSeen \in [Clusters -> Registry!Labels]
                /\ clusterWire \in [Clusters -> Seq(Registry!Labels)]
    BY <1>1 DEF Registry!Init, Registry!Labels
  <1>6. Registry!Init => registryChurn \in 0..MaxChurn /\ registryFaults \in 0..MaxFaults
    BY BoundsAssumption DEF Registry!Init
  <1>7. Registry!Init => registrySeen \in [Registries -> Registry!Registry] BY <1>3 DEF Registry!Init
  <1>8. Registry!Init => /\ selected \in [Registries -> SUBSET Clusters]
                /\ registryEvents \subseteq Registries /\ registryQueue \subseteq Registries
                /\ registryPc = "idle" /\ registryCur \in Registry!Labels /\ registryFresh \in BOOLEAN
                     /\ failed \in BOOLEAN
                /\ toRemove = {} /\ toUpdate = {}
    BY DEF Registry!Init, Registry!Labels
  <1>9. QED BY <1>3, <1>4, <1>5, <1>6, <1>7, <1>8 DEF Registry!TypeOK

LEMMA ReturnTyped == Registry!TypeOK /\ (Registry!ReturnNil \/ Registry!ReturnError) =>
    /\ UNCHANGED <<Registry!clusterVars, selected, registryEvents, Registry!loopVars, registryChurn>>
    /\ registryPc' = "idle" /\ registryCur' = NoRegistry /\ registryFresh' = FALSE
    /\ registryPc # "idle" => registryQueue' \subseteq Registries
  BY DEF Registry!TypeOK, Registry!ReturnNil, Registry!ReturnError, Registry!Return

LEMMA OutsideTypeOK ==
    ASSUME Registry!TypeOK, NEW r \in Registries,
           \/ Registry!CreateRegistry(r) \/ Registry!DeleteRegistry(r)
           \/ \E clusters \in SUBSET Clusters : Registry!Decide(r, clusters)
           \/ Registry!HandleDecisions(r) \/ Registry!DeliverRegistry(r)
    PROVE  Registry!TypeOK'
  <1> USE DEF Registry!registryVars, Registry!clusterVars, Registry!loopVars
  <1>1. ASSUME NEW o \in Registry!Registry, Registry!UserWrites(r, o) PROVE Registry!TypeOK'
    <2>1. /\ registryObj' \in [Registries -> Registry!Registry]
               /\ registrySeen' \in [Registries -> Registry!Registry]
          /\ registryWire' \in [Registries -> Seq(Registry!Registry)]
      BY <1>1, CommitTyped DEF Registry!UserWrites
    <2>2. registryChurn' \in 0..MaxChurn BY <1>1, BoundsAssumption DEF Registry!UserWrites, Registry!TypeOK
    <2>3. QED BY <1>1, <2>1, <2>2 DEF Registry!UserWrites, Registry!TypeOK
  <1>2. CASE Registry!CreateRegistry(r) BY <1>1, <1>2, Records DEF Registry!CreateRegistry
  <1>3. CASE Registry!DeleteRegistry(r)
    <2>1. registryObj[r] \in Registry!Registry BY DEF Registry!TypeOK
    <2>2. (IF registryObj[r].finalizer THEN [registryObj[r] EXCEPT !.phase = "dying"] ELSE Registry!Absent) \in Registry!Registry
      BY <2>1, Records
    <2>3. QED BY <1>1, <1>3, <2>2 DEF Registry!DeleteRegistry
  <1>4. ASSUME NEW clusters \in SUBSET Clusters, Registry!Decide(r, clusters) PROVE Registry!TypeOK'
    <2>1. registryChurn' \in 0..MaxChurn BY <1>4, BoundsAssumption DEF Registry!Decide, Registry!TypeOK
    <2>2. QED BY <1>4, <2>1 DEF Registry!Decide, Registry!TypeOK
  <1>5. CASE Registry!HandleDecisions(r) BY <1>5 DEF Registry!HandleDecisions, Registry!TypeOK
  <1>6. CASE Registry!DeliverRegistry(r)
    <2>1. registryWire[r] \in Seq(Registry!Registry) BY DEF Registry!TypeOK
    <2>2. Head(registryWire[r]) \in Registry!Registry /\ Tail(registryWire[r]) \in Seq(Registry!Registry)
      BY <1>6, <2>1, SeqFacts DEF Registry!DeliverRegistry
    <2>3. registrySeen' \in [Registries -> Registry!Registry]
            /\ registryWire' \in [Registries -> Seq(Registry!Registry)]
      BY <1>6, <2>2 DEF Registry!DeliverRegistry, Registry!TypeOK
    <2>4. QED BY <1>6, <2>3 DEF Registry!DeliverRegistry, Registry!TypeOK
  <1>7. QED BY <1>2, <1>3, <1>4, <1>5, <1>6

LEMMA WorkerTypeOK == Registry!TypeOK /\ Registry!Worker => Registry!TypeOK'
  <1> SUFFICES ASSUME Registry!TypeOK, Registry!Worker PROVE Registry!TypeOK'
    OBVIOUS
  <1> USE DEF Registry!registryVars, Registry!clusterVars, Registry!loopVars
  <1>1. ASSUME NEW r \in Registries, Registry!Start(r) PROVE Registry!TypeOK'
    <2>1. Registry!FirstStep(registrySeen[r]) \in {"idle", "listAll", "addFinalizer", "select"}
      BY DEF Registry!FirstStep, Registry!TypeOK, Registry!Registry
    <2>2. QED BY <1>1, <2>1 DEF Registry!Start, Registry!TypeOK, Registry!Labels
  <1>2. ASSUME Registry!ReturnNil \/ Registry!ReturnError, registryPc # "idle", UNCHANGED registryFaults,
               Registry!registryVars' = Registry!registryVars
                 \/ \E o \in Registry!Registry : Registry!Commit(registryCur, o)
        PROVE  Registry!TypeOK'
    <2>1. /\ registryObj' \in [Registries -> Registry!Registry]
               /\ registrySeen' \in [Registries -> Registry!Registry]
          /\ registryWire' \in [Registries -> Seq(Registry!Registry)]
      BY <1>2, CommitTyped DEF Registry!TypeOK
    <2>2. QED BY <1>2, <2>1, ReturnTyped DEF Registry!TypeOK, Registry!Labels
  <1>3. CASE Registry!AddFinalizer
    <2>1. registryObj[registryCur] \in Registry!Registry BY <1>3 DEF Registry!AddFinalizer, Registry!TypeOK
    <2>2. QED BY <1>2, <1>3, <2>1, Records DEF Registry!AddFinalizer
  <1>4. CASE Registry!Conflict BY <1>2, <1>4 DEF Registry!Conflict
  <1>5. CASE Registry!SelectClusters BY <1>5 DEF Registry!SelectClusters, Registry!TypeOK
  <1>6. CASE Registry!ListLabelled BY <1>6 DEF Registry!ListLabelled, Registry!Labelled, Registry!TypeOK
  <1>7. ASSUME NEW c \in Clusters, Registry!ReleaseCluster(c) PROVE Registry!TypeOK'
    <2>1. /\ clusterLabel' \in [Clusters -> Registry!Labels] /\ labelSeen' \in [Clusters -> Registry!Labels]
          /\ clusterWire' \in [Clusters -> Seq(Registry!Labels)]
          /\ failed' \in BOOLEAN
      <3>1. NoRegistry \in Registry!Labels BY DEF Registry!Labels
      <3>2. CASE labelSeen[c] = NoRegistry BY <1>7, <3>2 DEF Registry!ReleaseCluster, Registry!TypeOK
      <3>3. CASE labelSeen[c] # NoRegistry
        BY <1>7, <3>1, <3>3, UpdateLabelTyped DEF Registry!ReleaseCluster
      <3>4. QED BY <3>2, <3>3
    <2>2. QED BY <1>7, <2>1 DEF Registry!ReleaseCluster, Registry!TypeOK
  <1>8. ASSUME NEW c \in Clusters, Registry!LabelCluster(c) PROVE Registry!TypeOK'
    <2>1. /\ clusterLabel' \in [Clusters -> Registry!Labels] /\ labelSeen' \in [Clusters -> Registry!Labels]
          /\ clusterWire' \in [Clusters -> Seq(Registry!Labels)]
          /\ failed' \in BOOLEAN
      <3>1. registryCur \in Registry!Labels BY DEF Registry!TypeOK
      <3>2. CASE labelSeen[c] # NoRegistry BY <1>8, <3>2 DEF Registry!LabelCluster, Registry!TypeOK
      <3>3. CASE labelSeen[c] = NoRegistry
        BY <1>8, <3>1, <3>3, UpdateLabelTyped DEF Registry!LabelCluster
      <3>4. QED BY <3>2, <3>3
    <2>2. QED BY <1>8, <2>1 DEF Registry!LabelCluster, Registry!TypeOK
  <1>9. CASE Registry!EndLoop BY <1>9 DEF Registry!EndLoop, Registry!TypeOK
  <1>10. CASE Registry!UpdateCondition
    <2>1. registryObj[registryCur] \in Registry!Registry BY <1>10 DEF Registry!UpdateCondition, Registry!TypeOK
    <2>2. Registry!registryVars' = Registry!registryVars
            \/ \E o \in Registry!Registry : Registry!Commit(registryCur, o)
      BY <1>10, <2>1, Records DEF Registry!UpdateCondition
    <2>3. Registry!ReturnNil \/ Registry!ReturnError BY <1>10 DEF Registry!UpdateCondition
    <2>4. QED BY <1>2, <1>10, <2>2, <2>3 DEF Registry!UpdateCondition
  <1>11. CASE Registry!RemoveFinalizer BY <1>2, <1>11, Records DEF Registry!RemoveFinalizer
  <1>12. QED BY <1>1, <1>3, <1>4, <1>5, <1>6, <1>7, <1>8, <1>9, <1>10, <1>11 DEF Registry!Worker

LEMMA RestTypeOK ==
    ASSUME Registry!TypeOK,
           \/ \E c \in Clusters : Registry!DeliverCluster(c) \/ Registry!ClusterFails(c)
           \/ Registry!CallFails \/ Registry!Restart
    PROVE  Registry!TypeOK'
  <1> USE DEF Registry!registryVars, Registry!clusterVars, Registry!loopVars
  <1>1. Registry!Fault => registryFaults' \in 0..MaxFaults
    BY BoundsAssumption DEF Registry!Fault, Registry!TypeOK
  <1>2. ASSUME NEW c \in Clusters, Registry!DeliverCluster(c) PROVE Registry!TypeOK'
    <2>1. clusterWire[c] \in Seq(Registry!Labels) BY DEF Registry!TypeOK
    <2>2. Head(clusterWire[c]) \in Registry!Labels /\ Tail(clusterWire[c]) \in Seq(Registry!Labels)
      BY <1>2, <2>1, SeqFacts DEF Registry!DeliverCluster
    <2>3. labelSeen' \in [Clusters -> Registry!Labels] /\ clusterWire' \in [Clusters -> Seq(Registry!Labels)]
      BY <1>2, <2>2 DEF Registry!DeliverCluster, Registry!TypeOK
    <2>4. QED BY <1>2, <2>3 DEF Registry!DeliverCluster, Registry!TypeOK
  <1>3. ASSUME NEW c \in Clusters, Registry!ClusterFails(c) PROVE Registry!TypeOK'
    BY <1>1, <1>3 DEF Registry!ClusterFails, Registry!TypeOK
  <1>4. CASE Registry!CallFails
    <2>1. Registry!ReturnError /\ registryPc # "idle" BY <1>4 DEF Registry!CallFails
    <2>2. QED BY <1>1, <1>4, <2>1, ReturnTyped DEF Registry!CallFails, Registry!TypeOK, Registry!Labels
  <1>5. CASE Registry!Restart
    <2>1. <<>> \in Seq(Registry!Registry) /\ <<>> \in Seq(Registry!Labels) OBVIOUS
    <2>2. QED BY <1>1, <1>5, <2>1 DEF Registry!Restart, Registry!TypeOK, Registry!Labels
  <1>6. QED BY <1>2, <1>3, <1>4, <1>5

LEMMA NextTypeOK == Registry!TypeOK /\ [Registry!Next]_(Registry!vars) => Registry!TypeOK'
  <1>1. ASSUME Registry!TypeOK, UNCHANGED Registry!vars PROVE Registry!TypeOK'
    BY <1>1 DEF Registry!vars, Registry!TypeOK
  <1>2. ASSUME Registry!TypeOK, Registry!Next PROVE Registry!TypeOK'
    BY <1>2, OutsideTypeOK, WorkerTypeOK, RestTypeOK DEF Registry!Next
  <1>3. QED BY <1>1, <1>2

-----------------------------------------------------------------------------
(***************************************************************************)
(* The labels.                                                             *)
(***************************************************************************)
\* No write of a label, and a worker that does not take up new clusters.
LEMMA LabelsSame ==
    ASSUME LabelInv, UNCHANGED Registry!clusterVars,
           \/ registryPc' \notin {"update", "clean"}
           \/ registryPc' = registryPc /\ registryCur' = registryCur /\ toRemove' \subseteq toRemove
    PROVE  LabelInv'
  BY DEF LabelInv, LabelOK, RemovalOK, Registry!clusterVars

LEMMA LabelWritten ==
    ASSUME Registry!TypeOK, LabelInv, NEW c \in Clusters, NEW l \in Registry!Labels, Registry!UpdateLabel(c, l),
           labelSeen[c] # NoRegistry => l = NoRegistry,
           UNCHANGED <<registryPc, registryCur>>, toRemove' = toRemove \ {c}
    PROVE  LabelInv'
  <1>1. CASE clusterWire[c] = <<>>
    <2>1. Append(clusterWire[c], l) = <<l>> BY <1>1
    <2>2. /\ clusterLabel' = [clusterLabel EXCEPT ![c] = l]
          /\ clusterWire' = [clusterWire EXCEPT ![c] = <<l>>]
          /\ labelSeen' = labelSeen
      BY <1>1, <2>1 DEF Registry!UpdateLabel, Registry!CommitLabel
    <2>3. /\ clusterLabel'[c] = l /\ clusterWire'[c] = <<l>> /\ <<l>> # <<>>
          /\ \A d \in Clusters \ {c} : clusterLabel'[d] = clusterLabel[d] /\ clusterWire'[d] = clusterWire[d]
      BY <2>2 DEF Registry!TypeOK
    <2>4. ASSUME NEW d \in Clusters PROVE LabelOK(d)' /\ RemovalOK(d)'
      <3>1. CASE d = c BY <2>2, <2>3, <3>1 DEF LabelOK, RemovalOK
      <3>2. CASE d # c
        BY <2>2, <2>3, <3>2 DEF LabelInv, LabelOK, RemovalOK
      <3>3. QED BY <3>1, <3>2
    <2>5. QED BY <2>4 DEF LabelInv
  <1>2. CASE clusterWire[c] # <<>>
    BY <1>2, LabelsSame DEF Registry!UpdateLabel, Registry!clusterVars
  <1>3. QED BY <1>1, <1>2

LEMMA DeliverClusterOK ==
    ASSUME Registry!TypeOK, LabelInv, NEW c \in Clusters, Registry!DeliverCluster(c)
    PROVE  LabelInv'
  <1>1. /\ clusterWire[c] # <<>>
        /\ labelSeen' = [labelSeen EXCEPT ![c] = Head(clusterWire[c])]
        /\ clusterWire' = [clusterWire EXCEPT ![c] = Tail(clusterWire[c])]
        /\ UNCHANGED <<clusterLabel, registryPc, registryCur, toRemove>>
    BY DEF Registry!DeliverCluster, Registry!loopVars
  <1>2. clusterWire[c] = <<clusterLabel[c]>> BY <1>1 DEF LabelInv, LabelOK
  <1>3. Head(clusterWire[c]) = clusterLabel[c] /\ Tail(clusterWire[c]) = <<>> BY <1>2
  <1>4. /\ labelSeen'[c] = clusterLabel[c] /\ clusterWire'[c] = <<>>
        /\ \A d \in Clusters \ {c} : labelSeen'[d] = labelSeen[d] /\ clusterWire'[d] = clusterWire[d]
    BY <1>1, <1>3 DEF Registry!TypeOK
  <1>5. ASSUME NEW d \in Clusters PROVE LabelOK(d)' /\ RemovalOK(d)'
    <2>1. CASE d = c
      <3>1. LabelOK(c)' BY <1>1, <1>4 DEF LabelOK
      <3>2. RemovalOK(c)'
        <4> SUFFICES ASSUME registryPc \in {"update", "clean"}, c \in toRemove
                     PROVE  clusterLabel[c] \in {registryCur, NoRegistry}
          BY <1>1, <1>4 DEF RemovalOK
        <4>1. labelSeen[c] = registryCur BY <1>1 DEF LabelInv, RemovalOK
        <4>2. registryCur # NoRegistry BY RegistryAssumption DEF Registry!RegistriesAssumption, Registry!TypeOK
        <4>3. QED BY <1>1, <4>1, <4>2 DEF LabelInv, LabelOK
      <3>3. QED BY <2>1, <3>1, <3>2
    <2>2. CASE d # c BY <1>1, <1>4, <2>2 DEF LabelInv, LabelOK, RemovalOK
    <2>3. QED BY <2>1, <2>2
  <1>6. QED BY <1>5 DEF LabelInv

LEMMA NextLabelInv == Registry!TypeOK /\ LabelInv /\ [Registry!Next]_(Registry!vars) => LabelInv'
  <1> SUFFICES ASSUME Registry!TypeOK, LabelInv, [Registry!Next]_(Registry!vars) PROVE LabelInv'
    OBVIOUS
  <1>1. CASE UNCHANGED Registry!vars BY <1>1, LabelsSame DEF Registry!vars, Registry!clusterVars
  <1>2. ASSUME NEW r \in Registries, NEW o, Registry!UserWrites(r, o) PROVE LabelInv'
    BY <1>2, LabelsSame DEF Registry!UserWrites, Registry!loopVars
  <1>3. ASSUME NEW r \in Registries, Registry!CreateRegistry(r) \/ Registry!DeleteRegistry(r) PROVE LabelInv'
    BY <1>2, <1>3 DEF Registry!CreateRegistry, Registry!DeleteRegistry
  <1>4. ASSUME NEW r \in Registries, NEW clusters, Registry!Decide(r, clusters) PROVE LabelInv'
    BY <1>4, LabelsSame DEF Registry!Decide, Registry!loopVars
  <1>5. ASSUME NEW r \in Registries, Registry!HandleDecisions(r) \/ Registry!DeliverRegistry(r) PROVE LabelInv'
    BY <1>5, LabelsSame DEF Registry!HandleDecisions, Registry!DeliverRegistry, Registry!loopVars
  <1>6. ASSUME NEW c \in Clusters, Registry!DeliverCluster(c) PROVE LabelInv'
    BY <1>6, DeliverClusterOK
  <1>7. ASSUME NEW r \in Registries, Registry!Start(r) PROVE LabelInv'
    BY <1>7, LabelsSame DEF Registry!Start, Registry!FirstStep
  <1>8. ASSUME Registry!ReturnNil \/ Registry!ReturnError PROVE LabelInv'
    BY <1>8, LabelsSame DEF Registry!ReturnNil, Registry!ReturnError, Registry!Return
  <1>9. CASE Registry!AddFinalizer \/ Registry!Conflict \/ Registry!UpdateCondition
               \/ Registry!RemoveFinalizer \/ Registry!CallFails
    BY <1>8, <1>9 DEF Registry!AddFinalizer, Registry!Conflict, Registry!UpdateCondition,
         Registry!RemoveFinalizer, Registry!CallFails
  <1>10. CASE Registry!SelectClusters BY <1>10, LabelsSame DEF Registry!SelectClusters
  <1>11. CASE Registry!ListLabelled
    <2>1. toRemove' \subseteq Registry!Labelled /\ UNCHANGED <<Registry!clusterVars, registryCur>>
      BY <1>11 DEF Registry!ListLabelled
    <2>2. \A c \in toRemove' : labelSeen'[c] = registryCur'
      BY <2>1 DEF Registry!Labelled, Registry!clusterVars
    <2>3. \A c \in Clusters : LabelOK(c)' BY <2>1 DEF LabelInv, LabelOK, Registry!clusterVars
    <2>4. QED BY <2>2, <2>3 DEF LabelInv, RemovalOK
  <1>12. ASSUME NEW c \in Clusters, Registry!ReleaseCluster(c) PROVE LabelInv'
    <2>1. toRemove' = toRemove \ {c} /\ UNCHANGED <<registryPc, registryCur>>
      BY <1>12 DEF Registry!ReleaseCluster
    <2>2. NoRegistry \in Registry!Labels BY DEF Registry!Labels
    <2>3. CASE labelSeen[c] = NoRegistry
      BY <1>12, <2>1, <2>3, LabelsSame DEF Registry!ReleaseCluster
    <2>4. CASE labelSeen[c] # NoRegistry
      BY <1>12, <2>1, <2>2, <2>4, LabelWritten DEF Registry!ReleaseCluster
    <2>5. QED BY <2>3, <2>4
  <1>13. ASSUME NEW c \in Clusters, Registry!LabelCluster(c) PROVE LabelInv'
    <2>1. toRemove' = toRemove \ {c} /\ UNCHANGED <<registryPc, registryCur>> BY <1>13 DEF Registry!LabelCluster
    <2>2. registryCur \in Registry!Labels BY DEF Registry!TypeOK
    <2>3. CASE labelSeen[c] # NoRegistry
      BY <1>13, <2>1, <2>3, LabelsSame DEF Registry!LabelCluster
    <2>4. CASE labelSeen[c] = NoRegistry
      BY <1>13, <2>1, <2>2, <2>4, LabelWritten DEF Registry!LabelCluster
    <2>5. QED BY <2>3, <2>4
  <1>14. CASE Registry!EndLoop BY <1>14, LabelsSame DEF Registry!EndLoop
  <1>15. ASSUME NEW c \in Clusters, Registry!ClusterFails(c) PROVE LabelInv'
    BY <1>15, LabelsSame DEF Registry!ClusterFails
  <1>16. CASE Registry!Restart
    <2>1. \A c \in Clusters : clusterWire'[c] = <<>> /\ labelSeen'[c] = clusterLabel'[c] /\ registryPc' = "idle"
      BY <1>16 DEF Registry!Restart, Registry!TypeOK
    <2>2. QED BY <2>1 DEF LabelInv, LabelOK, RemovalOK
  <1>17. QED BY <1>1, <1>3, <1>4, <1>5, <1>6, <1>7, <1>9, <1>10, <1>11, <1>12, <1>13, <1>14, <1>15, <1>16
             DEF Registry!Next, Registry!Worker

-----------------------------------------------------------------------------
(***************************************************************************)
(* The registries.                                                         *)
(***************************************************************************)
\* A commit keeps the finalizer, or finds no registry that has been settled.
LEMMA CommitOK ==
    ASSUME Registry!TypeOK, RegistryInv, NEW r \in Registries, NEW o \in Registry!Registry,
             Registry!Commit(r, o),
           registryObj[r].finalizer => o.finalizer \/ (registryWire[r] = <<>> /\ ~Settled(registrySeen[r])),
           Settled(o) => o.finalizer
    PROVE  \A q \in Registries : HeldOK(q)' /\ LastOK(q)'
  <1>1. /\ registryObj' = [registryObj EXCEPT ![r] = o]
             /\ registryWire' = [registryWire EXCEPT ![r] = Append(registryWire[r], o)]
        /\ registrySeen' = registrySeen
    BY DEF Registry!Commit
  <1>2. registryObj'[r] = o /\ registryWire'[r] = Append(registryWire[r], o) BY <1>1 DEF Registry!TypeOK
  <1>3. registryWire[r] \in Seq(Registry!Registry) BY DEF Registry!TypeOK
  <1>4. ASSUME NEW q \in Registries, q # r PROVE HeldOK(q)' /\ LastOK(q)'
    <2>1. registryObj'[q] = registryObj[q] /\ registryWire'[q] = registryWire[q]
      BY <1>1, <1>4 DEF Registry!TypeOK
    <2>2. QED BY <1>1, <2>1 DEF RegistryInv, HeldOK, LastOK, Settled
  <1>5. LastOK(r)' BY <1>2, <1>3, SeqFacts DEF LastOK
  <1>6. HeldOK(r)'
    <2>1. registryWire'[r] # <<>> BY <1>2, <1>3, SeqFacts
    <2>2. HeldOK(r) BY DEF RegistryInv
    <2>3. Settled(registrySeen[r]) => o.finalizer BY <2>2 DEF HeldOK
    <2>4. ASSUME NEW i \in DOMAIN registryWire'[r], Settled(registryWire'[r][i]) PROVE o.finalizer
      <3>1. registryWire'[r][i] = o \/ (i \in DOMAIN registryWire[r]
              /\ registryWire'[r][i] = registryWire[r][i])
        BY <1>2, <1>3, SeqFacts
      <3>2. CASE registryWire'[r][i] = o BY <2>4, <3>2
      <3>3. CASE i \in DOMAIN registryWire[r] /\ registryWire'[r][i] = registryWire[r][i]
        <4>1. registryObj[r].finalizer BY <2>2, <2>4, <3>3 DEF HeldOK
        <4>2. registryWire[r] # <<>> BY <3>3
        <4>3. QED BY <4>1, <4>2
      <3>4. QED BY <3>1, <3>2, <3>3
    <2>5. QED BY <1>1, <1>2, <2>1, <2>3, <2>4 DEF HeldOK, Settled
  <1>7. QED BY <1>4, <1>5, <1>6

LEMMA RegistriesSame ==
    ASSUME RegistryInv, UNCHANGED Registry!registryVars
    PROVE  \A q \in Registries : HeldOK(q)' /\ LastOK(q)'
  BY DEF RegistryInv, HeldOK, LastOK, Settled, Registry!registryVars

LEMMA UserWritesOK ==
    ASSUME Registry!TypeOK, RegistryInv, NEW r \in Registries, NEW o \in Registry!Registry,
             Registry!UserWrites(r, o),
           registryObj[r].finalizer => o.finalizer, Settled(o) => o.finalizer
    PROVE  RegistryInv'
  <1>1. \A q \in Registries : HeldOK(q)' /\ LastOK(q)' BY CommitOK DEF Registry!UserWrites
  <1>2. WorkOK'
    <2>1. /\ registryObj' = [registryObj EXCEPT ![r] = o]
               /\ registryWire' = [registryWire EXCEPT ![r] = Append(registryWire[r], o)]
          /\ registrySeen' = registrySeen /\ registryFresh' = (registryFresh /\ registryCur # r)
               /\ UNCHANGED <<registryPc, registryCur>>
      BY DEF Registry!UserWrites, Registry!Commit
    <2>2. registryPc \in {"select", "list", "update"} => registryObj'[registryCur].finalizer
      <3>1. CASE registryCur = r BY <2>1, <3>1 DEF Registry!TypeOK, RegistryInv, WorkOK
      <3>2. CASE registryCur # r BY <2>1, <3>2 DEF Registry!TypeOK, RegistryInv, WorkOK
      <3>3. QED BY <3>1, <3>2
    <2>3. registryPc # "idle" /\ registryFresh' => registryWire'[registryCur] = <<>>
      BY <2>1 DEF Registry!TypeOK, RegistryInv, WorkOK
    <2>4. QED BY <2>1, <2>2, <2>3 DEF Registry!TypeOK, RegistryInv, WorkOK
  <1>3. QED BY <1>1, <1>2 DEF RegistryInv

LEMMA ReturnOK ==
    ASSUME RegistryInv, Registry!ReturnNil \/ Registry!ReturnError,
           \A q \in Registries : HeldOK(q)' /\ LastOK(q)'
    PROVE  RegistryInv'
  BY DEF RegistryInv, WorkOK, Registry!ReturnNil, Registry!ReturnError, Registry!Return

LEMMA NextRegistryInv == Registry!TypeOK /\ RegistryInv /\ [Registry!Next]_(Registry!vars) => RegistryInv'
  <1> SUFFICES ASSUME Registry!TypeOK, RegistryInv, [Registry!Next]_(Registry!vars) PROVE RegistryInv'
    OBVIOUS
  <1>1. ASSUME UNCHANGED <<Registry!registryVars, registryCur>>,
               registryPc' = registryPc \/ (registryPc' \in {"list", "update", "status"}
                 /\ registryPc \in {"select", "list", "update"})
                        \/ (registryPc' \in {"clean", "removeFinalizer"} /\ registryPc \in {"listAll",
                             "clean"}),
               registryFresh' = registryFresh
        PROVE  RegistryInv'
    <2>1. WorkOK' BY <1>1 DEF RegistryInv, WorkOK, Registry!registryVars
    <2>2. QED BY <1>1, <2>1, RegistriesSame DEF RegistryInv
  <1>2. CASE UNCHANGED Registry!vars BY <1>1, <1>2 DEF Registry!vars, Registry!registryVars
  <1>3. ASSUME NEW r \in Registries, Registry!CreateRegistry(r) PROVE RegistryInv'
    <2>1. ~registryObj[r].finalizer /\ ~Settled(Registry!New)
      BY <1>3 DEF Registry!CreateRegistry, Registry!Absent, Settled, Registry!New
    <2>2. QED BY <1>3, <2>1, Records, UserWritesOK DEF Registry!CreateRegistry
  <1>4. ASSUME NEW r \in Registries, Registry!DeleteRegistry(r) PROVE RegistryInv'
    <2> DEFINE o == IF registryObj[r].finalizer THEN [registryObj[r] EXCEPT !.phase = "dying"] ELSE Registry!Absent
    <2>1. registryObj[r] \in Registry!Registry BY DEF Registry!TypeOK
    <2>2. o \in Registry!Registry BY <2>1, Records
    <2>3. (registryObj[r].finalizer => o.finalizer) /\ ~Settled(o)
      BY <2>1 DEF Registry!Registry, Registry!Absent, Settled
    <2> HIDE DEF o
    <2>4. Registry!UserWrites(r, o) BY <1>4 DEF Registry!DeleteRegistry, o
    <2>5. QED BY <2>2, <2>3, <2>4, UserWritesOK
  <1>5. ASSUME NEW r \in Registries, NEW clusters, Registry!Decide(r, clusters) PROVE RegistryInv'
    BY <1>1, <1>5 DEF Registry!Decide
  <1>6. ASSUME NEW r \in Registries, Registry!HandleDecisions(r) PROVE RegistryInv'
    BY <1>1, <1>6 DEF Registry!HandleDecisions
  <1>7. ASSUME NEW r \in Registries, Registry!DeliverRegistry(r) PROVE RegistryInv'
    <2>1. /\ registryWire[r] # <<>> /\ registrySeen' = [registrySeen EXCEPT ![r] = Head(registryWire[r])]
          /\ registryWire' = [registryWire EXCEPT ![r] = Tail(registryWire[r])]
          /\ UNCHANGED <<registryObj, registryPc, registryCur, registryFresh>>
      BY <1>7 DEF Registry!DeliverRegistry
    <2>2. registryWire[r] \in Seq(Registry!Registry) BY DEF Registry!TypeOK
    <2>3. registrySeen'[r] = registryWire[r][1] /\ registryWire'[r] = Tail(registryWire[r])
            /\ 1 \in DOMAIN registryWire[r]
      BY <2>1, <2>2, SeqFacts DEF Registry!TypeOK
    <2>4. /\ Tail(registryWire[r]) \in Seq(Registry!Registry)
               /\ Len(Tail(registryWire[r])) = Len(registryWire[r]) - 1
          /\ \A i \in DOMAIN Tail(registryWire[r]) : i + 1 \in DOMAIN registryWire[r]
               /\ Tail(registryWire[r])[i] = registryWire[r][i + 1]
      BY <2>1, <2>2, SeqFacts
    <2>5. registryObj[r] = registryWire[r][Len(registryWire[r])] /\ HeldOK(r) BY <2>1 DEF RegistryInv, LastOK
    <2>6. HeldOK(r)'
      <3>1. registryWire'[r] = <<>> => registryObj[r] = registrySeen'[r]
        <4>1. ASSUME Tail(registryWire[r]) = <<>> PROVE Len(registryWire[r]) = 1
          <5>1. Len(Tail(registryWire[r])) = 0 BY <2>4, <4>1, EmptySeq
          <5>2. Len(registryWire[r]) \in Nat BY <2>2, SeqFacts
          <5>3. QED BY <2>4, <5>1, <5>2
        <4>2. QED BY <2>3, <2>5, <4>1
      <3>2. QED BY <2>1, <2>3, <2>4, <2>5, <3>1 DEF HeldOK, Settled
    <2>7. LastOK(r)'
      <3> SUFFICES ASSUME Tail(registryWire[r]) # <<>>
        PROVE registryObj[r] = Tail(registryWire[r])[Len(Tail(registryWire[r]))]
        BY <2>1, <2>3 DEF LastOK
      <3>1. Len(Tail(registryWire[r])) \in DOMAIN Tail(registryWire[r]) /\ Len(registryWire[r]) \in Nat
        BY <2>2, <2>4, SeqFacts
      <3>2. Tail(registryWire[r])[Len(Tail(registryWire[r]))] = registryWire[r][Len(Tail(registryWire[r])) + 1]
        BY <2>4, <3>1
      <3>3. Len(Tail(registryWire[r])) + 1 = Len(registryWire[r]) BY <2>4, <3>1
      <3>4. QED BY <2>5, <3>2, <3>3
    <2>8. ASSUME NEW q \in Registries, q # r PROVE HeldOK(q)' /\ LastOK(q)'
      <3>1. registrySeen'[q] = registrySeen[q] /\ registryWire'[q] = registryWire[q]
              /\ registryObj' = registryObj
        BY <2>1, <2>8 DEF Registry!TypeOK
      <3>2. QED BY <3>1 DEF RegistryInv, HeldOK, LastOK, Settled
    <2>9. WorkOK'
      <3>1. registryPc # "idle" /\ registryFresh => registryCur \in Registries /\ registryCur # r
        BY <2>1 DEF RegistryInv, WorkOK, Registry!TypeOK
      <3>2. registryPc # "idle" /\ registryFresh => registrySeen'[registryCur] = registrySeen[registryCur]
              /\ registryWire'[registryCur] = registryWire[registryCur]
        BY <2>1, <3>1 DEF Registry!TypeOK
      <3>3. QED BY <2>1, <3>2 DEF RegistryInv, WorkOK
    <2>10. QED BY <2>6, <2>7, <2>8, <2>9 DEF RegistryInv
  <1>8. ASSUME NEW c \in Clusters, Registry!DeliverCluster(c) PROVE RegistryInv'
    BY <1>1, <1>8 DEF Registry!DeliverCluster
  <1>9. ASSUME NEW r \in Registries, Registry!Start(r) PROVE RegistryInv'
    <2>1. /\ registryPc' = Registry!FirstStep(registrySeen[r])
               /\ registryCur' = IF registryPc' = "idle" THEN NoRegistry ELSE r
          /\ registryFresh' = (registryWire[r] = <<>>) /\ UNCHANGED Registry!registryVars
      BY <1>9 DEF Registry!Start
    <2>2. HeldOK(r) BY DEF RegistryInv
    <2>3. /\ registryPc' \in {"select", "list", "update"} => Settled(registrySeen[r]) /\ registryPc' # "idle"
          /\ registryPc' \in {"listAll", "clean", "removeFinalizer"} => registrySeen[r].phase = "dying"
               /\ registryPc' # "idle"
      BY <2>1 DEF Registry!FirstStep, Settled
    <2>4. WorkOK' BY <2>1, <2>2, <2>3 DEF WorkOK, HeldOK, Registry!registryVars
    <2>5. QED BY <2>1, <2>4, RegistriesSame DEF RegistryInv
  <1>10. CASE Registry!AddFinalizer
    <2>1. registryObj[registryCur] \in Registry!Registry /\ registryCur \in Registries
      BY <1>10 DEF Registry!AddFinalizer, Registry!TypeOK
    <2> DEFINE o == [registryObj[registryCur] EXCEPT !.finalizer = TRUE]
    <2>2. o \in Registry!Registry /\ o.finalizer BY <2>1, Records DEF Registry!Registry
    <2> HIDE DEF o
    <2>3. Registry!Commit(registryCur, o) /\ Registry!ReturnNil BY <1>10 DEF Registry!AddFinalizer, o
    <2>4. \A q \in Registries : HeldOK(q)' /\ LastOK(q)' BY <2>1, <2>2, <2>3, CommitOK
    <2>5. QED BY <2>3, <2>4, ReturnOK
  <1>11. CASE Registry!Conflict \/ Registry!CallFails
    BY <1>11, RegistriesSame, ReturnOK DEF Registry!Conflict, Registry!CallFails
  <1>12. CASE Registry!SelectClusters BY <1>1, <1>12 DEF Registry!SelectClusters
  <1>13. CASE Registry!ListLabelled BY <1>1, <1>13 DEF Registry!ListLabelled
  <1>14. ASSUME NEW c \in Clusters, Registry!ReleaseCluster(c) \/ Registry!LabelCluster(c)
                  \/ Registry!ClusterFails(c)
         PROVE  RegistryInv'
    BY <1>1, <1>14 DEF Registry!ReleaseCluster, Registry!LabelCluster, Registry!ClusterFails
  <1>15. CASE Registry!EndLoop BY <1>1, <1>15 DEF Registry!EndLoop
  <1>16. CASE Registry!UpdateCondition
    <2>1. registryObj[registryCur] \in Registry!Registry /\ registryCur \in Registries
      BY <1>16 DEF Registry!UpdateCondition, Registry!TypeOK
    <2>2. Registry!ReturnNil \/ Registry!ReturnError BY <1>16 DEF Registry!UpdateCondition
    <2>3. ASSUME NEW u \in {"true", "false"}, Registry!Commit(registryCur,
                   [registryObj[registryCur] EXCEPT !.updated = u])
          PROVE  \A q \in Registries : HeldOK(q)' /\ LastOK(q)'
      <3> DEFINE o == [registryObj[registryCur] EXCEPT !.updated = u]
      <3>1. o \in Registry!Registry /\ (registryObj[registryCur].finalizer => o.finalizer) /\ (Settled(o)
              => o.finalizer)
        BY <2>1, Records DEF Registry!Registry, Settled
      <3> HIDE DEF o
      <3>2. QED BY <2>1, <2>3, <3>1, CommitOK DEF o
    <2>4. Registry!registryVars' = Registry!registryVars
            \/ \E u \in {"true", "false"} : Registry!Commit(registryCur,
                 [registryObj[registryCur] EXCEPT !.updated = u])
      BY <1>16 DEF Registry!UpdateCondition
    <2>5. \A q \in Registries : HeldOK(q)' /\ LastOK(q)' BY <2>3, <2>4, RegistriesSame
    <2>6. QED BY <2>2, <2>5, ReturnOK
  <1>17. CASE Registry!RemoveFinalizer
    <2>1. Registry!Commit(registryCur, Registry!Absent) /\ Registry!ReturnNil /\ registryCur \in Registries
      BY <1>17 DEF Registry!RemoveFinalizer, Registry!TypeOK
    <2>2. registryWire[registryCur] = <<>> /\ registrySeen[registryCur].phase = "dying"
      BY <1>17 DEF Registry!RemoveFinalizer, RegistryInv, WorkOK
    <2>3. ~Settled(registrySeen[registryCur]) /\ ~Settled(Registry!Absent) BY <2>2 DEF Settled, Registry!Absent
    <2>4. \A q \in Registries : HeldOK(q)' /\ LastOK(q)' BY <2>1, <2>2, <2>3, Records, CommitOK
    <2>5. QED BY <2>1, <2>4, ReturnOK
  <1>18. CASE Registry!Restart
    <2>1. \A q \in Registries : registryWire'[q] = <<>> /\ registrySeen'[q] = registryObj'[q]
      BY <1>18 DEF Registry!Restart, Registry!TypeOK
    <2>2. registryPc' = "idle" BY <1>18 DEF Registry!Restart
    <2>3. QED BY <2>1, <2>2 DEF RegistryInv, HeldOK, LastOK, WorkOK, Settled
  <1>19. QED BY <1>2, <1>3, <1>4, <1>5, <1>6, <1>7, <1>8, <1>9, <1>10, <1>11, <1>12, <1>13, <1>14,
                <1>15, <1>16, <1>17, <1>18 DEF Registry!Next, Registry!Worker

-----------------------------------------------------------------------------
LEMMA InitInv == Registry!Init => LabelInv /\ RegistryInv
  <1> SUFFICES ASSUME Registry!Init PROVE LabelInv /\ RegistryInv
    OBVIOUS
  <1>1. LabelInv BY DEF Registry!Init, LabelInv, LabelOK, RemovalOK
  <1>2. ASSUME NEW r \in Registries PROVE HeldOK(r) /\ LastOK(r)
    <2>1. registryWire[r] = <<>> /\ registryObj[r] = registrySeen[r] BY DEF Registry!Init
    <2>2. ~Settled(registryObj[r]) BY DEF Registry!Init, Registry!Absent, Registry!New, Settled
    <2>3. QED BY <2>1, <2>2 DEF HeldOK, LastOK
  <1>3. WorkOK BY DEF Registry!Init, WorkOK
  <1>4. QED BY <1>1, <1>2, <1>3 DEF RegistryInv

\* Only two steps write a label.
LEMMA WritesOfLabels ==
    Registry!TypeOK /\ [Registry!Next]_(Registry!vars) =>
        UNCHANGED clusterLabel \/ \E c \in Clusters : Registry!ReleaseCluster(c) \/ Registry!LabelCluster(c)
  BY DEF Registry!Next, Registry!vars, Registry!Worker, Registry!CreateRegistry, Registry!DeleteRegistry,
       Registry!UserWrites, Registry!Decide, Registry!HandleDecisions, Registry!DeliverRegistry,
       Registry!DeliverCluster, Registry!Start, Registry!AddFinalizer, Registry!Conflict, Registry!ReturnNil,
       Registry!ReturnError, Registry!Return, Registry!SelectClusters, Registry!ListLabelled,
       Registry!EndLoop, Registry!UpdateCondition, Registry!RemoveFinalizer, Registry!CallFails,
       Registry!ClusterFails, Registry!Restart, Registry!clusterVars

LEMMA StepOwnLabels ==
    ASSUME Registry!TypeOK, LabelInv, RegistryInv, [Registry!Next]_(Registry!vars), NEW d \in Clusters,
           clusterLabel'[d] # clusterLabel[d]
    PROVE  /\ clusterLabel[d] \in {NoRegistry, registryCur}
           /\ clusterLabel'[d] # NoRegistry => registryObj[clusterLabel'[d]].finalizer
  <1>1. PICK c \in Clusters : Registry!ReleaseCluster(c) \/ Registry!LabelCluster(c) BY WritesOfLabels
  <1>2. ASSUME NEW l, Registry!UpdateLabel(c, l)
        PROVE  d = c /\ clusterLabel'[d] = l /\ clusterWire[d] = <<>> /\ clusterLabel[d] = labelSeen[d]
    <2>1. clusterWire[c] = <<>> BY <1>2 DEF Registry!UpdateLabel, Registry!clusterVars
    <2>2. clusterLabel' = [clusterLabel EXCEPT ![c] = l]
      BY <1>2, <2>1 DEF Registry!UpdateLabel, Registry!CommitLabel
    <2>3. d = c /\ clusterLabel'[d] = l BY <2>2 DEF Registry!TypeOK
    <2>4. QED BY <2>1, <2>3 DEF LabelInv, LabelOK
  <1>3. CASE Registry!ReleaseCluster(c)
    <2>1. Registry!UpdateLabel(c, NoRegistry) /\ labelSeen[c] # NoRegistry /\ c \in toRemove
            /\ registryPc \in {"update", "clean"}
      BY <1>3 DEF Registry!ReleaseCluster, Registry!clusterVars
    <2>2. labelSeen[c] = registryCur BY <2>1 DEF LabelInv, RemovalOK
    <2>3. QED BY <1>2, <2>1, <2>2
  <1>4. CASE Registry!LabelCluster(c)
    <2>1. Registry!UpdateLabel(c, registryCur) /\ labelSeen[c] = NoRegistry /\ registryPc = "update"
      BY <1>4 DEF Registry!LabelCluster, Registry!clusterVars
    <2>2. registryObj[registryCur].finalizer BY <2>1 DEF RegistryInv, WorkOK
    <2>3. QED BY <1>2, <2>1, <2>2
  <1>5. QED BY <1>1, <1>3, <1>4

-----------------------------------------------------------------------------
(***************************************************************************)
(* The composition.                                                        *)
(***************************************************************************)
RegistriesInv ==
    /\ part \in {"sets", "registries"}
    /\ part = "registries" => Registry!TypeOK /\ LabelInv /\ RegistryInv

LEMMA RegistriesInit == ControllersInit => RegistriesInv
  BY InitTypeOK, InitInv DEF ControllersInit, RegistriesInv

\* A step is one of one controller, and UNCHANGED for the other.
LEMMA ControllerSteps ==
    ASSUME part \in {"sets", "registries"}, [ControllersNext]_allVars
    PROVE  /\ part' = part
           /\ part = "sets" => [Next]_vars
           /\ part = "registries" => UNCHANGED vars /\ [Registry!Next]_(Registry!vars)
  BY Zenon DEF ControllersNext, allVars, registryVars, Registry!vars

LEMMA RegistriesNext == RegistriesInv /\ [ControllersNext]_allVars => RegistriesInv'
  BY ControllerSteps, NextTypeOK, NextLabelInv, NextRegistryInv DEF RegistriesInv

LEMMA RegistriesInvariant == ControllersSpec => []RegistriesInv
  BY RegistriesInit, RegistriesNext, PTL DEF ControllersSpec

\* Whatever controller runs, the sets live as in ClusterSetController: what ClusterSetController_proofs
\* proves of it holds here, too.
THEOREM RunsSets == ControllersSpec => Spec
  <1>1. ControllersInit => Init BY DEF ControllersInit, NoSets
  <1>2. RegistriesInv /\ [ControllersNext]_allVars => [Next]_vars
    BY ControllerSteps DEF RegistriesInv
  <1>3. QED BY <1>1, <1>2, RegistriesInvariant, PTL DEF ControllersSpec, Spec

\* Reconcile of imageregistry_controller.go: the worker only releases clusters of the label that it has
\* listed, and every variable of the controller has its type.
THEOREM RegistryTyped == ControllersSpec => []RegistryTypeOK
  <1>1. RegistriesInv => RegistryTypeOK BY DEF RegistriesInv, RegistryTypeOK
  <1>2. QED BY <1>1, RegistriesInvariant, PTL

(***************************************************************************)
(* A cluster changes hands only through its registry: its label is taken   *)
(* off by a Reconcile of the registry that it names, although that one     *)
(* judges by a cached label and does not look again, and is put on only    *)
(* while the finalizer holds the registry.                                 *)
(***************************************************************************)
THEOREM OnlyOwnLabelsHolds == ControllersSpec => OnlyOwnLabels
  <1>1. RegistriesInv /\ [ControllersNext]_allVars => [part = "registries" => Registry!OwnLabelsOnly]_allVars
    BY ControllerSteps, StepOwnLabels DEF RegistriesInv, Registry!OwnLabelsOnly
  <1>2. QED BY <1>1, RegistriesInvariant, PTL DEF ControllersSpec, OnlyOwnLabels
=============================================================================
