--------------------------- MODULE ImageRegistry ---------------------------
(***************************************************************************)
(* The controller of ManagedClusterImageRegistries                         *)
(* (pkg/controllers/imageregistry).  A registry refers to a placement; the *)
(* clusters the placement selects get the label (and an annotation, always *)
(* written with it) of the registry.  A cluster has one such label, and    *)
(* keeps the registry that was first.                                      *)
(*                                                                         *)
(* The worker reads registries, placement decisions and clusters from the  *)
(* manager's cache.  Registries and clusters it also writes, with Updates  *)
(* that are refused when its copy is not the current one: what the API     *)
(* server has committed and the cache has not received is in wire and      *)
(* clusterWire.  Nothing watches clusters.                                 *)
(*                                                                         *)
(* Clusters are there all the time, and nobody else writes the label.      *)
(***************************************************************************)
EXTENDS Naturals, Sequences

CONSTANTS
    Registries,
    Clusters,
    NoRegistry,    \* a cluster without the label
    MaxChurn,      \* bound: changes of registries and placement decisions
    MaxFaults      \* bound: failed API calls and restarts

\* What is assumed of the constants; a module that instantiates this one assumes it.
RegistriesAssumption == NoRegistry \notin Registries

VARIABLES
    obj, wire, seen,           \* registries: committed, on their way, cached
    label, clusterWire, labelSeen, \* the clusters' labels, likewise
    selected,                  \* what each registry's placement selects, cached
    events,                    \* registries whose decisions' handler has not run
    queue,
    pc, cur, fresh,            \* the worker: next step, registry, copy is current
    toRemove, toUpdate,        \* clusters it has still to release and to label
    failed,                    \* one of them has failed
    churn, faults              \* bounded counters

registryVars == <<obj, wire, seen>>
clusterVars == <<label, clusterWire, labelSeen>>
loopVars == <<toRemove, toUpdate, failed>>
vars == <<obj, wire, seen, label, clusterWire, labelSeen, selected, events, queue, pc, cur,
          fresh, toRemove, toUpdate, failed, churn, faults>>

\* A registry has a phase, the finalizer, and the condition ClustersUpdated.
Registry == [phase : {"absent", "live", "dying"}, finalizer : BOOLEAN,
             updated : {"unknown", "true", "false"}]
Absent == [phase |-> "absent", finalizer |-> FALSE, updated |-> "unknown"]
New == [phase |-> "live", finalizer |-> FALSE, updated |-> "unknown"]
Labels == Registries \cup {NoRegistry}

TypeOK ==
    /\ obj \in [Registries -> Registry] /\ seen \in [Registries -> Registry]
    /\ wire \in [Registries -> Seq(Registry)]
    /\ label \in [Clusters -> Labels] /\ labelSeen \in [Clusters -> Labels]
    /\ clusterWire \in [Clusters -> Seq(Labels)]
    /\ selected \in [Registries -> SUBSET Clusters]
    /\ events \subseteq Registries /\ queue \subseteq Registries
    /\ pc \in {"idle", "addFinalizer", "select", "list", "update", "status", "listAll", "clean",
               "removeFinalizer"}
    /\ cur \in Labels /\ (pc # "idle" => cur \in Registries)
    /\ fresh \in BOOLEAN /\ failed \in BOOLEAN
    /\ toRemove \subseteq Clusters /\ toUpdate \subseteq Clusters
    /\ pc = "update" => toRemove \cap toUpdate = {}
    /\ churn \in 0..MaxChurn
    /\ faults \in 0..MaxFaults

Init ==
    /\ obj \in [Registries -> {Absent, New}]
    /\ wire = [r \in Registries |-> <<>>]
    /\ seen = obj
    /\ label = [c \in Clusters |-> NoRegistry]
    /\ clusterWire = [c \in Clusters |-> <<>>]
    /\ labelSeen = label
    /\ selected \in [Registries -> SUBSET Clusters]
    /\ events = {}
    /\ queue = {r \in Registries : obj[r] # Absent}
    /\ pc = "idle" /\ cur = NoRegistry /\ fresh = FALSE
    /\ toRemove = {} /\ toUpdate = {} /\ failed = FALSE
    /\ churn = 0
    /\ faults = 0

-----------------------------------------------------------------------------
(***************************************************************************)
(* The API server, its users, and the placement controller.                *)
(***************************************************************************)
Commit(r, o) ==
    /\ obj' = [obj EXCEPT ![r] = o]
    /\ wire' = [wire EXCEPT ![r] = Append(@, o)]
    /\ UNCHANGED seen

CommitLabel(c, l) ==
    /\ label' = [label EXCEPT ![c] = l]
    /\ clusterWire' = [clusterWire EXCEPT ![c] = Append(@, l)]
    /\ UNCHANGED labelSeen

UserWrites(r, o) ==
    /\ churn < MaxChurn
    /\ churn' = churn + 1
    /\ Commit(r, o)
    /\ fresh' = (fresh /\ cur # r)
    /\ UNCHANGED <<clusterVars, selected, events, queue, pc, cur, loopVars, faults>>

CreateRegistry(r) == obj[r] = Absent /\ UserWrites(r, New)
DeleteRegistry(r) ==
    /\ obj[r].phase = "live"
    /\ UserWrites(r, IF obj[r].finalizer THEN [obj[r] EXCEPT !.phase = "dying"] ELSE Absent)

\* The decisions of the registry's placement change, in the cache.
Decide(r, clusters) ==
    /\ churn < MaxChurn
    /\ churn' = churn + 1
    /\ clusters # selected[r]
    /\ selected' = [selected EXCEPT ![r] = clusters]
    /\ events' = events \cup {r}
    /\ UNCHANGED <<registryVars, clusterVars, queue, pc, cur, fresh, loopVars, faults>>

\* Their handler enqueues the registries, of those in the cache, that refer to
\* the placement.
HandleDecisions(r) ==
    /\ r \in events
    /\ events' = events \ {r}
    /\ queue' = IF seen[r] = Absent THEN queue ELSE queue \cup {r}
    /\ UNCHANGED <<registryVars, clusterVars, selected, pc, cur, fresh, loopVars, churn, faults>>

DeliverRegistry(r) ==
    /\ wire[r] # <<>>
    /\ seen' = [seen EXCEPT ![r] = Head(wire[r])]
    /\ wire' = [wire EXCEPT ![r] = Tail(@)]
    /\ queue' = queue \cup {r}
    /\ UNCHANGED <<obj, clusterVars, selected, events, pc, cur, fresh, loopVars, churn, faults>>

DeliverCluster(c) ==
    /\ clusterWire[c] # <<>>
    /\ labelSeen' = [labelSeen EXCEPT ![c] = Head(clusterWire[c])]
    /\ clusterWire' = [clusterWire EXCEPT ![c] = Tail(@)]
    /\ UNCHANGED <<registryVars, label, selected, events, queue, pc, cur, fresh, loopVars, churn, faults>>

-----------------------------------------------------------------------------
(***************************************************************************)
(* Reconcile.                                                              *)
(***************************************************************************)
FirstStep(o) ==
    CASE o.phase = "dying" -> "listAll"
      [] o.phase = "live" /\ ~o.finalizer -> "addFinalizer"
      [] o.phase = "live" /\ o.finalizer -> "select"
      [] OTHER -> "idle"

Start(r) ==
    /\ pc = "idle"
    /\ r \in queue
    /\ queue' = queue \ {r}
    /\ pc' = FirstStep(seen[r])
    /\ cur' = IF pc' = "idle" THEN NoRegistry ELSE r
    /\ fresh' = (wire[r] = <<>>)
    /\ UNCHANGED <<registryVars, clusterVars, selected, events, loopVars, churn, faults>>

\* Reconcile returns; with an error the registry is queued again.
Return ==
    /\ pc' = "idle"
    /\ cur' = NoRegistry
    /\ fresh' = FALSE
    /\ UNCHANGED <<clusterVars, selected, events, loopVars, churn>>
ReturnNil == Return /\ UNCHANGED queue
ReturnError == Return /\ queue' = queue \cup {cur}

AddFinalizer ==
    /\ pc = "addFinalizer"
    /\ fresh
    /\ Commit(cur, [obj[cur] EXCEPT !.finalizer = TRUE])
    /\ ReturnNil
    /\ UNCHANGED faults

Conflict ==
    /\ pc \in {"addFinalizer", "removeFinalizer"}
    /\ ~fresh
    /\ ReturnError
    /\ UNCHANGED <<registryVars, faults>>

SelectClusters ==
    /\ pc = "select"
    /\ toUpdate' = selected[cur]
    /\ pc' = "list"
    /\ UNCHANGED <<registryVars, clusterVars, selected, events, queue, cur, fresh, toRemove,
                   failed, churn, faults>>

\* The clusters listed by the registry's label.
Labelled == {c \in Clusters : labelSeen[c] = cur}

\* Mutant: selected clusters are released, too.
ListAll ==
    /\ pc \in {"list", "listAll"}
    /\ toRemove' = Labelled
    /\ failed' = FALSE
    /\ pc' = IF pc = "list" THEN "update" ELSE "clean"
    /\ UNCHANGED <<registryVars, clusterVars, selected, events, queue, cur, fresh, toUpdate,
                   churn, faults>>

\* updateAllClustersImageRegistry releases those that are not selected,
\* cleanAllClustersImageRegistry all.
ListLabelled ==
    /\ \/ pc = "list" /\ toRemove' = Labelled \ toUpdate /\ pc' = "update"
       \/ pc = "listAll" /\ toRemove' = Labelled /\ pc' = "clean"
    /\ failed' = FALSE
    /\ UNCHANGED <<registryVars, clusterVars, selected, events, queue, cur, fresh, toUpdate,
                   churn, faults>>

\* Mutant: the label is written unconditionally.
PatchLabel(c, l) == CommitLabel(c, l) /\ UNCHANGED failed

\* Get and Update, again on a conflict, until the backoff gives up.
UpdateLabel(c, l) ==
    IF clusterWire[c] = <<>>
    THEN CommitLabel(c, l) /\ UNCHANGED failed
    ELSE UNCHANGED clusterVars /\ failed' = TRUE

\* removeClusterImageRegistry.
ReleaseCluster(c) ==
    /\ pc \in {"update", "clean"}
    /\ c \in toRemove
    /\ toRemove' = toRemove \ {c}
    /\ IF labelSeen[c] = NoRegistry THEN UNCHANGED <<clusterVars, failed>>
                                    ELSE UpdateLabel(c, NoRegistry)
    /\ UNCHANGED <<registryVars, selected, events, queue, pc, cur, fresh, toUpdate, churn, faults>>

\* updateClusterImageRegistry: a cluster with a label is left alone.
LabelCluster(c) ==
    /\ pc = "update"
    /\ toRemove = {}
    /\ c \in toUpdate
    /\ toUpdate' = toUpdate \ {c}
    /\ IF labelSeen[c] # NoRegistry THEN UNCHANGED <<clusterVars, failed>>
                                    ELSE UpdateLabel(c, cur)
    /\ UNCHANGED <<registryVars, selected, events, queue, pc, cur, fresh, toRemove, churn, faults>>

\* A cleaning that failed goes on as one that did not.
EndLoop ==
    /\ toRemove = {}
    /\ \/ pc = "update" /\ toUpdate = {} /\ pc' = "status"
       \/ pc = "clean" /\ pc' = "removeFinalizer"
    /\ UNCHANGED <<registryVars, clusterVars, selected, events, queue, cur, fresh, loopVars,
                   churn, faults>>

\* The condition is written to the cached copy; then the errors are returned.
UpdateCondition ==
    /\ pc = "status"
    /\ LET updated == IF failed THEN "false" ELSE "true"
       IN IF seen[cur] = Absent \/ wire[cur] # <<>>
          THEN ReturnError /\ UNCHANGED registryVars
          ELSE /\ IF obj[cur].updated = updated
                  THEN UNCHANGED registryVars
                  ELSE Commit(cur, [obj[cur] EXCEPT !.updated = updated])
               /\ IF failed THEN ReturnError ELSE ReturnNil
    /\ UNCHANGED faults

RemoveFinalizer ==
    /\ pc = "removeFinalizer"
    /\ fresh
    /\ Commit(cur, Absent)
    /\ ReturnNil
    /\ UNCHANGED faults

-----------------------------------------------------------------------------
Fault == faults < MaxFaults /\ faults' = faults + 1

CallFails ==
    /\ pc \in {"addFinalizer", "status", "removeFinalizer"}
    /\ Fault
    /\ ReturnError
    /\ UNCHANGED registryVars

\* The write of one cluster fails; the loop goes on.
ClusterFails(c) ==
    /\ Fault
    /\ \/ /\ pc \in {"update", "clean"}
          /\ c \in toRemove
          /\ toRemove' = toRemove \ {c}
          /\ UNCHANGED toUpdate
       \/ /\ pc = "update"
          /\ toRemove = {}
          /\ c \in toUpdate
          /\ toUpdate' = toUpdate \ {c}
          /\ UNCHANGED toRemove
    /\ failed' = TRUE
    /\ UNCHANGED <<registryVars, clusterVars, selected, events, queue, pc, cur, fresh, churn>>

Restart ==
    /\ Fault
    /\ wire' = [r \in Registries |-> <<>>]
    /\ seen' = obj
    /\ clusterWire' = [c \in Clusters |-> <<>>]
    /\ labelSeen' = label
    /\ events' = {}
    /\ queue' = {r \in Registries : obj[r] # Absent}
    /\ pc' = "idle" /\ cur' = NoRegistry /\ fresh' = FALSE
    /\ toRemove' = {} /\ toUpdate' = {} /\ failed' = FALSE
    /\ UNCHANGED <<obj, label, selected, churn>>

-----------------------------------------------------------------------------
Worker ==
    \/ \E r \in Registries : Start(r)
    \/ AddFinalizer \/ Conflict
    \/ SelectClusters \/ ListLabelled
    \/ \E c \in Clusters : ReleaseCluster(c) \/ LabelCluster(c)
    \/ EndLoop \/ UpdateCondition \/ RemoveFinalizer

Next ==
    \/ \E r \in Registries :
          \/ CreateRegistry(r) \/ DeleteRegistry(r)
          \/ \E clusters \in SUBSET Clusters : Decide(r, clusters)
          \/ HandleDecisions(r) \/ DeliverRegistry(r)
    \/ \E c \in Clusters : DeliverCluster(c)
    \/ Worker
    \/ CallFails \/ (\E c \in Clusters : ClusterFails(c)) \/ Restart

Spec == Init /\ [][Next]_vars

\* The worker and the informers are goroutines; users and failures owe nothing.
FairSpec ==
    /\ Spec
    /\ WF_vars(Worker)
    /\ \A r \in Registries : WF_vars(HandleDecisions(r)) /\ WF_vars(DeliverRegistry(r))
    /\ \A c \in Clusters : WF_vars(DeliverCluster(c))

-----------------------------------------------------------------------------
(***************************************************************************)
(* Properties.                                                             *)
(***************************************************************************)
(***************************************************************************)
(* A cluster changes hands only through its registry: a label is replaced  *)
(* or removed by a Reconcile of the registry that it names, although the   *)
(* worker judges by a cached label and does not look again before it       *)
(* removes one; and it is put on only while the finalizer holds that       *)
(* registry.                                                               *)
(***************************************************************************)
OwnLabelsOnly ==
    \A c \in Clusters : label'[c] # label[c] =>
        /\ label[c] \in {NoRegistry, cur}
        /\ label'[c] # NoRegistry => obj[label'[c]].finalizer
OnlyOwnLabels == [][OwnLabelsOnly]_vars

(***************************************************************************)
(* Once users and failures stop, no registry is left dying: conflicts and  *)
(* errors are retried until the finalizer is gone.                         *)
(***************************************************************************)
EventuallyGone == <>[](\A r \in Registries : obj[r].phase # "dying")
=============================================================================
