-------------------------- MODULE ClusterLifecycle --------------------------
(***************************************************************************)
(* The two controllers that give a ManagedCluster what it has on the hub   *)
(* and take it away again: the ClusterRole controller                      *)
(* (pkg/controllers/clusterrole), with the roles admin and view, and the   *)
(* ManagedClusterInfo controller (pkg/controllers/clusterinfo), with the   *)
(* ManagedClusterInfo.                                                     *)
(*                                                                         *)
(* Both hold a finalizer in one list of one object.  Both read it from the *)
(* manager's cache (seen), which gets the commits of the API server (obj)  *)
(* later (wire).  The first writes the list with an Update, which carries  *)
(* the resourceVersion it read and is refused if another write came in     *)
(* between (roleFresh); the second with a merge patch, which carries the   *)
(* list computed from its copy (infoCopy) and replaces what is there.      *)
(*                                                                         *)
(* The controllers keep nothing from one cluster to the next, so one       *)
(* cluster is modelled.  The spec and the status of the ManagedClusterInfo *)
(* are left out.                                                           *)
(***************************************************************************)
EXTENDS Naturals, Sequences

CONSTANTS
    MaxChurn,    \* bound: changes made by others
    MaxFaults    \* bound: failed API calls and restarts

ASSUME BoundsAssumption == MaxChurn \in Nat /\ MaxFaults \in Nat

VARIABLES
    obj,         \* the ManagedCluster at the API server
    wire,        \* its watch events the cache has not received
    seen,        \* the manager's cache of it
    roles,       \* the ClusterRoles that exist
    roleEvent,   \* the watch on ClusterRoles has an event to deliver
    info,        \* the ManagedClusterInfo exists
    infoSeen,    \* and does in the cache
    infoEvent,   \* the watch on ManagedClusterInfos has events to deliver
    roleQueue, infoQueue,   \* the cluster is in the workqueue of the controller
    rpc, roleFresh,         \* the ClusterRole worker
    ipc, infoCopy,          \* the ManagedClusterInfo worker, the list it has read
    churn, faults           \* bounded counters

clusterVars == <<obj, wire, seen>>
roleVars == <<roles, roleEvent, roleQueue, rpc>>
infoVars == <<info, infoSeen, infoEvent, infoQueue, ipc, infoCopy>>
vars == <<obj, wire, seen, roles, roleEvent, info, infoSeen, infoEvent, roleQueue, infoQueue, rpc,
          roleFresh, ipc, infoCopy, churn, faults>>

RoleKinds == {"admin", "view"}
Finalizers == {"role", "info"}
Cluster == [phase : {"live", "dying", "absent"}, finalizers : SUBSET Finalizers]
Absent == [phase |-> "absent", finalizers |-> {}]
New == [phase |-> "live", finalizers |-> {}]

TypeOK ==
    /\ obj \in Cluster /\ seen \in Cluster /\ wire \in Seq(Cluster)
    /\ \A o \in {obj, seen} : o.phase # "live" => (o.phase = "absent" <=> o.finalizers = {})
    /\ roles \in SUBSET RoleKinds
    /\ {roleEvent, info, infoSeen, infoEvent, roleQueue, infoQueue, roleFresh} \subseteq BOOLEAN
    /\ rpc \in {"idle", "addFinalizer", "applyAdmin", "applyView", "deleteAdmin", "deleteView",
                "removeFinalizer"}
    /\ ipc \in {"idle", "addFinalizer", "create", "delete", "removeFinalizer"}
    /\ infoCopy \in SUBSET Finalizers
    /\ churn \in 0..MaxChurn
    /\ faults \in 0..MaxFaults

Init ==
    /\ obj \in {Absent, New}
    /\ wire = <<>>
    /\ seen = obj
    /\ roles = {}
    /\ roleEvent = FALSE
    /\ info = FALSE
    /\ infoSeen = FALSE
    /\ infoEvent = FALSE
    /\ roleQueue = (obj # Absent)
    /\ infoQueue = (obj # Absent)
    /\ rpc = "idle"
    /\ roleFresh = FALSE
    /\ ipc = "idle"
    /\ infoCopy = {}
    /\ churn = 0
    /\ faults = 0

-----------------------------------------------------------------------------
(***************************************************************************)
(* The API server.  An object being deleted is gone with its last          *)
(* finalizer.                                                              *)
(***************************************************************************)
Finalized(phase, finalizers) ==
    IF phase = "dying" /\ finalizers = {} THEN Absent
    ELSE [phase |-> phase, finalizers |-> finalizers]

\* Every commit is a new resourceVersion, and an event of the watch.
Commit(o) ==
    /\ obj' = o
    /\ wire' = Append(wire, o)
    /\ UNCHANGED seen

UserWrites(o) ==
    /\ churn < MaxChurn
    /\ churn' = churn + 1
    /\ Commit(o)
    /\ roleFresh' = FALSE
    /\ UNCHANGED <<roleVars, infoVars, faults>>

CreateCluster == obj = Absent /\ UserWrites(New)
DeleteCluster == obj.phase = "live" /\ UserWrites(Finalized("dying", obj.finalizers))

\* Something else of the object is written.
TouchCluster == obj # Absent /\ UserWrites(obj)

\* Someone deletes a ClusterRole or the ManagedClusterInfo.
DeleteRole(r) ==
    /\ churn < MaxChurn
    /\ churn' = churn + 1
    /\ r \in roles
    /\ roles' = roles \ {r}
    /\ roleEvent' = TRUE
    /\ UNCHANGED <<clusterVars, roleQueue, rpc, roleFresh, infoVars, faults>>

DeleteInfo ==
    /\ churn < MaxChurn
    /\ churn' = churn + 1
    /\ info
    /\ info' = FALSE
    /\ infoEvent' = TRUE
    /\ UNCHANGED <<clusterVars, roleVars, roleFresh, infoSeen, infoQueue, ipc, infoCopy, faults>>

-----------------------------------------------------------------------------
(***************************************************************************)
(* The informers.  Both controllers watch ManagedClusters; the first also  *)
(* the deletion of ClusterRoles, the second also ManagedClusterInfos.      *)
(***************************************************************************)
DeliverCluster ==
    /\ wire # <<>>
    /\ seen' = Head(wire)
    /\ wire' = Tail(wire)
    /\ roleQueue' = TRUE
    /\ infoQueue' = TRUE
    /\ UNCHANGED <<obj, roles, roleEvent, rpc, roleFresh, info, infoSeen, infoEvent, ipc, infoCopy, churn,
                   faults>>

DeliverRole ==
    /\ roleEvent
    /\ roleEvent' = FALSE
    /\ roleQueue' = TRUE
    /\ UNCHANGED <<clusterVars, roles, rpc, roleFresh, infoVars, churn, faults>>

DeliverInfo ==
    /\ infoEvent
    /\ infoEvent' = FALSE
    /\ infoSeen' = info
    /\ infoQueue' = TRUE
    /\ UNCHANGED <<clusterVars, roleVars, roleFresh, info, ipc, infoCopy, churn, faults>>

-----------------------------------------------------------------------------
(***************************************************************************)
(* The ClusterRole controller's Reconcile.                                 *)
(***************************************************************************)
FirstRoleStep(o) ==
    CASE o.phase = "dying" /\ "role" \in o.finalizers -> "deleteAdmin"
      [] o.phase = "live" /\ "role" \notin o.finalizers -> "addFinalizer"
      [] o.phase = "live" /\ "role" \in o.finalizers -> "applyAdmin"
      [] OTHER -> "idle"

StartRole ==
    /\ rpc = "idle"
    /\ roleQueue
    /\ roleQueue' = FALSE
    /\ rpc' = FirstRoleStep(seen)
    /\ roleFresh' = (wire = <<>>)
    /\ UNCHANGED <<clusterVars, roles, roleEvent, infoVars, churn, faults>>

\* Mutant: the error is not returned.
RoleReturnsNil ==
    /\ rpc' = "idle"
    /\ UNCHANGED <<clusterVars, roles, roleEvent, roleQueue, roleFresh, infoVars, churn>>

\* Reconcile returns an error: the cluster is queued again.
RoleError ==
    /\ rpc' = "idle"
    /\ roleQueue' = TRUE
    /\ UNCHANGED <<clusterVars, roles, roleEvent, roleFresh, infoVars, churn>>

\* Mutant: the list of the cached copy is written unconditionally.
AddAnyway ==
    /\ rpc = "addFinalizer"
    /\ obj.phase = "live"
    /\ Commit([obj EXCEPT !.finalizers = seen.finalizers \cup {"role"}])
    /\ rpc' = "applyAdmin"
    /\ UNCHANGED <<roles, roleEvent, roleQueue, roleFresh, infoVars, churn, faults>>

AddRoleFinalizer ==
    /\ rpc = "addFinalizer"
    /\ roleFresh
    /\ Commit([obj EXCEPT !.finalizers = @ \cup {"role"}])
    /\ rpc' = "applyAdmin"
    /\ UNCHANGED <<roles, roleEvent, roleQueue, roleFresh, infoVars, churn, faults>>

RoleConflict ==
    /\ rpc \in {"addFinalizer", "removeFinalizer"}
    /\ ~roleFresh
    /\ RoleError
    /\ UNCHANGED faults

ApplyRole(r) ==
    /\ \/ r = "admin" /\ rpc = "applyAdmin" /\ rpc' = "applyView"
       \/ r = "view" /\ rpc = "applyView" /\ rpc' = "idle"
    /\ roles' = roles \cup {r}
    /\ UNCHANGED <<clusterVars, roleEvent, roleQueue, roleFresh, infoVars, churn, faults>>

DeleteClusterRole(r) ==
    /\ \/ r = "admin" /\ rpc = "deleteAdmin" /\ rpc' = "deleteView"
       \/ r = "view" /\ rpc = "deleteView" /\ rpc' = "removeFinalizer"
    /\ roles' = roles \ {r}
    /\ roleEvent' = (roleEvent \/ r \in roles)
    /\ UNCHANGED <<clusterVars, roleQueue, roleFresh, infoVars, churn, faults>>

\* Mutant: a cluster that has lost its last finalizer is still there.
RemoveAndStay ==
    /\ rpc = "removeFinalizer"
    /\ roleFresh
    /\ Commit([obj EXCEPT !.finalizers = @ \ {"role"}])
    /\ rpc' = "idle"
    /\ UNCHANGED <<roles, roleEvent, roleQueue, roleFresh, infoVars, churn, faults>>

RemoveRoleFinalizer ==
    /\ rpc = "removeFinalizer"
    /\ roleFresh
    /\ Commit(Finalized("dying", obj.finalizers \ {"role"}))
    /\ rpc' = "idle"
    /\ UNCHANGED <<roles, roleEvent, roleQueue, roleFresh, infoVars, churn, faults>>

-----------------------------------------------------------------------------
(***************************************************************************)
(* The ManagedClusterInfo controller's Reconcile.                          *)
(***************************************************************************)
FirstInfoStep(o) ==
    CASE o.phase = "dying" /\ "info" \in o.finalizers -> "delete"
      [] o.phase = "live" /\ "info" \notin o.finalizers -> "addFinalizer"
      [] o.phase = "live" /\ "info" \in o.finalizers /\ ~infoSeen -> "create"
      [] OTHER -> "idle"

StartInfo ==
    /\ ipc = "idle"
    /\ infoQueue
    /\ infoQueue' = FALSE
    /\ ipc' = FirstInfoStep(seen)
    /\ infoCopy' = seen.finalizers
    /\ UNCHANGED <<clusterVars, roleVars, roleFresh, info, infoSeen, infoEvent, churn, faults>>

InfoReturns(error) ==
    /\ ipc' = "idle"
    /\ infoQueue' = (infoQueue \/ error)

\* A merge patch of the finalizers: NotFound if the cluster is gone, Forbidden
\* if it adds a finalizer to one being deleted, and no write if it changes
\* nothing.
Patch(finalizers) ==
    LET refused == \/ obj = Absent
                   \/ obj.phase = "dying" /\ ~(finalizers \subseteq obj.finalizers)
    IN /\ InfoReturns(refused)
       /\ IF refused \/ finalizers = obj.finalizers
          THEN UNCHANGED <<clusterVars, roleFresh>>
          ELSE Commit(Finalized(obj.phase, finalizers)) /\ roleFresh' = FALSE

AddInfoFinalizer ==
    /\ ipc = "addFinalizer"
    /\ Patch(infoCopy \cup {"info"})
    /\ UNCHANGED <<roleVars, info, infoSeen, infoEvent, infoCopy, churn, faults>>

\* Create fails when the ManagedClusterInfo exists.
CreateInfo ==
    /\ ipc = "create"
    /\ InfoReturns(info)
    /\ info' = TRUE
    /\ infoEvent' = (infoEvent \/ ~info)
    /\ UNCHANGED <<clusterVars, roleVars, roleFresh, infoSeen, infoCopy, churn, faults>>

DeleteClusterInfo ==
    /\ ipc = "delete"
    /\ info' = FALSE
    /\ infoEvent' = (infoEvent \/ info)
    /\ ipc' = "removeFinalizer"
    /\ UNCHANGED <<clusterVars, roleVars, roleFresh, infoSeen, infoQueue, infoCopy, churn, faults>>

RemoveInfoFinalizer ==
    /\ ipc = "removeFinalizer"
    /\ Patch(infoCopy \ {"info"})
    /\ UNCHANGED <<roleVars, info, infoSeen, infoEvent, infoCopy, churn, faults>>

-----------------------------------------------------------------------------
Fault == faults < MaxFaults /\ faults' = faults + 1

RoleFails == rpc # "idle" /\ Fault /\ RoleError

InfoFails ==
    /\ ipc # "idle"
    /\ Fault
    /\ InfoReturns(TRUE)
    /\ UNCHANGED <<clusterVars, roleVars, roleFresh, info, infoSeen, infoEvent, infoCopy, churn>>

\* The new manager lists; the creation of a ClusterRole is no event for it.
Restart ==
    /\ Fault
    /\ wire' = <<>>
    /\ seen' = obj
    /\ roleEvent' = FALSE
    /\ infoSeen' = info
    /\ infoEvent' = FALSE
    /\ roleQueue' = (obj # Absent)
    /\ infoQueue' = (obj # Absent \/ info)
    /\ rpc' = "idle"
    /\ ipc' = "idle"
    /\ UNCHANGED <<obj, roles, roleFresh, info, infoCopy, churn>>

-----------------------------------------------------------------------------
Others ==
    \/ CreateCluster \/ DeleteCluster \/ TouchCluster
    \/ \E r \in RoleKinds : DeleteRole(r)
    \/ DeleteInfo

RoleWorker ==
    \/ StartRole \/ AddRoleFinalizer \/ RoleConflict
    \/ \E r \in RoleKinds : ApplyRole(r) \/ DeleteClusterRole(r)
    \/ RemoveRoleFinalizer

InfoWorker ==
    StartInfo \/ AddInfoFinalizer \/ CreateInfo \/ DeleteClusterInfo \/ RemoveInfoFinalizer

Next ==
    \/ Others
    \/ DeliverCluster \/ DeliverRole \/ DeliverInfo
    \/ RoleWorker \/ InfoWorker
    \/ RoleFails \/ InfoFails \/ Restart

Spec == Init /\ [][Next]_vars

\* Informers and workers are goroutines; others and failures owe nothing.
FairSpec ==
    /\ Spec
    /\ WF_vars(DeliverCluster) /\ WF_vars(DeliverRole) /\ WF_vars(DeliverInfo)
    /\ WF_vars(RoleWorker) /\ WF_vars(InfoWorker)

-----------------------------------------------------------------------------
(***************************************************************************)
(* Properties.                                                             *)
(***************************************************************************)
(***************************************************************************)
(* A cluster that is gone has no ManagedClusterInfo, although the          *)
(* controller decides on a copy of the cluster that may be the one of an   *)
(* earlier cluster of that name, and writes its finalizer unconditionally. *)
(***************************************************************************)
InfoGoesWithCluster == obj = Absent => ~info

(***************************************************************************)
(* Once others and failures stop, no cluster is left dying, and a live one *)
(* has both finalizers, both roles and its ManagedClusterInfo: the patch   *)
(* of one controller, which may drop the other's finalizer, and the        *)
(* conflicts it gives the other, come to an end.                           *)
(***************************************************************************)
Complete ==
    \/ obj = Absent
    \/ /\ obj = [phase |-> "live", finalizers |-> Finalizers]
       /\ roles = RoleKinds
       /\ info

EventuallyComplete == <>[]Complete

(***************************************************************************)
(* clusterrole_controller.go:133-159: when the cluster is being deleted,   *)
(* its roles are deleted and then the finalizer is removed, so that a      *)
(* cluster that is gone has left no role.                                  *)
(***************************************************************************)
RolesGoWithCluster == obj = Absent => roles = {}
=============================================================================
