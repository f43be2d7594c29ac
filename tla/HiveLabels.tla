------------------------------ MODULE HiveLabels ------------------------------
(***************************************************************************)
(* The cluster set label of one hive ClusterDeployment and of the          *)
(* ClusterClaim that claims it.  One controller                            *)
(* (clusterset/clusterdeployment) copies the label of the source to the    *)
(* deployment: of its ClusterPool, or of the ManagedCluster when it is in  *)
(* no pool.  Another one (clusterset/clusterclaim) copies the label of the *)
(* deployment to the claim.                                                *)
(*                                                                         *)
(* An event of a pool enqueues the deployments of the pool that are not    *)
(* claimed, although Reconcile follows the pool of a claimed one, too; the *)
(* label of a claimed deployment waits for the resync of the informers.    *)
(***************************************************************************)
EXTENDS Naturals

CONSTANTS
    Sets,       \* values of the label
    NoLabel,
    Empty,      \* the label with an empty value
    MaxChurn,   \* bound: changes by users and by hive
    MaxFaults   \* bound: failed calls

Labels == Sets \cup {NoLabel, Empty}

VARIABLES
    pooled,          \* whether the deployment comes from a pool
    label, there,    \* for each object: its label, whether it exists
    claimed,         \* whether the deployment is claimed
    labelSeen, thereSeen, claimedSeen, \* the same in the manager's cache
    dirty,           \* the objects whose last change the cache has not seen
    deploymentQueue, claimQueue, \* the queues of the two controllers
    held, heldFresh, \* a label that a controller is about to write
    churn, faults    \* bounded counters

apiVars == <<label, there, claimed>>
seenVars == <<labelSeen, thereSeen, claimedSeen>>
cacheVars == <<seenVars, dirty>>
queueVars == <<deploymentQueue, claimQueue>>
vars == <<pooled, apiVars, cacheVars, queueVars, held, heldFresh, churn, faults>>

Objects == {"source", "deployment", "claim"}
Written == {"deployment", "claim"}
Nothing == "nothing"

\* What SyncMapField makes of a label: an empty value counts as none.
SyncMapField(required) ==
    IF required \notin {NoLabel, Empty} THEN required ELSE NoLabel

Init ==
    /\ pooled \in BOOLEAN
    /\ label \in [Objects -> {NoLabel}] /\ labelSeen = label
    /\ there = [o \in Objects |-> o # "claim"] /\ thereSeen = there
    /\ claimed = FALSE /\ claimedSeen = FALSE /\ dirty = {}
    /\ deploymentQueue = TRUE /\ claimQueue = TRUE
    /\ held = [o \in Written |-> Nothing] /\ heldFresh = [o \in Written |-> FALSE]
    /\ churn = 0 /\ faults = 0

(***************************************************************************)
(* Users and hive, and the events of their changes.                        *)
(***************************************************************************)

\* A change of an object makes copies of it old.
Changed(o) ==
    /\ dirty' = dirty \cup {o}
    /\ heldFresh' = [w \in Written |-> w # o /\ heldFresh[w]]

Relabel ==
    /\ churn < MaxChurn
    /\ churn' = churn + 1
    /\ \E o \in Objects, l \in Labels :
        /\ there[o] /\ l # label[o]
        /\ label' = [label EXCEPT ![o] = l]
        /\ Changed(o)
    /\ UNCHANGED <<pooled, there, claimed, seenVars, queueVars, held, faults>>

\* The source goes or comes back.
SourceChanges ==
    /\ churn < MaxChurn
    /\ churn' = churn + 1
    /\ there' = [there EXCEPT !["source"] = ~@]
    /\ label' = [label EXCEPT !["source"] = NoLabel]
    /\ Changed("source")
    /\ UNCHANGED <<pooled, claimed, seenVars, queueVars, held, faults>>

\* Hive gives a deployment of a pool to a claim.
Claim ==
    /\ pooled /\ ~claimed
    /\ claimed' = TRUE
    /\ there' = [there EXCEPT !["claim"] = TRUE]
    /\ dirty' = dirty \cup Written
    /\ heldFresh' = [w \in Written |-> FALSE]
    /\ UNCHANGED <<pooled, label, seenVars, queueVars, held, churn, faults>>

\* The handler of the claim controller finds the claim of a deployment in the cache.
EnqueueClaim(o) ==
    claimQueue' = (claimQueue \/ o = "claim" \/ (o = "deployment" /\ claimed /\ thereSeen["claim"]))

\* The handlers of the deployment controller.  A pool's event is none for a claimed deployment.
EnqueueDeployment(o) ==
    deploymentQueue' = (deploymentQueue \/ o = "deployment" \/ (o = "source" /\ ~(pooled /\ claimedSeen)))

Deliver(o) ==
    /\ o \in dirty
    /\ dirty' = dirty \ {o}
    /\ labelSeen' = [labelSeen EXCEPT ![o] = label[o]]
    /\ thereSeen' = [thereSeen EXCEPT ![o] = there[o]]
    /\ claimedSeen' = IF o = "deployment" THEN claimed ELSE claimedSeen
    /\ EnqueueDeployment(o) /\ EnqueueClaim(o)
    /\ UNCHANGED <<pooled, apiVars, held, heldFresh, churn, faults>>

\* Every ten hours all objects of the cache are events again.
Resync ==
    /\ deploymentQueue' = TRUE
    /\ claimQueue' = TRUE
    /\ UNCHANGED <<pooled, apiVars, cacheVars, held, heldFresh, churn, faults>>

(***************************************************************************)
(* The controllers.                                                        *)
(***************************************************************************)

\* Both read the object and the one it follows from the cache; if either is gone there is nothing to do.
Read(o, from) ==
    /\ held[o] = Nothing
    /\ LET l == SyncMapField(labelSeen[from])
       IN  held' = [held EXCEPT ![o] = IF thereSeen[o] /\ thereSeen[from] /\ l # labelSeen[o] THEN l ELSE Nothing]
    /\ heldFresh' = [heldFresh EXCEPT ![o] = o \notin dirty]
    /\ UNCHANGED <<pooled, apiVars, cacheVars, churn, faults>>

ReadDeployment ==
    /\ deploymentQueue /\ deploymentQueue' = FALSE /\ UNCHANGED claimQueue
    /\ Read("deployment", "source")

\* The claim names its deployment once it has one.
ReadClaim ==
    /\ claimQueue /\ claimQueue' = FALSE /\ UNCHANGED deploymentQueue
    /\ Read("claim", "deployment")

Update(o) ==
    /\ held[o] # Nothing
    /\ held' = [held EXCEPT ![o] = Nothing]
    /\ \/ /\ heldFresh[o]
          /\ label' = [label EXCEPT ![o] = held[o]]
          /\ dirty' = dirty \cup {o}
          /\ UNCHANGED <<queueVars, faults>>
       \/ /\ ~heldFresh[o] \/ faults < MaxFaults
          /\ faults' = IF heldFresh[o] THEN faults + 1 ELSE faults
          /\ deploymentQueue' = (deploymentQueue \/ o = "deployment")
          /\ claimQueue' = (claimQueue \/ o = "claim")
          /\ UNCHANGED <<label, dirty>>
    /\ UNCHANGED <<pooled, there, claimed, seenVars, heldFresh, churn>>

Next ==
    \/ Relabel \/ SourceChanges \/ Claim \/ Resync
    \/ \E o \in Objects : Deliver(o)
    \/ ReadDeployment \/ ReadClaim
    \/ \E o \in Written : Update(o)

Spec == Init /\ [][Next]_vars
\* The resync comes in the end; only a claimed deployment has to wait for it.
Fairness == /\ WF_vars(claimed /\ Resync) /\ \A o \in Objects : WF_vars(Deliver(o))
            /\ WF_vars(ReadDeployment) /\ WF_vars(ReadClaim) /\ \A o \in Written : WF_vars(Update(o))
FairSpec == Spec /\ Fairness

(***************************************************************************)
(* Properties.                                                             *)
(***************************************************************************)
TypeOK ==
    /\ label \in [Objects -> Labels] /\ labelSeen \in [Objects -> Labels]
    /\ there \in [Objects -> BOOLEAN] /\ thereSeen \in [Objects -> BOOLEAN]
    /\ held \in [Written -> Labels \cup {Nothing}] /\ heldFresh \in [Written -> BOOLEAN]
    /\ dirty \subseteq Objects
    /\ {pooled, claimed, claimedSeen, deploymentQueue, claimQueue} \subseteq BOOLEAN
    /\ churn \in 0..MaxChurn /\ faults \in 0..MaxFaults

\* Both controllers: in the end the deployment has the label of its source and the claim that of the
\* deployment, whatever was changed by hand, by hive or at the source in the meantime.
Agrees(o, from) == there[o] /\ there[from] => label[o] = IF label[from] \in Sets THEN label[from] ELSE NoLabel
EventuallyAgree == <>[](Agrees("deployment", "source") /\ Agrees("claim", "deployment"))
=============================================================================
