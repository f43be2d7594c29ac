------------------------------ MODULE GlobalSet ------------------------------
(***************************************************************************)
(* The global set controller (clusterset/globalclusterset): it creates the *)
(* namespace of the global ManagedClusterSet once, which an annotation of  *)
(* the set records, and as long as the namespace is there a binding and a  *)
(* placement in it.                                                        *)
(*                                                                         *)
(* The set, the binding and the placement are read from the manager's      *)
(* cache, the namespace from the API server; nothing watches namespaces.   *)
(***************************************************************************)
EXTENDS Naturals

CONSTANTS
    MaxChurn,   \* bound: what users do
    MaxFaults   \* bound: failed calls and restarts

VARIABLES
    namespace,              \* the namespace: absent, active or terminating
    live,                   \* what is there: the annotation, the binding, the placement
    cached, dirty,          \* the manager's cache, and what it has yet to see
    uninstalling,           \* whether somebody is deleting the namespace for good
    queued, pc, fresh,      \* the controller
    churn, faults           \* bounded counters

apiVars == <<namespace, live>>
cacheVars == <<cached, dirty>>
vars == <<apiVars, cacheVars, uninstalling, queued, pc, fresh, churn, faults>>

Parts == {"annotation", "binding", "placement"}
InNamespace == {"binding", "placement"}

Init ==
    /\ namespace \in {"absent", "active"}
    /\ live = {} /\ cached = {} /\ dirty = {}
    /\ uninstalling = FALSE
    /\ queued = TRUE /\ pc = "idle" /\ fresh = FALSE
    /\ churn = 0 /\ faults = 0

(***************************************************************************)
(* Users, the namespace controller and the cache.                          *)
(***************************************************************************)

\* Somebody deletes the binding or the placement, or creates the namespace.
UserWrites ==
    /\ churn < MaxChurn
    /\ churn' = churn + 1
    /\ \/ /\ \E p \in InNamespace \cap live : live' = live \ {p} /\ dirty' = dirty \cup {p}
          /\ UNCHANGED namespace
       \/ /\ namespace = "absent" /\ ~uninstalling
          /\ namespace' = "active"
          /\ UNCHANGED <<live, dirty>>
    /\ UNCHANGED <<cached, uninstalling, queued, pc, fresh, faults>>

\* The uninstallation begins once the set has its annotation.
BeginUninstall ==
    /\ "annotation" \in cached /\ ~uninstalling
    /\ uninstalling' = TRUE
    /\ UNCHANGED <<apiVars, cacheVars, queued, pc, fresh, churn, faults>>

DeleteNamespace ==
    /\ namespace = "active"
    /\ \/ uninstalling /\ UNCHANGED churn
       \/ ~uninstalling /\ churn < MaxChurn /\ churn' = churn + 1
    /\ namespace' = "terminating"
    /\ UNCHANGED <<live, cacheVars, uninstalling, queued, pc, fresh, faults>>

FinishNamespace ==
    /\ namespace = "terminating"
    /\ namespace' = "absent"
    /\ live' = live \ InNamespace
    /\ dirty' = dirty \cup (live \cap InNamespace)
    /\ UNCHANGED <<cached, uninstalling, queued, pc, fresh, churn, faults>>

\* Any of the three watches asks for the one set.
Deliver ==
    \E p \in dirty :
        /\ dirty' = dirty \ {p}
        /\ cached' = IF p \in live THEN cached \cup {p} ELSE cached \ {p}
        /\ queued' = TRUE
        /\ UNCHANGED <<apiVars, uninstalling, pc, fresh, churn, faults>>

Resync ==
    /\ ~queued
    /\ queued' = TRUE
    /\ UNCHANGED <<apiVars, cacheVars, uninstalling, pc, fresh, churn, faults>>

(***************************************************************************)
(* The controller.                                                         *)
(***************************************************************************)
ReturnError ==
    /\ pc' = "idle"
    /\ queued' = TRUE

Fails ==
    /\ faults < MaxFaults
    /\ faults' = faults + 1
    /\ ReturnError

\* The namespace is only looked after until the annotation is seen.
Start ==
    /\ pc = "idle" /\ queued
    /\ queued' = FALSE
    /\ fresh' = ("annotation" \notin dirty)
    /\ pc' = IF "annotation" \in cached THEN "check" ELSE "namespace"
    /\ UNCHANGED <<apiVars, cacheVars, uninstalling, churn, faults>>

\* One that is terminating is there for the Get.
ApplyNamespace ==
    /\ pc = "namespace"
    /\ \/ /\ namespace' = IF namespace = "absent" THEN "active" ELSE namespace
          /\ pc' = "annotate"
          /\ UNCHANGED <<queued, faults>>
       \/ Fails /\ UNCHANGED namespace
    /\ UNCHANGED <<live, cacheVars, uninstalling, fresh, churn>>

\* Update of the set: refused when the copy is not the current one.
Annotate ==
    /\ pc = "annotate"
    /\ \/ /\ fresh
          /\ live' = live \cup {"annotation"}
          /\ dirty' = dirty \cup {"annotation"}
          /\ pc' = "check"
          /\ UNCHANGED <<queued, faults>>
       \/ ~fresh /\ ReturnError /\ UNCHANGED <<live, dirty, faults>>
       \/ Fails /\ UNCHANGED <<live, dirty>>
    /\ UNCHANGED <<namespace, cached, uninstalling, fresh, churn>>

CheckNamespace ==
    /\ pc = "check"
    /\ \/ /\ pc' = IF namespace = "absent" THEN "idle" ELSE "binding"
          /\ UNCHANGED <<queued, faults>>
       \/ Fails
    /\ UNCHANGED <<apiVars, cacheVars, uninstalling, fresh, churn>>

\* What the cache does not have is created: an error if it is there, or if there is no active namespace.
CreateMissing(p, next) ==
    IF p \in cached THEN pc' = next /\ UNCHANGED <<live, dirty, queued, faults>>
    ELSE \/ /\ p \notin live /\ namespace = "active"
            /\ live' = live \cup {p}
            /\ dirty' = dirty \cup {p}
            /\ pc' = next
            /\ UNCHANGED <<queued, faults>>
         \/ /\ p \in live \/ namespace # "active"
            /\ ReturnError
            /\ UNCHANGED <<live, dirty, faults>>
         \/ Fails /\ UNCHANGED <<live, dirty>>

ApplyBindingAndPlacement ==
    /\ \/ pc = "binding" /\ CreateMissing("binding", "placement")
       \/ pc = "placement" /\ CreateMissing("placement", "idle")
    /\ UNCHANGED <<namespace, cached, uninstalling, fresh, churn>>

Restart ==
    /\ faults < MaxFaults
    /\ faults' = faults + 1
    /\ cached' = live /\ dirty' = {}
    /\ ReturnError
    /\ UNCHANGED <<apiVars, uninstalling, fresh, churn>>

Worker == Start \/ ApplyNamespace \/ Annotate \/ CheckNamespace \/ ApplyBindingAndPlacement

Next ==
    \/ UserWrites \/ BeginUninstall \/ DeleteNamespace \/ FinishNamespace
    \/ Deliver \/ Resync \/ Worker \/ Restart

Spec == Init /\ [][Next]_vars
Fairness == /\ WF_vars(Worker) /\ WF_vars(Deliver) /\ WF_vars(Resync)
            /\ WF_vars(FinishNamespace) /\ SF_vars(uninstalling /\ DeleteNamespace)
FairSpec == Spec /\ Fairness

(***************************************************************************)
(* Properties.                                                             *)
(***************************************************************************)
TypeOK ==
    /\ namespace \in {"absent", "active", "terminating"}
    /\ live \subseteq Parts /\ cached \subseteq Parts /\ dirty \subseteq Parts
    /\ namespace = "absent" => live \cap InNamespace = {}
    /\ pc \in {"idle", "namespace", "annotate", "check", "binding", "placement"}
    /\ {uninstalling, queued, fresh} \subseteq BOOLEAN
    /\ churn \in 0..MaxChurn /\ faults \in 0..MaxFaults

\* globalset_controller.go:147, "to prevent the namespace can not be deleted": an uninstallation that
\* goes on deleting the namespace comes to an end; and unless there is one, whoever has the namespace
\* ends up with the binding and the placement in it.
Settled ==
    /\ uninstalling => namespace = "absent"
    /\ namespace = "active" => InNamespace \subseteq live
EventuallySettled == <>[]Settled
=============================================================================
