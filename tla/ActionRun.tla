------------------------------ MODULE ActionRun ------------------------------
(***************************************************************************)
(* The life of one ManagedClusterAction: the agent applies it to the       *)
(* managed cluster (pkg/klusterlet/action, pkg/utils/rest) and reports in  *)
(* its status; the garbage collector of the hub (pkg/controllers/gc)       *)
(* deletes it 60 seconds after its condition Completed last changed,       *)
(* whether to True or to False.                                            *)
(*                                                                         *)
(* Agent and collector read the action from caches of their own (seen,     *)
(* hubSeen), which trail the API server.  The agent applies the action     *)
(* first and writes the status then, so that a lost Update or a restart    *)
(* has it applied again; what the second attempt finds decides what is     *)
(* reported.                                                               *)
(***************************************************************************)
EXTENDS Naturals

CONSTANTS
    MaxChurn,   \* bound: what others do to the object and to the action
    MaxFaults   \* bound: failed calls and restarts

ASSUME BoundsAssumption == MaxChurn \in Nat /\ MaxFaults \in Nat

VARIABLES
    type,                  \* the action's type
    action,                \* the action in the API server: its condition, and whether that is 60 seconds old
    seen, lag,             \* the agent's copy, and whether it trails
    queued, pc, copy, fresh, \* the agent: queue, next step, the action it works on
    identity,              \* whom the agent's client speaks for
    hubSeen, hubQueued,    \* the collector
    target,                \* the object on the managed cluster
    installed, known,      \* whether its kind is installed, and known to the RESTMapper
    performed,             \* whether the action has been applied
    churn, faults          \* bounded counters

actionVars == <<action, seen, lag>>
agentVars == <<queued, pc, copy, fresh, identity>>
hubVars == <<hubSeen, hubQueued>>
worldVars == <<type, target, installed>>
vars == <<actionVars, agentVars, hubVars, worldVars, known, performed, churn, faults>>

Types == {"Create", "Update", "Delete", "Invalid"}
Targets == {"absent", "other", "wanted"}
Gone == [condition |-> "gone", old |-> FALSE]
Actions == [condition : {"none", "False", "True"}, old : BOOLEAN] \cup {Gone}

TypeOK ==
    /\ type \in Types /\ target \in Targets
    /\ {action, seen, copy, hubSeen} \subseteq Actions
    /\ pc \in {"idle", "perform", "report"}
    /\ identity \in {"agent", "user"} /\ (pc # "perform" => identity = "agent")
    /\ {lag, queued, fresh, hubQueued, installed, known, performed} \subseteq BOOLEAN
    /\ churn \in 0..MaxChurn /\ faults \in 0..MaxFaults

Init ==
    /\ type \in Types
    /\ action = [condition |-> "none", old |-> FALSE]
    /\ seen = action /\ lag = FALSE /\ hubSeen = action /\ hubQueued = TRUE
    /\ queued = TRUE /\ pc = "idle" /\ copy = action /\ fresh = TRUE /\ identity = "agent"
    /\ installed \in BOOLEAN /\ target \in (IF installed THEN Targets ELSE {"absent"})
    /\ known \in {FALSE, installed} /\ performed = FALSE
    /\ churn = 0 /\ faults = 0

(***************************************************************************)
(* Others, and the caches.                                                 *)
(***************************************************************************)
Aged(a) == [a EXCEPT !.old = a.condition \in {"True", "False"}]

\* 60 seconds pass.
Tick ==
    /\ action' = Aged(action) /\ seen' = Aged(seen) /\ copy' = Aged(copy) /\ hubSeen' = Aged(hubSeen)
    /\ UNCHANGED <<lag, queued, pc, fresh, identity, hubQueued, worldVars, known, performed, churn, faults>>

\* Somebody changes the object, installs its kind, or touches the action's metadata.
OthersChange ==
    /\ churn < MaxChurn
    /\ churn' = churn + 1
    /\ \/ /\ installed
          /\ target' \in Targets \ {target}
          /\ UNCHANGED <<action, lag, fresh, installed>>
       \/ /\ ~installed
          /\ installed' = TRUE
          /\ UNCHANGED <<action, lag, fresh, target>>
       \/ /\ action # Gone
          /\ lag' = TRUE /\ fresh' = FALSE
          /\ UNCHANGED <<action, target, installed>>
    /\ UNCHANGED <<type, seen, queued, pc, copy, identity, hubVars, known, performed, faults>>

Deliver ==
    /\ lag
    /\ lag' = FALSE
    /\ seen' = action
    /\ queued' = TRUE
    /\ UNCHANGED <<action, pc, copy, fresh, identity, hubVars, worldVars, known, performed, churn, faults>>

DeliverToHub ==
    /\ hubSeen # action
    /\ hubSeen' = action
    /\ hubQueued' = TRUE
    /\ UNCHANGED <<actionVars, agentVars, worldVars, known, performed, churn, faults>>

(***************************************************************************)
(* The agent.                                                              *)
(***************************************************************************)

\* With EnableImpersonation, and when the annotations name a user and groups.
Impersonate == identity' \in {"agent", "user"}

\* Reconcile reads the cache; a completed action is left alone.
Start ==
    /\ pc = "idle" /\ queued
    /\ queued' = FALSE
    /\ copy' = seen /\ fresh' = ~lag
    /\ IF seen = Gone \/ seen.condition = "True"
       THEN UNCHANGED <<pc, identity>>
       ELSE pc' = "perform" /\ Impersonate
    /\ UNCHANGED <<actionVars, hubVars, worldVars, known, performed, churn, faults>>

\* ReloadMapper: a kind that is not known is looked for again.
Mapped == known \/ installed

\* KubeControl: the object is created, patched, or deleted in the foreground, if there is a mapping.
CanCreate == Mapped /\ target = "absent"
CanDelete == Mapped /\ target # "absent"
CanUpdate == Mapped /\ target # "absent"

\* handleAction: which actions succeed and what they leave; an empty patch is a success, too.
Succeeds == \/ type = "Create" /\ CanCreate
            \/ type = "Delete" /\ CanDelete
            \/ type = "Update" /\ CanUpdate

Effect == IF type = "Delete" THEN "absent" ELSE "wanted"

\* SetStatusCondition: the time changes with the status only.
Condition(c) == [condition |-> c, old |-> copy.condition = c /\ copy.old]

\* Mutant: the client goes on speaking for the user.
KeepImpersonate == UNCHANGED identity

UnsetImpersonate == identity' = "agent"

Perform ==
    /\ pc = "perform"
    /\ pc' = "report"
    /\ known' = (known \/ (type # "Invalid" /\ installed))
    /\ UnsetImpersonate
    /\ \/ /\ Succeeds
          /\ target' = Effect
          /\ performed' = TRUE
          /\ copy' = Condition("True")
          /\ UNCHANGED faults
       \/ /\ ~Succeeds
          /\ copy' = Condition("False")
          /\ UNCHANGED <<target, performed, faults>>
       \/ /\ Succeeds /\ faults < MaxFaults  \* the call is refused, or its answer is lost
          /\ faults' = faults + 1
          /\ copy' = Condition("False")
          /\ \/ UNCHANGED <<target, performed>>
             \/ target' = Effect /\ performed' = TRUE
    /\ UNCHANGED <<actionVars, queued, fresh, hubVars, type, installed, churn>>

\* Mutant: the status is patched, whatever the action is by now.
GoneOnly == action = Gone

\* The resourceVersion of the copy is not the current one any more.
Refused == ~fresh \/ action = Gone

\* Mutant: the error is logged and not returned.
LogOnly == UNCHANGED queued

\* An error, a conflict among them, has the action queued again.
ReturnError == queued' = TRUE

\* Status().Update: when nothing changes it is no event.
Report ==
    /\ pc = "report"
    /\ pc' = "idle"
    /\ \/ /\ ~Refused
          /\ action' = copy
          /\ lag' = (lag \/ action # copy)
          /\ UNCHANGED <<queued, faults>>
       \/ /\ Refused
          /\ ReturnError
          /\ UNCHANGED <<action, lag, faults>>
       \/ /\ faults < MaxFaults
          /\ faults' = faults + 1
          /\ ReturnError
          /\ UNCHANGED <<action, lag>>
    /\ UNCHANGED <<seen, copy, fresh, identity, hubVars, worldVars, known, performed, churn>>

\* The agent dies anywhere and comes back with a new cache and a new mapper.
Restart ==
    /\ faults < MaxFaults
    /\ faults' = faults + 1
    /\ seen' = action /\ lag' = FALSE
    /\ queued' = TRUE /\ pc' = "idle" /\ identity' = "agent" /\ known' = FALSE
    /\ UNCHANGED <<action, copy, fresh, hubVars, worldVars, performed, churn>>

(***************************************************************************)
(* The collector.                                                          *)
(***************************************************************************)

\* It looks again a minute later as long as there is something to wait for; the Delete is by name.
CollectGarbage ==
    /\ hubQueued
    /\ IF hubSeen.condition \in {"True", "False"} /\ hubSeen.old
       THEN /\ action' = Gone
            /\ lag' = (lag \/ action # Gone) /\ fresh' = FALSE
            /\ hubQueued' = FALSE
       ELSE /\ hubQueued' = (hubSeen # Gone)
            /\ UNCHANGED <<action, lag, fresh>>
    /\ UNCHANGED <<seen, queued, pc, copy, identity, hubSeen, worldVars, known, performed, churn, faults>>

Agent == Start \/ Perform \/ Report

Next == Tick \/ OthersChange \/ Deliver \/ DeliverToHub \/ Agent \/ Restart \/ CollectGarbage

Spec == Init /\ [][Next]_vars
FairSpec == Spec /\ WF_vars(Agent) /\ WF_vars(Deliver) /\ WF_vars(DeliverToHub)
                 /\ WF_vars(CollectGarbage) /\ WF_vars(Tick)

(***************************************************************************)
(* Properties.                                                             *)
(***************************************************************************)

\* The status that the creator of the action observes.
status == CASE action = Gone -> "collected"
            [] action # Gone /\ action.condition = "none" -> "pending"
            [] action # Gone /\ action.condition = "False" -> "failed"
            [] action # Gone /\ action.condition = "True" -> "done"

Promise == INSTANCE ActionPromise

\* action_controller.go and garbagecollector_controller.go keep the promise of ActionPromise, although
\* they act on stale copies, apply the action again after a lost Update, and delete by name.
KeepsPromise == Promise!Spec

\* Every action is reported and then collected: none waits for ever, whatever its type.
EventuallyCollected == <>[](action = Gone)
=============================================================================
