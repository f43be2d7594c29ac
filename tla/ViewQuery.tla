------------------------------ MODULE ViewQuery ------------------------------
(***************************************************************************)
(* A ManagedClusterView: the agent (pkg/klusterlet/view) looks up the      *)
(* object that the scope names on the managed cluster and writes it into   *)
(* the status, at most once per interval, where the interval is counted    *)
(* from the last change of the condition Processing.                       *)
(*                                                                         *)
(* A scope names a kind, directly or by one of its aliases ("secret",      *)
(* "secrets.v1."), and an object.  Kinds are installed and removed while   *)
(* the agent runs; its RESTMapper (pkg/utils/rest) discovers them anew     *)
(* when it does not know one.                                              *)
(***************************************************************************)
EXTENDS Naturals

CONSTANTS
    Kinds,      \* kinds of resources
    Secrets,    \* the kind whose content is never shown
    Aliases,    \* aliases of kinds
    KindOf,     \* the kind of each alias and of each kind
    Values,     \* what an object may contain
    Absent,     \* no object, no result
    NoScope,    \* a scope without a name or a type
    MaxChurn,   \* bound: changes of the cluster and of the scope
    MaxFaults   \* bound: failed calls and restarts

\* What is assumed of the constants; a module that instantiates this one assumes it.
KindsAssumption ==
    /\ Secrets \in Kinds /\ NoScope \notin Kinds \cup Aliases /\ Absent \notin Values
    /\ \A s \in Kinds \cup Aliases : KindOf[s] \in Kinds

Scopes == Kinds \cup Aliases \cup {NoScope}

VARIABLES
    objects,             \* the object that scopes name, of each kind
    installed, known,    \* the kinds that the cluster has, and that the RESTMapper knows
    scope, status,       \* the view in the hub
    seen, lag,           \* its copy in the agent's cache
    queued, pc, copy, fresh, \* the agent
    churn, faults        \* bounded counters

viewVars == <<scope, status, seen, lag>>
agentVars == <<queued, pc, copy, fresh>>
clusterVars == <<objects, installed>>
vars == <<viewVars, agentVars, clusterVars, known, churn, faults>>

NoStatus == [processing |-> "none", recent |-> FALSE, result |-> Absent, of |-> NoScope]
Statuses == [processing : {"none", "True", "False"}, recent : BOOLEAN,
             result : Values \cup {Absent}, of : Kinds \cup {NoScope}]
View == [scope |-> scope, status |-> status]

Init ==
    /\ objects \in [Kinds -> Values \cup {Absent}]
    /\ installed \in {Kinds, {Secrets}} /\ known = {}
    /\ \A k \in Kinds \ installed : objects[k] = Absent
    /\ scope \in Scopes /\ status = NoStatus
    /\ seen = View /\ lag = FALSE
    /\ queued = TRUE /\ pc = "idle" /\ copy = View /\ fresh = TRUE
    /\ churn = 0 /\ faults = 0

\* The cluster changes; or the user changes the scope, which is an event.
OthersChange ==
    /\ churn < MaxChurn
    /\ churn' = churn + 1
    /\ \/ /\ \E k \in installed, v \in Values \cup {Absent} :
                v # objects[k] /\ objects' = [objects EXCEPT ![k] = v]
          /\ UNCHANGED <<installed, scope, lag, fresh>>
       \/ /\ \E k \in Kinds :
                \/ k \notin installed /\ installed' = installed \cup {k} /\ UNCHANGED objects
                \/ /\ k \in installed \ {Secrets}
                   /\ installed' = installed \ {k} /\ objects' = [objects EXCEPT ![k] = Absent]
          /\ UNCHANGED <<scope, lag, fresh>>
       \/ /\ scope' \in Scopes \ {scope}
          /\ lag' = TRUE /\ fresh' = FALSE
          /\ UNCHANGED clusterVars
    /\ UNCHANGED <<status, seen, queued, pc, copy, known, faults>>

Deliver ==
    /\ lag
    /\ lag' = FALSE
    /\ seen' = View
    /\ queued' = TRUE
    /\ UNCHANGED <<scope, status, pc, copy, fresh, clusterVars, known, churn, faults>>

\* The interval since the condition last changed is over.
Settled(st) == [st EXCEPT !.recent = FALSE]

IntervalEnds ==
    /\ status.recent
    /\ status' = Settled(status)
    /\ seen' = [seen EXCEPT !.status = Settled(@)]
    /\ copy' = [copy EXCEPT !.status = Settled(@)]
    /\ UNCHANGED <<scope, lag, queued, pc, fresh, clusterVars, known, churn, faults>>

\* RequeueAfter: the view is looked at again.
Requeue ==
    /\ pc = "idle" /\ ~queued
    /\ queued' = TRUE
    /\ UNCHANGED <<viewVars, pc, copy, fresh, clusterVars, known, churn, faults>>

\* Reconcile: nothing is done within the interval.
Start ==
    /\ pc = "idle" /\ queued
    /\ queued' = FALSE
    /\ copy' = seen /\ fresh' = ~lag
    /\ pc' = IF seen.status.recent THEN "idle" ELSE "query"
    /\ UNCHANGED <<viewVars, clusterVars, known, churn, faults>>

\* SetStatusCondition, with the result of the query if it has one.
Failed(st) == [st EXCEPT !.processing = "False", !.recent = @ \/ st.processing # "False"]
Found(st, kind) == [processing |-> "True", recent |-> st.recent \/ st.processing # "True",
                    result |-> objects[kind], of |-> kind]

\* queryResource: the content of secrets is not returned, whatever they are called.
Hidden(s) == KindOf[s] = Secrets

\* Mutant: the kinds are discovered once.
DiscoverOnce(s) == IF known = {} THEN installed ELSE known

\* ReloadMapper: when a kind is not known, all are discovered anew.
Reloaded(s) == IF s = NoScope \/ KindOf[s] \in known THEN known ELSE installed

Mapped(s) == s # NoScope /\ KindOf[s] \in Reloaded(s)

Readable(s) == Mapped(s) /\ ~Hidden(s) /\ KindOf[s] \in installed /\ objects[KindOf[s]] # Absent

QueryResource ==
    /\ pc = "query"
    /\ pc' = "report"
    /\ known' = Reloaded(copy.scope)
    /\ \/ /\ Readable(copy.scope)
          /\ copy' = [copy EXCEPT !.status = Found(@, KindOf[copy.scope])]
          /\ UNCHANGED faults
       \/ /\ ~Readable(copy.scope)
          /\ copy' = [copy EXCEPT !.status = Failed(@)]
          /\ UNCHANGED faults
       \/ /\ faults < MaxFaults
          /\ faults' = faults + 1
          /\ copy' = [copy EXCEPT !.status = Failed(@)]
    /\ UNCHANGED <<viewVars, queued, fresh, clusterVars, churn>>

\* Status().Update with the resourceVersion of the copy.
Refused == ~fresh

Report ==
    /\ pc = "report"
    /\ pc' = "idle"
    /\ \/ /\ ~Refused
          /\ status' = copy.status
          /\ lag' = (lag \/ status' # status)
          /\ UNCHANGED <<queued, faults>>
       \/ /\ Refused
          /\ queued' = TRUE
          /\ UNCHANGED <<status, lag, faults>>
       \/ /\ faults < MaxFaults
          /\ faults' = faults + 1
          /\ queued' = TRUE
          /\ UNCHANGED <<status, lag>>
    /\ UNCHANGED <<scope, seen, copy, fresh, clusterVars, known, churn>>

Restart ==
    /\ faults < MaxFaults
    /\ faults' = faults + 1
    /\ seen' = View /\ lag' = FALSE
    /\ queued' = TRUE /\ pc' = "idle" /\ known' = {}
    /\ UNCHANGED <<scope, status, copy, fresh, clusterVars, churn>>

Agent == Start \/ QueryResource \/ Report

Next == OthersChange \/ Deliver \/ IntervalEnds \/ Requeue \/ Agent \/ Restart

Spec == Init /\ [][Next]_vars
FairSpec == Spec /\ WF_vars(Agent) /\ WF_vars(Deliver) /\ WF_vars(Requeue) /\ WF_vars(IntervalEnds)

(***************************************************************************)
(* Properties.                                                             *)
(***************************************************************************)

\* Types; the mapper never knows more than has been installed at some time.
TypeOK ==
    /\ objects \in [Kinds -> Values \cup {Absent}]
    /\ installed \subseteq Kinds /\ known \subseteq Kinds
    /\ scope \in Scopes /\ status \in Statuses
    /\ \A v \in {seen, copy} : v.scope \in Scopes /\ v.status \in Statuses
    /\ pc \in {"idle", "query", "report"} /\ {lag, queued, fresh} \subseteq BOOLEAN
    /\ (status.of = NoScope <=> status.result = Absent)
    /\ churn \in 0..MaxChurn /\ faults \in 0..MaxFaults

\* view_controller.go, "Do not return content of secrets": not by any alias, not after a change of the
\* scope, and not for a copy that is behind.
SecretsNotShown == status.of # Secrets

\* A result that is written is that of the scope the view then has.
WritesResult == status'.result # status.result => KindOf[scope] = status'.of
ResultOfScope == [][WritesResult]_vars

\* When changes end, the status tells what is there: the content, or that it cannot be shown.  A
\* result may stay from before, but then the condition is False.
Shown ==
    IF scope # NoScope /\ KindOf[scope] \in installed \ {Secrets} /\ objects[KindOf[scope]] # Absent
    THEN status.processing = "True" /\ status.result = objects[KindOf[scope]] /\ status.of = KindOf[scope]
    ELSE status.processing = "False"
EventuallyShown == <>[]Shown
=============================================================================
