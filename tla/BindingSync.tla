---------------------------- MODULE BindingSync ----------------------------
(***************************************************************************)
(* The loops that turn permissions on cluster sets into RBAC bindings      *)
(* (pkg/controllers/clusterset/syncclusterrolebinding and syncrolebinding).*)
(*                                                                         *)
(* Every five seconds a round reads the cluster set mappers and the        *)
(* records of an AuthCache, gives every object of a set (a cluster, or a   *)
(* namespace) a binding for the users of its sets, and deletes the         *)
(* bindings that no user is left for.  One loop does this for clusters and *)
(* one for namespaces, each for the role admin, with the exclusive sets,   *)
(* and for the role view, with the global set too.  A behaviour is one of  *)
(* these four.                                                             *)
(*                                                                         *)
(* The mappers and the records are written by other goroutines at any time *)
(* and are read set by set, in part outside their locks.  Bindings are     *)
(* read from an informer (cache) and written to the API server (api).      *)
(***************************************************************************)
EXTENDS Naturals, FiniteSets

CONSTANTS
    Sets,             \* the cluster sets of the mappers
    GlobalSet,        \* a binding of an object of this set alone is not labelled
    Objects,          \* clusters, or namespaces
    Users,
    NoLabel, NoName,  \* no label with a set's name; the label with an empty one
    ClusterRoles,     \* the roles of the ClusterRoleBinding loop
    NamespaceRoles,   \* the roles of the RoleBinding loop
    MaxChurn,         \* bound: changes of a mapper or a record
    MaxFaults         \* bound: failed API calls and restarts

\* What is assumed of the constants; a module that instantiates this one assumes it.
LabelsAssumption == NoLabel \notin Sets /\ NoName \notin Sets /\ NoName # NoLabel
ConstantsAssumption ==
    /\ ClusterRoles \subseteq {"admin", "view"}
    /\ NamespaceRoles \subseteq {"admin", "view"}
    /\ MaxChurn \in Nat
    /\ MaxFaults \in Nat

VARIABLES
    kind, role,   \* the loop and its role, which do not change
    mapper,       \* the objects of each set
    subjects,     \* the users with a record that names the set
    api, cache,   \* the bindings at the API server, and in the informer
    stale,        \* objects whose binding was written and is not yet in cache
    pc,           \* the round: next step
    toRead,       \* sets of the mappers the round has not read
    union, users, \* what it has read
    toApply,      \* objects whose binding it has not applied
    toDelete,     \* bindings it has listed and not deleted
    churn, faults \* bounded counters

loopVars == <<kind, role>>
readVars == <<toRead, union, users>>
vars == <<kind, role, mapper, subjects, api, cache, stale, pc, toRead, union, users,
          toApply, toDelete, churn, faults>>

\* A binding has its users and, possibly, the label with a set's name.
NoBinding == [users |-> {}, label |-> NoLabel]
Binding == [users : SUBSET Users, label : (Sets \ {GlobalSet}) \cup {NoLabel, NoName}]

\* The sets that give the role.
RoleSets == IF role = "view" THEN Sets ELSE Sets \ {GlobalSet}

TypeOK ==
    /\ kind \in {"cluster", "namespace"}
    /\ role \in {"admin", "view"}
    /\ mapper \in [Sets -> SUBSET Objects]
    /\ subjects \in [Sets -> SUBSET Users]
    /\ api \in [Objects -> Binding]
    /\ cache \in [Objects -> Binding]
    /\ stale \in SUBSET Objects
    /\ \A o \in Objects \ stale : cache[o] = api[o]
    /\ pc \in {"idle", "union", "subjects", "apply", "delete"}
    /\ toRead \in SUBSET Sets
    /\ union \in [Sets -> SUBSET Objects]
    /\ users \in [Sets -> SUBSET Users]
    /\ toApply \in SUBSET Objects
    /\ toDelete \in SUBSET Objects
    /\ churn \in 0..MaxChurn
    /\ faults \in 0..MaxFaults

Init ==
    /\ \/ kind = "cluster" /\ role \in ClusterRoles
       \/ kind = "namespace" /\ role \in NamespaceRoles
    /\ mapper \in [Sets -> SUBSET Objects]
    /\ subjects \in [Sets -> SUBSET Users]
    /\ api = [o \in Objects |-> NoBinding]
    /\ cache = api
    /\ stale = {}
    /\ pc = "idle"
    /\ toRead = {}
    /\ union = [s \in Sets |-> {}]
    /\ users = [s \in Sets |-> {}]
    /\ toApply = {}
    /\ toDelete = {}
    /\ churn = 0
    /\ faults = 0

-----------------------------------------------------------------------------
(***************************************************************************)
(* The ClusterSet controller and the AuthCache.                            *)
(***************************************************************************)
UpdateMapper(s, objects) ==
    /\ churn < MaxChurn
    /\ churn' = churn + 1
    /\ objects # mapper[s]
    /\ mapper' = [mapper EXCEPT ![s] = objects]
    /\ UNCHANGED <<subjects, api, cache, stale, pc, readVars, toApply, toDelete, faults>>

UpdateSubjects(s, us) ==
    /\ churn < MaxChurn
    /\ churn' = churn + 1
    /\ us # subjects[s]
    /\ subjects' = [subjects EXCEPT ![s] = us]
    /\ UNCHANGED <<mapper, api, cache, stale, pc, readVars, toApply, toDelete, faults>>

\* The informer catches up with the binding of o.
Deliver(o) ==
    /\ o \in stale
    /\ cache' = [cache EXCEPT ![o] = api[o]]
    /\ stale' = stale \ {o}
    /\ UNCHANGED <<mapper, subjects, api, pc, readVars, toApply, toDelete, churn, faults>>

-----------------------------------------------------------------------------
(***************************************************************************)
(* A round.  The RoleBinding loop reads the mappers first, the             *)
(* ClusterRoleBinding loop the records.                                    *)
(***************************************************************************)
Begin ==
    /\ pc = "idle"
    /\ pc' = IF kind = "cluster" THEN "subjects" ELSE "union"
    /\ toRead' = RoleSets
    /\ UNCHANGED <<mapper, subjects, api, cache, stale, union, users, toApply, toDelete, churn, faults>>

\* GenerateObjectSubjectMap: the users of every object.
ObjectToSubject(objects, us, o) == UNION {us[s] : s \in {x \in RoleSets : o \in objects[x]}}

\* Mutant: what is only in the global set is not bound.
GenerateExclusive(objects, us) ==
    /\ pc' = "apply"
    /\ toApply' = {o \in Objects : \E s \in RoleSets \ {GlobalSet} : o \in objects[s] /\ us[s] # {}}

\* Both inputs read, the objects that need a binding are known.
Generate(objects, us) ==
    /\ pc' = "apply"
    /\ toApply' = {o \in Objects : ObjectToSubject(objects, us, o) # {}}

\* UnionObjectsInClusterSet.
ReadSet(s) ==
    /\ pc = "union"
    /\ s \in toRead
    /\ toRead' = toRead \ {s}
    /\ union' = [union EXCEPT ![s] = mapper[s]]
    /\ IF toRead # {s} THEN UNCHANGED <<pc, toApply>>
       ELSE IF kind = "cluster" THEN Generate(union', users)
       ELSE pc' = "subjects" /\ UNCHANGED toApply
    /\ UNCHANGED <<mapper, subjects, api, cache, stale, users, toDelete, churn, faults>>

\* GenerateClustersetSubjects.
ReadSubjects ==
    /\ pc = "subjects"
    /\ users' = subjects
    /\ IF kind = "cluster" THEN pc' = "union" /\ UNCHANGED toApply
                          ELSE Generate(union, users')
    /\ UNCHANGED <<mapper, subjects, api, cache, stale, toRead, union, toDelete, churn, faults>>

\* GetObjectClusterset: any set that maps the object, in what the round has
\* read or, where the union is no copy, by now; the empty name if none does by now.
ObjectClusterset(o) ==
    {s \in RoleSets : o \in union[s] \cup mapper[s]}
        \cup (IF \E s \in RoleSets : o \in mapper[s] THEN {} ELSE {NoName})

\* Mutant: the label names the global set too.
MergeAnyLabel(old, name) == name

\* The label is added or replaced; the global set gives none and removes none.
MergeLabel(old, name) == IF name = GlobalSet THEN old ELSE name

\* ApplyRoleBinding and ApplyClusterRoleBinding: create the binding if the
\* informer does not have it, update it if it differs.  Either is refused when
\* the informer's copy is not the current one.
ApplyBinding(o) ==
    /\ pc = "apply"
    /\ o \in toApply
    /\ toApply' = toApply \ {o}
    /\ \E name \in ObjectClusterset(o) :
          LET required == [users |-> ObjectToSubject(union, users, o),
                           label |-> MergeLabel(cache[o].label, name)]
          IN IF \/ required = cache[o]
                \/ o \in stale /\ {cache[o], api[o]} # {NoBinding}
             THEN UNCHANGED <<api, stale>>
             ELSE api' = [api EXCEPT ![o] = required] /\ stale' = stale \cup {o}
    /\ UNCHANGED <<mapper, subjects, cache, pc, readVars, toDelete, churn, faults>>

\* The bindings the selector lists: ClusterRoleBindings by the role's label,
\* which every one has, RoleBindings by the label with the set's name.
Listed == {o \in Objects : cache[o] # NoBinding /\ (kind = "cluster" \/ cache[o].label # NoLabel)}

ListBindings ==
    /\ pc = "apply"
    /\ toApply = {}
    /\ toDelete' = {o \in Listed : ObjectToSubject(union, users, o) = {}}
    /\ pc' = "delete"
    /\ UNCHANGED <<mapper, subjects, api, cache, stale, readVars, toApply, churn, faults>>

DeleteBinding(o) ==
    /\ pc = "delete"
    /\ o \in toDelete
    /\ toDelete' = toDelete \ {o}
    /\ api' = [api EXCEPT ![o] = NoBinding]
    /\ stale' = IF api[o] = NoBinding THEN stale ELSE stale \cup {o}
    /\ UNCHANGED <<mapper, subjects, cache, pc, readVars, toApply, churn, faults>>

EndRound ==
    /\ pc = "delete"
    /\ toDelete = {}
    /\ pc' = "idle"
    /\ UNCHANGED <<mapper, subjects, api, cache, stale, readVars, toApply, toDelete, churn, faults>>

-----------------------------------------------------------------------------
Fault == faults < MaxFaults /\ faults' = faults + 1

\* A write fails; the round goes on with the other objects.
WriteFails ==
    /\ Fault
    /\ \/ /\ pc = "apply"
          /\ \E o \in toApply : toApply' = toApply \ {o}
          /\ UNCHANGED toDelete
       \/ /\ pc = "delete"
          /\ \E o \in toDelete : toDelete' = toDelete \ {o}
          /\ UNCHANGED toApply
    /\ UNCHANGED <<mapper, subjects, api, cache, stale, pc, readVars, churn>>

\* The manager restarts: the loops wait for the bindings, and not for the
\* mappers and the records, which are empty.
Restart ==
    /\ Fault
    /\ mapper' = [s \in Sets |-> {}]
    /\ subjects' = [s \in Sets |-> {}]
    /\ cache' = api
    /\ stale' = {}
    /\ pc' = "idle"
    /\ toRead' = {}
    /\ toApply' = {}
    /\ toDelete' = {}
    /\ UNCHANGED <<api, union, users, churn>>

-----------------------------------------------------------------------------
Round ==
    \/ Begin
    \/ \E s \in Sets : ReadSet(s)
    \/ ReadSubjects
    \/ \E o \in Objects : ApplyBinding(o)
    \/ ListBindings
    \/ \E o \in Objects : DeleteBinding(o)
    \/ EndRound

Environment ==
    \/ \E s \in Sets, objects \in SUBSET Objects : UpdateMapper(s, objects)
    \/ \E s \in Sets, us \in SUBSET Users : UpdateSubjects(s, us)
    \/ \E o \in Objects : Deliver(o)

Next == (Round \/ Environment \/ WriteFails \/ Restart) /\ UNCHANGED loopVars

Spec == Init /\ [][Next]_vars

\* The loop and the informer are goroutines.
FairSpec ==
    /\ Spec
    /\ WF_vars(Round /\ UNCHANGED loopVars)
    /\ \A o \in Objects : WF_vars(Deliver(o) /\ UNCHANGED loopVars)

-----------------------------------------------------------------------------
(***************************************************************************)
(* Once the mappers, the records and the failures come to rest, the users  *)
(* bound to an object are those of the sets it is in: whatever the rounds  *)
(* read halfway through a change, applied from a stale informer or wrote   *)
(* after a restart, no binding is missing and none is left.                *)
(* syncrolebinding_controller.go:67 "sycn the rolebinding in namespace     *)
(* which in r.clustersetToNamespace and r.clustersetToClusters", :106      *)
(* "Delete rolebinding".                                                   *)
(***************************************************************************)
Entitled(o) == ObjectToSubject(mapper, subjects, o)

EventuallyBound == <>[](\A o \in Objects : api[o].users = Entitled(o))
=============================================================================
