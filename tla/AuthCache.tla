----------------------------- MODULE AuthCache -----------------------------
(***************************************************************************)
(* The cache of what every subject may see (pkg/cache, AuthCache): one for *)
(* ManagedClusters and one for ManagedClusterSets in the aggregated API    *)
(* server, one for the sets of viewers and one for the sets of admins in   *)
(* the hub controller.                                                     *)
(*                                                                         *)
(* A loop recomputes the records of all subjects from three informers:     *)
(* resources, ClusterRoles and ClusterRoleBindings.  A round is skipped    *)
(* when no reflector reports a newer resourceVersion than before the last  *)
(* round.  A reflector moves its resourceVersion when it has queued a      *)
(* change (received), the informer's indexer, which the listers read, gets *)
(* it later (indexed).                                                     *)
(*                                                                         *)
(* Users and groups have the same code and separate stores; a subject is   *)
(* either.  Every object is the set of what matters in it: a resource that *)
(* exists is {itself}, a role is the set of resource names its matching    *)
(* rules name (or {All} for a rule without names), a binding is the set of *)
(* its subjects; an object that does not exist is the empty set, which the *)
(* code treats as a role that names nothing and a binding of nobody.       *)
(***************************************************************************)
EXTENDS Naturals

CONSTANTS
    Subjects,
    Resources,    \* names of clusters or cluster sets
    Roles,
    Bindings,
    RoleOf,       \* RoleRef of each binding, which is immutable
    All,          \* stands for the names of a rule that has none
    MaxChurn      \* bound: changes made by users

Items == Resources \cup Roles \cup Bindings
Kinds == {"resources", "roles", "bindings"}

ASSUME ItemsAssumption ==
    /\ Resources \cap Roles = {}
    /\ Resources \cap Bindings = {}
    /\ Roles \cap Bindings = {}
    /\ RoleOf \in [Bindings -> Roles]
    /\ All \notin Resources
ASSUME BoundAssumption == MaxChurn \in Nat

VARIABLES
    received,   \* what the reflectors have received of every object
    indexed,    \* what the listers return
    moved,      \* kinds whose resourceVersion differs from that of lastState
    record,     \* user- and groupSubjectRecordStore; {} is no record
    known,      \* knownUsers and knownGroups
    pc,         \* the round: next step
    resources,  \* knownResources
    listed,     \* the bindings the round listed
    todo,       \* those whose role it has not looked up
    found,      \* newAllUsers and newAllGroups
    grants,     \* userToResources and groupToResources
    churn       \* bounded counter

informerVars == <<received, indexed>>
roundVars == <<resources, listed, todo, found, grants>>
vars == <<received, indexed, moved, record, known, pc, resources, listed, todo,
          found, grants, churn>>

KindOf(i) ==
    IF i \in Resources THEN "resources"
    ELSE IF i \in Roles THEN "roles"
    ELSE "bindings"

Values(i) ==
    IF i \in Resources THEN {{}, {i}}
    ELSE IF i \in Roles THEN (SUBSET Resources) \cup {{All}}
    ELSE SUBSET Subjects

Contents == SUBSET (Resources \cup {All} \cup Subjects)

TypeOK ==
    /\ received \in [Items -> Contents]
    /\ indexed \in [Items -> Contents]
    /\ \A i \in Items : received[i] \in Values(i) /\ indexed[i] \in Values(i)
    /\ moved \in SUBSET Kinds
    /\ record \in [Subjects -> SUBSET Resources]
    /\ known \in SUBSET Subjects
    /\ pc \in {"idle", "resources", "bindings", "roles"}
    /\ resources \in SUBSET Resources
    /\ listed \in [Bindings -> SUBSET Subjects]
    /\ todo \in SUBSET Bindings
    /\ found \in SUBSET Subjects
    /\ grants \in [Subjects -> SUBSET Resources]
    /\ churn \in 0..MaxChurn

Empty(S) == [x \in S |-> {}]

\* A process starts: its reflectors have listed, its indexers are empty, and
\* nothing waits for them to be filled.
Init ==
    /\ received \in [Items -> Contents]
    /\ \A i \in Items : received[i] \in Values(i)
    /\ indexed = Empty(Items)
    /\ moved = Kinds
    /\ record = Empty(Subjects)
    /\ known = {}
    /\ pc = "idle"
    /\ resources = {}
    /\ listed = Empty(Bindings)
    /\ todo = {}
    /\ found = {}
    /\ grants = Empty(Subjects)
    /\ churn = 0

-----------------------------------------------------------------------------
\* An object changes, and its reflector queues the change and moves on.
Receive(i, v) ==
    /\ churn < MaxChurn
    /\ churn' = churn + 1
    /\ v # received[i]
    /\ received' = [received EXCEPT ![i] = v]
    /\ moved' = moved \cup {KindOf(i)}
    /\ UNCHANGED <<indexed, record, known, pc, roundVars>>

\* The API server sends a reflector a newer resourceVersion without a change.
Bookmark(kind) ==
    /\ moved' = moved \cup {kind}
    /\ UNCHANGED <<informerVars, record, known, pc, roundVars, churn>>

\* The informer pops what is queued for an object into its indexer.
Index(i) ==
    /\ indexed[i] # received[i]
    /\ indexed' = [indexed EXCEPT ![i] = received[i]]
    /\ UNCHANGED <<received, moved, record, known, pc, roundVars, churn>>

-----------------------------------------------------------------------------
(***************************************************************************)
(* A round of synchronize.  The listers do not fail, so that a round that  *)
(* was not skipped always ends and makes the state it began with lastState.*)
(***************************************************************************)
SkipSynchronize == moved = {}

BeginRound ==
    /\ pc = "idle"
    /\ ~SkipSynchronize
    /\ moved' = {}
    /\ pc' = "resources"
    /\ UNCHANGED <<informerVars, record, known, roundVars, churn>>

SyncResources ==
    /\ pc = "resources"
    /\ resources' = {r \in Resources : indexed[r] # {}}
    /\ pc' = "bindings"
    /\ UNCHANGED <<informerVars, moved, record, known, listed, todo, found, grants, churn>>

ListBindings ==
    /\ pc = "bindings"
    /\ listed' = [b \in Bindings |-> indexed[b]]
    /\ todo' = Bindings
    /\ found' = {}
    /\ grants' = Empty(Subjects)
    /\ pc' = "roles"
    /\ UNCHANGED <<informerVars, moved, record, known, resources, churn>>

\* The names a role gives access to, the existing ones for a role on all.
RoleNames(v, existing) == IF v = {All} THEN existing ELSE v

\* Mutant: a rule without names is recorded as if it had one.
GetRoleVerbatim(b) ==
    /\ pc = "roles"
    /\ b \in todo
    /\ todo' = todo \ {b}
    /\ found' = found \cup listed[b]
    /\ grants' = [u \in Subjects |->
          IF u \in listed[b] THEN grants[u] \cup indexed[RoleOf[b]] ELSE grants[u]]
    /\ UNCHANGED <<informerVars, moved, record, known, pc, resources, listed, churn>>

\* The role of a binding is looked up, and its names given to the subjects.
GetRole(b) ==
    /\ pc = "roles"
    /\ b \in todo
    /\ todo' = todo \ {b}
    /\ LET names == RoleNames(indexed[RoleOf[b]], resources)
       IN IF names = {}
          THEN UNCHANGED <<found, grants>>
          ELSE /\ found' = found \cup listed[b]
               /\ grants' = [u \in Subjects |->
                    IF u \in listed[b] THEN grants[u] \cup (names \cap resources)
                                       ELSE grants[u]]
    /\ UNCHANGED <<informerVars, moved, record, known, pc, resources, listed, churn>>

\* Mutant: no record is ever deleted.
WriteWithoutDeleting ==
    /\ pc = "roles"
    /\ todo = {}
    /\ record' = [u \in Subjects |-> IF grants[u] # {} THEN grants[u] ELSE record[u]]
    /\ known' = known \cup found
    /\ pc' = "idle"
    /\ UNCHANGED <<informerVars, moved, roundVars, churn>>

\* Mutant: only who has resources is known to the next round.
WriteKnowingLess ==
    /\ pc = "roles"
    /\ todo = {}
    /\ record' = [u \in Subjects |->
          IF grants[u] # {} THEN grants[u]
          ELSE IF u \in known \ found THEN {}
          ELSE record[u]]
    /\ known' = {u \in Subjects : grants[u] # {}}
    /\ pc' = "idle"
    /\ UNCHANGED <<informerVars, moved, roundVars, churn>>

\* updateResourcesToSubject for who has resources, deleteSubject for who is no
\* longer found.
WriteRecords ==
    /\ pc = "roles"
    /\ todo = {}
    /\ record' = [u \in Subjects |->
          IF grants[u] # {} THEN grants[u]
          ELSE IF u \in known \ found THEN {}
          ELSE record[u]]
    /\ known' = found
    /\ pc' = "idle"
    /\ UNCHANGED <<informerVars, moved, roundVars, churn>>

Round ==
    \/ BeginRound \/ SyncResources \/ ListBindings
    \/ \E b \in Bindings : GetRole(b)
    \/ WriteRecords

Informers ==
    \/ \E i \in Items : \E v \in Values(i) : Receive(i, v)
    \/ \E kind \in Kinds : Bookmark(kind)
    \/ \E i \in Items : Index(i)

Next == Round \/ Informers

Spec == Init /\ [][Next]_vars

\* The loop and the informers are goroutines; reflectors ask for bookmarks and
\* the API server sends them from time to time.
FairSpec ==
    /\ Spec
    /\ WF_vars(Round)
    /\ \A i \in Items : WF_vars(Index(i))
    /\ \A kind \in Kinds : WF_vars(Bookmark(kind))

-----------------------------------------------------------------------------
(***************************************************************************)
(* Properties.                                                             *)
(***************************************************************************)
Existing == {r \in Resources : indexed[r] # {}}
NamesOf(b) == RoleNames(indexed[RoleOf[b]], Existing)

\* What subject u can access, and whether a binding gives it any name.
Access(u) == UNION {NamesOf(b) \cap Existing : b \in {x \in Bindings : u \in indexed[x]}}
Found(u) == \E b \in Bindings : u \in indexed[b] /\ NamesOf(b) # {}

(***************************************************************************)
(* Every record belongs to a known subject: the round that no longer finds *)
(* a subject deletes its record only if the previous round knew it, and    *)
(* nothing else ever deletes one.                                          *)
(***************************************************************************)
KnownCoverRecords == \A u \in Subjects : record[u] # {} => u \in known

(***************************************************************************)
(* Whatever a round read in the middle of changes, once they stop and the  *)
(* reflectors move on, who can access something has a record of exactly    *)
(* that, and who is found in no binding has none.                          *)
(***************************************************************************)
EventuallyListed ==
    <>[](\A u \in Subjects :
            /\ Access(u) # {} => record[u] = Access(u)
            /\ ~Found(u) => record[u] = {})
=============================================================================
