---------------------------- MODULE ClusterClaims ----------------------------
(***************************************************************************)
(* The agent's ClusterClaim controller (pkg/klusterlet/clusterclaim): it   *)
(* keeps claims about the cluster it runs on, and one claim per label of   *)
(* the ManagedClusterInfo.  Both kinds go through syncClaims: get the      *)
(* expected claims, create or update them one by one, then list what is    *)
(* there from the informer's cache and delete what is not expected.        *)
(*                                                                         *)
(* What is expected is found out anew in every round by calls that may     *)
(* fail; some failures end the round, others look like a different cluster *)
(* (an outage, see ClusterIdentity).  Any event of a claim, a node or the  *)
(* info starts a round.                                                    *)
(***************************************************************************)
EXTENDS ClusterIdentity, Naturals, Sequences

CONSTANTS
    Clusters,      \* the facts of the clusters to consider
    NodeLists,     \* the sets of nodes a cluster may have
    LabelSets,     \* the labels the ManagedClusterInfo may have: sets of [key, value]
    DnsPart,       \* a part of a label's key, in lower case and with "-" for "_"
    InvalidParts,  \* the parts no name of a claim may have
    Outages,       \* the sets of calls that may be lost in one round
    MaxChurn,      \* bound: changes of nodes, labels and versions
    MaxFaults      \* bound: outages and failed calls

VARIABLES
    facts, nodes, labels,   \* the cluster and the labels of its info; an info not found is one without labels
    syncLabels,             \* enableSyncLabelsToClaim, a flag of the agent
    claims,                 \* the ClusterClaims in the API server
    cached,                 \* the name and kind of the claims in the informer's cache
    events,                 \* whether the informer has yet to see a change
    queued, pc,             \* the controller: an entry in its queue, where it is
    expected,               \* and the claims it expects
    churn, faults           \* bounded counters

worldVars == <<facts, nodes, labels, syncLabels>>
vars == <<facts, nodes, labels, syncLabels, claims, cached, events, queued, pc, expected, churn, faults>>

Names(S) == {c.name : c \in S}
Of(S, name) == {c \in S : c.name = name}
ValuesOf(S, name) == {c.value : c \in Of(S, name)}
Kinds(S) == {<<c.name, c.kind>> : c \in S}

(***************************************************************************)
(* Claims from labels.                                                     *)
(***************************************************************************)
\* A key is one or two parts, which "/" joins, of parts that "." joins.
InternalLabels == {<<<<"clusterID">>>>, <<<<"cloud">>>>, <<<<"vendor">>>>, <<<<"managed-by">>>>,
                   <<<<"openshiftVersion">>>>, <<<<"microshiftVersion">>>>}

PartsOf(key) == UNION {{segment[i] : i \in DOMAIN segment} : segment \in {key[i] : i \in DOMAIN key}}

\* The domain is looked for before the key is converted, and in lower case only.
IsInternal(key) == key \in InternalLabels \/ OCM \in PartsOf(key)

\* "aaa/bbb" becomes "bbb.aaa".
ClaimName(key) ==
    LET segments == [i \in DOMAIN key |-> [j \in DOMAIN key[i] |-> DnsPart[key[i][j]]]]
    IN  IF Len(key) = 2 THEN segments[2] \o segments[1] ELSE segments[1]

IsValid(key) == \A part \in PartsOf(key) : DnsPart[part] \notin InvalidParts

\* Mutant: labels without a value get a claim, too.
LabelClaimsOfAll(ls) ==
    {[name |-> ClaimName(l.key), value |-> l.value, kind |-> "customized"] :
        l \in {l \in ls : ~IsInternal(l.key) /\ IsValid(l.key)}}

\* The claims of the labels; two labels may have one name, and so may a label and a claim of the cluster.
LabelClaims(ls) ==
    {[name |-> ClaimName(l.key), value |-> l.value, kind |-> "customized"] :
        l \in {l \in ls : ~IsInternal(l.key) /\ IsValid(l.key) /\ l.value # ""}}

\* One claim per name: the one that is written last, in the order of a map.
Rivals(S) == {c \in S : Of(S, c.name) # {c}}
Winners(S) == {W \in {S \ L : L \in SUBSET Rivals(S)} : \A n \in Names(S) : \E c \in W : Of(W, n) = {c}}

\* What is assumed of the constants; a module that instantiates this one assumes it.
FactsAssumption == Clusters \subseteq Facts /\ \A f \in Clusters : NotEmpty(f)

(***************************************************************************)
(* The cluster.                                                            *)
(***************************************************************************)
Init ==
    /\ facts \in Clusters
    /\ nodes \in NodeLists
    /\ labels \in LabelSets /\ syncLabels \in BOOLEAN
    /\ claims = {} /\ cached = {} /\ events = FALSE
    /\ queued = TRUE /\ pc = "idle" /\ expected = {}
    /\ churn = 0 /\ faults = 0

\* Every change of the world is an event, too.
WorldChanges ==
    /\ churn < MaxChurn
    /\ churn' = churn + 1
    /\ \/ /\ nodes' \in NodeLists \ {nodes}
          /\ UNCHANGED <<facts, labels>>
       \/ /\ labels' \in LabelSets \ {labels}
          /\ UNCHANGED <<facts, nodes>>
       \/ /\ facts' = [facts EXCEPT !.kube = "upgraded",
                                    !.version = IF @ = None THEN @ ELSE "upgraded"]
          /\ facts' # facts
          /\ UNCHANGED <<nodes, labels>>
    /\ queued' = TRUE
    /\ UNCHANGED <<syncLabels, claims, cached, events, pc, expected, faults>>

\* The status of a node is written every few minutes.
NodeEvent ==
    /\ queued' = TRUE
    /\ UNCHANGED <<worldVars, claims, cached, events, pc, expected, churn, faults>>

\* The informer sees the claims, and tells the controller.
Deliver ==
    /\ events
    /\ events' = FALSE
    /\ cached' = Kinds(claims)
    /\ queued' = TRUE
    /\ UNCHANGED <<worldVars, claims, pc, expected, churn, faults>>

(***************************************************************************)
(* The controller.                                                         *)
(***************************************************************************)

\* A round that ends with an error is queued again.
Fails ==
    /\ faults < MaxFaults
    /\ faults' = faults + 1
    /\ pc' = "idle"
    /\ queued' = TRUE

GetExpected ==
    /\ pc = "idle" /\ queued
    /\ queued' = FALSE
    /\ pc' = "write"
    /\ \/ /\ expected' = ExpectedClaims(facts, {}, TRUE, ClusterSchedulable(nodes))
          /\ UNCHANGED faults
       \/ /\ faults < MaxFaults
          /\ faults' = faults + 1
          /\ \E lost \in Outages \cup {{}}, kubeSystem \in BOOLEAN :
                expected' = ExpectedClaims(facts, lost, kubeSystem, ClusterSchedulable(nodes))
    /\ UNCHANGED <<worldVars, claims, cached, events, churn>>

GetExpectedFails ==
    /\ pc = "idle" /\ queued
    /\ Fails
    /\ UNCHANGED <<worldVars, claims, cached, events, expected, churn>>

\* Mutant: no update may come from Other.
CheckFromOther(old, new) ==
    /\ new.name # IDName
    /\ ~(old.name = ProductName /\ "Other" \in {old.value, new.value})
    /\ ~(old.name = PlatformName /\ "Other" \in {old.value, new.value})

\* updateChecks: the ID is only created, platform and product do not become Other.
UpdateChecks(old, new) ==
    /\ new.name # IDName
    /\ ~(old.name = ProductName /\ new.value = "Other")
    /\ ~(old.name = PlatformName /\ new.value = "Other")

\* createOrUpdateClusterClaim: the labels of a claim stay those it was created with.
Written(old, new, checks) ==
    IF checks /\ ~UpdateChecks(old, new) THEN old ELSE [old EXCEPT !.value = new.value]

\* The claims after those of E have been created or updated.
Applied(S, E, checks) ==
    {c \in S : c.name \notin Names(E)}
        \cup {e \in E : Of(S, e.name) = {}}
        \cup {Written(p[1], p[2], checks) : p \in {q \in S \X E : q[1].name = q[2].name}}

\* The failed calls of a round that do not come through (bound: of all the subsets, none, one of the
\* calls, all but one, and all; none means that only the answer is lost).
Lost(S) == {{}, S} \cup {{a} : a \in S} \cup {S \ {a} : a \in S}

\* A failed call does not keep the others from being made, but it ends the round after them.
WriteExpected(checks, next) ==
    \E W \in Winners(expected) :
        \/ /\ claims' = Applied(claims, W, checks)
           /\ pc' = next
           /\ UNCHANGED <<queued, faults>>
        \/ /\ Fails
           /\ \E L \in Lost(W) : claims' = Applied(claims, W \ L, checks)

CreateOrUpdate ==
    /\ pc \in {"write", "writeLabels"}
    /\ WriteExpected(pc = "write", IF pc = "write" THEN "clean" ELSE "cleanLabels")
    /\ events' = (events \/ claims' # claims \/ Rivals(expected) # {})
    /\ UNCHANGED <<worldVars, cached, expected, churn>>

\* Mutant: all unexpected claims are deleted.
UnexpectedOfAll(kind) == {n \in {k[1] : k \in cached} : n \notin Names(expected)}

\* cleanClusterClaims: by the cache's names; a claim that is gone is an error.
Unexpected(kind) == {n \in {k[1] : k \in {k \in cached : k[2] = kind}} : n \notin Names(expected)}

CleanClusterClaims(kind, next) ==
    /\ \/ /\ claims' = {c \in claims : c.name \notin Unexpected(kind)}
          /\ IF Unexpected(kind) \subseteq Names(claims)
             THEN pc' = next /\ UNCHANGED queued
             ELSE pc' = "idle" /\ queued' = TRUE
          /\ UNCHANGED faults
       \/ /\ \E L \in Lost(Unexpected(kind)) : claims' = {c \in claims : c.name \notin Unexpected(kind) \ L}
          /\ Fails
    /\ events' = (events \/ claims' # claims)

Clean ==
    /\ pc = "clean"
    /\ CleanClusterClaims("hub-managed", IF syncLabels THEN "labels" ELSE "idle")
    /\ UNCHANGED <<worldVars, cached, expected, churn>>

GenLabelsToClaims ==
    /\ pc = "labels"
    /\ \/ /\ expected' = LabelClaims(labels)
          /\ pc' = "writeLabels"
          /\ UNCHANGED <<queued, faults>>
       \/ /\ Fails
          /\ UNCHANGED expected
    /\ UNCHANGED <<worldVars, claims, cached, events, churn>>

CleanLabels ==
    /\ pc = "cleanLabels"
    /\ CleanClusterClaims("customized", "idle")
    /\ UNCHANGED <<worldVars, cached, expected, churn>>

\* Reconcile.
Worker == GetExpected \/ CreateOrUpdate \/ Clean \/ GenLabelsToClaims \/ CleanLabels

Next == WorldChanges \/ NodeEvent \/ Deliver \/ Worker \/ GetExpectedFails

Spec == Init /\ [][Next]_vars
FairSpec == Spec /\ WF_vars(Worker) /\ WF_vars(Deliver) /\ WF_vars(NodeEvent)

(***************************************************************************)
(* Properties.                                                             *)
(***************************************************************************)

\* Types; a claim has one value, which is not empty (the API refuses it).
TypeOK ==
    /\ facts \in Clusters \cup {[f EXCEPT !.kube = "upgraded", !.version = "upgraded"] : f \in Clusters}
                          \cup {[f EXCEPT !.kube = "upgraded"] : f \in Clusters}
    /\ nodes \in NodeLists /\ labels \in LabelSets
    /\ \A c \in claims : Of(claims, c.name) = {c} /\ c.value # ""
    /\ \A k \in cached : k[2] \in {"hub-managed", "plain", "customized"}
    /\ pc \in {"idle", "write", "clean", "labels", "writeLabels", "cleanLabels"}
    /\ {events, queued, syncLabels} \subseteq BOOLEAN
    /\ churn \in 0..MaxChurn /\ faults \in 0..MaxFaults

\* A label may say anything of a claim, those of the cluster included: its claims are not checked.
LabelWrites(name) == pc = "writeLabels" /\ ValuesOf(claims', name) \subseteq ValuesOf(expected, name)

\* clusterclaim_controller.go, updateChecks: a specific product or platform never becomes Other, neither
\* by an update nor by a deletion and a creation after it, whatever a round finds out.
Specific(S, name) == \E c \in Of(S, name) : c.value # "Other"
NoDowngrade ==
    \A n \in {ProductName, PlatformName} : Specific(claims, n) => Specific(claims', n) \/ LabelWrites(n)

\* clusterClaimCreateOnlyList: the rounds find the ID of OpenShift, the UID of kube-system or a random
\* one, but id.k8s.io keeps the value it was first given, unless a label gives it another.
IDs == ValuesOf(claims, IDName)
IDNeverChanges == IDs # {} => IDs' = IDs \/ LabelWrites(IDName)

\* clusterclaimer.go:113, "stableClaims should not be deleted in any scenario once they are created".
StableClaims == {IDName, <<"kubeversion", OCM>>, PlatformName, ProductName, <<"version", "openshift.io">>,
                 <<"id", "openshift.io">>, SchedulableName}
StableClaimsStay == Names(claims) \cap StableClaims \subseteq Names(claims')

\* Of those, the ones that every round expects stay; an outage takes the two of OpenShift.
LastingClaims == StableClaims \ {<<"version", "openshift.io">>, <<"id", "openshift.io">>}
LastingClaimsStay == Names(claims) \cap LastingClaims \subseteq Names(claims')

\* clusterclaimer.go, the comment before newClusterClaimWithoutHubManaged: a claim without the
\* hub-managed label is not deleted, even when a round does not expect it.  The exception is a claim
\* that the cache still has as that of a label which was of the same name.
PlainClaimsStay ==
    \A c \in claims : c.kind = "plain" =>
        c.name \in Names(claims') \/ (pc = "cleanLabels" /\ <<c.name, "customized">> \in cached)

\* No step takes away or degrades what the hub relies on, though every round finds the facts out anew.
ClaimsStay == [][NoDowngrade /\ IDNeverChanges /\ LastingClaimsStay /\ PlainClaimsStay]_vars

\* When outages and changes end, the claims are those of the cluster and of the labels, and no others but
\* the plain ones.  A claim that both name has the value of one of them (they write it in turns, for
\* ever); where an update is refused, an earlier value stays: that of the ID that was found first, or
\* what a label made of the platform or the product.
Refused(e) == e.name = IDName \/ (e.name \in {PlatformName, ProductName} /\ e.value = "Other")
Synced ==
    LET E == ExpectedClaims(facts, {}, TRUE, ClusterSchedulable(nodes))
        L == IF syncLabels THEN LabelClaims(labels) ELSE {}
        written == {e \in E : ~Refused(e)} \cup L
        earlier == {"Other"} \cup {c.value : c \in UNION {LabelClaims(ls) : ls \in LabelSets}}
    IN  /\ Names(E \cup L) \subseteq Names(claims)
        /\ \A c \in claims :
              \/ c \in written
              \/ c.name \in Names(E) \cap Names(L) /\ c.value \in ValuesOf(written, c.name)
              \/ c.name \in Names(E) \ Names(written) /\ (c.name = IDName \/ c.value \in earlier)
              \/ c.name \notin Names(E \cup L) /\ c.kind = "plain"
EventuallySynced == <>[]Synced
=============================================================================
