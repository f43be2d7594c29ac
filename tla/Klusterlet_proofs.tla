-------------------------- MODULE Klusterlet_proofs --------------------------
(***************************************************************************)
(* Proofs about the agent and its counterparts on the hub, for any         *)
(* clusters, labels, kinds, addresses and outages and for any number of    *)
(* changes and failures.  Each part of Klusterlet has its section: an      *)
(* inductive invariant (PromiseInv, ClaimsInv, ViewInv, ConfigInv), that   *)
(* it holds initially, and what every step does to it; the last section    *)
(* puts the parts together.                                                *)
(***************************************************************************)
EXTENDS Klusterlet, SequenceTheorems, WellFoundedInduction, TLAPS

-----------------------------------------------------------------------------
(***************************************************************************)
(* The action (ActionRun).  What makes a stale copy harmless: a cache that *)
(* does not trail is exact; a copy that is still fresh is of an action     *)
(* that is not done; a report of success is of an action that was applied; *)
(* and the collector has not seen a report that was never written.         *)
(***************************************************************************)
CacheExact == ~lag => seen = action
FreshOpen == pc # "idle" /\ fresh => action.condition \in {"none", "False"}
ReportTrue ==
    pc = "report" => /\ copy.condition \in {"False", "True"}
                     /\ copy.condition = "True" => performed
HubTrails == hubSeen.condition \in {"False", "True"} => action.condition # "none"

PromiseInv == TypeOK /\ CacheExact /\ FreshOpen /\ ReportTrue /\ HubTrails

-----------------------------------------------------------------------------
\* The values of an action, told apart by their condition.
LEMMA ActionFacts ==
    /\ Gone \in Actions /\ Gone.condition = "gone" /\ Gone.old = FALSE
    /\ \A a \in Actions : /\ a.condition \in {"none", "False", "True", "gone"}
                          /\ a.condition = "gone" <=> a = Gone
                          /\ a.old \in BOOLEAN
                          /\ a = [condition |-> a.condition, old |-> a.old]
    /\ \A c \in {"none", "False", "True"}, b \in BOOLEAN :
          [condition |-> c, old |-> b] \in Actions
<1>1. Gone \in Actions /\ Gone.condition = "gone" /\ Gone.old = FALSE
  BY DEF Actions, Gone
<1>2. ASSUME NEW a \in [condition : {"none", "False", "True"}, old : BOOLEAN]
      PROVE  /\ a.condition \in {"none", "False", "True"} /\ a.old \in BOOLEAN
             /\ a = [condition |-> a.condition, old |-> a.old]
  OBVIOUS
<1>3. \A c \in {"none", "False", "True"}, b \in BOOLEAN :
         [condition |-> c, old |-> b] \in [condition : {"none", "False", "True"}, old : BOOLEAN]
  OBVIOUS
<1>4. Gone = [condition |-> Gone.condition, old |-> Gone.old]
  BY DEF Gone
<1>5. ASSUME NEW a \in Actions
      PROVE  /\ a.condition \in {"none", "False", "True", "gone"}
             /\ a.condition = "gone" <=> a = Gone
             /\ a.old \in BOOLEAN
             /\ a = [condition |-> a.condition, old |-> a.old]
  BY <1>1, <1>2, <1>4, <1>5 DEF Actions
<1>6. QED BY <1>1, <1>3, <1>5 DEF Actions

\* Time changes nothing but the age.
LEMMA AgedFacts ==
    ASSUME NEW a \in Actions
    PROVE  Aged(a) \in Actions /\ Aged(a).condition = a.condition
<1>1. CASE a = Gone
  BY <1>1, ActionFacts DEF Aged, Gone, Actions
<1>2. CASE a \in [condition : {"none", "False", "True"}, old : BOOLEAN]
  <2>1. Aged(a) = [condition |-> a.condition, old |-> a.condition \in {"True", "False"}]
    BY <1>2 DEF Aged
  <2>2. a.condition \in {"none", "False", "True"}
    BY <1>2
  <2>3. (a.condition \in {"True", "False"}) \in BOOLEAN
    OBVIOUS
  <2>4. [condition |-> a.condition, old |-> a.condition \in {"True", "False"}] \in Actions
    BY <2>2, <2>3, ActionFacts
  <2>5. QED BY <2>1, <2>4
<1>3. QED BY <1>1, <1>2 DEF Actions

\* What a report says of the copy.
LEMMA ConditionFacts ==
    ASSUME copy \in Actions, NEW c \in {"False", "True"}
    PROVE  Condition(c) \in Actions /\ Condition(c).condition = c
<1>1. (copy.condition = c /\ copy.old) \in BOOLEAN OBVIOUS
<1>2. QED BY <1>1, ActionFacts DEF Condition

LEMMA InitPromise == Init => PromiseInv
<1> SUFFICES ASSUME Init PROVE PromiseInv
  OBVIOUS
<1>1. action \in Actions /\ action.condition = "none"
  BY ActionFacts DEF Init
<1>2. TypeOK
  <2>1. target \in Targets
    BY DEF Init, Targets
  <2>2. known \in BOOLEAN
    BY DEF Init
  <2>3. 0 \in 0..MaxChurn /\ 0 \in 0..MaxFaults
    BY BoundsAssumption
  <2>4. {lag, queued, fresh, hubQueued, installed, known, performed} \subseteq BOOLEAN
    BY <2>2 DEF Init
  <2>5. QED BY <1>1, <2>1, <2>3, <2>4 DEF Init, TypeOK
<1>3. QED BY <1>1, <1>2 DEF Init, PromiseInv, CacheExact, FreshOpen, ReportTrue, HubTrails

-----------------------------------------------------------------------------
LEMMA TypeStep == TypeOK /\ [Next]_vars => TypeOK'
<1> SUFFICES ASSUME TypeOK, [Next]_vars PROVE TypeOK'
  OBVIOUS
<1>0. /\ action \in Actions /\ seen \in Actions /\ copy \in Actions /\ hubSeen \in Actions
      /\ MaxChurn \in Nat /\ MaxFaults \in Nat
  BY BoundsAssumption DEF TypeOK
<1>1. CASE Tick
  BY <1>0, <1>1, AgedFacts DEF Tick, TypeOK, worldVars
<1>2. CASE OthersChange
  <2>1. churn' \in 0..MaxChurn
    BY <1>0, <1>2 DEF OthersChange, TypeOK
  <2>2. target' \in Targets /\ {lag', fresh', installed'} \subseteq BOOLEAN
    BY <1>2 DEF OthersChange, TypeOK
  <2>3. UNCHANGED <<action, type, seen, queued, pc, copy, identity, hubSeen, hubQueued, known, performed, faults>>
    BY <1>2 DEF OthersChange, hubVars
  <2>4. QED BY <1>2, <2>1, <2>2, <2>3 DEF TypeOK
<1>3. CASE Deliver
  BY <1>3 DEF Deliver, TypeOK, hubVars, worldVars
<1>4. CASE DeliverToHub
  BY <1>4 DEF DeliverToHub, TypeOK, actionVars, agentVars, worldVars
<1>5. CASE Start
  BY <1>5 DEF Start, TypeOK, Impersonate, actionVars, hubVars, worldVars
<1>6. CASE Perform
  <2>1. copy' \in Actions
    BY <1>0, <1>6, ConditionFacts DEF Perform
  <2>2. target' \in Targets /\ performed' \in BOOLEAN
    BY <1>6 DEF Perform, TypeOK, Effect, Targets
  <2>3. faults' \in 0..MaxFaults
    BY <1>0, <1>6 DEF Perform, TypeOK
  <2>4. known' \in BOOLEAN
    BY <1>6 DEF Perform, TypeOK
  <2>5. QED BY <1>6, <2>1, <2>2, <2>3, <2>4 DEF Perform, TypeOK, UnsetImpersonate, actionVars, hubVars
<1>7. CASE Report
  <2>1. faults' \in 0..MaxFaults
    BY <1>0, <1>7 DEF Report, TypeOK, ReturnError
  <2>2. action' \in Actions /\ lag' \in BOOLEAN /\ queued' \in BOOLEAN
    BY <1>0, <1>7 DEF Report, TypeOK, ReturnError
  <2>3. QED BY <1>7, <2>1, <2>2 DEF Report, TypeOK, hubVars, worldVars
<1>8. CASE Restart
  <2>1. faults' \in 0..MaxFaults
    BY <1>0, <1>8 DEF Restart, TypeOK
  <2>2. {lag', queued', known'} \subseteq BOOLEAN
    BY <1>8 DEF Restart
  <2>3. seen' = action /\ action' = action
    BY <1>8 DEF Restart
  <2>4. QED BY <1>0, <1>8, <2>1, <2>2, <2>3 DEF Restart, TypeOK, hubVars, worldVars
<1>9. CASE CollectGarbage
  <2>1. action' \in Actions /\ {lag', fresh', hubQueued'} \subseteq BOOLEAN
    BY <1>0, <1>9, ActionFacts DEF CollectGarbage, TypeOK
  <2>2. QED BY <1>9, <2>1 DEF CollectGarbage, TypeOK, worldVars
<1>10. CASE UNCHANGED vars
  BY <1>10 DEF vars, TypeOK, actionVars, agentVars, hubVars, worldVars
<1>11. QED
  BY <1>1, <1>2, <1>3, <1>4, <1>5, <1>6, <1>7, <1>8, <1>9, <1>10 DEF Next, Agent

LEMMA PromiseStep == PromiseInv /\ [Next]_vars => PromiseInv'
<1> SUFFICES ASSUME PromiseInv, [Next]_vars PROVE PromiseInv'
  OBVIOUS
<1>0. /\ TypeOK /\ CacheExact /\ FreshOpen /\ ReportTrue /\ HubTrails
      /\ action \in Actions /\ seen \in Actions /\ copy \in Actions /\ hubSeen \in Actions
      /\ pc \in {"idle", "perform", "report"}
  BY DEF PromiseInv, TypeOK
<1>t. TypeOK' BY <1>0, TypeStep
<1> USE DEF CacheExact, FreshOpen, ReportTrue, HubTrails
<1> SUFFICES CacheExact' /\ FreshOpen' /\ ReportTrue' /\ HubTrails'
  BY <1>t DEF PromiseInv
<1>1. CASE Tick
  BY <1>0, <1>1, AgedFacts DEF Tick
<1>2. CASE OthersChange
  BY <1>0, <1>2 DEF OthersChange, hubVars
<1>3. CASE Deliver
  BY <1>0, <1>3 DEF Deliver, hubVars
<1>4. CASE DeliverToHub
  BY <1>0, <1>4 DEF DeliverToHub, actionVars, agentVars
<1>5. CASE Start
  BY <1>0, <1>5, ActionFacts DEF Start, actionVars, hubVars
<1>6. CASE Perform
  <2>1. ReportTrue'
    BY <1>0, <1>6, ConditionFacts DEF Perform
  <2>2. QED BY <1>0, <1>6, <2>1 DEF Perform, actionVars, hubVars
<1>7. CASE Report
  <2>1. action' = action \/ action' = copy
    BY <1>7 DEF Report
  <2>2. CacheExact'
    BY <1>0, <1>7 DEF Report
  <2>3. HubTrails'
    BY <1>0, <1>7, <2>1 DEF Report, hubVars
  <2>4. QED BY <1>7, <2>2, <2>3 DEF Report
<1>8. CASE Restart
  BY <1>0, <1>8 DEF Restart, hubVars
<1>9. CASE CollectGarbage
  BY <1>0, <1>9, ActionFacts DEF CollectGarbage
<1>10. CASE UNCHANGED vars
  BY <1>0, <1>10 DEF vars, actionVars, agentVars, hubVars
<1>11. QED
  BY <1>1, <1>2, <1>3, <1>4, <1>5, <1>6, <1>7, <1>8, <1>9, <1>10 DEF Next, Agent

\* TypeOK of ActionRun: among others no step but applying the action is done in the user's name.
THEOREM TypeCorrect == Spec => []TypeOK
<1>1. Init => TypeOK BY InitPromise DEF PromiseInv
<1>2. QED BY <1>1, TypeStep, PTL DEF Spec

-----------------------------------------------------------------------------
(***************************************************************************)
(* The refinement.                                                         *)
(***************************************************************************)

\* The status, by the condition.
LEMMA StatusFacts ==
    ASSUME action \in Actions
    PROVE  /\ action.condition = "gone" <=> status = "collected"
           /\ action.condition = "none" <=> status = "pending"
           /\ action.condition = "False" <=> status = "failed"
           /\ action.condition = "True" <=> status = "done"
  BY ActionFacts DEF status

LEMMA InitRefines == Init => Promise!Init
  BY StatusFacts DEF Init, Promise!Init, Actions, status, Gone

LEMMA StepRefines == PromiseInv /\ PromiseInv' /\ [Next]_vars => [Promise!Next]_Promise!vars
<1> SUFFICES ASSUME PromiseInv, PromiseInv', [Next]_vars PROVE [Promise!Next]_Promise!vars
  OBVIOUS
<1>0. /\ CacheExact /\ FreshOpen /\ ReportTrue /\ HubTrails
      /\ action \in Actions /\ action' \in Actions /\ seen \in Actions /\ copy \in Actions
      /\ pc \in {"idle", "perform", "report"} /\ performed \in BOOLEAN
  BY DEF PromiseInv, TypeOK
<1>s. /\ action.condition = "gone" <=> status = "collected"
      /\ action.condition = "none" <=> status = "pending"
      /\ action.condition = "False" <=> status = "failed"
      /\ action.condition = "True" <=> status = "done"
  BY <1>0, StatusFacts
<1>p. /\ action'.condition = "gone" <=> status' = "collected"
      /\ action'.condition = "none" <=> status' = "pending"
      /\ action'.condition = "False" <=> status' = "failed"
      /\ action'.condition = "True" <=> status' = "done"
  BY <1>0, ActionFacts DEF status
<1>c. /\ action.condition \in {"none", "False", "True", "gone"}
      /\ action'.condition \in {"none", "False", "True", "gone"}
  BY <1>0, ActionFacts
<1>u. ASSUME action'.condition = action.condition, UNCHANGED performed
      PROVE  UNCHANGED Promise!vars
  BY <1>s, <1>p, <1>c, <1>u DEF Promise!vars
<1>1. CASE Tick
  BY <1>0, <1>1, <1>u, AgedFacts DEF Tick
<1>2. CASE OthersChange
  BY <1>2, <1>u DEF OthersChange
<1>3. CASE Deliver \/ DeliverToHub \/ Start \/ Restart
  BY <1>3, <1>u DEF Deliver, DeliverToHub, Start, Restart, actionVars
<1>4. CASE Perform
  <2>1. action' = action /\ (performed' = performed \/ performed' = TRUE)
    BY <1>4 DEF Perform, actionVars
  <2>2. CASE performed' = performed
    BY <1>u, <2>1, <2>2
  <2>3. CASE performed' = TRUE
    <3>1. status' = status BY <1>s, <1>p, <1>c, <2>1
    <3>2. QED BY <2>3, <3>1 DEF Promise!Next, Promise!Perform
  <2>4. QED BY <2>1, <2>2, <2>3
<1>5. CASE Report
  <2>0. UNCHANGED performed /\ pc = "report" BY <1>5 DEF Report
  <2>1. CASE action' = action
    BY <1>u, <2>0, <2>1
  <2>2. CASE action' # action
    <3>1. action' = copy /\ fresh /\ action # Gone
      BY <1>5, <2>2 DEF Report, Refused
    <3>2. action.condition \in {"none", "False"}
      BY <1>0, <2>0, <3>1 DEF FreshOpen
    <3>3. action'.condition \in {"False", "True"} /\ (action'.condition = "True" => performed)
      BY <1>0, <2>0, <3>1 DEF ReportTrue
    <3>4. CASE action'.condition = action.condition
      BY <1>u, <2>0, <3>4
    <3>5. CASE action'.condition = "False" /\ action.condition = "none"
      BY <1>s, <1>p, <2>0, <3>5 DEF Promise!Next, Promise!ReportFailure
    <3>6. CASE action'.condition = "True"
      BY <1>s, <1>p, <2>0, <3>2, <3>3, <3>6 DEF Promise!Next, Promise!ReportSuccess
    <3>7. QED BY <3>2, <3>3, <3>4, <3>5, <3>6
  <2>3. QED BY <2>1, <2>2
<1>6. CASE CollectGarbage
  <2>0. UNCHANGED performed BY <1>6 DEF CollectGarbage
  <2>1. CASE action' = action
    BY <1>u, <2>0, <2>1
  <2>2. CASE action' # action
    <3>1. action' = Gone /\ hubSeen.condition \in {"True", "False"}
      BY <1>6, <2>2 DEF CollectGarbage
    <3>2. action.condition # "none" /\ action # Gone
      BY <1>0, <2>2, <3>1 DEF HubTrails
    <3>3. action.condition \in {"False", "True"}
      BY <1>0, <1>c, <3>2, ActionFacts
    <3>4. action'.condition = "gone" BY <3>1, ActionFacts
    <3>5. QED BY <1>s, <1>p, <2>0, <3>3, <3>4 DEF Promise!Next, Promise!Collect
  <2>3. QED BY <2>1, <2>2
<1>7. CASE UNCHANGED vars
  BY <1>7, <1>u DEF vars, actionVars
<1>8. QED
  BY <1>1, <1>2, <1>3, <1>4, <1>5, <1>6, <1>7 DEF Next, Agent

\* action_controller.go and garbagecollector_controller.go implement ActionPromise: what is applied on
\* stale copies, again after a lost Update, and deleted by name, is reported truly and collected last.
THEOREM KeepsPromiseHolds == Spec => KeepsPromise
<1>1. PromiseInv /\ [Next]_vars => PromiseInv' BY PromiseStep
<1>2. QED BY InitPromise, <1>1, InitRefines, StepRefines, PTL DEF Spec, KeepsPromise, Promise!Spec

-----------------------------------------------------------------------------
(***************************************************************************)
(* The claims (ClusterClaims).  A round gets to the labels only after it   *)
(* has written all the claims of the cluster, so that those which every    *)
(* round expects are there, and no label's; and the claims of the cluster  *)
(* are marked as such by name.  So whatever the cache says, late as it may *)
(* be, no round deletes one of them, and the only plain claim that can go  *)
(* is one that the cache has as that of a label.                           *)
(***************************************************************************)
Lasting == Claims!LastingClaims
PlainNames == {Claims!SchedulableName, Claims!ApiServerURLName}
RightKind(name, kind) ==
    /\ kind \in {"hub-managed", "plain", "customized"}
    /\ kind = "plain" => name \in PlainNames
    /\ kind = "hub-managed" => name \notin PlainNames
    /\ kind = "customized" => name \notin Lasting

HasValue(c) == c = [name |-> c.name, value |-> c.value, kind |-> c.kind] /\ c.value # ""
IsClaim(c) == HasValue(c) /\ RightKind(c.name, c.kind)

ClaimsFlags == events \in BOOLEAN /\ partQueued \in BOOLEAN /\ syncLabels \in BOOLEAN
ClaimsBounded == partChurn \in 0..Bound.claims.churn /\ partFaults \in 0..Bound.claims.faults
ClaimsWorld ==
    /\ facts \in Clusters \cup {[f EXCEPT !.kube = "upgraded", !.version = "upgraded"] : f \in Clusters}
                          \cup {[f EXCEPT !.kube = "upgraded"] : f \in Clusters}
    /\ nodes \in NodeLists /\ labels \in LabelSets
ClaimsHeld ==
    /\ \A c \in claims : IsClaim(c)
    /\ \A c, d \in claims : c.name = d.name => c = d
    /\ \A k \in cached : k = <<k[1], k[2]>> /\ RightKind(k[1], k[2])
ClaimsExpected ==
    /\ step \in {"idle", "write", "clean", "labels", "writeLabels", "cleanLabels"}
    /\ \A e \in expected : HasValue(e)
    /\ step \in {"write", "clean"} => Lasting \subseteq Claims!Names(expected) /\ \A e \in expected : IsClaim(e)
    /\ step \in {"writeLabels", "cleanLabels"} => \A e \in expected : e.kind = "customized"
ClaimsThere == step \in {"clean", "labels", "writeLabels", "cleanLabels"} => Lasting \subseteq Claims!Names(claims)

ClaimsInv == ClaimsFlags /\ ClaimsBounded /\ ClaimsWorld /\ ClaimsHeld /\ ClaimsExpected /\ ClaimsThere

LEMMA ClaimsBounds == Bound.claims.churn \in Nat /\ Bound.claims.faults \in Nat
  BY BoundAssumption

LEMMA ClaimsType == ClaimsInv => Claims!TypeOK
<1> SUFFICES ASSUME ClaimsInv PROVE Claims!TypeOK
  OBVIOUS
<1>1. ASSUME NEW c \in claims
      PROVE  Claims!Of(claims, c.name) = {c} /\ c.value # ""
  BY <1>1 DEF ClaimsInv, ClaimsHeld, Claims!Of, IsClaim, HasValue
<1>2. ASSUME NEW k \in cached
      PROVE  k[2] \in {"hub-managed", "plain", "customized"}
  BY <1>2 DEF ClaimsInv, ClaimsHeld, RightKind
<1>3. {events, partQueued, syncLabels} \subseteq BOOLEAN
  BY Zenon DEF ClaimsInv, ClaimsFlags
<1> QED
  BY <1>1, <1>2, <1>3, Zenon DEF ClaimsInv, ClaimsBounded, ClaimsWorld, ClaimsExpected, Claims!TypeOK

\* The names of the claims that every round expects, which are different.
LEMMA LastingNames ==
    /\ Lasting = {Claims!IDName, Claims!PlatformName, Claims!ProductName, Claims!SchedulableName,
                  <<"kubeversion", Claims!OCM>>}
    /\ Claims!PlatformName # Claims!ProductName /\ Claims!IDName # Claims!ProductName
    /\ Claims!IDName # Claims!PlatformName
  BY DEF Lasting, Claims!LastingClaims, Claims!StableClaims, Claims!IDName, Claims!PlatformName,
     Claims!ProductName, Claims!SchedulableName, Claims!OCM

\* Platform and product are always found, whatever calls are lost.
LEMMA PlatformFound ==
    ASSUME NEW f, NEW lost
    PROVE  LET pp == Claims!PlatformProduct(f, lost)
           IN  pp[1] \notin {"", Claims!None} /\ pp[2] \notin {"", Claims!None}
<1>1. ASSUME NEW product, product \notin {"", Claims!None}
      PROVE  LET pp == Claims!PlatformByNode(f, product)
             IN  pp[1] \notin {"", Claims!None} /\ pp[2] \notin {"", Claims!None}
  <2>1. \A p \in DOMAIN Claims!ProviderPlatforms : Claims!ProviderPlatforms[p] \notin {"", Claims!None}
    <3>1. DOMAIN Claims!ProviderPlatforms = {"ibm", "azure", "aws", "gce", "vsphere", "openstack"}
      BY DEF Claims!ProviderPlatforms
    <3>2. /\ Claims!ProviderPlatforms["ibm"] = "IBM" /\ Claims!ProviderPlatforms["azure"] = "Azure"
          /\ Claims!ProviderPlatforms["aws"] = "AWS" /\ Claims!ProviderPlatforms["gce"] = "GCP"
          /\ Claims!ProviderPlatforms["vsphere"] = "VSphere"
          /\ Claims!ProviderPlatforms["openstack"] = "OpenStack"
      BY DEF Claims!ProviderPlatforms
    <3> QED
      BY <3>1, <3>2 DEF Claims!None
  <2> QED
    BY <1>1, <2>1 DEF Claims!PlatformByNode, Claims!None
<1>2. ASSUME NEW product, product \notin {"", Claims!None}, f.infra \in Claims!InfraPlatforms
      PROVE  LET pp == Claims!PlatformByInfrastructure(f, product)
             IN  pp[1] \notin {"", Claims!None} /\ pp[2] \notin {"", Claims!None}
  BY <1>2 DEF Claims!PlatformByInfrastructure, Claims!InfraPlatforms, Claims!None
<1>3. CASE f.git \in DOMAIN Claims!GitPlatforms
  <2>1. \A p \in DOMAIN Claims!GitPlatforms : p \notin {"", Claims!None} /\ Claims!GitPlatforms[p] \notin {"", Claims!None}
    <3>1. DOMAIN Claims!GitPlatforms = {"IKS", "ICP", "EKS", "GKE"}
      BY DEF Claims!GitPlatforms
    <3>2. /\ Claims!GitPlatforms["IKS"] = "IBM" /\ Claims!GitPlatforms["ICP"] = "IBM"
          /\ Claims!GitPlatforms["EKS"] = "AWS" /\ Claims!GitPlatforms["GKE"] = "GCP"
      BY DEF Claims!GitPlatforms
    <3> QED
      BY <3>1, <3>2 DEF Claims!None
  <2> QED
    BY <1>3, <2>1 DEF Claims!PlatformProduct
<1>4. CASE f.git \notin DOMAIN Claims!GitPlatforms
  <2> HIDE DEF Claims!GitPlatforms, Claims!PlatformByNode, Claims!PlatformByInfrastructure
  <2> QED
    BY <1>1, <1>2, <1>4 DEF Claims!PlatformProduct, Claims!None
<1> QED
  BY <1>3, <1>4

\* An ID is always found.
LEMMA IDFound ==
    ASSUME NEW f, Claims!NotEmpty(f), NEW lost, NEW kubeSystem
    PROVE  Claims!ManagedClusterID(f, lost, kubeSystem) \notin {"", Claims!None}
  BY DEF Claims!ManagedClusterID, Claims!OCPVersion, Claims!NotEmpty, Claims!None

LEMMA ExpectedFacts ==
    ASSUME NEW f, Claims!NotEmpty(f), NEW lost, NEW kubeSystem,
           NEW schedulable \in {"true", "false"}
    PROVE  LET E == Claims!ExpectedClaims(f, lost, kubeSystem, schedulable)
           IN  /\ \A e \in E : IsClaim(e)
               /\ Lasting \subseteq Claims!Names(E)
<1> DEFINE E == Claims!ExpectedClaims(f, lost, kubeSystem, schedulable)
<1>1. ASSUME NEW e, NEW name, NEW value, e = Claims!NewClusterClaim(name, value), e.value # Claims!None,
             value # "", name \notin PlainNames
      PROVE  IsClaim(e)
  BY <1>1 DEF Claims!NewClusterClaim, IsClaim, HasValue, RightKind
<1>2. ASSUME NEW e, NEW name, NEW value, e = Claims!NewClusterClaimWithoutHubManaged(name, value),
             e.value # Claims!None, value # "", name \in PlainNames
      PROVE  IsClaim(e)
  BY <1>2 DEF Claims!NewClusterClaimWithoutHubManaged, IsClaim, HasValue, RightKind
<1>3. ASSUME NEW name, NEW value
      PROVE  /\ Claims!NewClusterClaim(name, value).name = name
             /\ Claims!NewClusterClaim(name, value).value = value
             /\ Claims!NewClusterClaimWithoutHubManaged(name, value).name = name
             /\ Claims!NewClusterClaimWithoutHubManaged(name, value).value = value
  BY DEF Claims!NewClusterClaim, Claims!NewClusterClaimWithoutHubManaged
<1>4. ASSUME NEW e \in Claims!OpenShiftClaims(f, lost), e.value # Claims!None
      PROVE  IsClaim(e)
  <2>1. Claims!OCPVersion(f, lost, "claims").version # "" /\ Claims!OCPVersion(f, lost, "claims").id # ""
    BY DEF Claims!OCPVersion, Claims!NotEmpty, Claims!None
  <2>2. <<"id", "openshift.io">> \notin PlainNames /\ <<"version", "openshift.io">> \notin PlainNames
        /\ <<"oauthredirecturis", "openshift.io">> \notin PlainNames
        /\ <<"infrastructure", "openshift.io">> \notin PlainNames
        /\ <<"controlplanetopology", "openshift.io">> \notin PlainNames
        /\ Claims!ApiServerURLName \in PlainNames
    BY DEF PlainNames, Claims!SchedulableName, Claims!ApiServerURLName, Claims!OCM
  <2>3. "uris" # "" /\ "infra" # "" /\ "url" # "" /\ "topology" # "" /\ Claims!None # ""
    BY DEF Claims!None
  <2> DEFINE v == Claims!OCPVersion(f, lost, "claims")
  <2>4. \/ e = Claims!NewClusterClaim(<<"id", "openshift.io">>, v.id)
        \/ e = Claims!NewClusterClaim(<<"version", "openshift.io">>, v.version)
        \/ \E value \in {"uris", Claims!None} : e = Claims!NewClusterClaim(<<"oauthredirecturis", "openshift.io">>, value)
        \/ e = Claims!NewClusterClaim(<<"infrastructure", "openshift.io">>, "infra")
        \/ e = Claims!NewClusterClaimWithoutHubManaged(Claims!ApiServerURLName, "url")
        \/ \E value \in {"topology", Claims!None} :
              e = Claims!NewClusterClaim(<<"controlplanetopology", "openshift.io">>, value)
    BY <1>4 DEF Claims!OpenShiftClaims
  <2> QED
    BY <1>1, <1>2, <1>4, <2>1, <2>2, <2>3, <2>4, ZenonT(30)
<1>5. LET pp == Claims!PlatformProduct(f, lost)
      IN  pp[1] \notin {"", Claims!None} /\ pp[2] \notin {"", Claims!None}
  BY PlatformFound
<1>6. Claims!ManagedClusterID(f, lost, kubeSystem) \notin {"", Claims!None}
  BY IDFound
<1>7. Claims!ConsoleURL(f, lost) # "" /\ f.kube # "" /\ Claims!ClusterRegion(f, lost) # ""
      /\ (IF f.micro THEN "micro" ELSE Claims!None) # "" /\ schedulable \notin {"", Claims!None}
  BY DEF Claims!ConsoleURL, Claims!ClusterRegion, Claims!NotEmpty, Claims!None
<1>8. /\ Claims!SchedulableName \in PlainNames
      /\ <<"consoleurl", "cluster", Claims!OCM>> \notin PlainNames /\ <<"kubeversion", Claims!OCM>> \notin PlainNames
      /\ <<"region", Claims!OCM>> \notin PlainNames /\ <<"version", "microshift.io">> \notin PlainNames
      /\ Claims!PlatformName \notin PlainNames /\ Claims!ProductName \notin PlainNames
      /\ Claims!IDName \notin PlainNames
  BY DEF PlainNames, Claims!SchedulableName, Claims!ApiServerURLName, Claims!OCM, Claims!PlatformName,
     Claims!ProductName, Claims!IDName
<1>9. ASSUME NEW e \in E
      PROVE  IsClaim(e)
  <2>1. e.value # Claims!None
    BY <1>9 DEF Claims!ExpectedClaims
  <2>2. \/ e \in Claims!OpenShiftClaims(f, lost)
        \/ e = Claims!NewClusterClaim(Claims!PlatformName, Claims!PlatformProduct(f, lost)[1])
        \/ e = Claims!NewClusterClaim(Claims!ProductName, Claims!PlatformProduct(f, lost)[2])
        \/ e = Claims!NewClusterClaim(Claims!IDName, Claims!ManagedClusterID(f, lost, kubeSystem))
        \/ e = Claims!NewClusterClaim(<<"consoleurl", "cluster", Claims!OCM>>, Claims!ConsoleURL(f, lost))
        \/ e = Claims!NewClusterClaim(<<"kubeversion", Claims!OCM>>, f.kube)
        \/ e = Claims!NewClusterClaim(<<"region", Claims!OCM>>, Claims!ClusterRegion(f, lost))
        \/ e = Claims!NewClusterClaim(<<"version", "microshift.io">>, IF f.micro THEN "micro" ELSE Claims!None)
        \/ e = Claims!NewClusterClaimWithoutHubManaged(Claims!SchedulableName, schedulable)
    BY <1>9, Zenon DEF Claims!ExpectedClaims
  <2> QED
    BY <1>1, <1>2, <1>4, <1>5, <1>6, <1>7, <1>8, <2>1, <2>2, ZenonT(30)
<1>10. \A n \in Lasting : \E e \in E : e.name = n
  <2>1. \A c : /\ c.value # Claims!None
              /\ \/ c = Claims!NewClusterClaim(Claims!PlatformName, Claims!PlatformProduct(f, lost)[1])
                 \/ c = Claims!NewClusterClaim(Claims!ProductName, Claims!PlatformProduct(f, lost)[2])
                 \/ c = Claims!NewClusterClaim(Claims!IDName, Claims!ManagedClusterID(f, lost, kubeSystem))
                 \/ c = Claims!NewClusterClaim(<<"kubeversion", Claims!OCM>>, f.kube)
                 \/ c = Claims!NewClusterClaimWithoutHubManaged(Claims!SchedulableName, schedulable)
              => c \in E
    BY Zenon DEF Claims!ExpectedClaims
  <2>2. Claims!PlatformProduct(f, lost)[1] # Claims!None /\ Claims!PlatformProduct(f, lost)[2] # Claims!None
        /\ Claims!ManagedClusterID(f, lost, kubeSystem) # Claims!None /\ f.kube # Claims!None
        /\ schedulable # Claims!None
    BY <1>5, <1>6, <1>7 DEF Claims!NotEmpty
  <2> HIDE DEF E
  <2>3. /\ Claims!NewClusterClaim(Claims!PlatformName, Claims!PlatformProduct(f, lost)[1]) \in E
        /\ Claims!NewClusterClaim(Claims!ProductName, Claims!PlatformProduct(f, lost)[2]) \in E
        /\ Claims!NewClusterClaim(Claims!IDName, Claims!ManagedClusterID(f, lost, kubeSystem)) \in E
        /\ Claims!NewClusterClaim(<<"kubeversion", Claims!OCM>>, f.kube) \in E
        /\ Claims!NewClusterClaimWithoutHubManaged(Claims!SchedulableName, schedulable) \in E
    <3>1. /\ Claims!NewClusterClaim(Claims!PlatformName, Claims!PlatformProduct(f, lost)[1]).value # Claims!None
          /\ Claims!NewClusterClaim(Claims!ProductName, Claims!PlatformProduct(f, lost)[2]).value # Claims!None
          /\ Claims!NewClusterClaim(Claims!IDName, Claims!ManagedClusterID(f, lost, kubeSystem)).value # Claims!None
          /\ Claims!NewClusterClaim(<<"kubeversion", Claims!OCM>>, f.kube).value # Claims!None
          /\ Claims!NewClusterClaimWithoutHubManaged(Claims!SchedulableName, schedulable).value # Claims!None
      BY <2>2 DEF Claims!NewClusterClaim, Claims!NewClusterClaimWithoutHubManaged
    <3>2. Claims!NewClusterClaim(Claims!PlatformName, Claims!PlatformProduct(f, lost)[1]) \in E
      BY <2>1, <3>1, Zenon
    <3>3. Claims!NewClusterClaim(Claims!ProductName, Claims!PlatformProduct(f, lost)[2]) \in E
      BY <2>1, <3>1, Zenon
    <3>4. Claims!NewClusterClaim(Claims!IDName, Claims!ManagedClusterID(f, lost, kubeSystem)) \in E
      BY <2>1, <3>1, Zenon
    <3>5. Claims!NewClusterClaim(<<"kubeversion", Claims!OCM>>, f.kube) \in E
      BY <2>1, <3>1, Zenon
    <3>6. Claims!NewClusterClaimWithoutHubManaged(Claims!SchedulableName, schedulable) \in E
      BY <2>1, <3>1, Zenon
    <3> QED
      BY <3>2, <3>3, <3>4, <3>5, <3>6
  <2>4. /\ \E e \in E : e.name = Claims!PlatformName
        /\ \E e \in E : e.name = Claims!ProductName
        /\ \E e \in E : e.name = Claims!IDName
        /\ \E e \in E : e.name = <<"kubeversion", Claims!OCM>>
        /\ \E e \in E : e.name = Claims!SchedulableName
    BY <1>3, <2>3, Zenon
  <2> QED
    BY <2>4, LastingNames
<1> QED
  BY <1>9, <1>10 DEF Claims!Names


\* What labels give has a value, and is marked as theirs.
LEMMA LabelFacts ==
    ASSUME NEW ls, NEW e \in Claims!LabelClaims(ls)
    PROVE  HasValue(e) /\ e.kind = "customized"
<1>1. PICK l \in ls : l.value # "" /\ e = [name |-> Claims!ClaimName(l.key), value |-> l.value, kind |-> "customized"]
  BY DEF Claims!LabelClaims
<1> QED
  BY <1>1 DEF HasValue

\* An update changes the value, and not always.
LEMMA WrittenFacts ==
    ASSUME NEW c, NEW e, IsClaim(c), HasValue(e), c.name = e.name, NEW checks \in BOOLEAN
    PROVE  LET d == Claims!Written(c, e, checks)
           IN  /\ IsClaim(d) /\ d.name = c.name /\ d.kind = c.kind
               /\ ~checks => d.value = e.value
               /\ checks /\ c.name = Claims!IDName => d.value = c.value
               /\ checks /\ c.name \in {Claims!PlatformName, Claims!ProductName} /\ c.value # "Other"
                     => d.value # "Other"
<1>1. CASE checks /\ ~Claims!UpdateChecks(c, e)
  BY <1>1 DEF Claims!Written
<1>2. CASE ~(checks /\ ~Claims!UpdateChecks(c, e))
  <2> DEFINE d == [c EXCEPT !.value = e.value]
  <2>1. Claims!Written(c, e, checks) = d
    BY <1>2 DEF Claims!Written
  <2>2. d = [name |-> c.name, value |-> e.value, kind |-> c.kind]
    <3>1. \A n, v, k, w : [[name |-> n, value |-> v, kind |-> k] EXCEPT !.value = w] = [name |-> n, value |-> w, kind |-> k]
      OBVIOUS
    <3>2. c = [name |-> c.name, value |-> c.value, kind |-> c.kind]
      BY DEF IsClaim, HasValue
    <3> QED
      BY <3>1, <3>2
  <2>3. IsClaim(d) /\ d.name = c.name /\ d.kind = c.kind /\ d.value = e.value
    BY <2>2 DEF IsClaim, HasValue
  <2> QED
    BY <1>2, <2>1, <2>3 DEF Claims!UpdateChecks
<1> QED
  BY <1>1, <1>2

OneEach(S) == \A c, d \in S : c.name = d.name => c = d

\* Creating and updating takes no claim away, and what there was changes by updates only.
LEMMA AppliedFacts ==
    ASSUME NEW S, NEW E, \A c \in S : IsClaim(c), \A e \in E : HasValue(e), OneEach(S), OneEach(E),
           \A e \in E : Claims!Of(S, e.name) = {} => IsClaim(e),
           NEW checks \in BOOLEAN, NEW A, A = Claims!Applied(S, E, checks)
    PROVE  /\ \A a \in A : IsClaim(a)
           /\ OneEach(A)
           /\ Claims!Names(E) \subseteq Claims!Names(A)
           /\ \A c \in S : \E a \in A :
                 /\ a.name = c.name
                 /\ \/ a = c /\ c.name \notin Claims!Names(E)
                    \/ \E e \in E : e.name = c.name /\ a = Claims!Written(c, e, checks)
<1>1. \A a : a \in A <=> \/ a \in S /\ a.name \notin Claims!Names(E)
                         \/ a \in E /\ Claims!Of(S, a.name) = {}
                         \/ \E c \in S, e \in E : c.name = e.name /\ a = Claims!Written(c, e, checks)
  <2> DEFINE Pairs == {q \in S \X E : q[1].name = q[2].name}
  <2>1. ASSUME NEW a, NEW q \in Pairs, a = Claims!Written(q[1], q[2], checks)
        PROVE  \E c \in S, e \in E : c.name = e.name /\ a = Claims!Written(c, e, checks)
    BY <2>1
  <2>2. ASSUME NEW a, NEW c \in S, NEW e \in E, c.name = e.name, a = Claims!Written(c, e, checks)
        PROVE  \E q \in Pairs : a = Claims!Written(q[1], q[2], checks)
    <3>1. <<c, e>> \in Pairs /\ <<c, e>>[1] = c /\ <<c, e>>[2] = e
      BY <2>2
    <3> QED
      BY <2>2, <3>1
  <2>3. A = {c \in S : c.name \notin Claims!Names(E)} \cup {e \in E : Claims!Of(S, e.name) = {}}
              \cup {Claims!Written(q[1], q[2], checks) : q \in Pairs}
    BY DEF Claims!Applied
  <2> HIDE DEF Pairs
  <2> QED
    BY <2>1, <2>2, <2>3
<1>2. \A c \in S, e \in E : c.name = e.name =>
         IsClaim(Claims!Written(c, e, checks)) /\ Claims!Written(c, e, checks).name = c.name
  BY WrittenFacts
<1>3. \A n : n \in Claims!Names(E) <=> \E e \in E : e.name = n
  BY DEF Claims!Names
<1>4. \A n : Claims!Of(S, n) = {} <=> \A c \in S : c.name # n
  BY DEF Claims!Of
<1>5. ASSUME NEW a \in A
      PROVE  IsClaim(a)
  <2>1. CASE a \in S
    BY <2>1
  <2>2. CASE a \in E /\ Claims!Of(S, a.name) = {}
    BY <2>2
  <2>3. CASE \E c \in S, e \in E : c.name = e.name /\ a = Claims!Written(c, e, checks)
    BY <1>2, <2>3, Zenon
  <2> QED
    BY <1>1, <2>1, <2>2, <2>3, Zenon
<1>6. OneEach(A)
  <2>1. ASSUME NEW a \in A
        PROVE  \/ a \in S /\ a.name \notin Claims!Names(E)
               \/ a \in E /\ \A c \in S : c.name # a.name
               \/ \E c \in S, e \in E : c.name = a.name /\ e.name = a.name /\ a = Claims!Written(c, e, checks)
    <3>1. CASE \E c \in S, e \in E : c.name = e.name /\ a = Claims!Written(c, e, checks)
      <4>1. PICK c \in S, e \in E : c.name = e.name /\ a = Claims!Written(c, e, checks)
        BY <3>1
      <4>2. a.name = c.name /\ e.name = c.name
        BY <1>2, <4>1, Zenon
      <4> QED
        BY <4>1, <4>2
    <3>2. CASE ~\E c \in S, e \in E : c.name = e.name /\ a = Claims!Written(c, e, checks)
      BY <1>1, <1>4, <2>1, <3>2, Zenon
    <3> QED
      BY <3>1, <3>2
  <2>2. SUFFICES ASSUME NEW a \in A, NEW b \in A, a.name = b.name PROVE a = b
    BY Zenon DEF OneEach
  <2>3. CASE a \in S /\ a.name \notin Claims!Names(E)
    BY <1>3, <2>1, <2>2, <2>3 DEF OneEach
  <2>4. CASE a \in E /\ \A c \in S : c.name # a.name
    BY <1>3, <2>1, <2>2, <2>4 DEF OneEach
  <2>5. CASE \E c \in S, e \in E : c.name = a.name /\ e.name = a.name /\ a = Claims!Written(c, e, checks)
    <3>1. PICK c \in S, e \in E : c.name = a.name /\ e.name = a.name /\ a = Claims!Written(c, e, checks)
      BY <2>5
    <3>2. PICK c1 \in S, e1 \in E : c1.name = a.name /\ e1.name = a.name /\ b = Claims!Written(c1, e1, checks)
      BY <1>3, <2>1, <2>2, <3>1
    <3> QED
      BY <3>1, <3>2, Zenon DEF OneEach
  <2> QED
    BY <2>1, <2>3, <2>4, <2>5
<1>7. ASSUME NEW c \in S
      PROVE  \E a \in A : /\ a.name = c.name
                          /\ \/ a = c /\ c.name \notin Claims!Names(E)
                             \/ \E e \in E : e.name = c.name /\ a = Claims!Written(c, e, checks)
  <2>1. CASE c.name \notin Claims!Names(E)
    BY <1>1, <2>1
  <2>2. CASE c.name \in Claims!Names(E)
    <3>1. PICK e \in E : e.name = c.name
      BY <1>3, <2>2
    <3> QED
      BY <1>1, <1>2, <3>1
  <2> QED
    BY <2>1, <2>2
<1>8. ASSUME NEW e \in E
      PROVE  \E a \in A : a.name = e.name
  <2>1. CASE Claims!Of(S, e.name) = {}
    BY <1>1, <2>1
  <2>2. CASE \E c \in S : c.name = e.name
    BY <1>1, <1>2, <2>2
  <2> QED
    BY <1>4, <2>1, <2>2
<1> QED
  BY <1>5, <1>6, <1>7, <1>8 DEF Claims!Names

LEMMA WinnersFacts ==
    ASSUME NEW S, NEW W \in Claims!Winners(S)
    PROVE  /\ W \subseteq S /\ OneEach(W) /\ Claims!Names(W) = Claims!Names(S)
           /\ \A L : W \ L \subseteq S /\ OneEach(W \ L)
<1>1. W \subseteq S /\ \A n \in Claims!Names(S) : \E c \in W : Claims!Of(W, n) = {c}
  BY DEF Claims!Winners
<1>2. ASSUME NEW c \in W, NEW d \in W, c.name = d.name
      PROVE  c = d
  <2>1. c.name \in Claims!Names(S)
    BY <1>1 DEF Claims!Names
  <2> QED
    BY <1>1, <1>2, <2>1 DEF Claims!Of
<1>3. ASSUME NEW n \in Claims!Names(S)
      PROVE  \E c \in W : c.name = n
  BY <1>1 DEF Claims!Of
<1>4. Claims!Names(W) = Claims!Names(S)
  BY <1>1, <1>3 DEF Claims!Names
<1> QED
  BY <1>1, <1>2, <1>4 DEF OneEach


LEMMA ClaimsInit == Claims!Init => ClaimsInv
<1> SUFFICES ASSUME Claims!Init PROVE ClaimsInv
  OBVIOUS
<1>1. ClaimsFlags
  BY Zenon DEF Claims!Init, ClaimsFlags
<1>2. ClaimsBounded
  BY ClaimsBounds DEF Claims!Init, ClaimsBounded
<1>3. ClaimsWorld
  BY Zenon DEF Claims!Init, ClaimsWorld
<1>4. ClaimsHeld /\ ClaimsExpected /\ ClaimsThere
  BY DEF Claims!Init, ClaimsHeld, ClaimsExpected, ClaimsThere
<1> QED
  BY <1>1, <1>2, <1>3, <1>4 DEF ClaimsInv

\* An upgrade of the cluster leaves it one of those that TypeOK names.
LEMMA FactsNotEmpty == ClaimsWorld => Claims!NotEmpty(facts)
<1> SUFFICES ASSUME ClaimsWorld PROVE Claims!NotEmpty(facts)
  OBVIOUS
<1>1. \A f \in Clusters : f \in Claims!Facts /\ Claims!NotEmpty(f)
  BY ClaimsAssumption DEF Claims!FactsAssumption
<1>2. CASE facts \in Clusters
  BY <1>1, <1>2
<1>3. ASSUME NEW f \in Clusters, facts = [f EXCEPT !.kube = "upgraded", !.version = "upgraded"]
      PROVE  Claims!NotEmpty(facts)
  <2>1. f \in Claims!Facts /\ Claims!NotEmpty(f)
    BY <1>1
  <2>2. facts.nodeRegion = f.nodeRegion /\ facts.ocpID = f.ocpID /\ facts.version \in {f.version, "upgraded"}
        /\ facts.kube = "upgraded"
    BY <1>3, <2>1 DEF Claims!Facts
  <2> QED
    BY <2>1, <2>2 DEF Claims!NotEmpty, Claims!None
<1>4. ASSUME NEW f \in Clusters, facts = [f EXCEPT !.kube = "upgraded"]
      PROVE  Claims!NotEmpty(facts)
  <2>1. f \in Claims!Facts /\ Claims!NotEmpty(f)
    BY <1>1
  <2>2. facts.nodeRegion = f.nodeRegion /\ facts.ocpID = f.ocpID /\ facts.version \in {f.version, "upgraded"}
        /\ facts.kube = "upgraded"
    BY <1>4, <2>1 DEF Claims!Facts
  <2> QED
    BY <2>1, <2>2 DEF Claims!NotEmpty, Claims!None
<1> QED
  BY <1>2, <1>3, <1>4 DEF ClaimsWorld

LEMMA WorldStep == ClaimsWorld /\ Claims!WorldChanges => ClaimsWorld'
<1> SUFFICES ASSUME ClaimsWorld, Claims!WorldChanges PROVE ClaimsWorld'
  OBVIOUS
<1>1. \/ UNCHANGED <<facts, labels>> /\ nodes' \in NodeLists
      \/ UNCHANGED <<facts, nodes>> /\ labels' \in LabelSets
      \/ UNCHANGED <<nodes, labels>> /\ facts' = [facts EXCEPT !.kube = "upgraded",
                                                     !.version = IF @ = Claims!None THEN @ ELSE "upgraded"]
  BY Zenon DEF Claims!WorldChanges
<1>2. CASE UNCHANGED facts
  BY <1>1, <1>2 DEF ClaimsWorld
<1>3. CASE UNCHANGED <<nodes, labels>> /\ facts' = [facts EXCEPT !.kube = "upgraded",
                                                     !.version = IF @ = Claims!None THEN @ ELSE "upgraded"]
  <2>1. \A f \in Clusters : f \in Claims!Facts
    BY ClaimsAssumption DEF Claims!FactsAssumption
  <2>2. ASSUME NEW f \in Clusters, facts \in {f, [f EXCEPT !.kube = "upgraded", !.version = "upgraded"],
                                               [f EXCEPT !.kube = "upgraded"]}
        PROVE  facts' \in {[f EXCEPT !.kube = "upgraded", !.version = "upgraded"], [f EXCEPT !.kube = "upgraded"]}
    BY <1>3, <2>1, <2>2 DEF Claims!Facts
  <2> QED
    BY <1>3, <2>2 DEF ClaimsWorld
<1> QED
  BY <1>1, <1>2, <1>3

-----------------------------------------------------------------------------
\* What a step must leave of the claims.
KeepsValue(c, d) ==
    \/ /\ c.name = Claims!IDName => d.value = c.value
       /\ c.name \in {Claims!PlatformName, Claims!ProductName} /\ c.value # "Other" => d.value # "Other"
    \/ step = "writeLabels" /\ d.value \in Claims!ValuesOf(expected, c.name)
MayGo(c) ==
    /\ c.name \notin Lasting
    /\ c.kind = "plain" => step = "cleanLabels" /\ <<c.name, "customized">> \in cached
KeepsClaims == \A c \in claims : MayGo(c) \/ \E d \in claims' : d.name = c.name /\ KeepsValue(c, d)

LEMMA ClaimsKept ==
    ASSUME ClaimsHeld, ClaimsHeld', KeepsClaims
    PROVE  /\ Claims!NoDowngrade /\ Claims!IDNeverChanges
           /\ Claims!LastingClaimsStay /\ Claims!PlainClaimsStay
<1>1. ASSUME NEW c \in claims, c.name \in Lasting
      PROVE  \E d \in claims' : d.name = c.name /\ KeepsValue(c, d)
  BY <1>1 DEF KeepsClaims, MayGo
<1>2. ASSUME NEW d \in claims', step = "writeLabels", d.value \in Claims!ValuesOf(expected, d.name)
      PROVE  Claims!LabelWrites(d.name)
  <2>1. Claims!ValuesOf(claims', d.name) = {d.value}
    BY DEF ClaimsHeld, Claims!ValuesOf, Claims!Of
  <2> QED
    BY <1>2, <2>1 DEF Claims!LabelWrites
<1>3. Claims!NoDowngrade
  <2> SUFFICES ASSUME NEW n \in {Claims!ProductName, Claims!PlatformName}, Claims!Specific(claims, n)
               PROVE  Claims!Specific(claims', n) \/ Claims!LabelWrites(n)
    BY DEF Claims!NoDowngrade
  <2>1. PICK c \in claims : c.name = n /\ c.value # "Other"
    BY DEF Claims!Specific, Claims!Of
  <2>2. PICK d \in claims' : d.name = n /\ KeepsValue(c, d)
    BY <1>1, <2>1, LastingNames
  <2> QED
    BY <1>2, <2>1, <2>2 DEF KeepsValue, Claims!Specific, Claims!Of
<1>4. Claims!IDNeverChanges
  <2> SUFFICES ASSUME Claims!IDs # {} PROVE Claims!IDs' = Claims!IDs \/ Claims!LabelWrites(Claims!IDName)
    BY DEF Claims!IDNeverChanges
  <2>1. PICK c \in claims : c.name = Claims!IDName
    BY DEF Claims!IDs, Claims!ValuesOf, Claims!Of
  <2>2. PICK d \in claims' : d.name = Claims!IDName /\ KeepsValue(c, d)
    BY <1>1, <2>1, LastingNames
  <2>3. Claims!IDs = {c.value} /\ Claims!IDs' = {d.value}
    BY <2>1, <2>2 DEF ClaimsHeld, Claims!IDs, Claims!ValuesOf, Claims!Of
  <2> QED
    BY <1>2, <2>1, <2>2, <2>3 DEF KeepsValue
<1>5. Claims!LastingClaimsStay
  BY <1>1 DEF Lasting, Claims!LastingClaimsStay, Claims!Names
<1>6. Claims!PlainClaimsStay
  BY DEF KeepsClaims, MayGo, Claims!PlainClaimsStay, Claims!Names
<1> QED
  BY <1>3, <1>4, <1>5, <1>6

\* A step that only has less in the way of claims that may go keeps what is held.
LEMMA FewerClaims ==
    ASSUME ClaimsHeld, ClaimsThere, claims' \subseteq claims, cached' = cached,
           \A c \in claims : c \in claims' \/ MayGo(c),
           step' \in {"clean", "labels", "writeLabels", "cleanLabels"}
                => step \in {"clean", "labels", "writeLabels", "cleanLabels"}
    PROVE  ClaimsHeld' /\ ClaimsThere' /\ KeepsClaims
<1>1. ClaimsHeld'
  BY DEF ClaimsHeld
<1>2. KeepsClaims
  BY DEF KeepsClaims, KeepsValue
<1>3. ClaimsThere'
  BY DEF ClaimsThere, MayGo, Claims!Names
<1> QED
  BY <1>1, <1>2, <1>3

\* createOrUpdateClusterClaim, for all or some of the expected claims.
LEMMA WriteClaims ==
    ASSUME ClaimsInv, NEW W, W \subseteq expected, OneEach(W), step \in {"write", "writeLabels"},
           claims' = Claims!Applied(claims, W, step = "write"), cached' = cached,
           step' = "clean" => Claims!Names(W) = Claims!Names(expected) /\ step = "write",
           step' \in {"idle", "clean", "cleanLabels"}, step' = "cleanLabels" => step = "writeLabels"
    PROVE  ClaimsHeld' /\ ClaimsThere' /\ KeepsClaims
<1> DEFINE checks == step = "write"
<1>1. checks \in BOOLEAN /\ OneEach(claims) /\ (\A c \in claims : IsClaim(c)) /\ (\A e \in W : HasValue(e))
  BY DEF ClaimsInv, ClaimsHeld, ClaimsExpected, OneEach
<1>2. ASSUME NEW e \in W, Claims!Of(claims, e.name) = {}
      PROVE  IsClaim(e)
  <2>1. CASE step = "write"
    BY <2>1 DEF ClaimsInv, ClaimsExpected
  <2>2. CASE step = "writeLabels"
    <3>1. e.kind = "customized" /\ HasValue(e)
      BY <2>2 DEF ClaimsInv, ClaimsExpected
    <3>2. e.name \notin Lasting
      BY <1>2, <2>2 DEF ClaimsInv, ClaimsThere, Claims!Names, Claims!Of
    <3> QED
      BY <3>1, <3>2 DEF IsClaim, RightKind
  <2> QED
    BY <2>1, <2>2
<1>3. /\ \A a \in claims' : IsClaim(a)
      /\ \A a, b \in claims' : a.name = b.name => a = b
      /\ \A e \in W : \E a \in claims' : a.name = e.name
      /\ \A c \in claims : \E a \in claims' :
            /\ a.name = c.name
            /\ a = c \/ \E e \in W : e.name = c.name /\ a = Claims!Written(c, e, checks)
  <2> HIDE DEF checks
  <2>1. ASSUME NEW S, NEW A, S = claims, A = claims'
        PROVE  /\ \A a \in claims' : IsClaim(a)
               /\ \A a, b \in claims' : a.name = b.name => a = b
               /\ \A e \in W : \E a \in claims' : a.name = e.name
               /\ \A c \in claims : \E a \in claims' :
                     /\ a.name = c.name
                     /\ a = c \/ \E e \in W : e.name = c.name /\ a = Claims!Written(c, e, checks)
    <3>1. A = Claims!Applied(S, W, checks)
      BY <2>1 DEF checks
    <3>2. \A e \in W : Claims!Of(S, e.name) = {} => IsClaim(e)
      BY <1>2, <2>1
    <3>3. OneEach(S) /\ \A c \in S : IsClaim(c)
      BY <1>1, <2>1
    <3>4. /\ \A a \in A : IsClaim(a)
          /\ OneEach(A)
          /\ Claims!Names(W) \subseteq Claims!Names(A)
          /\ \A c \in S : \E a \in A :
                /\ a.name = c.name
                /\ \/ a = c /\ c.name \notin Claims!Names(W)
                   \/ \E e \in W : e.name = c.name /\ a = Claims!Written(c, e, checks)
      BY <1>1, <3>1, <3>2, <3>3, AppliedFacts
    <3>5. (\A a, b \in A : a.name = b.name => a = b) /\ \A e \in W : \E a \in A : a.name = e.name
      BY <3>4 DEF OneEach, Claims!Names
    <3> QED
      BY <2>1, <3>4, <3>5
  <2> QED
    BY <2>1
<1>4. ClaimsHeld'
  BY <1>3 DEF ClaimsInv, ClaimsHeld, OneEach
<1>5. ClaimsThere'
  <2>1. CASE step' = "clean"
    <3>1. Lasting \subseteq Claims!Names(W)
      BY <2>1 DEF ClaimsInv, ClaimsExpected
    <3> QED
      BY <1>3, <3>1 DEF ClaimsThere, Claims!Names
  <2>2. CASE step' = "cleanLabels"
    <3>1. Lasting \subseteq Claims!Names(claims)
      BY <2>2 DEF ClaimsInv, ClaimsThere
    <3> QED
      BY <1>3, <3>1 DEF ClaimsThere, Claims!Names
  <2> QED
    BY <2>1, <2>2 DEF ClaimsThere
<1>6. ASSUME NEW c \in claims
      PROVE  \E d \in claims' : d.name = c.name /\ KeepsValue(c, d)
  <2>1. PICK a \in claims' : /\ a.name = c.name
                             /\ a = c \/ \E e \in W : e.name = c.name /\ a = Claims!Written(c, e, checks)
    BY <1>3
  <2>2. CASE a = c
    BY <2>1, <2>2 DEF KeepsValue
  <2>3. ASSUME NEW e \in W, e.name = c.name, a = Claims!Written(c, e, checks)
        PROVE  KeepsValue(c, a)
    <3>1. IsClaim(c) /\ HasValue(e) /\ e \in expected
      BY <1>1
    <3>2. CASE step = "write"
      BY <2>3, <3>1, <3>2, WrittenFacts DEF KeepsValue
    <3>3. CASE step = "writeLabels"
      <4>1. ~checks
        BY <3>3
      <4>2. a.value = e.value
        <5> HIDE DEF checks
        <5> QED
          BY <1>1, <2>3, <3>1, <4>1, WrittenFacts
      <4> QED
        BY <2>3, <3>1, <3>3, <4>2 DEF KeepsValue, Claims!ValuesOf, Claims!Of
    <3> QED
      BY <3>2, <3>3
  <2> QED
    BY <2>1, <2>2, <2>3
<1> QED
  BY <1>4, <1>5, <1>6 DEF KeepsClaims

\* cleanClusterClaims: what the cache calls hub-managed or customized, and no round expects, may go.
LEMMA UnexpectedFacts ==
    ASSUME ClaimsInv, NEW kind, <<step, kind>> \in {<<"clean", "hub-managed">>, <<"cleanLabels", "customized">>},
           NEW c \in claims, c.name \in Claims!Unexpected(kind)
    PROVE  MayGo(c)
<1>1. PICK k \in cached : k[1] = c.name /\ k[2] = kind
  BY DEF Claims!Unexpected
<1>2. c.name \notin Claims!Names(expected)
  BY DEF Claims!Unexpected
<1>3. <<c.name, kind>> \in cached /\ RightKind(c.name, kind) /\ RightKind(c.name, c.kind)
  BY <1>1 DEF ClaimsInv, ClaimsHeld, IsClaim
<1>4. CASE step = "clean" /\ kind = "hub-managed"
  BY <1>2, <1>3, <1>4 DEF ClaimsInv, ClaimsExpected, RightKind, MayGo
<1>5. CASE step = "cleanLabels" /\ kind = "customized"
  BY <1>3, <1>5 DEF RightKind, MayGo
<1> QED
  BY <1>4, <1>5

LEMMA CleanClaims ==
    ASSUME ClaimsInv, NEW kind, NEW next, Claims!CleanClusterClaims(kind, next), cached' = cached,
           <<step, kind>> \in {<<"clean", "hub-managed">>, <<"cleanLabels", "customized">>}
    PROVE  ClaimsHeld' /\ ClaimsThere' /\ KeepsClaims
<1>1. PICK U : U \subseteq Claims!Unexpected(kind) /\ claims' = {c \in claims : c.name \notin U}
  <2>1. CASE claims' = {c \in claims : c.name \notin Claims!Unexpected(kind)}
    BY <2>1
  <2>2. CASE \E L : claims' = {c \in claims : c.name \notin Claims!Unexpected(kind) \ L}
    BY <2>2
  <2> QED
    BY <2>1, <2>2, Zenon DEF Claims!CleanClusterClaims
<1>2. \A c \in claims : c \in claims' \/ MayGo(c)
  BY <1>1, UnexpectedFacts
<1>3. step \in {"clean", "labels", "writeLabels", "cleanLabels"}
  OBVIOUS
<1> QED
  BY <1>1, <1>2, <1>3, FewerClaims DEF ClaimsInv


\* No step of the cluster or of the controller takes or degrades a claim that must stay.
LEMMA HeldStep == ClaimsInv /\ [Claims!Next]_(Claims!vars) => ClaimsHeld' /\ ClaimsThere' /\ KeepsClaims
<1> SUFFICES ASSUME ClaimsInv, [Claims!Next]_(Claims!vars) PROVE ClaimsHeld' /\ ClaimsThere' /\ KeepsClaims
  OBVIOUS
<1>1. CASE /\ UNCHANGED <<claims, cached>>
         /\ \/ step' \in {step, "idle", "write"}
            \/ step = "labels"
  BY <1>1, FewerClaims DEF ClaimsInv
<1>2. CASE Claims!Deliver
  <2>1. claims' = claims /\ cached' = Claims!Kinds(claims) /\ step' = step
    BY <1>2 DEF Claims!Deliver
  <2>2. \A k \in cached' : \E c \in claims : k = <<c.name, c.kind>>
    BY <2>1 DEF Claims!Kinds
  <2>3. ClaimsHeld'
    BY <2>1, <2>2 DEF ClaimsInv, ClaimsHeld, IsClaim
  <2>4. ClaimsThere' /\ KeepsClaims
    BY <2>1 DEF ClaimsInv, ClaimsThere, KeepsClaims, KeepsValue, Claims!Names
  <2> QED
    BY <2>3, <2>4
<1>3. CASE Claims!CreateOrUpdate
  <2>1. PICK W \in Claims!Winners(expected) :
           \/ /\ claims' = Claims!Applied(claims, W, step = "write")
              /\ step' = IF step = "write" THEN "clean" ELSE "cleanLabels"
           \/ /\ \E L : claims' = Claims!Applied(claims, W \ L, step = "write")
              /\ step' = "idle"
    BY <1>3, Zenon DEF Claims!CreateOrUpdate, Claims!WriteExpected, Claims!Fails
  <2>2. cached' = cached /\ step \in {"write", "writeLabels"}
    BY <1>3, Zenon DEF Claims!CreateOrUpdate
  <2>3. /\ W \subseteq expected /\ OneEach(W) /\ Claims!Names(W) = Claims!Names(expected)
        /\ \A L : W \ L \subseteq expected /\ OneEach(W \ L)
    BY WinnersFacts
  <2>4. CASE /\ claims' = Claims!Applied(claims, W, step = "write")
           /\ step' = IF step = "write" THEN "clean" ELSE "cleanLabels"
    BY <2>2, <2>3, <2>4, WriteClaims
  <2>5. ASSUME NEW L, claims' = Claims!Applied(claims, W \ L, step = "write"), step' = "idle"
        PROVE  ClaimsHeld' /\ ClaimsThere' /\ KeepsClaims
    BY <2>2, <2>3, <2>5, WriteClaims
  <2> QED
    BY <2>1, <2>4, <2>5
<1>4. CASE Claims!Clean
  <2>1. PICK next : step = "clean" /\ Claims!CleanClusterClaims("hub-managed", next) /\ cached' = cached
    BY <1>4, Zenon DEF Claims!Clean
  <2> QED
    BY <2>1, CleanClaims
<1>5. CASE Claims!CleanLabels
  <2>1. step = "cleanLabels" /\ Claims!CleanClusterClaims("customized", "idle") /\ cached' = cached
    BY <1>5, Zenon DEF Claims!CleanLabels
  <2> QED
    BY <2>1, CleanClaims
<1>6. Claims!WorldChanges \/ Claims!NodeEvent \/ Claims!GetExpected \/ Claims!GetExpectedFails
        \/ UNCHANGED Claims!vars => UNCHANGED <<claims, cached>> /\ step' \in {step, "idle", "write"}
  BY DEF Claims!WorldChanges, Claims!NodeEvent, Claims!GetExpected, Claims!GetExpectedFails, Claims!Fails,
     Claims!vars
<1>7. Claims!GenLabelsToClaims => UNCHANGED <<claims, cached>> /\ step = "labels"
  BY Zenon DEF Claims!GenLabelsToClaims
<1> QED
  BY <1>1, <1>2, <1>3, <1>4, <1>5, <1>6, <1>7, Zenon DEF Claims!Next, Claims!Worker

\* What a round expects: the cluster's own claims first, then those of the labels.
LEMMA ExpectedStep == ClaimsInv /\ [Claims!Next]_(Claims!vars) => ClaimsExpected'
<1> SUFFICES ASSUME ClaimsInv, [Claims!Next]_(Claims!vars) PROVE ClaimsExpected'
  OBVIOUS
<1>1. CASE Claims!GetExpected
  <2>1. PICK lost, kubeSystem :
           expected' = Claims!ExpectedClaims(facts, lost, kubeSystem, Claims!ClusterSchedulable(nodes))
    BY <1>1, Zenon DEF Claims!GetExpected
  <2>2. Claims!ClusterSchedulable(nodes) \in {"true", "false"}
    BY DEF Claims!ClusterSchedulable
  <2>3. Claims!NotEmpty(facts)
    BY FactsNotEmpty DEF ClaimsInv
  <2>4. (\A e \in expected' : IsClaim(e)) /\ Lasting \subseteq Claims!Names(expected')
    BY <2>1, <2>2, <2>3, ExpectedFacts
  <2>5. step' = "write"
    BY <1>1, Zenon DEF Claims!GetExpected
  <2> QED
    BY <2>4, <2>5 DEF ClaimsExpected, Claims!Names, IsClaim
<1>2. CASE Claims!GenLabelsToClaims
  <2>1. \/ step' = "writeLabels" /\ expected' = Claims!LabelClaims(labels)
        \/ step' = "idle" /\ expected' = expected
    BY <1>2, Zenon DEF Claims!GenLabelsToClaims, Claims!Fails
  <2>2. \A e \in Claims!LabelClaims(labels) : HasValue(e) /\ e.kind = "customized"
    BY LabelFacts
  <2> QED
    BY <2>1, <2>2 DEF ClaimsInv, ClaimsExpected
<1>3. CASE /\ UNCHANGED expected
         /\ \/ step' \in {step, "idle"}
            \/ <<step, step'>> \in {<<"write", "clean">>, <<"clean", "labels">>, <<"writeLabels", "cleanLabels">>}
  BY <1>3 DEF ClaimsInv, ClaimsExpected, Claims!Names
<1>4. UNCHANGED Claims!vars \/ Claims!WorldChanges \/ Claims!NodeEvent \/ Claims!Deliver
        \/ Claims!GetExpectedFails => UNCHANGED expected /\ step' \in {step, "idle"}
  BY DEF Claims!vars, Claims!WorldChanges, Claims!NodeEvent, Claims!Deliver, Claims!GetExpectedFails, Claims!Fails
<1>5. CASE Claims!CreateOrUpdate
  <2>1. /\ expected' = expected /\ step \in {"write", "writeLabels"}
        /\ step' # "idle" => step' = IF step = "write" THEN "clean" ELSE "cleanLabels"
    BY <1>5, Zenon DEF Claims!CreateOrUpdate, Claims!WriteExpected, Claims!Fails
  <2> QED
    BY <1>3, <2>1
<1>6. CASE Claims!Clean
  <2>1. expected' = expected /\ step = "clean" /\ step' \in {"idle", "labels"}
    BY <1>6 DEF Claims!Clean, Claims!CleanClusterClaims, Claims!Fails
  <2> QED
    BY <1>3, <2>1
<1>7. CASE Claims!CleanLabels
  <2>1. expected' = expected /\ step' = "idle"
    BY <1>7 DEF Claims!CleanLabels, Claims!CleanClusterClaims, Claims!Fails
  <2> QED
    BY <1>3, <2>1
<1> QED
  <2>1. UNCHANGED Claims!vars \/ Claims!WorldChanges \/ Claims!NodeEvent \/ Claims!Deliver \/ Claims!GetExpectedFails
          => ClaimsExpected'
    BY <1>3, <1>4, Zenon
  <2> QED
    BY <1>1, <1>2, <1>5, <1>6, <1>7, <2>1, Zenon DEF Claims!Next, Claims!Worker

LEMMA ClaimsStep == ClaimsInv /\ [Claims!Next]_(Claims!vars) => ClaimsInv' /\ KeepsClaims
<1> SUFFICES ASSUME ClaimsInv, [Claims!Next]_(Claims!vars) PROVE ClaimsInv' /\ KeepsClaims
  OBVIOUS
<1>1. ClaimsFlags'
  BY Zenon DEF ClaimsInv, ClaimsFlags, Claims!Next, Claims!vars, Claims!WorldChanges, Claims!NodeEvent,
     Claims!Deliver, Claims!Fails, Claims!GetExpected, Claims!GetExpectedFails, Claims!WriteExpected,
     Claims!CreateOrUpdate, Claims!CleanClusterClaims, Claims!Clean, Claims!GenLabelsToClaims, Claims!CleanLabels,
     Claims!Worker, Claims!worldVars
<1>2. ClaimsBounded'
  <2>1. \/ UNCHANGED <<partChurn, partFaults>>
        \/ partChurn < Bound.claims.churn /\ partChurn' = partChurn + 1 /\ UNCHANGED partFaults
        \/ partFaults < Bound.claims.faults /\ partFaults' = partFaults + 1 /\ UNCHANGED partChurn
    BY Zenon DEF Claims!Next, Claims!vars, Claims!WorldChanges, Claims!NodeEvent,
       Claims!Deliver, Claims!Fails, Claims!GetExpected, Claims!GetExpectedFails, Claims!WriteExpected,
       Claims!CreateOrUpdate, Claims!CleanClusterClaims, Claims!Clean, Claims!GenLabelsToClaims, Claims!CleanLabels,
       Claims!Worker
  <2> QED
    BY <2>1, ClaimsBounds DEF ClaimsInv, ClaimsBounded
<1>3. ClaimsWorld'
  <2>1. Claims!WorldChanges \/ UNCHANGED <<facts, nodes, labels>>
    BY Zenon DEF Claims!Next, Claims!vars, Claims!worldVars, Claims!NodeEvent,
       Claims!Deliver, Claims!GetExpected, Claims!GetExpectedFails,
       Claims!CreateOrUpdate, Claims!Clean, Claims!GenLabelsToClaims, Claims!CleanLabels, Claims!Worker
  <2> QED
    BY <2>1, WorldStep DEF ClaimsInv, ClaimsWorld
<1> QED
  BY <1>1, <1>2, <1>3, HeldStep, ExpectedStep DEF ClaimsInv


-----------------------------------------------------------------------------
(***************************************************************************)
(* The view (ViewQuery).  A copy that is still fresh is of the scope that  *)
(* the view has; what it would write, and what is written already, is a    *)
(* result of the kind that scope names, and never of secrets.              *)
(***************************************************************************)
GoodStatus(st) ==
    /\ st \in Query!Statuses
    /\ st.of = NoScope <=> st.result = Absent
    /\ st.of # Secrets
GoodView(v) == v \in [scope : Query!Scopes, status : Query!Statuses] /\ GoodStatus(v.status)

ViewFlags == viewLag \in BOOLEAN /\ partQueued \in BOOLEAN /\ viewFresh \in BOOLEAN
ViewBounded == partChurn \in 0..Bound.view.churn /\ partFaults \in 0..Bound.view.faults
ViewCluster ==
    /\ objects \in [ViewKinds -> Values \cup {Absent}]
    /\ viewInstalled \subseteq ViewKinds /\ viewKnown \subseteq ViewKinds
ViewCopies ==
    /\ scope \in Query!Scopes /\ GoodStatus(viewStatus) /\ GoodView(viewSeen) /\ GoodView(viewCopy)
    /\ step \in {"idle", "query", "report"}
SeenExact == ~viewLag => viewSeen = Query!View
CopyFresh ==
    viewFresh =>
       /\ step # "idle" => viewCopy.scope = scope
       /\ step = "query" => viewCopy.status = viewStatus
       /\ step = "report" /\ viewCopy.status.result # viewStatus.result =>
             viewCopy.status.of = KindOf[viewCopy.scope]

ViewInv == ViewFlags /\ ViewBounded /\ ViewCluster /\ ViewCopies /\ SeenExact /\ CopyFresh

LEMMA ViewBounds == Bound.view.churn \in Nat /\ Bound.view.faults \in Nat
  BY BoundAssumption

LEMMA ViewType == ViewInv => Query!TypeOK /\ Query!SecretsNotShown
<1> SUFFICES ASSUME ViewInv PROVE Query!TypeOK /\ Query!SecretsNotShown
  OBVIOUS
<1>1. {viewLag, partQueued, viewFresh} \subseteq BOOLEAN
  BY Zenon DEF ViewInv, ViewFlags
<1>2. \A v \in {viewSeen, viewCopy} : v.scope \in Query!Scopes /\ v.status \in Query!Statuses
  BY DEF ViewInv, ViewCopies, GoodView
<1> QED
  BY <1>1, <1>2, Zenon DEF ViewInv, ViewBounded, ViewCluster, ViewCopies, GoodStatus, Query!TypeOK,
     Query!SecretsNotShown

\* The status at the beginning, and after each outcome of a query or the end of an interval.
LEMMA ViewStatusFacts ==
    /\ GoodStatus(Query!NoStatus)
    /\ \A st : GoodStatus(st) =>
          /\ GoodStatus(Query!Failed(st)) /\ Query!Failed(st).result = st.result
          /\ GoodStatus(Query!Settled(st)) /\ Query!Settled(st).result = st.result
          /\ Query!Settled(st).of = st.of
<1>1. GoodStatus(Query!NoStatus)
  BY ViewAssumption DEF GoodStatus, Query!NoStatus, Query!Statuses, Query!KindsAssumption
<1>2. ASSUME NEW st, GoodStatus(st)
      PROVE  /\ GoodStatus(Query!Failed(st)) /\ Query!Failed(st).result = st.result
             /\ GoodStatus(Query!Settled(st)) /\ Query!Settled(st).result = st.result
             /\ Query!Settled(st).of = st.of
  BY <1>2 DEF GoodStatus, Query!Failed, Query!Settled, Query!Statuses
<1> QED
  BY <1>1, <1>2

LEMMA FoundFacts ==
    ASSUME ViewCluster, NEW st, GoodStatus(st), NEW s, Query!Readable(s), s \in Query!Scopes
    PROVE  /\ GoodStatus(Query!Found(st, KindOf[s]))
           /\ Query!Found(st, KindOf[s]).of = KindOf[s]
  BY ViewAssumption DEF GoodStatus, Query!Found, Query!Statuses, Query!KindsAssumption, Query!Scopes,
     Query!Readable, Query!Mapped, Query!Hidden, ViewCluster


LEMMA ViewInit == Query!Init => ViewInv
<1> SUFFICES ASSUME Query!Init PROVE ViewInv
  OBVIOUS
<1>1. ViewFlags
  BY Zenon DEF Query!Init, ViewFlags
<1>2. ViewBounded
  BY ViewBounds DEF Query!Init, ViewBounded
<1>3. ViewCluster
  BY ViewAssumption DEF Query!Init, ViewCluster, Query!KindsAssumption
<1>4. ViewCopies
  BY ViewStatusFacts DEF Query!Init, ViewCopies, GoodView, GoodStatus, Query!View
<1>5. SeenExact /\ CopyFresh
  BY DEF Query!Init, SeenExact, CopyFresh
<1> QED
  BY <1>1, <1>2, <1>3, <1>4, <1>5 DEF ViewInv

\* What one step may do to the status and the copies of the view.
LEMMA QueryFacts ==
    ASSUME ViewCluster, ViewCopies, Query!QueryResource
    PROVE  /\ GoodView(viewCopy') /\ viewCopy'.scope = viewCopy.scope
           /\ \/ viewCopy'.status.result = viewCopy.status.result
              \/ viewCopy'.status.of = KindOf[viewCopy.scope]
<1>1. PICK st : /\ viewCopy' = [viewCopy EXCEPT !.status = st]
                /\ GoodStatus(st)
                /\ \/ st.result = viewCopy.status.result
                   \/ st.of = KindOf[viewCopy.scope]
  <2>1. CASE Query!Readable(viewCopy.scope) /\ viewCopy' = [viewCopy EXCEPT !.status = Query!Found(@, KindOf[viewCopy.scope])]
    <3> DEFINE st == Query!Found(viewCopy.status, KindOf[viewCopy.scope])
    <3>1. viewCopy.scope \in Query!Scopes /\ GoodStatus(viewCopy.status)
      BY DEF ViewCopies, GoodView
    <3>2. GoodStatus(st) /\ st.of = KindOf[viewCopy.scope]
      BY <2>1, <3>1, FoundFacts, Zenon
    <3>3. viewCopy' = [viewCopy EXCEPT !.status = st]
      BY <2>1
    <3> HIDE DEF st
    <3> QED
      BY <3>2, <3>3
  <2>2. CASE viewCopy' = [viewCopy EXCEPT !.status = Query!Failed(@)]
    BY <2>2, ViewStatusFacts DEF ViewCopies, GoodView
  <2> QED
    BY <2>1, <2>2, Zenon DEF Query!QueryResource
<1>2. viewCopy' = [scope |-> viewCopy.scope, status |-> st]
  BY <1>1 DEF ViewCopies, GoodView
<1> QED
  BY <1>1, <1>2 DEF ViewCopies, GoodView, GoodStatus

LEMMA IntervalFacts ==
    ASSUME NEW v, GoodView(v)
    PROVE  LET w == [v EXCEPT !.status = Query!Settled(@)]
           IN  GoodView(w) /\ w = [scope |-> v.scope, status |-> Query!Settled(v.status)]
<1>1. [v EXCEPT !.status = Query!Settled(@)] = [scope |-> v.scope, status |-> Query!Settled(v.status)]
  BY DEF GoodView
<1> QED
  BY <1>1, ViewStatusFacts DEF GoodView, GoodStatus

LEMMA CopiesStep == ViewInv /\ [Query!Next]_(Query!vars) => ViewCopies' /\ SeenExact' /\ CopyFresh' /\ Query!WritesResult
<1> SUFFICES ASSUME ViewInv, [Query!Next]_(Query!vars)
             PROVE  ViewCopies' /\ SeenExact' /\ CopyFresh' /\ Query!WritesResult
  OBVIOUS
<1> USE DEF ViewCopies, SeenExact, CopyFresh, Query!View, Query!WritesResult
<1>0. ViewFlags /\ ViewCluster /\ ViewCopies /\ SeenExact /\ CopyFresh
  BY DEF ViewInv
<1>1. CASE UNCHANGED Query!vars
  BY <1>0, <1>1 DEF Query!vars, Query!viewVars, Query!agentVars
<1>2. CASE Query!OthersChange
  <2>1. /\ \/ scope' = scope /\ viewFresh' = viewFresh /\ viewLag' = viewLag
           \/ scope' \in Query!Scopes /\ viewLag' = TRUE /\ viewFresh' = FALSE
        /\ UNCHANGED <<viewStatus, viewSeen, step, viewCopy>>
    BY <1>2, Zenon DEF Query!OthersChange
  <2> QED
    BY <1>0, <2>1
<1>3. CASE Query!Deliver
  BY <1>0, <1>3 DEF Query!Deliver, GoodView, GoodStatus
<1>4. CASE Query!IntervalEnds
  <2>1. /\ viewStatus' = Query!Settled(viewStatus)
        /\ GoodView(viewSeen') /\ viewSeen' = [scope |-> viewSeen.scope, status |-> Query!Settled(viewSeen.status)]
        /\ GoodView(viewCopy') /\ viewCopy' = [scope |-> viewCopy.scope, status |-> Query!Settled(viewCopy.status)]
        /\ UNCHANGED <<scope, viewLag, step, viewFresh>>
    BY <1>0, <1>4, IntervalFacts DEF Query!IntervalEnds
  <2>2. /\ GoodStatus(viewStatus') /\ viewStatus'.result = viewStatus.result
        /\ viewCopy'.status.result = viewCopy.status.result /\ viewCopy'.status.of = viewCopy.status.of
    BY <1>0, <2>1, ViewStatusFacts DEF GoodView
  <2> QED
    BY <1>0, <2>1, <2>2
<1>5. CASE Query!Requeue
  BY <1>0, <1>5 DEF Query!Requeue, Query!viewVars
<1>6. CASE Query!Start
  <2>1. /\ UNCHANGED <<scope, viewStatus, viewSeen, viewLag>> /\ step' \in {"idle", "query"}
        /\ viewCopy' = viewSeen /\ (viewFresh' <=> ~viewLag)
    BY <1>6, Zenon DEF Query!Start, Query!viewVars
  <2> QED
    BY <1>0, <2>1
<1>7. CASE Query!QueryResource
  <2>1. step = "query" /\ step' = "report" /\ UNCHANGED <<scope, viewStatus, viewSeen, viewLag, viewFresh>>
    BY <1>7 DEF Query!QueryResource, Query!viewVars
  <2> QED
    BY <1>0, <1>7, <2>1, QueryFacts
<1>8. CASE Query!Report
  <2>1. /\ step = "report" /\ step' = "idle" /\ UNCHANGED <<scope, viewSeen, viewCopy, viewFresh>>
        /\ \/ viewFresh /\ viewStatus' = viewCopy.status /\ viewLag' = (viewLag \/ viewStatus' # viewStatus)
           \/ UNCHANGED <<viewStatus, viewLag>>
    BY <1>8, Zenon DEF Query!Report, Query!Refused
  <2> QED
    BY <1>0, <2>1 DEF GoodView
<1>9. CASE Query!Restart
  BY <1>0, <1>9 DEF Query!Restart, GoodView, GoodStatus
<1> QED
  BY <1>1, <1>2, <1>3, <1>4, <1>5, <1>6, <1>7, <1>8, <1>9 DEF Query!Next, Query!Agent

LEMMA ViewStep == ViewInv /\ [Query!Next]_(Query!vars) => ViewInv' /\ Query!WritesResult
<1> SUFFICES ASSUME ViewInv, [Query!Next]_(Query!vars) PROVE ViewInv' /\ Query!WritesResult
  OBVIOUS
<1>1. ViewFlags'
  BY Zenon DEF ViewInv, ViewFlags, Query!Next, Query!vars, Query!viewVars, Query!agentVars, Query!OthersChange,
     Query!Deliver, Query!IntervalEnds, Query!Requeue, Query!Agent, Query!Start, Query!QueryResource, Query!Report,
     Query!Restart
<1>2. ViewBounded'
  <2>1. \/ UNCHANGED <<partChurn, partFaults>>
        \/ partChurn < Bound.view.churn /\ partChurn' = partChurn + 1 /\ UNCHANGED partFaults
        \/ partFaults < Bound.view.faults /\ partFaults' = partFaults + 1 /\ UNCHANGED partChurn
    BY Zenon DEF Query!Next, Query!vars, Query!OthersChange, Query!Deliver, Query!IntervalEnds, Query!Requeue,
       Query!Agent, Query!Start, Query!QueryResource, Query!Report, Query!Restart
  <2> QED
    BY <2>1, ViewBounds DEF ViewInv, ViewBounded
<1>3. ViewCluster'
  <2>1. \/ UNCHANGED <<objects, viewInstalled>>
        \/ /\ \E k \in viewInstalled, v \in Values \cup {Absent} : objects' = [objects EXCEPT ![k] = v]
           /\ UNCHANGED viewInstalled
        \/ \E k \in ViewKinds : viewInstalled' = viewInstalled \cup {k} /\ UNCHANGED objects
        \/ \E k \in ViewKinds : viewInstalled' = viewInstalled \ {k} /\ objects' = [objects EXCEPT ![k] = Absent]
    BY Zenon DEF Query!Next, Query!vars, Query!clusterVars, Query!OthersChange, Query!Deliver, Query!IntervalEnds,
       Query!Requeue, Query!Agent, Query!Start, Query!QueryResource, Query!Report, Query!Restart
  <2>2. viewKnown' \in {viewKnown, viewInstalled, {}}
    BY Zenon DEF Query!Next, Query!vars, Query!OthersChange, Query!Deliver, Query!IntervalEnds,
       Query!Requeue, Query!Agent, Query!Start, Query!QueryResource, Query!Reloaded, Query!Report, Query!Restart
  <2> QED
    BY <2>1, <2>2 DEF ViewInv, ViewCluster
<1> QED
  BY <1>1, <1>2, <1>3, CopiesStep DEF ViewInv

-----------------------------------------------------------------------------
(***************************************************************************)
(* The client configs (ClientConfig).  A cache from which nothing is due   *)
(* is exact, so a copy that is still fresh is the list itself: the list    *)
(* with the own entry merged in keeps what others have there, because the  *)
(* addresses by which the own entry is found are never theirs.             *)
(***************************************************************************)
ConfigFlags ==
    /\ reportFresh \in BOOLEAN /\ caQueue \in BOOLEAN /\ infoFresh \in BOOLEAN /\ configsFresh \in BOOLEAN
    /\ infoQueue \in BOOLEAN
    /\ apc \in {"idle", "write"} /\ step \in {"idle", "cluster", "status"}
ConfigBounded == partChurn \in 0..Bound.config.churn /\ partFaults \in 0..Bound.config.faults
ConfigInfos ==
    /\ server \in [url : Urls, ca : Cas]
    /\ info \in Config!Info /\ infoSeen \in Config!Info /\ infoCopy \in Config!Info /\ report \in Config!Info
    /\ infoWire \in Seq(Config!Info)
ConfigLists ==
    /\ configs \in Seq(Config!Config) /\ configsSeen \in Seq(Config!Config) /\ configsCopy \in Seq(Config!Config)
    /\ configsWire \in Seq(Seq(Config!Config))
WireExact ==
    /\ configsWire = <<>> => configsSeen = configs
    /\ configsWire # <<>> => configsWire[Len(configsWire)] = configs
ListFresh == step = "cluster" /\ configsFresh => configsCopy = configs

ConfigInv == ConfigFlags /\ ConfigBounded /\ ConfigInfos /\ ConfigLists /\ WireExact /\ ListFresh

LEMMA ConfigBounds == Bound.config.churn \in Nat /\ Bound.config.faults \in Nat
  BY BoundAssumption

LEMMA ConfigType == ConfigInv => Config!TypeOK
<1> SUFFICES ASSUME ConfigInv PROVE Config!TypeOK
  OBVIOUS
<1>1. {reportFresh, caQueue, infoFresh, configsFresh, infoQueue} \subseteq BOOLEAN
  BY Zenon DEF ConfigInv, ConfigFlags
<1>2. \A s \in {configs, configsSeen, configsCopy} : s \in Seq(Config!Config)
  BY DEF ConfigInv, ConfigLists
<1> QED
  BY <1>1, <1>2, Zenon DEF ConfigInv, ConfigFlags, ConfigBounded, ConfigInfos, ConfigLists, Config!TypeOK

\* The parts of a status, and the ways it is changed.
LEMMA InfoFacts ==
    ASSUME NEW i \in Config!Info
    PROVE  /\ i.config.url \in Urls \cup {NoUrl} /\ i.last \in Urls \cup {NoUrl}
           /\ i.config.url # NoUrl => i.config \in [url : Urls, ca : Cas]
           /\ \A c \in [url : Urls, ca : Cas] \cup {Config!NoConfig} : [i EXCEPT !.config = c] \in Config!Info
           /\ \A u \in Urls \cup {NoUrl} : [i EXCEPT !.last = u] \in Config!Info
           /\ \A c \in [url : Urls, ca : Cas] \cup {Config!NoConfig} :
                 [i EXCEPT !.config = c, !.last = NoUrl] \in Config!Info
           /\ \A u \in Urls \cup {OtherUrl, NoUrl} : [i EXCEPT !.endpoint = u] \in Config!Info
<1> DEFINE C == [url : Urls, ca : Cas] \cup {Config!NoConfig}
           L == Urls \cup {NoUrl}
           E == Urls \cup {OtherUrl, NoUrl}
<1>1. Config!Info = [config : C, last : L, endpoint : E]
  BY DEF Config!Info
<1>2. \A c \in C : c.url \in L /\ (c.url # NoUrl => c \in [url : Urls, ca : Cas])
  BY DEF Config!NoConfig
<1> HIDE DEF C, L, E
<1>3. i.config \in C /\ i.last \in L /\ i.endpoint \in E
  BY <1>1
<1>4. \A c \in C, u \in L :
        /\ [i EXCEPT !.config = c] \in Config!Info
        /\ [i EXCEPT !.last = u] \in Config!Info
        /\ [i EXCEPT !.config = c, !.last = u] \in Config!Info
  BY <1>1
<1>5. \A u \in E : [i EXCEPT !.endpoint = u] \in Config!Info
  BY <1>1
<1>6. NoUrl \in L
  BY DEF L
<1> QED
  BY <1>2, <1>3, <1>4, <1>5, <1>6 DEF C, L, E

LEMMA ListFacts ==
    ASSUME NEW cs \in Seq(Config!Config)
    PROVE  /\ Config!FirstUrl(cs) \in Urls \cup {OtherUrl, NoUrl}
           /\ Cas # {} => Append(cs, Config!Others) \in Seq(Config!Config)
           /\ \A i \in DOMAIN cs : Config!RemoveAt(cs, i) \in Seq(Config!Config)
<1>1. Config!FirstUrl(cs) \in Urls \cup {OtherUrl, NoUrl}
  <2>1. \A c \in Config!Config : c.url \in Urls \cup {OtherUrl}
    BY DEF Config!Config
  <2>2. cs # <<>> => cs[1] \in Config!Config
    BY EmptySeq, ElementOfSeq
  <2> QED
    BY <2>1, <2>2 DEF Config!FirstUrl
<1>2. ASSUME Cas # {} PROVE Append(cs, Config!Others) \in Seq(Config!Config)
  <2>1. (CHOOSE k \in Cas : TRUE) \in Cas
    BY <1>2
  <2>2. Config!Others \in Config!Config
    BY <2>1 DEF Config!Others, Config!Config
  <2> QED
    BY <2>2, AppendProperties
<1>3. ASSUME NEW i \in DOMAIN cs PROVE Config!RemoveAt(cs, i) \in Seq(Config!Config)
  <2>1. i \in 1..Len(cs) /\ Len(cs) \in Nat
    BY LenProperties
  <2>2. SubSeq(cs, 1, i - 1) \in Seq(Config!Config) /\ SubSeq(cs, i + 1, Len(cs)) \in Seq(Config!Config)
    <3>1. \A j \in 1..Len(cs) : cs[j] \in Config!Config
      BY ElementOfSeq
    <3>2. \A j \in 1..(i - 1) : cs[j] \in Config!Config
      BY <2>1, <3>1
    <3>3. \A j \in (i + 1)..Len(cs) : cs[j] \in Config!Config
      BY <2>1, <3>1
    <3> QED
      BY <2>1, <3>2, <3>3, SubSeqProperties
  <2> QED
    BY <2>2, ConcatProperties DEF Config!RemoveAt
<1> QED
  BY <1>1, <1>2, <1>3

\* A position that has a property: there is a first one.
LEMMA FirstOf ==
    ASSUME NEW n \in Nat, NEW T, T \subseteq 1..n, T # {}
    PROVE  \E i \in T : \A j \in 1..(i - 1) : j \notin T
<1>1. T \subseteq Nat
  OBVIOUS
<1>2. PICK i \in T : \A j \in T : <<j, i>> \notin OpToRel(<, Nat)
  BY <1>1, NatLessThanWellFounded, WFMin
<1>3. \A j \in T : ~(j < i)
  BY <1>1, <1>2 DEF OpToRel
<1> QED
  BY <1>3

\* updateClientConfig: what others have in the list stays, at its place or one further.
LEMMA UpdateFacts ==
    ASSUME NEW cs \in Seq(Config!Config), NEW config, NEW last \in Urls \cup {NoUrl},
           config.url # NoUrl => config \in [url : Urls, ca : Cas]
    PROVE  LET ds == Config!UpdateClientConfig(cs, config, last)
           IN  ds \in Seq(Config!Config) /\ Config!SameOthers(cs, ds)
<1> DEFINE Known(i) == cs[i].url \in {config.url, last}
           first == CHOOSE i \in DOMAIN cs : Known(i) /\ \A j \in 1..(i - 1) : ~Known(j)
           ds == Config!UpdateClientConfig(cs, config, last)
<1>0. Len(cs) \in Nat /\ DOMAIN cs = 1..Len(cs) /\ \A i \in 1..Len(cs) : cs[i] \in Config!Config
  BY LenProperties, ElementOfSeq
<1>1. CASE config.url = NoUrl
  <2>1. ds = cs
    BY <1>1 DEF Config!UpdateClientConfig
  <2>2. Config!SameOthers(cs, cs)
    <3>1. /\ Len(cs) = Len(cs) + 0
          /\ \A i \in 1..0 : ~Config!IsOthers(cs[i])
          /\ \A i \in DOMAIN cs : cs[i + 0] = cs[i]
      BY <1>0
    <3> QED
      BY <3>1 DEF Config!SameOthers
  <2> QED
    BY <2>1, <2>2
<1>2. CASE config.url # NoUrl /\ \E i \in DOMAIN cs : Known(i)
  <2>1. \E i \in DOMAIN cs : Known(i) /\ \A j \in 1..(i - 1) : ~Known(j)
    <3> DEFINE T == {i \in 1..Len(cs) : Known(i)}
    <3>1. T \subseteq 1..Len(cs) /\ T # {}
      BY <1>0, <1>2
    <3>2. PICK i \in T : \A j \in 1..(i - 1) : j \notin T
      BY <1>0, <3>1, FirstOf
    <3>3. \A j \in 1..(i - 1) : j \in 1..Len(cs)
      BY <1>0, <3>2
    <3> QED
      BY <1>0, <3>2, <3>3
  <2>2. first \in DOMAIN cs /\ Known(first)
    BY <2>1
  <2>3. ds = [cs EXCEPT ![first] = config]
    BY <1>2 DEF Config!UpdateClientConfig
  <2> HIDE DEF first, ds
  <2>4. first \in 1..Len(cs) /\ config \in Config!Config /\ config.url \in Urls
    BY <1>0, <1>2, <2>2 DEF Config!Config
  <2>5. /\ ds \in Seq(Config!Config) /\ Len(ds) = Len(cs)
        /\ \A j \in 1..Len(cs) : ds[j] = IF j = first THEN config ELSE cs[j]
    BY <2>3, <2>4, ExceptSeq
  <2>6. ~Config!IsOthers(cs[first]) /\ ~Config!IsOthers(config)
    BY <2>2, <2>4, ConfigAssumption DEF Config!IsOthers, Config!UrlsAssumption
  <2>7. /\ Len(ds) = Len(cs) + 0
        /\ \A i \in 1..0 : ~Config!IsOthers(ds[i])
        /\ \A i \in DOMAIN cs : Config!IsOthers(cs[i]) \/ Config!IsOthers(ds[i + 0]) => ds[i + 0] = cs[i]
    BY <1>0, <2>5, <2>6
  <2> QED
    BY <2>5, <2>7 DEF Config!SameOthers, ds
<1>3. CASE config.url # NoUrl /\ ~\E i \in DOMAIN cs : Known(i)
  <2>1. ds = <<config>> \o cs
    BY <1>3 DEF Config!UpdateClientConfig
  <2> HIDE DEF ds
  <2>2. config \in Config!Config /\ ~Config!IsOthers(config)
    BY <1>3, ConfigAssumption DEF Config!Config, Config!IsOthers, Config!UrlsAssumption
  <2>3. <<config>> \in Seq(Config!Config) /\ Len(<<config>>) = 1 /\ <<config>>[1] = config
    BY <2>2
  <2>4. /\ ds \in Seq(Config!Config) /\ Len(ds) = 1 + Len(cs)
        /\ \A i \in 1..(1 + Len(cs)) : ds[i] = IF i <= 1 THEN <<config>>[i] ELSE cs[i - 1]
    BY <2>1, <2>3, ConcatProperties
  <2>5. /\ Len(ds) = Len(cs) + 1
        /\ \A i \in 1..1 : ~Config!IsOthers(ds[i])
        /\ \A i \in DOMAIN cs : ds[i + 1] = cs[i]
    BY <1>0, <2>2, <2>3, <2>4
  <2> QED
    BY <2>4, <2>5 DEF Config!SameOthers, ds
<1> QED
  BY <1>1, <1>2, <1>3

LEMMA ConfigInit == Config!Init => ConfigInv
<1> SUFFICES ASSUME Config!Init PROVE ConfigInv
  OBVIOUS
<1>1. ConfigFlags
  BY Zenon DEF Config!Init, ConfigFlags
<1>2. ConfigBounded
  BY ConfigBounds DEF Config!Init, ConfigBounded
<1>3. configs \in Seq(Config!Config) /\ server \in [url : Urls, ca : Cas]
  <2>1. server \in [url : Urls, ca : Cas] /\ configs \in {<<>>, <<Config!Others>>}
    BY Zenon DEF Config!Init
  <2>2. (CHOOSE k \in Cas : TRUE) \in Cas
    BY <2>1
  <2>3. Config!Others \in Config!Config
    BY <2>2 DEF Config!Others, Config!Config
  <2>4. <<>> \in Seq(Config!Config) /\ <<Config!Others>> \in Seq(Config!Config)
    BY <2>3
  <2> QED
    BY <2>1, <2>4, Zenon
<1>4. ConfigLists /\ WireExact /\ ListFresh
  BY <1>3 DEF Config!Init, ConfigLists, WireExact, ListFresh
<1>5. ConfigInfos
  <2>1. Config!FirstUrl(configs) \in Urls \cup {OtherUrl, NoUrl}
    BY <1>3, ListFacts
  <2>2. [config |-> Config!NoConfig, last |-> NoUrl, endpoint |-> Config!FirstUrl(configs)] \in Config!Info
    BY <2>1 DEF Config!Info
  <2> QED
    BY <1>3, <2>2 DEF Config!Init, ConfigInfos
<1> QED
  BY <1>1, <1>2, <1>4, <1>5 DEF ConfigInv

\* What one step may do to the status of the ManagedClusterInfo and to its copies.
LEMMA InfosStep == ConfigInv /\ [Config!Next]_(Config!vars) => ConfigInfos'
<1> SUFFICES ASSUME ConfigInv, [Config!Next]_(Config!vars) PROVE ConfigInfos'
  OBVIOUS
<1>0. ConfigInfos /\ ConfigLists
  BY DEF ConfigInv
<1>1. ASSUME NEW i \in Config!Info, Config!CommitInfo(i), UNCHANGED <<server, infoCopy>>, report' = report
      PROVE  ConfigInfos'
  <2>1. infoWire' \in Seq(Config!Info)
    BY <1>0, <1>1, AppendProperties DEF Config!CommitInfo, ConfigInfos
  <2> QED
    BY <1>0, <1>1, <2>1 DEF Config!CommitInfo, ConfigInfos
<1>2. ASSUME NEW i \in Config!Info, report' = i, UNCHANGED <<server, info, infoWire, infoSeen, infoCopy>>
      PROVE  ConfigInfos'
  BY <1>0, <1>2 DEF ConfigInfos
<1>3. CASE UNCHANGED <<info, infoWire, infoSeen, infoCopy, report>> /\ server' \in [url : Urls, ca : Cas]
  BY <1>0, <1>3 DEF ConfigInfos
<1>4. CASE Config!DeliverInfo
  <2>1. Head(infoWire) \in Config!Info /\ Tail(infoWire) \in Seq(Config!Info)
    BY <1>0, <1>4, HeadTailProperties DEF Config!DeliverInfo, ConfigInfos
  <2> QED
    BY <1>0, <1>4, <2>1 DEF Config!DeliverInfo, Config!agentVars, ConfigInfos
<1>5. CASE Config!AgentSync
  <2>1. [info EXCEPT !.config = server] \in Config!Info
    BY <1>0, InfoFacts DEF ConfigInfos
  <2>2. report' = [info EXCEPT !.config = server] /\ UNCHANGED <<server, info, infoWire, infoSeen, infoCopy>>
    BY <1>5, Zenon DEF Config!AgentSync, Config!Begin, Config!infoVars, Config!caVars
  <2> QED
    BY <1>2, <2>1, <2>2
<1>6. CASE Config!AgentSyncFails
  <2>1. /\ [info EXCEPT !.config = Config!NoConfig] \in Config!Info
        /\ [info EXCEPT !.config = Config!NoConfig, !.last = NoUrl] \in Config!Info
    BY <1>0, InfoFacts DEF ConfigInfos
  <2>2. /\ \/ report' = [info EXCEPT !.config = Config!NoConfig]
           \/ report' = [info EXCEPT !.config = Config!NoConfig, !.last = NoUrl]
        /\ UNCHANGED <<server, info, infoWire, infoSeen, infoCopy>>
    BY <1>6, Zenon DEF Config!AgentSyncFails, Config!Begin, Config!infoVars, Config!caVars
  <2> QED
    BY <1>2, <2>1, <2>2
<1>7. CASE Config!AgentWrite
  <2>1. /\ Config!CommitInfo(report) \/ UNCHANGED <<info, infoWire, infoSeen>>
        /\ UNCHANGED <<server, infoCopy, report>>
    BY <1>7, Zenon DEF Config!AgentWrite, Config!infoVars
  <2> QED
    BY <1>0, <1>1, <1>3, <2>1 DEF ConfigInfos
<1>8. CASE Config!Start
  <2>1. infoCopy' = infoSeen /\ UNCHANGED <<server, info, infoWire, infoSeen, report>>
    BY <1>8, Zenon DEF Config!Start, Config!infoVars, Config!agentVars
  <2> QED
    BY <1>0, <2>1 DEF ConfigInfos
<1>9. CASE Config!UpdateStatus
  <2>1. /\ \/ UNCHANGED <<info, infoWire, infoSeen>>
           \/ Config!CommitInfo([info EXCEPT !.last = infoCopy.config.url])
        /\ UNCHANGED <<server, infoCopy, report>>
    BY <1>9, Zenon DEF Config!UpdateStatus, Config!Return, Config!infoVars
  <2>2. [info EXCEPT !.last = infoCopy.config.url] \in Config!Info
    BY <1>0, InfoFacts DEF ConfigInfos
  <2> QED
    BY <1>0, <1>1, <1>3, <2>1, <2>2 DEF ConfigInfos
<1>10. CASE Config!UpdateEndpoint
  <2>1. /\ \/ UNCHANGED <<info, infoWire, infoSeen>>
           \/ Config!CommitInfo([info EXCEPT !.endpoint = Config!FirstUrl(configsSeen)])
        /\ UNCHANGED <<server, infoCopy, report>>
    BY <1>10, Zenon DEF Config!UpdateEndpoint, Config!infoVars
  <2>2. [info EXCEPT !.endpoint = Config!FirstUrl(configsSeen)] \in Config!Info
    BY <1>0, InfoFacts, ListFacts DEF ConfigInfos, ConfigLists
  <2> QED
    BY <1>0, <1>1, <1>3, <2>1, <2>2 DEF ConfigInfos
<1>11. CASE Config!Restart
  <2>1. infoWire' = <<>> /\ infoSeen' = info /\ UNCHANGED <<server, info, infoCopy, report>>
    BY <1>11, Zenon DEF Config!Restart, Config!agentVars
  <2>2. <<>> \in Seq(Config!Info)
    OBVIOUS
  <2> QED
    BY <1>0, <2>1, <2>2 DEF ConfigInfos
<1>12. ASSUME UNCHANGED Config!vars \/ Config!ChangeOthers \/ Config!DeliverConfigs \/ Config!Resync
              \/ Config!UpdateCluster \/ Config!Conflict \/ Config!CallFails
       PROVE  UNCHANGED <<server, info, infoWire, infoSeen, infoCopy, report>>
  BY <1>12, Zenon DEF Config!vars, Config!ChangeOthers, Config!DeliverConfigs, Config!Resync, Config!UpdateCluster,
     Config!Conflict, Config!CallFails, Config!Return, Config!infoVars, Config!agentVars, Config!caVars
<1>13. ASSUME NEW s \in [url : Urls, ca : Cas], Config!ChangeServer(s)
       PROVE  ConfigInfos'
  <2>1. server' = s /\ UNCHANGED <<info, infoWire, infoSeen, infoCopy, report>>
    BY <1>13, Zenon DEF Config!ChangeServer, Config!infoVars, Config!agentVars, Config!caVars
  <2> QED
    BY <1>3, <1>13, <2>1
<1>14. ASSUME UNCHANGED <<server, info, infoWire, infoSeen, infoCopy, report>>
       PROVE  ConfigInfos'
  BY <1>0, <1>14 DEF ConfigInfos
<1> QED
  BY <1>4, <1>5, <1>6, <1>7, <1>8, <1>9, <1>10, <1>11, <1>12, <1>13, <1>14, Zenon
     DEF Config!Next, Config!Agent, Config!CaWorker

\* What one step may do to the client configs and to their copies.
LEMMA ListsStep == ConfigInv /\ [Config!Next]_(Config!vars) =>
                      ConfigLists' /\ WireExact' /\ ListFresh' /\ Config!KeepsOthers
<1> SUFFICES ASSUME ConfigInv, [Config!Next]_(Config!vars)
             PROVE  ConfigLists' /\ WireExact' /\ ListFresh' /\ Config!KeepsOthers
  OBVIOUS
<1>0. ConfigInfos /\ ConfigLists /\ WireExact /\ ListFresh
  BY DEF ConfigInv
<1>1. ASSUME NEW c \in Seq(Config!Config), Config!CommitConfigs(c), UNCHANGED configsCopy
      PROVE  ConfigLists' /\ WireExact' /\ ListFresh'
  <2>1. /\ configsWire' \in Seq(Seq(Config!Config)) /\ configsWire' # <<>>
        /\ Len(configsWire') = Len(configsWire) + 1 /\ configsWire'[Len(configsWire) + 1] = c
    <3>1. configsWire \in Seq(Seq(Config!Config)) /\ configsWire' = Append(configsWire, c)
      BY <1>0, <1>1 DEF Config!CommitConfigs, ConfigLists
    <3>2. configsWire' \in Seq(Seq(Config!Config))
      BY <3>1, AppendProperties
    <3>3. configsWire' # <<>> /\ Len(configsWire') = Len(configsWire) + 1 /\ configsWire'[Len(configsWire) + 1] = c
      BY <3>1
    <3> QED
      BY <3>2, <3>3
  <2>2. configs' = c /\ configsSeen' = configsSeen /\ configsFresh' = FALSE
    BY <1>1 DEF Config!CommitConfigs
  <2> QED
    BY <1>0, <1>1, <2>1, <2>2 DEF ConfigLists, WireExact, ListFresh
<1>2. ASSUME UNCHANGED <<configs, configsWire, configsSeen, configsCopy, configsFresh>>,
             step' = step \/ step' # "cluster"
      PROVE  ConfigLists' /\ WireExact' /\ ListFresh'
  BY <1>0, <1>2 DEF ConfigLists, WireExact, ListFresh
<1>3. Config!SameOthers(configs, configs)
  <2>1. Len(configs) \in Nat
    BY <1>0, LenProperties DEF ConfigLists
  <2>2. DOMAIN configs = 1..Len(configs)
    BY <1>0, LenProperties DEF ConfigLists
  <2>3. /\ Len(configs) = Len(configs) + 0
        /\ \A i \in 1..0 : ~Config!IsOthers(configs[i])
        /\ \A i \in DOMAIN configs : configs[i + 0] = configs[i]
    BY <2>1, <2>2
  <2> QED
    BY <2>3 DEF Config!SameOthers
<1>4. ASSUME Config!ChangeOthers PROVE ConfigLists' /\ WireExact' /\ ListFresh'
  <2>1. /\ \/ Config!CommitConfigs(Append(configs, Config!Others))
           \/ \E i \in DOMAIN configs : Config!CommitConfigs(Config!RemoveAt(configs, i))
        /\ UNCHANGED configsCopy
    BY <1>4, Zenon DEF Config!ChangeOthers
  <2>2. Cas # {}
    BY <1>0 DEF ConfigInfos
  <2> QED
    BY <1>0, <1>1, <2>1, <2>2, ListFacts DEF ConfigLists
<1>5. ASSUME Config!DeliverConfigs PROVE ConfigLists' /\ WireExact' /\ ListFresh'
  <2>1. /\ configsWire # <<>> /\ configsSeen' = Head(configsWire) /\ configsWire' = Tail(configsWire)
        /\ UNCHANGED <<configs, configsCopy, configsFresh, step>>
    BY <1>5, Zenon DEF Config!DeliverConfigs, Config!caVars
  <2>2. /\ Head(configsWire) \in Seq(Config!Config) /\ Tail(configsWire) \in Seq(Seq(Config!Config))
        /\ Len(configsWire) \in Nat \ {0} /\ Head(configsWire) = configsWire[1]
        /\ Len(Tail(configsWire)) = Len(configsWire) - 1
        /\ \A i \in 1..Len(Tail(configsWire)) : Tail(configsWire)[i] = configsWire[i + 1]
    BY <1>0, <2>1, HeadTailProperties, EmptySeq DEF ConfigLists
  <2>3. configsWire' = <<>> => Len(configsWire) = 1
    <3>1. configsWire' = <<>> => Len(configsWire') = 0
      OBVIOUS
    <3> QED
      BY <2>1, <2>2, <3>1
  <2>4. configsWire' # <<>> => Len(configsWire') \in 1..Len(configsWire')
    BY <2>1, <2>2, EmptySeq
  <2> QED
    BY <1>0, <2>1, <2>2, <2>3, <2>4 DEF ConfigLists, WireExact, ListFresh
<1>6. ASSUME Config!Start PROVE ConfigLists' /\ WireExact' /\ ListFresh'
  <2>1. /\ configsCopy' = configsSeen /\ configsFresh' = (configsWire = <<>>)
        /\ UNCHANGED <<configs, configsWire, configsSeen>>
    BY <1>6, Zenon DEF Config!Start, Config!configVars
  <2> QED
    BY <1>0, <2>1 DEF ConfigLists, WireExact, ListFresh
<1>7. CASE Config!UpdateCluster
  <2>1. Config!Merged \in Seq(Config!Config) /\ Config!SameOthers(configsCopy, Config!Merged)
    BY <1>0, InfoFacts, UpdateFacts DEF Config!Merged, ConfigInfos, ConfigLists
  <2>2. /\ \/ UNCHANGED <<configs, configsWire, configsSeen, configsFresh>>
           \/ configsFresh /\ Config!CommitConfigs(Config!Merged)
        /\ step = "cluster" /\ step' = "status" /\ UNCHANGED configsCopy
    BY <1>7, Zenon DEF Config!UpdateCluster, Config!configVars
  <2>3. CASE UNCHANGED <<configs, configsWire, configsSeen, configsFresh>>
    BY <1>2, <1>3, <2>2, <2>3 DEF Config!KeepsOthers
  <2>4. CASE configsFresh /\ Config!CommitConfigs(Config!Merged)
    <3>1. configsCopy = configs /\ configs' = Config!Merged
      BY <1>0, <2>2, <2>4 DEF ListFresh, Config!CommitConfigs
    <3> QED
      BY <1>1, <2>1, <2>2, <2>4, <3>1 DEF Config!KeepsOthers
  <2> QED
    BY <2>2, <2>3, <2>4
<1>8. ASSUME Config!Restart PROVE ConfigLists' /\ WireExact' /\ ListFresh'
  <2>1. /\ configsWire' = <<>> /\ configsSeen' = configs /\ step' = "idle"
        /\ UNCHANGED <<configs, configsCopy, configsFresh>>
    BY <1>8, Zenon DEF Config!Restart
  <2>2. <<>> \in Seq(Seq(Config!Config))
    OBVIOUS
  <2> QED
    BY <1>0, <2>1, <2>2 DEF ConfigLists, WireExact, ListFresh
<1>9. ASSUME \/ UNCHANGED Config!vars \/ Config!DeliverInfo \/ Config!Resync \/ Config!AgentSync
             \/ Config!AgentSyncFails \/ Config!AgentWrite \/ Config!UpdateStatus \/ Config!Conflict
             \/ Config!CallFails \/ Config!UpdateEndpoint
             \/ \E s \in [url : Urls, ca : Cas] : Config!ChangeServer(s)
      PROVE  /\ UNCHANGED <<configs, configsWire, configsSeen, configsCopy, configsFresh>>
             /\ step' = step \/ step' = "idle"
  BY <1>9, Zenon DEF Config!vars, Config!DeliverInfo, Config!Resync, Config!AgentSync, Config!AgentSyncFails,
     Config!Begin, Config!AgentWrite, Config!UpdateStatus, Config!Conflict, Config!CallFails, Config!Return,
     Config!UpdateEndpoint, Config!ChangeServer, Config!configVars, Config!caVars
<1>10. ConfigLists' /\ WireExact' /\ ListFresh'
  BY <1>2, <1>4, <1>5, <1>6, <1>7, <1>8, <1>9, Zenon DEF Config!Next, Config!Agent, Config!CaWorker
<1>11. Config!CaWorker => Config!KeepsOthers
  <2>1. Config!Start => UNCHANGED configs
    BY Zenon DEF Config!Start, Config!configVars
  <2> QED
    BY <1>3, <1>7, <1>9, <2>1, Zenon DEF Config!CaWorker, Config!KeepsOthers
<1> QED
  BY <1>10, <1>11 DEF Config!KeepsOthers

LEMMA ConfigStep == ConfigInv /\ [Config!Next]_(Config!vars) => ConfigInv' /\ Config!KeepsOthers
<1> SUFFICES ASSUME ConfigInv, [Config!Next]_(Config!vars) PROVE ConfigInv' /\ Config!KeepsOthers
  OBVIOUS
<1>1. ConfigFlags'
  BY Zenon DEF ConfigInv, ConfigFlags, Config!Next, Config!vars, Config!infoVars, Config!configVars,
     Config!agentVars, Config!caVars, Config!CommitInfo, Config!CommitConfigs, Config!ChangeServer,
     Config!ChangeOthers, Config!DeliverInfo, Config!DeliverConfigs, Config!Resync, Config!Agent, Config!AgentSync,
     Config!AgentSyncFails, Config!Begin, Config!AgentWrite, Config!CaWorker, Config!Start, Config!UpdateCluster,
     Config!UpdateStatus, Config!Conflict, Config!CallFails, Config!Return, Config!UpdateEndpoint, Config!Restart
<1>2. ConfigBounded'
  <2>1. \/ UNCHANGED <<partChurn, partFaults>>
        \/ partChurn < Bound.config.churn /\ partChurn' = partChurn + 1 /\ UNCHANGED partFaults
        \/ partFaults < Bound.config.faults /\ partFaults' = partFaults + 1 /\ UNCHANGED partChurn
    BY Zenon DEF Config!Next, Config!vars, Config!Change, Config!Fault, Config!ChangeServer, Config!ChangeOthers,
       Config!DeliverInfo, Config!DeliverConfigs, Config!Resync, Config!Agent, Config!AgentSync,
       Config!AgentSyncFails, Config!Begin, Config!AgentWrite, Config!CaWorker, Config!Start, Config!UpdateCluster,
       Config!UpdateStatus, Config!Conflict, Config!CallFails, Config!Return, Config!UpdateEndpoint, Config!Restart
  <2> QED
    BY <2>1, ConfigBounds DEF ConfigInv, ConfigBounded
<1> QED
  BY <1>1, <1>2, InfosStep, ListsStep DEF ConfigInv

-----------------------------------------------------------------------------
(***************************************************************************)
(* The parts together.                                                     *)
(***************************************************************************)
AgentInv ==
    /\ part \in {"action", "claims", "view", "config"}
    /\ PromiseInv
    /\ part = "claims" => ClaimsInv
    /\ part = "view" => ViewInv
    /\ part = "config" => ConfigInv

\* What an action property of one of the parts says of a step.
AgentPromises ==
    /\ part = "claims" => KeepsClaims
    /\ part = "view" => Query!WritesResult
    /\ part = "config" => Config!KeepsOthers

LEMMA ActionInit == AgentInit => Init
  BY Zenon DEF AgentInit, NoAction

LEMMA AgentInvInit == AgentInit => AgentInv
<1> SUFFICES ASSUME AgentInit PROVE AgentInv
  OBVIOUS
<1>1. PromiseInv
  BY ActionInit, InitPromise
<1>2. \/ part = "action"
      \/ part = "claims" /\ Claims!Init
      \/ part = "view" /\ Query!Init
      \/ part = "config" /\ Config!Init
  BY Zenon DEF AgentInit
<1> QED
  BY <1>1, <1>2, ClaimsInit, ViewInit, ConfigInit DEF AgentInv

\* In the part that runs a step is one of that part, and the action's variables change in the first part only.
LEMMA PartSteps ==
    ASSUME [AgentNext]_<<vars, partVars>>
    PROVE  /\ part' = part /\ [Next]_vars
           /\ part = "claims" => [Claims!Next]_(Claims!vars)
           /\ part = "view" => [Query!Next]_(Query!vars)
           /\ part = "config" => [Config!Next]_(Config!vars)
<1>1. CASE AgentNext
  BY <1>1 DEF AgentNext
<1>2. CASE UNCHANGED <<vars, partVars>>
  <2>1. UNCHANGED Claims!vars
    BY <1>2, Zenon DEF partVars, claimsVars, Claims!vars, Claims!worldVars
  <2>2. UNCHANGED Query!vars
    BY <1>2, Zenon DEF partVars, viewVars, Query!vars, Query!viewVars, Query!agentVars, Query!clusterVars
  <2>3. UNCHANGED Config!vars
    BY <1>2, Zenon DEF partVars, configVars, Config!vars
  <2>4. part' = part /\ UNCHANGED vars
    BY <1>2, Zenon DEF partVars
  <2> QED
    BY <2>1, <2>2, <2>3, <2>4
<1> QED
  BY <1>1, <1>2

LEMMA AgentInvStep == AgentInv /\ [AgentNext]_<<vars, partVars>> => AgentInv' /\ AgentPromises
<1> SUFFICES ASSUME AgentInv, [AgentNext]_<<vars, partVars>> PROVE AgentInv' /\ AgentPromises
  OBVIOUS
<1>1. PromiseInv'
  BY PartSteps, PromiseStep DEF AgentInv
<1>2. part = "claims" => ClaimsInv' /\ KeepsClaims
  BY PartSteps, ClaimsStep DEF AgentInv
<1>3. part = "view" => ViewInv' /\ Query!WritesResult
  BY PartSteps, ViewStep DEF AgentInv
<1>4. part = "config" => ConfigInv' /\ Config!KeepsOthers
  BY PartSteps, ConfigStep DEF AgentInv
<1>5. part' = part
  BY PartSteps
<1> QED
  BY <1>1, <1>2, <1>3, <1>4, <1>5 DEF AgentInv, AgentPromises

LEMMA AgentInvariant == AgentSpec => []AgentInv
<1>1. AgentInv /\ [AgentNext]_<<vars, partVars>> => AgentInv'
  BY AgentInvStep
<1> QED
  BY <1>1, AgentInvInit, PTL DEF AgentSpec

\* Whatever part runs, the life of the action is one that ActionRun has.
THEOREM RunsActions == AgentSpec => Spec
<1>1. [AgentNext]_<<vars, partVars>> => [Next]_vars
  BY PartSteps
<1> QED
  BY <1>1, ActionInit, PTL DEF AgentSpec, Spec

\* The states of the claims, of the view and of the client configs are of their types: among others, there is
\* never more than one claim of a name, and the status of a view never shows a secret, by no alias of the
\* kind, after no change of the scope, and with no copy that is behind (queryResource).
THEOREM PartsTyped == AgentSpec => []PartsTypeOK
<1>1. AgentInv => PartsTypeOK
  BY ClaimsType, ViewType, ConfigType DEF AgentInv, PartsTypeOK
<1> QED
  BY <1>1, AgentInvariant, PTL

\* clusterclaimer.go: updateChecks and cleanClusterClaims keep what the hub relies on, whatever calls are lost,
\* whatever labels there are and however late the cache of claims is: the claims that every round expects are
\* never deleted, and of them the ID, the platform and the product only change for the worse by a label.
THEOREM ClaimsStayHolds == AgentSpec => ClaimsStay
<1>1. AgentInv /\ [AgentNext]_<<vars, partVars>>
        => [part = "claims" => /\ Claims!NoDowngrade /\ Claims!IDNeverChanges
                               /\ Claims!LastingClaimsStay /\ Claims!PlainClaimsStay]_partVars
  BY PartSteps, ClaimsStep, ClaimsKept DEF AgentInv, ClaimsInv
<1> QED
  BY <1>1, AgentInvariant, PTL DEF AgentSpec, ClaimsStay

\* clusterca_controller.go and view_controller.go: an Update that is refused when its copy is old loses no
\* client config of others, and shows no result of a scope that the view no longer has.
THEOREM NoLostUpdateHolds == AgentSpec => NoLostUpdate
<1>1. AgentInv /\ [AgentNext]_<<vars, partVars>>
        => [/\ part = "config" => Config!KeepsOthers
            /\ part = "view" => Query!WritesResult]_partVars
  BY AgentInvStep DEF AgentPromises
<1> QED
  BY <1>1, AgentInvariant, PTL DEF AgentSpec, NoLostUpdate

\* The agent keeps the promise of ActionPromise in the composition, too, and its actions are of their types.
THEOREM AgentKeepsPromise == AgentSpec => KeepsPromise /\ []TypeOK
  BY RunsActions, KeepsPromiseHolds, TypeCorrect, PTL
=============================================================================
