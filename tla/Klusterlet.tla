----------------------------- MODULE Klusterlet -----------------------------
(***************************************************************************)
(* The agent and its counterparts on the hub.  The life of a               *)
(* ManagedClusterAction (ActionRun, which this module extends) and three   *)
(* parts that share no object with it or with each other; a behaviour is   *)
(* one of one part, chosen initially, and leaves the variables of the      *)
(* others alone.                                                           *)
(***************************************************************************)
EXTENDS ActionRun

CONSTANTS
    Clusters, NodeLists, LabelSets, DnsPart, InvalidParts, Outages, \* of ClusterClaims
    ViewKinds, Secrets, Aliases, KindOf, Values, Absent, NoScope,       \* of ViewQuery
    Urls, Cas, OtherUrl, NoUrl,                                     \* of ClientConfig
    Bound,   \* the bounds of these parts: changes by others, failures
    Unused   \* the value of a variable that no part uses

VARIABLES
    part,                        \* the part that runs
    partChurn, partFaults,       \* its bounded counters
    claims, nodes, info, report, step, partQueued, \* variables of several parts
    facts, labels, syncLabels, cached, events, expected,
    objects, viewInstalled, viewKnown, scope, viewStatus, viewSeen, viewLag, viewCopy, viewFresh,
    server, infoWire, infoSeen, configs, configsWire, configsSeen, apc, reportFresh, caQueue,
    infoCopy, infoFresh, configsCopy, configsFresh, infoQueue

claimsVars == <<facts, labels, syncLabels, cached, events, expected>>
viewVars == <<objects, viewInstalled, viewKnown, scope, viewStatus, viewSeen, viewLag, viewCopy, viewFresh>>
configVars == <<server, infoWire, infoSeen, configs, configsWire, configsSeen, apc, reportFresh, caQueue,
                infoCopy, infoFresh, configsCopy, configsFresh, infoQueue>>
partVars == <<part, partChurn, partFaults, claims, nodes, info, report, step, partQueued,
              claimsVars, viewVars, configVars>>

Claims == INSTANCE ClusterClaims WITH churn <- partChurn, faults <- partFaults,
    MaxChurn <- Bound.claims.churn, MaxFaults <- Bound.claims.faults, pc <- step, queued <- partQueued

Query == INSTANCE ViewQuery WITH Kinds <- ViewKinds, churn <- partChurn, faults <- partFaults,
    MaxChurn <- Bound.view.churn, MaxFaults <- Bound.view.faults,
    pc <- step, queued <- partQueued, installed <- viewInstalled, known <- viewKnown, status <- viewStatus,
    seen <- viewSeen, lag <- viewLag, copy <- viewCopy, fresh <- viewFresh

Config == INSTANCE ClientConfig WITH churn <- partChurn, faults <- partFaults,
    MaxChurn <- Bound.config.churn, MaxFaults <- Bound.config.faults, pc <- step

ASSUME ClaimsAssumption == Claims!FactsAssumption
ASSUME ViewAssumption == Query!KindsAssumption
ASSUME ConfigAssumption == Config!UrlsAssumption
ASSUME BoundAssumption ==
    \A p \in {"claims", "view", "config"} : Bound[p].churn \in Nat /\ Bound[p].faults \in Nat

-----------------------------------------------------------------------------
NoClaims ==
    /\ facts = Unused /\ labels = Unused /\ syncLabels = Unused /\ cached = Unused /\ events = Unused
    /\ expected = Unused
NoView ==
    /\ objects = Unused /\ viewInstalled = Unused /\ viewKnown = Unused /\ scope = Unused /\ viewStatus = Unused
    /\ viewSeen = Unused /\ viewLag = Unused /\ viewCopy = Unused /\ viewFresh = Unused
NoConfig ==
    /\ server = Unused /\ infoWire = Unused /\ infoSeen = Unused /\ configs = Unused /\ configsWire = Unused
    /\ configsSeen = Unused /\ apc = Unused /\ reportFresh = Unused /\ caQueue = Unused /\ infoCopy = Unused
    /\ infoFresh = Unused /\ configsCopy = Unused /\ configsFresh = Unused /\ infoQueue = Unused
NoAction == Init /\ type = "Create" /\ target = "absent" /\ installed /\ known

AgentInit ==
    \/ /\ part = "action" /\ Init /\ NoClaims /\ NoView /\ NoConfig
       /\ partChurn = 0 /\ partFaults = 0 /\ claims = Unused /\ nodes = Unused /\ info = Unused /\ report = Unused
       /\ step = Unused /\ partQueued = Unused
    \/ /\ part = "claims" /\ NoAction /\ Claims!Init /\ NoView /\ NoConfig
       /\ info = Unused /\ report = Unused
    \/ /\ part = "view" /\ NoAction /\ NoClaims /\ Query!Init /\ NoConfig
       /\ claims = Unused /\ nodes = Unused /\ info = Unused /\ report = Unused
    \/ /\ part = "config" /\ NoAction /\ NoClaims /\ NoView /\ Config!Init
       /\ claims = Unused /\ nodes = Unused /\ partQueued = Unused

AgentNext ==
    /\ UNCHANGED part
    /\ \/ part = "action" /\ Next /\ UNCHANGED partVars
       \/ /\ part = "claims" /\ Claims!Next
          /\ UNCHANGED <<vars, info, report, viewVars, configVars>>
       \/ /\ part = "view" /\ Query!Next
          /\ UNCHANGED <<vars, claims, nodes, info, report, claimsVars, configVars>>
       \/ /\ part = "config" /\ Config!Next
          /\ UNCHANGED <<vars, claims, nodes, partQueued, claimsVars, viewVars>>

\* The fairness of each part, while it runs.
ActionFairness ==
    /\ WF_vars(part = "action" /\ Agent) /\ WF_vars(part = "action" /\ Deliver)
    /\ WF_vars(part = "action" /\ DeliverToHub) /\ WF_vars(part = "action" /\ CollectGarbage)
    /\ WF_vars(part = "action" /\ Tick)

ClaimsFairness ==
    /\ WF_(Claims!vars)(part = "claims" /\ Claims!Worker) /\ WF_(Claims!vars)(part = "claims" /\ Claims!Deliver)
    /\ WF_(Claims!vars)(part = "claims" /\ Claims!NodeEvent)

ViewFairness ==
    /\ WF_(Query!vars)(part = "view" /\ Query!Agent) /\ WF_(Query!vars)(part = "view" /\ Query!Deliver)
    /\ WF_(Query!vars)(part = "view" /\ Query!Requeue) /\ WF_(Query!vars)(part = "view" /\ Query!IntervalEnds)

ConfigFairness ==
    /\ WF_(Config!vars)(part = "config" /\ Config!DeliverInfo)
    /\ WF_(Config!vars)(part = "config" /\ Config!DeliverConfigs)
    /\ WF_(Config!vars)(part = "config" /\ Config!Resync) /\ WF_(Config!vars)(part = "config" /\ Config!Agent)
    /\ WF_(Config!vars)(part = "config" /\ Config!CaWorker)
    /\ WF_(Config!vars)(part = "config" /\ Config!UpdateEndpoint)

AgentFairness == ActionFairness /\ ClaimsFairness /\ ViewFairness /\ ConfigFairness

AgentSpec == AgentInit /\ [][AgentNext]_<<vars, partVars>> /\ AgentFairness

-----------------------------------------------------------------------------
\* The states of the parts are of their types: among others a claim has one value, the status of a
\* view never shows a secret, and every client config is of a server that there was.
PartsTypeOK ==
    CASE part = "action" -> TRUE
      [] part = "claims" -> Claims!TypeOK
      [] part = "view" -> Query!TypeOK /\ Query!SecretsNotShown
      [] part = "config" -> Config!TypeOK

\* Every action is reported and then collected (EventuallyCollected of ActionRun).
EventuallyCollectedAction == <>[](part = "action" => action = Gone)

\* updateChecks and cleanClusterClaims: no step takes away or degrades what the hub relies on (ClaimsStay
\* of ClusterClaims).
ClaimsStay ==
    [][part = "claims" => /\ Claims!NoDowngrade /\ Claims!IDNeverChanges
                          /\ Claims!LastingClaimsStay /\ Claims!PlainClaimsStay]_partVars

\* clusterclaimer.go:113: no stable claim is ever deleted (StableClaimsStay of ClusterClaims).
StableClaimsStay == [][part = "claims" => Claims!StableClaimsStay]_partVars

\* syncClaims: when outages and changes end, the claims are those of the cluster and of the labels
\* (EventuallySynced of ClusterClaims).
EventuallySynced == <>[](part = "claims" => Claims!Synced)

\* What the optimistic lock of an Update is for: the CA controller loses no client config of others
\* (OthersKept of ClientConfig), and the view controller shows no result of a scope that is not the
\* view's any more (ResultOfScope of ViewQuery).
NoLostUpdate ==
    [][/\ part = "config" => Config!KeepsOthers
       /\ part = "view" => Query!WritesResult]_partVars

\* queryResource: when changes end, the status tells what is there (EventuallyShown of ViewQuery).
EventuallyShown == <>[](part = "view" => Query!Shown)

\* updateClientConfig: the client configs end up with the address and the CA in use (EventuallyApplied of
\* ClientConfig).
EventuallyApplied == <>[](part = "config" => Config!Applied)
=============================================================================
