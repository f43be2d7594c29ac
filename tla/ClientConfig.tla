---------------------------- MODULE ClientConfig ----------------------------
(***************************************************************************)
(* How the address of a managed cluster's API server, and its CA, get from *)
(* the cluster to the hub.  The agent (pkg/klusterlet/clusterinfo) reports *)
(* them in the status of the ManagedClusterInfo; the cluster CA controller *)
(* of the hub (pkg/controllers/clusterca) merges them into the client      *)
(* configs of the ManagedCluster, where others have theirs too, and then   *)
(* records the URL in the status, to find its entry when the URL changes;  *)
(* the ManagedClusterInfo controller (pkg/controllers/clusterinfo) copies  *)
(* the URL of the first client config into the spec of the                 *)
(* ManagedClusterInfo.                                                     *)
(*                                                                         *)
(* Three actors write one ManagedClusterInfo, each with an Update that is  *)
(* refused when it has moved on.  The hub's controllers read it (info) and *)
(* the ManagedCluster (configs) from one cache, which gets the commits of  *)
(* either in order and behind time.  A copy of the agent's cache that is   *)
(* not the current one has no effect, and is left out.  One OpenShift      *)
(* cluster, online, is modelled.                                           *)
(***************************************************************************)
EXTENDS Naturals, SequencesExt

CONSTANTS
    Urls, Cas,     \* addresses and CAs the API server may have
    OtherUrl,      \* the address in a client config of others
    NoUrl,
    MaxChurn,      \* bound: changes of the API server and by others
    MaxFaults      \* bound: failed calls and restarts

\* What is assumed of the constants; a module that instantiates this one assumes it.
UrlsAssumption == OtherUrl \notin Urls /\ NoUrl \notin Urls /\ OtherUrl # NoUrl
BoundsAssumption == MaxChurn \in Nat /\ MaxFaults \in Nat

VARIABLES
    server,                      \* the API server's address and CA
    info, infoWire, infoSeen,    \* the ManagedClusterInfo: committed, on its way, cached
    configs, configsWire, configsSeen,  \* the client configs, likewise
    apc, report, reportFresh,    \* the agent: the status it is about to write
    caQueue, pc, infoCopy, infoFresh, configsCopy, configsFresh, \* the CA controller
    infoQueue,                   \* the ManagedClusterInfo controller
    churn, faults                \* bounded counters

infoVars == <<info, infoWire, infoSeen>>
configVars == <<configs, configsWire, configsSeen>>
agentVars == <<apc, report, reportFresh>>
caVars == <<caQueue, pc, infoCopy, infoFresh, configsCopy, configsFresh>>
vars == <<server, info, infoWire, infoSeen, configs, configsWire, configsSeen, apc, report,
          reportFresh, caQueue, pc, infoCopy, infoFresh, configsCopy, configsFresh, infoQueue,
          churn, faults>>

Config == [url : Urls \cup {OtherUrl}, ca : Cas]
NoConfig == [url |-> NoUrl, ca |-> CHOOSE k \in Cas : TRUE]
Others == [url |-> OtherUrl, ca |-> CHOOSE k \in Cas : TRUE]
Info == [config : [url : Urls, ca : Cas] \cup {NoConfig}, last : Urls \cup {NoUrl}, endpoint : Urls \cup {OtherUrl, NoUrl}]

TypeOK ==
    /\ server \in [url : Urls, ca : Cas]
    /\ info \in Info /\ infoSeen \in Info /\ infoCopy \in Info /\ report \in Info
    /\ \A s \in {configs, configsSeen, configsCopy} : s \in Seq(Config)
    /\ infoWire \in Seq(Info) /\ configsWire \in Seq(Seq(Config))
    /\ apc \in {"idle", "write"}
    /\ pc \in {"idle", "cluster", "status"}
    /\ {reportFresh, caQueue, infoFresh, configsFresh, infoQueue} \subseteq BOOLEAN
    /\ churn \in 0..MaxChurn
    /\ faults \in 0..MaxFaults

FirstUrl(cs) == IF cs = <<>> THEN NoUrl ELSE cs[1].url

\* The ManagedClusterInfo has been created for the ManagedCluster.
Init ==
    /\ server \in [url : Urls, ca : Cas]
    /\ configs \in {<<>>, <<Others>>}
    /\ info = [config |-> NoConfig, last |-> NoUrl, endpoint |-> FirstUrl(configs)]
    /\ infoWire = <<>>
    /\ infoSeen = info
    /\ configsWire = <<>>
    /\ configsSeen = configs
    /\ apc = "idle" /\ report = info /\ reportFresh = FALSE
    /\ pc = "idle" /\ caQueue = TRUE
    /\ infoCopy = info /\ infoFresh = FALSE
    /\ configsCopy = configs /\ configsFresh = FALSE
    /\ infoQueue = TRUE
    /\ churn = 0
    /\ faults = 0

-----------------------------------------------------------------------------
\* The hub's API server commits a write of one of the objects: whoever has
\* read it before now has an old copy.
CommitInfo(i) ==
    /\ info' = i
    /\ infoWire' = Append(infoWire, i)
    /\ reportFresh' = FALSE
    /\ infoFresh' = FALSE
    /\ UNCHANGED infoSeen

CommitConfigs(c) ==
    /\ configs' = c
    /\ configsWire' = Append(configsWire, c)
    /\ configsFresh' = FALSE
    /\ UNCHANGED configsSeen

Change == churn < MaxChurn /\ churn' = churn + 1

\* The API server of the managed cluster moves, or gets another CA.
ChangeServer(s) ==
    /\ Change
    /\ s # server
    /\ server' = s
    /\ UNCHANGED <<infoVars, configVars, agentVars, caVars, infoQueue, faults>>

\* Others add their client config, or remove it.
ChangeOthers ==
    /\ Change
    /\ \/ ~Contains(configs, Others) /\ CommitConfigs(Append(configs, Others))
       \/ \E i \in DOMAIN configs : configs[i] = Others /\ CommitConfigs(RemoveAt(configs, i))
    /\ UNCHANGED <<server, infoVars, agentVars, caQueue, pc, infoCopy, infoFresh, configsCopy,
                   infoQueue, faults>>

\* The hub's cache; the CA controller only watches ManagedClusterInfos.
DeliverInfo ==
    /\ infoWire # <<>>
    /\ infoSeen' = Head(infoWire)
    /\ infoWire' = Tail(infoWire)
    /\ caQueue' = TRUE
    /\ infoQueue' = TRUE
    /\ UNCHANGED <<server, info, configVars, agentVars, pc, infoCopy, infoFresh, configsCopy,
                   configsFresh, churn, faults>>

DeliverConfigs ==
    /\ configsWire # <<>>
    /\ configsSeen' = Head(configsWire)
    /\ configsWire' = Tail(configsWire)
    /\ infoQueue' = TRUE
    /\ UNCHANGED <<server, infoVars, configs, agentVars, caVars, churn, faults>>

\* The informers of the hub resync from time to time.
Resync ==
    /\ caQueue' = TRUE
    /\ infoQueue' = TRUE
    /\ UNCHANGED <<server, infoVars, configVars, agentVars, pc, infoCopy, infoFresh, configsCopy,
                   configsFresh, churn, faults>>

Fault == faults < MaxFaults /\ faults' = faults + 1

-----------------------------------------------------------------------------
(***************************************************************************)
(* The agent: syncOCPDistributionInfo rebuilds the DistributionInfo.       *)
(***************************************************************************)
Begin(r) ==
    /\ apc = "idle"
    /\ report' = r
    /\ reportFresh' = TRUE
    /\ apc' = IF r = info THEN "idle" ELSE "write"
    /\ UNCHANGED <<server, infoVars, configVars, caVars, infoQueue, churn>>

AgentSync == Begin([info EXCEPT !.config = server]) /\ UNCHANGED faults

\* getClientConfig fails: an empty config.  The Get of the ClusterVersion
\* fails: an empty DistributionInfo.
AgentSyncFails ==
    /\ Fault
    /\ \/ Begin([info EXCEPT !.config = NoConfig])
       \/ Begin([info EXCEPT !.config = NoConfig, !.last = NoUrl])

\* The Update of the status; it is refused, or the agent restarts, otherwise.
AgentWrite ==
    /\ apc = "write"
    /\ apc' = "idle"
    /\ IF reportFresh THEN CommitInfo(report)
                      ELSE UNCHANGED <<infoVars, reportFresh, infoFresh>>
    /\ UNCHANGED <<server, configVars, report, caQueue, pc, infoCopy, configsCopy, configsFresh,
                   infoQueue, churn, faults>>

-----------------------------------------------------------------------------
(***************************************************************************)
(* The CA controller's Reconcile.                                          *)
(***************************************************************************)
\* Mutant: the config is only added to an empty list.
MergeIfEmpty(cs, config, last) ==
    LET Known(i) == cs[i].url \in {config.url, last}
        first == CHOOSE i \in DOMAIN cs : Known(i) /\ \A j \in 1..(i - 1) : ~Known(j)
    IN IF config.url = NoUrl THEN cs
       ELSE IF \E i \in DOMAIN cs : Known(i) THEN [cs EXCEPT ![first] = config]
       ELSE IF cs = <<>> THEN <<config>> ELSE cs

\* updateClientConfig: the first entry with the URL, or the one last applied,
\* gets the config; if there is none, it becomes the first entry.
UpdateClientConfig(cs, config, last) ==
    LET Known(i) == cs[i].url \in {config.url, last}
        first == CHOOSE i \in DOMAIN cs : Known(i) /\ \A j \in 1..(i - 1) : ~Known(j)
    IN IF config.url = NoUrl THEN cs
       ELSE IF \E i \in DOMAIN cs : Known(i) THEN [cs EXCEPT ![first] = config]
       ELSE <<config>> \o cs

Merged == UpdateClientConfig(configsCopy, infoCopy.config, infoCopy.last)

Start ==
    /\ pc = "idle"
    /\ caQueue
    /\ caQueue' = FALSE
    /\ infoCopy' = infoSeen /\ infoFresh' = (infoWire = <<>>)
    /\ configsCopy' = configsSeen /\ configsFresh' = (configsWire = <<>>)
    /\ pc' = "cluster"
    /\ UNCHANGED <<server, infoVars, configVars, agentVars, infoQueue, churn, faults>>

Return(error) ==
    /\ pc' = "idle"
    /\ caQueue' = (caQueue \/ error)
    /\ UNCHANGED <<server, infoCopy, configsCopy, apc, report, infoQueue, churn>>

\* Mutant: the client configs are written unconditionally.
PatchCluster ==
    /\ pc = "cluster"
    /\ IF Merged = configsCopy THEN UNCHANGED <<configVars, configsFresh>>
                               ELSE CommitConfigs(Merged)
    /\ pc' = "status"
    /\ UNCHANGED <<server, infoVars, agentVars, caQueue, infoCopy, infoFresh, configsCopy,
                   infoQueue, churn, faults>>

UpdateCluster ==
    /\ pc = "cluster"
    /\ Merged # configsCopy => configsFresh
    /\ IF Merged = configsCopy THEN UNCHANGED <<configVars, configsFresh>>
                               ELSE CommitConfigs(Merged)
    /\ pc' = "status"
    /\ UNCHANGED <<server, infoVars, agentVars, caQueue, infoCopy, infoFresh, configsCopy,
                   infoQueue, churn, faults>>

UpdateStatus ==
    /\ pc = "status"
    /\ infoCopy.last # infoCopy.config.url => infoFresh
    /\ Return(FALSE)
    /\ IF infoCopy.last = infoCopy.config.url
       THEN UNCHANGED <<infoVars, infoFresh, reportFresh>>
       ELSE CommitInfo([info EXCEPT !.last = infoCopy.config.url])
    /\ UNCHANGED <<configVars, configsFresh, faults>>

Conflict ==
    /\ \/ pc = "cluster" /\ Merged # configsCopy /\ ~configsFresh
       \/ pc = "status" /\ infoCopy.last # infoCopy.config.url /\ ~infoFresh
    /\ Return(TRUE)
    /\ UNCHANGED <<infoVars, configVars, infoFresh, configsFresh, reportFresh, faults>>

CallFails ==
    /\ pc # "idle"
    /\ Fault
    /\ Return(TRUE)
    /\ UNCHANGED <<infoVars, configVars, infoFresh, configsFresh, reportFresh>>

-----------------------------------------------------------------------------
(***************************************************************************)
(* The ManagedClusterInfo controller: the URL of the first client config   *)
(* is the MasterEndpoint.  With an old copy the Update is refused.         *)
(***************************************************************************)
UpdateEndpoint ==
    /\ infoQueue
    /\ LET url == FirstUrl(configsSeen)
       IN IF url = NoUrl \/ url = infoSeen.endpoint
          THEN infoQueue' = FALSE /\ UNCHANGED <<infoVars, infoFresh, reportFresh>>
          ELSE /\ infoWire = <<>>
               /\ CommitInfo([info EXCEPT !.endpoint = url])
               /\ infoQueue' = FALSE
    /\ UNCHANGED <<server, configVars, apc, report, caQueue, pc, infoCopy, configsCopy,
                   configsFresh, churn, faults>>

\* The hub's manager restarts.
Restart ==
    /\ Fault
    /\ infoWire' = <<>> /\ infoSeen' = info
    /\ configsWire' = <<>> /\ configsSeen' = configs
    /\ caQueue' = TRUE
    /\ infoQueue' = TRUE
    /\ pc' = "idle"
    /\ UNCHANGED <<server, info, configs, agentVars, infoCopy, infoFresh, configsCopy,
                   configsFresh, churn>>

-----------------------------------------------------------------------------
Agent == AgentSync \/ AgentWrite
CaWorker == Start \/ UpdateCluster \/ UpdateStatus \/ Conflict

Next ==
    \/ \E s \in [url : Urls, ca : Cas] : ChangeServer(s)
    \/ ChangeOthers
    \/ DeliverInfo \/ DeliverConfigs \/ Resync
    \/ Agent \/ AgentSyncFails
    \/ CaWorker \/ CallFails
    \/ UpdateEndpoint
    \/ Restart

Spec == Init /\ [][Next]_vars

\* Goroutines, and the resync of the hub's informers.
FairSpec ==
    /\ Spec
    /\ WF_vars(DeliverInfo) /\ WF_vars(DeliverConfigs) /\ WF_vars(Resync)
    /\ WF_vars(Agent) /\ WF_vars(CaWorker) /\ WF_vars(UpdateEndpoint)

-----------------------------------------------------------------------------
(***************************************************************************)
(* Properties.                                                             *)
(***************************************************************************)
(***************************************************************************)
(* What others have put into the client configs stays: the CA controller,  *)
(* which works on a copy of the whole list, only ever adds or replaces the *)
(* entry of the cluster's own API server.                                  *)
(***************************************************************************)
IsOthers(c) == c.url = OtherUrl

\* The lists are the same but for entries of the cluster's own; at most one has come in front.
SameOthers(cs, ds) ==
    \E added \in {0, 1} :
       /\ Len(ds) = Len(cs) + added
       /\ \A i \in 1..added : ~IsOthers(ds[i])
       /\ \A i \in DOMAIN cs : IsOthers(cs[i]) \/ IsOthers(ds[i + added]) => ds[i + added] = cs[i]

KeepsOthers == CaWorker => SameOthers(configs, configs')
OthersKept == [][KeepsOthers]_vars

(***************************************************************************)
(* Once the API server rests and failures end, the client configs have its *)
(* address and CA, the address is recorded as applied, and the endpoint is *)
(* that of the first entry.                                                *)
(***************************************************************************)
Applied ==
    /\ Contains(configs, server)
    /\ info.config = server
    /\ info.last = server.url
    /\ info.endpoint = configs[1].url

EventuallyApplied == <>[]Applied

(***************************************************************************)
(* clusterca_controller.go:108-110: "if the infrastructures config value   *)
(* changes, here we will replace the old clientConfig URL instead of       *)
(* prepending a new one": the cluster's own API server has one entry.      *)
(***************************************************************************)
OneOwnEntry == Cardinality({i \in DOMAIN configs : configs[i].url \in Urls}) <= 1
=============================================================================
