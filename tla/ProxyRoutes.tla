---------------------------- MODULE ProxyRoutes ----------------------------
(***************************************************************************)
(* The aggregated services behind clusterstatuses/<name>/aggregator: a     *)
(* labelled ConfigMap names a sub-resource and the service that answers    *)
(* it (pkg/proxyserver/controller), the getter keeps one route for a       *)
(* sub-resource (pkg/proxyserver/getter), and a request is served by the   *)
(* route of its path (pkg/proxyserver/rest/proxy).  The certificates of    *)
(* the secret and those of the CA are numbered; the CAs below `oldest`     *)
(* have expired.  A bundle has certificates and damaged blocks; one with   *)
(* neither is empty.                                                       *)
(***************************************************************************)
EXTENDS Naturals, FiniteSets

CONSTANTS
    Names,     \* the ConfigMaps with the label
    Subs,      \* the sub-resources
    Absent,    \* no ConfigMap, no route: 404
    Forbidden, \* 403
    Failed,    \* 500; a bundle that cannot be merged
    MaxChurn,  \* bound: changes of ConfigMaps, certificates and secrets
    MaxFaults  \* bound: failed syncs and restarts

\* What is assumed of the constants; a module that instantiates this one assumes it.
LimitsAssumption == MaxChurn \in Nat /\ MaxFaults \in Nat

VARIABLES
    configMaps, \* the API server's: the sub-resource and whether all that is named in it is there
    lister,     \* the informer's copy
    queue,      \* the work queue
    secret,     \* the certificate of the secret, and whether it loads with its key
    ca,         \* the bundle of the CA ConfigMap
    signer,     \* the CA in use
    oldest,     \* CAs before it have expired
    routes,     \* proxyServiceInfos
    moved,      \* history: ConfigMaps that changed their sub-resource since the start of the process
    churn, faults

certVars == <<secret, ca, signer, oldest>>
vars == <<configMaps, lister, queue, certVars, routes, moved, churn, faults>>

ConfigMap == [sub : Subs, complete : BOOLEAN]
Secret(cert) == [cert : {cert}, loads : BOOLEAN]
CABundle(cert) == [certs : SUBSET {cert}, damaged : SUBSET {cert}]

TypeOK ==
    /\ configMaps \in [Names -> ConfigMap \cup {Absent}] /\ lister \in [Names -> ConfigMap \cup {Absent}]
    /\ queue \subseteq Names /\ moved \subseteq Names
    /\ \E n \in 0..MaxChurn : secret \in Secret(n)
    /\ signer \in 0..MaxChurn /\ ca \in CABundle(signer) /\ oldest \in 0..signer
    /\ \A s \in Subs : routes[s] # Absent =>
          routes[s].name \in Names /\ routes[s].ca.certs \cup routes[s].ca.damaged \subseteq 0..signer
    /\ churn \in 0..MaxChurn /\ faults \in 0..MaxFaults

Init ==
    /\ configMaps = [n \in Names |-> Absent] /\ lister = configMaps /\ queue = {}
    /\ secret \in Secret(0) /\ ca \in CABundle(0) /\ signer = 0 /\ oldest = 0
    /\ routes = [s \in Subs |-> Absent] /\ moved = {}
    /\ churn = 0 /\ faults = 0

-----------------------------------------------------------------------------
(* The administrators. *)

Churn == churn < MaxChurn /\ churn' = churn + 1

\* The process has, or is about to have, a route of n under one of these sub-resources.
HasBeen(n, subs) ==
    \/ \E s \in subs : routes[s] # Absent /\ routes[s].name = n
    \/ lister[n] # Absent /\ lister[n].sub \in subs

ConfigMapChanges(n) ==
    /\ Churn
    /\ \E c \in ConfigMap \cup {Absent} :
          /\ c # configMaps[n]
          /\ configMaps' = [configMaps EXCEPT ![n] = c]
          /\ moved' = IF c # Absent /\ HasBeen(n, Subs \ {c.sub}) THEN moved \cup {n} ELSE moved
    /\ UNCHANGED <<lister, queue, certVars, routes, faults>>

\* Neither the secret nor the CA ConfigMap is watched.
RotateSecret ==
    /\ Churn /\ secret' \in Secret(secret.cert + 1)
    /\ UNCHANGED <<configMaps, lister, queue, ca, signer, oldest, routes, moved, faults>>

RotateCA ==
    /\ Churn /\ signer' = signer + 1 /\ ca' \in CABundle(signer + 1)
    /\ UNCHANGED <<configMaps, lister, queue, secret, oldest, routes, moved, faults>>

Expire ==
    /\ oldest < signer /\ oldest' = oldest + 1
    /\ UNCHANGED <<configMaps, lister, queue, secret, ca, signer, routes, moved, churn, faults>>

-----------------------------------------------------------------------------
(* The process. *)

Restarted ==
    /\ routes' = [s \in Subs |-> Absent]
    /\ lister' = configMaps /\ queue' = {n \in Names : configMaps[n] # Absent}
    /\ moved' = {}

\* enqueue, deleteObj: an event the informer has, a resync that brings no change included.
Deliver(n) ==
    /\ lister' = [lister EXCEPT ![n] = configMaps[n]]
    /\ lister' # lister \/ (lister[n] # Absent /\ n \notin queue)
    /\ queue' = queue \cup {n}
    /\ UNCHANGED <<configMaps, certVars, routes, moved, churn, faults>>

\* deleteObj of a tombstone, which stands for a deletion the watch has missed: enqueue takes it for a
\* ConfigMap, the assertion panics and the process starts anew.
Tombstone(n) ==
    /\ faults < MaxFaults /\ faults' = faults + 1
    /\ lister[n] # Absent /\ configMaps[n] = Absent
    /\ Restarted
    /\ UNCHANGED <<configMaps, certVars, churn>>

Restart ==
    /\ faults < MaxFaults /\ faults' = faults + 1
    /\ Restarted
    /\ UNCHANGED <<configMaps, certVars, churn>>

\* generateServiceInfo: the secret and the CA are read from the API server.
GenerateServiceInfo(n) == [name |-> n, secret |-> secret, ca |-> ca]

Parses(bundle) == bundle.certs # {} /\ bundle.damaged = {}

\* MergeCABundle: of two different bundles, what has not expired; unless the old one is empty both must
\* parse.
MergeCABundle(old, new) ==
    IF old = new \/ old.certs \cup old.damaged = {} THEN new
    ELSE IF ~Parses(old) \/ ~Parses(new) THEN Failed
    ELSE [certs |-> {c \in old.certs \cup new.certs : c >= oldest}, damaged |-> {}]

\* Mutant: a route that is there stays as it is.
AddOnce(s, info) == IF routes[s] = Absent THEN [routes EXCEPT ![s] = info] ELSE routes

\* Add: the first ConfigMap that names a sub-resource keeps it, with what its route has if the bundles
\* cannot be merged.
Add(s, info) ==
    LET merged == MergeCABundle(routes[s].ca, info.ca)
    IN IF routes[s] = Absent THEN [routes EXCEPT ![s] = info]
       ELSE IF routes[s].name # info.name \/ merged = Failed THEN routes
       ELSE [routes EXCEPT ![s] = [info EXCEPT !.ca = merged]]

\* Delete: one entry of this name, whichever the map's order gives first.
DeleteRoute(n) ==
    LET mine == {s \in Subs : routes[s] # Absent /\ routes[s].name = n}
    IN IF mine = {} THEN {routes} ELSE {[routes EXCEPT ![s] = Absent] : s \in mine}

\* syncHandler and processNextWorkItem.
Sync(n) ==
    /\ n \in queue
    /\ \/ /\ lister[n] = Absent
          /\ routes' \in DeleteRoute(n) /\ queue' = queue \ {n}
       \/ /\ lister[n] # Absent /\ lister[n].complete
          /\ routes' = Add(lister[n].sub, GenerateServiceInfo(n)) /\ queue' = queue \ {n}
       \/ /\ lister[n] # Absent /\ ~lister[n].complete   \* an error: added again, rate limited
          /\ UNCHANGED <<routes, queue>>
    /\ UNCHANGED <<configMaps, lister, certVars, moved, churn, faults>>

\* The secret or the CA is not read: added again, rate limited.
SyncFails(n) ==
    /\ faults < MaxFaults /\ faults' = faults + 1
    /\ n \in queue /\ lister[n] # Absent /\ lister[n].complete
    /\ UNCHANGED <<configMaps, lister, queue, certVars, routes, moved, churn>>

Next ==
    \/ \E n \in Names : ConfigMapChanges(n) \/ Deliver(n) \/ Tombstone(n) \/ Sync(n) \/ SyncFails(n)
    \/ RotateSecret \/ RotateCA \/ Expire \/ Restart

\* The informer delivers and resyncs; the worker takes from the queue.
Fairness == \A n \in Names : WF_vars(Deliver(n)) /\ SF_vars(Sync(n))

Spec == Init /\ [][Next]_vars /\ Fairness

-----------------------------------------------------------------------------
(* A request: getSubResource and ServeHTTP of the proxy. *)

GetSubResource(segments, s) == IF segments < 9 THEN Forbidden ELSE s

\* TransportFor: a bundle that is there has a certificate, and that of the secret loads.
MakesTransport(info) == info.secret.loads /\ (info.ca.certs # {} \/ info.ca.damaged = {})

\* 403, 404, 500 or the service, with the transport of its certificates.
ServeHTTP(segments, s) ==
    LET sub == GetSubResource(segments, s)
    IN IF sub = Forbidden THEN Forbidden
       ELSE IF routes[sub] # Absent /\ ~MakesTransport(routes[sub]) THEN Failed
       ELSE routes[sub]

\* The certificate of the secret and a CA bundle with what the CA ConfigMap has, which do for a request if
\* those two are in order; or the bundles cannot be merged, and then the route stays as it is.
UpToDate(s) ==
    \/ MergeCABundle(routes[s].ca, ca) = Failed
    \/ /\ routes[s].secret = secret /\ ca.certs \subseteq routes[s].ca.certs
       /\ secret.loads /\ ca.certs # {} => ServeHTTP(9, s) # Failed

\* At the end a request of a sub-resource finds a service exactly when a ConfigMap asks for it, that of
\* a ConfigMap that asks for it, up to date: unless a ConfigMap that has moved to another sub-resource
\* left its route behind.
Served(s) ==
    IF ServeHTTP(9, s) = Absent THEN ~\E n \in Names : configMaps[n] = [sub |-> s, complete |-> TRUE]
    ELSE LET n == routes[s].name
         IN \/ n \in moved
            \/ /\ configMaps[n] # Absent /\ configMaps[n].sub = s
               /\ configMaps[n].complete => UpToDate(s)

EventuallyServed == <>[](\A s \in Subs : Served(s))
=============================================================================
