----------------------------- MODULE LogAccess -----------------------------
(***************************************************************************)
(* Logs of a managed cluster: pkg/controllers/managedserviceaccount makes  *)
(* the ManagedServiceAccount whose token the log sub-resource              *)
(* (pkg/proxyserver/rest/log, getter/logProxyGetter.go) needs.  The        *)
(* add-on that turns the account into a token is external.                 *)
(***************************************************************************)
EXTENDS Naturals

CONSTANTS MaxChurn, MaxFaults \* bounds: changes by administrators, failed calls and restarts

VARIABLES
    cluster, \* "live", "dying", "gone"
    addons,  \* of "msa" (managed-serviceaccount) and "proxy" (cluster-proxy), those that are there
    dying,   \* of them those being deleted
    seen,    \* the cache: <<cluster, addons, dying>>
    account, \* logMsa: "none", "ours" (with the required spec), "other"
    token,   \* there is a secret with the token
    queued,
    churn, faults

vars == <<cluster, addons, dying, seen, account, token, queued, churn, faults>>

Addons == {"msa", "proxy"}

TypeOK ==
    /\ cluster \in {"live", "dying", "gone"} /\ addons \subseteq Addons /\ dying \subseteq addons
    /\ account \in {"none", "ours", "other"} /\ token \in BOOLEAN
    /\ queued \in BOOLEAN /\ churn \in 0..MaxChurn /\ faults \in 0..MaxFaults

Init ==
    /\ cluster = "live" /\ addons = {} /\ dying = {} /\ seen = <<"gone", {}, {}>>
    /\ account = "none" /\ token = FALSE /\ queued = FALSE /\ churn = 0 /\ faults = 0

-----------------------------------------------------------------------------
(* Administrators and the add-on. *)

Churn == churn < MaxChurn /\ churn' = churn + 1

ClusterChanges ==
    /\ Churn
    /\ cluster' = [live |-> "dying", dying |-> "gone", gone |-> "live"][cluster]
    /\ UNCHANGED <<addons, dying, seen, account, token, queued, faults>>

AddonChanges(a) ==
    /\ Churn
    /\ \/ a \notin addons /\ addons' = addons \cup {a} /\ UNCHANGED dying
       \/ a \in addons \ dying /\ dying' = dying \cup {a} /\ UNCHANGED addons
       \/ a \in dying /\ addons' = addons \ {a} /\ dying' = dying \ {a}
    /\ UNCHANGED <<cluster, seen, account, token, queued, faults>>

\* The account is not watched, because its CRD need not be there.
AccountChanges ==
    /\ Churn /\ account' \in {"none", "other"} \ {account}
    /\ token' = (token /\ account' # "none")
    /\ UNCHANGED <<cluster, addons, dying, seen, queued, faults>>

\* External: the add-on makes the token of an account.
MakeToken ==
    /\ "msa" \in addons \ dying /\ account # "none" /\ ~token /\ token' = TRUE
    /\ UNCHANGED <<cluster, addons, dying, seen, account, queued, churn, faults>>

-----------------------------------------------------------------------------
(* add and Reconcile. *)

\* An event of the cluster, of which there is always another (its lease, the resync), or of its
\* managed-serviceaccount add-on.
Deliver ==
    /\ seen' = <<cluster, addons, dying>>
    /\ seen' # seen \/ ~queued
    /\ queued' = (queued \/ cluster # "gone" \/ seen[1] # "gone")
    /\ UNCHANGED <<cluster, addons, dying, account, token, churn, faults>>

Ready(s) == s[1] = "live" /\ "msa" \in s[2] \ s[3]

\* Create, or an Update of the spec.
Required(a) == "ours"

Reconcile ==
    /\ queued /\ queued' = FALSE
    /\ account' = IF Ready(seen) THEN Required(account) ELSE account
    /\ UNCHANGED <<cluster, addons, dying, seen, token, churn, faults>>

\* A call fails: an error, tried again.
ReconcileFails ==
    /\ queued /\ Ready(seen) /\ faults < MaxFaults /\ faults' = faults + 1
    /\ UNCHANGED <<cluster, addons, dying, seen, account, token, queued, churn>>

Restart ==
    /\ faults < MaxFaults /\ faults' = faults + 1
    /\ seen' = <<cluster, addons, dying>> /\ queued' = (cluster # "gone")
    /\ UNCHANGED <<cluster, addons, dying, account, token, churn>>

Next ==
    \/ ClusterChanges \/ (\E a \in Addons : AddonChanges(a)) \/ AccountChanges \/ MakeToken
    \/ Deliver \/ Reconcile \/ ReconcileFails \/ Restart

Fairness == WF_vars(Deliver) /\ SF_vars(Reconcile) /\ WF_vars(MakeToken)

Spec == Init /\ [][Next]_vars /\ Fairness

-----------------------------------------------------------------------------
(* A request for a log: Connect of the log sub-resource. *)

\* Both add-ons are looked up, one that is being deleted counts.
ProxyServiceAvailable == Addons \subseteq addons

Connect(parts) ==
    CASE parts # 4 -> "invalid path"
      [] parts = 4 /\ ~ProxyServiceAvailable -> "please enable the add-ons"
      [] parts = 4 /\ ProxyServiceAvailable /\ ~token -> "no token"
      [] OTHER -> "handler"

\* At the end a live cluster with both add-ons serves its logs, with an account of the required
\* spec (a token that is rotated), whatever was deleted or overwritten on the way.
Accessible == cluster = "live" /\ Addons \subseteq addons \ dying => Connect(4) = "handler" /\ account = "ours"

EventuallyAccessible == <>[]Accessible
=============================================================================
