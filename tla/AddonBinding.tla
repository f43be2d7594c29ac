---------------------------- MODULE AddonBinding ----------------------------
(***************************************************************************)
(* The RoleBinding that lets the agent of the work-manager add-on into the *)
(* cluster's namespace (pkg/addon).  The add-on framework calls            *)
(* createOrUpdateRoleBinding for the subjects the agent has registered; it *)
(* compares them with the binding the lister returns, and changes that     *)
(* object, the one of the informer's cache, before it updates the API      *)
(* server's.                                                               *)
(***************************************************************************)
EXTENDS Naturals

CONSTANTS
    Subjects,
    Nothing,      \* no subject, no binding
    UpdatesFail,  \* may an Update fail although the object is the current one (a timeout, a refusal)?
    MaxVersion,   \* bound: versions of the binding
    MaxChurn,     \* bound: registrations and changes by administrators
    MaxFaults     \* bound: failed calls and restarts

VARIABLES
    wanted,  \* the subject in the add-on's registration
    binding, \* the API server's RoleBinding
    cached,  \* the informer's object
    queued,  \* the framework has the add-on in its queue
    version, \* resourceVersion
    churn, faults

vars == <<wanted, binding, cached, queued, version, churn, faults>>

Binding == [subject : Subjects, ours : BOOLEAN, rv : 1..MaxVersion]  \* ours: of our ClusterRole

TypeOK ==
    /\ wanted \in Subjects \cup {Nothing} /\ binding \in Binding \cup {Nothing} /\ cached \in Binding \cup {Nothing}
    /\ queued \in BOOLEAN /\ version \in 0..MaxVersion
    /\ churn \in 0..MaxChurn /\ faults \in 0..MaxFaults

Init ==
    /\ wanted = Nothing /\ binding = Nothing /\ cached = Nothing /\ queued = FALSE /\ version = 0
    /\ churn = 0 /\ faults = 0

Store(subject, ours) ==
    /\ version < MaxVersion /\ version' = version + 1
    /\ binding' = [subject |-> subject, ours |-> ours, rv |-> version']

-----------------------------------------------------------------------------
(* The agent registers, administrators meddle. *)

Churn == churn < MaxChurn /\ churn' = churn + 1

Register(s) ==
    /\ Churn /\ wanted' = s /\ queued' = TRUE
    /\ UNCHANGED <<binding, cached, version, faults>>

Meddle ==
    /\ Churn
    /\ \/ \E s \in Subjects, ours \in BOOLEAN : Store(s, ours)
       \/ binding' = Nothing /\ UNCHANGED version
    /\ UNCHANGED <<wanted, cached, queued, faults>>

-----------------------------------------------------------------------------
(* The informer and the framework's controller. *)

\* The informer has the version the API server has.
Current == binding # Nothing /\ binding.rv = cached.rv

Deliver ==
    /\ ~(cached = Nothing /\ binding = Nothing) /\ ~(cached # Nothing /\ Current)
    /\ cached' = binding
    /\ UNCHANGED <<wanted, binding, queued, version, churn, faults>>

\* The resync of the add-on's informer.
Resync ==
    /\ ~queued /\ queued' = TRUE
    /\ UNCHANGED <<wanted, binding, cached, version, churn, faults>>

Restart ==
    /\ faults < MaxFaults /\ faults' = faults + 1
    /\ cached' = binding /\ queued' = TRUE
    /\ UNCHANGED <<wanted, binding, version, churn>>

\* The call is answered, or it is refused; a conflict is no fault of the API server.
Refused == faults < MaxFaults /\ faults' = faults + 1

\* Not found in the cache: an AlreadyExists is taken for success.
Create ==
    /\ cached = Nothing
    /\ \/ binding = Nothing /\ Store(wanted, TRUE) /\ queued' = FALSE /\ UNCHANGED faults
       \/ binding # Nothing /\ queued' = FALSE /\ UNCHANGED <<binding, version, faults>>
       \/ Refused /\ UNCHANGED <<binding, version, queued>>
    /\ UNCHANGED cached

Mismatched == cached # Nothing /\ ~cached.ours

\* Mutant: a binding with another subject is taken as it is.
SameRef == cached # Nothing /\ cached.ours

Same == cached # Nothing /\ cached.ours /\ cached.subject = wanted

\* The subjects are written into the cached object first, then to the API server: a conflict or an error
\* is returned and the add-on is tried again.
Update ==
    /\ cached # Nothing /\ cached.ours /\ ~Same
    /\ cached' = [cached EXCEPT !.subject = wanted]
    /\ \/ /\ Current
          /\ Store(wanted, cached.ours) /\ queued' = FALSE /\ UNCHANGED faults
       \/ ~Current /\ UNCHANGED <<binding, version, queued, faults>>
       \/ UpdatesFail /\ Refused /\ UNCHANGED <<binding, version, queued>>

\* PermissionConfig: without subjects a SubjectNotReadyError, which waits for the registration.
PermissionConfig ==
    /\ queued
    /\ \/ /\ wanted = Nothing \/ Same
          /\ queued' = FALSE /\ UNCHANGED <<binding, cached, version, faults>>
       \/ wanted # Nothing /\ (Create \/ Update)
       \/ wanted # Nothing /\ Mismatched /\ UNCHANGED <<binding, cached, version, queued, faults>>
    /\ UNCHANGED <<wanted, churn>>

Next == (\E s \in Subjects : Register(s)) \/ Meddle \/ Deliver \/ Resync \/ Restart \/ PermissionConfig

\* The informer delivers; the framework resyncs and retries.
Fairness == WF_vars(Deliver) /\ WF_vars(Resync) /\ SF_vars(PermissionConfig)

Spec == Init /\ [][Next]_vars /\ Fairness

\* Once the agent has registered it is in the binding for good: unless somebody has put a binding of
\* another role there, which the controller reports and leaves alone (TestCreateOrUpdateRoleBinding:
\* "update rolebinding subjects", "error on roleref mismatch").
Granted == wanted # Nothing => binding # Nothing /\ (binding.ours => binding.subject = wanted)

EventuallyGranted == <>[]Granted
=============================================================================
