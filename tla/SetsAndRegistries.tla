-------------------------- MODULE SetsAndRegistries --------------------------
(***************************************************************************)
(* Two controllers of the hub that share no object: that of the            *)
(* ManagedClusterSets (ClusterSetController, which this module extends)    *)
(* and that of the ManagedClusterImageRegistries (ImageRegistry).  A       *)
(* behaviour is one of one of them, chosen initially, and leaves the       *)
(* variables of the other alone.                                           *)
(***************************************************************************)
EXTENDS ClusterSetController

CONSTANTS
    Registries, NoRegistry, \* of ImageRegistry
    Unused                  \* the value of a variable that no part uses

VARIABLES
    part,            \* the controller that runs
    registryObj, registryWire, registrySeen, clusterLabel, clusterWire, labelSeen, selected,
    registryEvents, registryQueue, registryPc, registryCur, registryFresh, toRemove, toUpdate, failed,
    registryChurn, registryFaults

registryVars ==
    <<registryObj, registryWire, registrySeen, clusterLabel, clusterWire, labelSeen, selected,
      registryEvents, registryQueue, registryPc, registryCur, registryFresh, toRemove, toUpdate, failed,
      registryChurn, registryFaults>>
allVars == <<part, vars, registryVars>>

Registry == INSTANCE ImageRegistry WITH
    obj <- registryObj, wire <- registryWire, seen <- registrySeen, label <- clusterLabel,
    events <- registryEvents, queue <- registryQueue, pc <- registryPc, cur <- registryCur,
    fresh <- registryFresh, churn <- registryChurn, faults <- registryFaults

ASSUME RegistryAssumption == Registry!RegistriesAssumption

-----------------------------------------------------------------------------
NoSets == Init /\ obj = [s \in Sets |-> Absent] /\ label = [o \in Objects |-> Gone]
NoRegistries ==
    /\ registryObj = Unused /\ registryWire = Unused /\ registrySeen = Unused /\ clusterLabel = Unused
    /\ clusterWire = Unused /\ labelSeen = Unused /\ selected = Unused /\ registryEvents = Unused
    /\ registryQueue = Unused /\ registryPc = Unused /\ registryCur = Unused /\ registryFresh = Unused
    /\ toRemove = Unused /\ toUpdate = Unused /\ failed = Unused
    /\ registryChurn = Unused /\ registryFaults = Unused

ControllersInit ==
    \/ part = "sets" /\ Init /\ NoRegistries
    \/ part = "registries" /\ NoSets /\ Registry!Init

ControllersNext ==
    /\ UNCHANGED part
    /\ \/ part = "sets" /\ Next /\ UNCHANGED registryVars
       \/ part = "registries" /\ Registry!Next /\ UNCHANGED vars

\* The fairness of each controller, while it runs.
SetsFairness ==
    /\ \A s \in Sets : WF_vars(part = "sets" /\ Deliver(s))
    /\ WF_vars(part = "sets" /\ \E e \in events : HandleEvent(e))
    /\ WF_vars(part = "sets" /\ Worker)

RegistriesFairness ==
    /\ WF_registryVars(part = "registries" /\ Registry!Worker)
    /\ \A r \in Registries :
          /\ WF_registryVars(part = "registries" /\ Registry!HandleDecisions(r))
          /\ WF_registryVars(part = "registries" /\ Registry!DeliverRegistry(r))
    /\ \A c \in Clusters : WF_registryVars(part = "registries" /\ Registry!DeliverCluster(c))

ControllersSpec ==
    ControllersInit /\ [][ControllersNext]_allVars /\ SetsFairness /\ RegistriesFairness

-----------------------------------------------------------------------------
\* The state of the image registry controller is of its types: among others its worker only lists
\* clusters that carry the label of its registry, or that have just lost it.
RegistryTypeOK == part = "registries" => Registry!TypeOK

\* The deletion of a registry and the Updates of clusters: a label changes hands only through the registry
\* that it names (OnlyOwnLabels of ImageRegistry).
OnlyOwnLabels == [][part = "registries" => Registry!OwnLabelsOnly]_allVars

\* Reconcile: no registry is left dying (EventuallyGone of ImageRegistry).
EventuallyGone == <>[](part = "registries" => \A r \in Registries : registryObj[r].phase # "dying")
=============================================================================
