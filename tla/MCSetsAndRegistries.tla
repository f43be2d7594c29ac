------------------------ MODULE MCSetsAndRegistries ------------------------
(***************************************************************************)
(* Instances of SetsAndRegistries for TLC.                                 *)
(***************************************************************************)
EXTENDS SetsAndRegistries

CONSTANTS n1, r1, r2

\* Every hive object lives in the namespace n1, which can so be in two sets.
MCNamespaces == {n1}
MCNamespaceOf == [h \in HiveObjects |-> n1]

\* The registries are symmetric: initially r2 is there only if r1 is, and only r1 has selected a cluster.
MCInit ==
    /\ ControllersInit
    /\ part = "registries" =>
          /\ registryObj[r1] = Registry!Absent => registryObj[r2] = Registry!Absent
          /\ selected[r2] = {}

MCSpec == MCInit /\ [][ControllersNext]_allVars /\ SetsFairness /\ RegistriesFairness
=============================================================================
