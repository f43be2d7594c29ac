\* One exclusive set and the global set; two registries that compete for a cluster.  Two changes and one
\* fault of either controller.
CONSTANTS
    ExclusiveSets = {s1}
    GlobalSet = global
    Clusters = {c1}
    HiveObjects = {h1}
    n1 = n1
    r1 = r1
    r2 = r2
    Namespaces <- MCNamespaces
    NamespaceOf <- MCNamespaceOf
    NoSet = NoSet
    Gone = Gone
    Registries = {r1, r2}
    NoRegistry = NoRegistry
    Unused = Unused
    MaxChurn = 2
    MaxFaults = 1
SPECIFICATION MCSpec
INVARIANTS TypeOK NoOrphans NoLostChange RegistryTypeOK
PROPERTIES RolesOutliveTheSet EventuallyExact OnlyOwnLabels EventuallyGone
CHECK_DEADLOCK FALSE
