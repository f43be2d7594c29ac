\* RoleBindings for view: a namespace in an exclusive and in the global set.
CONSTANTS
    Sets = {s1, global}
    GlobalSet = global
    Objects = {n1}
    Users = {u1}
    ClusterRoles = {}
    NamespaceRoles = {"view"}
    NoLabel = NoLabel
    NoName = NoName
    MaxChurn = 2
    MaxFaults = 0
SPECIFICATION FairSpec
PROPERTY EventuallyBound
CHECK_DEADLOCK FALSE
