\* A cluster with four changes by others and one failure; two exclusive sets and the global set.
CONSTANTS
    MaxChurn = 4
    MaxFaults = 1
    Sets = {s1, s2, global}
    GlobalSet = global
    BoundObjects = {o1}
    Users = {u1}
    NoLabel = NoLabel
    NoName = NoName
    ClusterRoles = {"view"}
    NamespaceRoles = {"admin"}
    NoSubject = NoSubject
    UpdatesFail = FALSE
    AddonSubjects <- MCAddonSubjects
    ClaimSets <- MCClaimSets
    NodeSets <- MCNodeSets
    Bound <- MCBound
    MaxVersion = 6
    Unknown = Unknown
    None = None
SPECIFICATION MCSpec
INVARIANTS TypeOK InfoGoesWithCluster PartsTypeOK OfflineEmpty
PROPERTIES EventuallyComplete EventuallyBound EventuallyInPlace EventuallyKnown
CHECK_DEADLOCK FALSE
