\* One subject, one resource and two bindings to two roles; the parts have bounds of their own.
CONSTANTS
    Subjects = {u1}
    Resources = {c1}
    r1 = r1
    r2 = r2
    b1 = b1
    b2 = b2
    Roles <- MCRoles
    Bindings <- MCBindings
    RoleOf <- MCRoleOf
    All = All
    MaxChurn = 1
    Objects <- MCObjects
    PermissionContents <- MCContents
    InitialWorlds <- MCInitialWorlds
    ManagedClusters = {"c1", "c2"}
    Requests <- MCRequests
    WebhookNames <- MCWebhookNames
    WebhookSets <- MCWebhookSets
    Global = "global"
    Default = "default"
    NoSet = "none"
    WebhookUsers = {"admin", "member"}
    Joins <- MCJoins
    InitialObjects <- MCInitialObjects
    IdentityUsers <- MCIdentityUsers
    Nobody = "nobody"
    IdentityGroups <- MCIdentityGroups
    SkipOverwriteUserList = {"controller"}
    TeamGroups <- MCTeamGroups
    ConfigMapNames = {n1, n2}
    Subs = {s1, s2}
    Absent = Absent
    Forbidden = Forbidden
    Failed = Failed
    None = None
    Bound <- MCBound
SPECIFICATION ProxySpec
INVARIANTS TypeOK KnownCoverRecords PartsTypeOK NothingLost NothingMissing ActsForAuthor
PROPERTIES EventuallyListed HashTells EventuallyShown ClaimedStays OnlyMembers EventuallyServed
CHECK_DEADLOCK FALSE
