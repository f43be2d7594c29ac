\* The instance of MCAgent.cfg; the two stable claims of OpenShift are deleted in an outage.
CONSTANTS
    MaxChurn = 2
    MaxFaults = 2
    Clusters <- MCClusters
    NodeLists <- MCNodeLists
    LabelSets <- MCLabelSets
    DnsPart <- MCDnsPart
    InvalidParts = {"-"}
    Outages <- MCOutages
    ViewKinds = {"pods", "secrets"}
    Secrets = "secrets"
    Aliases = {"secret"}
    KindOf <- MCKindOf
    Values = {"a", "b"}
    Absent = "absent"
    NoScope = "none"
    Urls = {"url1", "url2"}
    Cas = {"ca1", "ca2"}
    OtherUrl = "other"
    NoUrl = "none"
    Bound <- MCBound
    Unused = Unused
SPECIFICATION MCSpec
PROPERTIES StableClaimsStay
CHECK_DEADLOCK FALSE
