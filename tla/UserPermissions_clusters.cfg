\* One change, which may be that of a managed cluster.
CONSTANTS
    Objects <- MCObjects
    Contents <- MCContents
    InitialWorlds <- MCInitialWorlds
    Clusters = {"c1", "c2"}
    Requests <- MCRequests
    Absent = Absent
    ClustersChange = TRUE
    MaxChurn = 1
SPECIFICATION FairSpec
PROPERTY EventuallyShown
