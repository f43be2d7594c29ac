\* One deletion, no failure.
CONSTANTS
    MaxChurn = 1
    MaxFaults = 0
SPECIFICATION Spec
INVARIANTS RolesGoWithCluster
CHECK_DEADLOCK FALSE
