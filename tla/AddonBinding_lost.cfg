\* Two of the subjects a binding may have; updates may fail.
CONSTANTS
    Subjects = {u1, u2}
    Nothing = Nothing
    UpdatesFail = TRUE
    MaxVersion = 6
    MaxChurn = 3
    MaxFaults = 2
SPECIFICATION Spec
PROPERTY EventuallyGranted
CHECK_DEADLOCK FALSE
