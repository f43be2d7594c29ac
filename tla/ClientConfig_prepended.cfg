\* The address changes once; no failure.
CONSTANTS
    Urls = {u1, u2}
    Cas = {k1}
    OtherUrl = OtherUrl
    NoUrl = NoUrl
    MaxChurn = 1
    MaxFaults = 0
SPECIFICATION Spec
INVARIANTS OneOwnEntry
