SPECIFICATION Spec
CONSTANTS
    a1 = a1
    a2 = a2
    k1 = k1
    Assocs = {a1, a2}
    AddrOf <- OwnAddress
    KeyIds = {k1}
    Passwords = {p1}
    Opts = {o1}
    NoKey = NoKey
    None = None
    MaxEdits = 0
    MaxFaults = 1
    FaultKinds = {"restart"}
PROPERTIES
    ProvisionedNtpdObeys
CHECK_DEADLOCK FALSE
