SPECIFICATION Spec
CONSTANTS
    a1 = a1
    a2 = a2
    k1 = k1
    Assocs = {a1, a2}
    AddrOf <- OwnAddress
    KeyIds = {k1}
    Passwords = {p1, p2}
    Opts = {o1}
    NoKey = NoKey
    None = None
    MaxEdits = 2
    MaxFaults = 2
    FaultKinds = {"command", "ntpd", "restart"}
SYMMETRY Symmetry
INVARIANTS
    TypeOK
    ConfigInv
    InSync
    TrustedKeysLoaded
PROPERTIES
    RemovedOnlyToReplace
CHECK_DEADLOCK FALSE
