SPECIFICATION FairSpec
CONSTANTS
    a1 = a1
    a2 = a2
    k1 = k1
    Assocs = {a1, a2}
    AddrOf <- OwnAddress
    KeyIds = {k1}
    Passwords = {p1}
    Opts = {o1}
    NoKey = NoKey
    None = None
    MaxEdits = 2
    MaxFaults = 0
    FaultKinds = {}
PROPERTIES
    ImplementsReplica
    ServersDelivered
    EventuallyInSync
CHECK_DEADLOCK FALSE
