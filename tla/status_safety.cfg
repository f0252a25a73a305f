SPECIFICATION Spec
CONSTANTS
    Rows = {"r1", "r2"}
    IPs = {"ip1", "ip2"}
    FQDNs = {"host"}
    NameOf <- TwoIPs
    Resolve <- Resolution
    None = None
    MaxEdits = 2
    MaxEpoch = 1
    MaxQueue = 2
    FaultKinds = {"ntpd", "query", "commit", "manager", "exception", "kill"}
    MaxFaults = 2
INVARIANTS
    TypeOK
    StatusInv
    RowsNotAheadOfSystem
    ExitDrains
    StatusIsOfItsServer
PROPERTIES
    NeverBackwards
CHECK_DEADLOCK FALSE
