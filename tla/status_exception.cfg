SPECIFICATION Spec
CONSTANTS
    Rows = {"r1", "r2"}
    IPs = {"ip1", "ip2"}
    FQDNs = {"host"}
    NameOf <- TwoIPs
    Resolve <- Resolution
    None = None
    MaxEdits = 0
    MaxEpoch = 1
    MaxQueue = 1
    FaultKinds = {"exception"}
    MaxFaults = 1
PROPERTIES
    FailureEnds
CHECK_DEADLOCK FALSE
