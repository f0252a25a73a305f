SPECIFICATION Spec
CONSTANTS
    Rows = {"r1", "r2"}
    IPs = {"ip1", "ip2"}
    FQDNs = {"host"}
    NameOf <- IPAndFQDN
    Resolve <- Resolution
    None = None
    MaxEdits = 0
    MaxEpoch = 1
    MaxQueue = 1
    FaultKinds = {}
    MaxFaults = 0
PROPERTIES
    FqdnRowsFresh
CHECK_DEADLOCK FALSE
