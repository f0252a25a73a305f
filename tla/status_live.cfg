SPECIFICATION Spec
CONSTANTS
    Rows = {"r1", "r2"}
    IPs = {"ip1", "ip2"}
    FQDNs = {"host"}
    NameOf <- TwoIPs
    Resolve <- Resolution
    None = None
    MaxEdits = 1
    MaxEpoch = 2
    MaxQueue = 1
    FaultKinds = {"ntpd", "query", "commit", "manager"}
    MaxFaults = 1
PROPERTIES
    EventuallyFresh
    ExitCompletes
    PollsGoOn
    ImplementsFeed
CHECK_DEADLOCK FALSE
