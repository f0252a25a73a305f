SPECIFICATION Spec
CONSTANTS
    Sessions = {s1, s2}
    InputKeys = {1}
    InputPwLens = {8}
    Names = {"10.0.0.1", "10.0.0.2", "host"}
    NameLen <- MCLengths
    Numeric <- MCNumeric
    HostAddresses <- MCHosts
    InputVersions = {3}
    MaxServers = 2
    None = None
    Unset = Unset
    NoKey = NoKey
    MaxCommands = 3
INVARIANTS
    AtMostMaxServers
CHECK_DEADLOCK FALSE
