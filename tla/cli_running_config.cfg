SPECIFICATION Spec
CONSTANTS
    Sessions = {s1}
    InputKeys = {1}
    InputPwLens = {8}
    Names = {"host"}
    NameLen <- MCLengths
    Numeric <- MCNumeric
    HostAddresses <- MCHosts
    InputVersions = {3}
    MaxServers = 1
    None = None
    Unset = Unset
    NoKey = NoKey
    MaxCommands = 1
INVARIANTS
    RunningConfigKeepsAuth
CHECK_DEADLOCK FALSE
