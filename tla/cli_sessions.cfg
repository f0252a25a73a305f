SPECIFICATION Spec
CONSTANTS
    Sessions = {s1, s2}
    InputKeys = {0, 1, 65534, 65535}
    InputPwLens = {7, 8, 17}
    Names = {"10.0.0.1", "10.0.0.2", "host", "long", "0.0.0.0"}
    NameLen <- MCLengths
    Numeric <- MCNumeric
    HostAddresses <- MCHosts
    InputVersions = {3, 5}
    MaxServers = 1
    None = None
    Unset = Unset
    NoKey = NoKey
    MaxCommands = 4
SYMMETRY Symmetry
INVARIANTS
    TypeOK
    CliInv
    StoredIsSane
    DaemonReadsWhatIsStored
    ShownIsUsed
    OvershootBounded
    RunningConfigRestores
PROPERTIES
    EditsAsModelled
CHECK_DEADLOCK FALSE
