CONSTANTS
    None = None
    a = a
    b = b
    c = c
    Refs = {a, b, c}
    Tables <- MCTables
    Polls <- MCPolls
    Platforms <- MCPlatforms
    Sessions = {1, 2, 3}
    MaxLost = 1

SPECIFICATION FairPluginSpec

INVARIANTS
    PluginTypeOK
    NothingOutlivesAGather
    ClientHasCollector
    SteadyGatherHasSession
    ObjectsOfThisClient
    NothingIsMissed
    HostsUnderTheirDatacenter

PROPERTIES
    RenewalDoesNotPanic
    NothingIsLeftBehind
    SessionComesBack
