CONSTANTS
    d1 = d1
    d2 = d2
    h1 = h1
    h2 = h2
    None = None
    Never = Never
    Datacenters = {d1, d2}
    Hosts = {h1, h2}
    Inventories <- MCInventories
    DataDuration = 2
    SkipFor = 0
    MaxRuns = 1
    Selected = {h1}
    Calls = {"dcs", "ch", "reset", "info", "esxcli", "report"}

SPECIFICATION CollectorSpec

INVARIANTS
    CacheTypeOK
    SlicesAreParallel
    EveryHostHasItsState
    NewerHostsMatchDatacenters
    SkippedSinceSomeTime

PROPERTIES
    StatesAreKept
