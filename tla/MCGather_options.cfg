CONSTANTS
    d1 = d1
    d2 = d2
    h1 = h1
    h2 = h2
    None = None
    Never = Never
    Datacenters = {d1, d2}
    Hosts = {h1, h2}
    Inventories <- MCOneInventory
    Configs <- MCNoHostsNoClusters
    Settled = TRUE
    DataDuration = 0
    SkipFor = 0
    MaxRuns = 4
    Selected = {h1, h2}
    Calls <- AllCalls

SPECIFICATION GatherSpec

INVARIANTS
    NoPanic
