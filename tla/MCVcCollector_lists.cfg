CONSTANTS
    d1 = d1
    d2 = d2
    h1 = h1
    h2 = h2
    None = None
    Never = Never
    Datacenters = {d1, d2}
    Hosts = {h1, h2}
    Inventories <- MCMovedDatacenter
    DataDuration = 2
    SkipFor = 0
    MaxRuns = 1
    Selected = {h1}
    Calls = {"dcs", "nets", "dss", "vms", "others"}

SPECIFICATION CollectorSpec

INVARIANTS
    NewerListsAreOfDatacenters
