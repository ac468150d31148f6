CONSTANTS
    d1 = d1
    d2 = d2
    h1 = h1
    h2 = h2
    None = None
    Never = Never
    Datacenters = {d1, d2}
    Hosts = {h1, h2}
    Inventories <- MCReplaced
    DataDuration = 0
    SkipFor = 1
    MaxRuns = 1
    Selected = {h1, h2}
    Calls = {"dcs", "ch", "reset", "info", "esxcli", "report"}

SPECIFICATION CollectorSpec

PROPERTIES
    KeepsThePromise
