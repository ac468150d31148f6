CONSTANTS
    None = None
    a = a
    b = b
    c = c
    Refs = {a, b, c}
    Tables <- MCNoTables
    Polls = {30, 60}
    Platforms <- MCTwoDatacenters
    Sessions = {1, 2, 3}
    MaxLost = 1

SPECIFICATION PluginSpec

INVARIANTS
    UnderTheirDatacenter
