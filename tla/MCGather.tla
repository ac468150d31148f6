------------------------------ MODULE MCGather -------------------------------
(***************************************************************************)
(* Small instances of Gather for TLC.                                      *)
(***************************************************************************)
EXTENDS Gather, TLC

CONSTANTS d1, d2, h1, h2

Inventory(ds, a, b) == [dcs |-> ds, hosts |-> (d1 :> a) @@ (d2 :> b)]

\* One datacenter with a host; a second host in front of it; and a second
\* datacenter in front of both, with the second host.
MCInventories == {Inventory(<<d1>>, <<h1>>, <<h2>>),
                  Inventory(<<d1>>, <<h2, h1>>, <<>>),
                  Inventory(<<d2, d1>>, <<h1>>, <<h2>>)}

\* The esxcli commands and the other queries, each with one of the options
\* that make CollectDatacenterInfo refresh every list.
MCConfigs == {{"host", "hba", "vm"},
              {"cluster", "nic", "fw"},
              {"host", "graphics", "services", "datastore"},
              {"cluster", "dvs", "dvp", "vm"}}

\* The run with these options is one of the case that is proved.
ASSUME SettledRunAssumption == Configs = MCConfigs => SettledCase

\* For the runs with a cache: only the number of datacenters changes.
MCTwoInventories == {Inventory(<<d1>>, <<h1>>, <<h2>>),
                     Inventory(<<d2, d1>>, <<h1>>, <<h2>>)}

MCCachedConfigs == {{"cluster", "hba", "dvs"}, {"host", "services", "datastore", "vm"}}

\* For the counterexamples: one datacenter that never changes.
MCOneInventory == {Inventory(<<d1>>, <<h1, h2>>, <<>>)}

MCNoHostsNoClusters == {{"vm"}}
MCHostsAndAdapters == {{"host", "hba"}}
=============================================================================
