---------------------------- MODULE MCVcCollector ----------------------------
(***************************************************************************)
(* Small instances of VcCollector for TLC.                                 *)
(***************************************************************************)
EXTENDS VcBreaker, TLC

CONSTANTS d1, d2, h1, h2

Inventory(ds, a, b) == [dcs |-> ds, hosts |-> (d1 :> a) @@ (d2 :> b)]

\* One host; a second one in front of it; a second datacenter in front, with
\* the second host; the second datacenter behind and without a host.
MCInventories == {Inventory(<<d1>>, <<h1>>, <<h2>>),
                  Inventory(<<d1>>, <<h2, h1>>, <<>>),
                  Inventory(<<d2, d1>>, <<h1>>, <<h2>>),
                  Inventory(<<d1, d2>>, <<h1>>, <<>>)}

\* One host, which is replaced by another, joined by it, or moves to the second
\* place when the datacenter of the other comes before its own.
MCReplaced == {Inventory(<<d1>>, <<h1>>, <<>>),
               Inventory(<<d1>>, <<h2>>, <<>>),
               Inventory(<<d1>>, <<h2, h1>>, <<>>),
               Inventory(<<d2, d1>>, <<h1>>, <<h2>>)}

\* The datacenters in any order; nothing changes within them.
MCMovedDatacenter == {Inventory(ds, <<h1>>, <<h2>>) : ds \in {<<d1>>, <<d1, d2>>, <<d2, d1>>}}

MCOneInventory == {Inventory(<<d1>>, <<h1, h2>>, <<>>)}
=============================================================================
