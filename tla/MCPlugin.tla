------------------------------ MODULE MCPlugin -------------------------------
(***************************************************************************)
(* Small instances of Plugin for TLC.                                      *)
(***************************************************************************)
EXTENDS Plugin, TLC

CONSTANTS a, b, c

Set(key, value) == (key :> value) @@ Defaults

\* The defaults are always there; beside them a timeout of zero, one that is
\* longer than the interval, a negative one, an ESXi host, a CA that cannot be
\* read, a URL without a scheme that only govmomi accepts, a pattern that does
\* not compile, and sizes of chunks.
MCTables == {Set("bulk", 2), Set("bulk", 0), Set("bulk", -1), Set("timeout", 0),
             Set("timeout", 90), Set("timeout", -1), Set("isVC", FALSE),
             Set("ca", FALSE), Set("stdURL", FALSE),
             Set("soapURL", FALSE), Set("filters", FALSE)}

\* An interval that is not the default, none, and a negative one.
MCPolls == {30, 0, -1}

\* A datacenter with more than a chunk of references before one with a single
\* reference, and an empty one before one.
MCPlatforms == {<<<<a, b, c>>>>, <<<<a, b>>, <<c>>>>, <<<<>>, <<a>>>>}

\* For the counterexamples: the defaults, and two datacenters.
MCNoTables == {}
MCTwoDatacenters == {<<<<a, b>>, <<c>>>>}
=============================================================================
