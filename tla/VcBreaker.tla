------------------------------ MODULE VcBreaker -------------------------------
(***************************************************************************)
(* The collector keeps the promise of HostBreaker, although it knows a     *)
(* host only by its position in slices that are refreshed again and again, *)
(* emptied by refreshes that fail, and resized.                            *)
(*                                                                         *)
(* A place is an index of c.dcs.  A host without a state in a place is     *)
(* unknown there.                                                          *)
(***************************************************************************)
EXTENDS VcCollector

Places == UNION {DOMAIN v.dcs : v \in Inventories}
Seats == Places \X Hosts

\* Where the host s[2] is listed in the place s[1], with a host state.
Positions(s) ==
    {j \in IF s[1] \in DOMAIN hosts THEN DOMAIN hosts[s[1]] ELSE {} :
        HasState(s[1], j) /\ hosts[s[1]][j] = s[2]}

StateOf(s) ==
    IF Positions(s) = {} THEN ZeroState
    ELSE hostStates[s[1]][CHOOSE j \in Positions(s) : TRUE]

Seen(st) == [down |-> st.notConnected, open |-> st.notResponding,
             age  |-> st.lastNoResponse, runs |-> st.responseTime]

Taken == {s \in Seats : Positions(s) # {}}
SeenOf == [s \in Seats |-> Seen(StateOf(s))]

Breaker == INSTANCE HostBreaker
           WITH listed <- Taken, breaker <- SeenOf, Reports <- "report" \in Calls

-----------------------------------------------------------------------------
\* Whatever is refreshed, fails or changes, a host that is known to be down is
\* sent no command, and one that has failed is sent none before its time, unless
\* ReportHostEsxcliResponse has asked about it a tick or more after the failure.
\* What is known of a host is kept in its place, forgotten together with all
\* that is known there, or handed on, one for one, to another host there; and no
\* host is left alone for what happened to one in another place
\* (isHostConnectedAndResponding, cache.go:296, and the slices of
\* getAllDatacentersClustersAndHosts, cache.go:79-115).
KeepsThePromise == Breaker!Spec
=============================================================================
