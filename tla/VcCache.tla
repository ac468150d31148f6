------------------------------- MODULE VcCache -------------------------------
(***************************************************************************)
(* The inventory cache of internal/vccollector/cache.go: for each kind of  *)
(* vCenter entity a slice with one list per datacenter, and the time of    *)
(* its last complete refresh.  The slices are parallel by position only:   *)
(* entry i of every slice is meant to be about datacenter c.dcs[i], and    *)
(* entry j of hostStates[i] about host c.hosts[i][j].                      *)
(*                                                                         *)
(* What a list contains matters only for hosts.  For the other kinds an    *)
(* entry is the datacenter it was listed from, or None after a refresh     *)
(* that failed.  As in HostState, a last...Update variable holds what      *)
(* time.Since would return for it, in ticks, and stops growing at          *)
(* DataDuration, where the data is stale for good.                         *)
(***************************************************************************)
EXTENDS HostState, Sequences

CONSTANTS
    Datacenters,
    Hosts,
    Inventories,   \* the inventories the vCenter may have when it is asked
    DataDuration,  \* c.dataDuration, in ticks
    None

(***************************************************************************)
(* An inventory is the list of datacenters and, for each of them, its      *)
(* list of hosts, in the order the finder returns them.                    *)
(***************************************************************************)
ASSUME InventoriesAssumption ==
    Inventories \subseteq [dcs : Seq(Datacenters), hosts : [Datacenters -> Seq(Hosts)]]
(***************************************************************************)
(* The finder returns each object once, and a host is in one datacenter.   *)
(***************************************************************************)
ASSUME ListedOnceAssumption ==
    \A v \in Inventories :
        /\ \A i, k \in DOMAIN v.dcs : v.dcs[i] = v.dcs[k] => i = k
        /\ \A d, e \in Datacenters :
              \A j \in DOMAIN v.hosts[d], m \in DOMAIN v.hosts[e] :
                  v.hosts[d][j] = v.hosts[e][m] => d = e /\ j = m
ASSUME DataDurationAssumption == DataDuration \in Nat
ASSUME NoneAssumption == None \notin Datacenters /\ None \notin Nat

VARIABLES
    dcs, clusters, hosts, hostStates, nets, dss, vms,
    lastDCUpdate, lastCHUpdate, lastNtUpdate, lastDsUpdate, lastVmUpdate,
    panicked   \* an index was out of range: the process is gone

dcVars   == <<dcs, lastDCUpdate>>
chVars   == <<clusters, hosts, hostStates, lastCHUpdate>>
ntVars   == <<nets, lastNtUpdate>>
dsVars   == <<dss, lastDsUpdate>>
vmVars   == <<vms, lastVmUpdate>>
cacheVars == <<dcVars, chVars, ntVars, dsVars, vmVars, panicked>>

CacheInit ==
    /\ dcs = <<>> /\ clusters = <<>> /\ hosts = <<>> /\ hostStates = <<>>
    /\ nets = <<>> /\ dss = <<>> /\ vms = <<>>
    /\ lastDCUpdate = DataDuration /\ lastCHUpdate = DataDuration
    /\ lastNtUpdate = DataDuration /\ lastDsUpdate = DataDuration
    /\ lastVmUpdate = DataDuration
    /\ panicked = FALSE

Fresh(last) == last < DataDuration

-----------------------------------------------------------------------------
(***************************************************************************)
(* The refreshes.  v is the inventory the vCenter answers from and ok      *)
(* whether the method returns a nil error.                                 *)
(***************************************************************************)

\* Mutant of getDatacenters: forgets to take the time of the refresh.
getDatacentersUntimed(v, ok) ==
    \/ /\ Fresh(lastDCUpdate) /\ ok
       /\ UNCHANGED dcVars
    \/ /\ ~Fresh(lastDCUpdate)
       /\ dcs' = IF ok THEN v.dcs ELSE <<>>
       /\ UNCHANGED lastDCUpdate

\* The finder fails when there is no datacenter; a failed call leaves c.dcs nil.
getDatacenters(v, ok) ==
    \/ /\ Fresh(lastDCUpdate) /\ ok
       /\ UNCHANGED dcVars
    \/ /\ ~Fresh(lastDCUpdate) /\ ok
       /\ v.dcs # <<>>
       /\ dcs' = v.dcs
       /\ lastDCUpdate' = 0
    \/ /\ ~Fresh(lastDCUpdate) /\ ~ok
       /\ dcs' = <<>>
       /\ UNCHANGED lastDCUpdate

\* Mutant of Listed: the finder is set to the first datacenter only.
ListedFromFirst(ds, ok) == [i \in 1..Len(ds) |-> IF ok THEN ds[1] ELSE None]

\* A slice of provenances after a loop over ds: no caller reads it before a
\* complete refresh when the loop has failed, so which entries it still has
\* from before is left out.
Listed(ds, ok) == IF ok THEN ds ELSE [i \in 1..Len(ds) |-> None]

\* How the loop over n datacenters ends: past the last one, or at a datacenter
\* where the listing of its clusters or of its hosts fails.
Endings(n) == [at : 1..n, on : {"clusters", "hosts"}] \cup {[at |-> n + 1, on |-> "nil"]}

\* Mutant of PlatformChange: only the number of datacenters is looked at.
PlatformChangeOfDatacenters(resized, old, found, i) == resized

\* Mutant of PlatformChange: set before every loop.
PlatformChangeAlways(resized, old, found, i) == TRUE

\* Mutant of PlatformChange: set only if there are more hosts than before.
PlatformChangeIfGrown(resized, old, found, i) ==
    resized \/ \E m \in 1..i : Len(old[m]) < Len(found[m])

\* platformChange at datacenter i of the loop.  Once a datacenter turns out to
\* have another number of hosts than before, it stays set for the later ones.
PlatformChange(resized, old, found, i) ==
    resized \/ \E m \in 1..i : Len(old[m]) # Len(found[m])

(***************************************************************************)
(* The loop of getAllDatacentersClustersAndHosts over the datacenters ds,  *)
(* from the resizing of the slices to where it ends.                       *)
(***************************************************************************)
ListClustersAndHosts(v, ds, e) ==
    LET n       == Len(ds)
        resized == n # Len(clusters) \/ n # Len(hosts)
        old     == IF resized THEN [i \in 1..n |-> <<>>] ELSE hosts
        states  == IF resized THEN [i \in 1..n |-> <<>>] ELSE hostStates
        found   == [i \in 1..n |-> v.hosts[ds[i]]]
    IN  \* the finder fails on a datacenter without hosts
        /\ \A i \in 1..n : i < e.at => found[i] # <<>>
        /\ clusters' = Listed(ds, e.on = "nil")
        /\ hosts' = [i \in 1..n |->
                        IF i < e.at THEN found[i]
                        ELSE IF i = e.at /\ e.on = "hosts" THEN <<>>
                        ELSE old[i]]
        /\ hostStates' = [i \in 1..n |->
                        IF i < e.at /\ PlatformChange(resized, old, found, i)
                        THEN [j \in 1..Len(found[i]) |-> ZeroState]
                        ELSE states[i]]
        /\ lastCHUpdate' = IF e.on = "nil" THEN 0 ELSE lastCHUpdate

getAllDatacentersClustersAndHosts(v, ok) ==
    \/ /\ Fresh(lastCHUpdate) /\ ok
       /\ UNCHANGED <<dcVars, chVars>>
    \/ /\ ~Fresh(lastCHUpdate) /\ ~ok
       /\ getDatacenters(v, FALSE)
       /\ UNCHANGED chVars
    \/ /\ ~Fresh(lastCHUpdate)
       /\ getDatacenters(v, TRUE)
       /\ \E e \in Endings(Len(dcs')) :
             /\ ok = (e.on = "nil")
             /\ ListClustersAndHosts(v, dcs', e)

getAllDatacentersNetworks(v, ok) ==
    \/ /\ Fresh(lastNtUpdate) /\ ok
       /\ UNCHANGED <<dcVars, ntVars>>
    \/ /\ ~Fresh(lastNtUpdate) /\ ~ok
       /\ getDatacenters(v, FALSE)
       /\ UNCHANGED ntVars
    \/ /\ ~Fresh(lastNtUpdate)
       /\ getDatacenters(v, TRUE)
       /\ nets' = Listed(dcs', ok)
       /\ lastNtUpdate' = IF ok THEN 0 ELSE lastNtUpdate

getAllDatacentersDatastores(v, ok) ==
    \/ /\ Fresh(lastDsUpdate) /\ ok
       /\ UNCHANGED <<dcVars, dsVars>>
    \/ /\ ~Fresh(lastDsUpdate) /\ ~ok
       /\ getDatacenters(v, FALSE)
       /\ UNCHANGED dsVars
    \/ /\ ~Fresh(lastDsUpdate)
       /\ getDatacenters(v, TRUE)
       /\ dss' = Listed(dcs', ok)
       /\ lastDsUpdate' = IF ok THEN 0 ELSE lastDsUpdate

\* The VMs are looked up in their hosts, so this one refreshes the hosts first.
getAllDatacentersVMs(v, ok) ==
    \/ /\ Fresh(lastVmUpdate) /\ ok
       /\ UNCHANGED <<dcVars, chVars, vmVars>>
    \/ /\ ~Fresh(lastVmUpdate) /\ ~ok
       /\ getAllDatacentersClustersAndHosts(v, FALSE)
       /\ UNCHANGED vmVars
    \/ /\ ~Fresh(lastVmUpdate)
       /\ getAllDatacentersClustersAndHosts(v, TRUE)
       /\ vms' = Listed(dcs', ok)
       /\ lastVmUpdate' = IF ok THEN 0 ELSE lastVmUpdate

-----------------------------------------------------------------------------
(***************************************************************************)
(* Reading and writing host states by position.                            *)
(***************************************************************************)

\* A loop over c.dcs that indexes slice at each position stays in range.
Covers(slice) == Len(dcs) <= Len(slice)

\* getHostStateIdx does not return nil.
HasState(i, j) ==
    /\ i \in DOMAIN hostStates /\ j \in DOMAIN hostStates[i]
    /\ i \in DOMAIN hosts /\ j \in DOMAIN hosts[i]

\* Mutant of WithoutTime: only the hosts that respond are reset.
WithoutTimeIfResponding(h) == IF h.notResponding THEN h ELSE [h EXCEPT !.responseTime = 0]

WithoutTime(h) == [h EXCEPT !.responseTime = 0]

\* Mutant of ResetResponseTimes: makes a slice for the present datacenters.
ResetResponseTimesAnew ==
    /\ Covers(hostStates)
    /\ hostStates' = [i \in 1..Len(dcs) |->
                        [j \in 1..Len(hostStates[i]) |-> WithoutTime(hostStates[i][j])]]
    /\ UNCHANGED panicked

ResetResponseTimes ==
    \/ /\ Covers(hostStates)
       /\ hostStates' = [i \in 1..Len(hostStates) |->
                            IF i > Len(dcs) THEN hostStates[i]
                            ELSE [j \in 1..Len(hostStates[i]) |->
                                    WithoutTime(hostStates[i][j])]]
       /\ UNCHANGED panicked
    \/ /\ ~Covers(hostStates)
       /\ panicked' = TRUE
       /\ UNCHANGED hostStates

NotRespondingHosts ==
    UNION {{<<i, j>> : j \in {k \in DOMAIN hostStates[i] : hostStates[i][k].notResponding}} :
              i \in 1..Len(dcs)}

-----------------------------------------------------------------------------
Older(last) == IF last < DataDuration THEN last + 1 ELSE last

\* Time passes by one tick.
Tick ==
    /\ lastDCUpdate' = Older(lastDCUpdate)
    /\ lastCHUpdate' = Older(lastCHUpdate)
    /\ lastNtUpdate' = Older(lastNtUpdate)
    /\ lastDsUpdate' = Older(lastDsUpdate)
    /\ lastVmUpdate' = Older(lastVmUpdate)
    /\ hostStates' = [i \in 1..Len(hostStates) |->
                        [j \in 1..Len(hostStates[i]) |-> Aged(hostStates[i][j])]]
    /\ UNCHANGED <<dcs, clusters, hosts, nets, dss, vms, panicked>>
=============================================================================
