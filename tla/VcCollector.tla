----------------------------- MODULE VcCollector -----------------------------
(***************************************************************************)
(* The collector of internal/vccollector used as a library: its refreshes  *)
(* and the effects of its Collect... and Report... methods on the host     *)
(* states, called in any order, against a vCenter that answers from any    *)
(* inventory, or fails, at every call.                                     *)
(***************************************************************************)
EXTENDS VcCache

CONSTANTS
    Selected,  \* the hosts that filterHosts and filterClusters let through
    Calls      \* the methods this client of the library uses

AllCalls == {"dcs", "ch", "nets", "dss", "vms", "reset", "info", "esxcli", "report", "others"}

ASSUME SelectedAssumption == Selected \subseteq Hosts
ASSUME CallsAssumption == Calls \subseteq AllCalls

-----------------------------------------------------------------------------
(***************************************************************************)
(* CollectHostInfo at datacenter i: the states of the hosts at positions   *)
(* seen are written, and those at positions up are connected.  A host is   *)
(* not seen when the query of its chunk fails or its summary has no        *)
(* runtime information.                                                    *)
(***************************************************************************)
FilteredIn(i) == {j \in DOMAIN hosts[i] : hosts[i][j] \in Selected /\ HasState(i, j)}

HostInfo(i, seen, up) ==
    /\ i \in DOMAIN hosts
    /\ seen \subseteq FilteredIn(i)
    /\ up \subseteq seen
    /\ hostStates' = [hostStates EXCEPT ![i] =
                        [j \in DOMAIN @ |-> IF j \in seen
                                            THEN setNotConnected(@[j], j \notin up)
                                            ELSE @[j]]]

(***************************************************************************)
(* One host of the loops of CollectHostHBA, CollectHostNIC, CollectHostFw  *)
(* and CollectHostGraphics.  What can come of it:                          *)
(*   skipped   the host is not connected, or is left alone after a failure *)
(*   executor  no executor could be made: the state is left as it is       *)
(*   ok        the command answered in time                                *)
(*   soft      the command failed and the loop goes on                     *)
(*   hard      the command failed with an error that ends the collection   *)
(*   slow      the command took maxResponseDuration or longer: likewise    *)
(***************************************************************************)
RunFails == {"soft", "hard", "slow"}
Outcomes == {"skipped", "executor", "ok"} \cup RunFails

\* Mutant of AfterVisit: a host that is skipped is marked anew.
AfterVisitRenewed(h, o) ==
    LET a == Asked(h, SkipFor)
    IN  IF o = "executor" \/ (o = "skipped" /\ ~a.notResponding) THEN a
        ELSE IF o = "skipped" THEN setNotResponding(a, TRUE)
        ELSE IF o = "ok" THEN sumResponseTime(a)
        ELSE setNotResponding(sumResponseTime(a), TRUE)

AfterVisit(h, o) ==
    LET a == Asked(h, SkipFor)
    IN  IF o \in {"skipped", "executor"} THEN a
        ELSE IF o = "ok" THEN sumResponseTime(a)
        ELSE setNotResponding(sumResponseTime(a), TRUE)

EsxcliVisit(i, j, o) ==
    /\ HasState(i, j)
    /\ o = "skipped" <=> ~isHostConnectedAndResponding(hostStates[i][j], SkipFor)
    /\ o \in {"skipped", "executor"} \/ hostStates[i][j].responseTime < MaxRuns
    /\ hostStates' = [hostStates EXCEPT ![i][j] = AfterVisit(@, o)]

(***************************************************************************)
(* One host of ReportHostEsxcliResponse, which asks with no skip duration. *)
(***************************************************************************)
\* Mutant of RespondingCode: an error code of its own.
RespondingCodeThree(h) == IF isHostConnectedAndResponding(h, 0) THEN 0 ELSE 3

RespondingCode(h) ==
    IF h.notConnected THEN 1
    ELSE IF isHostConnectedAndResponding(h, 0) THEN 0
    ELSE 2

\* Mutant of ReportHost: asks a copy of the host state.
ReportHostOfCopy(i, j) == j \in FilteredIn(i) /\ UNCHANGED hostStates

ReportHost(i, j) ==
    /\ j \in FilteredIn(i)
    /\ hostStates' = [hostStates EXCEPT ![i][j] = Asked(@, 0)]

-----------------------------------------------------------------------------
(***************************************************************************)
(* Any method at any time, until an index is out of range.                 *)
(***************************************************************************)
MayCall(method) == ~panicked /\ method \in Calls

RefreshDatacenters ==
    /\ MayCall("dcs")
    /\ \E v \in Inventories, ok \in BOOLEAN : getDatacenters(v, ok)
    /\ UNCHANGED <<chVars, ntVars, dsVars, vmVars, panicked>>

RefreshClustersAndHosts ==
    /\ MayCall("ch")
    /\ \E v \in Inventories, ok \in BOOLEAN : getAllDatacentersClustersAndHosts(v, ok)
    /\ UNCHANGED <<ntVars, dsVars, vmVars, panicked>>

RefreshNetworks ==
    /\ MayCall("nets")
    /\ \E v \in Inventories, ok \in BOOLEAN : getAllDatacentersNetworks(v, ok)
    /\ UNCHANGED <<chVars, dsVars, vmVars, panicked>>

RefreshDatastores ==
    /\ MayCall("dss")
    /\ \E v \in Inventories, ok \in BOOLEAN : getAllDatacentersDatastores(v, ok)
    /\ UNCHANGED <<chVars, ntVars, vmVars, panicked>>

RefreshVMs ==
    /\ MayCall("vms")
    /\ \E v \in Inventories, ok \in BOOLEAN : getAllDatacentersVMs(v, ok)
    /\ UNCHANGED <<ntVars, dsVars, panicked>>

\* Everything but the host states and panicked.
listVars == <<dcVars, ntVars, dsVars, vmVars, clusters, hosts, lastCHUpdate>>

Reset ==
    /\ MayCall("reset")
    /\ ResetResponseTimes
    /\ UNCHANGED listVars

Info ==
    /\ MayCall("info")
    /\ \E i \in 1..Len(dcs) :
          \E seen \in SUBSET (IF i \in DOMAIN hosts THEN FilteredIn(i) ELSE {}) :
              \E up \in SUBSET seen : HostInfo(i, seen, up)
    /\ UNCHANGED <<listVars, panicked>>

Esxcli ==
    /\ MayCall("esxcli")
    /\ \E i \in DOMAIN hosts : \E j \in DOMAIN hosts[i], o \in Outcomes : EsxcliVisit(i, j, o)
    /\ UNCHANGED <<listVars, panicked>>

Report ==
    /\ MayCall("report")
    /\ \E i \in DOMAIN hosts : \E j \in DOMAIN hosts[i] : ReportHost(i, j)
    /\ UNCHANGED <<listVars, panicked>>

\* Every other method only reads the cache.  Like the ones above it indexes one
\* or more slices at each position of c.dcs, and panics past the end of one.
Others ==
    /\ MayCall("others")
    /\ \E slice \in {clusters, hosts, hostStates, nets, dss, vms} : ~Covers(slice)
    /\ panicked' = TRUE
    /\ UNCHANGED <<listVars, hostStates>>

CollectorNext ==
    \/ Tick
    \/ RefreshDatacenters
    \/ RefreshClustersAndHosts
    \/ RefreshNetworks
    \/ RefreshDatastores
    \/ RefreshVMs
    \/ Reset
    \/ Info
    \/ Esxcli
    \/ Report
    \/ Others

CollectorSpec == CacheInit /\ [][CollectorNext]_cacheVars

-----------------------------------------------------------------------------
Ages == 0..DataDuration
Provenances == Seq(Datacenters \cup {None})

\* The types of the cache's slices and ages.
CacheTypeOK ==
    /\ dcs \in Seq(Datacenters)
    /\ clusters \in Provenances /\ nets \in Provenances
    /\ dss \in Provenances /\ vms \in Provenances
    /\ hosts \in Seq(Seq(Hosts))
    /\ hostStates \in Seq(Seq(HostStates))
    /\ lastDCUpdate \in Ages /\ lastCHUpdate \in Ages /\ lastNtUpdate \in Ages
    /\ lastDsUpdate \in Ages /\ lastVmUpdate \in Ages
    /\ panicked \in BOOLEAN

\* clusters, hosts and hostStates are resized together: they have one length
\* whatever failed half way, although only the first two are ever compared
\* with the number of datacenters (cache.go:80).
SlicesAreParallel ==
    Len(clusters) = Len(hosts) /\ Len(hosts) = Len(hostStates)

\* Every listed host has a host state at its position.  getHostState indexes
\* hostStates with a position of hosts and no check of its own (cache.go:240),
\* so this is what keeps it in range, also after a refresh that failed after
\* it had resized the slices or had dropped the hosts of a datacenter.
EveryHostHasItsState ==
    \A i \in DOMAIN hosts :
        hosts[i] # <<>> => i \in DOMAIN hostStates /\ Len(hostStates[i]) = Len(hosts[i])

\* Host lists that are older than the list of datacenters are the only ones
\* that may not match it: cached hosts that were listed after the datacenters
\* were have one entry per datacenter, unless a failed refresh emptied c.dcs.
\* Every collector relies on it when it indexes c.hosts over c.dcs.
NewerHostsMatchDatacenters ==
    lastCHUpdate < lastDCUpdate => dcs = <<>> \/ Len(hosts) = Len(dcs)

\* The same of the other lists, which are read at positions of c.dcs too: one
\* that is newer than the list of datacenters was listed from these very
\* datacenters, in their order, so what it holds is reported under the right
\* name.  The VMs need the hosts to be cached or listed for it in between.
NewerListsAreOfDatacenters ==
    dcs # <<>> =>
        /\ lastCHUpdate < lastDCUpdate => clusters = dcs
        /\ lastNtUpdate < lastDCUpdate => nets = dcs
        /\ lastDsUpdate < lastDCUpdate => dss = dcs
        /\ lastVmUpdate < lastDCUpdate => vms = dcs

\* A host that is skipped has a time of its last failure: without one the
\* skip would never end, because isHostConnectedAndResponding clears the flag
\* only when lastNoResponse is not zero (cache.go:301).
SkippedSinceSomeTime ==
    \A i \in DOMAIN hostStates : \A j \in DOMAIN hostStates[i] :
        hostStates[i][j].notResponding => hostStates[i][j].lastNoResponse # Never

\* The states of the hosts of a datacenter outlive a refresh that finds as many
\* datacenters, and as many hosts there and in those before it, as the cache
\* has, as the comment at cache.go:110 says; and they outlive a refresh that
\* fails.  The hosts of a failed listing count as none, though, so the refresh
\* after it finds another number and the states are lost there.
StatesAreKept ==
    [][RefreshClustersAndHosts /\ Len(hosts') = Len(hosts) =>
          \A i \in DOMAIN hosts :
              (\A m \in 1..i : hosts[m] # <<>> /\ Len(hosts'[m]) \in {0, Len(hosts[m])}) =>
                  hostStates'[i] = hostStates[i]]_cacheVars
=============================================================================
