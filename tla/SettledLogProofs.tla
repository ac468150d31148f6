--------------------------- MODULE SettledLogProofs ----------------------------
(***************************************************************************)
(* What a gather finds and reports of each host is what it has itself      *)
(* learnt of it, in the settled case of SettledProofs.  The proofs relate  *)
(* the log, by host, to hostStates, by position.  It works because after   *)
(* CollectDatacenterInfo every complete listing finds the same hosts at    *)
(* the same positions, and an incomplete one only drops some.              *)
(***************************************************************************)
EXTENDS LogProofs

\* What a complete refresh leaves in c.hosts.
Listing(v) == [i \in 1..Len(v.dcs) |-> v.hosts[v.dcs[i]]]

\* The stages before ReportHostEsxcliResponse, and those from ResetResponseTimes
\* to its end.
Unreported == {"cluster", "host", "reset", "services"} \cup EsxcliStages
Timed == EsxcliStages \cup {"services", "report"}

HostsPlaced ==
    /\ hosts = Listing(inventory)
    /\ \A i \in DOMAIN hosts : hosts[i] # <<>>

\* The hosts are at their places once they were listed in this gather.  Only the
\* last refresh of hosts, that of the VMs, may fail and the gather go on.
PlacedInv ==
    /\ pc = "datacenter" /\ need \in {<<"nets", "dss">>, <<"dss">>, <<>>} => HostsPlaced
    /\ pc \in Late \ {"self"} => HostsPlaced
    /\ pc \in Late \ {"vm", "self"} => dcs = inventory.dcs
    /\ pc = "datastore" => need \in {<<"dss">>, <<>>}
    /\ pc = "self" => need = <<>>

\* The host states say at least what the gather has seen and reported.
StatesMatchLog ==
    \A i \in DOMAIN hosts : \A j \in DOMAIN hosts[i] :
        /\ log[hosts[i][j]].down => hostStates[i][j].notConnected
        /\ log[hosts[i][j]].code = 0 => ~hostStates[i][j].notResponding

TimesMatchLog ==
    \A i \in DOMAIN hosts : \A j \in DOMAIN hosts[i] :
        hostStates[i][j].responseTime = log[hosts[i][j]].runs

LogInv ==
    /\ pc \in {"idle", "vcenter", "datacenter"} => log = NoLog
    /\ pc \in Unreported => \A h \in Hosts : log[h].code = None
    /\ pc \in Late => StatesMatchLog
    /\ pc \in Timed => TimesMatchLog

-----------------------------------------------------------------------------
(***************************************************************************)
(* The order of the stages                                                 *)
(***************************************************************************)
LEMMA StagePlaces ==
    /\ \A k \in 1..16 : Pipeline[k] \in Unreported <=> k \in 3..10
    /\ \A k \in 1..16 : Pipeline[k] \in Timed <=> k \in 6..11
    /\ Pipeline[3] = "cluster" /\ Pipeline[4] = "host" /\ Pipeline[5] = "reset"
    /\ Pipeline[14] = "datastore" /\ Pipeline[15] = "vm" /\ Pipeline[16] = "self"
    /\ "return" \notin Unreported \cup Timed
  BY DEF Pipeline, Unreported, Timed, EsxcliStages

\* ResetResponseTimes is never left out.
LEMMA ResetIsReached ==
    ASSUME NEW p \in 2..4
    PROVE  \E k \in p + 1 .. 5 : Following(Pipeline[p]) = Pipeline[k]
<1> DEFINE place == CHOOSE k \in DOMAIN Pipeline : Pipeline[k] = Pipeline[p]
           later == {k \in DOMAIN Pipeline : k > place /\ Enabled(Pipeline[k])}
           first == CHOOSE k \in later : \A other \in later : k <= other
<1>1. place = p
  BY Places, StagesInOrder
<1> HIDE DEF place
<1>2. 5 \in later
  <2>1. Enabled(Pipeline[5])
    BY StagePlaces DEF Enabled
  <2>2. QED
    BY <1>1, <2>1, Places
<1>3. later \in SUBSET (3..16) /\ \A k \in later : k > p
  BY <1>1, Places
<1> HIDE DEF later
<1>4. \E k \in later : \A other \in later : k <= other
  BY <1>2, <1>3, SomeIsFirst
<1>5. first \in later /\ \A other \in later : first <= other
  BY <1>4
<1>6. Following(Pipeline[p]) = Pipeline[first]
  BY <1>2, Zenon DEF Following, later, place
<1> HIDE DEF first
<1>7. first \in p + 1 .. 5
  BY <1>2, <1>3, <1>5
<1>8. QED
  BY <1>6, <1>7

LEMMA OrderOfStages ==
    ASSUME NEW stage \in Late \cup {"datacenter"}
    PROVE  /\ stage \in {"datacenter", "cluster", "host"} => Following(stage) \notin Timed
           /\ Following(stage) \in Timed => stage \in Timed \cup {"reset"}
           /\ Following(stage) \in Unreported => stage \in Unreported \cup {"datacenter"}
           /\ stage = "datastore" => Following(stage) \in {"vm", "self", "return"}
           /\ stage \in {"vm", "self"} => Following(stage) \in {"self", "return"}
<1>1. PICK p \in 2..16 : Pipeline[p] = stage
  BY Places
<1>2. \/ Following(stage) = "return"
      \/ \E k \in p + 1 .. 16 : Following(stage) = Pipeline[k]
  BY <1>1, LaterFollows
<1>3. CASE Following(stage) = "return"
  BY <1>3, StagePlaces
<1>4. CASE \E k \in p + 1 .. 16 : Following(stage) = Pipeline[k]
  <2>1. PICK k \in p + 1 .. 16 : Following(stage) = Pipeline[k]
    BY <1>4
  <2>2. stage \in {"datacenter", "cluster", "host"} => Following(stage) \notin Timed
    <3>1. stage \in {"datacenter", "cluster", "host"} => p \in 2..4
      BY <1>1, Places, StagePlaces, StagesInOrder
    <3>2. QED
      BY <1>1, <3>1, ResetIsReached, StagePlaces
  <2>3. Following(stage) \in Timed => stage \in Timed \cup {"reset"}
    BY <1>1, <2>1, <2>2, Places, StagePlaces
  <2>4. Following(stage) \in Unreported => stage \in Unreported \cup {"datacenter"}
    BY <1>1, <2>1, Places, StagePlaces
  <2>5. /\ stage = "datastore" => p = 14
        /\ stage = "vm" => p = 15
        /\ stage = "self" => p = 16
    BY <1>1, StagePlaces, StagesInOrder
  <2>6. /\ stage = "datastore" => k \in 15..16
        /\ stage = "vm" => k = 16
        /\ stage # "self"
    BY <2>5
  <2>7. QED
    BY <2>1, <2>2, <2>3, <2>4, <2>6, StagePlaces
<1>5. QED
  BY <1>2, <1>3, <1>4
-----------------------------------------------------------------------------
(***************************************************************************)
(* Listing the same hosts again                                            *)
(***************************************************************************)
\* Of the hosts that were at their places some may be dropped, and the states
\* of all are kept.
StatesStay ==
    /\ \A i \in DOMAIN hosts' : i \in DOMAIN hosts /\ hosts'[i] \in {<<>>, hosts[i]}
    /\ \A i \in DOMAIN hosts : hostStates'[i] = hostStates[i]

LEMMA ListedAgain ==
    ASSUME IInv, NEW v \in Inventories, NEW e \in Endings(Len(v.dcs)),
           ListClustersAndHosts(v, v.dcs, e),
           hosts = Listing(v), \A i \in DOMAIN hosts : hosts[i] # <<>>
    PROVE  StatesStay
<1> DEFINE ds      == v.dcs
           n       == Len(ds)
           resized == n # Len(clusters) \/ n # Len(hosts)
           old     == IF resized THEN [i \in 1..n |-> <<>>] ELSE hosts
           found   == [i \in 1..n |-> v.hosts[ds[i]]]
           hosts1  == [i \in 1..n |-> IF i < e.at THEN found[i]
                                      ELSE IF i = e.at /\ e.on = "hosts" THEN <<>>
                                      ELSE old[i]]
<1>1. hosts' = hosts1
  BY Zenon DEF ListClustersAndHosts
<1>2. ds \in Seq(Datacenters) /\ n \in Nat
  BY InventoryTyped
<1>3. hosts = found
  BY DEF Listing
<1>4. Len(hosts) = n /\ DOMAIN hosts = 1..n
  <2>1. hosts \in Seq(Seq(Hosts)) /\ DOMAIN hosts = 1..n
    BY <1>2, <1>3 DEF IInv, CacheTypeOK
  <2>2. QED
    BY <1>2, <2>1
<1>5. old = hosts
  BY <1>4 DEF IInv, SlicesAreParallel
<1> HIDE DEF old, found
<1>6. DOMAIN hosts1 = 1..n /\ \A i \in 1..n : hosts1[i] \in {<<>>, hosts[i]}
  BY <1>3, <1>5
<1> HIDE DEF hosts1
<1>7. \A i \in DOMAIN hosts' : i \in DOMAIN hosts /\ hosts'[i] \in {<<>>, hosts[i]}
  BY <1>1, <1>4, <1>6
<1>8. Len(hosts') = Len(hosts)
  BY <1>2, <1>4, HostsListed
<1>9. ASSUME NEW i \in DOMAIN hosts PROVE hostStates'[i] = hostStates[i]
  <2>1. \A m \in 1..i : m \in 1..n
    BY <1>4
  <2>2. \A m \in 1..n : hosts'[m] \in {<<>>, hosts[m]} /\ hosts[m] # <<>>
    BY <1>1, <1>4, <1>6
  <2>3. Len(<<>>) = 0
    OBVIOUS
  <2>4. \A m \in 1..i : hosts[m] # <<>> /\ Len(hosts'[m]) \in {0, Len(hosts[m])}
    BY <2>1, <2>2, <2>3
  <2>5. QED
    BY <1>2, <1>8, <2>4, LoopKeepsStates
<1>10. QED
  BY <1>7, <1>9 DEF StatesStay

LEMMA HostsListedAgain ==
    ASSUME DataDuration = 0, IInv, inventory' = inventory, inventory \in Inventories,
           NEW ok \in BOOLEAN, getAllDatacentersClustersAndHosts(inventory, ok)
    PROVE  /\ ok => HostsPlaced'
           /\ HostsPlaced => StatesStay
<1>1. ~Fresh(lastCHUpdate)
  BY NothingFresh
<1>2. CASE ~ok /\ UNCHANGED chVars
  BY <1>2 DEF chVars, StatesStay
<1>3. CASE /\ getDatacenters(inventory, TRUE)
           /\ \E e \in Endings(Len(dcs')) :
                 ok = (e.on = "nil") /\ ListClustersAndHosts(inventory, dcs', e)
  <2>1. dcs' = inventory.dcs /\ dcs' \in Seq(Datacenters)
    BY <1>3, DatacentersRefreshed, InventoryTyped
  <2>2. PICK e \in Endings(Len(dcs')) :
           ok = (e.on = "nil") /\ ListClustersAndHosts(inventory, dcs', e)
    BY <1>3
  <2>3. HostsPlaced => StatesStay
    BY <2>1, <2>2, ListedAgain DEF HostsPlaced
  <2>4. ASSUME ok PROVE HostsPlaced'
    <3>1. e.at = Len(dcs') + 1
      <4>1. e.on = "nil"
        BY <2>2, <2>4
      <4>2. QED
        BY <4>1 DEF Endings
    <3>2. /\ hosts' = [i \in 1..Len(dcs') |-> inventory.hosts[dcs'[i]]]
          /\ \A i \in 1..Len(dcs') : inventory.hosts[dcs'[i]] # <<>>
      BY <2>1, <2>2, <3>1, CompleteListing
    <3>3. QED
      BY <2>1, <3>2 DEF HostsPlaced, Listing
  <2>5. QED
    BY <2>3, <2>4
<1>4. QED
  BY <1>1, <1>2, <1>3, Zenon DEF getAllDatacentersClustersAndHosts

LEMMA RefreshKeepsPlaces ==
    ASSUME DataDuration = 0, IInv, inventory' = inventory, inventory \in Inventories,
           NEW ok \in BOOLEAN, NEW list, Refresh(list, ok)
    PROVE  /\ ok /\ list \in {"ch", "vms"} => HostsPlaced'
           /\ list \notin {"ch", "vms"} => UNCHANGED <<hosts, hostStates>>
           /\ HostsPlaced => StatesStay
<1>1. ASSUME UNCHANGED <<hosts, hostStates>> PROVE StatesStay
  BY <1>1 DEF StatesStay
<1>2. CASE list \notin {"ch", "vms"}
  BY <1>1, <1>2 DEF Refresh, chVars
<1>3. CASE list = "ch"
  BY <1>3, HostsListedAgain DEF Refresh
<1>4. CASE list = "vms"
  <2>1. ~Fresh(lastVmUpdate)
    BY NothingFresh
  <2>2. \E done \in BOOLEAN :
           /\ getAllDatacentersClustersAndHosts(inventory, done)
           /\ ok => done
    BY <1>4, <2>1 DEF Refresh, RefreshHostsAndVMs, getAllDatacentersVMs
  <2>3. QED
    BY <1>4, <2>2, HostsListedAgain
<1>5. QED
  BY <1>2, <1>3, <1>4

LEMMA MatchesStay ==
    ASSUME StatesStay, UNCHANGED log
    PROVE  /\ StatesMatchLog => StatesMatchLog'
           /\ TimesMatchLog => TimesMatchLog'
<1>1. ASSUME NEW i \in DOMAIN hosts', NEW j \in DOMAIN hosts'[i]
      PROVE  /\ i \in DOMAIN hosts /\ j \in DOMAIN hosts[i]
             /\ hosts'[i][j] = hosts[i][j] /\ hostStates'[i][j] = hostStates[i][j]
  <2>1. hosts'[i] # <<>>
    BY <1>1
  <2>2. QED
    BY <1>1, <2>1 DEF StatesStay
<1>2. QED
  BY <1>1 DEF StatesMatchLog, TimesMatchLog

-----------------------------------------------------------------------------
(***************************************************************************)
(* From stage to stage                                                     *)
(***************************************************************************)
SettledLog == PlacedInv /\ LogInv

LEMMA EndedLogged == ASSUME Enter("return") PROVE SettledLog'
<1>1. pc' = "return"
  BY DEF Enter
<1>2. "return" \notin Late \cup Unreported \cup Timed
  BY StagePlaces DEF Late
<1>3. QED
  BY <1>1, <1>2 DEF SettledLog, PlacedInv, LogInv

\* The gather goes on to the next stage after CollectDatacenterInfo.
LEMMA GoneOnLogged ==
    ASSUME pc \in Late \cup {"datacenter"}, Enter(Following(pc)),
           Following(pc) # "self" => HostsPlaced',
           pc \notin {"datastore", "vm", "self"} => dcs' = inventory'.dcs,
           StatesMatchLog', Following(pc) \in Timed => TimesMatchLog',
           pc \in Unreported \cup {"datacenter"} => \A h \in Hosts : log'[h].code = None
    PROVE  SettledLog'
<1>1. CASE Following(pc) = "return"
  BY <1>1, EndedLogged
<1>2. CASE Following(pc) \in Late
  <2>1. pc' \in Late /\ pc' = Following(pc) /\ need' = Lists(pc')
    BY <1>2 DEF Enter
  <2>2. pc' \notin {"idle", "vcenter", "datacenter"}
    BY <2>1 DEF Late
  <2>3. pc' = "datastore" => need' = <<"dss">>
    BY <2>1 DEF Lists, EsxcliStages
  <2>4. pc' = "self" => need' = <<>>
    BY <2>1 DEF Lists, EsxcliStages
  <2>5. pc \in {"datastore", "vm", "self"} => pc' \in {"vm", "self"}
    BY <1>2, <2>1, OrderOfStages DEF Late
  <2>6. pc' \in Unreported => pc \in Unreported \cup {"datacenter"}
    BY <2>1, OrderOfStages
  <2>7. QED
    BY <2>1, <2>2, <2>3, <2>4, <2>5, <2>6 DEF SettledLog, PlacedInv, LogInv
<1>3. QED
  BY <1>1, <1>2, LateFollows

\* A stage that leaves the cache and the log alone, but for resetting the times.
LEMMA DoneLogged ==
    ASSUME SettledLog, pc \in Late, Proceed \/ Fail,
           UNCHANGED <<dcs, hosts, inventory, log>>,
           StatesMatchLog', pc \in Timed \cup {"reset"} => TimesMatchLog'
    PROVE  SettledLog'
<1>1. CASE Enter("return")
  BY <1>1, EndedLogged
<1>2. CASE Enter(Following(pc))
  <2>1. pc = "self" => Following(pc) \in {"self", "return"}
    BY OrderOfStages
  <2>2. CASE Following(pc) = "return"
    BY <1>2, <2>2, EndedLogged
  <2>3. CASE Following(pc) # "return"
    <3>1. Following(pc) # "self" => HostsPlaced'
      BY <2>1, <2>3 DEF SettledLog, PlacedInv, HostsPlaced
    <3>2. pc \notin {"datastore", "vm", "self"} => dcs' = inventory'.dcs
      BY DEF SettledLog, PlacedInv
    <3>3. Following(pc) \in Timed => TimesMatchLog'
      BY OrderOfStages
    <3>4. pc \in Unreported \cup {"datacenter"} => \A h \in Hosts : log'[h].code = None
      BY DEF SettledLog, LogInv, Late
    <3>5. QED
      BY <1>2, <3>1, <3>2, <3>3, <3>4, GoneOnLogged
  <2>4. QED
    BY <2>2, <2>3
<1>3. QED
  BY <1>1, <1>2 DEF Proceed, Fail

\* A turn of a loop.
LEMMA TurnLogged ==
    ASSUME SettledLog, pc \in Late \ {"datastore", "vm", "self"},
           Fail \/ UNCHANGED <<pc, need>>, UNCHANGED <<dcs, hosts, inventory>>,
           StatesMatchLog', pc \in Timed => TimesMatchLog',
           pc \in Unreported => \A h \in Hosts : log'[h].code = None
    PROVE  SettledLog'
<1>1. CASE Fail
  BY <1>1, EndedLogged DEF Fail
<1>2. CASE UNCHANGED <<pc, need>>
  <2>1. PlacedInv'
    BY <1>2 DEF SettledLog, PlacedInv, HostsPlaced
  <2>2. pc \notin {"idle", "vcenter", "datacenter"}
    BY DEF Late
  <2>3. LogInv'
    BY <1>2, <2>2 DEF LogInv
  <2>4. QED
    BY <2>1, <2>3 DEF SettledLog
<1>3. QED
  BY <1>1, <1>2

LEMMA NothingLogged ==
    ASSUME IInv, log = NoLog
    PROVE  StatesMatchLog /\ \A h \in Hosts : log[h].code = None
<1>1. \A h \in Hosts : log[h].down = FALSE /\ log[h].code = None /\ None # 0
  BY NoneAssumption DEF NoLog
<1>2. QED
  BY <1>1, ListedTyped DEF StatesMatchLog

-----------------------------------------------------------------------------
(***************************************************************************)
(* The steps                                                               *)
(***************************************************************************)
LEMMA TimeKeepsLog ==
    ASSUME IInv, SettledLog, TimePasses
    PROVE  SettledLog'
<1>1. /\ UNCHANGED <<pc, need, dcs, hosts, inventory, log>>
      /\ hostStates' = [i \in 1..Len(hostStates) |->
                          [j \in 1..Len(hostStates[i]) |-> Aged(hostStates[i][j])]]
  BY DEF TimePasses, Tick, gatherVars
<1>2. ASSUME NEW i \in DOMAIN hosts, NEW j \in DOMAIN hosts[i]
      PROVE  /\ hostStates'[i][j].notConnected = hostStates[i][j].notConnected
             /\ hostStates'[i][j].notResponding = hostStates[i][j].notResponding
             /\ hostStates'[i][j].responseTime = hostStates[i][j].responseTime
  <2>1. hostStates'[i][j] = Aged(hostStates[i][j])
    BY <1>1, ListedTyped
  <2>2. \A st \in HostStates : /\ Aged(st).notConnected = st.notConnected
                               /\ Aged(st).notResponding = st.notResponding
                               /\ Aged(st).responseTime = st.responseTime
    BY DEF Aged, HostStates
  <2>3. QED
    BY <2>1, <2>2, ListedTyped
<1>3. /\ StatesMatchLog => StatesMatchLog'
      /\ TimesMatchLog => TimesMatchLog'
  <2>1. hosts' = hosts /\ log' = log
    BY <1>1
  <2> QED
    BY <1>2, <2>1 DEF StatesMatchLog, TimesMatchLog
<1>4. PlacedInv'
  BY <1>1 DEF SettledLog, PlacedInv, HostsPlaced
<1>5. LogInv'
  BY <1>1, <1>3 DEF SettledLog, LogInv
<1>6. QED
  BY <1>4, <1>5 DEF SettledLog

\* The steps from and to idle, and what happens to the plugin.
LEMMA OutsideKeepsLog ==
    ASSUME SettledCase, IInv, SettledInv, SettledLog,
           \/ BeginGather \/ InventoryChanges \/ TimePasses \/ ContextExpires
           \/ CollectVcenterInfo \/ Return \/ UNCHANGED vars
    PROVE  SettledLog'
<1>1. CASE BeginGather
  <2>1. pc' = "vcenter" /\ log' = NoLog
    BY <1>1 DEF BeginGather, Enter, SettledLog, LogInv
  <2>2. "vcenter" \notin Late \cup Unreported \cup Timed
    BY DEF Late, Unreported, Timed, EsxcliStages
  <2>3. QED
    BY <2>1, <2>2 DEF SettledLog, PlacedInv, LogInv
<1>2. CASE Return
  <2>1. pc' = "idle" /\ log' = NoLog
    BY <1>2 DEF Return, Enter
  <2>2. "idle" \notin Late \cup Unreported \cup Timed
    BY DEF Late, Unreported, Timed, EsxcliStages
  <2>3. QED
    BY <2>1, <2>2 DEF SettledLog, PlacedInv, LogInv
<1>3. CASE CollectVcenterInfo
  <2>1. pc = "vcenter" /\ Enter(Following("vcenter")) /\ UNCHANGED <<cfg, log>>
    BY <1>3 DEF CollectVcenterInfo, Working, Proceed
  <2>2. Following("vcenter") = "datacenter"
    BY DatacenterFollows DEF SettledCase, SettledInv
  <2>3. pc' = "datacenter" /\ need' = <<"dcs", "ch", "nets", "dss">> /\ log' = NoLog
    BY <2>1, <2>2, FirstLists DEF Enter, SettledLog, LogInv
  <2>4. need' \notin {<<"nets", "dss">>, <<"dss">>, <<>>}
    BY <2>3, ListsDiffer
  <2>5. "datacenter" \notin Late \cup Unreported \cup Timed
    BY DEF Late, Unreported, Timed, EsxcliStages
  <2>6. QED
    BY <2>3, <2>4, <2>5 DEF SettledLog, PlacedInv, LogInv
<1>4. CASE InventoryChanges
  <2>1. pc = "idle" /\ UNCHANGED <<pc, log>>
    BY <1>4 DEF InventoryChanges, SettledCase
  <2>2. "idle" \notin Late \cup Unreported \cup Timed
    BY DEF Late, Unreported, Timed, EsxcliStages
  <2>3. QED
    BY <2>1, <2>2 DEF SettledLog, PlacedInv, LogInv
<1>5. CASE ContextExpires \/ UNCHANGED vars
  <2>1. UNCHANGED <<pc, need, dcs, hosts, hostStates, inventory, log>>
    BY <1>5 DEF ContextExpires, vars, gatherVars, cacheVars, dcVars, chVars
  <2>2. PlacedInv'
    BY <2>1 DEF SettledLog, PlacedInv, HostsPlaced
  <2>3. LogInv'
    BY <2>1 DEF SettledLog, LogInv, StatesMatchLog, TimesMatchLog
  <2>4. QED
    BY <2>2, <2>3 DEF SettledLog
<1>6. CASE TimePasses
  BY <1>6, TimeKeepsLog
<1>7. QED
  BY <1>1, <1>2, <1>3, <1>4, <1>5, <1>6

LEMMA RefreshKeepsLog ==
    ASSUME SettledCase, IInv, PipelineInv, SettledInv, SettledLog, RefreshList
    PROVE  SettledLog'
<1>1. PICK ok \in BOOLEAN :
         /\ Refresh(Head(need), ok)
         /\ ok => need' = Tail(need) /\ UNCHANGED <<pc, at>>
         /\ ~ok => Fail
  BY DEF RefreshList
<1>2. UNCHANGED <<inventory, log>> /\ need # <<>>
  BY DEF RefreshList
<1>3. DataDuration = 0 /\ inventory \in Inventories
  BY DEF SettledCase, PipelineInv
<1> DEFINE list == Head(need)
<1>4. /\ ok => dcs' = inventory.dcs
      /\ ok /\ list \in {"ch", "vms"} => HostsPlaced'
      /\ list \notin {"ch", "vms"} => UNCHANGED <<hosts, hostStates>>
      /\ HostsPlaced => StatesStay
  BY <1>1, <1>2, <1>3, Refreshed, RefreshKeepsPlaces
<1> HIDE DEF list
<1>5. CASE ~ok /\ pc \notin {"datastore", "vm"}
  BY <1>1, <1>5, EndedLogged DEF Fail
<1>6. CASE ok /\ pc = "vcenter"
  <2>1. pc' = "vcenter" /\ log' = NoLog
    BY <1>1, <1>2, <1>6 DEF SettledLog, LogInv
  <2>2. "vcenter" \notin Late \cup Unreported \cup Timed
    BY DEF Late, Unreported, Timed, EsxcliStages
  <2>3. QED
    BY <2>1, <2>2 DEF SettledLog, PlacedInv, LogInv
<1>7. CASE ok /\ pc = "datacenter"
  <2>1. pc' = "datacenter" /\ log' = NoLog /\ need' = Tail(need)
    BY <1>1, <1>2, <1>7 DEF SettledLog, LogInv
  <2>2. "datacenter" \notin Late \cup Unreported \cup Timed
    BY DEF Late, Unreported, Timed, EsxcliStages
  <2>3. DatacenterStage
    BY <1>7 DEF SettledInv
  <2>4. CASE need = <<"dcs", "ch", "nets", "dss">>
    <3>1. need' = <<"ch", "nets", "dss">>
      BY <2>1, <2>4, HeadsAndTails
    <3>2. need' \notin {<<"nets", "dss">>, <<"dss">>, <<>>}
      BY <3>1, ListsDiffer
    <3>3. QED
      BY <2>1, <2>2, <3>2 DEF SettledLog, PlacedInv, LogInv
  <2>5. CASE need = <<"ch", "nets", "dss">>
    <3>1. HostsPlaced'
      BY <1>4, <1>7, <2>5, HeadsAndTails DEF list
    <3>2. QED
      BY <2>1, <2>2, <3>1 DEF SettledLog, PlacedInv, LogInv
  <2>6. CASE need \in {<<"nets", "dss">>, <<"dss">>}
    <3>1. list \in {"nets", "dss"} /\ HostsPlaced
      BY <1>7, <2>6, HeadsAndTails DEF list, SettledLog, PlacedInv
    <3>2. HostsPlaced'
      BY <1>2, <1>4, <3>1 DEF HostsPlaced
    <3>3. QED
      BY <2>1, <2>2, <3>2 DEF SettledLog, PlacedInv, LogInv
  <2>7. QED
    BY <1>2, <2>3, <2>4, <2>5, <2>6 DEF DatacenterStage
<1>8. CASE pc \in Late
  <2>1. pc # "self" /\ HostsPlaced
    BY <1>2, <1>8 DEF SettledLog, PlacedInv
  <2>2. /\ StatesMatchLog'
        /\ TimesMatchLog => TimesMatchLog'
    BY <1>2, <1>4, <1>8, <2>1, MatchesStay DEF SettledLog, LogInv
  <2>3. CASE ok
    <3>1. UNCHANGED pc /\ need' = Tail(need) /\ dcs' = inventory'.dcs
      BY <1>1, <1>2, <1>4, <2>3
    <3>2. HostsPlaced'
      BY <1>2, <1>4, <2>1, <2>3 DEF HostsPlaced
    <3>3. pc = "datastore" => need' = <<>>
      BY <1>2, <3>1, HeadsAndTails DEF SettledLog, PlacedInv
    <3>4. pc \notin {"idle", "vcenter", "datacenter"}
      BY <1>8 DEF Late
    <3>5. PlacedInv'
      BY <2>1, <3>1, <3>2, <3>3, <3>4 DEF PlacedInv
    <3>6. LogInv'
      BY <1>2, <2>2, <3>1, <3>4 DEF SettledLog, LogInv
    <3>7. QED
      BY <3>5, <3>6 DEF SettledLog
  <2>4. CASE ~ok /\ pc \in {"datastore", "vm"}
    <3>1. Enter(Following(pc))
      BY <1>1, <2>4 DEF Fail
    <3>2. /\ pc = "datastore" => Following(pc) \in {"vm", "self", "return"}
          /\ pc = "vm" => Following(pc) \in {"self", "return"}
      BY <1>8, OrderOfStages
    <3>3. CASE Following(pc) = "return"
      BY <3>1, <3>3, EndedLogged
    <3>4. CASE Following(pc) \in {"vm", "self"}
      <4>1. Following(pc) # "self" => HostsPlaced'
        <5>1. ASSUME Following(pc) = "vm" PROVE HostsPlaced'
          <6>1. pc = "datastore" /\ list = "dss"
            BY <1>2, <2>4, <3>2, <5>1, HeadsAndTails DEF list, SettledLog, PlacedInv
          <6>2. QED
            BY <1>2, <1>4, <2>1, <6>1 DEF HostsPlaced
        <5>2. QED
          BY <3>4, <5>1
      <4>2. Following(pc) \notin Timed /\ pc \notin Unreported
        BY <2>4, <3>4 DEF Timed, Unreported, EsxcliStages
      <4>3. QED
        BY <1>8, <2>2, <2>4, <3>1, <4>1, <4>2, GoneOnLogged
    <3>5. QED
      BY <2>4, <3>2, <3>3, <3>4
  <2>5. QED
    BY <1>5, <2>3, <2>4
<1>9. QED
  BY <1>2, <1>5, <1>6, <1>7, <1>8 DEF SettledInv

LEMMA DatacenterInfoKeepsLog ==
    ASSUME IInv, SettledInv, SettledLog, CollectDatacenterInfo, ~panicked'
    PROVE  SettledLog'
<1>1. /\ pc = "datacenter" /\ need = <<>> /\ Enter(Following(pc))
      /\ UNCHANGED <<dcs, hosts, hostStates, inventory, log>>
  BY DEF CollectDatacenterInfo, Working, listVars, dcVars, Proceed, Panic
<1>2. HostsPlaced /\ dcs = inventory.dcs /\ log = NoLog
  BY <1>1 DEF SettledLog, PlacedInv, LogInv, SettledInv, DatacenterStage
<1>3. StatesMatchLog /\ \A h \in Hosts : log[h].code = None
  BY <1>2, NothingLogged
<1>4. Following(pc) \notin Timed
  BY <1>1, OrderOfStages
<1>5. StatesMatchLog' /\ HostsPlaced'
  BY <1>1, <1>2, <1>3 DEF StatesMatchLog, HostsPlaced
<1>6. QED
  BY <1>1, <1>2, <1>3, <1>4, <1>5, GoneOnLogged

\* The stages without a loop of their own, and the end of a loop.
LEMMA EndingKeepsLog ==
    ASSUME SettledLog, ~panicked',
           \/ EndLoop \/ SelfMetrics
           \/ \E stage \in Late \ {"reset"} : \E slice, looked : Queries(stage, slice, looked)
    PROVE  SettledLog'
<1>1. pc \in Late \ {"reset"} /\ UNCHANGED <<listVars, hostStates, inventory, log>>
  BY DEF EndLoop, SelfMetrics, Queries, Working, Late, EsxcliStages
<1>2. Proceed \/ Fail
  BY DEF EndLoop, SelfMetrics, Queries, Panic
<1>3. UNCHANGED <<dcs, hosts, hostStates, inventory, log>>
  BY <1>1 DEF listVars, dcVars
<1>4. /\ StatesMatchLog => StatesMatchLog'
      /\ TimesMatchLog => TimesMatchLog'
  BY <1>3 DEF StatesMatchLog, TimesMatchLog
<1>5. QED
  BY <1>1, <1>2, <1>3, <1>4, DoneLogged DEF SettledLog, LogInv

LEMMA ResetKeepsLog ==
    ASSUME IInv, SettledInv, TypesInv, SettledLog, ResetTimes, ~panicked'
    PROVE  SettledLog'
<1>1. /\ pc = "reset" /\ Proceed
      /\ UNCHANGED <<dcs, hosts, inventory, log>>
      /\ hostStates' = [i \in 1..Len(hostStates) |->
                            IF i > Len(dcs) THEN hostStates[i]
                            ELSE [j \in 1..Len(hostStates[i]) |-> WithoutTime(hostStates[i][j])]]
  BY DEF ResetTimes, ResetResponseTimes, Working, listVars, dcVars, SettledInv
<1>2. pc \in Late
  BY <1>1 DEF Late
<1>3. Len(hosts) = Len(dcs)
  BY <1>1, <1>2 DEF SettledInv, LateStage, Sized, SettledLog, PlacedInv
<1>4. \A st \in HostStates : /\ WithoutTime(st).notConnected = st.notConnected
                             /\ WithoutTime(st).notResponding = st.notResponding
                             /\ WithoutTime(st).responseTime = 0
  BY DEF WithoutTime, HostStates
<1>5. ASSUME NEW i \in DOMAIN hosts, NEW j \in DOMAIN hosts[i]
      PROVE  /\ hostStates'[i][j].notConnected = hostStates[i][j].notConnected
             /\ hostStates'[i][j].notResponding = hostStates[i][j].notResponding
             /\ hostStates'[i][j].responseTime = 0
             /\ log[hosts[i][j]].runs = 0
  <2>1. ~(i > Len(dcs))
    BY <1>3 DEF IInv, CacheTypeOK
  <2>2. hostStates'[i][j] = WithoutTime(hostStates[i][j])
    BY <1>1, <2>1, ListedTyped
  <2>3. log[hosts[i][j]].runs = 0
    <3>1. Before(pc) = 0 /\ ~InCommands
      BY <1>1 DEF Before, InCommands, EsxcliStages
    <3>2. QED
      BY <3>1, ListedTyped, RunsOfStage
  <2>4. QED
    BY <1>4, <2>2, <2>3, ListedTyped
<1>6. StatesMatchLog' /\ TimesMatchLog'
  <2>1. hosts' = hosts /\ log' = log
    BY <1>1
  <2>2. StatesMatchLog
    BY <1>2 DEF SettledLog, LogInv
  <2>3. QED
    BY <1>5, <2>1, <2>2 DEF StatesMatchLog, TimesMatchLog
<1>7. QED
  BY <1>1, <1>2, <1>6, DoneLogged

\* No other position holds the host of a position.
LEMMA OnePosition ==
    ASSUME IInv, PipelineInv, HostsPlaced
    PROVE  ListedOnce
<1>1. inventory.dcs \in Seq(Datacenters) /\ inventory \in Inventories
  BY InventoryTyped DEF PipelineInv
<1>2. hosts = [i \in 1..Len(inventory.dcs) |-> inventory.hosts[inventory.dcs[i]]]
  BY DEF HostsPlaced, Listing
<1>3. \E w \in Inventories : inventory.dcs = w.dcs
  BY <1>1
<1>4. ASSUME NEW i \in DOMAIN hosts, NEW k \in DOMAIN hosts,
             NEW j \in DOMAIN hosts[i], NEW m \in DOMAIN hosts[k], hosts[i][j] = hosts[k][m]
      PROVE  i = k /\ j = m
  BY <1>1, <1>2, <1>3, <1>4, ListingIsOnce
<1>5. QED
  BY <1>4 DEF ListedOnce

LEMMA HostInfoKeepsLog ==
    ASSUME IInv, PipelineInv, TypesInv, SettledLog, CollectHostInfo
    PROVE  SettledLog'
<1>1. /\ pc = "host" /\ AtDatacenter
      /\ Fail \/ UNCHANGED <<pc, need>>
      /\ UNCHANGED <<dcs, hosts, inventory>>
  BY DEF CollectHostInfo, Working, listVars, dcVars, NextDatacenter
<1>2. pc \in Late \ {"datastore", "vm", "self"} /\ pc \in Unreported /\ pc \notin Timed
  BY <1>1 DEF Late, Unreported, Timed, EsxcliStages
<1>3. ListedOnce
  BY <1>2, OnePosition DEF SettledLog, PlacedInv
<1>4. PICK seen \in SUBSET FilteredIn(at[1]) : \E up \in SUBSET seen :
         /\ HostInfo(at[1], seen, up)
         /\ log' = [h \in Hosts |->
                       [log[h] EXCEPT !.down =
                           IF \E j \in seen : hosts[at[1]][j] = h
                           THEN \E j \in seen \ up : hosts[at[1]][j] = h
                           ELSE @]]
  BY DEF CollectHostInfo
<1>5. PICK up \in SUBSET seen :
         /\ HostInfo(at[1], seen, up)
         /\ log' = [h \in Hosts |->
                       [log[h] EXCEPT !.down =
                           IF \E j \in seen : hosts[at[1]][j] = h
                           THEN \E j \in seen \ up : hosts[at[1]][j] = h
                           ELSE @]]
  BY <1>4
<1>6. /\ at[1] \in DOMAIN hosts /\ seen \subseteq DOMAIN hosts[at[1]]
  BY <1>1, PositionsOfLoops DEF FilteredIn
<1>7. ASSUME NEW h \in Hosts
      PROVE  /\ log'[h].code = None
             /\ log'[h].down => \/ log[h].down /\ ~\E j \in seen : hosts[at[1]][j] = h
                                \/ \E j \in seen \ up : hosts[at[1]][j] = h
  <2>1. PICK b \in BOOLEAN : b = IF \E j \in seen : hosts[at[1]][j] = h
                                 THEN \E j \in seen \ up : hosts[at[1]][j] = h
                                 ELSE log[h].down
    <3>1. log[h].down \in BOOLEAN
      BY DEF TypesInv, PcTypes, LogTypes
    <3>2. (\E j \in seen \ up : hosts[at[1]][j] = h) \in BOOLEAN
      BY Zenon
    <3>3. QED
      BY <3>1, <3>2
  <2>2. log'[h] = [log[h] EXCEPT !.down = b]
    BY <1>5, <2>1, Zenon
  <2>3. log'[h].down = b /\ log'[h].code = log[h].code
    BY <2>2 DEF TypesInv, PcTypes, LogTypes
  <2>4. log[h].code = None
    BY <1>2 DEF SettledLog, LogInv
  <2>5. b => \/ log[h].down /\ ~\E j \in seen : hosts[at[1]][j] = h
             \/ \E j \in seen \ up : hosts[at[1]][j] = h
    BY <2>1, Zenon
  <2>6. QED
    BY <2>3, <2>4, <2>5
<1>8. ASSUME NEW i \in DOMAIN hosts, NEW j \in DOMAIN hosts[i]
      PROVE  /\ ~(i = at[1] /\ j \in seen) => hostStates'[i][j] = hostStates[i][j]
             /\ i = at[1] /\ j \in seen \ up => hostStates'[i][j].notConnected = TRUE
  <2>1. hostStates' = [hostStates EXCEPT ![at[1]] =
                        [k \in DOMAIN hostStates[at[1]] |->
                            IF k \in seen THEN setNotConnected(hostStates[at[1]][k], k \notin up)
                            ELSE hostStates[at[1]][k]]]
    BY <1>5 DEF HostInfo
  <2>2. i \in DOMAIN hostStates /\ j \in DOMAIN hostStates[i] /\ hostStates[i][j] \in HostStates
    BY ListedTyped
  <2>3. hostStates \in Seq(Seq(HostStates))
    BY DEF IInv, CacheTypeOK
  <2>4. ~(i = at[1] /\ j \in seen) => hostStates'[i][j] = hostStates[i][j]
    BY <2>1, <2>2, <2>3
  <2>5. ASSUME i = at[1], j \in seen \ up PROVE hostStates'[i][j].notConnected = TRUE
    <3>1. hostStates'[i][j] = setNotConnected(hostStates[i][j], j \notin up)
      BY <2>1, <2>2, <2>3, <2>5
    <3>2. (j \notin up) = TRUE
      BY <2>5
    <3>3. hostStates'[i][j] = setNotConnected(hostStates[i][j], TRUE)
      BY <3>1, <3>2
    <3>4. QED
      BY <2>2, <3>3 DEF setNotConnected, HostStates
  <2>6. QED
    BY <2>4, <2>5
<1>9. StatesMatchLog'
  <2> SUFFICES ASSUME NEW i \in DOMAIN hosts, NEW j \in DOMAIN hosts[i]
               PROVE  /\ log'[hosts[i][j]].down => hostStates'[i][j].notConnected
                      /\ log'[hosts[i][j]].code # 0
    BY <1>1 DEF StatesMatchLog
  <2>1. hosts[i][j] \in Hosts
    BY ListedTyped
  <2>2. log'[hosts[i][j]].code # 0
    BY <1>7, <2>1, NoneAssumption
  <2>3. CASE log[hosts[i][j]].down /\ ~\E k \in seen : hosts[at[1]][k] = hosts[i][j]
    <3>1. ~(i = at[1] /\ j \in seen)
      BY <2>3
    <3>2. hostStates[i][j].notConnected
      BY <1>2, <2>3 DEF SettledLog, LogInv, StatesMatchLog
    <3>3. QED
      BY <1>8, <2>2, <3>1, <3>2
  <2>4. CASE \E k \in seen \ up : hosts[at[1]][k] = hosts[i][j]
    <3>1. PICK k \in seen \ up : hosts[at[1]][k] = hosts[i][j]
      BY <2>4
    <3>2. i = at[1] /\ j = k
      BY <1>3, <1>6, <3>1 DEF ListedOnce
    <3>3. QED
      BY <1>8, <2>2, <3>1, <3>2
  <2>5. QED
    BY <1>7, <2>1, <2>2, <2>3, <2>4
<1>10. QED
  BY <1>1, <1>2, <1>7, <1>9, TurnLogged

-----------------------------------------------------------------------------
(***************************************************************************)
(* The commands and the report                                             *)
(***************************************************************************)
LEMMA AskedState ==
    ASSUME NEW st \in HostStates, NEW skip \in Nat
    PROVE  /\ Asked(st, skip) \in HostStates
           /\ Asked(st, skip).notConnected = st.notConnected
           /\ Asked(st, skip).responseTime = st.responseTime
           /\ Asked(st, skip).notResponding => st.notResponding
  BY DEF Asked, setNotResponding, HostStates

LEMMA VisitedState ==
    ASSUME NEW st \in HostStates, NEW o \in Outcomes,
           o \in {"skipped", "executor"} \/ st.responseTime < MaxRuns
    PROVE  /\ AfterVisit(st, o).notConnected = st.notConnected
           /\ o \in {"skipped", "executor"} => AfterVisit(st, o).responseTime = st.responseTime
           /\ o \notin {"skipped", "executor"} =>
                 AfterVisit(st, o).responseTime = st.responseTime + 1
<1>1. PICK a \in HostStates : /\ a = Asked(st, SkipFor)
                              /\ a.notConnected = st.notConnected
                              /\ a.responseTime = st.responseTime
  BY AskedState, SkipForAssumption
<1>2. PICK sum : sum = sumResponseTime(a)
  OBVIOUS
<1>3. /\ sum.notConnected = st.notConnected
      /\ sum.responseTime = st.responseTime + 1
      /\ sum = [notConnected |-> sum.notConnected, lastNoResponse |-> sum.lastNoResponse,
                notResponding |-> sum.notResponding, responseTime |-> sum.responseTime]
  BY <1>1, <1>2 DEF sumResponseTime, HostStates
<1>4. /\ setNotResponding(sum, TRUE).notConnected = sum.notConnected
      /\ setNotResponding(sum, TRUE).responseTime = sum.responseTime
  BY <1>3 DEF setNotResponding
<1>5. AfterVisit(st, o) = IF o \in {"skipped", "executor"} THEN a
                          ELSE IF o = "ok" THEN sum ELSE setNotResponding(sum, TRUE)
  BY <1>1, <1>2 DEF AfterVisit
<1>6. QED
  BY <1>1, <1>3, <1>4, <1>5

\* One state changes, that of the host the loop is at.
LEMMA StateAtHost ==
    ASSUME IInv, PipelineInv, AtHost, NEW st,
           hostStates' = [hostStates EXCEPT ![at[1]][at[2]] = st]
    PROVE  /\ at[1] \in DOMAIN hosts /\ at[2] \in DOMAIN hosts[at[1]]
           /\ hostStates[at[1]][at[2]] \in HostStates
           /\ hostStates'[at[1]][at[2]] = st
           /\ \A i \in DOMAIN hosts : \A j \in DOMAIN hosts[i] :
                 ~(i = at[1] /\ j = at[2]) => hostStates'[i][j] = hostStates[i][j]
<1>1. at[1] \in DOMAIN hosts /\ at[2] \in DOMAIN hosts[at[1]]
  BY PositionsOfLoops DEF AtHost
<1>2. hostStates \in Seq(Seq(HostStates))
  BY DEF IInv, CacheTypeOK
<1>3. at[1] \in DOMAIN hostStates /\ at[2] \in DOMAIN hostStates[at[1]]
      /\ hostStates[at[1]][at[2]] \in HostStates
  BY <1>1, ListedTyped
<1>4. hostStates'[at[1]][at[2]] = st
  BY <1>2, <1>3
<1>5. ASSUME NEW i \in DOMAIN hosts, NEW j \in DOMAIN hosts[i], ~(i = at[1] /\ j = at[2])
      PROVE  hostStates'[i][j] = hostStates[i][j]
  <2>1. i \in DOMAIN hostStates /\ j \in DOMAIN hostStates[i]
    BY ListedTyped
  <2>2. QED
    BY <1>2, <1>3, <1>5, <2>1
<1>6. QED
  BY <1>1, <1>3, <1>4, <1>5

LEMMA CommandKeepsLog ==
    ASSUME IInv, PipelineInv, TypesInv, SettledLog, NEW stage \in EsxcliStages, NEW filtered,
           NEW looks, EsxcliLoop(stage, filtered, looks)
    PROVE  SettledLog'
<1>1. /\ pc \in EsxcliStages
      /\ UNCHANGED <<dcs, hosts, inventory>>
  BY DEF EsxcliLoop, Working, listVars, dcVars
<1>2. /\ pc \in Late \ {"datastore", "vm", "self"}
      /\ pc \in Unreported /\ pc \in Timed
  BY <1>1 DEF Late, Unreported, Timed, EsxcliStages
<1>3. /\ StatesMatchLog /\ TimesMatchLog /\ HostsPlaced
      /\ \A h \in Hosts : log[h].code = None
  BY <1>2 DEF SettledLog, LogInv, PlacedInv
<1>4. ListedOnce
  BY <1>3, OnePosition
<1>5. log \in LogTypes
  BY DEF TypesInv, PcTypes
<1>6. AtHost => Host \in Hosts
  BY PositionsOfLoops, ListedTyped DEF AtHost, Host
<1>7. CASE /\ NextHost \/ NextDatacenter
           /\ UNCHANGED <<hostStates, log>>
  <2>1. UNCHANGED <<pc, need>>
    BY <1>7 DEF NextHost, NextDatacenter
  <2>2. StatesMatchLog' /\ TimesMatchLog' /\ \A h \in Hosts : log'[h].code = None
    BY <1>1, <1>3, <1>7 DEF StatesMatchLog, TimesMatchLog
  <2>3. QED
    BY <1>1, <1>2, <2>1, <2>2, TurnLogged
<1>8. CASE /\ AtHost
           /\ \E o \in Outcomes :
                 /\ EsxcliVisit(at[1], at[2], o)
                 /\ IF o \in {"skipped", "executor"} THEN UNCHANGED log
                    ELSE /\ log' \in LogTypes
                         /\ log'[Host].runs = log[Host].runs + 1
                         /\ log'[Host].down = log[Host].down
                         /\ log'[Host].code = log[Host].code
                         /\ \A h \in Hosts \ {Host} : log'[h] = log[h]
           /\ NextHost \/ Fail
  <2>1. PICK o \in Outcomes :
                 /\ EsxcliVisit(at[1], at[2], o)
                 /\ IF o \in {"skipped", "executor"} THEN UNCHANGED log
                    ELSE /\ log' \in LogTypes
                         /\ log'[Host].runs = log[Host].runs + 1
                         /\ log'[Host].down = log[Host].down
                         /\ log'[Host].code = log[Host].code
                         /\ \A h \in Hosts \ {Host} : log'[h] = log[h]
    BY <1>8
  <2> DEFINE st == hostStates[at[1]][at[2]]
  <2>2. hostStates' = [hostStates EXCEPT ![at[1]][at[2]] = AfterVisit(st, o)]
    BY <2>1 DEF EsxcliVisit
  <2>3. /\ at[1] \in DOMAIN hosts /\ at[2] \in DOMAIN hosts[at[1]] /\ st \in HostStates
        /\ hostStates'[at[1]][at[2]] = AfterVisit(st, o)
        /\ \A i \in DOMAIN hosts : \A j \in DOMAIN hosts[i] :
              ~(i = at[1] /\ j = at[2]) => hostStates'[i][j] = hostStates[i][j]
    BY <1>8, <2>2, StateAtHost
  <2>4. /\ AfterVisit(st, o).notConnected = st.notConnected
        /\ o \in {"skipped", "executor"} => AfterVisit(st, o).responseTime = st.responseTime
        /\ o \notin {"skipped", "executor"} =>
              AfterVisit(st, o).responseTime = st.responseTime + 1
    BY <2>1, <2>3, VisitedState DEF EsxcliVisit
  <2>5. \A h \in Hosts : log'[h].code = None /\ log'[h].down = log[h].down
    BY <1>3, <1>6, <1>8, <2>1
  <2> HIDE DEF st
  <2>6. ASSUME NEW i \in DOMAIN hosts, NEW j \in DOMAIN hosts[i]
        PROVE  /\ hostStates'[i][j].notConnected = hostStates[i][j].notConnected
               /\ hostStates'[i][j].responseTime = log'[hosts[i][j]].runs
               /\ log'[hosts[i][j]].down = log[hosts[i][j]].down
               /\ log'[hosts[i][j]].code # 0
    <3>1. /\ hosts[i][j] \in Hosts
          /\ hostStates[i][j].responseTime = log[hosts[i][j]].runs
      BY <1>3, ListedTyped DEF TimesMatchLog
    <3>2. CASE i = at[1] /\ j = at[2]
      <4>1. hosts[i][j] = Host /\ st = hostStates[i][j]
        BY <3>2 DEF Host, st
      <4>2. hostStates'[i][j].responseTime = log'[Host].runs
        BY <2>1, <2>3, <2>4, <3>1, <3>2, <4>1
      <4>3. QED
        BY <2>3, <2>4, <2>5, <3>1, <3>2, <4>1, <4>2, NoneAssumption
    <3>3. CASE ~(i = at[1] /\ j = at[2])
      <4>1. hosts[i][j] # Host
        BY <1>4, <2>3, <3>3 DEF ListedOnce, Host
      <4>2. log'[hosts[i][j]] = log[hosts[i][j]]
        BY <2>1, <3>1, <4>1
      <4>3. QED
        BY <2>3, <2>5, <3>1, <3>3, <4>2, NoneAssumption
    <3>4. QED
      BY <3>2, <3>3
  <2>7. StatesMatchLog' /\ TimesMatchLog'
    <3>1. hosts' = hosts
      BY <1>1
    <3>2. QED
      BY <1>3, <2>6, <3>1 DEF StatesMatchLog, TimesMatchLog
  <2>8. Fail \/ UNCHANGED <<pc, need>>
    BY <1>8 DEF NextHost
  <2>9. QED
    BY <1>1, <1>2, <2>5, <2>7, <2>8, TurnLogged
<1>9. QED
  BY <1>5, <1>6, <1>7, <1>8, CommandTurn

LEMMA ReportKeepsLog ==
    ASSUME IInv, PipelineInv, TypesInv, SettledLog, ReportHostEsxcliResponse
    PROVE  SettledLog'
<1>1. /\ pc = "report"
      /\ Fail \/ UNCHANGED <<pc, need>>
      /\ UNCHANGED <<dcs, hosts, inventory>>
  BY DEF ReportHostEsxcliResponse, Working, listVars, dcVars, NextHost, NextDatacenter
<1>2. /\ pc \in Late \ {"datastore", "vm", "self"}
      /\ pc \notin Unreported /\ pc \in Timed
  BY <1>1 DEF Late, Unreported, Timed, EsxcliStages
<1>3. StatesMatchLog /\ TimesMatchLog /\ HostsPlaced
  BY <1>2 DEF SettledLog, LogInv, PlacedInv
<1>4. log \in LogTypes
  BY DEF TypesInv, PcTypes
<1>5. CASE UNCHANGED <<hostStates, log>>
  <2>1. StatesMatchLog' /\ TimesMatchLog'
    BY <1>1, <1>3, <1>5 DEF StatesMatchLog, TimesMatchLog
  <2>2. QED
    BY <1>1, <1>2, <2>1, TurnLogged
<1>6. CASE /\ AtHost
           /\ ReportHost(at[1], at[2])
           /\ log' = [log EXCEPT ![Host].code = RespondingCode(hostStates[at[1]][at[2]])]
  <2> DEFINE st == hostStates[at[1]][at[2]]
             answer == RespondingCode(st)
  <2>1. hostStates' = [hostStates EXCEPT ![at[1]][at[2]] = Asked(st, 0)]
    BY <1>6 DEF ReportHost
  <2>2. /\ at[1] \in DOMAIN hosts /\ at[2] \in DOMAIN hosts[at[1]] /\ st \in HostStates
        /\ hostStates'[at[1]][at[2]] = Asked(st, 0)
        /\ \A i \in DOMAIN hosts : \A j \in DOMAIN hosts[i] :
              ~(i = at[1] /\ j = at[2]) => hostStates'[i][j] = hostStates[i][j]
    BY <1>6, <2>1, StateAtHost
  <2>3. /\ Asked(st, 0).notConnected = st.notConnected
        /\ Asked(st, 0).responseTime = st.responseTime
        /\ answer = 0 => ~Asked(st, 0).notResponding
    <3>1. answer = 0 => ~Asked(st, 0).notResponding
      BY DEF RespondingCode, isHostConnectedAndResponding
    <3>2. QED
      BY <2>2, <3>1, AskedState
  <2> HIDE DEF answer
  <2>4. /\ log'[Host].code = answer
        /\ log'[Host].down = log[Host].down
        /\ log'[Host].runs = log[Host].runs
        /\ \A h \in Hosts \ {Host} : log'[h] = log[h]
    <3>1. Host \in Hosts
      BY <2>2, ListedTyped DEF Host
    <3>2. log' = [log EXCEPT ![Host].code = answer]
      BY <1>6 DEF answer
    <3>3. QED
      BY <1>4, <3>1, <3>2 DEF LogTypes
  <2>5. ListedOnce
    BY <1>3, OnePosition
  <2> HIDE DEF st
  <2>6. ASSUME NEW i \in DOMAIN hosts, NEW j \in DOMAIN hosts[i]
        PROVE  /\ log'[hosts[i][j]].down => hostStates'[i][j].notConnected
               /\ log'[hosts[i][j]].code = 0 => ~hostStates'[i][j].notResponding
               /\ hostStates'[i][j].responseTime = log'[hosts[i][j]].runs
    <3>1. /\ log[hosts[i][j]].down => hostStates[i][j].notConnected
          /\ log[hosts[i][j]].code = 0 => ~hostStates[i][j].notResponding
          /\ hostStates[i][j].responseTime = log[hosts[i][j]].runs
      BY <1>3 DEF StatesMatchLog, TimesMatchLog
    <3>2. CASE i = at[1] /\ j = at[2]
      <4>1. hosts[i][j] = Host /\ st = hostStates[i][j]
        BY <3>2 DEF Host, st
      <4>2. QED
        BY <2>2, <2>3, <2>4, <3>1, <3>2, <4>1
    <3>3. CASE ~(i = at[1] /\ j = at[2])
      <4>1. hosts[i][j] # Host
        BY <2>2, <2>5, <3>3 DEF ListedOnce, Host
      <4>2. log'[hosts[i][j]] = log[hosts[i][j]]
        BY <2>4, <4>1, ListedTyped
      <4>3. QED
        BY <2>2, <3>1, <3>3, <4>2
    <3>4. QED
      BY <3>2, <3>3
  <2>7. StatesMatchLog' /\ TimesMatchLog'
    <3>1. hosts' = hosts
      BY <1>1
    <3>2. QED
      BY <2>6, <3>1 DEF StatesMatchLog, TimesMatchLog
  <2>8. QED
    BY <1>1, <1>2, <2>7, TurnLogged
<1>7. QED
  BY <1>5, <1>6 DEF ReportHostEsxcliResponse

-----------------------------------------------------------------------------
LEMMA StepKeepsLog ==
    ASSUME SettledCase, IInv, PipelineInv, TypesInv, SettledInv, SettledLog, [GatherNext]_vars
    PROVE  SettledLog'
<1>1. ~panicked'
  BY SettledStays DEF SettledInv
<1>2. CASE \/ BeginGather \/ InventoryChanges \/ TimePasses \/ ContextExpires
           \/ CollectVcenterInfo \/ Return \/ UNCHANGED vars
  BY <1>2, OutsideKeepsLog
<1>3. CASE RefreshList
  BY <1>3, RefreshKeepsLog
<1>4. CASE CollectDatacenterInfo
  BY <1>1, <1>4, DatacenterInfoKeepsLog
<1>5. CASE \/ CollectClusterInfo \/ CollectHostServices \/ CollectNetDVS
           \/ CollectNetDVP \/ CollectDatastoresInfo \/ CollectVmsInfo
           \/ EndLoop \/ SelfMetrics
  BY <1>1, <1>5, EndingKeepsLog
  DEF CollectClusterInfo, CollectHostServices, CollectNetDVS, CollectNetDVP,
      CollectDatastoresInfo, CollectVmsInfo, Late
<1>6. CASE ResetTimes
  BY <1>1, <1>6, ResetKeepsLog
<1>7. CASE CollectHostInfo \/ ReportHostEsxcliResponse
  BY <1>7, HostInfoKeepsLog, ReportKeepsLog
<1>8. CASE CollectHostHBA \/ CollectHostNIC \/ CollectHostFw \/ CollectHostGraphics
  BY <1>8, CommandKeepsLog
  DEF CollectHostHBA, CollectHostNIC, CollectHostFw, CollectHostGraphics, EsxcliStages
<1>9. QED
  BY <1>2, <1>3, <1>4, <1>5, <1>6, <1>7, <1>8 DEF GatherNext, PluginStep

LEMMA LogInvariant ==
    ASSUME SettledCase
    PROVE  GatherSpec => [](IInv /\ PipelineInv /\ TypesInv /\ SettledInv /\ SettledLog)
<1>1. GatherInit => SettledLog
  <2>1. "idle" \notin Late \cup Unreported \cup Timed
    BY DEF Late, Unreported, Timed, EsxcliStages
  <2>2. QED
    BY <2>1 DEF GatherInit, SettledLog, PlacedInv, LogInv
<1>2. /\ IInv /\ PipelineInv /\ TypesInv /\ SettledInv /\ SettledLog /\ [GatherNext]_vars
            => SettledLog'
  BY SettledCase, StepKeepsLog
<1>3. QED
  BY <1>1, <1>2, SettledCase, TypesInvariant, SettledInvariant, PTL DEF GatherSpec

\* The response time that is reported of a host sums up the commands that this
\* gather has sent it, and no others.
THEOREM TimesOfThisGather == ASSUME SettledCase PROVE GatherSpec => []TimesAreThisGathers
<1>1. IInv /\ PipelineInv /\ SettledInv /\ SettledLog => TimesAreThisGathers
  <2> SUFFICES ASSUME IInv, PipelineInv, SettledInv, SettledLog, pc = "report",
                      NEW i \in 1..Len(dcs), NEW j \in FilteredIn(i)
               PROVE  hostStates[i][j].responseTime = log[hosts[i][j]].runs
    BY DEF TimesAreThisGathers
  <2>1. TimesMatchLog /\ Covers(hosts)
    BY SizedCovers DEF SettledLog, LogInv, Timed, SettledInv, LateStage, Late
  <2>2. i \in DOMAIN hosts /\ j \in DOMAIN hosts[i]
    BY <2>1 DEF Covers, IInv, CacheTypeOK, FilteredIn
  <2>3. QED
    BY <2>1, <2>2 DEF TimesMatchLog
<1>2. QED
  BY <1>1, SettledCase, LogInvariant, PTL

\* A host that this gather reported as responding is not counted among those
\* that do not respond, although a refresh may have failed in between.
THEOREM RespondingAreNotCounted ==
    ASSUME SettledCase PROVE GatherSpec => []RespondingNotCounted
<1>1. IInv /\ SettledLog => RespondingNotCounted
  <2> SUFFICES ASSUME IInv, SettledLog, pc = "self", NEW p \in NotRespondingHosts,
                      HasState(p[1], p[2])
               PROVE  log[hosts[p[1]][p[2]]].code # 0
    BY DEF RespondingNotCounted
  <2>1. StatesMatchLog
    BY DEF SettledLog, LogInv, Late
  <2>2. hostStates[p[1]][p[2]].notResponding
    BY DEF NotRespondingHosts
  <2>3. p[1] \in DOMAIN hosts /\ p[2] \in DOMAIN hosts[p[1]]
    BY DEF HasState
  <2>4. QED
    BY <2>1, <2>2, <2>3 DEF StatesMatchLog
<1>2. QED
  BY <1>1, SettledCase, LogInvariant, PTL

\* Only the loops of the esxcli collectors send commands, to the host they are at.
LEMMA CommandedAtHost ==
    ASSUME IInv, PipelineInv, TypesInv, [GatherNext]_vars,
           NEW h \in Hosts, log'[h].runs > log[h].runs
    PROVE  /\ pc \in EsxcliStages /\ AtHost /\ h = Host
           /\ isHostConnectedAndResponding(hostStates[at[1]][at[2]], SkipFor)
<1>1. log \in LogTypes /\ log[h].runs \in Nat
  BY DEF TypesInv, PcTypes, LogTypes
<1>2. log' # log
  BY <1>1
<1>3. ~Return
  BY <1>1 DEF Return, NoLog
<1>4. ~CollectHostInfo
  <2> SUFFICES ASSUME CollectHostInfo PROVE FALSE
    OBVIOUS
  <2>1. \E b : log'[h] = [log[h] EXCEPT !.down = b]
    <3>1. PICK seen \in SUBSET FilteredIn(at[1]) : \E up \in SUBSET seen :
             log' = [k \in Hosts |->
                        [log[k] EXCEPT !.down =
                            IF \E j \in seen : hosts[at[1]][j] = k
                            THEN \E j \in seen \ up : hosts[at[1]][j] = k
                            ELSE @]]
      BY DEF CollectHostInfo
    <3>2. QED
      BY <3>1, Zenon
  <2>2. QED
    BY <1>1, <2>1 DEF LogTypes
<1>5. ~ReportHostEsxcliResponse
  <2>1. ReportHostEsxcliResponse =>
           log' = log \/ \E k, st : log' = [log EXCEPT ![k].code = RespondingCode(st)]
    BY Zenon DEF ReportHostEsxcliResponse
  <2>2. QED
    BY <1>1, <1>2, <2>1 DEF LogTypes
<1>6. \/ CollectHostHBA \/ CollectHostNIC \/ CollectHostFw \/ CollectHostGraphics
  BY <1>2, <1>3, <1>4, <1>5
  DEF GatherNext, PluginStep, BeginGather, InventoryChanges, TimePasses, ContextExpires, vars,
      gatherVars, RefreshList, CollectVcenterInfo, CollectDatacenterInfo, CollectClusterInfo,
      CollectHostServices, CollectNetDVS, CollectNetDVP, CollectDatastoresInfo, CollectVmsInfo,
      Queries, EndLoop, ResetTimes, SelfMetrics
<1>7. PICK stage \in EsxcliStages, filtered \in SUBSET Hosts, looks \in BOOLEAN :
         EsxcliLoop(stage, filtered, looks)
  BY <1>6, SelectedAssumption
  DEF CollectHostHBA, CollectHostNIC, CollectHostFw, CollectHostGraphics, EsxcliStages
<1>8. AtHost => Host \in Hosts
  BY PositionsOfLoops, ListedTyped DEF AtHost, Host
<1>9. /\ AtHost
      /\ \E o \in Outcomes :
            /\ EsxcliVisit(at[1], at[2], o)
            /\ o \notin {"skipped", "executor"}
            /\ \A k \in Hosts \ {Host} : log'[k] = log[k]
  BY <1>1, <1>2, <1>7, <1>8, CommandTurn
<1>10. h = Host
  BY <1>1, <1>9
<1>11. isHostConnectedAndResponding(hostStates[at[1]][at[2]], SkipFor)
  BY <1>9 DEF EsxcliVisit, Outcomes, RunFails
<1>12. QED
  BY <1>7, <1>9, <1>10, <1>11 DEF EsxcliLoop, Working

\* A host that this gather has found down is sent no command, though the hosts
\* are listed again before every stage.
THEOREM DownAreNotQueried == ASSUME SettledCase PROVE GatherSpec => DownNotQueried
<1>1. /\ IInv /\ PipelineInv /\ TypesInv /\ SettledInv /\ SettledLog /\ [GatherNext]_vars
            => [\A h \in Hosts : log'[h].runs > log[h].runs => ~log[h].down]_vars
  <2> SUFFICES ASSUME IInv, PipelineInv, TypesInv, SettledLog, [GatherNext]_vars,
                      NEW h \in Hosts, log'[h].runs > log[h].runs
               PROVE  ~log[h].down
    OBVIOUS
  <2>1. /\ pc \in EsxcliStages /\ AtHost /\ h = Host
        /\ isHostConnectedAndResponding(hostStates[at[1]][at[2]], SkipFor)
    BY CommandedAtHost
  <2>2. StatesMatchLog
    BY <2>1 DEF SettledLog, LogInv, EsxcliStages, Late
  <2>3. at[1] \in DOMAIN hosts /\ at[2] \in DOMAIN hosts[at[1]]
    BY <2>1, PositionsOfLoops DEF AtHost
  <2>4. ~hostStates[at[1]][at[2]].notConnected
    BY <2>1 DEF isHostConnectedAndResponding
  <2>5. QED
    BY <2>1, <2>2, <2>3, <2>4 DEF StatesMatchLog, Host
<1>2. QED
  BY <1>1, SettledCase, LogInvariant, PTL DEF GatherSpec, DownNotQueried

\* A visit of an esxcli loop finds the host's response time below the bound that
\* EsxcliVisit has and the code has not.
BoundIsFar ==
    pc \in EsxcliStages /\ need = <<>> /\ AtHost =>
        hostStates[at[1]][at[2]].responseTime < MaxRuns

\* Therefore MaxRuns takes no behaviour away from the pipeline: responseTime has
\* been reset in this gather (ResetResponseTimes, cache.go:273), and no more than
\* one command for each earlier stage has been added to it.
THEOREM BoundIsNoLimit == ASSUME SettledCase PROVE GatherSpec => []BoundIsFar
<1>1. IInv /\ PipelineInv /\ TypesInv /\ SettledLog => BoundIsFar
  <2> SUFFICES ASSUME IInv, PipelineInv, TypesInv, SettledLog,
                      pc \in EsxcliStages, need = <<>>, AtHost
               PROVE  hostStates[at[1]][at[2]].responseTime < MaxRuns
    BY DEF BoundIsFar
  <2>1. at[1] \in DOMAIN hosts /\ at[2] \in DOMAIN hosts[at[1]]
    BY PositionsOfLoops DEF AtHost
  <2>2. hostStates[at[1]][at[2]].responseTime = log[Host].runs
    BY <2>1 DEF SettledLog, LogInv, Timed, TimesMatchLog, Host
  <2>3. Ahead(at[1], at[2])
    BY PositionsOfLoops DEF Ahead, TypesInv, PcTypes
  <2>4. log[Host].runs <= Before(pc)
    BY <2>1, <2>3 DEF TypesInv, RunsInv, InCommands, Host
  <2>5. log[Host].runs \in Nat
    BY <2>1, ListedTyped DEF TypesInv, PcTypes, LogTypes, Host
  <2>6. Before(pc) \in 0..3
    BY DEF Before, EsxcliStages
  <2>7. MaxRuns \in Nat /\ MaxRuns >= 4
    BY MaxRunsAssumption, CollectorIsUnrestricted
  <2>8. QED
    BY <2>2, <2>4, <2>5, <2>6, <2>7
<1>2. QED
  BY <1>1, SettledCase, LogInvariant, PTL

===============================================================================
