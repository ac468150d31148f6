---------------------------- MODULE SettledProofs -----------------------------
(***************************************************************************)
(* Gathers of the collector as Init sets it up: nothing is fresh for any   *)
(* time (NothingOutlivesAGather of module Startup), and the inventory      *)
(* changes only between two gathers.  Then no stage indexes a slice out of *)
(* range when the hosts or the clusters are collected, and what the        *)
(* datacenters are reported to have was listed from these datacenters, for *)
(* all inventories and all such sets of options.                           *)
(***************************************************************************)
EXTENDS GatherProofs, WellFoundedInduction

\* The stages after CollectDatacenterInfo.
Late == {"cluster", "host", "reset", "hba", "nic", "fw", "graphics", "services",
         "report", "dvs", "dvp", "datastore", "vm", "self"}

\* The lists that a stage of Late may still have to refresh.
LateLists == {<<>>, <<"ch">>, <<"nets">>, <<"dss">>, <<"vms">>}

\* What CollectDatacenterInfo has listed so far, from the one list of datacenters.
DatacenterStage ==
    /\ dcs = inventory.dcs
    /\ need \in {<<"dcs", "ch", "nets", "dss">>, <<"ch", "nets", "dss">>,
                 <<"nets", "dss">>, <<"dss">>, <<>>}
    /\ need \in {<<"nets", "dss">>, <<"dss">>, <<>>} =>
          Len(hosts) = Len(dcs) /\ clusters = dcs
    /\ need \in {<<"dss">>, <<>>} => nets = dcs
    /\ need = <<>> => dss = dcs

\* Later a refresh may empty c.dcs, and otherwise finds as many datacenters.
Sized ==
    /\ dcs \in {<<>>, inventory.dcs}
    /\ Len(hosts) = Len(inventory.dcs)
    /\ Len(nets) = Len(inventory.dcs)
    /\ Len(dss) = Len(inventory.dcs)

LateStage ==
    /\ Sized
    /\ need \in LateLists
    /\ pc = "vm" => need = <<"vms">> \/ (need = <<>> /\ Covers(vms))

SettledInv ==
    /\ ~panicked
    /\ cfg \in Configs
    /\ pc \in {"idle", "return", "vcenter", "datacenter"} \cup Late
    /\ pc \in {"idle", "return"} => need = <<>>
    /\ pc = "vcenter" => need = <<"dcs">> \/ (need = <<>> /\ dcs = inventory.dcs)
    /\ pc = "datacenter" => DatacenterStage
    /\ pc \in Late => LateStage

-----------------------------------------------------------------------------
(***************************************************************************)
(* The order of the stages                                                 *)
(***************************************************************************)
LEMMA Places ==
    /\ DOMAIN Pipeline = 1..16
    /\ Pipeline[1] = "vcenter" /\ Pipeline[2] = "datacenter"
    /\ \A k \in 3..16 : Pipeline[k] \in Late
    /\ \A stage \in Late : \E k \in 3..16 : Pipeline[k] = stage
  BY DEF Pipeline, Late

LEMMA DatacenterFollows ==
    ASSUME cfg \cap {"cluster", "host"} # {}
    PROVE  Following("vcenter") = "datacenter"
<1> DEFINE place == CHOOSE k \in DOMAIN Pipeline : Pipeline[k] = "vcenter"
           later == {k \in DOMAIN Pipeline : k > place /\ Enabled(Pipeline[k])}
           first == CHOOSE k \in later : \A other \in later : k <= other
<1>1. \A k \in DOMAIN Pipeline : Pipeline[k] = "vcenter" <=> k = 1
  BY Places DEF Late
<1>2. place = 1
  BY <1>1, Places
<1>3. 2 \in later
  <2>1. Enabled("datacenter")
    BY DEF Enabled
  <2>2. 2 \in DOMAIN Pipeline /\ Enabled(Pipeline[2])
    BY <2>1, Places
  <2> HIDE DEF place
  <2>3. QED
    BY <1>2, <2>2
<1>4. \A k \in later : 2 <= k
  BY <1>2, Places
<1>5. first \in later /\ \A other \in later : first <= other
  BY <1>3, <1>4
<1>6. first = 2
  <2>1. \A k \in later : k \in Nat
    BY Places
  <2> HIDE DEF first, later
  <2>2. QED
    BY <1>3, <1>4, <1>5, <2>1
<1>7. QED
  BY <1>3, <1>6, Places DEF Following

LEMMA SomeIsFirst ==
    ASSUME NEW S \in SUBSET (3..16), S # {}
    PROVE  \E k \in S : \A other \in S : k <= other
<1>1. S \subseteq Nat
  OBVIOUS
<1>2. PICK k \in S : \A other \in S : <<other, k>> \notin OpToRel(<, Nat)
  BY <1>1, WFMin, NatLessThanWellFounded, Zenon
<1>3. \A other \in S : ~(other < k)
  BY <1>1, <1>2, Zenon DEF OpToRel
<1>4. QED
  BY <1>1, <1>3

LEMMA LateFollows ==
    ASSUME NEW stage \in Late \cup {"datacenter"}
    PROVE  Following(stage) \in Late \cup {"return"}
<1> DEFINE place == CHOOSE k \in DOMAIN Pipeline : Pipeline[k] = stage
           later == {k \in DOMAIN Pipeline : k > place /\ Enabled(Pipeline[k])}
           first == CHOOSE k \in later : \A other \in later : k <= other
<1>1. place \in DOMAIN Pipeline /\ Pipeline[place] = stage
  BY Places
<1>2. place >= 2
  BY <1>1, Places DEF Late
<1>3. \A k \in later : k \in 3..16
  BY <1>1, <1>2, Places
<1>4. later # {} => first \in later
  BY <1>3, SomeIsFirst
<1>5. QED
  BY <1>3, <1>4, Places DEF Following

-----------------------------------------------------------------------------
(***************************************************************************)
(* The refreshes, when nothing is fresh                                    *)
(***************************************************************************)
LEMMA NothingFresh ==
    ASSUME DataDuration = 0, IInv
    PROVE  /\ ~Fresh(lastDCUpdate) /\ ~Fresh(lastCHUpdate) /\ ~Fresh(lastNtUpdate)
           /\ ~Fresh(lastDsUpdate) /\ ~Fresh(lastVmUpdate)
  BY DEF Fresh, IInv, CacheTypeOK, Ages

LEMMA InventoryTyped == \A v \in Inventories : v.dcs \in Seq(Datacenters)
  BY InventoriesAssumption

LEMMA DatacentersRefreshed ==
    ASSUME DataDuration = 0, IInv, NEW ok \in BOOLEAN, getDatacenters(inventory, ok)
    PROVE  dcs' = IF ok THEN inventory.dcs ELSE <<>>
  BY NothingFresh DEF getDatacenters

LEMMA HostsRefreshed ==
    ASSUME DataDuration = 0, IInv, inventory \in Inventories, NEW ok \in BOOLEAN,
           getAllDatacentersClustersAndHosts(inventory, ok)
    PROVE  /\ dcs' \in {<<>>, inventory.dcs}
           /\ ok => dcs' = inventory.dcs /\ clusters' = dcs' /\ Len(hosts') = Len(dcs')
           /\ hosts' = hosts \/ Len(hosts') = Len(inventory.dcs)
<1>1. ~Fresh(lastCHUpdate)
  BY NothingFresh
<1>2. CASE ~ok /\ getDatacenters(inventory, FALSE) /\ UNCHANGED chVars
  BY <1>2, DatacentersRefreshed DEF chVars
<1>3. CASE /\ getDatacenters(inventory, TRUE)
           /\ \E e \in Endings(Len(dcs')) :
                 ok = (e.on = "nil") /\ ListClustersAndHosts(inventory, dcs', e)
  <2>1. dcs' = inventory.dcs /\ dcs' \in Seq(Datacenters)
    BY <1>3, DatacentersRefreshed, InventoryTyped
  <2>2. PICK e \in Endings(Len(dcs')) :
           ok = (e.on = "nil") /\ ListClustersAndHosts(inventory, dcs', e)
    BY <1>3
  <2>3. Len(hosts') = Len(dcs')
    BY <2>1, <2>2, HostsListed
  <2>4. clusters' = Listed(dcs', e.on = "nil")
    BY <2>2, Zenon DEF ListClustersAndHosts
  <2>5. ok => clusters' = dcs'
    BY <2>2, <2>4 DEF Listed
  <2>6. QED
    BY <2>1, <2>3, <2>5
<1>4. QED
  BY <1>1, <1>2, <1>3, Zenon DEF getAllDatacentersClustersAndHosts

\* What a refresh of any list does to all of them.
LEMMA Refreshed ==
    ASSUME DataDuration = 0, IInv, inventory \in Inventories, NEW ok \in BOOLEAN, NEW list,
           Refresh(list, ok)
    PROVE  /\ dcs' \in {<<>>, inventory.dcs}
           /\ ok => dcs' = inventory.dcs
           /\ ok /\ list = "ch" => clusters' = dcs' /\ Len(hosts') = Len(dcs')
           /\ ok /\ list = "nets" => nets' = dcs' /\ UNCHANGED chVars
           /\ ok /\ list = "dss" => dss' = dcs' /\ UNCHANGED <<chVars, ntVars>>
           /\ ok /\ list = "vms" => Len(vms') = Len(dcs')
           /\ hosts' = hosts \/ Len(hosts') = Len(inventory.dcs)
           /\ nets' = nets \/ Len(nets') = Len(inventory.dcs)
           /\ dss' = dss \/ Len(dss') = Len(inventory.dcs)
<1>1. inventory.dcs \in Seq(Datacenters)
  BY InventoryTyped
<1>2. /\ Listed(inventory.dcs, TRUE) = inventory.dcs
      /\ Len(Listed(inventory.dcs, ok)) = Len(inventory.dcs)
  BY <1>1, ListedOK DEF Listed
<1>3. /\ ~Fresh(lastNtUpdate) /\ ~Fresh(lastDsUpdate) /\ ~Fresh(lastVmUpdate)
  BY NothingFresh
<1>4. CASE list = "dcs" /\ getDatacenters(inventory, ok)
           /\ UNCHANGED <<chVars, ntVars, dsVars, vmVars>>
  BY <1>4, DatacentersRefreshed DEF chVars, ntVars, dsVars
<1>5. CASE list = "ch" /\ getAllDatacentersClustersAndHosts(inventory, ok)
           /\ UNCHANGED <<ntVars, dsVars, vmVars>>
  BY <1>5, HostsRefreshed DEF ntVars, dsVars
<1>6. CASE list = "nets" /\ getAllDatacentersNetworks(inventory, ok)
           /\ UNCHANGED <<chVars, dsVars, vmVars>>
  <2>1. CASE ~ok /\ getDatacenters(inventory, FALSE) /\ UNCHANGED ntVars
    BY <1>6, <2>1, DatacentersRefreshed DEF chVars, ntVars, dsVars
  <2>2. CASE getDatacenters(inventory, TRUE) /\ nets' = Listed(dcs', ok)
    BY <1>2, <1>6, <2>2, DatacentersRefreshed DEF chVars, dsVars
  <2>3. QED
    BY <1>3, <1>6, <2>1, <2>2 DEF getAllDatacentersNetworks
<1>7. CASE list = "dss" /\ getAllDatacentersDatastores(inventory, ok)
           /\ UNCHANGED <<chVars, ntVars, vmVars>>
  <2>1. CASE ~ok /\ getDatacenters(inventory, FALSE) /\ UNCHANGED dsVars
    BY <1>7, <2>1, DatacentersRefreshed DEF chVars, ntVars, dsVars
  <2>2. CASE getDatacenters(inventory, TRUE) /\ dss' = Listed(dcs', ok)
    BY <1>2, <1>7, <2>2, DatacentersRefreshed DEF chVars, ntVars
  <2>3. QED
    BY <1>3, <1>7, <2>1, <2>2 DEF getAllDatacentersDatastores
<1>8. CASE list = "vms" /\ RefreshHostsAndVMs(ok) /\ UNCHANGED <<ntVars, dsVars>>
  <2>1. CASE ~ok /\ getAllDatacentersClustersAndHosts(inventory, FALSE)
    BY <1>8, <2>1, HostsRefreshed DEF ntVars, dsVars
  <2>2. CASE getAllDatacentersClustersAndHosts(inventory, TRUE) /\ vms' = Listed(dcs', ok)
    BY <1>2, <1>8, <2>2, HostsRefreshed DEF ntVars, dsVars
  <2>3. QED
    BY <1>3, <1>8, <2>1, <2>2 DEF RefreshHostsAndVMs, getAllDatacentersVMs
<1>9. QED
  BY <1>4, <1>5, <1>6, <1>7, <1>8, Zenon DEF Refresh

-----------------------------------------------------------------------------
(***************************************************************************)
(* The steps                                                               *)
(***************************************************************************)
\* The gather ends.
LEMMA Ended ==
    ASSUME SettledInv, Enter("return"), ~panicked', UNCHANGED cfg
    PROVE  SettledInv'
<1>1. pc' = "return" /\ need' = <<>>
  BY DEF Enter, Lists, EsxcliStages
<1>2. QED
  BY <1>1 DEF SettledInv, Late

\* The gather goes on to a stage after CollectDatacenterInfo.
LEMMA WentOnLate ==
    ASSUME SettledInv, Sized', Enter(Following(pc)), pc \in Late \cup {"datacenter"},
           ~panicked', UNCHANGED cfg
    PROVE  SettledInv'
<1>1. CASE pc' = "return"
  BY <1>1, Ended DEF Enter
<1>2. CASE pc' \in Late
  <2>1. need' = Lists(pc')
    BY DEF Enter
  <2>2. Lists(pc') \in LateLists
    BY <1>2 DEF Lists, LateLists, Late, EsxcliStages
  <2>3. pc' = "vm" => Lists(pc') = <<"vms">>
    BY DEF Lists, EsxcliStages
  <2>4. LateStage'
    BY <2>1, <2>2, <2>3 DEF LateStage
  <2>5. pc' \notin {"idle", "return", "vcenter", "datacenter"}
    BY <1>2 DEF Late
  <2>6. QED
    BY <1>2, <2>4, <2>5 DEF SettledInv
<1>3. QED
  BY <1>1, <1>2, LateFollows DEF Enter

\* A stage of Late fails: gatherStorage and gatherVM go on.
LEMMA FailedLate ==
    ASSUME SettledInv, Sized', Fail, pc \in Late, ~panicked', UNCHANGED cfg
    PROVE  SettledInv'
<1>1. CASE pc \in {"datastore", "vm"}
  BY <1>1, WentOnLate DEF Fail
<1>2. CASE pc \notin {"datastore", "vm"}
  BY <1>2, Ended DEF Fail
<1>3. QED
  BY <1>1, <1>2

\* The loops of a stage of Late leave the lists alone.
LEMMA Looping ==
    ASSUME SettledInv, UNCHANGED <<dcs, hosts, nets, dss, vms, cfg, inventory, panicked>>,
           pc \in Late, Proceed \/ Fail \/ UNCHANGED <<pc, need>>
    PROVE  SettledInv'
<1>1. Sized /\ Sized'
  BY DEF SettledInv, LateStage, Sized
<1>2. ~panicked'
  BY DEF SettledInv
<1>3. CASE Proceed
  BY <1>1, <1>2, <1>3, WentOnLate DEF Proceed
<1>4. CASE Fail
  BY <1>1, <1>2, <1>4, FailedLate
<1>5. CASE UNCHANGED <<pc, need>>
  <2>1. LateStage'
    BY <1>1, <1>5 DEF SettledInv, LateStage, Covers
  <2>2. QED
    BY <1>5, <2>1 DEF SettledInv, Late
<1>6. QED
  BY <1>3, <1>4, <1>5

LEMMA HeadsAndTails ==
    /\ Tail(<<"dcs", "ch", "nets", "dss">>) = <<"ch", "nets", "dss">>
    /\ Tail(<<"ch", "nets", "dss">>) = <<"nets", "dss">>
    /\ Tail(<<"nets", "dss">>) = <<"dss">>
    /\ \A x : Head(<<x>>) = x /\ Tail(<<x>>) = <<>>
    /\ Head(<<"ch", "nets", "dss">>) = "ch" /\ Head(<<"nets", "dss">>) = "nets"
  OBVIOUS

\* The lists that CollectDatacenterInfo has yet to refresh are not the same.
LEMMA ListsDiffer ==
    /\ <<"dcs", "ch", "nets", "dss">> \notin {<<"ch", "nets", "dss">>, <<"nets", "dss">>,
                                             <<"dss">>, <<>>}
    /\ <<"ch", "nets", "dss">> \notin {<<"nets", "dss">>, <<"dss">>, <<>>}
    /\ <<"nets", "dss">> \notin {<<"dss">>, <<>>}
    /\ \A x : <<x>> # <<>>
  OBVIOUS

LEMMA RefreshKeepsSettled ==
    ASSUME SettledCase, IInv, PipelineInv, SettledInv, RefreshList
    PROVE  SettledInv'
<1>1. PICK ok \in BOOLEAN :
         /\ Refresh(Head(need), ok)
         /\ ok => need' = Tail(need) /\ UNCHANGED <<pc, at>>
         /\ ~ok => Fail
  BY DEF RefreshList
<1>2. ~panicked' /\ UNCHANGED <<cfg, inventory>> /\ need # <<>>
  BY DEF RefreshList, SettledInv
<1>3. DataDuration = 0 /\ inventory \in Inventories
  BY DEF SettledCase, PipelineInv
<1> DEFINE list == Head(need)
<1>4. /\ dcs' \in {<<>>, inventory.dcs}
      /\ ok => dcs' = inventory.dcs
      /\ ok /\ list = "ch" => clusters' = dcs' /\ Len(hosts') = Len(dcs')
      /\ ok /\ list = "nets" => nets' = dcs' /\ UNCHANGED chVars
      /\ ok /\ list = "dss" => dss' = dcs' /\ UNCHANGED <<chVars, ntVars>>
      /\ ok /\ list = "vms" => Len(vms') = Len(dcs')
      /\ hosts' = hosts \/ Len(hosts') = Len(inventory.dcs)
      /\ nets' = nets \/ Len(nets') = Len(inventory.dcs)
      /\ dss' = dss \/ Len(dss') = Len(inventory.dcs)
  BY <1>1, <1>3, Refreshed
<1>5. CASE pc = "vcenter"
  <2>1. CASE ok
    <3>1. pc' = "vcenter" /\ need' = <<>> /\ dcs' = inventory'.dcs
      BY <1>1, <1>2, <1>4, <1>5, <2>1, HeadsAndTails DEF SettledInv
    <3>2. QED
      BY <1>2, <3>1 DEF SettledInv, Late
  <2>2. CASE ~ok
    BY <1>1, <1>2, <1>5, <2>2, Ended DEF Fail
  <2>3. QED
    BY <2>1, <2>2
<1>6. CASE pc = "datacenter"
  <2>1. CASE ok
    <3>1. DatacenterStage
      BY <1>6 DEF SettledInv
    <3>2. dcs' = dcs /\ pc' = pc /\ need' = Tail(need) /\ dcs' = inventory'.dcs
      BY <1>1, <1>2, <1>4, <2>1, <3>1 DEF DatacenterStage
    <3>3. ASSUME need = <<"dcs", "ch", "nets", "dss">> PROVE DatacenterStage'
      <4>1. need' = <<"ch", "nets", "dss">>
        BY <3>2, <3>3, HeadsAndTails
      <4>2. QED
        BY <3>2, <4>1, ListsDiffer DEF DatacenterStage
    <3>4. ASSUME need = <<"ch", "nets", "dss">> PROVE DatacenterStage'
      <4>1. need' = <<"nets", "dss">> /\ clusters' = dcs' /\ Len(hosts') = Len(dcs')
        BY <1>4, <2>1, <3>2, <3>4, HeadsAndTails
      <4>2. QED
        BY <3>2, <4>1, ListsDiffer DEF DatacenterStage
    <3>5. ASSUME need = <<"nets", "dss">> PROVE DatacenterStage'
      <4>1. need' = <<"dss">> /\ nets' = dcs' /\ UNCHANGED <<clusters, hosts>>
        BY <1>4, <2>1, <3>2, <3>5, HeadsAndTails DEF chVars
      <4>2. QED
        BY <3>1, <3>2, <3>5, <4>1, ListsDiffer DEF DatacenterStage
    <3>6. ASSUME need = <<"dss">> PROVE DatacenterStage'
      <4>1. need' = <<>> /\ dss' = dcs' /\ UNCHANGED <<clusters, hosts, nets>>
        BY <1>4, <2>1, <3>2, <3>6, HeadsAndTails DEF chVars, ntVars
      <4>2. QED
        BY <3>1, <3>2, <3>6, <4>1 DEF DatacenterStage
    <3>7. DatacenterStage'
      BY <1>2, <3>1, <3>3, <3>4, <3>5, <3>6 DEF DatacenterStage
    <3>8. QED
      BY <1>2, <1>6, <3>2, <3>7 DEF SettledInv, Late
  <2>2. CASE ~ok
    BY <1>1, <1>2, <1>6, <2>2, Ended DEF Fail
  <2>3. QED
    BY <2>1, <2>2
<1>7. CASE pc \in Late
  <2>1. LateStage /\ Sized
    BY <1>7 DEF SettledInv, LateStage
  <2>2. Sized'
    BY <1>2, <1>4, <2>1 DEF Sized
  <2>3. CASE ok
    <3>1. need' = <<>> /\ UNCHANGED pc
      BY <1>1, <1>2, <2>1, <2>3, HeadsAndTails DEF LateStage, LateLists
    <3>2. pc = "vm" => list = "vms"
      BY <1>2, <2>1 DEF LateStage
    <3>3. pc = "vm" => Len(dcs') <= Len(vms')
      <4>1. Len(dcs') \in Nat
        BY <1>3, <1>4, <2>3, InventoryTyped
      <4>2. QED
        BY <1>4, <2>3, <3>2, <4>1
    <3>4. LateStage'
      BY <2>2, <3>1, <3>3 DEF LateStage, LateLists, Covers
    <3>5. QED
      BY <1>2, <1>7, <3>1, <3>4 DEF SettledInv, Late
  <2>4. CASE ~ok
    BY <1>1, <1>2, <1>7, <2>2, <2>4, FailedLate
  <2>5. QED
    BY <2>3, <2>4
<1>8. QED
  BY <1>2, <1>5, <1>6, <1>7 DEF SettledInv

LEMMA SizedCovers ==
    ASSUME IInv, PipelineInv, Sized
    PROVE  /\ Covers(clusters) /\ Covers(hosts) /\ Covers(hostStates)
           /\ Covers(nets) /\ Covers(dss)
<1>1. Len(inventory.dcs) \in Nat /\ Len(dcs) <= Len(inventory.dcs)
  BY InventoryTyped DEF PipelineInv, Sized
<1>2. QED
  BY <1>1 DEF Sized, IInv, SlicesAreParallel, Covers

LEMMA DatacenterInfoKeeps ==
    ASSUME IInv, PipelineInv, SettledInv, CollectDatacenterInfo
    PROVE  SettledInv'
<1>1. /\ pc = "datacenter" /\ need = <<>>
      /\ UNCHANGED <<dcs, clusters, hosts, nets, dss, inventory, cfg>>
  BY DEF CollectDatacenterInfo, Working, listVars, dcVars, ntVars, dsVars
<1>2. /\ dcs = inventory.dcs /\ clusters = dcs /\ nets = dcs /\ dss = dcs
      /\ Len(hosts) = Len(dcs)
  BY <1>1 DEF SettledInv, DatacenterStage
<1>3. Sized /\ Sized'
  BY <1>1, <1>2 DEF Sized
<1>4. Proceed /\ UNCHANGED panicked
  BY <1>3, SizedCovers DEF CollectDatacenterInfo
<1>5. QED
  BY <1>1, <1>3, <1>4, WentOnLate DEF Proceed, SettledInv

LEMMA QueriesKeep ==
    ASSUME SettledInv, NEW stage \in Late, NEW slice, NEW looked,
           Queries(stage, slice, looked), Covers(slice), Covers(looked)
    PROVE  SettledInv'
<1>1. /\ pc \in Late
      /\ UNCHANGED <<dcs, hosts, nets, dss, vms, cfg, inventory>>
  BY DEF Queries, Working, listVars, dcVars, ntVars, dsVars, vmVars
<1>2. (Proceed \/ Fail) /\ UNCHANGED panicked
  BY DEF Queries
<1>3. QED
  BY <1>1, <1>2, Looping

LEMMA LoopsKeep ==
    ASSUME SettledInv,
           \/ CollectHostInfo \/ ReportHostEsxcliResponse
           \/ \E stage \in EsxcliStages, looks \in BOOLEAN, filtered \in {Selected, Hosts} :
                 EsxcliLoop(stage, filtered, looks)
    PROVE  SettledInv'
<1>1. EsxcliStages \subseteq Late
  BY DEF EsxcliStages, Late
<1>2. pc \in Late /\ UNCHANGED <<listVars, panicked, cfg, inventory>>
  BY <1>1 DEF CollectHostInfo, ReportHostEsxcliResponse, EsxcliLoop, Working, Late
<1>3. UNCHANGED <<dcs, hosts, nets, dss, vms>>
  BY <1>2 DEF listVars, dcVars, ntVars, dsVars, vmVars
<1>4. Fail \/ UNCHANGED <<pc, need>>
  BY DEF CollectHostInfo, ReportHostEsxcliResponse, EsxcliLoop, NextHost, NextDatacenter
<1>5. QED
  BY <1>2, <1>3, <1>4, Looping

LEMMA OthersKeep ==
    ASSUME IInv, PipelineInv, SettledInv, EndLoop \/ ResetTimes \/ SelfMetrics
    PROVE  SettledInv'
<1>1. pc \in Late /\ UNCHANGED <<listVars, cfg, inventory>>
  BY DEF EndLoop, ResetTimes, SelfMetrics, Working, Late, EsxcliStages
<1>2. UNCHANGED <<dcs, hosts, nets, dss, vms>>
  BY <1>1 DEF listVars, dcVars, ntVars, dsVars, vmVars
<1>3. Covers(hosts) /\ Covers(hostStates)
  BY <1>1, SizedCovers DEF SettledInv, LateStage
<1>4. Proceed /\ UNCHANGED panicked
  <2>1. CASE EndLoop
    <3>1. Len(dcs) \in Nat /\ Len(hosts) \in Nat /\ at[1] \in Nat
      BY DEF IInv, CacheTypeOK, PipelineInv
    <3>2. PastDatacenters
      BY <1>3, <2>1, <3>1 DEF EndLoop, AtDatacenter, PastDatacenters, Covers
    <3>3. QED
      BY <2>1, <3>2 DEF EndLoop
  <2>2. CASE ResetTimes
    BY <1>3, <2>2 DEF ResetTimes, ResetResponseTimes, SettledInv
  <2>3. CASE SelfMetrics
    BY <1>3, <2>3 DEF SelfMetrics
  <2>4. QED
    BY <2>1, <2>2, <2>3
<1>5. QED
  BY <1>1, <1>2, <1>4, Looping

\* What the first two stages ask the cache for.
LEMMA FirstLists ==
    Lists("vcenter") = <<"dcs">> /\ Lists("datacenter") = <<"dcs", "ch", "nets", "dss">>
BY DEF Lists, EntityLists, EsxcliStages

\* The steps from and to idle, and what happens to the plugin.
LEMMA OutsideKeeps ==
    ASSUME SettledCase, SettledInv,
           \/ BeginGather \/ InventoryChanges \/ TimePasses \/ ContextExpires
           \/ CollectVcenterInfo \/ Return \/ UNCHANGED vars
    PROVE  SettledInv'
<1>1. CASE BeginGather
  <2>1. pc' = "vcenter" /\ need' = <<"dcs">> /\ UNCHANGED <<panicked, cfg>>
    BY <1>1, FirstLists DEF BeginGather, Enter, cacheVars
  <2>2. QED
    BY <2>1 DEF SettledInv, Late
<1>2. CASE Return
  <2>1. pc' = "idle" /\ need' = <<>> /\ UNCHANGED <<panicked, cfg>>
    BY <1>2 DEF Return, Enter, Lists, EsxcliStages, cacheVars
  <2>2. QED
    BY <2>1 DEF SettledInv, Late
<1>3. CASE CollectVcenterInfo
  <2>1. /\ pc = "vcenter" /\ need = <<>> /\ UNCHANGED <<panicked, cfg, inventory, dcs>>
        /\ Enter(Following("vcenter"))
    BY <1>3 DEF CollectVcenterInfo, Working, Proceed, cacheVars, dcVars
  <2>2. cfg \cap {"cluster", "host"} # {} /\ dcs = inventory.dcs
    BY <2>1, ListsDiffer DEF SettledCase, SettledInv
  <2>3. pc' = "datacenter" /\ need' = <<"dcs", "ch", "nets", "dss">>
    BY <2>1, <2>2, DatacenterFollows, FirstLists DEF Enter
  <2>4. DatacenterStage'
    BY <2>1, <2>2, <2>3, ListsDiffer DEF DatacenterStage
  <2>5. QED
    BY <2>1, <2>3, <2>4 DEF SettledInv, Late
<1>4. CASE InventoryChanges
  <2>1. pc = "idle" /\ UNCHANGED <<panicked, cfg, pc, need>>
    BY <1>4 DEF InventoryChanges, SettledCase, cacheVars
  <2>2. QED
    BY <2>1 DEF SettledInv, Late
<1>5. CASE TimePasses \/ ContextExpires \/ UNCHANGED vars
  <2>1. UNCHANGED <<panicked, cfg, pc, need, inventory, dcs, clusters, hosts, nets, dss, vms>>
    BY <1>5 DEF TimePasses, Tick, ContextExpires, vars, gatherVars, cacheVars, dcVars, chVars,
                ntVars, dsVars, vmVars
  <2>2. DatacenterStage => DatacenterStage'
    BY <2>1 DEF DatacenterStage
  <2>3. LateStage => LateStage'
    BY <2>1 DEF LateStage, Sized, Covers
  <2>4. QED
    BY <2>1, <2>2, <2>3 DEF SettledInv
<1>6. QED
  BY <1>1, <1>2, <1>3, <1>4, <1>5

LEMMA SettledStays ==
    ASSUME SettledCase, IInv, PipelineInv, SettledInv, [GatherNext]_vars
    PROVE  SettledInv'
<1>1. CASE \/ BeginGather \/ InventoryChanges \/ TimePasses \/ ContextExpires
           \/ CollectVcenterInfo \/ Return \/ UNCHANGED vars
  BY <1>1, OutsideKeeps
<1>2. CASE RefreshList
  BY <1>2, RefreshKeepsSettled
<1>3. CASE CollectDatacenterInfo
  BY <1>3, DatacenterInfoKeeps
<1>4. CASE \/ CollectClusterInfo \/ CollectHostServices \/ CollectNetDVS
           \/ CollectNetDVP \/ CollectDatastoresInfo \/ CollectVmsInfo
  <2>1. pc \in Late /\ need = <<>>
    BY <1>4 DEF CollectClusterInfo, CollectHostServices, CollectNetDVS, CollectNetDVP,
                CollectDatastoresInfo, CollectVmsInfo, Queries, Working, Late
  <2>2. /\ Covers(clusters) /\ Covers(hosts) /\ Covers(nets) /\ Covers(dss)
        /\ pc = "vm" => Covers(vms)
    BY <2>1, SizedCovers, ListsDiffer DEF SettledInv, LateStage
  <2>3. CASE CollectVmsInfo
    <3>1. pc = "vm"
      BY <2>3 DEF CollectVmsInfo, Queries, Working
    <3>2. QED
      BY <2>2, <2>3, <3>1, QueriesKeep DEF CollectVmsInfo, Late
  <2>4. CASE \/ CollectClusterInfo \/ CollectHostServices \/ CollectNetDVS
             \/ CollectNetDVP \/ CollectDatastoresInfo
    BY <2>2, <2>4, QueriesKeep
    DEF CollectClusterInfo, CollectHostServices, CollectNetDVS, CollectNetDVP,
        CollectDatastoresInfo, Late
  <2>5. QED
    BY <1>4, <2>3, <2>4
<1>5. CASE \/ CollectHostInfo \/ ReportHostEsxcliResponse \/ CollectHostHBA
           \/ CollectHostNIC \/ CollectHostFw \/ CollectHostGraphics
  BY <1>5, LoopsKeep
  DEF CollectHostHBA, CollectHostNIC, CollectHostFw, CollectHostGraphics, EsxcliStages
<1>6. CASE EndLoop \/ ResetTimes \/ SelfMetrics
  BY <1>6, OthersKeep
<1>7. QED
  BY <1>1, <1>2, <1>3, <1>4, <1>5, <1>6 DEF GatherNext, PluginStep

-----------------------------------------------------------------------------
LEMMA SettledInvariant == ASSUME SettledCase PROVE GatherSpec => []SettledInv
<1>1. GatherInit => IInv /\ PipelineInv /\ SettledInv
  BY InitEstablishes DEF GatherInit, CacheInit, PipelineInv, SettledInv, Late
<1>2. /\ IInv /\ PipelineInv /\ SettledInv /\ [GatherNext]_vars
            => IInv' /\ PipelineInv' /\ SettledInv'
  BY SettledCase, SettledStays, StepIsCollectors, CollectorStepPreserves DEF Good
<1>3. QED
  BY <1>1, <1>2, PTL DEF GatherSpec

\* No index is out of range in a gather of the hosts or the clusters, although
\* each stage refreshes other lists than it indexes, and a refresh may fail.
THEOREM GathersDoNotPanic == ASSUME SettledCase PROVE GatherSpec => []NoPanic
<1>1. SettledInv => NoPanic
  BY DEF SettledInv, NoPanic
<1>2. QED
  BY <1>1, SettledCase, SettledInvariant, PTL

\* CollectDatacenterInfo counts what was listed from the datacenter it names.
THEOREM CountsOfDatacenters ==
    ASSUME SettledCase PROVE GatherSpec => []CountsAreAttributed
<1>1. SettledInv => CountsAreAttributed
  BY DEF SettledInv, DatacenterStage, CountsAreAttributed
<1>2. QED
  BY <1>1, SettledCase, SettledInvariant, PTL
===============================================================================
