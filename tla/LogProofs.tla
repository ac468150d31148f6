------------------------------ MODULE LogProofs -------------------------------
(***************************************************************************)
(* Proofs about what one gather does to each host: how many esxcli         *)
(* commands it sends it, in which state it finds it and what it reports.   *)
(* The log of Gather knows a host by its name and the code by its position *)
(* in slices, so every proof here says at which position a loop is, which  *)
(* hosts are still ahead of it, and that no host is at two positions.      *)
(***************************************************************************)
EXTENDS SettledProofs

(***************************************************************************)
(* The types of the pipeline.  Only the bound of log[h].runs is difficult: *)
(* a host is sent at most one command by each of four stages, since it is  *)
(* listed once.  This does not depend on the durations, nor on when the    *)
(* inventory changes.                                                      *)
(***************************************************************************)
Stages == {Pipeline[k] : k \in DOMAIN Pipeline} \cup {"return", "idle", "panic"}

\* The esxcli stages before the given one, or all when they are over.
Before(stage) ==
    CASE stage \in {"idle", "vcenter", "datacenter", "cluster", "host", "reset", "hba"} -> 0
      [] stage = "nic"      -> 1
      [] stage = "fw"       -> 2
      [] stage = "graphics" -> 3
      [] OTHER              -> 4

ListedOnce ==
    \A i, k \in DOMAIN hosts : \A j \in DOMAIN hosts[i], m \in DOMAIN hosts[k] :
        hosts[i][j] = hosts[k][m] => i = k /\ j = m

\* An esxcli loop is running: its stage refreshes nothing any more.
InCommands == pc \in EsxcliStages /\ need = <<>>

\* The loop has yet to come to this position.
Ahead(i, j) == at[1] < i \/ (at[1] = i /\ at[2] <= j)

LogTypes == [Hosts -> [down : BOOLEAN, runs : Nat, failed : BOOLEAN, code : {0, 1, 2, None}]]

PcTypes ==
    /\ cfg \in Configs
    /\ pc \in Stages
    /\ need \in Seq({"dcs", "ch", "nets", "dss", "vms"})
    /\ at \in (Nat \ {0}) \X (Nat \ {0})
    /\ expired \in BOOLEAN
    /\ log \in LogTypes

RunsInv ==
    /\ \A h \in Hosts : log[h].runs <= Before(pc) + (IF InCommands THEN 1 ELSE 0)
    /\ InCommands => \A i \in DOMAIN hosts : \A j \in DOMAIN hosts[i] :
                        Ahead(i, j) => log[hosts[i][j]].runs <= Before(pc)

\* What is fresh, or has been refreshed for a loop, is one complete listing.
OnceInv ==
    /\ dcs = <<>> \/ \E v \in Inventories : dcs = v.dcs
    /\ pc \in EsxcliStages => need \in {<<>>, <<"ch">>}
    /\ Fresh(lastCHUpdate) \/ InCommands => ListedOnce

TypesInv == PcTypes /\ OnceInv /\ RunsInv

-----------------------------------------------------------------------------
(***************************************************************************)
(* The order of the stages                                                 *)
(***************************************************************************)
LEMMA StagesInOrder ==
    /\ \A k \in 1..16 : Before(Pipeline[k]) = IF k <= 6 THEN 0
                                              ELSE IF k >= 10 THEN 4 ELSE k - 6
    /\ \A k, m \in 1..16 : Pipeline[k] = Pipeline[m] => k = m
    /\ \A k \in 1..16 : Pipeline[k] \in EsxcliStages <=> k \in 6..9
    /\ Before("return") = 4 /\ Before("panic") = 4 /\ Before("idle") = 0
  BY DEF Before, Pipeline, EsxcliStages

\* Following goes on to a later stage, or to the end.
LEMMA LaterFollows ==
    ASSUME NEW p \in 1..16
    PROVE  \/ Following(Pipeline[p]) = "return"
           \/ \E k \in p + 1 .. 16 : Following(Pipeline[p]) = Pipeline[k] /\ Enabled(Pipeline[k])
<1> DEFINE place == CHOOSE k \in DOMAIN Pipeline : Pipeline[k] = Pipeline[p]
           later == {k \in DOMAIN Pipeline : k > place /\ Enabled(Pipeline[k])}
           first == CHOOSE k \in later : \A other \in later : k <= other
<1>1. place = p
  BY Places, StagesInOrder
<1> HIDE DEF place
<1>2. \A k \in later : k \in p + 1 .. 16 /\ Enabled(Pipeline[k])
  BY <1>1, Places
<1> HIDE DEF later
<1>3. CASE later # {}
  <2>1. \A k \in later : k \in Nat
    BY <1>2
  <2>2. \E k \in later : \A other \in later : k <= other
    <3>1. PICK k \in later : \A other \in later : <<other, k>> \notin OpToRel(<, Nat)
      BY <1>3, <2>1, WFMin, NatLessThanWellFounded, Zenon
    <3>2. \A other \in later : ~(other < k)
      BY <2>1, <3>1, Zenon DEF OpToRel
    <3>3. QED
      BY <2>1, <3>2
  <2>3. first \in later
    BY <2>2
  <2>4. Following(Pipeline[p]) = Pipeline[first]
    BY <1>3, Zenon DEF Following, later, place
  <2>5. QED
    BY <1>2, <2>3, <2>4, Zenon
<1>4. CASE later = {}
  BY <1>4, Zenon DEF Following, later, place
<1>5. QED
  BY <1>3, <1>4

LEMMA BeforeIsNat == \A stage : Before(stage) \in 0..4
  BY DEF Before

\* A stage sends its commands before those that follow it.
LEMMA BeforeGrows ==
    ASSUME NEW stage \in Stages \ {"return", "idle", "panic"}
    PROVE  /\ Following(stage) \in Stages \ {"idle", "panic"}
           /\ Before(stage) <= Before(Following(stage))
           /\ stage \in EsxcliStages => Before(stage) + 1 <= Before(Following(stage))
<1>1. PICK p \in 1..16 : Pipeline[p] = stage
  BY Places DEF Stages
<1>2. \A k \in 1..16 : Pipeline[k] \in Stages \ {"idle", "panic"}
  BY Places DEF Stages, Late
<1>3. CASE Following(stage) = "return"
  <2>1. "return" \in Stages \ {"idle", "panic"}
    BY DEF Stages
  <2>2. Before(stage) <= 4 /\ (stage \in EsxcliStages => Before(stage) + 1 <= 4)
    BY <1>1, StagesInOrder
  <2>3. QED
    BY <1>3, <2>1, <2>2, StagesInOrder
<1>4. CASE \E k \in p + 1 .. 16 : Following(stage) = Pipeline[k]
  <2>1. PICK k \in p + 1 .. 16 : Following(stage) = Pipeline[k]
    BY <1>4
  <2>2. /\ Before(stage) <= Before(Pipeline[k])
        /\ stage \in EsxcliStages => Before(stage) + 1 <= Before(Pipeline[k])
    BY <1>1, StagesInOrder
  <2>3. QED
    BY <1>2, <2>1, <2>2
<1>5. QED
  BY <1>1, <1>3, <1>4, LaterFollows

LEMMA EnteredTyped ==
    ASSUME NEW stage \in Stages, Enter(stage)
    PROVE  /\ pc' = stage /\ pc' \in Stages
           /\ need' \in Seq({"dcs", "ch", "nets", "dss", "vms"})
           /\ at' \in (Nat \ {0}) \X (Nat \ {0})
           /\ pc' \in EsxcliStages => need' = <<"ch">>
           /\ ~InCommands'
<1>1. /\ Lists(stage) \in Seq({"dcs", "ch", "nets", "dss", "vms"})
      /\ stage \in EsxcliStages => Lists(stage) = <<"ch">>
  <2>1. /\ <<>> \in Seq({"dcs", "ch", "nets", "dss", "vms"})
        /\ \A x \in {"dcs", "ch", "nets", "dss", "vms"} :
              <<x>> \in Seq({"dcs", "ch", "nets", "dss", "vms"})
        /\ <<"dcs", "ch", "nets", "dss">> \in Seq({"dcs", "ch", "nets", "dss", "vms"})
    OBVIOUS
  <2>2. Lists(stage) \in {<<"dcs">>, <<"dcs", "ch", "nets", "dss">>, <<"nets">>, <<"dss">>,
                          <<"vms">>, <<"ch">>, <<>>}
    BY Zenon DEF Lists, EntityLists
  <2>3. stage \in EsxcliStages => Lists(stage) = <<"ch">>
    BY DEF Lists, EsxcliStages
  <2>4. QED
    BY <2>1, <2>2, <2>3
<1>2. <<"ch">> # <<>>
  OBVIOUS
<1>3. <<1, 1>> \in (Nat \ {0}) \X (Nat \ {0})
  OBVIOUS
<1>4. pc' = stage /\ need' = Lists(stage) /\ at' = <<1, 1>>
  BY DEF Enter
<1>5. stage \in EsxcliStages => need' = <<"ch">>
  BY <1>1, <1>4
<1>6. ~InCommands'
  BY <1>2, <1>4, <1>5 DEF InCommands
<1>7. QED
  BY <1>1, <1>3, <1>4, <1>6

-----------------------------------------------------------------------------
(***************************************************************************)
(* The refreshes                                                           *)
(***************************************************************************)
LEMMA DatacentersOfInventory ==
    ASSUME OnceInv, NEW v \in Inventories, NEW ok \in BOOLEAN, getDatacenters(v, ok)
    PROVE  dcs' = <<>> \/ \E w \in Inventories : dcs' = w.dcs
  BY DEF OnceInv, getDatacenters, dcVars

\* The loop of getAllDatacentersClustersAndHosts, when nothing in it fails.
LEMMA CompleteListing ==
    ASSUME NEW v \in Inventories, NEW ds \in Seq(Datacenters), NEW e,
           e.at = Len(ds) + 1, ListClustersAndHosts(v, ds, e)
    PROVE  /\ hosts' = [i \in 1..Len(ds) |-> v.hosts[ds[i]]]
           /\ \A i \in 1..Len(ds) : v.hosts[ds[i]] # <<>>
<1> DEFINE n       == Len(ds)
           resized == n # Len(clusters) \/ n # Len(hosts)
           old     == IF resized THEN [i \in 1..n |-> <<>>] ELSE hosts
           found   == [i \in 1..n |-> v.hosts[ds[i]]]
           hosts1  == [i \in 1..n |-> IF i < e.at THEN found[i]
                                      ELSE IF i = e.at /\ e.on = "hosts" THEN <<>>
                                      ELSE old[i]]
<1>1. (\A i \in 1..n : i < e.at => found[i] # <<>>) /\ hosts' = hosts1
  BY Zenon DEF ListClustersAndHosts
<1>2. \A i \in 1..n : i < e.at
  OBVIOUS
<1>3. \A i \in 1..n : found[i] = v.hosts[ds[i]]
  OBVIOUS
<1> HIDE DEF old
<1>4. hosts1 = [i \in 1..n |-> v.hosts[ds[i]]]
  BY <1>2, <1>3
<1>5. QED
  BY <1>1, <1>2, <1>3, <1>4, Zenon

\* No host is at two positions of one listing, even if the datacenters are those
\* of another inventory.
LEMMA ListingIsOnce ==
    ASSUME NEW v \in Inventories, NEW ds \in Seq(Datacenters),
           ds = <<>> \/ \E w \in Inventories : ds = w.dcs,
           NEW list, list = [i \in 1..Len(ds) |-> v.hosts[ds[i]]],
           NEW i \in DOMAIN list, NEW k \in DOMAIN list,
           NEW j \in DOMAIN list[i], NEW m \in DOMAIN list[k], list[i][j] = list[k][m]
    PROVE  i = k /\ j = m
<1>1. i \in 1..Len(ds) /\ k \in 1..Len(ds)
  OBVIOUS
<1>2. list[i] = v.hosts[ds[i]] /\ list[k] = v.hosts[ds[k]]
  BY <1>1
<1>3. PICK a \in Datacenters, b \in Datacenters : a = ds[i] /\ b = ds[k]
  BY <1>1
<1>4. a = b /\ j = m
  BY <1>2, <1>3, ListedOnceAssumption
<1>5. ds[i] = ds[k] => i = k
  BY <1>1, ListedOnceAssumption
<1>6. QED
  BY <1>3, <1>4, <1>5

\* After a complete refresh no host is at two positions.
LEMMA RefreshedOnce ==
    ASSUME IInv, OnceInv, NEW v \in Inventories, NEW ok \in BOOLEAN,
           getAllDatacentersClustersAndHosts(v, ok)
    PROVE  /\ dcs' = <<>> \/ \E w \in Inventories : dcs' = w.dcs
           /\ ok \/ Fresh(lastCHUpdate)' => ListedOnce'
<1>1. CASE Fresh(lastCHUpdate) /\ UNCHANGED <<dcVars, chVars>>
  BY <1>1 DEF OnceInv, dcVars, chVars, ListedOnce, Fresh
<1>2. CASE ~Fresh(lastCHUpdate) /\ ~ok /\ getDatacenters(v, FALSE) /\ UNCHANGED chVars
  BY <1>2, DatacentersOfInventory DEF chVars, Fresh
<1>3. CASE /\ ~Fresh(lastCHUpdate)
           /\ getDatacenters(v, TRUE)
           /\ \E e \in Endings(Len(dcs')) :
                 ok = (e.on = "nil") /\ ListClustersAndHosts(v, dcs', e)
  <2>1. dcs' = <<>> \/ \E w \in Inventories : dcs' = w.dcs
    BY <1>3, DatacentersOfInventory
  <2>2. dcs' \in Seq(Datacenters)
    BY <1>3, DatacentersListed DEF IInv
  <2>3. PICK e \in Endings(Len(dcs')) :
           ok = (e.on = "nil") /\ ListClustersAndHosts(v, dcs', e)
    BY <1>3
  <2>4. CASE e.on = "nil"
    <3>1. e.at = Len(dcs') + 1
      BY <2>4 DEF Endings
    <3>2. hosts' = [i \in 1..Len(dcs') |-> v.hosts[dcs'[i]]]
      BY <2>2, <2>3, <3>1, CompleteListing
    <3>3. ListedOnce'
      BY <2>1, <2>2, <3>2, ListingIsOnce DEF ListedOnce
    <3>4. QED
      BY <2>1, <3>3
  <2>5. CASE e.on # "nil"
    <3>1. ~ok /\ lastCHUpdate' = lastCHUpdate
      BY <2>2, <2>3, <2>5, HostsListed
    <3>2. QED
      BY <1>3, <2>1, <3>1 DEF Fresh
  <2>6. QED
    BY <2>4, <2>5
<1>4. QED
  BY <1>1, <1>2, <1>3, Zenon DEF getAllDatacentersClustersAndHosts

-----------------------------------------------------------------------------
(***************************************************************************)
(* The steps                                                               *)
(***************************************************************************)
\* The state of the lists that a loop of commands relies on.
ListsKnown ==
    /\ dcs = <<>> \/ \E v \in Inventories : dcs = v.dcs
    /\ Fresh(lastCHUpdate) => ListedOnce

LEMMA KnownLists ==
    ASSUME OnceInv, UNCHANGED <<dcs, hosts, lastCHUpdate>>
    PROVE  ListsKnown'
  BY DEF OnceInv, ListsKnown, ListedOnce, Fresh

\* A gather that enters a stage begins no loop yet.
LEMMA EnteredStage ==
    ASSUME NEW stage \in Stages, Enter(stage), ListsKnown', cfg' \in Configs,
           expired' \in BOOLEAN, log' \in LogTypes,
           \A h \in Hosts : log'[h].runs <= Before(stage)
    PROVE  TypesInv'
<1>1. /\ pc' = stage /\ PcTypes' /\ ~InCommands'
      /\ pc' \in EsxcliStages => need' = <<"ch">>
  BY EnteredTyped DEF PcTypes
<1>2. OnceInv'
  BY <1>1 DEF OnceInv, ListsKnown
<1>3. RunsInv'
  <2>1. \A h \in Hosts : log'[h].runs \in Nat
    BY DEF LogTypes
  <2>2. \A h \in Hosts : log'[h].runs <= Before(pc')
    BY <1>1
  <2>3. QED
    BY <1>1, <2>1, <2>2, BeforeIsNat DEF RunsInv
<1>4. QED
  BY <1>1, <1>2, <1>3 DEF TypesInv

\* A stage is over: the gather goes on to the one that follows, or ends.
LEMMA LeftStage ==
    ASSUME TypesInv, ListsKnown', pc \notin {"return", "idle", "panic"},
           NEW stage \in {Following(pc), "return", "panic"}, Enter(stage),
           cfg' \in Configs, expired' \in BOOLEAN, log' \in LogTypes,
           \A h \in Hosts : log'[h].runs <= Before(pc) + (IF pc \in EsxcliStages THEN 1 ELSE 0)
    PROVE  TypesInv'
<1>1. pc \in Stages \ {"return", "idle", "panic"}
  BY DEF TypesInv, PcTypes
<1>2. stage \in Stages
  BY <1>1, BeforeGrows DEF Stages
<1>3. Before(pc) + (IF pc \in EsxcliStages THEN 1 ELSE 0) <= Before(stage)
  <2>1. /\ Before(pc) <= Before(Following(pc))
        /\ pc \in EsxcliStages => Before(pc) + 1 <= Before(Following(pc))
    BY <1>1, BeforeGrows
  <2>2. Before("return") = 4 /\ Before("panic") = 4
    BY StagesInOrder
  <2>3. Before(Following(pc)) \in 0..4 /\ Before(pc) \in 0..4
    BY BeforeIsNat
  <2>4. QED
    BY <2>1, <2>2, <2>3
<1>4. \A h \in Hosts : log'[h].runs <= Before(stage)
  <2>1. \A h \in Hosts : log'[h].runs \in Nat
    BY DEF LogTypes
  <2>2. Before(stage) \in 0..4 /\ Before(pc) \in 0..4
    BY BeforeIsNat
  <2>3. QED
    BY <1>3, <2>1, <2>2
<1>5. QED
  BY <1>2, <1>4, EnteredStage

\* The number of commands when a stage that sends none is over.
LEMMA RunsOfStage ==
    ASSUME TypesInv
    PROVE  \A h \in Hosts :
              /\ log[h].runs \in Nat
              /\ log[h].runs <= Before(pc) + (IF pc \in EsxcliStages THEN 1 ELSE 0)
              /\ ~InCommands => log[h].runs <= Before(pc)
<1>1. \A h \in Hosts : log[h].runs \in Nat
  BY DEF TypesInv, PcTypes, LogTypes
<1>2. InCommands => pc \in EsxcliStages
  BY DEF InCommands
<1>3. QED
  BY <1>1, <1>2, BeforeIsNat DEF TypesInv, RunsInv

\* Nothing but the age of the lists, the context or the inventory changes.
LEMMA StayedInStage ==
    ASSUME TypesInv, UNCHANGED <<pc, need, at, dcs, hosts, cfg, log>>, expired' \in BOOLEAN,
           Fresh(lastCHUpdate)' => Fresh(lastCHUpdate)
    PROVE  TypesInv'
<1>1. PcTypes'
  BY DEF TypesInv, PcTypes
<1>2. OnceInv' /\ RunsInv'
  BY DEF TypesInv, OnceInv, RunsInv, InCommands, ListedOnce, Ahead
<1>3. QED
  BY <1>1, <1>2 DEF TypesInv

LEMMA OutsideKeepsTypes ==
    ASSUME IInv, TypesInv,
           \/ BeginGather \/ InventoryChanges \/ TimePasses \/ ContextExpires
           \/ Return \/ UNCHANGED vars
    PROVE  TypesInv'
<1>1. CASE BeginGather
  <2>1. /\ pc = "idle" /\ Enter("vcenter") /\ UNCHANGED <<cfg, expired, log>>
        /\ UNCHANGED <<dcs, hosts, lastCHUpdate>>
    BY <1>1 DEF BeginGather, cacheVars, dcVars, chVars
  <2>2. ListsKnown'
    BY <2>1, KnownLists DEF TypesInv
  <2>3. "vcenter" \in Stages /\ "vcenter" = Pipeline[1]
    BY Places DEF Stages
  <2>4. Before("vcenter") = 0 /\ Before("idle") = 0 /\ pc \notin EsxcliStages
    BY <2>1 DEF Before, EsxcliStages
  <2>5. \A h \in Hosts : log'[h].runs <= Before("vcenter")
    BY <2>1, <2>4, RunsOfStage
  <2>6. cfg' \in Configs /\ expired' \in BOOLEAN /\ log' \in LogTypes
    BY <2>1 DEF TypesInv, PcTypes
  <2>7. QED
    BY <2>1, <2>2, <2>3, <2>5, <2>6, EnteredStage
<1>2. CASE Return
  <2>1. /\ Enter("idle") /\ UNCHANGED <<cfg, dcs, hosts, lastCHUpdate>>
        /\ expired' = FALSE /\ log' = NoLog
    BY <1>2 DEF Return, cacheVars, dcVars, chVars
  <2>2. ListsKnown'
    BY <2>1, KnownLists DEF TypesInv
  <2>3. log' \in LogTypes /\ \A h \in Hosts : log'[h].runs = 0
    BY <2>1 DEF NoLog, LogTypes
  <2>4. Before("idle") = 0 /\ "idle" \in Stages
    BY DEF Before, Stages
  <2>5. \A h \in Hosts : log'[h].runs <= Before("idle")
    BY <2>3, <2>4
  <2>6. cfg' \in Configs /\ expired' \in BOOLEAN
    BY <2>1 DEF TypesInv, PcTypes
  <2>7. QED
    BY <2>1, <2>2, <2>3, <2>4, <2>5, <2>6, EnteredStage
<1>3. CASE InventoryChanges \/ TimePasses \/ ContextExpires \/ UNCHANGED vars
  <2>1. /\ UNCHANGED <<pc, need, at, dcs, hosts, cfg, log>>
        /\ expired' \in BOOLEAN
    BY <1>3 DEF InventoryChanges, TimePasses, Tick, ContextExpires, vars, gatherVars, cacheVars,
                dcVars, chVars, TypesInv, PcTypes
  <2>2. Fresh(lastCHUpdate)' => Fresh(lastCHUpdate)
    <3>1. lastCHUpdate' \in {lastCHUpdate, Older(lastCHUpdate)}
      BY <1>3 DEF InventoryChanges, TimePasses, Tick, ContextExpires, vars, cacheVars, chVars
    <3>2. QED
      BY <3>1 DEF Fresh, Older, IInv, CacheTypeOK, Ages
  <2>3. QED
    BY <2>1, <2>2, StayedInStage
<1>4. QED
  BY <1>1, <1>2, <1>3

LEMMA EndedKeepsTypes ==
    ASSUME TypesInv, pc \notin {"return", "idle", "panic"}, Proceed \/ Fail \/ Enter("panic"),
           UNCHANGED <<dcs, hosts, lastCHUpdate, cfg, expired>>, log' \in LogTypes,
           \A h \in Hosts : log'[h].runs <= Before(pc) + (IF pc \in EsxcliStages THEN 1 ELSE 0)
    PROVE  TypesInv'
<1>1. \E stage \in {Following(pc), "return", "panic"} : Enter(stage)
  BY DEF Proceed, Fail
<1>2. ListsKnown' /\ cfg' \in Configs /\ expired' \in BOOLEAN
  BY KnownLists DEF TypesInv, PcTypes
<1>3. QED
  BY <1>1, <1>2, LeftStage

\* The stages without a loop, and the end of a loop.
LEMMA EndingKeepsTypes ==
    ASSUME TypesInv,
           \/ CollectVcenterInfo \/ CollectDatacenterInfo \/ EndLoop \/ ResetTimes \/ SelfMetrics
           \/ \E stage \in {"cluster", "services", "dvs", "dvp", "datastore", "vm"} : \E slice, looked :
                 Queries(stage, slice, looked)
    PROVE  TypesInv'
<1>1. /\ pc \notin {"return", "idle", "panic"}
      /\ Proceed \/ Fail \/ Enter("panic")
      /\ UNCHANGED <<cfg, expired, log>>
  BY DEF CollectVcenterInfo, CollectDatacenterInfo, EndLoop, ResetTimes, SelfMetrics, Queries,
         Panic, Working, EsxcliStages
<1>2. UNCHANGED <<dcs, hosts, lastCHUpdate>>
  BY DEF CollectVcenterInfo, CollectDatacenterInfo, EndLoop, ResetTimes, SelfMetrics, Queries,
         listVars, cacheVars, dcVars, chVars
<1>3. log' \in LogTypes
  BY <1>1 DEF TypesInv, PcTypes
<1>4. \A h \in Hosts : log'[h].runs <= Before(pc) + (IF pc \in EsxcliStages THEN 1 ELSE 0)
  BY <1>1, RunsOfStage
<1>5. QED
  BY <1>1, <1>2, <1>3, <1>4, EndedKeepsTypes

LEMMA MovedTyped ==
    ASSUME TypesInv, NextHost \/ NextDatacenter
    PROVE  at' \in (Nat \ {0}) \X (Nat \ {0}) /\ UNCHANGED <<pc, need>>
<1>1. at[1] + 1 \in Nat \ {0} /\ at[2] + 1 \in Nat \ {0} /\ at[1] \in Nat \ {0}
  BY DEF TypesInv, PcTypes
<1>2. QED
  BY <1>1 DEF NextHost, NextDatacenter

\* A loop that sends no command.
LEMMA LoopKeepsTypes ==
    ASSUME TypesInv, pc \in {"host", "report"}, NextHost \/ NextDatacenter \/ Fail,
           UNCHANGED <<dcs, hosts, lastCHUpdate, cfg, expired>>, log' \in LogTypes,
           \A h \in Hosts : log'[h].runs = log[h].runs
    PROVE  TypesInv'
<1>1. pc \notin EsxcliStages /\ ~InCommands
  BY DEF EsxcliStages, InCommands
<1>2. CASE Fail
  BY <1>1, <1>2, RunsOfStage, EndedKeepsTypes
<1>3. CASE NextHost \/ NextDatacenter
  <2>1. at' \in (Nat \ {0}) \X (Nat \ {0}) /\ UNCHANGED <<pc, need>>
    BY <1>3, MovedTyped
  <2>2. PcTypes'
    BY <2>1 DEF TypesInv, PcTypes
  <2>3. OnceInv' /\ RunsInv'
    BY <1>1, <2>1 DEF TypesInv, OnceInv, RunsInv, InCommands, ListedOnce, Fresh
  <2>4. QED
    BY <2>2, <2>3 DEF TypesInv
<1>4. QED
  BY <1>2, <1>3

LEMMA HostInfoKeepsTypes == TypesInv /\ CollectHostInfo => TypesInv'
<1> SUFFICES ASSUME TypesInv, CollectHostInfo PROVE TypesInv'
  OBVIOUS
<1>1. /\ pc = "host"
      /\ NextDatacenter \/ Fail
      /\ UNCHANGED <<dcs, hosts, lastCHUpdate, cfg, expired>>
  BY DEF CollectHostInfo, Working, listVars, dcVars
<1>2. PICK seen \in SUBSET FilteredIn(at[1]), up \in SUBSET FilteredIn(at[1]) :
         log' = [h \in Hosts |->
                    [log[h] EXCEPT !.down =
                        IF \E j \in seen : hosts[at[1]][j] = h
                        THEN \E j \in seen \ up : hosts[at[1]][j] = h
                        ELSE @]]
  <2>1. PICK seen \in SUBSET FilteredIn(at[1]) : \E up \in SUBSET seen :
           log' = [h \in Hosts |->
                      [log[h] EXCEPT !.down =
                          IF \E j \in seen : hosts[at[1]][j] = h
                          THEN \E j \in seen \ up : hosts[at[1]][j] = h
                          ELSE @]]
    BY DEF CollectHostInfo
  <2>2. SUBSET seen \subseteq SUBSET FilteredIn(at[1])
    OBVIOUS
  <2>3. QED
    BY <2>1, <2>2, Zenon
<1>3. log \in LogTypes
  BY DEF TypesInv, PcTypes
<1>4. \A h \in Hosts : (\E j \in seen \ up : hosts[at[1]][j] = h) \in BOOLEAN
  BY Zenon
<1>5. \A h \in Hosts, b \in BOOLEAN :
         /\ [log[h] EXCEPT !.down = b] \in [down : BOOLEAN, runs : Nat, failed : BOOLEAN,
                                            code : {0, 1, 2, None}]
         /\ [log[h] EXCEPT !.down = b].runs = log[h].runs
  BY <1>3 DEF LogTypes
<1>6. \A h \in Hosts : \E b \in BOOLEAN : log'[h] = [log[h] EXCEPT !.down = b]
  <2> SUFFICES ASSUME NEW h \in Hosts PROVE \E b \in BOOLEAN : log'[h] = [log[h] EXCEPT !.down = b]
    OBVIOUS
  <2>1. log[h].down \in BOOLEAN
    BY <1>3 DEF LogTypes
  <2>2. PICK b \in BOOLEAN : b = IF \E j \in seen : hosts[at[1]][j] = h
                                 THEN \E j \in seen \ up : hosts[at[1]][j] = h
                                 ELSE log[h].down
    BY <1>4, <2>1
  <2>3. log'[h] = [log[h] EXCEPT !.down = b]
    BY <1>2, <2>2, Zenon
  <2>4. QED
    BY <2>3
<1>7. log' \in LogTypes /\ \A h \in Hosts : log'[h].runs = log[h].runs
  <2>1. log' = [h \in Hosts |-> log'[h]]
    BY <1>2
  <2>2. \A h \in Hosts :
           /\ log'[h] \in [down : BOOLEAN, runs : Nat, failed : BOOLEAN, code : {0, 1, 2, None}]
           /\ log'[h].runs = log[h].runs
    BY <1>5, <1>6, Zenon
  <2>3. QED
    BY <2>1, <2>2, Zenon DEF LogTypes
<1>8. QED
  BY <1>1, <1>7, LoopKeepsTypes

LEMMA ReportKeepsTypes == TypesInv /\ ReportHostEsxcliResponse => TypesInv'
<1> SUFFICES ASSUME TypesInv, ReportHostEsxcliResponse PROVE TypesInv'
  OBVIOUS
<1>1. /\ pc = "report"
      /\ NextHost \/ NextDatacenter \/ Fail
      /\ UNCHANGED <<dcs, hosts, lastCHUpdate, cfg, expired>>
  BY DEF ReportHostEsxcliResponse, Working, listVars, dcVars
<1>2. log' = log \/ \E h, st : log' = [log EXCEPT ![h].code = RespondingCode(st)]
  BY Zenon DEF ReportHostEsxcliResponse
<1>3. \A st : RespondingCode(st) \in {0, 1, 2, None}
  BY DEF RespondingCode
<1>4. log \in LogTypes
  BY DEF TypesInv, PcTypes
<1>5. log' \in LogTypes /\ \A h \in Hosts : log'[h].runs = log[h].runs
  BY <1>2, <1>3, <1>4 DEF LogTypes
<1>6. QED
  BY <1>1, <1>5, LoopKeepsTypes

-----------------------------------------------------------------------------
\* The positions that a loop has yet to come to are fewer after each turn.
LEMMA AheadShrinks ==
    ASSUME PcTypes, NEW i \in Nat \ {0}, NEW j \in Nat \ {0}, Ahead(i, j)',
           NextHost \/ (PastHosts /\ NextDatacenter)
    PROVE  Ahead(i, j) /\ (NextHost => at[1] # i \/ at[2] # j)
<1>1. at[1] \in Nat \ {0} /\ at[2] \in Nat \ {0}
  BY DEF PcTypes
<1>2. CASE NextHost
  BY <1>1, <1>2 DEF NextHost, Ahead
<1>3. CASE NextDatacenter
  BY <1>1, <1>3 DEF NextDatacenter, Ahead, NextHost
<1>4. QED
  BY <1>2, <1>3

\* One turn of a loop of commands, at most with a command to the host it is at.
LEMMA TurnKeepsTypes ==
    ASSUME IInv, TypesInv, InCommands, NextHost \/ (PastHosts /\ NextDatacenter),
           UNCHANGED <<dcs, hosts, lastCHUpdate, cfg>>, expired' \in BOOLEAN, log' \in LogTypes,
           \/ UNCHANGED log
           \/ /\ AtHost /\ NextHost
              /\ log'[Host].runs = log[Host].runs + 1
              /\ \A h \in Hosts \ {Host} : log'[h] = log[h]
    PROVE  TypesInv'
<1>1. at' \in (Nat \ {0}) \X (Nat \ {0}) /\ UNCHANGED <<pc, need>>
  BY MovedTyped
<1>2. PcTypes'
  BY <1>1 DEF TypesInv, PcTypes
<1>3. ListedOnce
  BY DEF TypesInv, OnceInv
<1>4. OnceInv'
  BY <1>1, <1>3 DEF TypesInv, OnceInv, ListedOnce
<1>5. hosts \in Seq(Seq(Hosts))
  BY DEF IInv, CacheTypeOK
<1>6. AtHost => /\ at[1] \in DOMAIN hosts /\ at[2] \in DOMAIN hosts[at[1]] /\ Host \in Hosts
                /\ log[Host].runs <= Before(pc)
  <2> SUFFICES ASSUME AtHost
               PROVE  /\ at[1] \in DOMAIN hosts /\ at[2] \in DOMAIN hosts[at[1]] /\ Host \in Hosts
                      /\ log[Host].runs <= Before(pc)
    OBVIOUS
  <2>1. at[1] \in Nat \ {0} /\ at[2] \in Nat \ {0}
    BY DEF TypesInv, PcTypes
  <2>2. at[1] \in DOMAIN hosts /\ at[2] \in DOMAIN hosts[at[1]] /\ Host \in Hosts
    BY <1>5, <2>1 DEF AtHost, AtDatacenter, Host
  <2>3. Ahead(at[1], at[2])
    BY <2>1 DEF Ahead
  <2>4. QED
    BY <2>2, <2>3 DEF TypesInv, RunsInv, Host
<1>7. \A h \in Hosts : log[h].runs \in Nat /\ log[h].runs <= Before(pc) + 1
  BY DEF TypesInv, PcTypes, LogTypes, RunsInv
<1>8. RunsInv'
  <2>1. \A h \in Hosts : log'[h].runs <= Before(pc') + 1
    BY <1>1, <1>6, <1>7, BeforeIsNat
  <2>2. ASSUME NEW i \in DOMAIN hosts, NEW j \in DOMAIN hosts[i], Ahead(i, j)'
        PROVE  log'[hosts[i][j]].runs <= Before(pc)
    <3>1. i \in Nat \ {0} /\ j \in Nat \ {0}
      BY <1>5
    <3>2. Ahead(i, j) /\ (NextHost => at[1] # i \/ at[2] # j)
      BY <2>2, <3>1, AheadShrinks DEF TypesInv
    <3>3. hosts[i][j] \in Hosts /\ log[hosts[i][j]].runs <= Before(pc)
      BY <1>5, <3>2 DEF TypesInv, RunsInv
    <3>4. AtHost /\ NextHost => hosts[i][j] # Host
      BY <1>3, <1>6, <3>2 DEF ListedOnce, Host
    <3>5. log'[hosts[i][j]] = log[hosts[i][j]]
      BY <3>3, <3>4
    <3>6. QED
      BY <3>3, <3>5
  <2>3. InCommands'
    BY <1>1 DEF InCommands
  <2>4. QED
    BY <1>1, <2>1, <2>2, <2>3 DEF RunsInv
<1>9. QED
  BY <1>2, <1>4, <1>8 DEF TypesInv

\* What an esxcli loop writes to the log.
LEMMA CommandLogged ==
    ASSUME log \in LogTypes, NEW h \in Hosts, NEW o, log' = [log EXCEPT ![h] = Commanded(@, o)]
    PROVE  /\ log' \in LogTypes
           /\ log'[h].runs = log[h].runs + 1
           /\ log'[h].down = log[h].down /\ log'[h].code = log[h].code
           /\ \A k \in Hosts \ {h} : log'[k] = log[k]
<1>1. PICK summed : summed = [log[h] EXCEPT !.runs = @ + 1]
  OBVIOUS
<1>2. /\ summed \in [down : BOOLEAN, runs : Nat, failed : BOOLEAN, code : {0, 1, 2, None}]
      /\ summed.runs = log[h].runs + 1
      /\ summed.down = log[h].down /\ summed.code = log[h].code
  BY <1>1 DEF LogTypes
<1>3. (o \in RunFails) \in BOOLEAN
  OBVIOUS
<1>4. PICK b \in BOOLEAN : b = (o \in RunFails)
  BY <1>3
<1>5. PICK entry : entry = [summed EXCEPT !.failed = b]
  OBVIOUS
<1>6. /\ entry \in [down : BOOLEAN, runs : Nat, failed : BOOLEAN, code : {0, 1, 2, None}]
      /\ entry.runs = summed.runs
      /\ entry.down = summed.down /\ entry.code = summed.code
  BY <1>2, <1>5
<1>7. Commanded(log[h], o) = entry
  BY <1>1, <1>4, <1>5, Zenon DEF Commanded
<1>8. log' = [log EXCEPT ![h] = entry]
  BY <1>7
<1>9. QED
  BY <1>2, <1>6, <1>8 DEF LogTypes

\* What one turn of an esxcli loop does.
LEMMA CommandTurn ==
    ASSUME NEW stage, NEW filtered, NEW looks, EsxcliLoop(stage, filtered, looks),
           log \in LogTypes, AtHost => Host \in Hosts
    PROVE  \/ /\ NextHost \/ (PastHosts /\ NextDatacenter)
              /\ UNCHANGED <<hostStates, log, expired>>
           \/ /\ AtHost
              /\ \E o \in Outcomes :
                    /\ EsxcliVisit(at[1], at[2], o)
                    /\ IF o \in {"skipped", "executor"} THEN UNCHANGED log
                       ELSE /\ log' \in LogTypes
                            /\ log'[Host].runs = log[Host].runs + 1
                            /\ log'[Host].down = log[Host].down
                            /\ log'[Host].code = log[Host].code
                            /\ \A h \in Hosts \ {Host} : log'[h] = log[h]
              /\ \/ NextHost /\ UNCHANGED expired
                 \/ Fail /\ expired' \in {expired, TRUE}
<1>1. CASE PastHosts /\ NextDatacenter /\ UNCHANGED <<hostStates, log, expired>>
  BY <1>1
<1>2. CASE NextHost /\ UNCHANGED <<hostStates, log, expired>>
  BY <1>2
<1>3. CASE /\ AtHost
           /\ \E o \in Outcomes :
                /\ EsxcliVisit(at[1], at[2], o)
                /\ log' = IF o \in {"skipped", "executor"} THEN log
                          ELSE [log EXCEPT ![Host] = Commanded(@, o)]
                /\ \/ NextHost /\ UNCHANGED expired
                   \/ Fail /\ expired' \in {expired, TRUE}
  <2>1. PICK o \in Outcomes :
                /\ EsxcliVisit(at[1], at[2], o)
                /\ log' = IF o \in {"skipped", "executor"} THEN log
                          ELSE [log EXCEPT ![Host] = Commanded(@, o)]
                /\ \/ NextHost /\ UNCHANGED expired
                   \/ Fail /\ expired' \in {expired, TRUE}
    BY <1>3
  <2>2. o \notin {"skipped", "executor"} =>
           /\ log' \in LogTypes
           /\ log'[Host].runs = log[Host].runs + 1
           /\ log'[Host].down = log[Host].down /\ log'[Host].code = log[Host].code
           /\ \A h \in Hosts \ {Host} : log'[h] = log[h]
    BY <1>3, <2>1, CommandLogged
  <2>3. QED
    BY <1>3, <2>1, <2>2
<1>4. QED
  BY <1>1, <1>2, <1>3 DEF EsxcliLoop

LEMMA CommandKeepsTypes ==
    ASSUME IInv, TypesInv, NEW stage \in EsxcliStages, NEW filtered, NEW looks,
           EsxcliLoop(stage, filtered, looks)
    PROVE  TypesInv'
<1>1. /\ InCommands /\ pc \notin {"return", "idle", "panic"}
      /\ UNCHANGED <<dcs, hosts, lastCHUpdate, cfg>>
  BY DEF EsxcliLoop, Working, InCommands, EsxcliStages, listVars, dcVars
<1>2. log \in LogTypes /\ expired \in BOOLEAN /\ cfg' \in Configs
  BY <1>1 DEF TypesInv, PcTypes
<1>3. AtHost => Host \in Hosts
  <2>1. hosts \in Seq(Seq(Hosts)) /\ at[1] \in Nat \ {0} /\ at[2] \in Nat \ {0}
    BY DEF IInv, CacheTypeOK, TypesInv, PcTypes
  <2>2. QED
    BY <2>1 DEF AtHost, AtDatacenter, Host
<1>4. CASE /\ NextHost \/ (PastHosts /\ NextDatacenter)
           /\ UNCHANGED <<hostStates, log, expired>>
  BY <1>1, <1>2, <1>4, TurnKeepsTypes
<1>5. CASE /\ AtHost /\ NextHost /\ UNCHANGED expired
           /\ \/ UNCHANGED log
              \/ /\ log' \in LogTypes
                 /\ log'[Host].runs = log[Host].runs + 1
                 /\ \A h \in Hosts \ {Host} : log'[h] = log[h]
  BY <1>1, <1>2, <1>5, TurnKeepsTypes
<1>6. CASE /\ AtHost /\ Fail /\ expired' \in {expired, TRUE}
           /\ \/ UNCHANGED log
              \/ /\ log' \in LogTypes
                 /\ log'[Host].runs = log[Host].runs + 1
                 /\ \A h \in Hosts \ {Host} : log'[h] = log[h]
  <2>1. log[Host].runs <= Before(pc)
    <3>1. /\ hosts \in Seq(Seq(Hosts)) /\ at[1] \in Nat \ {0} /\ at[2] \in Nat \ {0}
      BY DEF IInv, CacheTypeOK, TypesInv, PcTypes
    <3>2. at[1] \in DOMAIN hosts /\ at[2] \in DOMAIN hosts[at[1]] /\ Ahead(at[1], at[2])
      BY <1>6, <3>1 DEF AtHost, AtDatacenter, Ahead
    <3>3. QED
      BY <1>1, <3>2 DEF TypesInv, RunsInv, Host
  <2>2. pc \in EsxcliStages /\ log' \in LogTypes /\ expired' \in BOOLEAN
    BY <1>1, <1>2, <1>6 DEF InCommands
  <2>3. \A h \in Hosts : log'[h].runs <= Before(pc) + 1
    BY <1>3, <1>6, <2>1, RunsOfStage, BeforeIsNat
  <2>4. ListsKnown'
    BY <1>1, KnownLists DEF TypesInv
  <2>5. Enter("return")
    <3>1. pc \notin {"datastore", "vm"}
      BY <2>2 DEF EsxcliStages
    <3>2. QED
      BY <1>6, <3>1 DEF Fail
  <2>6. QED
    BY <1>1, <1>2, <2>2, <2>3, <2>4, <2>5, LeftStage
<1>7. QED
  BY <1>2, <1>3, <1>4, <1>5, <1>6, CommandTurn

\* A refresh that went well, of a list that is not the hosts', keeps them.
LEMMA ListsRefreshed ==
    ASSUME IInv, OnceInv, inventory \in Inventories, NEW list, NEW ok \in BOOLEAN,
           Refresh(list, ok)
    PROVE  ListsKnown' /\ (ok /\ list = "ch" => ListedOnce')
<1>1. ASSUME NEW done \in BOOLEAN, getDatacenters(inventory, done), UNCHANGED chVars
      PROVE  ListsKnown'
  BY <1>1, DatacentersOfInventory DEF ListsKnown, OnceInv, ListedOnce, Fresh, chVars
<1>2. ASSUME UNCHANGED <<dcVars, chVars>> PROVE ListsKnown'
  BY <1>2, KnownLists DEF dcVars, chVars
<1>3. ASSUME NEW done \in BOOLEAN, getAllDatacentersClustersAndHosts(inventory, done)
      PROVE  ListsKnown' /\ (done => ListedOnce')
  BY <1>3, RefreshedOnce DEF ListsKnown
<1>4. CASE list = "dcs" /\ getDatacenters(inventory, ok) /\ UNCHANGED chVars
  BY <1>1, <1>4
<1>5. CASE list = "ch" /\ getAllDatacentersClustersAndHosts(inventory, ok)
  BY <1>3, <1>5
<1>6. CASE list = "nets" /\ getAllDatacentersNetworks(inventory, ok) /\ UNCHANGED chVars
  BY <1>1, <1>2, <1>6 DEF getAllDatacentersNetworks
<1>7. CASE list = "dss" /\ getAllDatacentersDatastores(inventory, ok) /\ UNCHANGED chVars
  BY <1>1, <1>2, <1>7 DEF getAllDatacentersDatastores
<1>8. CASE list = "vms" /\ RefreshHostsAndVMs(ok)
  BY <1>2, <1>3, <1>8 DEF RefreshHostsAndVMs, getAllDatacentersVMs
<1>9. QED
  BY <1>4, <1>5, <1>6, <1>7, <1>8, Zenon DEF Refresh

LEMMA RefreshKeepsTypes ==
    ASSUME IInv, PipelineInv, TypesInv, RefreshList
    PROVE  TypesInv'
<1>1. PICK ok \in BOOLEAN :
         /\ Refresh(Head(need), ok)
         /\ ok => need' = Tail(need) /\ UNCHANGED <<pc, at>>
         /\ ~ok => Fail
  BY DEF RefreshList
<1>2. need # <<>> /\ UNCHANGED <<panicked, cfg, inventory, expired, log>>
  BY DEF RefreshList
<1>3. ~InCommands /\ log' \in LogTypes /\ expired' \in BOOLEAN /\ cfg' \in Configs
  BY <1>2 DEF InCommands, TypesInv, PcTypes
<1>4. ListsKnown' /\ (ok /\ Head(need) = "ch" => ListedOnce')
  BY <1>1, ListsRefreshed DEF PipelineInv, TypesInv
<1>5. CASE ok
  <2>1. need' = Tail(need) /\ UNCHANGED <<pc, at>>
    BY <1>1, <1>5
  <2>2. PcTypes'
    <3>1. need' \in Seq({"dcs", "ch", "nets", "dss", "vms"})
      BY <1>2, <2>1 DEF TypesInv, PcTypes
    <3>2. QED
      BY <1>2, <2>1, <3>1 DEF TypesInv, PcTypes
  <2>3. pc \in EsxcliStages => need = <<"ch">> /\ need' = <<>> /\ Head(need) = "ch"
    BY <1>2, <2>1, HeadsAndTails DEF TypesInv, OnceInv
  <2>4. OnceInv'
    BY <1>4, <1>5, <2>1, <2>3 DEF OnceInv, ListsKnown, InCommands
  <2>5. \A h \in Hosts : log'[h].runs \in Nat /\ log'[h].runs <= Before(pc)
    BY <1>2, <1>3, RunsOfStage
  <2>6. IInv'
    BY CollectorStepPreserves, Refreshing DEF RefreshList, Good
  <2>7. \A i \in DOMAIN hosts' : \A j \in DOMAIN hosts'[i] : hosts'[i][j] \in Hosts
    BY <2>6 DEF IInv, CacheTypeOK
  <2>8. RunsInv'
    BY <2>1, <2>5, <2>7, BeforeIsNat DEF RunsInv
  <2>9. QED
    BY <2>2, <2>4, <2>8 DEF TypesInv
<1>6. CASE ~ok
  <2>1. pc \notin {"return", "idle", "panic"} \/ Enter("return")
    BY <1>1, <1>6 DEF Fail
  <2>2. CASE Enter("return")
    <3>1. \A h \in Hosts : log'[h].runs <= Before("return")
      BY <1>2, <1>3, RunsOfStage, BeforeIsNat, StagesInOrder
    <3>2. "return" \in Stages
      BY DEF Stages
    <3>3. QED
      BY <1>3, <1>4, <2>2, <3>1, <3>2, EnteredStage
  <2>3. CASE pc \in {"datastore", "vm"} /\ Enter(Following(pc))
    <3>1. \A h \in Hosts : log'[h].runs <= Before(pc) + (IF pc \in EsxcliStages THEN 1 ELSE 0)
      BY <1>2, RunsOfStage
    <3>2. QED
      BY <1>3, <1>4, <2>3, <3>1, LeftStage
  <2>4. QED
    BY <1>1, <1>6, <2>2, <2>3 DEF Fail
<1>7. QED
  BY <1>5, <1>6

LEMMA StepKeepsTypes == IInv /\ PipelineInv /\ TypesInv /\ [GatherNext]_vars => TypesInv'
<1> SUFFICES ASSUME IInv, PipelineInv, TypesInv, [GatherNext]_vars PROVE TypesInv'
  OBVIOUS
<1>1. CASE \/ BeginGather \/ InventoryChanges \/ TimePasses \/ ContextExpires
           \/ Return \/ UNCHANGED vars
  BY <1>1, OutsideKeepsTypes
<1>2. CASE RefreshList
  BY <1>2, RefreshKeepsTypes
<1>3. CASE \/ CollectVcenterInfo \/ CollectDatacenterInfo \/ EndLoop \/ ResetTimes \/ SelfMetrics
  BY <1>3, EndingKeepsTypes
<1>4. CASE \/ CollectClusterInfo \/ CollectHostServices \/ CollectNetDVS
           \/ CollectNetDVP \/ CollectDatastoresInfo \/ CollectVmsInfo
  BY <1>4, EndingKeepsTypes
  DEF CollectClusterInfo, CollectHostServices, CollectNetDVS, CollectNetDVP,
      CollectDatastoresInfo, CollectVmsInfo
<1>5. CASE CollectHostHBA \/ CollectHostNIC \/ CollectHostFw \/ CollectHostGraphics
  BY <1>5, CommandKeepsTypes
  DEF CollectHostHBA, CollectHostNIC, CollectHostFw, CollectHostGraphics, EsxcliStages
<1>6. CASE CollectHostInfo \/ ReportHostEsxcliResponse
  BY <1>6, HostInfoKeepsTypes, ReportKeepsTypes
<1>7. QED
  BY <1>1, <1>2, <1>3, <1>4, <1>5, <1>6 DEF GatherNext, PluginStep

LEMMA TypesInvariant == GatherSpec => [](IInv /\ PipelineInv /\ TypesInv)
<1>1. GatherInit => IInv /\ PipelineInv
  BY InitEstablishes DEF GatherInit, CacheInit, PipelineInv
<1>2. GatherInit => TypesInv
  <2> SUFFICES ASSUME GatherInit PROVE TypesInv
    OBVIOUS
  <2>1. /\ pc = "idle" /\ need = <<>> /\ at = <<1, 1>> /\ expired = FALSE /\ log = NoLog
        /\ cfg \in Configs /\ dcs = <<>> /\ hosts = <<>>
    BY DEF GatherInit, CacheInit
  <2>2. log \in LogTypes /\ \A h \in Hosts : log[h].runs = 0
    BY <2>1 DEF NoLog, LogTypes
  <2>3. <<1, 1>> \in (Nat \ {0}) \X (Nat \ {0})
        /\ <<>> \in Seq({"dcs", "ch", "nets", "dss", "vms"})
    OBVIOUS
  <2>4. PcTypes
    BY <2>1, <2>2, <2>3 DEF PcTypes, Stages
  <2>5. ~InCommands /\ pc \notin EsxcliStages /\ Before(pc) = 0
    BY <2>1 DEF InCommands, EsxcliStages, Before
  <2>6. OnceInv
    BY <2>1, <2>5 DEF OnceInv, ListedOnce
  <2>7. RunsInv
    BY <2>2, <2>5 DEF RunsInv
  <2>8. QED
    BY <2>4, <2>6, <2>7 DEF TypesInv
<1>3. IInv /\ PipelineInv /\ TypesInv /\ [GatherNext]_vars => IInv' /\ PipelineInv' /\ TypesInv'
  BY StepIsCollectors, CollectorStepPreserves, StepKeepsTypes DEF Good
<1>4. QED
  BY <1>1, <1>2, <1>3, PTL DEF GatherSpec

\* The pipeline's variables have their types in every state, whatever is fresh
\* and whenever the inventory changes.  In particular no gather sends a host
\* more than four esxcli commands.
THEOREM GatherTypes == GatherSpec => []GatherTypeOK
<1>1. PipelineInv /\ TypesInv => GatherTypeOK
  <2> SUFFICES ASSUME PipelineInv, TypesInv PROVE GatherTypeOK
    OBVIOUS
  <2>1. log \in LogTypes /\ \A h \in Hosts : log[h].runs \in 0..4
    <3>1. InCommands => Before(pc) + 1 <= 4
      BY DEF InCommands, Before, EsxcliStages
    <3>2. QED
      BY <3>1, BeforeIsNat DEF TypesInv, PcTypes, LogTypes, RunsInv
  <2>2. log \in [Hosts -> [down : BOOLEAN, runs : 0..4, failed : BOOLEAN,
                           code : {0, 1, 2, None}]]
    BY <2>1 DEF LogTypes
  <2>3. QED
    BY <2>2 DEF GatherTypeOK, TypesInv, PcTypes, PipelineInv, Stages
<1>2. QED
  BY <1>1, TypesInvariant, PTL

-----------------------------------------------------------------------------
(***************************************************************************)
(* A gather comes nearer to its end with every step.                       *)
(***************************************************************************)
\* Before a gather and after its stages there is no list to refresh.
RestInv == pc \in {"return", "idle", "panic"} => need = <<>>

LEMMA NothingAtRest ==
    ASSUME NEW stage, Enter(stage) PROVE RestInv'
<1>1. stage \in {"return", "idle", "panic"} => Lists(stage) = <<>>
  BY DEF Lists, EsxcliStages
<1>2. QED
  BY <1>1 DEF Enter, RestInv

\* The stage that a step at work on one may enter is a later one, or an end.
LEMMA EntersLater ==
    ASSUME TypesInv, pc \notin {"return", "idle", "panic"}, Proceed \/ Fail \/ Enter("panic")
    PROVE  GoesOn /\ RestInv'
<1>1. PICK stage \in {Following(pc), "return", "panic"} : Enter(stage)
  BY DEF Proceed, Fail
<1>2. PICK p \in 1..16 : Pipeline[p] = pc
  BY Places DEF TypesInv, PcTypes, Stages
<1>3. \/ stage \in {"return", "panic"}
      \/ \E k \in p + 1 .. 16 : stage = Pipeline[k]
  BY <1>1, <1>2, LaterFollows
<1>4. pc' = stage
  BY <1>1 DEF Enter
<1>5. GoesOn
  BY <1>2, <1>3, <1>4, Places DEF GoesOn
<1>6. QED
  BY <1>1, <1>5, NothingAtRest

LEMMA LoopAdvances ==
    ASSUME IInv, PipelineInv, UNCHANGED listVars,
           (AtDatacenter /\ NextDatacenter) \/ (AtHost /\ NextHost),
           pc \notin {"return", "idle", "panic"}
    PROVE  LoopsOn /\ RestInv'
<1>1. UNCHANGED <<pc, need, dcs, hosts>>
  BY DEF NextDatacenter, NextHost, listVars, dcVars
<1>2. AtDatacenter /\ at[1] \in DOMAIN hosts /\ at[1] \in 1..Len(dcs)
      /\ (AtHost => at[2] \in DOMAIN hosts[at[1]])
  BY PositionsOfLoops DEF AtHost
<1>3. at[1] \in Nat /\ at[2] \in Nat
  BY DEF PipelineInv
<1>4. CASE NextDatacenter
  BY <1>1, <1>2, <1>3, <1>4 DEF LoopsOn, NextDatacenter, RestInv
<1>5. CASE AtHost /\ NextHost
  BY <1>1, <1>2, <1>3, <1>5 DEF LoopsOn, NextHost, RestInv
<1>6. QED
  BY <1>4, <1>5

LEMMA RefreshAdvances ==
    ASSUME TypesInv, RestInv, RefreshList
    PROVE  (GoesOn \/ RefreshesOn) /\ RestInv'
<1>1. need # <<>> /\ need \in Seq({"dcs", "ch", "nets", "dss", "vms"})
  BY DEF RefreshList, TypesInv, PcTypes
<1>2. pc \notin {"return", "idle", "panic"}
  BY <1>1 DEF RestInv
<1>3. CASE need' = Tail(need) /\ UNCHANGED pc
  <2>1. Len(need') < Len(need)
    BY <1>1, <1>3
  <2>2. QED
    BY <1>2, <1>3, <2>1 DEF RefreshesOn, RestInv
<1>4. CASE Fail
  BY <1>2, <1>4, EntersLater
<1>5. QED
  BY <1>3, <1>4 DEF RefreshList

LEMMA CommandsAdvance ==
    ASSUME IInv, PipelineInv, TypesInv, NEW stage \in EsxcliStages, NEW filtered, NEW looks,
           EsxcliLoop(stage, filtered, looks)
    PROVE  (GoesOn \/ LoopsOn) /\ RestInv'
<1>1. pc \notin {"return", "idle", "panic"} /\ UNCHANGED listVars
  BY DEF EsxcliLoop, Working, EsxcliStages
<1>2. \/ (AtDatacenter /\ NextDatacenter) \/ (AtHost /\ NextHost)
      \/ Fail
  BY DEF EsxcliLoop, PastHosts
<1>3. CASE Fail
  BY <1>1, <1>3, EntersLater
<1>4. CASE (AtDatacenter /\ NextDatacenter) \/ (AtHost /\ NextHost)
  BY <1>1, <1>4, LoopAdvances
<1>5. QED
  BY <1>2, <1>3, <1>4

LEMMA StepAdvances ==
    ASSUME IInv, PipelineInv, TypesInv, RestInv, PluginStep
    PROVE  (GoesOn \/ RefreshesOn \/ LoopsOn) /\ RestInv'
<1>1. CASE Return
  <2>1. pc = "return" /\ Enter("idle")
    BY <1>1 DEF Return
  <2>2. QED
    BY <2>1, NothingAtRest DEF GoesOn, Enter
<1>2. CASE RefreshList
  BY <1>2, RefreshAdvances
<1>3. CASE \/ CollectVcenterInfo \/ CollectDatacenterInfo \/ EndLoop \/ ResetTimes \/ SelfMetrics
           \/ CollectClusterInfo \/ CollectHostServices \/ CollectNetDVS
           \/ CollectNetDVP \/ CollectDatastoresInfo \/ CollectVmsInfo
  <2>1. /\ pc \notin {"return", "idle", "panic"}
        /\ Proceed \/ Fail \/ Enter("panic")
    BY <1>3 DEF CollectVcenterInfo, CollectDatacenterInfo, EndLoop, ResetTimes, SelfMetrics,
                CollectClusterInfo, CollectHostServices, CollectNetDVS, CollectNetDVP,
                CollectDatastoresInfo, CollectVmsInfo, Queries, Panic, Working, EsxcliStages
  <2>2. QED
    BY <2>1, EntersLater
<1>4. CASE CollectHostHBA \/ CollectHostNIC \/ CollectHostFw \/ CollectHostGraphics
  BY <1>4, CommandsAdvance
  DEF CollectHostHBA, CollectHostNIC, CollectHostFw, CollectHostGraphics, EsxcliStages
<1>5. CASE CollectHostInfo \/ ReportHostEsxcliResponse
  <2>1. pc \notin {"return", "idle", "panic"} /\ UNCHANGED listVars
    BY <1>5 DEF CollectHostInfo, ReportHostEsxcliResponse, Working
  <2>2. \/ (AtDatacenter /\ NextDatacenter) \/ (AtHost /\ NextHost)
        \/ Fail
    BY <1>5 DEF CollectHostInfo, ReportHostEsxcliResponse, PastHosts
  <2>3. CASE Fail
    BY <2>1, <2>3, EntersLater
  <2>4. CASE (AtDatacenter /\ NextDatacenter) \/ (AtHost /\ NextHost)
    BY <2>1, <2>4, LoopAdvances
  <2>5. QED
    BY <2>2, <2>3, <2>4
<1>6. QED
  BY <1>1, <1>2, <1>3, <1>4, <1>5 DEF PluginStep

LEMMA OthersDoNotSetBack ==
    ASSUME BeginGather \/ InventoryChanges \/ TimePasses \/ ContextExpires \/ UNCHANGED vars,
           RestInv
    PROVE  /\ pc # "idle" => UNCHANGED <<pc, need, at, dcs, hosts>>
           /\ RestInv'
<1>1. CASE BeginGather
  BY <1>1, NothingAtRest DEF BeginGather
<1>2. CASE InventoryChanges \/ TimePasses \/ ContextExpires \/ UNCHANGED vars
  <2>1. UNCHANGED <<pc, need, at, dcs, hosts>>
    BY <1>2 DEF InventoryChanges, TimePasses, Tick, ContextExpires, vars, gatherVars, cacheVars,
                dcVars, chVars
  <2>2. QED
    BY <2>1 DEF RestInv
<1>3. QED
  BY <1>1, <1>2

\* Every step of the plugin brings the gather nearer to its end: to a later stage
\* of Gather (vcstat.go:252), to the next list of its stage or to the next host
\* of its loop.  It is what GatherEnds rests on, for any inventory, any options
\* and any durations.
THEOREM StepsAdvance == GatherSpec => GatherAdvances
<1>1. GatherInit => RestInv
  BY DEF GatherInit, RestInv
<1>2. IInv /\ PipelineInv /\ TypesInv /\ RestInv /\ [GatherNext]_vars
         => /\ RestInv'
            /\ IF PluginStep THEN GoesOn \/ RefreshesOn \/ LoopsOn
               ELSE pc # "idle" => UNCHANGED <<pc, need, at, dcs, hosts>>
  BY StepAdvances, OthersDoNotSetBack DEF GatherNext
<1>3. QED
  BY <1>1, <1>2, TypesInvariant, PTL DEF GatherSpec, GatherAdvances

===============================================================================
