------------------------------- MODULE Gather --------------------------------
(***************************************************************************)
(* Config.Gather of plugins/inputs/vcstat/vcstat.go: the stages of one     *)
(* collection, in their order, with the collector they drive.  The shim    *)
(* calls Gather again and again from one goroutine, and the collector      *)
(* keeps its cache and its host states from one gather to the next.        *)
(*                                                                         *)
(* A stage first refreshes the lists it needs, one call of a get... method *)
(* after the other, and then does its work over them.  An error of either  *)
(* part ends the gather, except in gatherStorage and gatherVM, which add   *)
(* it to the accumulator and return nil.                                   *)
(***************************************************************************)
EXTENDS VcCollector

CONSTANTS
    Configs,  \* the sets of enabled ..._instances options of the runs
    Settled   \* TRUE when the inventory changes only between two gathers

VARIABLES
    cfg,        \* the enabled options
    inventory,  \* the vCenter's
    pc,         \* the stage, "return" after the last, "idle", or "panic"
    need,       \* the lists the stage has still to refresh
    at,         \* datacenter and host index of the stage's loops
    expired,    \* ctx.Err() # nil
    log         \* what this gather has seen, asked and reported of each host

Options == {"cluster", "datastore", "host", "hba", "nic", "fw", "graphics",
            "services", "dvs", "dvp", "vm"}

ASSUME ConfigsAssumption == Configs \subseteq SUBSET Options
ASSUME SettledAssumption == Settled \in BOOLEAN
ASSUME CollectorIsUnrestricted == Calls = AllCalls /\ MaxRuns >= 4

gatherVars == <<cfg, inventory, pc, need, at, expired, log>>
vars == <<cacheVars, gatherVars>>

-----------------------------------------------------------------------------
EsxcliStages == {"hba", "nic", "fw", "graphics"}

\* The stages in the order of Gather and of the gather... methods it calls.
Pipeline == <<"vcenter", "datacenter", "cluster", "host", "reset", "hba", "nic",
              "fw", "graphics", "services", "report", "dvs", "dvp", "datastore",
              "vm", "self">>

Enabled(stage) ==
    CASE stage \in {"vcenter", "reset", "self"} -> TRUE
      [] stage = "datacenter"                   -> cfg \cap {"cluster", "host"} # {}
      [] stage = "report"                       -> cfg \cap EsxcliStages # {}
      [] OTHER                                  -> stage \in cfg

\* Mutant of EntityLists: the datastores are left to gatherStorage.
EntityListsButDatastores == <<"dcs", "ch", "nets">>

\* The refreshes of getAllDatacentersEntities.
EntityLists == <<"dcs", "ch", "nets", "dss">>

\* The refreshes a stage calls before it does its work.
Lists(stage) ==
    CASE stage = "vcenter"         -> <<"dcs">>
      [] stage = "datacenter"      -> EntityLists
      [] stage \in {"dvs", "dvp"}  -> <<"nets">>
      [] stage = "datastore"       -> <<"dss">>
      [] stage = "vm"              -> <<"vms">>
      [] stage \in {"cluster", "host", "services"} \cup EsxcliStages -> <<"ch">>
      [] OTHER                     -> <<>>

\* The first stage after the given one that the options let run.
Following(stage) ==
    LET place == CHOOSE k \in DOMAIN Pipeline : Pipeline[k] = stage
        later == {k \in DOMAIN Pipeline : k > place /\ Enabled(Pipeline[k])}
    IN  IF later = {} THEN "return"
        ELSE Pipeline[CHOOSE k \in later : \A other \in later : k <= other]

Enter(stage) ==
    /\ pc' = stage
    /\ need' = Lists(stage)
    /\ at' = <<1, 1>>

Proceed == Enter(Following(pc))

\* Mutant of Fail: the stages that go on are tried again.
FailAgain == Enter(IF pc \in {"datastore", "vm"} THEN pc ELSE "return")

\* The stage returns an error.
Fail == Enter(IF pc \in {"datastore", "vm"} THEN Following(pc) ELSE "return")

Panic ==
    /\ panicked' = TRUE
    /\ Enter("panic")

-----------------------------------------------------------------------------
NoLog == [h \in Hosts |-> [down |-> FALSE, runs |-> 0, failed |-> FALSE, code |-> None]]

GatherInit ==
    /\ CacheInit
    /\ cfg \in Configs
    /\ inventory \in Inventories
    /\ pc = "idle" /\ need = <<>> /\ at = <<1, 1>>
    /\ expired = FALSE
    /\ log = NoLog

\* keepActiveSession has succeeded; when it does not, the gather ends there.
BeginGather ==
    /\ pc = "idle"
    /\ Enter("vcenter")
    /\ UNCHANGED <<cacheVars, cfg, inventory, expired, log>>

\* Gather returns, with or without an error, and its context is canceled.
Return ==
    /\ pc = "return"
    /\ Enter("idle")
    /\ expired' = FALSE
    /\ log' = NoLog
    /\ UNCHANGED <<cacheVars, cfg, inventory>>

InventoryChanges ==
    /\ Settled => pc = "idle"
    /\ inventory' \in Inventories
    /\ UNCHANGED <<cacheVars, cfg, pc, need, at, expired, log>>

TimePasses ==
    /\ Tick
    /\ UNCHANGED gatherVars

\* The deadline of the gather's context, one polling interval after its start.
ContextExpires ==
    /\ pc \notin {"idle", "return", "panic"} /\ ~expired
    /\ expired' = TRUE
    /\ UNCHANGED <<cacheVars, cfg, inventory, pc, need, at, log>>

LastUpdate(list) ==
    CASE list = "dcs"  -> lastDCUpdate
      [] list = "ch"   -> lastCHUpdate
      [] list = "nets" -> lastNtUpdate
      [] list = "dss"  -> lastDsUpdate
      [] list = "vms"  -> lastVmUpdate

\* Mutant of RefreshHostsAndVMs: the VMs are listed with the hosts as they are.
RefreshVMsOnly(ok) ==
    /\ ~Fresh(lastVmUpdate)
    /\ getDatacenters(inventory, ok)
    /\ vms' = Listed(dcs', ok)
    /\ lastVmUpdate' = IF ok THEN 0 ELSE lastVmUpdate
    /\ UNCHANGED chVars

RefreshHostsAndVMs(ok) == getAllDatacentersVMs(inventory, ok)

Refresh(list, ok) ==
    \/ /\ list = "dcs" /\ getDatacenters(inventory, ok)
       /\ UNCHANGED <<chVars, ntVars, dsVars, vmVars>>
    \/ /\ list = "ch" /\ getAllDatacentersClustersAndHosts(inventory, ok)
       /\ UNCHANGED <<ntVars, dsVars, vmVars>>
    \/ /\ list = "nets" /\ getAllDatacentersNetworks(inventory, ok)
       /\ UNCHANGED <<chVars, dsVars, vmVars>>
    \/ /\ list = "dss" /\ getAllDatacentersDatastores(inventory, ok)
       /\ UNCHANGED <<chVars, ntVars, vmVars>>
    \/ /\ list = "vms" /\ RefreshHostsAndVMs(ok)
       /\ UNCHANGED <<ntVars, dsVars>>

\* Mutant of RefreshList: a refresh that fails is tried again.
RefreshListAgain ==
    /\ need # <<>>
    /\ \E ok \in BOOLEAN :
          /\ ok => ~expired \/ Fresh(LastUpdate(Head(need)))
          /\ Refresh(Head(need), ok)
          /\ need' = IF ok THEN Tail(need) ELSE need
    /\ UNCHANGED <<pc, at, panicked, cfg, inventory, expired, log>>

\* The next refresh of the stage.  Out of time, only fresh data needs no query.
RefreshList ==
    /\ need # <<>>
    /\ \E ok \in BOOLEAN :
          /\ ok => ~expired \/ Fresh(LastUpdate(Head(need)))
          /\ Refresh(Head(need), ok)
          /\ IF ok
             THEN need' = Tail(need) /\ UNCHANGED <<pc, at>>
             ELSE Fail
    /\ UNCHANGED <<panicked, cfg, inventory, expired, log>>

-----------------------------------------------------------------------------
(***************************************************************************)
(* The work of the stages, once the lists are there.                       *)
(***************************************************************************)
Working(stages) == pc \in stages /\ need = <<>>

\* CollectVcenterInfo has nothing left to do that could fail.
CollectVcenterInfo ==
    /\ Working({"vcenter"})
    /\ Proceed
    /\ UNCHANGED <<cacheVars, cfg, inventory, expired, log>>

\* CollectDatacenterInfo counts the entries of four slices for every datacenter.
CollectDatacenterInfo ==
    /\ Working({"datacenter"})
    /\ IF \A slice \in {clusters, hosts, nets, dss} : Covers(slice)
       THEN Proceed /\ UNCHANGED panicked
       ELSE Panic
    /\ UNCHANGED <<listVars, hostStates, cfg, inventory, expired, log>>

(***************************************************************************)
(* A collector that only queries properties of the entities of slice, and  *)
(* touches no cached state.  It indexes slice at every position of c.dcs,  *)
(* and looked at those with an answer to look something up; a failing      *)
(* query may end it before it does.                                        *)
(***************************************************************************)
Queries(stage, slice, looked) ==
    /\ Working({stage})
    /\ \/ Covers(slice) /\ Proceed /\ UNCHANGED panicked
       \/ Fail /\ UNCHANGED panicked
       \/ ~(Covers(slice) /\ Covers(looked)) /\ Panic
    /\ UNCHANGED <<listVars, hostStates, cfg, inventory, expired, log>>

CollectClusterInfo    == Queries("cluster", clusters, clusters)
CollectHostServices   == Queries("services", hosts, clusters)
CollectNetDVS         == Queries("dvs", nets, nets)
CollectNetDVP         == Queries("dvp", nets, nets)
CollectDatastoresInfo == Queries("datastore", dss, dss)
\* The host of a VM is looked up in c.hosts, with a check that is one short.
CollectVmsInfo        == Queries("vm", vms, hosts)

-----------------------------------------------------------------------------
(***************************************************************************)
(* The loops over c.dcs and the hosts of each datacenter.                  *)
(***************************************************************************)
PastDatacenters == at[1] > Len(dcs)
AtDatacenter == ~PastDatacenters /\ at[1] <= Len(hosts)
PastHosts == AtDatacenter /\ at[2] > Len(hosts[at[1]])
AtHost == AtDatacenter /\ at[2] <= Len(hosts[at[1]])
Host == hosts[at[1]][at[2]]

NextDatacenter == at' = <<at[1] + 1, 1>> /\ UNCHANGED <<pc, need>>
NextHost == at' = <<at[1], at[2] + 1>> /\ UNCHANGED <<pc, need>>

\* A loop ends, or indexes c.hosts out of range.
EndLoop ==
    /\ Working({"host", "report"} \cup EsxcliStages)
    /\ ~AtDatacenter
    /\ IF PastDatacenters THEN Proceed /\ UNCHANGED panicked ELSE Panic
    /\ UNCHANGED <<listVars, hostStates, cfg, inventory, expired, log>>

\* CollectHostInfo at one datacenter.  Without a selected host there is no
\* query that could fail and no look at the context.
CollectHostInfo ==
    /\ Working({"host"}) /\ AtDatacenter
    /\ \E seen \in SUBSET FilteredIn(at[1]) : \E up \in SUBSET seen :
          /\ expired => seen = {}
          /\ HostInfo(at[1], seen, up)
          /\ log' = [h \in Hosts |->
                        [log[h] EXCEPT !.down =
                            IF \E j \in seen : hosts[at[1]][j] = h
                            THEN \E j \in seen \ up : hosts[at[1]][j] = h
                            ELSE @]]
    /\ \/ (~expired \/ FilteredIn(at[1]) = {}) /\ NextDatacenter
       \/ FilteredIn(at[1]) # {} /\ Fail
    /\ UNCHANGED <<listVars, panicked, cfg, inventory, expired>>

ResetTimes ==
    /\ Working({"reset"})
    /\ ResetResponseTimes
    /\ IF panicked' THEN Enter("panic") ELSE Proceed
    /\ UNCHANGED <<listVars, cfg, inventory, expired, log>>

\* What the log says of a host after a command.
Commanded(seen, o) == [[seen EXCEPT !.runs = @ + 1] EXCEPT !.failed = o \in RunFails]

(***************************************************************************)
(* One turn of the inner loop of an esxcli collector, for the hosts it     *)
(* lets through.  When an answer came in time but the context is over, the *)
(* collector gives up only if it looks at the context.                     *)
(***************************************************************************)
EsxcliLoop(stage, filtered, looks) ==
    /\ Working({stage})
    /\ \/ /\ PastHosts
          /\ NextDatacenter
          /\ UNCHANGED <<hostStates, log, expired>>
       \/ /\ AtHost
          /\ Host \notin filtered \/ ~HasState(at[1], at[2])
          /\ NextHost
          /\ UNCHANGED <<hostStates, log, expired>>
       \/ /\ AtHost
          /\ Host \in filtered
          /\ \E o \in Outcomes :
                /\ expired => o \in {"skipped", "executor", "hard"}
                /\ EsxcliVisit(at[1], at[2], o)
                /\ log' = IF o \in {"skipped", "executor"} THEN log
                          ELSE [log EXCEPT ![Host] = Commanded(@, o)]
                /\ \/ o \notin {"hard", "slow"} /\ NextHost /\ UNCHANGED expired
                   \/ o \in {"hard", "slow"} /\ Fail /\ UNCHANGED expired
                   \/ o = "ok" /\ looks /\ Fail /\ expired' = TRUE
    /\ UNCHANGED <<listVars, panicked, cfg, inventory>>

CollectHostHBA      == EsxcliLoop("hba", Selected, TRUE)
CollectHostNIC      == EsxcliLoop("nic", Selected, TRUE)
CollectHostFw       == EsxcliLoop("fw", Selected, TRUE)
CollectHostGraphics == EsxcliLoop("graphics", Hosts, FALSE)

\* ReportHostEsxcliResponse at one host, and its look at the context after
\* every datacenter.
ReportHostEsxcliResponse ==
    /\ Working({"report"})
    /\ \/ /\ AtHost
          /\ at[2] \in FilteredIn(at[1])
          /\ ReportHost(at[1], at[2])
          /\ log' = [log EXCEPT ![Host].code = RespondingCode(hostStates[at[1]][at[2]])]
          /\ NextHost
       \/ /\ AtHost
          /\ at[2] \notin FilteredIn(at[1])
          /\ NextHost
          /\ UNCHANGED <<hostStates, log>>
       \/ /\ PastHosts
          /\ IF expired THEN Fail ELSE NextDatacenter
          /\ UNCHANGED <<hostStates, log>>
    /\ UNCHANGED <<listVars, panicked, cfg, inventory, expired>>

\* The plugin's own metrics, with the number of hosts not responding.
SelfMetrics ==
    /\ Working({"self"})
    /\ IF cfg \cap {"hba", "nic", "fw"} # {} /\ ~Covers(hostStates)
       THEN Panic
       ELSE Proceed /\ UNCHANGED panicked
    /\ UNCHANGED <<listVars, hostStates, cfg, inventory, expired, log>>

-----------------------------------------------------------------------------
\* What the plugin does by itself, as opposed to what happens to it.
PluginStep ==
    \/ RefreshList
    \/ CollectVcenterInfo
    \/ CollectDatacenterInfo
    \/ CollectClusterInfo
    \/ CollectHostInfo
    \/ ResetTimes
    \/ CollectHostHBA
    \/ CollectHostNIC
    \/ CollectHostFw
    \/ CollectHostGraphics
    \/ CollectHostServices
    \/ EndLoop
    \/ ReportHostEsxcliResponse
    \/ CollectNetDVS
    \/ CollectNetDVP
    \/ CollectDatastoresInfo
    \/ CollectVmsInfo
    \/ SelfMetrics
    \/ Return

GatherNext ==
    \/ BeginGather
    \/ InventoryChanges
    \/ TimePasses
    \/ ContextExpires
    \/ PluginStep

GatherSpec == GatherInit /\ [][GatherNext]_vars

(***************************************************************************)
(* Fairness.  Every remote call is given the context of the gather, so it  *)
(* returns by the deadline, and nothing else in a gather waits: the plugin *)
(* goes on.  The shim calls Gather at every interval, and time goes by.    *)
(***************************************************************************)
FairGatherSpec ==
    /\ GatherSpec
    /\ WF_vars(PluginStep)
    /\ WF_vars(BeginGather)
    /\ WF_vars(TimePasses)

-----------------------------------------------------------------------------
\* The durations that Init makes, an inventory that stays put during a gather,
\* and the clusters or the hosts collected: what some of the properties need.
SettledCase ==
    /\ Settled = TRUE
    /\ DataDuration = 0
    /\ \A c \in Configs : c \cap {"cluster", "host"} # {}

\* The types of the pipeline's variables.
GatherTypeOK ==
    /\ cfg \in Configs
    /\ inventory \in Inventories
    /\ pc \in {Pipeline[k] : k \in DOMAIN Pipeline} \cup {"return", "idle", "panic"}
    /\ need \in Seq({"dcs", "ch", "nets", "dss", "vms"})
    /\ at \in (Nat \ {0}) \X (Nat \ {0})
    /\ expired \in BOOLEAN
    /\ log \in [Hosts -> [down : BOOLEAN, runs : 0..4, failed : BOOLEAN,
                          code : {0, 1, 2, None}]]

\* No index is ever out of range: the slices that a stage indexes over c.dcs
\* have been made at least that long by some earlier stage of this gather,
\* although c.dcs is refreshed by more methods than any of the other slices.
\* vcstat.conf lets the user enable or disable data collection per instance
\* type, so this is for every set of options.
NoPanic == ~panicked

\* A host that CollectHostInfo has found not connected is sent no esxcli
\* command in the rest of the gather, whatever is listed again in between:
\* hostStates keeps what was learnt at the positions of the same hosts.
DownNotQueried ==
    [][\A h \in Hosts : log'[h].runs > log[h].runs => ~log[h].down]_vars

\* The response time that is reported for a host is that of the esxcli
\* commands sent to it in this gather: those of the last gather have been
\* reset, and no refresh since the first command has lost one.
TimesAreThisGathers ==
    pc = "report" =>
        \A i \in 1..Len(dcs) : \A j \in FilteredIn(i) :
            hostStates[i][j].responseTime = log[hosts[i][j]].runs

\* At the end of a gather, a host that was reported responding is not among
\* the hosts counted as not responding.
RespondingNotCounted ==
    pc = "self" =>
        \A p \in NotRespondingHosts :
            HasState(p[1], p[2]) => log[hosts[p[1]][p[2]]].code # 0

\* CollectDatacenterInfo counts, under the name of a datacenter, entities that
\* were listed from that datacenter: the slices have not been filled from
\* different lists of datacenters.
CountsAreAttributed ==
    pc = "datacenter" /\ need = <<>> =>
        \A i \in 1..Len(dcs) :
            clusters[i] = dcs[i] /\ nets[i] = dcs[i] /\ dss[i] = dcs[i]

\* Only connected hosts are counted as not responding to esxcli commands, as
\* the comment on GetNumberNotRespondingHosts says.
OnlyConnectedCounted ==
    pc = "self" =>
        \A p \in NotRespondingHosts : ~hostStates[p[1]][p[2]].notConnected

\* A host whose last esxcli command failed is not reported as responding.
FailedIsReported ==
    \A h \in Hosts : log[h].failed => log[h].code # 0

\* To a later stage, or to the end.
GoesOn ==
    \/ \E k, m \in DOMAIN Pipeline : k < m /\ pc = Pipeline[k] /\ pc' = Pipeline[m]
    \/ (\E k \in DOMAIN Pipeline : pc = Pipeline[k]) /\ pc' \in {"return", "panic"}
    \/ pc = "return" /\ pc' = "idle"

\* One list less to refresh.
RefreshesOn == pc' = pc /\ Len(need') < Len(need)

\* To the next datacenter or host, where nothing but the loop's index changes.
LoopsOn ==
    /\ UNCHANGED <<pc, need, dcs, hosts>>
    /\ at[1] \in 1..Len(dcs) /\ at[1] \in DOMAIN hosts
    /\ \/ at'[1] > at[1]
       \/ at'[1] = at[1] /\ at[2] \in DOMAIN hosts[at[1]] /\ at'[2] > at[2]

\* Every step of the plugin brings the gather nearer to its end, whatever fails
\* in it, and nothing that happens to it meanwhile sets it back: no stage is
\* repeated, no list is refreshed twice for one stage, and no list is replaced
\* under the loop that goes over it.  So a gather ends after as many steps as
\* its inventory has entities, not only when its context does.
GatherAdvances ==
    [][IF PluginStep THEN GoesOn \/ RefreshesOn \/ LoopsOn
       ELSE pc # "idle" => UNCHANGED <<pc, need, at, dcs, hosts>>]_vars

\* A gather that has begun ends, whatever fails in it.
GatherEnds == (pc # "idle") ~> (pc = "idle" \/ panicked)

AtConnected(h) ==
    /\ Working(EsxcliStages) /\ AtHost
    /\ Host = h /\ HasState(at[1], at[2])
    /\ ~hostStates[at[1]][at[2]].notConnected

Marked(h) ==
    \E i \in DOMAIN hosts : \E j \in DOMAIN hosts[i] :
        hosts[i][j] = h /\ HasState(i, j) /\ hostStates[i][j].notResponding

\* No host is left alone for ever: if the esxcli collectors come to a connected
\* host again and again, it is sent a command, or at least no longer marked as
\* not responding, again and again.
SkippingEnds ==
    \A h \in Hosts :
        []<>AtConnected(h) => []<>(log[h].runs > 0 \/ ~Marked(h))
=============================================================================
