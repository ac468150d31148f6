----------------------------- MODULE GatherProofs -----------------------------
(***************************************************************************)
(* The pipeline of Gather is a client of the library: whatever it does to  *)
(* the cache is a step of CollectorSpec.  So the invariants proved of the  *)
(* collector hold in the plugin, for all options, inventories and          *)
(* durations, also while the inventory changes under a gather.             *)
(***************************************************************************)
EXTENDS Gather, VcCollectorProofs

(***************************************************************************)
(* What the steps of Gather rely on to be the collector's: once an index   *)
(* was out of range nothing more is done, and the loops count from one.    *)
(***************************************************************************)
PipelineInv ==
    /\ panicked => pc = "panic" /\ need = <<>>
    /\ at[1] \in Nat \ {0} /\ at[2] \in Nat \ {0}
    /\ inventory \in Inventories

\* The collector's step, and the pipeline's invariant kept.
Good == [CollectorNext]_cacheVars /\ PipelineInv'

-----------------------------------------------------------------------------
LEMMA AnyCall == \A method \in AllCalls : ~panicked => MayCall(method)
  BY CollectorIsUnrestricted DEF MayCall

LEMMA Entered ==
    ASSUME NEW stage, Enter(stage)
    PROVE  /\ pc' = stage /\ need' = Lists(stage)
           /\ at'[1] \in Nat \ {0} /\ at'[2] \in Nat \ {0}
  BY DEF Enter

LEMMA Moved ==
    ASSUME PipelineInv, NextHost \/ NextDatacenter
    PROVE  at'[1] \in Nat \ {0} /\ at'[2] \in Nat \ {0} /\ UNCHANGED <<pc, need>>
  BY DEF PipelineInv, NextHost, NextDatacenter

\* A stage at work, or about to refresh, has not panicked.
LEMMA AtWork ==
    ASSUME PipelineInv, need # <<>> \/ pc # "panic"
    PROVE  ~panicked
  BY DEF PipelineInv

\* A step that goes on to a stage, or on in its loop, keeps the invariant.
LEMMA WentOn ==
    ASSUME PipelineInv, ~panicked, UNCHANGED <<panicked, inventory>>,
           \/ Proceed \/ Fail \/ NextHost \/ NextDatacenter
    PROVE  PipelineInv'
<1>1. at'[1] \in Nat \ {0} /\ at'[2] \in Nat \ {0}
  BY Entered, Moved DEF Proceed, Fail
<1>2. QED
  BY <1>1 DEF PipelineInv

LEMMA PanicIsOthers ==
    ASSUME PipelineInv, ~panicked, Panic, UNCHANGED <<listVars, hostStates, inventory>>,
           \E slice \in {clusters, hosts, hostStates, nets, dss, vms} : ~Covers(slice)
    PROVE  Good
<1>1. Others
  BY AnyCall DEF Others, AllCalls, Panic
<1>2. Lists("panic") = <<>>
  BY DEF Lists, EsxcliStages
<1>3. PipelineInv'
  BY <1>2, Entered DEF Panic, PipelineInv
<1>4. QED
  BY <1>1, <1>3 DEF Good, CollectorNext

LEMMA NothingDone ==
    ASSUME PipelineInv', UNCHANGED <<listVars, hostStates, panicked>>
    PROVE  Good
  BY DEF Good, listVars, cacheVars, dcVars, chVars, ntVars, dsVars, vmVars

-----------------------------------------------------------------------------
LEMMA Refreshing == PipelineInv /\ RefreshList => Good
<1> SUFFICES ASSUME PipelineInv, RefreshList PROVE Good
  OBVIOUS
<1>1. PICK ok \in BOOLEAN :
         /\ Refresh(Head(need), ok)
         /\ \/ need' = Tail(need) /\ UNCHANGED <<pc, at>>
            \/ Fail
  BY DEF RefreshList
<1>2. ~panicked /\ UNCHANGED <<panicked, inventory>> /\ inventory \in Inventories
  BY AtWork DEF RefreshList, PipelineInv
<1>3. CollectorNext
  <2>1. \A method \in AllCalls : MayCall(method)
    BY <1>2, AnyCall
  <2>2. \/ RefreshDatacenters
        \/ RefreshClustersAndHosts
        \/ RefreshNetworks
        \/ RefreshDatastores
        \/ RefreshVMs
    BY <1>1, <1>2, <2>1
    DEF Refresh, RefreshHostsAndVMs, AllCalls, RefreshDatacenters, RefreshClustersAndHosts,
        RefreshNetworks, RefreshDatastores, RefreshVMs
  <2>3. QED
    BY <2>2 DEF CollectorNext
<1>4. PipelineInv'
  BY <1>1, <1>2, WentOn DEF PipelineInv
<1>5. QED
  BY <1>3, <1>4 DEF Good

LEMMA Querying ==
    ASSUME PipelineInv, NEW stage \in {"cluster", "services", "dvs", "dvp", "datastore", "vm"},
           NEW slice \in {clusters, hosts, hostStates, nets, dss, vms},
           NEW looked \in {clusters, hosts, hostStates, nets, dss, vms},
           Queries(stage, slice, looked)
    PROVE  Good
<1>1. ~panicked
  BY AtWork DEF Queries, Working
<1>2. CASE Proceed /\ UNCHANGED panicked
  BY <1>1, <1>2, WentOn, NothingDone DEF Queries
<1>3. CASE Fail /\ UNCHANGED panicked
  BY <1>1, <1>3, WentOn, NothingDone DEF Queries
<1>4. CASE ~(Covers(slice) /\ Covers(looked)) /\ Panic
  BY <1>1, <1>4, PanicIsOthers DEF Queries
<1>5. QED
  BY <1>2, <1>3, <1>4 DEF Queries

LEMMA Counting == PipelineInv /\ (CollectDatacenterInfo \/ SelfMetrics) => Good
<1> SUFFICES ASSUME PipelineInv, CollectDatacenterInfo \/ SelfMetrics PROVE Good
  OBVIOUS
<1>1. /\ ~panicked
      /\ UNCHANGED <<listVars, hostStates, inventory>>
  BY AtWork DEF CollectDatacenterInfo, SelfMetrics, Working
<1>2. CASE Proceed /\ UNCHANGED panicked
  BY <1>1, <1>2, WentOn, NothingDone
<1>3. CASE /\ Panic
           /\ \E slice \in {clusters, hosts, hostStates, nets, dss, vms} : ~Covers(slice)
  BY <1>1, <1>3, PanicIsOthers
<1>4. QED
  BY <1>2, <1>3 DEF CollectDatacenterInfo, SelfMetrics

LEMMA Ending == IInv /\ PipelineInv /\ EndLoop => Good
<1> SUFFICES ASSUME IInv, PipelineInv, EndLoop PROVE Good
  OBVIOUS
<1>1. /\ ~panicked
      /\ UNCHANGED <<listVars, hostStates, inventory>>
  BY AtWork DEF EndLoop, Working, EsxcliStages
<1>2. CASE PastDatacenters
  BY <1>1, <1>2, WentOn, NothingDone DEF EndLoop
<1>3. CASE ~PastDatacenters
  <2>1. at[1] <= Len(dcs) /\ Len(hosts) < at[1]
    BY <1>3 DEF EndLoop, PastDatacenters, AtDatacenter, IInv, CacheTypeOK, PipelineInv
  <2>2. ~Covers(hosts)
    BY <2>1 DEF Covers, IInv, CacheTypeOK, PipelineInv
  <2>3. QED
    BY <1>1, <1>3, <2>2, PanicIsOthers DEF EndLoop
<1>4. QED
  BY <1>2, <1>3

LEMMA Resetting == PipelineInv /\ ResetTimes => Good
<1> SUFFICES ASSUME PipelineInv, ResetTimes PROVE Good
  OBVIOUS
<1>1. ~panicked
  BY AtWork DEF ResetTimes, Working
<1>2. Reset
  BY <1>1, AnyCall DEF Reset, ResetTimes, AllCalls
<1>3. CASE panicked'
  <2>1. Enter("panic") /\ UNCHANGED inventory
    BY <1>3 DEF ResetTimes
  <2>2. Lists("panic") = <<>>
    BY DEF Lists, EsxcliStages
  <2>3. QED
    BY <1>2, <2>1, <2>2, Entered DEF Good, CollectorNext, PipelineInv
<1>4. CASE ~panicked'
  <2>1. UNCHANGED <<panicked, inventory>> /\ Proceed
    BY <1>1, <1>4 DEF ResetTimes, ResetResponseTimes
  <2>2. QED
    BY <1>1, <1>2, <2>1, WentOn DEF Good, CollectorNext
<1>5. QED
  BY <1>3, <1>4

-----------------------------------------------------------------------------
\* The indices of a loop at a host are positions of hosts.
LEMMA PositionsOfLoops ==
    ASSUME IInv, PipelineInv
    PROVE  /\ AtDatacenter => at[1] \in DOMAIN hosts /\ at[1] \in 1..Len(dcs)
           /\ AtHost => at[2] \in DOMAIN hosts[at[1]]
<1>1. hosts \in Seq(Seq(Hosts)) /\ dcs \in Seq(Datacenters)
  BY DEF IInv, CacheTypeOK
<1>2. AtDatacenter => at[1] \in DOMAIN hosts /\ at[1] \in 1..Len(dcs)
  BY <1>1 DEF AtDatacenter, PastDatacenters, PipelineInv
<1>3. AtHost => at[2] \in DOMAIN hosts[at[1]]
  BY <1>1, <1>2 DEF AtHost, PipelineInv
<1>4. QED
  BY <1>2, <1>3

LEMMA Informing == IInv /\ PipelineInv /\ CollectHostInfo => Good
<1> SUFFICES ASSUME IInv, PipelineInv, CollectHostInfo PROVE Good
  OBVIOUS
<1>1. /\ ~panicked /\ AtDatacenter
      /\ UNCHANGED <<listVars, panicked, inventory>>
      /\ NextDatacenter \/ Fail
  BY AtWork DEF CollectHostInfo, Working
<1>2. PICK seen \in SUBSET FilteredIn(at[1]) : \E up \in SUBSET seen : HostInfo(at[1], seen, up)
  BY DEF CollectHostInfo
<1>3. at[1] \in DOMAIN hosts /\ at[1] \in 1..Len(dcs)
  BY <1>1, PositionsOfLoops
<1>4. Info
  BY <1>1, <1>2, <1>3, AnyCall DEF Info, AllCalls
<1>5. QED
  BY <1>1, <1>4, WentOn DEF Good, CollectorNext

LEMMA Commanding ==
    ASSUME IInv, PipelineInv, NEW stage \in EsxcliStages, NEW filtered, NEW looks \in BOOLEAN,
           EsxcliLoop(stage, filtered, looks)
    PROVE  Good
<1>1. /\ ~panicked
      /\ UNCHANGED <<listVars, panicked, inventory>>
  BY AtWork DEF EsxcliLoop, Working, EsxcliStages
<1>2. NextDatacenter \/ NextHost \/ Fail
  BY DEF EsxcliLoop
<1>3. PipelineInv'
  BY <1>1, <1>2, WentOn
<1>4. CASE UNCHANGED hostStates
  BY <1>1, <1>3, <1>4, NothingDone
<1>5. CASE AtHost /\ \E o \in Outcomes : EsxcliVisit(at[1], at[2], o)
  <2>1. at[1] \in DOMAIN hosts /\ at[2] \in DOMAIN hosts[at[1]]
    BY <1>5, PositionsOfLoops DEF AtHost
  <2>2. Esxcli
    BY <1>1, <1>5, <2>1, AnyCall DEF Esxcli, AllCalls
  <2>3. QED
    BY <1>3, <2>2 DEF Good, CollectorNext
<1>6. QED
  BY <1>4, <1>5 DEF EsxcliLoop

LEMMA Reporting == IInv /\ PipelineInv /\ ReportHostEsxcliResponse => Good
<1> SUFFICES ASSUME IInv, PipelineInv, ReportHostEsxcliResponse PROVE Good
  OBVIOUS
<1>1. /\ ~panicked
      /\ UNCHANGED <<listVars, panicked, inventory>>
  BY AtWork DEF ReportHostEsxcliResponse, Working
<1>2. NextDatacenter \/ NextHost \/ Fail
  BY DEF ReportHostEsxcliResponse
<1>3. PipelineInv'
  BY <1>1, <1>2, WentOn
<1>4. CASE UNCHANGED hostStates
  BY <1>1, <1>3, <1>4, NothingDone
<1>5. CASE AtHost /\ ReportHost(at[1], at[2])
  <2>1. at[1] \in DOMAIN hosts /\ at[2] \in DOMAIN hosts[at[1]]
    BY <1>5, PositionsOfLoops DEF AtHost
  <2>2. Report
    BY <1>1, <1>5, <2>1, AnyCall DEF Report, AllCalls
  <2>3. QED
    BY <1>3, <2>2 DEF Good, CollectorNext
<1>6. QED
  BY <1>4, <1>5 DEF ReportHostEsxcliResponse

\* What happens to the plugin, and the steps that leave the cache alone.
LEMMA Outside ==
    ASSUME PipelineInv,
           \/ BeginGather \/ InventoryChanges \/ TimePasses \/ ContextExpires
           \/ CollectVcenterInfo \/ Return
    PROVE  Good
<1>1. CASE TimePasses
  BY <1>1 DEF TimePasses, Tick, gatherVars, Good, CollectorNext, PipelineInv
<1>2. CASE InventoryChanges \/ ContextExpires
  BY <1>2 DEF InventoryChanges, ContextExpires, Good, PipelineInv, cacheVars
<1>3. CASE BeginGather \/ CollectVcenterInfo \/ Return
  <2>1. ~panicked
    BY <1>3, AtWork DEF BeginGather, CollectVcenterInfo, Return, Working
  <2>2. UNCHANGED <<cacheVars, inventory>> /\ \E stage : Enter(stage)
    BY <1>3 DEF BeginGather, CollectVcenterInfo, Return, Proceed
  <2>3. UNCHANGED panicked
    BY <2>2 DEF cacheVars
  <2>4. PipelineInv'
    BY <2>1, <2>2, <2>3, Entered DEF PipelineInv
  <2>5. QED
    BY <2>2, <2>4 DEF Good
<1>4. QED
  BY <1>1, <1>2, <1>3

-----------------------------------------------------------------------------
LEMMA StepIsCollectors == IInv /\ PipelineInv /\ [GatherNext]_vars => Good
<1> SUFFICES ASSUME IInv, PipelineInv, [GatherNext]_vars PROVE Good
  OBVIOUS
<1>1. CASE UNCHANGED vars
  BY <1>1 DEF vars, gatherVars, Good, PipelineInv, cacheVars
<1>2. CASE BeginGather \/ InventoryChanges \/ TimePasses \/ ContextExpires
  BY <1>2, Outside
<1>3. CASE PluginStep
  <2>1. CASE CollectVcenterInfo \/ Return
    BY <2>1, Outside
  <2>2. CASE \/ CollectClusterInfo \/ CollectHostServices \/ CollectNetDVS
             \/ CollectNetDVP \/ CollectDatastoresInfo \/ CollectVmsInfo
    BY <2>2, Querying
    DEF CollectClusterInfo, CollectHostServices, CollectNetDVS, CollectNetDVP,
        CollectDatastoresInfo, CollectVmsInfo
  <2>3. CASE CollectHostHBA \/ CollectHostNIC \/ CollectHostFw \/ CollectHostGraphics
    BY <2>3, Commanding
    DEF CollectHostHBA, CollectHostNIC, CollectHostFw, CollectHostGraphics, EsxcliStages
  <2>4. CASE RefreshList \/ ResetTimes \/ EndLoop \/ CollectDatacenterInfo \/ SelfMetrics
    BY <2>4, Refreshing, Resetting, Ending, Counting
  <2>5. CASE CollectHostInfo \/ ReportHostEsxcliResponse
    BY <2>5, Informing, Reporting
  <2>6. QED
    BY <1>3, <2>1, <2>2, <2>3, <2>4, <2>5 DEF PluginStep
<1>4. QED
  BY <1>1, <1>2, <1>3 DEF GatherNext

\* Every gather, under every set of options, uses the collector as a client of
\* the library may: it maps to CollectorSpec with no refinement mapping but the
\* forgetting of the pipeline's own variables.
THEOREM GatherIsClient == GatherSpec => CollectorSpec
<1>1. GatherInit => CacheInit /\ IInv /\ PipelineInv
  BY InitEstablishes DEF GatherInit, CacheInit, PipelineInv
<1>2. IInv /\ PipelineInv /\ [GatherNext]_vars => IInv' /\ PipelineInv' /\ [CollectorNext]_cacheVars
  BY StepIsCollectors, CollectorStepPreserves DEF Good
<1>3. QED
  BY <1>1, <1>2, PTL DEF GatherSpec, CollectorSpec

\* What is proved of the collector is true of the plugin.
THEOREM GatherKeepsCache ==
    GatherSpec => [](CacheTypeOK /\ SlicesAreParallel /\ EveryHostHasItsState
                     /\ SkippedSinceSomeTime /\ NewerHostsMatchDatacenters)
  BY GatherIsClient, CollectorInvariant, PTL DEF IInv
=============================================================================
