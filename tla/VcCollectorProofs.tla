-------------------------- MODULE VcCollectorProofs ---------------------------
(***************************************************************************)
(* Proofs about VcCollector: its invariants hold for every set of          *)
(* inventories, whatever the collector's client calls, in any order.       *)
(***************************************************************************)
EXTENDS VcCollector, TLAPS

\* The constants are what HostState and VcCache assume of them.
USE SkipForAssumption, NeverAssumption, MaxRunsAssumption, DataDurationAssumption

-----------------------------------------------------------------------------
\* A function on 1..n is a sequence of length n.
LEMMA FunctionIsSeq ==
    ASSUME NEW S, NEW n \in Nat, NEW f \in [1..n -> S]
    PROVE  f \in Seq(S) /\ Len(f) = n /\ DOMAIN f = 1..n
  OBVIOUS

\* The methods of hostState keep its type, and keep a time with every mark
\* of a host that does not respond.
StateOK(h) == h \in HostStates /\ (h.notResponding => h.lastNoResponse # Never)

LEMMA ZeroStateOK == StateOK(ZeroState)
  BY DEF StateOK, ZeroState, HostStates, NoResponseAges

LEMMA AskedOK ==
    ASSUME NEW h, StateOK(h), NEW skip \in Nat
    PROVE  StateOK(Asked(h, skip)) /\ Asked(h, skip).responseTime = h.responseTime
  BY DEF StateOK, Asked, setNotResponding, HostStates

LEMMA SumOK ==
    ASSUME NEW h, StateOK(h), h.responseTime < MaxRuns
    PROVE  StateOK(sumResponseTime(h))
  BY DEF StateOK, sumResponseTime, HostStates

LEMMA NotRespondingOK ==
    ASSUME NEW h, StateOK(h)
    PROVE  StateOK(setNotResponding(h, TRUE))
<1>1. PICK g \in HostStates : g = [h EXCEPT !.notResponding = TRUE]
  BY DEF StateOK, HostStates
<1>2. StateOK([g EXCEPT !.lastNoResponse = 0])
  BY DEF StateOK, HostStates, NoResponseAges
<1>3. setNotResponding(h, TRUE) = [g EXCEPT !.lastNoResponse = 0]
  BY <1>1 DEF setNotResponding
<1>4. QED
  BY <1>2, <1>3

LEMMA AfterVisitOK ==
    ASSUME NEW h, StateOK(h), NEW o \in Outcomes,
           o \in {"skipped", "executor"} \/ h.responseTime < MaxRuns
    PROVE  StateOK(AfterVisit(h, o))
<1>1. PICK a : a = Asked(h, SkipFor)
  OBVIOUS
<1>2. StateOK(a) /\ a.responseTime = h.responseTime
  BY <1>1, AskedOK
<1>3. o \notin {"skipped", "executor"} => StateOK(sumResponseTime(a))
  BY <1>2, SumOK
<1>4. PICK s : s = sumResponseTime(a)
  OBVIOUS
<1>5. o \notin {"skipped", "executor"} => StateOK(setNotResponding(s, TRUE))
  BY <1>3, <1>4, NotRespondingOK
<1>6. QED
  BY <1>1, <1>2, <1>3, <1>4, <1>5, Zenon DEF AfterVisit

LEMMA AgedOK == ASSUME NEW h, StateOK(h) PROVE StateOK(Aged(h))
  BY DEF StateOK, Aged, HostStates, NoResponseAges

LEMMA ConnectionOK ==
    ASSUME NEW h, StateOK(h), NEW conn \in BOOLEAN
    PROVE  StateOK(setNotConnected(h, conn))
  BY DEF StateOK, setNotConnected, HostStates

-----------------------------------------------------------------------------
(***************************************************************************)
(* The inductive invariant.  EveryHostHasItsState is not inductive alone:  *)
(* that a resize reaches hostStates depends on its length, which the code  *)
(* never looks at, being that of clusters and hosts.                       *)
(***************************************************************************)
IInv ==
    /\ CacheTypeOK
    /\ SlicesAreParallel
    /\ EveryHostHasItsState
    /\ SkippedSinceSomeTime
    /\ NewerHostsMatchDatacenters

StatesOK(ss) ==
    /\ ss \in Seq(Seq(HostStates))
    /\ \A i \in DOMAIN ss : \A j \in DOMAIN ss[i] : StateOK(ss[i][j])

\* What a method that only writes host states does: each stays at its place.
SamePlaces(old, new) ==
    /\ new = [i \in 1..Len(old) |-> new[i]]
    /\ \A i \in 1..Len(old) :
          /\ new[i] = [j \in 1..Len(old[i]) |-> new[i][j]]
          /\ \A j \in 1..Len(old[i]) : StateOK(new[i][j])

LEMMA SamePlacesOK ==
    ASSUME NEW old \in Seq(Seq(HostStates)), NEW new, SamePlaces(old, new)
    PROVE  /\ StatesOK(new)
           /\ Len(new) = Len(old)
           /\ \A i \in 1..Len(old) : Len(new[i]) = Len(old[i])
<1>1. ASSUME NEW i \in 1..Len(old)
      PROVE  new[i] \in Seq(HostStates) /\ Len(new[i]) = Len(old[i])
  <2>1. Len(old[i]) \in Nat
    OBVIOUS
  <2>2. new[i] \in [1..Len(old[i]) -> HostStates]
    BY DEF SamePlaces, StateOK
  <2>3. QED
    BY <2>1, <2>2, FunctionIsSeq
<1>2. new \in [1..Len(old) -> Seq(HostStates)] /\ Len(old) \in Nat
  BY <1>1 DEF SamePlaces
<1>3. new \in Seq(Seq(HostStates)) /\ Len(new) = Len(old)
  BY <1>2, FunctionIsSeq
<1>4. QED
  BY <1>1, <1>3 DEF StatesOK, SamePlaces

LEMMA TypedStates ==
    ASSUME CacheTypeOK, SkippedSinceSomeTime PROVE StatesOK(hostStates)
  BY DEF CacheTypeOK, SkippedSinceSomeTime, StatesOK, StateOK

\* A listed host has a state at its position.
LEMMA ListedTyped ==
    ASSUME IInv, NEW i \in DOMAIN hosts, NEW j \in DOMAIN hosts[i]
    PROVE  /\ hosts[i][j] \in Hosts
           /\ i \in DOMAIN hostStates /\ j \in DOMAIN hostStates[i]
           /\ i \in 1..Len(hostStates) /\ j \in 1..Len(hostStates[i])
           /\ hostStates[i][j] \in HostStates
           /\ HasState(i, j)
<1>1. hosts \in Seq(Seq(Hosts)) /\ hostStates \in Seq(Seq(HostStates))
  BY DEF IInv, CacheTypeOK
<1>2. hosts[i] # <<>>
  OBVIOUS
<1>3. i \in DOMAIN hostStates /\ Len(hostStates[i]) = Len(hosts[i])
  BY <1>2 DEF IInv, EveryHostHasItsState
<1>4. j \in DOMAIN hostStates[i]
  BY <1>1, <1>3
<1>5. QED
  BY <1>1, <1>3, <1>4 DEF HasState

LEMMA SeqIsFunction ==
    ASSUME NEW S, NEW s \in Seq(S)
    PROVE  /\ Len(s) \in Nat /\ DOMAIN s = 1..Len(s)
           /\ s = [k \in 1..Len(s) |-> s[k]]
           /\ \A k, e : [s EXCEPT ![k] = e] = [m \in 1..Len(s) |-> IF m = k THEN e ELSE s[m]]
<1>1. s \in [1..Len(s) -> S] /\ Len(s) \in Nat
  OBVIOUS
<1>2. QED
  BY <1>1, Zenon

LEMMA UnchangedStates == ASSUME NEW ss, StatesOK(ss) PROVE SamePlaces(ss, ss)
<1>1. ss \in Seq(Seq(HostStates))
  BY DEF StatesOK
<1>2. /\ DOMAIN ss = 1..Len(ss)
      /\ ss = [i \in 1..Len(ss) |-> ss[i]]
  BY <1>1, SeqIsFunction
<1>3. ASSUME NEW i \in 1..Len(ss)
      PROVE  /\ ss[i] = [j \in 1..Len(ss[i]) |-> ss[i][j]]
             /\ \A j \in 1..Len(ss[i]) : StateOK(ss[i][j])
  <2>1. ss[i] \in Seq(HostStates)
    BY <1>1
  <2>2. /\ DOMAIN ss[i] = 1..Len(ss[i])
        /\ ss[i] = [j \in 1..Len(ss[i]) |-> ss[i][j]]
    BY <2>1, SeqIsFunction
  <2>3. QED
    BY <1>2, <2>2, Zenon DEF StatesOK
<1>4. QED
  BY <1>2, <1>3, Zenon DEF SamePlaces

LEMMA OnlyStatesChange ==
    ASSUME IInv, UNCHANGED <<dcVars, clusters, hosts, ntVars, dsVars, vmVars, lastCHUpdate>>,
           panicked' \in BOOLEAN, SamePlaces(hostStates, hostStates')
    PROVE  IInv'
<1>1. /\ StatesOK(hostStates')
      /\ Len(hostStates') = Len(hostStates)
      /\ \A i \in 1..Len(hostStates) : Len(hostStates'[i]) = Len(hostStates[i])
  BY SamePlacesOK DEF IInv, CacheTypeOK
<1>2. CacheTypeOK'
  BY <1>1 DEF IInv, CacheTypeOK, StatesOK, dcVars, ntVars, dsVars, vmVars, Ages, Provenances
<1>3. SlicesAreParallel'
  BY <1>1 DEF IInv, SlicesAreParallel
<1>4. EveryHostHasItsState'
  BY <1>1 DEF IInv, EveryHostHasItsState, CacheTypeOK, StatesOK
<1>5. SkippedSinceSomeTime'
  BY <1>1 DEF SkippedSinceSomeTime, StatesOK, StateOK
<1>6. NewerHostsMatchDatacenters'
  BY DEF IInv, NewerHostsMatchDatacenters, dcVars
<1>7. QED
  BY <1>2, <1>3, <1>4, <1>5, <1>6 DEF IInv

-----------------------------------------------------------------------------
LEMMA InitEstablishes == CacheInit => IInv
<1> SUFFICES ASSUME CacheInit PROVE IInv
  OBVIOUS
<1>1. CacheTypeOK
  <2>1. \A S : <<>> \in Seq(S)
    OBVIOUS
  <2>2. DataDuration \in Ages
    BY DEF Ages
  <2>3. QED
    BY <2>1, <2>2, Zenon DEF CacheInit, CacheTypeOK, Provenances
<1>2. SlicesAreParallel
  BY DEF CacheInit, SlicesAreParallel
<1>3. EveryHostHasItsState /\ SkippedSinceSomeTime
  BY DEF CacheInit, EveryHostHasItsState, SkippedSinceSomeTime
<1>4. NewerHostsMatchDatacenters
  BY DEF CacheInit, NewerHostsMatchDatacenters
<1>5. QED
  BY <1>1, <1>2, <1>3, <1>4 DEF IInv

LEMMA OlderOK ==
    ASSUME NEW a \in Ages, NEW b \in Ages
    PROVE  Older(a) \in Ages /\ (Older(a) < Older(b) => a < b)
  BY DEF Older, Ages

LEMMA TickPreserves == IInv /\ Tick => IInv'
<1> SUFFICES ASSUME IInv, Tick PROVE IInv'
  OBVIOUS
<1>1. StatesOK(hostStates)
  BY TypedStates DEF IInv
<1>2. \A i \in 1..Len(hostStates) : \A j \in 1..Len(hostStates[i]) :
         StateOK(Aged(hostStates[i][j]))
  BY <1>1, AgedOK DEF StatesOK
<1>3. SamePlaces(hostStates, hostStates')
  BY <1>2 DEF Tick, SamePlaces
<1>4. /\ StatesOK(hostStates')
      /\ Len(hostStates') = Len(hostStates)
      /\ \A i \in 1..Len(hostStates) : Len(hostStates'[i]) = Len(hostStates[i])
  BY <1>3, SamePlacesOK DEF IInv, CacheTypeOK
<1>5. CacheTypeOK'
  BY <1>4, OlderOK DEF IInv, Tick, CacheTypeOK, StatesOK, Provenances
<1>6. SlicesAreParallel'
  BY <1>4 DEF IInv, Tick, SlicesAreParallel
<1>7. EveryHostHasItsState'
  BY <1>4 DEF IInv, Tick, EveryHostHasItsState, StatesOK, CacheTypeOK
<1>8. SkippedSinceSomeTime'
  BY <1>4 DEF SkippedSinceSomeTime, StatesOK, StateOK
<1>9. NewerHostsMatchDatacenters'
  BY OlderOK DEF IInv, Tick, NewerHostsMatchDatacenters, CacheTypeOK
<1>10. QED
  BY <1>5, <1>6, <1>7, <1>8, <1>9 DEF IInv

LEMMA ResetPreserves == IInv /\ Reset => IInv'
<1> SUFFICES ASSUME IInv, Reset PROVE IInv'
  OBVIOUS
<1>1. StatesOK(hostStates)
  BY TypedStates DEF IInv
<1>2. ASSUME NEW h, StateOK(h) PROVE StateOK(WithoutTime(h))
  BY <1>2 DEF StateOK, HostStates, WithoutTime
<1>3. \A i \in 1..Len(hostStates) : \A j \in 1..Len(hostStates[i]) :
         StateOK(hostStates[i][j]) /\ StateOK(WithoutTime(hostStates[i][j]))
  BY <1>1, <1>2 DEF StatesOK
<1>4. SamePlaces(hostStates, hostStates')
  <2>1. CASE Covers(hostStates)
    <3> DEFINE Row(i) == IF i > Len(dcs) THEN hostStates[i]
                         ELSE [j \in 1..Len(hostStates[i]) |-> WithoutTime(hostStates[i][j])]
    <3>1. hostStates' = [i \in 1..Len(hostStates) |-> Row(i)]
      BY <2>1 DEF Reset, ResetResponseTimes
    <3>2. ASSUME NEW i \in 1..Len(hostStates)
          PROVE  /\ Row(i) = [j \in 1..Len(hostStates[i]) |-> Row(i)[j]]
                 /\ \A j \in 1..Len(hostStates[i]) : StateOK(Row(i)[j])
      <4>1. SamePlaces(hostStates, hostStates)
        BY <1>1, UnchangedStates
      <4>2. CASE i > Len(dcs)
        BY <4>1, <4>2, Zenon DEF SamePlaces
      <4>3. CASE ~(i > Len(dcs))
        BY <1>3, <4>3
      <4>4. QED
        BY <4>2, <4>3
    <3>3. QED
      BY <3>1, <3>2, Zenon DEF SamePlaces
  <2>2. CASE ~Covers(hostStates)
    <3>1. hostStates' = hostStates
      BY <2>2 DEF Reset, ResetResponseTimes
    <3>2. QED
      BY <1>1, <3>1, UnchangedStates
  <2>3. QED
    BY <2>1, <2>2
<1>5. panicked' \in BOOLEAN
  BY DEF IInv, CacheTypeOK, Reset, ResetResponseTimes
<1>6. QED
  BY <1>4, <1>5, OnlyStatesChange DEF Reset, listVars

LEMMA OneRowChanges ==
    ASSUME NEW ss, StatesOK(ss), NEW i \in DOMAIN ss, NEW row,
           row = [k \in 1..Len(ss[i]) |-> row[k]],
           \A k \in 1..Len(ss[i]) : StateOK(row[k])
    PROVE  SamePlaces(ss, [ss EXCEPT ![i] = row])
<1>1. ss \in Seq(Seq(HostStates))
  BY DEF StatesOK
<1>2. PICK new : new = [ss EXCEPT ![i] = row]
  OBVIOUS
<1>3. /\ DOMAIN ss = 1..Len(ss)
      /\ new = [m \in 1..Len(ss) |-> IF m = i THEN row ELSE ss[m]]
  BY <1>1, <1>2, SeqIsFunction
<1>4. ASSUME NEW k \in 1..Len(ss)
      PROVE  /\ new[k] = [m \in 1..Len(ss[k]) |-> new[k][m]]
             /\ \A m \in 1..Len(ss[k]) : StateOK(new[k][m])
  <2>1. CASE k = i
    BY <1>3, <2>1
  <2>2. CASE k # i
    <3>1. new[k] = ss[k] /\ ss[k] \in Seq(HostStates)
      BY <1>1, <1>3, <2>2
    <3>2. /\ ss[k] = [m \in 1..Len(ss[k]) |-> ss[k][m]]
          /\ DOMAIN ss[k] = 1..Len(ss[k])
      BY <3>1, SeqIsFunction
    <3>3. \A m \in 1..Len(ss[k]) : StateOK(ss[k][m])
      BY <1>3, <3>2 DEF StatesOK
    <3>4. QED
      BY <3>1, <3>2, <3>3, Zenon
  <2>3. QED
    BY <2>1, <2>2
<1>5. SamePlaces(ss, new)
  BY <1>3, <1>4 DEF SamePlaces
<1>6. QED
  BY <1>2, <1>5

LEMMA OneStateChanges ==
    ASSUME NEW ss, StatesOK(ss), NEW i \in DOMAIN ss, NEW j \in DOMAIN ss[i],
           NEW st, StateOK(st)
    PROVE  SamePlaces(ss, [ss EXCEPT ![i][j] = st])
<1>1. PICK row : row = [ss[i] EXCEPT ![j] = st]
  OBVIOUS
<1>2. ss[i] \in Seq(HostStates)
  BY DEF StatesOK
<1>3. /\ DOMAIN ss[i] = 1..Len(ss[i])
      /\ row = [m \in 1..Len(ss[i]) |-> IF m = j THEN st ELSE ss[i][m]]
  BY <1>1, <1>2, SeqIsFunction
<1>4. \A k \in 1..Len(ss[i]) : StateOK(row[k])
  BY <1>3 DEF StatesOK
<1>5. row = [k \in 1..Len(ss[i]) |-> row[k]]
  BY <1>3
<1>6. SamePlaces(ss, [ss EXCEPT ![i] = row])
  BY <1>4, <1>5, OneRowChanges
<1>7. QED
  BY <1>1, <1>6

LEMMA InfoPreserves == IInv /\ Info => IInv'
<1> SUFFICES ASSUME IInv, Info PROVE IInv'
  OBVIOUS
<1>1. StatesOK(hostStates)
  BY TypedStates DEF IInv
<1>2. PICK i \in 1..Len(dcs) : \E seen, up : HostInfo(i, seen, up)
  BY DEF Info
<1>3. PICK seen, up : HostInfo(i, seen, up)
  BY <1>2
<1>4. i \in DOMAIN hostStates
  BY <1>3 DEF HostInfo, IInv, CacheTypeOK, SlicesAreParallel
<1>5. SamePlaces(hostStates, hostStates')
  <2>1. PICK row : row = [j \in DOMAIN hostStates[i] |->
                            IF j \in seen THEN setNotConnected(hostStates[i][j], j \notin up)
                            ELSE hostStates[i][j]]
    OBVIOUS
  <2>2. DOMAIN hostStates[i] = 1..Len(hostStates[i])
    BY <1>1, <1>4 DEF StatesOK
  <2>3. \A j \in DOMAIN hostStates[i] : StateOK(hostStates[i][j])
    BY <1>1, <1>4 DEF StatesOK
  <2>4. \A j \in DOMAIN hostStates[i] : StateOK(setNotConnected(hostStates[i][j], j \notin up))
    BY <2>3, ConnectionOK
  <2>5. \A j \in 1..Len(hostStates[i]) : StateOK(row[j])
    BY <2>1, <2>2, <2>3, <2>4
  <2>6. SamePlaces(hostStates, [hostStates EXCEPT ![i] = row])
    BY <1>1, <1>4, <2>1, <2>2, <2>5, OneRowChanges
  <2>7. QED
    BY <1>3, <2>1, <2>6 DEF HostInfo
<1>6. QED
  BY <1>5, OnlyStatesChange DEF Info, listVars, IInv, CacheTypeOK

LEMMA EsxcliPreserves == IInv /\ Esxcli => IInv'
<1> SUFFICES ASSUME IInv, Esxcli PROVE IInv'
  OBVIOUS
<1>1. StatesOK(hostStates)
  BY TypedStates DEF IInv
<1>2. PICK i \in DOMAIN hosts : \E j \in DOMAIN hosts[i], o \in Outcomes : EsxcliVisit(i, j, o)
  BY DEF Esxcli
<1>3. PICK j \in DOMAIN hosts[i], o \in Outcomes : EsxcliVisit(i, j, o)
  BY <1>2
<1>4. StateOK(AfterVisit(hostStates[i][j], o))
  BY <1>1, <1>3, AfterVisitOK DEF EsxcliVisit, HasState, StatesOK
<1>5. SamePlaces(hostStates, hostStates')
  BY <1>1, <1>3, <1>4, OneStateChanges DEF EsxcliVisit, HasState
<1>6. QED
  BY <1>5, OnlyStatesChange DEF Esxcli, listVars, IInv, CacheTypeOK

LEMMA ReportPreserves == IInv /\ Report => IInv'
<1> SUFFICES ASSUME IInv, Report PROVE IInv'
  OBVIOUS
<1>1. StatesOK(hostStates)
  BY TypedStates DEF IInv
<1>2. PICK i \in DOMAIN hosts : \E j : ReportHost(i, j)
  BY DEF Report
<1>3. PICK j : ReportHost(i, j)
  BY <1>2
<1>4. StateOK(Asked(hostStates[i][j], 0))
  BY <1>1, <1>3, AskedOK DEF ReportHost, FilteredIn, HasState, StatesOK
<1>5. SamePlaces(hostStates, hostStates')
  BY <1>1, <1>3, <1>4, OneStateChanges DEF ReportHost, FilteredIn, HasState
<1>6. QED
  BY <1>5, OnlyStatesChange DEF Report, listVars, IInv, CacheTypeOK

-----------------------------------------------------------------------------
(***************************************************************************)
(* The refreshes.                                                          *)
(***************************************************************************)
LEMMA DatacentersListed ==
    ASSUME CacheTypeOK, NEW v \in Inventories, NEW ok \in BOOLEAN, getDatacenters(v, ok)
    PROVE  /\ dcs' \in Seq(Datacenters) /\ lastDCUpdate' \in Ages
           /\ UNCHANGED dcVars \/ lastDCUpdate' = 0 \/ dcs' = <<>>
<1>1. v.dcs \in Seq(Datacenters)
  BY InventoriesAssumption
<1>2. <<>> \in Seq(Datacenters) /\ 0 \in Ages
  BY DEF Ages
<1>3. QED
  BY <1>1, <1>2, Zenon DEF CacheTypeOK, getDatacenters, dcVars

LEMMA ListedOK ==
    ASSUME NEW ds \in Seq(Datacenters), NEW ok \in BOOLEAN
    PROVE  Listed(ds, ok) \in Provenances /\ Len(Listed(ds, ok)) = Len(ds)
<1>1. Len(ds) \in Nat /\ ds \in [1..Len(ds) -> Datacenters]
  OBVIOUS
<1>2. Listed(ds, ok) \in [1..Len(ds) -> Datacenters \cup {None}]
  BY <1>1 DEF Listed
<1>3. QED
  BY <1>1, <1>2, FunctionIsSeq DEF Provenances

\* A list of datacenters is either the old one or not older than any host list.
LEMMA HostsStayNewer ==
    ASSUME CacheTypeOK, NewerHostsMatchDatacenters, UNCHANGED <<hosts, lastCHUpdate>>,
           UNCHANGED dcVars \/ lastDCUpdate' = 0 \/ dcs' = <<>>
    PROVE  NewerHostsMatchDatacenters'
  BY DEF CacheTypeOK, NewerHostsMatchDatacenters, dcVars, Ages

\* What the loop over the datacenters ds leaves, wherever it ends.
LEMMA HostsListed ==
    ASSUME IInv, NEW v \in Inventories, NEW ds \in Seq(Datacenters),
           NEW e \in Endings(Len(ds)), ListClustersAndHosts(v, ds, e)
    PROVE  /\ clusters' \in Provenances /\ Len(clusters') = Len(ds)
           /\ hosts' \in Seq(Seq(Hosts)) /\ Len(hosts') = Len(ds)
           /\ StatesOK(hostStates') /\ Len(hostStates') = Len(ds)
           /\ lastCHUpdate' = IF e.on = "nil" THEN 0 ELSE lastCHUpdate
           /\ EveryHostHasItsState'
<1> DEFINE n       == Len(ds)
           resized == n # Len(clusters) \/ n # Len(hosts)
           old     == IF resized THEN [i \in 1..n |-> <<>>] ELSE hosts
           states  == IF resized THEN [i \in 1..n |-> <<>>] ELSE hostStates
           found   == [i \in 1..n |-> v.hosts[ds[i]]]
           change(i) == PlatformChange(resized, old, found, i)
           hosts1  == [i \in 1..n |-> IF i < e.at THEN found[i]
                                      ELSE IF i = e.at /\ e.on = "hosts" THEN <<>>
                                      ELSE old[i]]
           states1 == [i \in 1..n |-> IF i < e.at /\ change(i)
                                      THEN [j \in 1..Len(found[i]) |-> ZeroState]
                                      ELSE states[i]]
<1>1. /\ \A i \in 1..n : i < e.at => found[i] # <<>>
      /\ clusters' = Listed(ds, e.on = "nil")
      /\ hosts' = hosts1
      /\ hostStates' = states1
      /\ lastCHUpdate' = IF e.on = "nil" THEN 0 ELSE lastCHUpdate
  BY Zenon DEF ListClustersAndHosts
<1>2. n \in Nat
  OBVIOUS
<1>3. found \in [1..n -> Seq(Hosts)]
  BY InventoriesAssumption
<1>4. StatesOK(hostStates) /\ Len(clusters) = Len(hosts) /\ Len(hosts) = Len(hostStates)
  BY TypedStates DEF IInv, SlicesAreParallel
<1>5. ASSUME NEW i \in 1..n
      PROVE  /\ old[i] \in Seq(Hosts)
             /\ states[i] \in Seq(HostStates)
             /\ \A j \in DOMAIN states[i] : StateOK(states[i][j])
             /\ old[i] # <<>> => Len(states[i]) = Len(old[i])
  <2>1. CASE resized
    <3>1. old = [m \in 1..n |-> <<>>] /\ states = [m \in 1..n |-> <<>>]
      BY <2>1, Zenon
    <3>2. old[i] = <<>> /\ states[i] = <<>>
      BY <3>1, Zenon
    <3> HIDE DEF old, states
    <3>3. QED
      BY <3>2
  <2>2. CASE ~resized
    <3>1. old = hosts /\ states = hostStates /\ n = Len(hosts) /\ n = Len(hostStates)
      BY <1>4, <2>2
    <3>2. hosts \in Seq(Seq(Hosts)) /\ hostStates \in Seq(Seq(HostStates))
      BY DEF IInv, CacheTypeOK
    <3>3. i \in DOMAIN hosts /\ i \in DOMAIN hostStates
      <4>1. DOMAIN hosts = 1..Len(hosts) /\ DOMAIN hostStates = 1..Len(hostStates)
        BY <3>2, SeqIsFunction
      <4>2. QED
        BY <3>1, <4>1, Zenon
    <3>4. hosts[i] \in Seq(Hosts) /\ hostStates[i] \in Seq(HostStates)
      BY <3>2, <3>3
    <3>5. hosts[i] # <<>> => Len(hostStates[i]) = Len(hosts[i])
      BY <3>3 DEF IInv, EveryHostHasItsState
    <3>6. \A j \in DOMAIN hostStates[i] : StateOK(hostStates[i][j])
      BY <1>4, <3>3 DEF StatesOK
    <3>7. QED
      BY <3>1, <3>4, <3>5, <3>6
  <2>3. QED
    BY <2>1, <2>2
<1>6. ASSUME NEW i \in 1..n
      PROVE  /\ hosts1[i] \in Seq(Hosts)
             /\ states1[i] \in Seq(HostStates)
             /\ \A j \in DOMAIN states1[i] : StateOK(states1[i][j])
             /\ hosts1[i] # <<>> => Len(states1[i]) = Len(hosts1[i])
  <2> HIDE DEF old, states, found, change, resized
  <2>1. found[i] \in Seq(Hosts) /\ Len(found[i]) \in Nat
    BY <1>3
  <2>2. CASE i < e.at /\ change(i)
    <3>1. hosts1[i] = found[i] /\ states1[i] = [j \in 1..Len(found[i]) |-> ZeroState]
      BY <2>2
    <3>2. states1[i] \in [1..Len(found[i]) -> HostStates]
      BY <3>1, ZeroStateOK DEF StateOK
    <3>3. /\ states1[i] \in Seq(HostStates) /\ Len(states1[i]) = Len(found[i])
          /\ DOMAIN states1[i] = 1..Len(found[i])
      BY <2>1, <3>2, FunctionIsSeq
    <3>4. \A j \in DOMAIN states1[i] : StateOK(states1[i][j])
      BY <3>1, <3>3, ZeroStateOK
    <3>5. QED
      BY <2>1, <3>1, <3>3, <3>4
  <2>3. CASE i < e.at /\ ~change(i)
    <3>1. hosts1[i] = found[i] /\ states1[i] = states[i]
      BY <2>3
    <3>2. found[i] # <<>> /\ Len(old[i]) = Len(found[i])
      BY <1>1, <2>3 DEF change, PlatformChange
    <3>3. old[i] # <<>>
      BY <1>5, <2>1, <3>2
    <3>4. QED
      BY <1>5, <2>1, <3>1, <3>2, <3>3
  <2>4. CASE ~(i < e.at) /\ i = e.at /\ e.on = "hosts"
    <3>1. hosts1[i] = <<>> /\ states1[i] = states[i]
      BY <2>4
    <3>2. QED
      BY <1>5, <3>1
  <2>5. CASE ~(i < e.at) /\ ~(i = e.at /\ e.on = "hosts")
    <3>1. hosts1[i] = old[i] /\ states1[i] = states[i]
      BY <2>5
    <3>2. QED
      BY <1>5, <3>1
  <2>6. QED
    BY <2>2, <2>3, <2>4, <2>5
<1>7. hosts1 \in [1..n -> Seq(Hosts)] /\ states1 \in [1..n -> Seq(HostStates)]
  BY <1>6
<1> HIDE DEF hosts1, states1
<1>8. /\ hosts1 \in Seq(Seq(Hosts)) /\ Len(hosts1) = n /\ DOMAIN hosts1 = 1..n
      /\ states1 \in Seq(Seq(HostStates)) /\ Len(states1) = n /\ DOMAIN states1 = 1..n
  BY <1>2, <1>7, FunctionIsSeq
<1>9. EveryHostHasItsState'
  BY <1>1, <1>6, <1>8, Zenon DEF EveryHostHasItsState
<1>10. StatesOK(hostStates')
  BY <1>1, <1>6, <1>8, Zenon DEF StatesOK
<1>11. clusters' \in Provenances /\ Len(clusters') = n
  BY <1>1, ListedOK
<1>12. QED
  BY <1>1, <1>8, <1>9, <1>10, <1>11

\* The part of the invariant that the refresh of clusters and hosts disturbs.
ListsOK ==
    /\ dcs \in Seq(Datacenters) /\ lastDCUpdate \in Ages
    /\ clusters \in Provenances
    /\ hosts \in Seq(Seq(Hosts))
    /\ hostStates \in Seq(Seq(HostStates))
    /\ lastCHUpdate \in Ages
    /\ SlicesAreParallel
    /\ EveryHostHasItsState
    /\ SkippedSinceSomeTime
    /\ NewerHostsMatchDatacenters

LEMMA ClustersAndHostsRefreshed ==
    ASSUME IInv, NEW v \in Inventories, NEW ok \in BOOLEAN,
           getAllDatacentersClustersAndHosts(v, ok)
    PROVE  ListsOK'
<1>1. CASE UNCHANGED <<dcVars, chVars>>
  BY <1>1 DEF ListsOK, IInv, CacheTypeOK, dcVars, chVars, SlicesAreParallel,
              EveryHostHasItsState, SkippedSinceSomeTime, NewerHostsMatchDatacenters
<1>2. CASE getDatacenters(v, FALSE) /\ UNCHANGED chVars
  <2>1. /\ dcs' \in Seq(Datacenters) /\ lastDCUpdate' \in Ages
        /\ UNCHANGED dcVars \/ lastDCUpdate' = 0 \/ dcs' = <<>>
    BY <1>2, DatacentersListed DEF IInv
  <2>2. NewerHostsMatchDatacenters'
    BY <1>2, <2>1, HostsStayNewer DEF IInv, chVars
  <2>3. QED
    BY <1>2, <2>1, <2>2
    DEF ListsOK, IInv, CacheTypeOK, chVars, SlicesAreParallel, EveryHostHasItsState,
        SkippedSinceSomeTime
<1>3. CASE /\ ~Fresh(lastCHUpdate)
           /\ getDatacenters(v, TRUE)
           /\ \E e \in Endings(Len(dcs')) : ListClustersAndHosts(v, dcs', e)
  <2>1. dcs' \in Seq(Datacenters) /\ lastDCUpdate' \in Ages
    BY <1>3, DatacentersListed DEF IInv
  <2>2. PICK e \in Endings(Len(dcs')) : ListClustersAndHosts(v, dcs', e)
    BY <1>3
  <2>3. /\ clusters' \in Provenances /\ Len(clusters') = Len(dcs')
        /\ hosts' \in Seq(Seq(Hosts)) /\ Len(hosts') = Len(dcs')
        /\ StatesOK(hostStates') /\ Len(hostStates') = Len(dcs')
        /\ lastCHUpdate' = IF e.on = "nil" THEN 0 ELSE lastCHUpdate
        /\ EveryHostHasItsState'
    BY <2>1, <2>2, HostsListed
  <2>4. lastCHUpdate' \in Ages
    BY <2>3 DEF IInv, CacheTypeOK, Ages
  <2>5. SlicesAreParallel' /\ NewerHostsMatchDatacenters'
    BY <2>3 DEF SlicesAreParallel, NewerHostsMatchDatacenters
  <2>6. SkippedSinceSomeTime'
    BY <2>3 DEF StatesOK, StateOK, SkippedSinceSomeTime
  <2>7. QED
    BY <2>1, <2>3, <2>4, <2>5, <2>6 DEF ListsOK, StatesOK
<1>4. QED
  BY <1>1, <1>2, <1>3, Zenon DEF getAllDatacentersClustersAndHosts

LEMMA RefreshDatacentersPreserves == IInv /\ RefreshDatacenters => IInv'
<1> SUFFICES ASSUME IInv, RefreshDatacenters PROVE IInv'
  OBVIOUS
<1>1. PICK v \in Inventories, ok \in BOOLEAN : getDatacenters(v, ok)
  BY DEF RefreshDatacenters
<1>2. /\ dcs' \in Seq(Datacenters) /\ lastDCUpdate' \in Ages
      /\ UNCHANGED dcVars \/ lastDCUpdate' = 0 \/ dcs' = <<>>
  BY <1>1, DatacentersListed DEF IInv
<1>3. NewerHostsMatchDatacenters'
  BY <1>2, HostsStayNewer DEF IInv, RefreshDatacenters, chVars
<1>4. QED
  BY <1>2, <1>3
  DEF RefreshDatacenters, IInv, CacheTypeOK, SlicesAreParallel, EveryHostHasItsState,
      SkippedSinceSomeTime, chVars, ntVars, dsVars, vmVars

LEMMA RefreshClustersAndHostsPreserves == IInv /\ RefreshClustersAndHosts => IInv'
<1> SUFFICES ASSUME IInv, RefreshClustersAndHosts PROVE IInv'
  OBVIOUS
<1>1. PICK v \in Inventories, ok \in BOOLEAN : getAllDatacentersClustersAndHosts(v, ok)
  BY DEF RefreshClustersAndHosts
<1>2. ListsOK'
  BY <1>1, ClustersAndHostsRefreshed
<1>3. QED
  BY <1>2 DEF RefreshClustersAndHosts, ListsOK, IInv, CacheTypeOK, ntVars, dsVars, vmVars

LEMMA RefreshNetworksPreserves == IInv /\ RefreshNetworks => IInv'
<1> SUFFICES ASSUME IInv, RefreshNetworks PROVE IInv'
  OBVIOUS
<1>1. PICK v \in Inventories, ok \in BOOLEAN : getAllDatacentersNetworks(v, ok)
  BY DEF RefreshNetworks
<1>2. UNCHANGED <<dcVars, ntVars>> \/
      \E listed \in BOOLEAN :
          /\ getDatacenters(v, listed)
          /\ UNCHANGED ntVars \/
             (nets' = Listed(dcs', ok) /\ lastNtUpdate' = IF ok THEN 0 ELSE lastNtUpdate)
  BY <1>1, Zenon DEF getAllDatacentersNetworks
<1>3. /\ dcs' \in Seq(Datacenters) /\ lastDCUpdate' \in Ages
      /\ UNCHANGED dcVars \/ lastDCUpdate' = 0 \/ dcs' = <<>>
  BY <1>2, DatacentersListed DEF IInv, CacheTypeOK, dcVars
<1>4. nets' \in Provenances /\ lastNtUpdate' \in Ages
  BY <1>2, <1>3, ListedOK DEF IInv, CacheTypeOK, ntVars, Ages
<1>5. NewerHostsMatchDatacenters'
  BY <1>3, HostsStayNewer DEF IInv, RefreshNetworks, chVars
<1>6. QED
  BY <1>3, <1>4, <1>5
  DEF RefreshNetworks, IInv, CacheTypeOK, SlicesAreParallel, EveryHostHasItsState,
      SkippedSinceSomeTime, chVars, dsVars, vmVars

LEMMA RefreshDatastoresPreserves == IInv /\ RefreshDatastores => IInv'
<1> SUFFICES ASSUME IInv, RefreshDatastores PROVE IInv'
  OBVIOUS
<1>1. PICK v \in Inventories, ok \in BOOLEAN : getAllDatacentersDatastores(v, ok)
  BY DEF RefreshDatastores
<1>2. UNCHANGED <<dcVars, dsVars>> \/
      \E listed \in BOOLEAN :
          /\ getDatacenters(v, listed)
          /\ UNCHANGED dsVars \/
             (dss' = Listed(dcs', ok) /\ lastDsUpdate' = IF ok THEN 0 ELSE lastDsUpdate)
  BY <1>1, Zenon DEF getAllDatacentersDatastores
<1>3. /\ dcs' \in Seq(Datacenters) /\ lastDCUpdate' \in Ages
      /\ UNCHANGED dcVars \/ lastDCUpdate' = 0 \/ dcs' = <<>>
  BY <1>2, DatacentersListed DEF IInv, CacheTypeOK, dcVars
<1>4. dss' \in Provenances /\ lastDsUpdate' \in Ages
  BY <1>2, <1>3, ListedOK DEF IInv, CacheTypeOK, dsVars, Ages
<1>5. NewerHostsMatchDatacenters'
  BY <1>3, HostsStayNewer DEF IInv, RefreshDatastores, chVars
<1>6. QED
  BY <1>3, <1>4, <1>5
  DEF RefreshDatastores, IInv, CacheTypeOK, SlicesAreParallel, EveryHostHasItsState,
      SkippedSinceSomeTime, chVars, ntVars, vmVars

LEMMA RefreshVMsPreserves == IInv /\ RefreshVMs => IInv'
<1> SUFFICES ASSUME IInv, RefreshVMs PROVE IInv'
  OBVIOUS
<1>1. PICK v \in Inventories, ok \in BOOLEAN : getAllDatacentersVMs(v, ok)
  BY DEF RefreshVMs
<1>2. UNCHANGED <<dcVars, chVars, vmVars>> \/
      \E listed \in BOOLEAN :
          /\ getAllDatacentersClustersAndHosts(v, listed)
          /\ UNCHANGED vmVars \/
             (vms' = Listed(dcs', ok) /\ lastVmUpdate' = IF ok THEN 0 ELSE lastVmUpdate)
  BY <1>1, Zenon DEF getAllDatacentersVMs
<1>3. ListsOK'
  <2>1. CASE UNCHANGED <<dcVars, chVars, vmVars>>
    BY <2>1 DEF ListsOK, IInv, CacheTypeOK, dcVars, chVars, SlicesAreParallel,
                EveryHostHasItsState, SkippedSinceSomeTime, NewerHostsMatchDatacenters
  <2>2. QED
    BY <1>2, <2>1, ClustersAndHostsRefreshed
<1>4. vms' \in Provenances /\ lastVmUpdate' \in Ages
  BY <1>2, <1>3, ListedOK DEF ListsOK, IInv, CacheTypeOK, vmVars, Ages
<1>5. QED
  BY <1>3, <1>4 DEF RefreshVMs, ListsOK, IInv, CacheTypeOK, ntVars, dsVars

LEMMA OthersPreserve == IInv /\ Others => IInv'
<1> SUFFICES ASSUME IInv, Others PROVE IInv'
  OBVIOUS
<1>1. SamePlaces(hostStates, hostStates')
  BY TypedStates, UnchangedStates DEF IInv, Others
<1>2. QED
  BY <1>1, OnlyStatesChange DEF Others, listVars

-----------------------------------------------------------------------------
LEMMA CollectorStepPreserves == IInv /\ [CollectorNext]_cacheVars => IInv'
<1> SUFFICES ASSUME IInv, [CollectorNext]_cacheVars PROVE IInv'
  OBVIOUS
<1>1. CASE UNCHANGED cacheVars
  BY <1>1 DEF cacheVars, dcVars, chVars, ntVars, dsVars, vmVars, IInv, CacheTypeOK,
              SlicesAreParallel, EveryHostHasItsState, SkippedSinceSomeTime,
              NewerHostsMatchDatacenters
<1>2. CASE CollectorNext
  BY <1>2, TickPreserves, RefreshDatacentersPreserves, RefreshClustersAndHostsPreserves,
     RefreshNetworksPreserves, RefreshDatastoresPreserves, RefreshVMsPreserves,
     ResetPreserves, InfoPreserves, EsxcliPreserves, ReportPreserves, OthersPreserve
  DEF CollectorNext
<1>3. QED
  BY <1>1, <1>2

\* Whatever a client calls, and however the vCenter answers, the invariant
\* stays: every step of the collector preserves it.
THEOREM CollectorInvariant == CollectorSpec => []IInv
  BY InitEstablishes, CollectorStepPreserves, PTL DEF CollectorSpec

\* The slices of the cache always have the types the code declares, and no age
\* is beyond the duration it is compared with.
THEOREM TypeCorrect == CollectorSpec => []CacheTypeOK
  BY CollectorInvariant, PTL DEF IInv

\* clusters, hosts and hostStates have one length, whatever failed half way.
THEOREM Parallel == CollectorSpec => []SlicesAreParallel
  BY CollectorInvariant, PTL DEF IInv

\* getHostState never indexes hostStates out of range: a listed host has its
\* state, in every state that a failed or interrupted refresh can leave.
THEOREM StatesForHosts == CollectorSpec => []EveryHostHasItsState
  BY CollectorInvariant, PTL DEF IInv

\* No mark of a host that does not respond is without the time it ends after.
THEOREM MarksHaveTimes == CollectorSpec => []SkippedSinceSomeTime
  BY CollectorInvariant, PTL DEF IInv

\* Hosts that were listed after the datacenters have one entry for each.
THEOREM NewerMatch == CollectorSpec => []NewerHostsMatchDatacenters
  BY CollectorInvariant, PTL DEF IInv
-----------------------------------------------------------------------------
(***************************************************************************)
(* NewerListsAreOfDatacenters, list by list.  It needs only the types: an  *)
(* age that is not fresh is the largest there is, so a list that a failed  *)
(* refresh has spoiled is never newer than anything.                       *)
(***************************************************************************)
InStep(list, last) == dcs # <<>> /\ last < lastDCUpdate => list = dcs

AllInStep ==
    /\ InStep(clusters, lastCHUpdate) /\ InStep(nets, lastNtUpdate)
    /\ InStep(dss, lastDsUpdate) /\ InStep(vms, lastVmUpdate)

LEMMA AllInStepIsProperty == AllInStep <=> NewerListsAreOfDatacenters
  BY DEF AllInStep, InStep, NewerListsAreOfDatacenters

DatacentersKept == UNCHANGED dcVars \/ lastDCUpdate' = 0 \/ dcs' = <<>>

\* A list that is kept stays in step when the datacenters are kept, refreshed
\* or lost.
LEMMA KeptInStep ==
    ASSUME IInv, AllInStep, DatacentersKept
    PROVE  /\ UNCHANGED chVars => InStep(clusters, lastCHUpdate)'
           /\ UNCHANGED ntVars => InStep(nets, lastNtUpdate)'
           /\ UNCHANGED dsVars => InStep(dss, lastDsUpdate)'
           /\ UNCHANGED vmVars => InStep(vms, lastVmUpdate)'
<1>1. ASSUME NEW list, NEW last \in Nat, InStep(list, last)
      PROVE  dcs' # <<>> /\ last < lastDCUpdate' => list = dcs'
  BY <1>1 DEF DatacentersKept, InStep, dcVars
<1>2. /\ lastCHUpdate \in Nat /\ lastNtUpdate \in Nat
      /\ lastDsUpdate \in Nat /\ lastVmUpdate \in Nat
  BY DEF IInv, CacheTypeOK, Ages
<1>3. UNCHANGED chVars => InStep(clusters, lastCHUpdate)'
  BY <1>1, <1>2 DEF AllInStep, InStep, chVars
<1>4. UNCHANGED ntVars => InStep(nets, lastNtUpdate)'
  BY <1>1, <1>2 DEF AllInStep, InStep, ntVars
<1>5. UNCHANGED dsVars => InStep(dss, lastDsUpdate)'
  BY <1>1, <1>2 DEF AllInStep, InStep, dsVars
<1>6. UNCHANGED vmVars => InStep(vms, lastVmUpdate)'
  BY <1>1, <1>2 DEF AllInStep, InStep, vmVars
<1>7. QED
  BY <1>3, <1>4, <1>5, <1>6

LEMMA RefreshedInStep ==
    ASSUME lastDCUpdate' \in Ages, dcs' \in Seq(Datacenters), NEW ok \in BOOLEAN,
           NEW last \in Ages, ~Fresh(last)
    PROVE  (IF ok THEN 0 ELSE last) < lastDCUpdate' => Listed(dcs', ok) = dcs'
  BY DEF Ages, Fresh, Listed

LEMMA ClustersInStep ==
    ASSUME IInv, AllInStep, NEW v \in Inventories, NEW ok \in BOOLEAN,
           getAllDatacentersClustersAndHosts(v, ok)
    PROVE  /\ DatacentersKept
           /\ InStep(clusters, lastCHUpdate)'
<1>1. CASE UNCHANGED <<dcVars, chVars>>
  BY <1>1 DEF AllInStep, InStep, DatacentersKept, dcVars, chVars
<1>2. CASE getDatacenters(v, FALSE) /\ UNCHANGED chVars
  <2>1. DatacentersKept
    BY <1>2, DatacentersListed DEF IInv, DatacentersKept
  <2>2. QED
    BY <1>2, <2>1, KeptInStep
<1>3. CASE /\ ~Fresh(lastCHUpdate)
           /\ getDatacenters(v, TRUE)
           /\ \E e \in Endings(Len(dcs')) : ListClustersAndHosts(v, dcs', e)
  <2>1. dcs' \in Seq(Datacenters) /\ lastDCUpdate' \in Ages /\ DatacentersKept
    BY <1>3, DatacentersListed DEF IInv, DatacentersKept
  <2>2. PICK e \in Endings(Len(dcs')) : ListClustersAndHosts(v, dcs', e)
    BY <1>3
  <2>3. PICK listed \in BOOLEAN : listed = (e.on = "nil")
    OBVIOUS
  <2>4. clusters' = Listed(dcs', listed) /\ lastCHUpdate' = IF listed THEN 0 ELSE lastCHUpdate
    BY <2>2, <2>3, Zenon DEF ListClustersAndHosts
  <2>5. lastCHUpdate \in Ages
    BY DEF IInv, CacheTypeOK
  <2>6. lastCHUpdate' < lastDCUpdate' => clusters' = dcs'
    BY <1>3, <2>1, <2>4, <2>5, RefreshedInStep
  <2>7. QED
    BY <2>1, <2>6 DEF InStep
<1>4. QED
  BY <1>1, <1>2, <1>3, Zenon DEF getAllDatacentersClustersAndHosts

LEMMA StepKeepsInStep == IInv /\ AllInStep /\ [CollectorNext]_cacheVars => AllInStep'
<1> SUFFICES ASSUME IInv, AllInStep, [CollectorNext]_cacheVars PROVE AllInStep'
  OBVIOUS
<1>1. /\ lastCHUpdate \in Nat /\ lastNtUpdate \in Nat
      /\ lastDsUpdate \in Nat /\ lastVmUpdate \in Nat
      /\ lastCHUpdate \in Ages /\ lastNtUpdate \in Ages
      /\ lastDsUpdate \in Ages /\ lastVmUpdate \in Ages /\ lastDCUpdate \in Ages
  BY DEF IInv, CacheTypeOK, Ages
<1>2. CASE UNCHANGED cacheVars \/ Reset \/ Info \/ Esxcli \/ Report \/ Others
  BY <1>2 DEF Reset, Info, Esxcli, Report, Others, listVars, cacheVars, dcVars, chVars,
              ntVars, dsVars, vmVars, AllInStep, InStep
<1>3. CASE Tick
  BY <1>1, <1>3, OlderOK DEF Tick, AllInStep, InStep
<1>4. CASE RefreshDatacenters
  <2>1. DatacentersKept
    BY <1>4, DatacentersListed DEF RefreshDatacenters, IInv, DatacentersKept
  <2>2. QED
    BY <1>1, <1>4, <2>1, KeptInStep DEF RefreshDatacenters, AllInStep, InStep
<1>5. CASE RefreshClustersAndHosts
  <2>1. DatacentersKept /\ InStep(clusters, lastCHUpdate)'
    BY <1>5, ClustersInStep DEF RefreshClustersAndHosts
  <2>2. QED
    BY <1>1, <1>5, <2>1, KeptInStep DEF RefreshClustersAndHosts, AllInStep, InStep
<1>6. CASE RefreshNetworks
  <2>1. PICK v \in Inventories, ok \in BOOLEAN : getAllDatacentersNetworks(v, ok)
    BY <1>6 DEF RefreshNetworks
  <2>2. CASE UNCHANGED <<dcVars, ntVars>>
    BY <1>6, <2>2 DEF RefreshNetworks, dcVars, chVars, ntVars, dsVars, vmVars, AllInStep, InStep
  <2>3. CASE getDatacenters(v, FALSE) /\ UNCHANGED ntVars
    <3>1. DatacentersKept
      BY <2>3, DatacentersListed DEF IInv, DatacentersKept
    <3>2. QED
      BY <1>1, <1>6, <2>3, <3>1, KeptInStep DEF RefreshNetworks, AllInStep, InStep
  <2>4. CASE /\ ~Fresh(lastNtUpdate) /\ getDatacenters(v, TRUE)
             /\ nets' = Listed(dcs', ok)
             /\ lastNtUpdate' = IF ok THEN 0 ELSE lastNtUpdate
    <3>1. dcs' \in Seq(Datacenters) /\ lastDCUpdate' \in Ages /\ DatacentersKept
      BY <2>4, DatacentersListed DEF IInv, DatacentersKept
    <3>2. lastNtUpdate' < lastDCUpdate' => nets' = dcs'
      BY <1>1, <2>4, <3>1, RefreshedInStep
    <3>3. QED
      BY <1>1, <1>6, <3>1, <3>2, KeptInStep DEF RefreshNetworks, AllInStep, InStep
  <2>5. QED
    BY <2>1, <2>2, <2>3, <2>4, Zenon DEF getAllDatacentersNetworks
<1>7. CASE RefreshDatastores
  <2>1. PICK v \in Inventories, ok \in BOOLEAN : getAllDatacentersDatastores(v, ok)
    BY <1>7 DEF RefreshDatastores
  <2>2. CASE UNCHANGED <<dcVars, dsVars>>
    BY <1>7, <2>2 DEF RefreshDatastores, dcVars, chVars, ntVars, dsVars, vmVars, AllInStep, InStep
  <2>3. CASE getDatacenters(v, FALSE) /\ UNCHANGED dsVars
    <3>1. DatacentersKept
      BY <2>3, DatacentersListed DEF IInv, DatacentersKept
    <3>2. QED
      BY <1>1, <1>7, <2>3, <3>1, KeptInStep DEF RefreshDatastores, AllInStep, InStep
  <2>4. CASE /\ ~Fresh(lastDsUpdate) /\ getDatacenters(v, TRUE)
             /\ dss' = Listed(dcs', ok)
             /\ lastDsUpdate' = IF ok THEN 0 ELSE lastDsUpdate
    <3>1. dcs' \in Seq(Datacenters) /\ lastDCUpdate' \in Ages /\ DatacentersKept
      BY <2>4, DatacentersListed DEF IInv, DatacentersKept
    <3>2. lastDsUpdate' < lastDCUpdate' => dss' = dcs'
      BY <1>1, <2>4, <3>1, RefreshedInStep
    <3>3. QED
      BY <1>1, <1>7, <3>1, <3>2, KeptInStep DEF RefreshDatastores, AllInStep, InStep
  <2>5. QED
    BY <2>1, <2>2, <2>3, <2>4, Zenon DEF getAllDatacentersDatastores
<1>8. CASE RefreshVMs
  <2>1. PICK v \in Inventories, ok \in BOOLEAN : getAllDatacentersVMs(v, ok)
    BY <1>8 DEF RefreshVMs
  <2>2. CASE UNCHANGED <<dcVars, chVars, vmVars>>
    BY <1>8, <2>2 DEF RefreshVMs, dcVars, chVars, ntVars, dsVars, vmVars, AllInStep, InStep
  <2>3. CASE getAllDatacentersClustersAndHosts(v, FALSE) /\ UNCHANGED vmVars
    <3>1. DatacentersKept /\ InStep(clusters, lastCHUpdate)'
      BY <2>3, ClustersInStep
    <3>2. QED
      BY <1>1, <1>8, <2>3, <3>1, KeptInStep DEF RefreshVMs, AllInStep, InStep
  <2>4. CASE /\ ~Fresh(lastVmUpdate) /\ getAllDatacentersClustersAndHosts(v, TRUE)
             /\ vms' = Listed(dcs', ok)
             /\ lastVmUpdate' = IF ok THEN 0 ELSE lastVmUpdate
    <3>1. DatacentersKept /\ InStep(clusters, lastCHUpdate)'
      BY <2>4, ClustersInStep
    <3>2. dcs' \in Seq(Datacenters) /\ lastDCUpdate' \in Ages
      BY <2>4, ClustersAndHostsRefreshed DEF ListsOK
    <3>3. lastVmUpdate' < lastDCUpdate' => vms' = dcs'
      BY <1>1, <2>4, <3>2, RefreshedInStep
    <3>4. QED
      BY <1>1, <1>8, <3>1, <3>3, KeptInStep DEF RefreshVMs, AllInStep, InStep
  <2>5. QED
    BY <2>1, <2>2, <2>3, <2>4, Zenon DEF getAllDatacentersVMs
<1>9. QED
  BY <1>2, <1>3, <1>4, <1>5, <1>6, <1>7, <1>8 DEF CollectorNext

\* Clusters, networks, datastores and VMs that were listed after the datacenters
\* were listed from these, in their order.
THEOREM NewerOfDatacenters == CollectorSpec => []NewerListsAreOfDatacenters
<1>1. CacheInit => AllInStep
  BY DEF CacheInit, AllInStep, InStep
<1>2. QED
  BY <1>1, CollectorInvariant, StepKeepsInStep, AllInStepIsProperty, PTL DEF CollectorSpec

-----------------------------------------------------------------------------
\* The loop of getAllDatacentersClustersAndHosts, when it finds as many
\* datacenters, and in those up to i as many hosts, as the cache has.
LEMMA LoopKeepsStates ==
    ASSUME IInv, NEW v \in Inventories, NEW ds \in Seq(Datacenters),
           NEW e \in Endings(Len(ds)), ListClustersAndHosts(v, ds, e),
           Len(hosts') = Len(hosts), NEW i \in DOMAIN hosts,
           \A m \in 1..i : hosts[m] # <<>> /\ Len(hosts'[m]) \in {0, Len(hosts[m])}
    PROVE  hostStates'[i] = hostStates[i]
<1> DEFINE n       == Len(ds)
           resized == n # Len(clusters) \/ n # Len(hosts)
           old     == IF resized THEN [k \in 1..n |-> <<>>] ELSE hosts
           states  == IF resized THEN [k \in 1..n |-> <<>>] ELSE hostStates
           found   == [k \in 1..n |-> v.hosts[ds[k]]]
           change(k) == PlatformChange(resized, old, found, k)
           hosts1  == [k \in 1..n |-> IF k < e.at THEN found[k]
                                      ELSE IF k = e.at /\ e.on = "hosts" THEN <<>>
                                      ELSE old[k]]
           states1 == [k \in 1..n |-> IF k < e.at /\ change(k)
                                      THEN [j \in 1..Len(found[k]) |-> ZeroState]
                                      ELSE states[k]]
<1>1. /\ \A k \in 1..n : k < e.at => found[k] # <<>>
      /\ hosts' = hosts1
      /\ hostStates' = states1
  BY Zenon DEF ListClustersAndHosts
<1>2. n \in Nat /\ e.at \in Nat
  BY DEF Endings
<1>3. found \in [1..n -> Seq(Hosts)]
  BY InventoriesAssumption
<1>4. ~resized
  <2>1. Len(hosts') = n /\ Len(clusters) = Len(hosts)
    BY HostsListed DEF IInv, SlicesAreParallel
  <2>2. QED
    BY <2>1
<1>5. old = hosts /\ states = hostStates
  BY <1>4, Zenon
<1>6. i \in 1..n
  <2>1. n = Len(hosts) /\ DOMAIN hosts = 1..Len(hosts)
    BY <1>4 DEF IInv, CacheTypeOK
  <2>2. QED
    BY <2>1, Zenon
<1>7. ASSUME i < e.at PROVE ~change(i)
  <2>1. ASSUME NEW m \in 1..i PROVE Len(hosts[m]) = Len(found[m])
    <3>1. m \in 1..n /\ m < e.at
      BY <1>2, <1>6, <1>7
    <3>2. hosts'[m] = found[m] /\ found[m] # <<>> /\ found[m] \in Seq(Hosts)
      BY <1>1, <1>3, <3>1, Zenon
    <3>3. Len(hosts'[m]) # 0
      BY <3>2
    <3>4. QED
      BY <3>2, <3>3
  <2>2. QED
    BY <1>4, <1>5, <2>1, Zenon DEF PlatformChange
<1>8. hostStates'[i] = states[i]
  BY <1>1, <1>6, <1>7, Zenon
<1>9. QED
  BY <1>5, <1>8

\* A refresh that finds the platform as large as it was keeps what is known of
\* its hosts, and so does one that fails.
THEOREM KeepsStates == CollectorSpec => StatesAreKept
<1> DEFINE Kept ==
        \A i \in DOMAIN hosts :
            (\A m \in 1..i : hosts[m] # <<>> /\ Len(hosts'[m]) \in {0, Len(hosts[m])}) =>
                hostStates'[i] = hostStates[i]
<1>1. ASSUME IInv, RefreshClustersAndHosts, Len(hosts') = Len(hosts) PROVE Kept
  <2>1. PICK v \in Inventories, ok \in BOOLEAN : getAllDatacentersClustersAndHosts(v, ok)
    BY <1>1 DEF RefreshClustersAndHosts
  <2>2. CASE UNCHANGED chVars
    BY <2>2 DEF chVars
  <2>3. CASE /\ getDatacenters(v, TRUE)
             /\ \E e \in Endings(Len(dcs')) : ListClustersAndHosts(v, dcs', e)
    <3>1. dcs' \in Seq(Datacenters)
      BY <1>1, <2>3, DatacentersListed DEF IInv
    <3>2. PICK e \in Endings(Len(dcs')) : ListClustersAndHosts(v, dcs', e)
      BY <2>3
    <3>3. QED
      BY <1>1, <3>1, <3>2, LoopKeepsStates
  <2>4. QED
    BY <2>1, <2>2, <2>3 DEF getAllDatacentersClustersAndHosts, chVars
<1>2. IInv /\ [CollectorNext]_cacheVars
         => [RefreshClustersAndHosts /\ Len(hosts') = Len(hosts) => Kept]_cacheVars
  BY <1>1
<1>3. QED
  BY <1>2, CollectorInvariant, PTL DEF CollectorSpec, StatesAreKept
=============================================================================
