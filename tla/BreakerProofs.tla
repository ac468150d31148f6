----------------------------- MODULE BreakerProofs -----------------------------
(***************************************************************************)
(* VcBreaker's claim, proved for all inventories and all clients: the      *)
(* collector, which keeps what it knows of a host at a position of slices  *)
(* that are resized, emptied and filled anew, implements HostBreaker,      *)
(* which keeps it by seat, that is, by place and host.                     *)
(***************************************************************************)
EXTENDS VcBreaker, VcCollectorProofs

\* A list of hosts has a place, and no host is in it twice.
ListingsInv ==
    /\ DOMAIN dcs \subseteq Places /\ DOMAIN hosts \subseteq Places
    /\ \A i \in DOMAIN hosts : \A j, m \in DOMAIN hosts[i] :
          hosts[i][j] = hosts[i][m] => j = m

-----------------------------------------------------------------------------
(***************************************************************************)
(* The listings                                                            *)
(***************************************************************************)
\* What a refresh leaves in each place: nothing, or as many hosts with the
\* states of those before, or hosts with new states.
KeptOrNew ==
    \A i \in DOMAIN hosts' :
        \/ hosts'[i] = <<>>
        \/ /\ i \in DOMAIN hosts /\ Len(hosts'[i]) = Len(hosts[i])
           /\ hostStates'[i] = hostStates[i]
        \/ \A j \in DOMAIN hosts'[i] : hostStates'[i][j] = ZeroState

LEMMA NoHostTwice ==
    ASSUME NEW v \in Inventories, NEW d \in Datacenters,
           NEW j \in DOMAIN v.hosts[d], NEW m \in DOMAIN v.hosts[d],
           v.hosts[d][j] = v.hosts[d][m]
    PROVE  j = m
  BY ListedOnceAssumption

\* The loop over the datacenters ds, when inventory v answers for the hosts.
LEMMA LoopAtPlaces ==
    ASSUME IInv, ListingsInv, NEW v \in Inventories, NEW ds \in Seq(Datacenters),
           DOMAIN ds \subseteq Places,
           NEW e \in Endings(Len(ds)), ListClustersAndHosts(v, ds, e)
    PROVE  /\ DOMAIN hosts' \subseteq Places
           /\ \A i \in DOMAIN hosts' : \A j, m \in DOMAIN hosts'[i] :
                 hosts'[i][j] = hosts'[i][m] => j = m
           /\ KeptOrNew
<1> DEFINE n       == Len(ds)
           resized == n # Len(clusters) \/ n # Len(hosts)
           old     == IF resized THEN [k \in 1..n |-> <<>>] ELSE hosts
           states  == IF resized THEN [k \in 1..n |-> <<>>] ELSE hostStates
           found   == [k \in 1..n |-> v.hosts[ds[k]]]
           change(k) == PlatformChange(resized, old, found, k)
           hosts1  == [k \in 1..n |-> IF k < e.at THEN found[k]
                                      ELSE IF k = e.at /\ e.on = "hosts" THEN <<>>
                                      ELSE old[k]]
           states1 == [k \in 1..n |-> IF k < e.at /\ change(k)
                                      THEN [j \in 1..Len(found[k]) |-> ZeroState]
                                      ELSE states[k]]
<1>1. /\ \A k \in 1..n : k < e.at => found[k] # <<>>
      /\ hosts' = hosts1
      /\ hostStates' = states1
  BY Zenon DEF ListClustersAndHosts
<1>2. n \in Nat /\ e.at \in Nat
  BY DEF Endings
<1>3. found \in [1..n -> Seq(Hosts)] /\ \A k \in 1..n : found[k] = v.hosts[ds[k]]
  BY InventoriesAssumption
<1>4. /\ resized => \A k \in 1..n : old[k] = <<>>
      /\ ~resized => old = hosts /\ states = hostStates /\ n = Len(hosts)
  BY Zenon
<1>5. ~resized => DOMAIN hosts = 1..n
  BY <1>4 DEF IInv, CacheTypeOK
<1>6. DOMAIN hosts' = 1..n /\ Len(hosts') = n
  <2>1. Len(hosts') = n
    BY HostsListed
  <2>2. DOMAIN hosts1 = 1..n
    BY Zenon
  <2>3. QED
    BY <1>1, <2>1, <2>2
<1> HIDE DEF resized, old, states, found
<1>7. ASSUME NEW i \in 1..n, i < e.at
      PROVE  /\ hosts'[i] = found[i]
             /\ \/ /\ i \in DOMAIN hosts /\ Len(hosts'[i]) = Len(hosts[i])
                   /\ hostStates'[i] = hostStates[i]
                \/ \A j \in DOMAIN hosts'[i] : hostStates'[i][j] = ZeroState
  <2>1. hosts'[i] = found[i] /\ found[i] \in Seq(Hosts)
    BY <1>1, <1>3, <1>7, Zenon
  <2>2. CASE change(i)
    <3>1. hostStates'[i] = [j \in 1..Len(found[i]) |-> ZeroState]
      BY <1>1, <1>7, <2>2, Zenon
    <3>2. DOMAIN hosts'[i] = 1..Len(found[i])
      BY <2>1
    <3>3. QED
      BY <2>1, <3>1, <3>2, Zenon
  <2>3. CASE ~change(i)
    <3>1. ~resized /\ \A m \in 1..i : Len(old[m]) = Len(found[m])
      BY <2>3, Zenon DEF PlatformChange
    <3>2. i \in 1..i
      BY <1>7
    <3>3. Len(hosts[i]) = Len(found[i])
      BY <1>4, <3>1, <3>2, Zenon
    <3>4. i \in DOMAIN hosts
      BY <1>5, <3>1
    <3>5. hostStates'[i] = states[i]
      BY <1>1, <2>3, Zenon
    <3>6. QED
      BY <1>4, <2>1, <3>1, <3>3, <3>4, <3>5
  <2>4. QED
    BY <2>1, <2>2, <2>3
<1>8. ASSUME NEW i \in 1..n, ~(i < e.at), hosts'[i] # <<>>
      PROVE  i \in DOMAIN hosts /\ hosts'[i] = hosts[i] /\ hostStates'[i] = hostStates[i]
  <2>1. hosts'[i] = old[i]
    BY <1>1, <1>8, Zenon
  <2>2. ~resized
    BY <1>4, <1>8, <2>1
  <2>3. hostStates'[i] = states[i]
    BY <1>1, <1>8, Zenon
  <2>4. QED
    BY <1>4, <1>5, <2>1, <2>2, <2>3
<1>9. KeptOrNew
  <2>1. SUFFICES ASSUME NEW i \in 1..n
                 PROVE  \/ hosts'[i] = <<>>
                        \/ /\ i \in DOMAIN hosts /\ Len(hosts'[i]) = Len(hosts[i])
                           /\ hostStates'[i] = hostStates[i]
                        \/ \A j \in DOMAIN hosts'[i] : hostStates'[i][j] = ZeroState
    BY <1>6 DEF KeptOrNew
  <2>2. CASE i < e.at
    BY <1>7, <2>2
  <2>3. CASE ~(i < e.at)
    BY <1>8, <2>3
  <2>4. QED
    BY <2>2, <2>3
<1>10. ASSUME NEW i \in 1..n, NEW j \in DOMAIN hosts'[i], NEW m \in DOMAIN hosts'[i],
              hosts'[i][j] = hosts'[i][m]
       PROVE  j = m
  <2>1. CASE i < e.at
    <3>1. PICK d \in Datacenters : d = ds[i]
      OBVIOUS
    <3>2. hosts'[i] = v.hosts[d]
      BY <1>3, <1>7, <2>1, <3>1
    <3>3. QED
      BY <1>10, <3>2, NoHostTwice
  <2>2. CASE ~(i < e.at)
    <3>1. hosts'[i] # <<>>
      BY <1>10
    <3>2. i \in DOMAIN hosts /\ hosts'[i] = hosts[i]
      BY <1>8, <2>2, <3>1
    <3>3. QED
      BY <1>10, <3>2 DEF ListingsInv
  <2>3. QED
    BY <2>1, <2>2
<1>11. DOMAIN hosts' \subseteq Places
  BY <1>6
<1>12. QED
  BY <1>6, <1>9, <1>10, <1>11

-----------------------------------------------------------------------------
(***************************************************************************)
(* The state of a seat is the one at the position of its host.             *)
(***************************************************************************)
KnownBySeat ==
    /\ \A i \in DOMAIN hosts : \A j \in DOMAIN hosts[i] :
          /\ <<i, hosts[i][j]>> \in Taken
          /\ StateOf(<<i, hosts[i][j]>>) = hostStates[i][j]
    /\ \A s \in Taken : \E i \in DOMAIN hosts : \E j \in DOMAIN hosts[i] :
          s = <<i, hosts[i][j]>>
    /\ \A s \in Seats : s \notin Taken => StateOf(s) = ZeroState

LEMMA StatesOfSeats == IInv /\ ListingsInv => KnownBySeat
<1> SUFFICES ASSUME IInv, ListingsInv PROVE KnownBySeat
  OBVIOUS
<1>1. ASSUME NEW i \in DOMAIN hosts, NEW j \in DOMAIN hosts[i]
      PROVE  /\ <<i, hosts[i][j]>> \in Taken
             /\ StateOf(<<i, hosts[i][j]>>) = hostStates[i][j]
  <2>1. PICK s : s = <<i, hosts[i][j]>>
    OBVIOUS
  <2>2. s \in Seats /\ s[1] = i /\ s[2] = hosts[i][j]
    BY <2>1, ListedTyped DEF ListingsInv, Seats
  <2>3. j \in Positions(s)
    BY <2>2, ListedTyped DEF Positions
  <2>4. \A m \in Positions(s) : m = j
    BY <2>2 DEF Positions, ListingsInv
  <2>5. PICK m : m = CHOOSE q \in Positions(s) : TRUE
    OBVIOUS
  <2>6. m = j
    BY <2>3, <2>4, <2>5
  <2>7. StateOf(s) = hostStates[s[1]][m]
    BY <2>3, <2>5, Zenon DEF StateOf
  <2>8. QED
    BY <2>1, <2>2, <2>3, <2>6, <2>7 DEF Taken
<1>2. ASSUME NEW s \in Taken
      PROVE  \E i \in DOMAIN hosts : \E j \in DOMAIN hosts[i] : s = <<i, hosts[i][j]>>
  <2>1. s \in Seats /\ Positions(s) # {}
    BY DEF Taken
  <2>2. s = <<s[1], s[2]>>
    BY <2>1 DEF Seats
  <2>3. PICK j : j \in Positions(s)
    BY <2>1
  <2>4. s[1] \in DOMAIN hosts /\ j \in DOMAIN hosts[s[1]] /\ hosts[s[1]][j] = s[2]
    BY <2>3 DEF Positions
  <2>5. QED
    BY <2>2, <2>4
<1>3. \A s \in Seats : s \notin Taken => StateOf(s) = ZeroState
  BY Zenon DEF Taken, StateOf
<1>4. QED
  BY <1>1, <1>2, <1>3 DEF KnownBySeat

\* The same of the next state.
LEMMA NextStatesOfSeats == IInv' /\ ListingsInv' => KnownBySeat'
  BY StatesOfSeats, PTL

-----------------------------------------------------------------------------
(***************************************************************************)
(* The refreshes                                                           *)
(***************************************************************************)
LEMMA DatacentersHavePlaces ==
    ASSUME ListingsInv, NEW v \in Inventories, NEW ok \in BOOLEAN,
           getDatacenters(v, ok) \/ UNCHANGED dcVars
    PROVE  DOMAIN dcs' \subseteq Places
<1>1. dcs' = dcs \/ dcs' = <<>> \/ dcs' = v.dcs
  BY DEF getDatacenters, dcVars
<1>2. DOMAIN v.dcs \subseteq Places
  BY DEF Places
<1>3. DOMAIN <<>> = {}
  OBVIOUS
<1>4. QED
  BY <1>1, <1>2, <1>3 DEF ListingsInv

LEMMA NothingListed ==
    ASSUME ListingsInv, NEW v \in Inventories, NEW ok \in BOOLEAN,
           getDatacenters(v, ok) \/ UNCHANGED dcVars, UNCHANGED chVars
    PROVE  ListingsInv' /\ KeptOrNew
<1>1. hosts' = hosts /\ hostStates' = hostStates
  BY DEF chVars
<1>2. ListingsInv'
  BY <1>1, DatacentersHavePlaces DEF ListingsInv
<1>3. QED
  BY <1>1, <1>2 DEF KeptOrNew

LEMMA HostsListedAtPlaces ==
    ASSUME IInv, ListingsInv, NEW v \in Inventories, NEW ok \in BOOLEAN,
           getAllDatacentersClustersAndHosts(v, ok)
    PROVE  ListingsInv' /\ KeptOrNew
<1>1. CASE UNCHANGED <<dcVars, chVars>>
  BY <1>1, NothingListed
<1>2. CASE getDatacenters(v, FALSE) /\ UNCHANGED chVars
  BY <1>2, NothingListed
<1>3. CASE /\ getDatacenters(v, TRUE)
           /\ \E e \in Endings(Len(dcs')) : ListClustersAndHosts(v, dcs', e)
  <2>1. PICK ds \in Seq(Datacenters) : ds = dcs'
    BY <1>3, DatacentersListed DEF IInv
  <2>2. DOMAIN ds \subseteq Places
    BY <1>3, <2>1, DatacentersHavePlaces
  <2>3. PICK e \in Endings(Len(ds)) : ListClustersAndHosts(v, ds, e)
    BY <1>3, <2>1
  <2>4. /\ DOMAIN hosts' \subseteq Places
        /\ \A i \in DOMAIN hosts' : \A j, m \in DOMAIN hosts'[i] :
              hosts'[i][j] = hosts'[i][m] => j = m
        /\ KeptOrNew
    BY <2>2, <2>3, LoopAtPlaces
  <2>5. QED
    BY <2>1, <2>2, <2>4 DEF ListingsInv
<1>4. QED
  BY <1>1, <1>2, <1>3, Zenon DEF getAllDatacentersClustersAndHosts

LEMMA RefreshedAtPlaces ==
    ASSUME IInv, ListingsInv,
           \/ RefreshDatacenters \/ RefreshClustersAndHosts \/ RefreshNetworks
           \/ RefreshDatastores \/ RefreshVMs
    PROVE  ListingsInv' /\ KeptOrNew
<1>1. CASE RefreshDatacenters
  BY <1>1, NothingListed DEF RefreshDatacenters
<1>2. CASE RefreshClustersAndHosts
  BY <1>2, HostsListedAtPlaces DEF RefreshClustersAndHosts
<1>3. CASE RefreshNetworks
  <2>1. PICK v \in Inventories, ok \in BOOLEAN : getAllDatacentersNetworks(v, ok)
    BY <1>3 DEF RefreshNetworks
  <2>2. (\E done \in BOOLEAN : getDatacenters(v, done)) \/ UNCHANGED dcVars
    BY <2>1 DEF getAllDatacentersNetworks
  <2>3. QED
    BY <1>3, <2>2, NothingListed DEF RefreshNetworks
<1>4. CASE RefreshDatastores
  <2>1. PICK v \in Inventories, ok \in BOOLEAN : getAllDatacentersDatastores(v, ok)
    BY <1>4 DEF RefreshDatastores
  <2>2. (\E done \in BOOLEAN : getDatacenters(v, done)) \/ UNCHANGED dcVars
    BY <2>1 DEF getAllDatacentersDatastores
  <2>3. QED
    BY <1>4, <2>2, NothingListed DEF RefreshDatastores
<1>5. CASE RefreshVMs
  <2>1. PICK v \in Inventories, ok \in BOOLEAN : getAllDatacentersVMs(v, ok)
    BY <1>5 DEF RefreshVMs
  <2>2. \/ UNCHANGED <<dcVars, chVars>>
        \/ \E done \in BOOLEAN : getAllDatacentersClustersAndHosts(v, done)
    BY <2>1 DEF getAllDatacentersVMs
  <2>3. QED
    BY <2>2, NothingListed, HostsListedAtPlaces
<1>6. QED
  BY <1>1, <1>2, <1>3, <1>4, <1>5

\* The steps that change no list of hosts.
LEMMA SameListings ==
    ASSUME ListingsInv, UNCHANGED <<dcs, hosts>> PROVE ListingsInv'
  BY DEF ListingsInv

-----------------------------------------------------------------------------
(***************************************************************************)
(* What a step does to the states is a step of the breakers.               *)
(***************************************************************************)
USE DEF Breaker!Seats, Seats

LEMMA SeenFields ==
    ASSUME NEW st
    PROVE  /\ Seen(st).down = st.notConnected /\ Seen(st).open = st.notResponding
           /\ Seen(st).age = st.lastNoResponse /\ Seen(st).runs = st.responseTime
  BY DEF Seen

LEMMA UnknownIsNew == Seen(ZeroState) = Breaker!Unknown
  BY DEF Seen, ZeroState, Breaker!Unknown

\* A place whose hosts have new states, or that has no hosts, is forgotten.
LEMMA PlaceForgotten ==
    ASSUME KnownBySeat', NEW p \in Places,
           p \in DOMAIN hosts' => \A j \in DOMAIN hosts'[p] : hostStates'[p][j] = ZeroState
    PROVE  Breaker!Forgotten(p)
<1>1. ASSUME NEW h \in Hosts PROVE StateOf(<<p, h>>)' = ZeroState
  <2>1. CASE <<p, h>> \in Taken'
    <3>1. PICK i \in DOMAIN hosts' : \E j \in DOMAIN hosts'[i] : <<p, h>> = <<i, hosts'[i][j]>>
      BY <2>1 DEF KnownBySeat
    <3>2. PICK j \in DOMAIN hosts'[i] : <<p, h>> = <<i, hosts'[i][j]>>
      BY <3>1
    <3>3. p = i /\ h = hosts'[i][j]
      BY <3>2
    <3>4. StateOf(<<p, h>>)' = hostStates'[p][j]
      BY <3>1, <3>2, <3>3 DEF KnownBySeat
    <3>5. QED
      BY <3>1, <3>2, <3>3, <3>4
  <2>2. CASE <<p, h>> \notin Taken'
    BY <2>2 DEF KnownBySeat
  <2>3. QED
    BY <2>1, <2>2
<1>2. ASSUME NEW h \in Hosts PROVE SeenOf'[<<p, h>>] = Breaker!Unknown
  BY <1>1, UnknownIsNew DEF SeenOf
<1>3. QED
  BY <1>2 DEF Breaker!Forgotten

\* f pairs the members of b and c by position, one for one.
Pairs(f, D, b, c) ==
    /\ f \in [{b[j] : j \in D} -> {c[j] : j \in D}]
    /\ \A j \in D : f[b[j]] = c[j]
    /\ \A g \in {c[j] : j \in D} : \E h \in {b[j] : j \in D} : f[h] = g
    /\ \A h, k \in {b[j] : j \in D} : f[h] = f[k] => h = k

LEMMA OneForOne ==
    ASSUME NEW D, NEW b, NEW c,
           \A j, m \in D : b[j] = b[m] => j = m,
           \A j, m \in D : c[j] = c[m] => j = m
    PROVE  \E f : Pairs(f, D, b, c)
<1> DEFINE B == {b[j] : j \in D}
           C == {c[j] : j \in D}
           at(h) == CHOOSE j \in D : b[j] = h
           f == [h \in B |-> c[at(h)]]
<1>1. \A j \in D : at(b[j]) = j
  OBVIOUS
<1>2. \A j \in D : f[b[j]] = c[j]
  BY <1>1
<1>3. \A h \in B : \E j \in D : h = b[j]
  OBVIOUS
<1>4. \A h \in B : f[h] \in C
  BY <1>2, <1>3
<1>5. f \in [B -> C]
  BY <1>4
<1> HIDE DEF f
<1>6. \A g \in C : \E h \in B : f[h] = g
  BY <1>2
<1>7. \A h, k \in B : f[h] = f[k] => h = k
  <2>1. SUFFICES ASSUME NEW h \in B, NEW k \in B, f[h] = f[k] PROVE h = k
    OBVIOUS
  <2>2. PICK j \in D : h = b[j]
    BY <1>3
  <2>3. PICK m \in D : k = b[m]
    BY <1>3
  <2>4. c[j] = c[m]
    BY <1>2, <2>1, <2>2, <2>3
  <2>5. QED
    BY <2>2, <2>3, <2>4
<1>8. QED
  BY <1>2, <1>5, <1>6, <1>7 DEF Pairs

\* A place that keeps its states hands them on by position, one for one.
LEMMA PlaceHandedOn ==
    ASSUME IInv, IInv', ListingsInv, ListingsInv', KnownBySeat, KnownBySeat',
           NEW p \in Places, p \in DOMAIN hosts, p \in DOMAIN hosts',
           Len(hosts'[p]) = Len(hosts[p]), hostStates'[p] = hostStates[p]
    PROVE  Breaker!HandedOn(p)
<1> DEFINE D == DOMAIN hosts[p]
<1>1. /\ hosts[p] \in Seq(Hosts) /\ hosts'[p] \in Seq(Hosts)
      /\ DOMAIN hosts'[p] = D
  <2>1. hosts \in Seq(Seq(Hosts)) /\ hosts' \in Seq(Seq(Hosts))
    BY DEF IInv, CacheTypeOK
  <2>2. hosts[p] \in Seq(Hosts) /\ hosts'[p] \in Seq(Hosts)
    BY <2>1
  <2>3. QED
    BY <2>2
<1>2. /\ Breaker!HostsAt(p) = {hosts[p][j] : j \in D}
      /\ Breaker!HostsAt(p)' = {hosts'[p][j] : j \in D}
  <2>1. ASSUME NEW h \in Hosts, <<p, h>> \in Taken
        PROVE  \E j \in D : h = hosts[p][j]
    BY <2>1 DEF KnownBySeat
  <2>2. ASSUME NEW h \in Hosts, <<p, h>> \in Taken'
        PROVE  \E j \in D : h = hosts'[p][j]
    BY <1>1, <2>2 DEF KnownBySeat
  <2>3. \A j \in D : hosts[p][j] \in Hosts /\ hosts'[p][j] \in Hosts
    BY <1>1
  <2>4. \A j \in D : <<p, hosts[p][j]>> \in Taken /\ <<p, hosts'[p][j]>> \in Taken'
    BY <1>1 DEF KnownBySeat
  <2>5. QED
    BY <2>1, <2>2, <2>3, <2>4 DEF Breaker!HostsAt
<1>3. PICK from \in [Breaker!HostsAt(p)' -> Breaker!HostsAt(p)] :
         /\ \A j \in D : from[hosts'[p][j]] = hosts[p][j]
         /\ \A g \in Breaker!HostsAt(p) : \E h \in Breaker!HostsAt(p)' : from[h] = g
         /\ \A h, k \in Breaker!HostsAt(p)' : from[h] = from[k] => h = k
  <2>1. PICK b : b = hosts'[p]
    OBVIOUS
  <2>2. PICK c : c = hosts[p]
    OBVIOUS
  <2>3. \A j, m \in D : b[j] = b[m] => j = m
    BY <1>1, <2>1 DEF ListingsInv
  <2>4. \A j, m \in D : c[j] = c[m] => j = m
    BY <2>2 DEF ListingsInv
  <2>5. PICK from : Pairs(from, D, b, c)
    BY <2>3, <2>4, OneForOne
  <2>6. {b[j] : j \in D} = Breaker!HostsAt(p)' /\ {c[j] : j \in D} = Breaker!HostsAt(p)
    BY <1>2, <2>1, <2>2
  <2>7. /\ from \in [{b[j] : j \in D} -> {c[j] : j \in D}]
        /\ \A j \in D : from[b[j]] = c[j]
        /\ \A g \in {c[j] : j \in D} : \E h \in {b[j] : j \in D} : from[h] = g
        /\ \A h, k \in {b[j] : j \in D} : from[h] = from[k] => h = k
    BY <2>5 DEF Pairs
  <2>8. from \in [Breaker!HostsAt(p)' -> Breaker!HostsAt(p)]
    BY <2>6, <2>7
  <2>9. \A g \in Breaker!HostsAt(p) : \E h \in Breaker!HostsAt(p)' : from[h] = g
    BY <2>6, <2>7
  <2>10. \A h, k \in Breaker!HostsAt(p)' : from[h] = from[k] => h = k
    BY <2>6, <2>7
  <2>11. \A j \in D : from[hosts'[p][j]] = hosts[p][j]
    BY <2>1, <2>2, <2>7
  <2>12. QED
    BY <2>8, <2>9, <2>10, <2>11
<1>4. ASSUME NEW h \in Hosts
      PROVE  SeenOf'[<<p, h>>] = IF h \in Breaker!HostsAt(p)' THEN SeenOf[<<p, from[h]>>]
                                 ELSE Breaker!Unknown
  <2>1. CASE h \in Breaker!HostsAt(p)'
    <3>1. PICK j \in D : h = hosts'[p][j]
      BY <1>2, <2>1
    <3>2. from[h] = hosts[p][j]
      BY <1>3, <3>1
    <3>3. hosts[p][j] \in Hosts
      BY <1>1
    <3>4. StateOf(<<p, h>>)' = hostStates'[p][j]
      BY <1>1, <3>1 DEF KnownBySeat
    <3>5. StateOf(<<p, hosts[p][j]>>) = hostStates[p][j]
      BY DEF KnownBySeat
    <3>6. /\ SeenOf'[<<p, h>>] = Seen(hostStates[p][j])
          /\ SeenOf[<<p, hosts[p][j]>>] = Seen(hostStates[p][j])
      BY <3>3, <3>4, <3>5 DEF SeenOf
    <3>7. QED
      BY <2>1, <3>2, <3>6
  <2>2. CASE h \notin Breaker!HostsAt(p)'
    <3>1. <<p, h>> \notin Taken'
      BY <2>2 DEF Breaker!HostsAt
    <3>2. StateOf(<<p, h>>)' = ZeroState
      BY <3>1 DEF KnownBySeat
    <3>3. QED
      BY <2>2, <3>2, UnknownIsNew DEF SeenOf
  <2>3. QED
    BY <2>1, <2>2
<1>5. QED
  BY <1>3, <1>4 DEF Breaker!HandedOn

LEMMA RelistsSeats ==
    ASSUME IInv, IInv', ListingsInv, ListingsInv', KnownBySeat, KnownBySeat', KeptOrNew
    PROVE  Breaker!Next
<1>1. Taken' \in SUBSET Seats
  BY DEF Taken
<1>2. SeenOf' = [s \in Seats |-> SeenOf'[s]]
  BY DEF SeenOf
<1>3. ASSUME NEW p \in Places PROVE Breaker!Forgotten(p) \/ Breaker!HandedOn(p)
  <2>1. CASE p \notin DOMAIN hosts'
    BY <2>1, PlaceForgotten
  <2>2. CASE p \in DOMAIN hosts' /\ hosts'[p] = <<>>
    BY <2>2, PlaceForgotten
  <2>3. CASE /\ p \in DOMAIN hosts' /\ p \in DOMAIN hosts
             /\ Len(hosts'[p]) = Len(hosts[p]) /\ hostStates'[p] = hostStates[p]
    BY <2>3, PlaceHandedOn
  <2>4. CASE p \in DOMAIN hosts' /\ \A j \in DOMAIN hosts'[p] : hostStates'[p][j] = ZeroState
    BY <2>4, PlaceForgotten
  <2>5. QED
    BY <2>1, <2>2, <2>3, <2>4 DEF KeptOrNew
<1>4. QED
  BY <1>1, <1>2, <1>3 DEF Breaker!Next, Breaker!Relist

-----------------------------------------------------------------------------
(***************************************************************************)
(* The steps that change no list of hosts change the states at their       *)
(* positions.                                                              *)
(***************************************************************************)
LEMMA ZeroTyped == ZeroState \in HostStates
  BY ZeroStateOK DEF StateOK

\* Where the state of a seat is, before and after such a step.
AtPosition(s, i, j) ==
    /\ i \in DOMAIN hosts /\ j \in DOMAIN hosts[i] /\ s = <<i, hosts[i][j]>>
    /\ i \in 1..Len(hostStates) /\ j \in 1..Len(hostStates[i])
    /\ hostStates[i][j] \in HostStates
    /\ StateOf(s) = hostStates[i][j]
    /\ StateOf(s)' = hostStates'[i][j]

LEMMA SeatsStay ==
    ASSUME IInv, KnownBySeat, KnownBySeat', hosts' = hosts
    PROVE  /\ Taken' = Taken
           /\ \A s \in Taken : \E i, j : AtPosition(s, i, j)
           /\ \A s \in Seats : s \notin Taken =>
                 StateOf(s) = ZeroState /\ StateOf(s)' = ZeroState
<1>1. \A s \in Taken : \E i \in DOMAIN hosts : \E j \in DOMAIN hosts[i] : s = <<i, hosts[i][j]>>
  BY DEF KnownBySeat
<1>2. \A s \in Taken' : \E i \in DOMAIN hosts : \E j \in DOMAIN hosts[i] : s = <<i, hosts[i][j]>>
  BY DEF KnownBySeat
<1>3. Taken' = Taken
  <2>1. ASSUME NEW s \in Taken' PROVE s \in Taken
    BY <1>2 DEF KnownBySeat
  <2>2. ASSUME NEW s \in Taken PROVE s \in Taken'
    BY <1>1 DEF KnownBySeat
  <2>3. QED
    BY <2>1, <2>2
<1>4. ASSUME NEW s \in Taken PROVE \E i, j : AtPosition(s, i, j)
  <2>1. PICK i \in DOMAIN hosts : \E j \in DOMAIN hosts[i] : s = <<i, hosts[i][j]>>
    BY <1>1
  <2>2. PICK j \in DOMAIN hosts[i] : s = <<i, hosts[i][j]>>
    BY <2>1
  <2>3. /\ StateOf(<<i, hosts[i][j]>>) = hostStates[i][j]
        /\ StateOf(<<i, hosts[i][j]>>)' = hostStates'[i][j]
    BY DEF KnownBySeat
  <2>4. /\ i \in 1..Len(hostStates) /\ j \in 1..Len(hostStates[i])
        /\ hostStates[i][j] \in HostStates
    BY ListedTyped
  <2>5. QED
    BY <2>2, <2>3, <2>4 DEF AtPosition
<1>5. ASSUME NEW s \in Seats, s \notin Taken
      PROVE  StateOf(s) = ZeroState /\ StateOf(s)' = ZeroState
  BY <1>3, <1>5 DEF KnownBySeat
<1>6. QED
  BY <1>3, <1>4, <1>5

LEMMA SeatsTyped ==
    ASSUME IInv, KnownBySeat, KnownBySeat', hosts' = hosts, NEW s \in Seats
    PROVE  StateOf(s) \in HostStates
  BY SeatsStay, ZeroTyped DEF AtPosition

LEMMA SeenOfSeats ==
    /\ \A s \in Seats : SeenOf[s] = Seen(StateOf(s))
    /\ SeenOf' = [s \in Seats |-> Seen(StateOf(s)')]
  BY DEF SeenOf

LEMMA TickSteps ==
    ASSUME IInv, KnownBySeat, KnownBySeat', Tick PROVE Breaker!Next
<1>1. hosts' = hosts
  BY DEF Tick
<1>2. \A i \in 1..Len(hostStates) : \A j \in 1..Len(hostStates[i]) :
         hostStates'[i][j] = Aged(hostStates[i][j])
  BY DEF Tick
<1>3. ASSUME NEW s \in Seats PROVE StateOf(s)' = Aged(StateOf(s))
  <2>1. Aged(ZeroState) = ZeroState
    BY DEF Aged, ZeroState
  <2>2. CASE s \in Taken
    BY <1>1, <1>2, <2>2, SeatsStay DEF AtPosition
  <2>3. CASE s \notin Taken
    BY <1>1, <2>1, <2>3, SeatsStay
  <2>4. QED
    BY <2>2, <2>3
<1>4. ASSUME NEW st \in HostStates
      PROVE  Seen(Aged(st)) = [Seen(st) EXCEPT !.age = IF @ = Never \/ @ > SkipFor THEN @
                                                       ELSE @ + 1]
  BY SkipForAssumption, NeverAssumption DEF Seen, Aged, HostStates, NoResponseAges
<1>5. ASSUME NEW s \in Seats
      PROVE  Seen(StateOf(s)') = [SeenOf[s] EXCEPT !.age = IF @ = Never \/ @ > SkipFor THEN @
                                                           ELSE @ + 1]
  BY <1>1, <1>3, <1>4, SeatsTyped, SeenOfSeats
<1>6. SeenOf' = [s \in Seats |->
                    [SeenOf[s] EXCEPT !.age = IF @ = Never \/ @ > SkipFor THEN @ ELSE @ + 1]]
  BY <1>5, SeenOfSeats
<1>7. QED
  BY <1>1, <1>6, SeatsStay DEF Breaker!Next, Breaker!Tick

LEMMA ResetSteps ==
    ASSUME IInv, KnownBySeat, KnownBySeat', Reset PROVE Breaker!Next
<1> DEFINE some == IF Covers(hostStates) THEN Places \cap (1..Len(dcs)) ELSE {}
<1>1. hosts' = hosts
  BY DEF Reset, listVars
<1>2. \A i \in 1..Len(hostStates) : \A j \in 1..Len(hostStates[i]) :
         hostStates'[i][j] = IF Covers(hostStates) /\ i <= Len(dcs)
                             THEN WithoutTime(hostStates[i][j]) ELSE hostStates[i][j]
  <2>1. CASE Covers(hostStates)
    <3>1. hostStates' = [i \in 1..Len(hostStates) |->
                            IF i > Len(dcs) THEN hostStates[i]
                            ELSE [j \in 1..Len(hostStates[i]) |-> WithoutTime(hostStates[i][j])]]
      BY <2>1, Zenon DEF Reset, ResetResponseTimes
    <3>2. Len(dcs) \in Nat /\ Len(hostStates) \in Nat
      BY DEF IInv, CacheTypeOK
    <3>3. QED
      BY <2>1, <3>1, <3>2
  <2>2. CASE ~Covers(hostStates)
    <3>1. hostStates' = hostStates
      BY <2>2, Zenon DEF Reset, ResetResponseTimes
    <3>2. QED
      BY <2>2, <3>1
  <2>3. QED
    BY <2>1, <2>2
<1>3. ASSUME NEW st \in HostStates PROVE Seen(WithoutTime(st)) = [Seen(st) EXCEPT !.runs = 0]
  BY DEF Seen, WithoutTime, HostStates
<1>4. ASSUME NEW s \in Seats
      PROVE  Seen(StateOf(s)') = IF s[1] \in some THEN [SeenOf[s] EXCEPT !.runs = 0]
                                 ELSE SeenOf[s]
  <2>1. CASE s \in Taken
    <3>1. PICK i, j : AtPosition(s, i, j)
      BY <1>1, <2>1, SeatsStay
    <3>2. s[1] = i /\ i \in Places
      BY <3>1 DEF AtPosition
    <3>3. (s[1] \in some) = (Covers(hostStates) /\ i <= Len(dcs))
      <4>1. Len(dcs) \in Nat
        BY DEF IInv, CacheTypeOK
      <4>2. i \in Nat /\ i >= 1
        BY <3>1 DEF AtPosition, IInv, CacheTypeOK
      <4>3. QED
        BY <3>2, <4>1, <4>2
    <3>4. StateOf(s)' = IF s[1] \in some THEN WithoutTime(StateOf(s)) ELSE StateOf(s)
      BY <1>2, <3>1, <3>3 DEF AtPosition
    <3>5. QED
      BY <1>1, <1>3, <3>4, SeatsTyped, SeenOfSeats
  <2>2. CASE s \notin Taken
    <3>1. SeenOf[s] = Seen(ZeroState) /\ Seen(StateOf(s)') = Seen(ZeroState)
      BY <1>1, <2>2, SeatsStay, SeenOfSeats
    <3>2. WithoutTime(ZeroState) = ZeroState
      <4>1. ZeroState.responseTime = 0
        BY DEF ZeroState
      <4>2. \A st \in HostStates : st.responseTime = 0 => WithoutTime(st) = st
        BY DEF WithoutTime, HostStates
      <4>3. QED
        BY <4>1, <4>2, ZeroTyped
    <3>3. [Seen(ZeroState) EXCEPT !.runs = 0] = Seen(ZeroState)
      BY <1>3, <3>2, ZeroTyped
    <3>4. QED
      BY <3>1, <3>3
  <2>3. QED
    BY <2>1, <2>2
<1>5. SeenOf' = [s \in Seats |-> IF s[1] \in some THEN [SeenOf[s] EXCEPT !.runs = 0]
                                 ELSE SeenOf[s]]
  BY <1>4, SeenOfSeats
<1>6. some \in SUBSET Places
  OBVIOUS
<1> HIDE DEF some
<1>7. Breaker!NewCount(some)
  BY <1>1, <1>5, SeatsStay DEF Breaker!NewCount
<1>8. QED
  BY <1>6, <1>7 DEF Breaker!Next

\* A host that CollectHostInfo does not see stays as connected as it was.
LEMMA InfoSteps ==
    ASSUME IInv, KnownBySeat, KnownBySeat', ListingsInv, Info PROVE Breaker!Next
<1>1. hosts' = hosts
  BY DEF Info, listVars
<1>2. PICK p \in 1..Len(dcs) : \E seen, up : HostInfo(p, seen, up)
  BY DEF Info
<1>3. PICK seen, up : HostInfo(p, seen, up)
  BY <1>2
<1>4. p \in Places
  BY <1>3 DEF HostInfo, ListingsInv
<1>5. ASSUME NEW i \in 1..Len(hostStates), NEW j \in 1..Len(hostStates[i])
      PROVE  /\ i # p => hostStates'[i][j] = hostStates[i][j]
             /\ \/ hostStates'[i][j] = hostStates[i][j]
                \/ hostStates'[i][j] = setNotConnected(hostStates[i][j], j \notin up)
  <2>1. hostStates \in Seq(Seq(HostStates))
    BY DEF IInv, CacheTypeOK
  <2>2. hostStates' = [k \in 1..Len(hostStates) |->
                          IF k = p THEN [m \in DOMAIN hostStates[p] |->
                                            IF m \in seen
                                            THEN setNotConnected(hostStates[p][m], m \notin up)
                                            ELSE hostStates[p][m]]
                          ELSE hostStates[k]]
    BY <1>3, <2>1, SeqIsFunction DEF HostInfo
  <2>3. DOMAIN hostStates[i] = 1..Len(hostStates[i])
    BY <2>1
  <2>4. QED
    BY <2>2, <2>3
<1> DEFINE down == {h \in Hosts : StateOf(<<p, h>>)'.notConnected}
<1>6. ASSUME NEW st \in HostStates, NEW conn \in BOOLEAN
      PROVE  /\ Seen(setNotConnected(st, conn)) = [Seen(st) EXCEPT !.down = conn]
             /\ setNotConnected(st, conn).notConnected = conn
             /\ Seen(st) = [Seen(st) EXCEPT !.down = st.notConnected]
  BY DEF Seen, setNotConnected, HostStates
<1>7. ASSUME NEW s \in Seats
      PROVE  Seen(StateOf(s)') = IF s[1] = p THEN [SeenOf[s] EXCEPT !.down = s[2] \in down]
                                 ELSE SeenOf[s]
  <2>1. SeenOf[s] = Seen(StateOf(s)) /\ StateOf(s) \in HostStates
    BY <1>1, SeatsTyped, SeenOfSeats
  <2>2. /\ s[1] # p => StateOf(s)' = StateOf(s)
        /\ \/ StateOf(s)' = StateOf(s)
           \/ \E conn \in BOOLEAN : StateOf(s)' = setNotConnected(StateOf(s), conn)
    <3>1. CASE s \in Taken
      <4>1. PICK i, j : AtPosition(s, i, j)
        BY <1>1, <3>1, SeatsStay
      <4>2. s[1] = i
        BY <4>1 DEF AtPosition
      <4>3. QED
        BY <1>5, <4>1, <4>2 DEF AtPosition
    <3>2. CASE s \notin Taken
      BY <1>1, <3>2, SeatsStay
    <3>3. QED
      BY <3>1, <3>2
  <2>3. CASE s[1] # p
    BY <2>1, <2>2, <2>3
  <2>4. CASE s[1] = p
    <3>1. s = <<p, s[2]>> /\ s[2] \in Hosts
      BY <2>4
    <3>2. PICK now : now = StateOf(s)'.notConnected
      OBVIOUS
    <3>3. (s[2] \in down) = (now = TRUE)
      BY <3>1, <3>2
    <3>4. Seen(StateOf(s)') = [Seen(StateOf(s)) EXCEPT !.down = now] /\ now \in BOOLEAN
      <4>1. CASE StateOf(s)' = StateOf(s)
        BY <1>6, <2>1, <3>2, <4>1 DEF HostStates
      <4>2. CASE \E conn \in BOOLEAN : StateOf(s)' = setNotConnected(StateOf(s), conn)
        BY <1>6, <2>1, <3>2, <4>2
      <4>3. QED
        BY <2>2, <4>1, <4>2
    <3>5. (s[2] \in down) = now
      BY <3>3, <3>4
    <3>6. QED
      BY <2>1, <2>4, <3>4, <3>5
  <2>5. QED
    BY <2>3, <2>4
<1>8. down \in SUBSET Hosts
  OBVIOUS
<1> HIDE DEF down
<1>9. SeenOf' = [s \in Seats |-> IF s[1] = p THEN [SeenOf[s] EXCEPT !.down = s[2] \in down]
                                 ELSE SeenOf[s]]
  BY <1>7, SeenOfSeats
<1>10. Breaker!Learn(p, down)
  BY <1>1, <1>9, SeatsStay DEF Breaker!Learn
<1>11. QED
  BY <1>4, <1>8, <1>10 DEF Breaker!Next

-----------------------------------------------------------------------------
(***************************************************************************)
(* An esxcli command, or none, is sent to one host, or one is reported.    *)
(***************************************************************************)
\* The fields of a breaker, one changed after the other.
Written(b, o, a, r) == [b EXCEPT !.runs = r, !.open = o, !.age = a]

Fields(down, o, a, r) == [down |-> down, open |-> o, age |-> a, runs |-> r]

LEMMA FieldsChange ==
    ASSUME NEW st, NEW o, NEW a, NEW r
    PROVE  /\ [Seen(st) EXCEPT !.open = o] =
                 [down |-> Seen(st).down, open |-> o, age |-> Seen(st).age, runs |-> Seen(st).runs]
           /\ Written(Seen(st), o, a, r) = Fields(Seen(st).down, o, a, r)
<1>1. PICK b : b = Seen(st)
  OBVIOUS
<1>2. b = [down |-> b.down, open |-> b.open, age |-> b.age, runs |-> b.runs]
  BY <1>1 DEF Seen
<1>3. [b EXCEPT !.open = o] = [down |-> b.down, open |-> o, age |-> b.age, runs |-> b.runs]
  BY <1>2
<1>4. PICK b1 : b1 = [b EXCEPT !.runs = r]
  OBVIOUS
<1>5. b1 = [down |-> b.down, open |-> b.open, age |-> b.age, runs |-> r]
  BY <1>2, <1>4
<1>6. PICK b2 : b2 = [b1 EXCEPT !.open = o]
  OBVIOUS
<1>7. b2 = [down |-> b.down, open |-> o, age |-> b.age, runs |-> r]
  BY <1>5, <1>6
<1>8. [b2 EXCEPT !.age = a] = [down |-> b.down, open |-> o, age |-> a, runs |-> r]
  BY <1>7
<1>9. [b EXCEPT !.runs = r, !.open = o, !.age = a] = [b2 EXCEPT !.age = a]
  BY <1>4, <1>6
<1>10. QED
  BY <1>1, <1>3, <1>8, <1>9 DEF Written, Fields

Passed(st, new) == Seen(new) = Seen(st)

Closed(st, new) ==
    /\ Breaker!Tried(Seen(st))
    /\ Seen(new) = [Seen(st) EXCEPT !.open = FALSE]

Ran(st, new, fails) ==
    /\ Breaker!Tried(Seen(st))
    /\ Seen(st).runs < MaxRuns
    /\ Seen(new) = [down |-> Seen(st).down,
                    open |-> fails,
                    age  |-> IF fails THEN 0 ELSE Seen(st).age,
                    runs |-> Seen(st).runs + 1]

Reported(st, new) ==
    /\ "report" \in Calls
    /\ ~Seen(st).down /\ (Seen(st).open => Seen(st).age > 0)
    /\ Seen(new) = [Seen(st) EXCEPT !.open = FALSE]

\* isHostConnectedAndResponding lets through the hosts that may be tried, and
\* what it forgets of them is that they did not respond.
LEMMA LetThrough ==
    ASSUME NEW st \in HostStates, isHostConnectedAndResponding(st, SkipFor)
    PROVE  /\ Breaker!Tried(Seen(st))
           /\ Asked(st, SkipFor) = [st EXCEPT !.notResponding = FALSE]
<1>1. ~st.notConnected /\ ~Asked(st, SkipFor).notResponding
  BY DEF isHostConnectedAndResponding
<1>2. CASE SkipIsOver(st, SkipFor)
  <2>1. Asked(st, SkipFor) = [st EXCEPT !.notResponding = FALSE]
    BY <1>1, <1>2 DEF Asked, setNotResponding
  <2>2. st.lastNoResponse > SkipFor
    BY <1>2 DEF SkipIsOver
  <2>3. QED
    BY <1>1, <2>1, <2>2 DEF Breaker!Tried, Seen
<1>3. CASE ~SkipIsOver(st, SkipFor)
  <2>1. Asked(st, SkipFor) = st
    BY <1>3 DEF Asked
  <2>2. st.notResponding = FALSE
    BY <1>1, <2>1 DEF HostStates
  <2>3. st = [st EXCEPT !.notResponding = FALSE]
    BY <2>2 DEF HostStates
  <2>4. QED
    BY <1>1, <2>1, <2>2, <2>3 DEF Breaker!Tried, Seen
<1>4. QED
  BY <1>2, <1>3

LEMMA VisitOfState ==
    ASSUME NEW st \in HostStates, NEW o \in Outcomes,
           o = "skipped" <=> ~isHostConnectedAndResponding(st, SkipFor),
           o \in {"skipped", "executor"} \/ st.responseTime < MaxRuns
    PROVE  \/ Passed(st, AfterVisit(st, o))
           \/ Closed(st, AfterVisit(st, o))
           \/ \E fails \in BOOLEAN : Ran(st, AfterVisit(st, o), fails)
<1>1. PICK a : a = Asked(st, SkipFor)
  OBVIOUS
<1>2. CASE o = "skipped"
  <2>1. a = st
    BY <1>1, <1>2 DEF isHostConnectedAndResponding, Asked, setNotResponding, HostStates
  <2>2. AfterVisit(st, o) = a
    BY <1>1, <1>2 DEF AfterVisit
  <2>3. QED
    BY <2>1, <2>2 DEF Passed
<1>3. CASE o # "skipped"
  <2>1. Breaker!Tried(Seen(st)) /\ a = [st EXCEPT !.notResponding = FALSE]
    BY <1>1, <1>3, LetThrough
  <2>2. /\ a \in HostStates /\ a.notConnected = st.notConnected /\ a.notResponding = FALSE
        /\ a.lastNoResponse = st.lastNoResponse /\ a.responseTime = st.responseTime
    BY <2>1 DEF HostStates
  <2>3. CASE o = "executor"
    <3>1. AfterVisit(st, o) = a
      BY <1>1, <2>3 DEF AfterVisit
    <3>2. Seen(a) = [down |-> Seen(st).down, open |-> FALSE,
                     age |-> Seen(st).age, runs |-> Seen(st).runs]
      BY <2>2 DEF Seen
    <3>3. [Seen(st) EXCEPT !.open = FALSE] =
             [down |-> Seen(st).down, open |-> FALSE,
              age |-> Seen(st).age, runs |-> Seen(st).runs]
      BY FieldsChange, Zenon
    <3>4. QED
      BY <2>1, <3>1, <3>2, <3>3 DEF Closed
  <2>4. CASE o = "ok"
    <3>1. AfterVisit(st, o) = [a EXCEPT !.responseTime = @ + 1]
      BY <1>1, <2>4 DEF AfterVisit, sumResponseTime
    <3>2. Seen(AfterVisit(st, o)) = [down |-> Seen(st).down, open |-> FALSE,
                                     age |-> Seen(st).age, runs |-> Seen(st).runs + 1]
      BY <2>2, <3>1 DEF Seen, HostStates
    <3>3. Seen(st).runs < MaxRuns
      BY <2>4 DEF Seen
    <3>4. Ran(st, AfterVisit(st, o), FALSE)
      BY <2>1, <3>2, <3>3 DEF Ran
    <3>5. QED
      BY <3>4
  <2>5. CASE o \in RunFails
    <3>1. AfterVisit(st, o) = setNotResponding([a EXCEPT !.responseTime = @ + 1], TRUE)
      BY <1>1, <2>5 DEF AfterVisit, sumResponseTime, RunFails
    <3>2. PICK b : b = [a EXCEPT !.responseTime = a.responseTime + 1]
      OBVIOUS
    <3>3. AfterVisit(st, o) = [b EXCEPT !.notResponding = TRUE, !.lastNoResponse = 0]
      BY <3>1, <3>2 DEF setNotResponding
    <3>4. Seen(AfterVisit(st, o)) = [down |-> Seen(st).down, open |-> TRUE,
                                     age |-> 0, runs |-> Seen(st).runs + 1]
      BY <2>2, <3>2, <3>3 DEF Seen, HostStates
    <3>5. Seen(st).runs < MaxRuns
      BY <2>5 DEF Seen, RunFails
    <3>6. Ran(st, AfterVisit(st, o), TRUE)
      BY <2>1, <3>4, <3>5 DEF Ran
    <3>7. QED
      BY <3>6
  <2>6. QED
    BY <1>3, <2>3, <2>4, <2>5 DEF Outcomes
<1>4. QED
  BY <1>2, <1>3

\* Asked with no skip, the report forgets that a host did not respond as soon
\* as a tick has passed.
LEMMA ReportOfState ==
    ASSUME NEW st \in HostStates, "report" \in Calls
    PROVE  Passed(st, Asked(st, 0)) \/ Reported(st, Asked(st, 0))
<1>1. CASE ~st.notConnected /\ SkipIsOver(st, 0)
  <2>1. Asked(st, 0) = [st EXCEPT !.notResponding = FALSE]
    BY <1>1 DEF Asked, setNotResponding
  <2>2. Seen(Asked(st, 0)) = [down |-> Seen(st).down, open |-> FALSE,
                              age |-> Seen(st).age, runs |-> Seen(st).runs]
    BY <2>1 DEF Seen, HostStates
  <2>3. [Seen(st) EXCEPT !.open = FALSE] = [down |-> Seen(st).down, open |-> FALSE,
                                            age |-> Seen(st).age, runs |-> Seen(st).runs]
    BY FieldsChange, Zenon
  <2>4. ~Seen(st).down /\ Seen(st).age > 0
    BY <1>1 DEF Seen, SkipIsOver
  <2>5. QED
    BY <2>2, <2>3, <2>4 DEF Reported
<1>2. CASE ~(~st.notConnected /\ SkipIsOver(st, 0))
  <2>1. Asked(st, 0) = st
    BY <1>2 DEF Asked
  <2>2. QED
    BY <2>1 DEF Passed
<1>3. QED
  BY <1>1, <1>2

\* What happens to the state of one seat, the others' left alone, is a step of
\* its breaker.
LEMMA OneSeatSteps ==
    ASSUME NEW s \in Taken, Taken' = Taken,
           \A q \in Seats : q # s => StateOf(q)' = StateOf(q),
           \/ Passed(StateOf(s), StateOf(s)')
           \/ Closed(StateOf(s), StateOf(s)')
           \/ Reported(StateOf(s), StateOf(s)')
           \/ \E fails \in BOOLEAN : Ran(StateOf(s), StateOf(s)', fails)
    PROVE  [Breaker!Next]_<<Taken, SeenOf>>
<1>1. s \in Seats
  BY DEF Taken
<1>2. /\ SeenOf[s] = Seen(StateOf(s)) /\ SeenOf'[s] = Seen(StateOf(s)')
      /\ SeenOf' = [SeenOf EXCEPT ![s] = SeenOf'[s]]
  BY <1>1 DEF SeenOf
<1>3. CASE Passed(StateOf(s), StateOf(s)')
  <2>1. SeenOf' = [SeenOf EXCEPT ![s] = SeenOf[s]]
    BY <1>2, <1>3 DEF Passed
  <2>2. SeenOf' = SeenOf
    BY <2>1 DEF SeenOf
  <2>3. QED
    BY <2>2
<1>4. CASE Closed(StateOf(s), StateOf(s)')
  <2>1. SeenOf' = [SeenOf EXCEPT ![s].open = FALSE]
    BY <1>2, <1>4 DEF Closed
  <2>2. Breaker!Close(s)
    BY <1>2, <1>4, <2>1 DEF Breaker!Close, Closed
  <2>3. QED
    BY <1>1, <2>2 DEF Breaker!Next
<1>5. CASE Reported(StateOf(s), StateOf(s)')
  <2>1. SeenOf' = [SeenOf EXCEPT ![s].open = FALSE]
    BY <1>2, <1>5 DEF Reported
  <2>2. Breaker!Report(s)
    BY <1>2, <1>5, <2>1 DEF Breaker!Report, Reported
  <2>3. QED
    BY <1>1, <2>2 DEF Breaker!Next
<1>6. CASE \E fails \in BOOLEAN : Ran(StateOf(s), StateOf(s)', fails)
  <2>1. PICK fails \in BOOLEAN : Ran(StateOf(s), StateOf(s)', fails)
    BY <1>6
  <2>2. PICK st, a, r : /\ st = StateOf(s)
                        /\ a = IF fails THEN 0 ELSE Seen(st).age
                        /\ r = Seen(st).runs + 1
    OBVIOUS
  <2>3. Written(Seen(st), fails, a, r) = Fields(Seen(st).down, fails, a, r)
    BY FieldsChange
  <2>4. SeenOf'[s] = Written(SeenOf[s], fails, a, r)
    BY <1>2, <2>1, <2>2, <2>3 DEF Ran, Fields
  <2>5. SeenOf' = [SeenOf EXCEPT ![s].runs = @ + 1, ![s].open = fails,
                                 ![s].age = IF fails THEN 0 ELSE @]
    BY <1>1, <1>2, <2>2, <2>4 DEF Written, SeenOf
  <2>6. Breaker!Command(s, fails)
    BY <1>2, <2>1, <2>5 DEF Breaker!Command, Ran
  <2>7. QED
    BY <1>1, <2>6 DEF Breaker!Next
<1>7. QED
  BY <1>3, <1>4, <1>5, <1>6

\* A step that writes one host state, at position j of place i.
LEMMA OneStateWritten ==
    ASSUME IInv, KnownBySeat, KnownBySeat', hosts' = hosts,
           NEW i \in DOMAIN hosts, NEW j \in DOMAIN hosts[i], NEW new,
           hostStates' = [hostStates EXCEPT ![i] = [hostStates[i] EXCEPT ![j] = new]],
           \/ Passed(hostStates[i][j], new)
           \/ Closed(hostStates[i][j], new)
           \/ Reported(hostStates[i][j], new)
           \/ \E fails \in BOOLEAN : Ran(hostStates[i][j], new, fails)
    PROVE  [Breaker!Next]_<<Taken, SeenOf>>
<1>1. PICK s : s = <<i, hosts[i][j]>>
  OBVIOUS
<1>2. i \in 1..Len(hostStates) /\ j \in 1..Len(hostStates[i])
  BY ListedTyped
<1>3. /\ hostStates'[i][j] = new
      /\ \A k \in 1..Len(hostStates) : \A m \in 1..Len(hostStates[k]) :
            k # i \/ m # j => hostStates'[k][m] = hostStates[k][m]
  <2>1. hostStates \in Seq(Seq(HostStates))
    BY DEF IInv, CacheTypeOK
  <2>2. hostStates[i] \in Seq(HostStates)
    BY <1>2, <2>1
  <2>3. PICK row : row = [hostStates[i] EXCEPT ![j] = new]
    OBVIOUS
  <2>4. /\ row[j] = new
        /\ \A m \in 1..Len(hostStates[i]) : m # j => row[m] = hostStates[i][m]
    BY <1>2, <2>2, <2>3
  <2>5. hostStates' = [hostStates EXCEPT ![i] = row]
    BY <2>3
  <2>6. /\ hostStates'[i] = row
        /\ \A k \in 1..Len(hostStates) : k # i => hostStates'[k] = hostStates[k]
    BY <1>2, <2>1, <2>5
  <2>7. QED
    BY <2>4, <2>6
<1>4. s \in Taken /\ StateOf(s) = hostStates[i][j] /\ StateOf(s)' = new
  BY <1>1, <1>3 DEF KnownBySeat
<1>5. ASSUME NEW q \in Seats, q # s
      PROVE  StateOf(q)' = StateOf(q)
  <2>1. CASE q \in Taken
    <3>1. PICK k, m : AtPosition(q, k, m)
      BY <2>1, SeatsStay
    <3>2. k # i \/ m # j
      BY <1>1, <1>5, <3>1 DEF AtPosition
    <3>3. QED
      BY <1>3, <3>1, <3>2 DEF AtPosition
  <2>2. CASE q \notin Taken
    BY <2>2, SeatsStay
  <2>3. QED
    BY <2>1, <2>2
<1>6. Taken' = Taken
  BY SeatsStay
<1>7. QED
  BY <1>4, <1>5, <1>6, OneSeatSteps

LEMMA EsxcliSteps ==
    ASSUME IInv, KnownBySeat, KnownBySeat', Esxcli PROVE [Breaker!Next]_<<Taken, SeenOf>>
<1>1. hosts' = hosts
  BY DEF Esxcli, listVars
<1>2. PICK i \in DOMAIN hosts : \E j \in DOMAIN hosts[i], o \in Outcomes : EsxcliVisit(i, j, o)
  BY DEF Esxcli
<1>3. PICK j \in DOMAIN hosts[i], o \in Outcomes : EsxcliVisit(i, j, o)
  BY <1>2
<1>4. PICK st : st = hostStates[i][j]
  OBVIOUS
<1>5. st \in HostStates
  BY <1>4, ListedTyped
<1>6. /\ o = "skipped" <=> ~isHostConnectedAndResponding(st, SkipFor)
      /\ o \in {"skipped", "executor"} \/ st.responseTime < MaxRuns
      /\ hostStates' = [hostStates EXCEPT ![i] = [hostStates[i] EXCEPT ![j] = AfterVisit(st, o)]]
  BY <1>3, <1>4 DEF EsxcliVisit
<1>7. \/ Passed(st, AfterVisit(st, o))
      \/ Closed(st, AfterVisit(st, o))
      \/ \E fails \in BOOLEAN : Ran(st, AfterVisit(st, o), fails)
  BY <1>5, <1>6, VisitOfState
<1>8. QED
  BY <1>1, <1>4, <1>6, <1>7, OneStateWritten

LEMMA ReportSteps ==
    ASSUME IInv, KnownBySeat, KnownBySeat', Report PROVE [Breaker!Next]_<<Taken, SeenOf>>
<1>1. hosts' = hosts /\ "report" \in Calls
  BY DEF Report, listVars, MayCall
<1>2. PICK i \in DOMAIN hosts : \E j \in DOMAIN hosts[i] : ReportHost(i, j)
  BY DEF Report
<1>3. PICK j \in DOMAIN hosts[i] : ReportHost(i, j)
  BY <1>2
<1>4. PICK st : st = hostStates[i][j]
  OBVIOUS
<1>5. st \in HostStates
  BY <1>4, ListedTyped
<1>6. hostStates' = [hostStates EXCEPT ![i] = [hostStates[i] EXCEPT ![j] = Asked(st, 0)]]
  BY <1>3, <1>4 DEF ReportHost
<1>7. Passed(st, Asked(st, 0)) \/ Reported(st, Asked(st, 0))
  BY <1>1, <1>5, ReportOfState
<1>8. QED
  BY <1>1, <1>4, <1>6, <1>7, OneStateWritten

-----------------------------------------------------------------------------
(***************************************************************************)
(* The promise                                                             *)
(***************************************************************************)
LEMMA NothingIsKnownAtFirst ==
    ASSUME CacheInit
    PROVE  ListingsInv /\ Taken = {} /\ SeenOf = [s \in Seats |-> Breaker!Unknown]
<1>1. ListingsInv
  BY DEF CacheInit, ListingsInv
<1>2. \A s : Positions(s) = {}
  BY DEF CacheInit, Positions
<1>3. \A s : StateOf(s) = ZeroState
  BY <1>2 DEF StateOf
<1>4. QED
  BY <1>1, <1>2, <1>3, UnknownIsNew DEF Taken, SeenOf

LEMMA ListingsStay ==
    ASSUME IInv, ListingsInv, [CollectorNext]_cacheVars
    PROVE  ListingsInv'
<1>1. CASE \/ RefreshDatacenters \/ RefreshClustersAndHosts \/ RefreshNetworks
           \/ RefreshDatastores \/ RefreshVMs
  BY <1>1, RefreshedAtPlaces
<1>2. CASE Tick \/ Reset \/ Info \/ Esxcli \/ Report \/ Others \/ UNCHANGED cacheVars
  <2>1. UNCHANGED <<dcs, hosts>>
    BY <1>2 DEF Tick, Reset, Info, Esxcli, Report, Others, listVars, cacheVars, dcVars, chVars
  <2>2. QED
    BY <2>1, SameListings
<1>3. QED
  BY <1>1, <1>2 DEF CollectorNext

\* Every step of the collector is one of the breakers, or none.
LEMMA EveryStepIsKept ==
    ASSUME IInv, ListingsInv, IInv', ListingsInv', [CollectorNext]_cacheVars
    PROVE  [Breaker!Next]_<<Taken, SeenOf>>
<1>1. KnownBySeat /\ KnownBySeat'
  BY StatesOfSeats, NextStatesOfSeats
<1>2. CASE \/ RefreshDatacenters \/ RefreshClustersAndHosts \/ RefreshNetworks
           \/ RefreshDatastores \/ RefreshVMs
  BY <1>1, <1>2, RefreshedAtPlaces, RelistsSeats
<1>3. CASE Tick
  BY <1>1, <1>3, TickSteps
<1>4. CASE Reset
  BY <1>1, <1>4, ResetSteps
<1>5. CASE Info
  BY <1>1, <1>5, InfoSteps
<1>6. CASE Esxcli
  BY <1>1, <1>6, EsxcliSteps
<1>7. CASE Report
  BY <1>1, <1>7, ReportSteps
<1>8. CASE Others \/ UNCHANGED cacheVars
  <2>1. UNCHANGED <<hosts, hostStates>>
    BY <1>8 DEF Others, listVars, cacheVars, chVars
  <2>2. ASSUME NEW s \in Seats PROVE StateOf(s)' = StateOf(s)
    BY <1>1, <2>1, SeatsStay DEF AtPosition
  <2>3. Taken' = Taken /\ SeenOf' = SeenOf
    BY <1>1, <2>1, <2>2, SeatsStay DEF SeenOf
  <2>4. QED
    BY <2>3
<1>9. QED
  BY <1>2, <1>3, <1>4, <1>5, <1>6, <1>7, <1>8 DEF CollectorNext

\* The collector implements HostBreaker.  Whatever is refreshed, fails or
\* changes at the vCenter, a host that is known to be down is sent no command,
\* and one that has failed is sent none for SkipFor ticks, unless it was
\* reported a tick or more after the failure, or its place was listed anew and
\* all was forgotten there or handed on, one for one
\* (isHostConnectedAndResponding, cache.go:296, and the slices of
\* getAllDatacentersClustersAndHosts, cache.go:64-118).
THEOREM PromiseIsKept == CollectorSpec => KeepsThePromise
<1>1. CacheInit => ListingsInv /\ Taken = {} /\ SeenOf = [s \in Seats |-> Breaker!Unknown]
  BY NothingIsKnownAtFirst
<1>2. CacheInit => Breaker!Init
  BY <1>1 DEF Breaker!Init
<1>3. IInv /\ IInv' /\ ListingsInv /\ [CollectorNext]_cacheVars => ListingsInv'
  BY ListingsStay
<1>4. IInv /\ IInv' /\ ListingsInv /\ ListingsInv' /\ [CollectorNext]_cacheVars
         => [Breaker!Next]_<<Taken, SeenOf>>
  BY EveryStepIsKept
<1>5. CollectorSpec => []IInv
  BY CollectorInvariant
<1>6. QED
  BY <1>1, <1>2, <1>3, <1>4, <1>5, PTL DEF CollectorSpec, KeepsThePromise, Breaker!Spec

===============================================================================
