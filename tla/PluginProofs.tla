----------------------------- MODULE PluginProofs -----------------------------
(***************************************************************************)
(* Theorems about Plugin, for all configurations, intervals, platforms and *)
(* sessions.  The invariants of the runs and their action properties are   *)
(* proved from one inductive invariant, whose parts follow the process:    *)
(* what main has set up, what the session is between two remote calls, and *)
(* how far the loop of a collector has come.                               *)
(***************************************************************************)
EXTENDS Plugin, SequenceTheorems, TLAPS

\* What main has done before each of its stages.
StartupInv ==
    /\ stage = "load" => config.poll = 60 /\ vcc = None
    /\ stage \in {"interval", "metrics", "run", "running"} =>
          /\ InitSucceeds(config)
          /\ vcc # None /\ vcc.queryBulkSize = config.bulk
    /\ stage \in {"metrics", "run", "running"} /\ flag > 0 => config.timeout # 0
    /\ stage \in {"run", "running"} => registered
    /\ pc # "idle" => stage = "running"

\* A login needs a client and a new client needs that there is none; only a
\* vCenter that has failed to answer makes a call late, or a timeout that is not
\* positive.
SessionInv ==
    /\ pc \in {"login", "close"} => client # None
    /\ pc = "newclient" => client = None
    /\ late => /\ pc \in {"login", "close", "newclient", "panic"}
               /\ steady => config.timeout <= 0
    /\ steady => answers /\ accepts

AtRest == {"idle", "isactive", "login", "close", "newclient", "failed", "collect", "return"}

LoopAtRest ==
    dc = 0 /\ arefs = <<>> /\ from = 0 /\ mos = {} /\ reports = {} /\ clean = TRUE

\* The entities selected at datacenter i are reported there.
ReportedAt(i) == \A r \in Elements(platform[i]) : <<r, i>> \in reports

\* The loop is where it says: the lists hold the references of the datacenter,
\* and those before the next chunk are reported.
LoopInv ==
    /\ pc \in AtRest => LoopAtRest
    /\ Collecting =>
          /\ kind \in 1..Len(Order) /\ listedBy = "client"
          /\ dc \in 1..Len(platform) + 1
          /\ clean => \A i \in 1..dc - 1 : ReportedAt(i)
    /\ pc = "chunks" =>
          /\ dc <= Len(platform)
          /\ arefs = <<>> \/ vcc.queryBulkSize > 0
          /\ Running \in EmptiesList => arefs = platform[dc]
          /\ Elements(platform[dc]) \subseteq Elements(arefs)
          /\ clean => \A k \in DOMAIN arefs :
                         k <= from /\ arefs[k] \in Elements(platform[dc])
                            => <<arefs[k], dc>> \in reports

Promises ==
    /\ NothingOutlivesAGather
    /\ ClientHasCollector
    /\ SteadyGatherHasSession
    /\ HostsUnderTheirDatacenter

IInv == PluginTypeOK /\ StartupInv /\ SessionInv /\ LoopInv /\ Promises

-----------------------------------------------------------------------------
(***************************************************************************)
(* The start                                                               *)
(***************************************************************************)
USE TablesAssumption, PollsAssumption, NoneAssumption

LEMMA ConfigsAreTyped == \A c \in Configs : c \in Config /\ c.poll = 60
<1>1. Defaults \in Table
  BY SMT DEF Defaults, Table, Int16
<1>2. ASSUME NEW t \in Table PROVE Configured(t) \in Config /\ Configured(t).poll = 60
  BY DEF Configured, Table, Config
<1>3. QED
  BY <1>1, <1>2 DEF Configs

\* The parts of IInv about what main does.
Started == StartupTypeOK /\ StartupInv /\ NothingOutlivesAGather

LEMMA CollectorIsTyped ==
    ASSUME NEW c \in Config, c.poll = 60
    PROVE  /\ CollectorOf(c) \in Collector
           /\ CollectorOf(c).dataDuration = 0
           /\ CollectorOf(c).skipNotRespondigFor < Second
           /\ CollectorOf(c).queryBulkSize = c.bulk
<1>1. c.intervals \in Int16 /\ c.bulk \in Int
  BY DEF Config
<1>2. Round((c.poll * 95) \div 100) = 0
  BY SMT DEF Round, Second
<1>3. 60 * c.intervals \in Int /\ 60 * c.intervals < Second
  BY <1>1, SMT DEF Int16, Second
<1>4. QED
  BY <1>1, <1>2, <1>3 DEF CollectorOf, Collector

LEMMA StartupBegins == StartupInit /\ pc = "idle" => Started
  BY ConfigsAreTyped
  DEF StartupInit, Started, StartupTypeOK, StartupInv, NothingOutlivesAGather

LEMMA StartupProceeds ==
    ASSUME Started, StartupStep, UNCHANGED pc
    PROVE  Started'
<1>1. pc = "idle"
  BY DEF Started, StartupInv, StartupStep, LoadConfig, SetPollInterval, StartSelfMetrics, Run
<1>2. CASE LoadConfig
  <2>1. config \in Config /\ config.poll = 60
    BY <1>2 DEF LoadConfig, Started, StartupTypeOK, StartupInv
  <2>2. CollectorOf(config) # None
    BY <2>1, CollectorIsTyped
  <2>3. QED
    BY <1>1, <1>2, <2>1, <2>2, CollectorIsTyped
    DEF LoadConfig, Started, StartupTypeOK, StartupInv, NothingOutlivesAGather, InitSucceeds
<1>3. CASE SetPollInterval
  <2>1. config \in Config /\ flag \in Int
    BY DEF Started, StartupTypeOK
  <2>2. PICK t \in Int : /\ config' = [config EXCEPT !.poll = flag, !.timeout = t]
                         /\ flag > 0 => t # 0
    <3> DEFINE t == IF config.timeout = 0 \/ config.timeout > flag THEN flag
                    ELSE config.timeout
    <3>1. config' = [config EXCEPT !.poll = flag, !.timeout = t]
      BY <1>3 DEF SetPollInterval
    <3>2. t \in Int /\ (flag > 0 => t # 0)
      BY <2>1 DEF Config
    <3>3. QED
      BY <3>1, <3>2
  <2>3. PICK c \in Config : c = [config EXCEPT !.poll = flag]
    BY <2>1 DEF Config
  <2>4. PICK d \in Config : d = [c EXCEPT !.timeout = t] /\ d = config'
    BY <2>2, <2>3 DEF Config
  <2>5. config' \in Config /\ config'.timeout = t /\ config'.bulk = config.bulk
    BY <2>1, <2>2, <2>3, <2>4 DEF Config
  <2>6. InitSucceeds(config) => InitSucceeds(config')
    BY <2>1, <2>3, <2>4 DEF Config, InitSucceeds
  <2>7. QED
    BY <1>1, <1>3, <2>2, <2>5, <2>6
    DEF SetPollInterval, Started, StartupTypeOK, StartupInv, NothingOutlivesAGather
<1>4. CASE StartSelfMetrics
  BY <1>1, <1>4
  DEF StartSelfMetrics, Started, StartupTypeOK, StartupInv, NothingOutlivesAGather,
      Config, InitSucceeds
<1>5. CASE Run
  BY <1>1, <1>5 DEF Run, Started, StartupTypeOK, StartupInv, NothingOutlivesAGather
<1>6. QED
  BY <1>2, <1>3, <1>4, <1>5 DEF StartupStep

LEMMA StartupKept ==
    ASSUME Started, UNCHANGED startupVars, pc' # "idle" => pc # "idle" \/ stage = "running"
    PROVE  Started'
  BY DEF Started, StartupTypeOK, StartupInv, NothingOutlivesAGather, startupVars

LEMMA StartupAnew == Restart => Started'
  BY ConfigsAreTyped
  DEF Restart, Started, StartupTypeOK, StartupInv, NothingOutlivesAGather

-----------------------------------------------------------------------------
(***************************************************************************)
(* The session                                                             *)
(***************************************************************************)
USE NoneIsNoSession

\* The parts of IInv about the session.
Linked ==
    /\ SessionTypeOK /\ SessionInv
    /\ ClientHasCollector /\ SteadyGatherHasSession

LEMMA SessionBegins == SessionInit => Linked
  BY DEF SessionInit, Linked, SessionTypeOK, SessionInv, ClientHasCollector,
         SteadyGatherHasSession

LEMMA GatherBegins ==
    ASSUME Started, Linked, BeginGather, UNCHANGED startupVars
    PROVE  Linked' /\ pc' = "isactive"
<1>1. vcc # None /\ ~late
  BY DEF Started, StartupInv, Linked, SessionInv, BeginGather
<1>2. QED
  BY <1>1
  DEF BeginGather, clientVars, startupVars, Linked, SessionTypeOK, SessionInv,
      ClientHasCollector, SteadyGatherHasSession

\* Where keepActiveSession goes from each of its steps.
InSession == {"login", "close", "newclient", "failed", "collect"}

LEMMA ActivityAsked ==
    ASSUME Started, Linked, IsActive(expired), UNCHANGED startupVars
    PROVE  Linked' /\ pc' \in InSession
<1>1. registered /\ config.timeout \in Int /\ ~late
  BY DEF Started, StartupInv, StartupTypeOK, Config, Linked, SessionInv, IsActive
<1>2. CASE pc' = "collect" /\ UNCHANGED late
  BY <1>1, <1>2
  DEF IsActive, vCenterVars, startupVars, InSession, Linked, SessionTypeOK, SessionInv,
      ClientHasCollector, SteadyGatherHasSession
<1>3. CASE /\ pc' = IF client = None THEN "newclient" ELSE "login"
           /\ late' = (config.timeout <= 0)
  <2>1. late' \in BOOLEAN /\ (late' => config.timeout <= 0)
    <3>1. late' \in BOOLEAN
      BY <1>3, SMT
    <3>2. late' => config.timeout <= 0
      BY <1>3, Zenon
    <3>3. QED
      BY <3>1, <3>2
  <2>2. pc' = "newclient" => client = None
    BY <1>3
  <2>3. pc' = "login" => client # None
    BY <1>3
  <2>4. QED
    BY <1>1, <1>3, <2>1, <2>2, <2>3
    DEF IsActive, vCenterVars, startupVars, InSession, Linked, SessionTypeOK, SessionInv,
        ClientHasCollector, SteadyGatherHasSession
<1>4. QED
  BY <1>1, <1>2, <1>3, Zenon DEF IsActive

LEMMA LoggedIn ==
    ASSUME Linked, Login, UNCHANGED startupVars
    PROVE  Linked' /\ pc' \in InSession
<1>1. /\ pc = "login" /\ client # None /\ client \in Sessions
      /\ coll = TRUE /\ live \subseteq Sessions
      /\ late \in BOOLEAN /\ steady \in BOOLEAN
      /\ answers \in BOOLEAN /\ accepts \in BOOLEAN
      /\ steady => answers /\ accepts
      /\ late /\ steady => config.timeout <= 0
      /\ UNCHANGED <<config, coll, answers, accepts, steady>>
  BY DEF Login, startupVars, Linked, SessionTypeOK, SessionInv, ClientHasCollector
<1>2. live' \subseteq Sessions /\ client' \in Sessions /\ client' # None
  BY <1>1 DEF Login, Leave, Free
<1>3. CASE pc' = "collect" /\ late' = FALSE
  BY <1>1, <1>2, <1>3
  DEF InSession, Linked, SessionTypeOK, SessionInv, ClientHasCollector, SteadyGatherHasSession
<1>4. CASE pc' = "close" /\ late' \in BOOLEAN /\ (late' => late \/ ~answers)
  BY <1>1, <1>2, <1>4
  DEF InSession, Linked, SessionTypeOK, SessionInv, ClientHasCollector, SteadyGatherHasSession
<1>5. QED
  BY <1>1, <1>3, <1>4 DEF Login

LEMMA Closed ==
    ASSUME Linked, Close, UNCHANGED startupVars
    PROVE  Linked' /\ pc' \in InSession
<1>1. /\ pc' = "newclient" /\ client' = None /\ coll' = FALSE /\ live' \subseteq live
      /\ UNCHANGED <<late, answers, accepts, steady, startupVars>>
  BY DEF Close, Linked, SessionInv, ClientHasCollector
<1>2. QED
  BY <1>1
  DEF startupVars, InSession, Linked, SessionTypeOK, SessionInv, ClientHasCollector,
      SteadyGatherHasSession

LEMMA Opened ==
    ASSUME Started, Linked, NewClient, UNCHANGED startupVars
    PROVE  Linked' /\ pc' \in InSession
<1>1. /\ pc = "newclient" /\ client = None /\ coll = FALSE /\ live \subseteq Sessions
      /\ stage = "running" /\ flag \in Int /\ config.timeout \in Int
      /\ flag > 0 => config.timeout # 0
  BY DEF NewClient, Started, StartupInv, StartupTypeOK, Config, Linked, SessionTypeOK,
         SessionInv, ClientHasCollector
<1>2. /\ late' = FALSE
      /\ UNCHANGED <<answers, accepts, steady, startupVars>>
      /\ steady \in BOOLEAN /\ answers \in BOOLEAN /\ accepts \in BOOLEAN
      /\ steady => answers /\ accepts
      /\ late /\ steady => config.timeout <= 0
  BY DEF NewClient, Linked, SessionTypeOK, SessionInv
<1>3. CASE \E s \in Free : /\ client' = s /\ live' = live \cup {s}
                           /\ pc' = "collect" /\ coll' = TRUE
  BY <1>1, <1>2, <1>3
  DEF Free, InSession, Linked, SessionTypeOK, SessionInv, ClientHasCollector,
      SteadyGatherHasSession
<1>4. CASE /\ live' \subseteq Sessions
           /\ ~LoginIsHeard \/ ~config.ca \/ ~config.isVC \/ ~answers
           /\ pc' = "failed" /\ UNCHANGED <<client, coll>>
  <2>1. steady => ~CanOpen
    BY <1>1, <1>2, <1>4 DEF LoginIsHeard, CanOpen
  <2>2. (steady => ~CanOpen)'
    BY <1>2, <2>1 DEF CanOpen, startupVars
  <2>3. QED
    BY <1>1, <1>2, <1>4, <2>2
    DEF startupVars, InSession, Linked, SessionTypeOK, SessionInv, ClientHasCollector,
        SteadyGatherHasSession
<1>5. Leave => live' \subseteq Sessions
  BY <1>1 DEF Leave, Free
<1>6. QED
  BY <1>1, <1>3, <1>4, <1>5 DEF NewClient

LEMMA VCenterActed ==
    ASSUME Linked, VCenterStep, UNCHANGED startupVars
    PROVE  Linked' /\ pc' = pc
<1>1. CASE SessionDies
  BY <1>1
  DEF SessionDies, clientVars, startupVars, Linked, SessionTypeOK, SessionInv,
      ClientHasCollector, SteadyGatherHasSession, CanOpen
<1>2. CASE VCenterStops
  BY <1>2
  DEF VCenterStops, clientVars, startupVars, Linked, SessionTypeOK, SessionInv,
      ClientHasCollector, SteadyGatherHasSession, CanOpen
<1>3. CASE VCenterAnswers
  BY <1>3
  DEF VCenterAnswers, clientVars, startupVars, Linked, SessionTypeOK, SessionInv,
      ClientHasCollector, SteadyGatherHasSession, CanOpen
<1>4. CASE CredentialsChange
  BY <1>4
  DEF CredentialsChange, clientVars, startupVars, Linked, SessionTypeOK, SessionInv,
      ClientHasCollector, SteadyGatherHasSession, CanOpen
<1>5. QED
  BY <1>1, <1>2, <1>3, <1>4 DEF VCenterStep

LEMMA SessionKept ==
    ASSUME Linked, UNCHANGED <<startupVars, clientVars, vCenterVars>>,
           pc' # pc => ~late /\ pc' \notin {"login", "close", "newclient", "failed"}
    PROVE  Linked'
  BY DEF clientVars, vCenterVars, startupVars, Linked, SessionTypeOK, SessionInv,
         ClientHasCollector, SteadyGatherHasSession, CanOpen

LEMMA SessionAnew == Linked /\ Restart => Linked'
<1> SUFFICES ASSUME Linked, Restart PROVE Linked'
  OBVIOUS
<1>1. /\ pc' = "idle" /\ client' = None /\ coll' = FALSE /\ late' = FALSE
      /\ UNCHANGED <<answers, accepts, steady>>
  BY DEF Restart
<1>2. live' \subseteq live
  BY DEF Restart, Unheld
<1>3. QED
  BY <1>1, <1>2 DEF Linked, SessionTypeOK, SessionInv, ClientHasCollector,
                    SteadyGatherHasSession

-----------------------------------------------------------------------------
(***************************************************************************)
(* Lists and chunks                                                        *)
(***************************************************************************)
LEMMA Concatenation ==
    ASSUME NEW S, NEW a \in Seq(S), NEW b \in Seq(S)
    PROVE  /\ a \o b \in Seq(S)
           /\ Elements(b) \subseteq Elements(a \o b)
           /\ <<>> \o b = b
<1>1. a \o b \in Seq(S) /\ Len(a \o b) = Len(a) + Len(b)
  OBVIOUS
<1>2. ASSUME NEW k \in DOMAIN b PROVE b[k] \in Elements(a \o b)
  <2>1. Len(a) + k \in DOMAIN (a \o b) /\ (a \o b)[Len(a) + k] = b[k]
    BY <1>1, <1>2
  <2>2. QED
    BY <2>1 DEF Elements
<1>3. <<>> \o b = b
  OBVIOUS
<1>4. QED
  BY <1>1, <1>2, <1>3 DEF Elements

\* A chunk holds the size elements after the first i of its list, or as many
\* as there are, and no others.
LEMMA ChunkHolds ==
    ASSUME NEW S, NEW list \in Seq(S), NEW i \in Nat, NEW size \in Nat \ {0}, i < Len(list)
    PROVE  /\ Elements(Chunk(list, i, size)) \subseteq Elements(list)
           /\ Elements(Chunk(list, i, size)) \subseteq S
           /\ \A k \in DOMAIN list :
                 i < k /\ k <= i + size => list[k] \in Elements(Chunk(list, i, size))
<1> DEFINE n == IF i + size > Len(list) THEN Len(list) ELSE i + size
           chunk == SubSeq(list, i + 1, n)
<1>1. n \in Nat /\ i + 1 <= n /\ n <= Len(list) /\ Len(list) \in Nat
  OBVIOUS
<1>2. \A k \in i + 1..n : list[k] \in S
  BY <1>1
<1>3. /\ chunk \in Seq(S) /\ Len(chunk) = n - i
      /\ \A j \in 1..n - i : chunk[j] = list[i + j]
  BY <1>1, <1>2, SubSeqProperties
<1>4. ASSUME NEW j \in DOMAIN chunk
      PROVE  chunk[j] \in Elements(list) /\ chunk[j] \in S
  <2>1. j \in 1..n - i /\ i + j \in DOMAIN list
    BY <1>1, <1>3
  <2>2. QED
    BY <1>3, <2>1 DEF Elements
<1>5. ASSUME NEW k \in DOMAIN list, i < k, k <= i + size
      PROVE  list[k] \in Elements(chunk)
  <2>1. k \in Nat /\ k <= n
    BY <1>5
  <2>2. k - i \in 1..n - i /\ i + (k - i) = k
    BY <1>1, <1>5, <2>1
  <2>3. k - i \in DOMAIN chunk /\ chunk[k - i] = list[k]
    BY <1>1, <1>3, <2>2
  <2>4. QED
    BY <2>3 DEF Elements
<1>6. Chunk(list, i, size) = chunk
  BY DEF Chunk
<1>7. QED
  BY <1>4, <1>5, <1>6 DEF Elements

-----------------------------------------------------------------------------
(***************************************************************************)
(* The collectors                                                          *)
(***************************************************************************)
USE PlatformsAssumption

\* The parts of IInv about the collectors.
Looped ==
    /\ CollectTypeOK /\ LoopInv /\ HostsUnderTheirDatacenter

LEMMA PlatformIsTyped ==
    ASSUME CollectTypeOK
    PROVE  platform \in Seq(Seq(Refs))
  BY DEF CollectTypeOK

LEMMA OrderIsLong == Len(Order) = 7 /\ 0 \in 0..Len(Order)
<1>1. Len(Order) = 7
  BY DEF Order
<1>2. QED
  BY <1>1

\* Outside of its loop a collector has nothing.
LEMMA AtRestAgain ==
    ASSUME CollectTypeOK, LoopAtRest', UNCHANGED platform, pc' \in AtRest,
           expired' \in BOOLEAN, kind' \in 0..Len(Order),
           listedBy' \in {"none", "client", "old"}
    PROVE  Looped'
  BY DEF CollectTypeOK, LoopAtRest, AtRest, Looped, LoopInv, HostsUnderTheirDatacenter,
         Collecting

\* What a collector's loop has come to is kept by every step of others.
LEMMA LoopKept ==
    ASSUME Looped, UNCHANGED <<startupVars, pc, platform, kind, listedBy, loopVars>>,
           expired' \in BOOLEAN
    PROVE  Looped'
<1>1. UNCHANGED <<stage, flag, config, vcc, registered, dc, arefs, from, mos, reports, clean>>
  BY DEF startupVars, loopVars
<1>2. CollectTypeOK' /\ HostsUnderTheirDatacenter'
  BY <1>1
  DEF Looped, CollectTypeOK, HostsUnderTheirDatacenter, Collecting, Running
<1>3. LoopInv'
  BY <1>1 DEF Looped, LoopInv, LoopAtRest, Collecting, Running, ReportedAt
<1>4. QED
  BY <1>2, <1>3 DEF Looped

LEMMA CollectorBegins ==
    ASSUME Started, Looped, BeginCollector
    PROVE  Looped' /\ pc' \in {"refs", "collect", "return"}
<1>1. /\ LoopAtRest /\ vcc.dataDuration = 0
      /\ UNCHANGED <<startupVars, platform, expired>>
  BY DEF BeginCollector, Looped, LoopInv, AtRest, Started, StartupInv, NothingOutlivesAGather
<1>2. CollectTypeOK /\ kind' \in 1..Len(Order) /\ kind' \in 0..Len(Order)
  BY OrderIsLong DEF BeginCollector, Looped, CollectTypeOK
<1>3. CASE pc' = "refs"
  <2>1. dc' = 1 /\ listedBy' = "client" /\ UNCHANGED <<arefs, from, mos, reports, clean>>
    BY <1>1, <1>3 DEF BeginCollector
  <2>2. platform \in Seq(Seq(Refs)) /\ dc' \in 1..Len(platform) + 1 /\ 1..dc' - 1 = {}
    BY <1>2, <2>1, PlatformIsTyped
  <2>3. CollectTypeOK'
    BY <1>1, <1>2, <1>3, <2>1 DEF CollectTypeOK
  <2>4. LoopInv'
    BY <1>1, <1>2, <1>3, <2>1, <2>2 DEF LoopInv, AtRest, Collecting
  <2>5. HostsUnderTheirDatacenter'
    BY <1>1, <1>3, <2>1 DEF LoopAtRest, HostsUnderTheirDatacenter
  <2>6. QED
    BY <1>3, <2>3, <2>4, <2>5 DEF Looped
<1>4. CASE pc' # "refs"
  <2>1. pc' \in {"collect", "return"} /\ UNCHANGED <<listedBy, loopVars>>
    BY <1>4 DEF BeginCollector
  <2>2. LoopAtRest' /\ pc' \in AtRest
    BY <1>1, <2>1 DEF LoopAtRest, loopVars, AtRest
  <2>3. QED
    BY <1>1, <1>2, <2>1, <2>2, AtRestAgain DEF CollectTypeOK
<1>5. QED
  BY <1>3, <1>4

LEMMA ReferencesListed ==
    ASSUME Started, Looped, ListReferences
    PROVE  Looped' /\ pc' \in {"chunks", "hung", "panic"}
<1> DEFINE list == (IF Running \in EmptiesList THEN <<>> ELSE arefs) \o platform[dc]
<1>1. /\ pc = "refs" /\ arefs' = list /\ from' = 0
      /\ UNCHANGED <<startupVars, platform, expired, kind, listedBy, dc, mos, reports, clean>>
      /\ pc' \in {"chunks", "hung", "panic"}
  BY DEF ListReferences
<1>2. CollectTypeOK /\ LoopInv /\ dc \in 1..Len(platform)
  <2>1. CollectTypeOK /\ LoopInv /\ platform \in Seq(Seq(Refs))
    BY PlatformIsTyped DEF Looped
  <2>2. QED
    BY <1>1, <2>1 DEF ListReferences, LoopInv, Collecting
<1>3. platform[dc] \in Seq(Refs) /\ arefs \in Seq(Refs)
  BY <1>2, PlatformIsTyped DEF CollectTypeOK
<1>4. /\ list \in Seq(Refs)
      /\ Elements(platform[dc]) \subseteq Elements(list)
      /\ Running \in EmptiesList => list = platform[dc]
  BY <1>3, Concatenation
<1>5. CollectTypeOK'
  BY <1>1, <1>2, <1>4 DEF CollectTypeOK
<1>6. HostsUnderTheirDatacenter'
  BY <1>1 DEF Looped, HostsUnderTheirDatacenter, Collecting, Running
<1>7. LoopInv'
  <2>1. pc' = "chunks" => list = <<>> \/ vcc'.queryBulkSize > 0
    BY <1>1 DEF ListReferences, startupVars
  <2>2. \A k \in DOMAIN list : ~(k <= 0)
    BY <1>4
  <2>3. pc' = "chunks" => \A k \in DOMAIN arefs' : ~(k <= from')
    BY <1>1, <2>2
  <2>4. pc' = "chunks" =>
          /\ kind' \in 1..Len(Order) /\ listedBy' = "client"
          /\ dc' \in 1..Len(platform') + 1 /\ dc' <= Len(platform')
          /\ clean' => \A i \in 1..dc' - 1 : ReportedAt(i)'
    <3>1. Len(platform) \in Nat
      BY <1>2, PlatformIsTyped
    <3>2. QED
      BY <1>1, <1>2, <3>1 DEF LoopInv, Collecting, ReportedAt
  <2>5. Running' = Running
    BY <1>1 DEF Running
  <2>6. QED
    BY <1>1, <1>4, <2>1, <2>3, <2>4, <2>5 DEF LoopInv, AtRest, Collecting
<1>8. QED
  BY <1>1, <1>5, <1>6, <1>7 DEF Looped

LEMMA NextOne ==
    ASSUME Looped, NextDatacenter
    PROVE  Looped' /\ pc' = "refs"
<1>1. /\ pc = "chunks" /\ pc' = "refs" /\ dc' = dc + 1 /\ from >= Len(arefs)
      /\ UNCHANGED <<startupVars, platform, expired, kind, listedBy, arefs, from, mos,
                     reports, clean>>
  BY DEF NextDatacenter
<1>2. /\ CollectTypeOK /\ LoopInv /\ platform \in Seq(Seq(Refs)) /\ arefs \in Seq(Refs)
      /\ from \in Nat /\ dc \in 1..Len(platform) /\ dc \in Nat /\ Len(platform) \in Nat
  <2>1. CollectTypeOK /\ LoopInv /\ platform \in Seq(Seq(Refs))
    BY PlatformIsTyped DEF Looped
  <2>2. QED
    BY <1>1, <2>1 DEF CollectTypeOK, LoopInv, Collecting
<1>3. CollectTypeOK'
  BY <1>1, <1>2 DEF CollectTypeOK
<1>4. ASSUME clean, NEW i \in 1..dc PROVE ReportedAt(i)
  <2>1. CASE i < dc
    BY <1>1, <1>2, <1>4, <2>1 DEF LoopInv, Collecting
  <2>2. CASE i = dc
    <3>1. ASSUME NEW r \in Elements(platform[dc]) PROVE <<r, dc>> \in reports
      <4>1. r \in Elements(arefs)
        BY <1>1, <1>2, <3>1 DEF LoopInv
      <4>2. PICK k \in DOMAIN arefs : arefs[k] = r
        BY <4>1 DEF Elements
      <4>3. k <= from
        BY <1>1, <1>2, <4>2
      <4>4. QED
        BY <1>1, <1>2, <1>4, <3>1, <4>2, <4>3 DEF LoopInv
    <3>2. QED
      BY <2>2, <3>1 DEF ReportedAt
  <2>3. QED
    BY <1>2, <2>1, <2>2
<1>5. LoopInv'
  <2>1. dc' \in 1..Len(platform') + 1 /\ 1..dc' - 1 = 1..dc
    BY <1>1, <1>2
  <2>2. clean' => \A i \in 1..dc' - 1 : ReportedAt(i)'
    BY <1>1, <1>4, <2>1 DEF ReportedAt
  <2>3. kind' \in 1..Len(Order) /\ listedBy' = "client"
    BY <1>1, <1>2 DEF LoopInv, Collecting
  <2>4. QED
    BY <1>1, <2>1, <2>2, <2>3 DEF LoopInv, AtRest, Collecting
<1>6. HostsUnderTheirDatacenter'
  BY <1>1 DEF Looped, HostsUnderTheirDatacenter, Collecting, Running
<1>7. QED
  BY <1>1, <1>3, <1>5, <1>6 DEF Looped

\* What a chunk adds is reported where it was selected, by every collector.
LEMMA SelectedIsReportable ==
    ASSUME NEW list, NEW objects, NEW r \in objects,
           r \in Elements(platform[dc]), r \in Elements(list)
    PROVE  r \in Reportable(dc, list, objects)
  BY DEF Reportable

LEMMA ReportableIsPart ==
    ASSUME NEW list, NEW objects
    PROVE  /\ Reportable(dc, list, objects) \subseteq objects
           /\ Running = "host" => Reportable(dc, list, objects) \subseteq Elements(platform[dc])
           /\ Running = "services" => Reportable(dc, list, objects) \subseteq Elements(list)
  BY DEF Reportable

LEMMA ChunkRetrieved ==
    ASSUME Started, Looped, RetrieveChunk
    PROVE  Looped' /\ pc' = "chunks"
<1> DEFINE size  == vcc.queryBulkSize
           chunk == Elements(Chunk(arefs, from, size))
           added == {<<r, dc>> : r \in Reportable(dc, arefs, mos')}
<1>1. /\ pc = "chunks" /\ pc' = "chunks" /\ from < Len(arefs)
      /\ \E before \in {{}, mos} : mos' = before \cup chunk
      /\ reports' = reports \cup added /\ from' = from + size
      /\ UNCHANGED <<startupVars, platform, expired, kind, listedBy, dc, arefs, clean>>
  BY DEF RetrieveChunk
<1>2. CollectTypeOK /\ LoopInv /\ platform \in Seq(Seq(Refs))
  BY PlatformIsTyped DEF Looped
<1>3. /\ arefs \in Seq(Refs) /\ from \in Nat /\ mos \subseteq Refs
      /\ dc \in Nat /\ dc \in 1..Len(platform)
  BY <1>1, <1>2 DEF CollectTypeOK, LoopInv, Collecting
<1>4. size \in Nat \ {0}
  <2>1. stage = "running" /\ vcc # None /\ vcc \in Collector
    BY <1>1 DEF Started, StartupInv, StartupTypeOK
  <2>2. size \in Int /\ arefs # <<>>
    BY <1>1, <1>3, <2>1 DEF Collector
  <2>3. QED
    BY <1>1, <1>2, <2>2 DEF LoopInv
<1>5. /\ chunk \subseteq Elements(arefs) /\ chunk \subseteq Refs
      /\ \A k \in DOMAIN arefs : from < k /\ k <= from + size => arefs[k] \in chunk
  BY <1>1, <1>3, <1>4, ChunkHolds
<1>6. mos' \subseteq Refs /\ chunk \subseteq mos'
  BY <1>1, <1>3, <1>5
<1>7. CollectTypeOK'
  <2>1. added \subseteq Refs \X Nat
    BY <1>3, <1>6, ReportableIsPart
  <2>2. from' \in Nat
    BY <1>1, <1>3, <1>4
  <2>3. QED
    BY <1>1, <1>2, <1>6, <2>1, <2>2 DEF CollectTypeOK
<1>8. HostsUnderTheirDatacenter'
  <2>1. SUFFICES ASSUME Running \in {"host", "services"}, NEW m \in reports'
                 PROVE  m[1] \in Elements(platform[m[2]])
    BY <1>1 DEF HostsUnderTheirDatacenter, Collecting, Running
  <2>2. CASE m \in reports
    BY <1>1, <2>1, <2>2 DEF Looped, HostsUnderTheirDatacenter, Collecting
  <2>3. CASE m \in added
    <3>1. arefs = platform[dc] \/ Running = "host"
      BY <1>1, <1>2, <2>1 DEF LoopInv, EmptiesList
    <3>2. Reportable(dc, arefs, mos') \subseteq Elements(platform[dc])
      BY <2>1, <3>1, ReportableIsPart
    <3>3. QED
      BY <2>3, <3>2
  <2>4. QED
    BY <1>1, <2>2, <2>3
<1>9. LoopInv'
  <2>1. ASSUME clean, NEW k \in DOMAIN arefs, k <= from + size,
               arefs[k] \in Elements(platform[dc])
        PROVE  <<arefs[k], dc>> \in reports'
    <3>1. CASE k <= from
      BY <1>1, <1>2, <2>1, <3>1 DEF LoopInv
    <3>2. CASE ~(k <= from)
      <4>1. from < k
        BY <1>3, <3>2
      <4>2. arefs[k] \in chunk /\ arefs[k] \in Elements(arefs)
        BY <1>5, <2>1, <4>1
      <4>3. arefs[k] \in Reportable(dc, arefs, mos')
        BY <1>6, <2>1, <4>2, SelectedIsReportable
      <4>4. QED
        BY <1>1, <4>3
    <3>3. QED
      BY <3>1, <3>2
  <2>2. clean => \A i \in 1..dc - 1 : ReportedAt(i)'
    BY <1>1, <1>2 DEF LoopInv, Collecting, ReportedAt
  <2>3. QED
    BY <1>1, <1>2, <2>1, <2>2 DEF LoopInv, AtRest, Collecting, Running, startupVars
<1>10. QED
  BY <1>1, <1>7, <1>8, <1>9 DEF Looped

\* A collector that gives up leaves its loop.
LEMMA GivenUp ==
    ASSUME Looped, Fail, NoLoop, UNCHANGED <<platform, kind, listedBy>>, expired' \in BOOLEAN
    PROVE  Looped' /\ pc' \in {"collect", "return"}
<1>1. LoopAtRest' /\ pc' \in AtRest /\ pc' \in {"collect", "return"}
  BY DEF NoLoop, LoopAtRest, Fail, AtRest
<1>2. CollectTypeOK
  BY DEF Looped
<1>3. QED
  BY <1>1, <1>2, AtRestAgain DEF CollectTypeOK

LEMMA QueryFailed ==
    ASSUME Started, Looped, QueryFails
    PROVE  Looped' /\ pc' \in {"chunks", "collect", "return"}
<1>1. /\ pc = "chunks" /\ from < Len(arefs)
      /\ UNCHANGED <<startupVars, platform, expired, kind, listedBy>>
  BY DEF QueryFails
<1>2. CollectTypeOK /\ LoopInv
  BY DEF Looped
<1>3. CASE Fail /\ NoLoop
  BY <1>1, <1>2, <1>3, GivenUp DEF CollectTypeOK
<1>4. CASE /\ clean' = FALSE /\ from' = from + vcc.queryBulkSize
           /\ UNCHANGED <<pc, dc, arefs, mos, reports>>
  <2>1. from' \in Nat
    <3>1. stage = "running" /\ vcc \in Collector
      BY <1>1 DEF Started, StartupInv, StartupTypeOK
    <3>2. vcc.queryBulkSize \in Int /\ from \in Nat /\ arefs \in Seq(Refs)
      BY <1>2, <3>1 DEF Collector, CollectTypeOK
    <3>3. arefs # <<>>
      BY <1>1, <3>2
    <3>4. QED
      BY <1>1, <1>2, <1>4, <3>2, <3>3 DEF LoopInv
  <2>2. CollectTypeOK'
    BY <1>1, <1>2, <1>4, <2>1 DEF CollectTypeOK
  <2>3. LoopInv'
    BY <1>1, <1>2, <1>4 DEF LoopInv, AtRest, Collecting, Running, startupVars
  <2>4. HostsUnderTheirDatacenter'
    BY <1>1, <1>4 DEF Looped, HostsUnderTheirDatacenter, Collecting, Running
  <2>5. QED
    BY <1>1, <1>4, <2>2, <2>3, <2>4 DEF Looped
<1>5. QED
  BY <1>3, <1>4, Zenon DEF QueryFails

LEMMA CollectorEnded ==
    ASSUME Looped, EndCollector \/ Return
    PROVE  Looped' /\ pc' \in {"collect", "idle"}
<1>1. CollectTypeOK /\ LoopInv
  BY DEF Looped
<1>2. LoopAtRest' /\ pc' \in AtRest /\ pc' \in {"collect", "idle"}
  BY <1>1 DEF EndCollector, Return, NoLoop, loopVars, LoopInv, LoopAtRest, AtRest
<1>3. /\ expired' \in BOOLEAN /\ kind' \in 0..Len(Order) /\ UNCHANGED <<platform, listedBy>>
  BY <1>1, OrderIsLong DEF EndCollector, Return, CollectTypeOK
<1>4. QED
  BY <1>1, <1>2, <1>3, AtRestAgain DEF CollectTypeOK

\* The steps of a gather that touch neither the session nor what main set up.
CollectStep ==
    \/ BeginCollector
    \/ ListReferences
    \/ ServiceSystemFails
    \/ RetrieveChunk
    \/ QueryFails
    \/ ChunkIsLate
    \/ NextDatacenter
    \/ EndCollector
    \/ Return

LEMMA Collected ==
    ASSUME Started, Looped, CollectStep
    PROVE  /\ Looped'
           /\ UNCHANGED <<startupVars, clientVars, vCenterVars>>
           /\ pc \in {"collect", "refs", "chunks", "return", "failed"}
           /\ pc' \notin {"login", "close", "newclient", "failed"}
<1>1. CollectTypeOK
  BY DEF Looped
<1>2. CASE BeginCollector
  BY <1>2, CollectorBegins DEF BeginCollector
<1>3. CASE ListReferences
  BY <1>3, ReferencesListed DEF ListReferences
<1>4. CASE ServiceSystemFails
  BY <1>1, <1>4, GivenUp DEF ServiceSystemFails, CollectTypeOK
<1>5. CASE RetrieveChunk
  BY <1>5, ChunkRetrieved DEF RetrieveChunk
<1>6. CASE QueryFails
  BY <1>6, QueryFailed DEF QueryFails
<1>7. CASE ChunkIsLate
  BY <1>1, <1>7, GivenUp DEF ChunkIsLate, CollectTypeOK
<1>8. CASE NextDatacenter
  BY <1>8, NextOne DEF NextDatacenter
<1>9. CASE EndCollector
  BY <1>9, CollectorEnded DEF EndCollector
<1>10. CASE Return
  BY <1>10, CollectorEnded DEF Return
<1>11. QED
  BY <1>2, <1>3, <1>4, <1>5, <1>6, <1>7, <1>8, <1>9, <1>10 DEF CollectStep

-----------------------------------------------------------------------------
(***************************************************************************)
(* The theorems                                                            *)
(***************************************************************************)
LEMMA Parts ==
    /\ IInv <=> Started /\ Linked /\ Looped
    /\ IInv' <=> Started' /\ Linked' /\ Looped'
  BY DEF IInv, PluginTypeOK, Promises, Started, Linked, Looped

LEMMA PluginBegins == PluginInit => IInv
<1> SUFFICES ASSUME PluginInit PROVE IInv
  OBVIOUS
<1>1. Started /\ Linked
  BY StartupBegins, SessionBegins DEF PluginInit, SessionInit
<1>2. Looped
  <2>1. pc = "idle" /\ LoopAtRest
    BY DEF PluginInit, SessionInit, LoopAtRest
  <2>2. CollectTypeOK
    <3>1. expired \in BOOLEAN /\ kind = 0 /\ listedBy = "none" /\ platform \in Platforms
      BY DEF PluginInit
    <3>2. QED
      BY <2>1, <3>1, OrderIsLong DEF LoopAtRest, CollectTypeOK
  <2>3. QED
    BY <2>1, <2>2
    DEF Looped, LoopInv, HostsUnderTheirDatacenter, Collecting
<1>3. QED
  BY <1>1, <1>2, Parts

\* A call of keepActiveSession moves the session only, and starts no loop.
LEMMA SessionKeeps ==
    ASSUME IInv, KeepSession
    PROVE  IInv' /\ pc' \in InSession
<1>1. Started /\ Linked /\ Looped /\ CollectTypeOK /\ LoopInv
  BY Parts DEF Looped
<1>2. /\ UNCHANGED <<startupVars, platform, expired, kind, loopVars>>
      /\ listedBy' \in {"old", listedBy}
      /\ pc \in {"isactive", "login", "close", "newclient"}
  BY DEF KeepSession, IsActive, Login, Close, NewClient
<1>3. Linked' /\ pc' \in InSession
  BY <1>1, <1>2, ActivityAsked, LoggedIn, Closed, Opened DEF KeepSession
<1>4. Started'
  BY <1>1, <1>2, StartupKept
<1>5. Looped'
  <2>1. LoopAtRest' /\ pc' \in AtRest
    BY <1>1, <1>2, <1>3 DEF LoopInv, LoopAtRest, loopVars, AtRest, InSession
  <2>2. QED
    BY <1>1, <1>2, <2>1, AtRestAgain DEF CollectTypeOK
<1>6. QED
  BY <1>3, <1>4, <1>5, Parts

LEMMA PluginStays == IInv /\ [PluginNext]_vars => IInv'
<1> SUFFICES ASSUME IInv, [PluginNext]_vars PROVE IInv'
  OBVIOUS
<1>1. Started /\ Linked /\ Looped /\ CollectTypeOK /\ LoopInv
  BY Parts DEF Looped
<1>2. CASE StartupStep /\ UNCHANGED <<sessionVars, collectVars>>
  <2>1. UNCHANGED <<pc, clientVars, vCenterVars, platform, kind, expired, listedBy, loopVars>>
    BY <1>2 DEF sessionVars, collectVars
  <2>2. pc = "idle"
    BY <1>1, <1>2 DEF Started, StartupInv, StartupStep, LoadConfig, SetPollInterval,
                      StartSelfMetrics, Run
  <2>3. Linked'
    BY <1>1, <2>1, <2>2
    DEF clientVars, vCenterVars, Linked, SessionTypeOK, SessionInv, ClientHasCollector,
        SteadyGatherHasSession
  <2>4. Looped'
    <3>1. LoopAtRest' /\ pc' \in AtRest
      BY <1>1, <2>1, <2>2 DEF LoopInv, LoopAtRest, loopVars, AtRest
    <3>2. QED
      BY <1>1, <2>1, <3>1, AtRestAgain DEF CollectTypeOK
  <2>5. QED
    BY <1>1, <1>2, <2>1, <2>3, <2>4, StartupProceeds, Parts
<1>3. CASE KeepSession
  BY <1>3, SessionKeeps
<1>4. CASE CollectStep
  <2>1. /\ Looped' /\ UNCHANGED <<startupVars, clientVars, vCenterVars>>
        /\ pc \in {"collect", "refs", "chunks", "return", "failed"}
        /\ pc' \notin {"login", "close", "newclient", "failed"}
    BY <1>1, <1>4, Collected
  <2>2. Started'
    BY <1>1, <2>1, StartupKept
  <2>3. Linked'
    BY <1>1, <2>1, SessionKept DEF Linked, SessionInv
  <2>4. QED
    BY <2>1, <2>2, <2>3, Parts
<1>5. CASE Poll
  <2>1. /\ BeginGather /\ UNCHANGED <<startupVars, platform, kind, listedBy, loopVars>>
        /\ expired' \in BOOLEAN
    BY <1>5 DEF Poll
  <2>2. Linked' /\ pc' = "isactive" /\ pc = "idle" /\ stage = "running"
    BY <1>1, <2>1, GatherBegins DEF BeginGather
  <2>3. Started'
    BY <1>1, <2>1, <2>2, StartupKept
  <2>4. LoopAtRest' /\ pc' \in AtRest
    BY <1>1, <2>1, <2>2 DEF LoopInv, LoopAtRest, loopVars, AtRest
  <2>5. Looped'
    BY <1>1, <2>1, <2>4, AtRestAgain DEF CollectTypeOK
  <2>6. QED
    BY <2>2, <2>3, <2>5, Parts
<1>6. CASE VCenterStep /\ UNCHANGED <<startupVars, collectVars>>
  <2>1. Linked' /\ pc' = pc
    BY <1>1, <1>6, VCenterActed
  <2>2. Started'
    BY <1>1, <1>6, <2>1, StartupKept
  <2>3. Looped'
    BY <1>1, <1>6, <2>1, LoopKept DEF CollectTypeOK, collectVars
  <2>4. QED
    BY <2>1, <2>2, <2>3, Parts
<1>7. CASE ContextExpires
  <2>1. /\ UNCHANGED <<startupVars, pc, clientVars, vCenterVars, platform, kind, listedBy,
                       loopVars>>
        /\ expired' \in BOOLEAN
    BY <1>7 DEF ContextExpires, sessionVars
  <2>2. Started' /\ Linked' /\ Looped'
    BY <1>1, <2>1, StartupKept, SessionKept, LoopKept
  <2>3. QED
    BY <2>2, Parts
<1>8. CASE Restart
  <2>1. Started' /\ Linked'
    BY <1>1, <1>8, StartupAnew, SessionAnew
  <2>2. LoopAtRest' /\ pc' \in AtRest
    BY <1>8 DEF Restart, NoLoop, LoopAtRest, AtRest
  <2>3. Looped'
    BY <1>1, <1>8, <2>2, OrderIsLong, AtRestAgain DEF Restart
  <2>4. QED
    BY <2>1, <2>3, Parts
<1>9. CASE UNCHANGED vars
  <2>1. /\ UNCHANGED <<startupVars, pc, clientVars, vCenterVars, platform, kind, listedBy,
                       loopVars, expired>>
    BY <1>9 DEF vars, sessionVars, collectVars
  <2>2. Started' /\ Linked' /\ Looped'
    BY <1>1, <2>1, StartupKept, SessionKept, LoopKept DEF CollectTypeOK
  <2>3. QED
    BY <2>2, Parts
<1>10. QED
  BY <1>2, <1>3, <1>4, <1>5, <1>6, <1>7, <1>8, <1>9
  DEF PluginNext, PluginStep, CollectStep

LEMMA PluginInvariant == PluginSpec => []IInv
  BY PluginBegins, PluginStays, PTL DEF PluginSpec

\* The types of the plugin, with every configuration, interval and platform.
THEOREM PluginTypes == PluginSpec => []PluginTypeOK
<1>1. IInv => PluginTypeOK
  BY DEF IInv
<1>2. QED
  BY <1>1, PluginInvariant, PTL

\* Init sets the durations of the collector so that nothing is kept and no host
\* is skipped for as long as a second, whatever the configuration says.
THEOREM DurationsVanish == PluginSpec => []NothingOutlivesAGather
<1>1. IInv => NothingOutlivesAGather
  BY DEF IInv, Promises
<1>2. QED
  BY <1>1, PluginInvariant, PTL

\* Between any two remote calls of keepActiveSession a client has its collector.
THEOREM ClientsHaveCollectors == PluginSpec => []ClientHasCollector
<1>1. IInv => ClientHasCollector
  BY DEF IInv, Promises
<1>2. QED
  BY <1>1, PluginInvariant, PTL

\* A vCenter that answers every call of a gather gets the gather its session.
THEOREM SteadyGathersRun == PluginSpec => []SteadyGatherHasSession
<1>1. IInv => SteadyGatherHasSession
  BY DEF IInv, Promises
<1>2. QED
  BY <1>1, PluginInvariant, PTL

\* keepActiveSession never panics: main has made its metric before the first
\* gather, and no failure of a login leaves a client without its collector.
THEOREM RenewalsDoNotPanic == PluginSpec => RenewalDoesNotPanic
<1>1. IInv /\ [PluginNext]_vars => [KeepSession => pc' # "panic"]_vars
  <2>1. ASSUME IInv, KeepSession PROVE pc' \in InSession
    BY <2>1, SessionKeeps
  <2>2. QED
    BY <2>1 DEF InSession
<1>2. QED
  BY <1>1, PluginInvariant, PTL DEF PluginSpec, RenewalDoesNotPanic

\* Close and the login that is refused leave no session: none of the plugin's
\* steps adds to the sessions that nobody holds while the vCenter answers.
THEOREM NothingStaysBehind == PluginSpec => NothingIsLeftBehind
<1>1. ASSUME IInv, PluginStep, answers, config.isVC
      PROVE  Unheld' \subseteq Unheld
  <2>1. /\ live \subseteq Sessions /\ None \notin live
        /\ pc = "newclient" => client = None
    BY <1>1 DEF IInv, PluginTypeOK, SessionTypeOK, SessionInv
  <2>2. CASE UNCHANGED <<client, live>>
    BY <2>2 DEF Unheld
  <2>3. CASE Login
    BY <1>1, <2>3 DEF Login, Free, Unheld
  <2>4. CASE Close
    BY <1>1, <2>4 DEF Close, Unheld
  <2>5. CASE NewClient
    BY <1>1, <2>1, <2>5 DEF NewClient, Free, Unheld
  <2>6. CASE CollectStep
    <3>1. UNCHANGED <<client, live>>
      BY <1>1, <2>6, Parts, Collected DEF clientVars, vCenterVars
    <3>2. QED
      BY <2>2, <3>1
  <2>7. CASE KeepSession
    <3>1. CASE IsActive(expired)
      BY <2>2, <3>1 DEF IsActive, vCenterVars
    <3>2. QED
      BY <2>3, <2>4, <2>5, <2>7, <3>1 DEF KeepSession
  <2>8. CASE StartupStep /\ UNCHANGED <<sessionVars, collectVars>>
    BY <2>2, <2>8 DEF sessionVars, clientVars, vCenterVars
  <2>9. QED
    BY <1>1, <2>6, <2>7, <2>8 DEF PluginStep, CollectStep
<1>2. IInv /\ [PluginNext]_vars
         => [PluginStep /\ answers /\ config.isVC => Unheld' \subseteq Unheld]_vars
  BY <1>1
<1>3. QED
  BY <1>2, PluginInvariant, PTL DEF PluginSpec, NothingIsLeftBehind

\* The hosts of the service systems were listed by the present client.
THEOREM ObjectsAreOfClient == PluginSpec => []ObjectsOfThisClient
<1>1. IInv => ObjectsOfThisClient
  BY DEF IInv, LoopInv, Collecting, ObjectsOfThisClient
<1>2. QED
  BY <1>1, PluginInvariant, PTL

\* Hosts and services carry the name of their own datacenter, for every
\* platform and every size of the chunks.
THEOREM HostsAreAttributed == PluginSpec => []HostsUnderTheirDatacenter
<1>1. IInv => HostsUnderTheirDatacenter
  BY DEF IInv, Promises
<1>2. QED
  BY <1>1, PluginInvariant, PTL

\* The chunks leave no reference out, for every platform and every size.
THEOREM ChunksMissNothing == PluginSpec => []NothingIsMissed
<1>1. ASSUME IInv, pc = "refs", dc > Len(platform), clean
      PROVE  \A i \in DOMAIN platform : \A r \in Elements(platform[i]) : <<r, i>> \in reports
  <2>1. platform \in Seq(Seq(Refs))
    BY <1>1, PlatformIsTyped DEF IInv, PluginTypeOK
  <2>2. dc \in 1..Len(platform) + 1 /\ \A i \in 1..dc - 1 : ReportedAt(i)
    BY <1>1 DEF IInv, LoopInv, Collecting
  <2>3. 1..dc - 1 = DOMAIN platform
    BY <1>1, <2>1, <2>2
  <2>4. QED
    BY <2>2, <2>3 DEF ReportedAt
<1>2. IInv => NothingIsMissed
  BY <1>1 DEF NothingIsMissed
<1>3. QED
  BY <1>2, PluginInvariant, PTL

===============================================================================
