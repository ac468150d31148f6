-------------------------------- MODULE Plugin --------------------------------
(***************************************************************************)
(* The process from its start to its end: Startup, then one gather after   *)
(* the other, each with keepActiveSession of Session first and then the    *)
(* collectors that query the properties of a list of references in chunks  *)
(* (cluster.go, host.go, net.go, storage.go, vm.go).  Module Gather has    *)
(* the stages and the cache in full, with the indices that may be out of   *)
(* range; here a collector is seen from inside, and the lists are as the   *)
(* configuration and the session make them.                                *)
(***************************************************************************)
EXTENDS Session, Sequences

CONSTANTS
    Refs,      \* references to entities of the vCenter
    Platforms  \* for every datacenter, the references that a collector selects

VARIABLES
    platform,  \* one of them, the vCenter's
    expired,   \* the context of the gather is over
    kind,      \* the collector that runs or ran last, by its place in Order
    listedBy,  \* the client that the cached objects belong to
    dc,        \* the datacenter of the loop over c.dcs
    arefs,     \* the list of references
    from,      \* where its next chunk begins
    mos,       \* the objects in the slice that Retrieve fills
    reports,   \* the metrics: an entity, under the name of a datacenter
    clean      \* no chunk has been given up with a soft error

loopVars == <<dc, arefs, from, mos, reports, clean>>
collectVars == <<platform, expired, kind, listedBy, loopVars>>
vars == <<startupVars, sessionVars, collectVars>>

\* An entity is in one datacenter.
ASSUME PlatformsAssumption ==
    \A p \in Platforms :
        /\ p \in Seq(Seq(Refs))
        /\ \A i, j \in DOMAIN p : \A k \in DOMAIN p[i] : \A l \in DOMAIN p[j] :
              p[i][k] = p[j][l] => i = j

Elements(list) == {list[k] : k \in DOMAIN list}

-----------------------------------------------------------------------------
Order == <<"cluster", "host", "services", "dvs", "dvp", "datastore", "vm">>

Running == Order[kind]

\* The host collectors look at the context after every chunk.
LooksAtContext == {"host", "services"}

\* gatherStorage and gatherVM add an error and go on.
GoesOn == {"datastore", "vm"}

\* Mutant of EmptiesList: the lists of CollectHostServices grow like the others.
EmptiesListOfHostsOnly == {"host"}

\* The collectors that start every datacenter with an empty list.
EmptiesList == {"host", "services"}

\* Mutant of Chunk: the end of a chunk is taken for its last element.
ChunkShort(list, i, size) ==
    SubSeq(list, i + 1, IF i + size > Len(list) THEN Len(list) ELSE i + size - 1)

\* The chunk of chunckMoRefSlice that begins after i elements.
Chunk(list, i, size) ==
    SubSeq(list, i + 1, IF i + size > Len(list) THEN Len(list) ELSE i + size)

\* The objects that a collector reports at datacenter i.  CollectHostInfo looks
\* for the state of a host of that name there, CollectHostServices for a
\* service system of its list; the others report all they have.
Reportable(i, list, objects) ==
    CASE Running = "host"     -> objects \cap Elements(platform[i])
      [] Running = "services" -> objects \cap Elements(list)
      [] OTHER                -> objects

-----------------------------------------------------------------------------
PluginInit ==
    /\ StartupInit
    /\ SessionInit
    /\ platform \in Platforms
    /\ expired = FALSE
    /\ kind = 0 /\ listedBy = "none"
    /\ dc = 0 /\ arefs = <<>> /\ from = 0 /\ mos = {} /\ reports = {} /\ clean = TRUE

NoLoop ==
    /\ dc' = 0 /\ arefs' = <<>> /\ from' = 0
    /\ mos' = {} /\ reports' = {} /\ clean' = TRUE

\* A collector returns an error.
Fail == pc' = IF Running \in GoesOn THEN "collect" ELSE "return"

\* Whether a query can be answered.
Reached == client \in live /\ ~expired

(***************************************************************************)
(* A collector begins, after its checks of the client and the refreshes of *)
(* its lists, which are cached for as long as dataDuration says.           *)
(***************************************************************************)
BeginCollector ==
    /\ pc = "collect"
    /\ \E k \in kind + 1..Len(Order) : kind' = k
    /\ \/ /\ client # None /\ coll
          /\ \/ Reached /\ listedBy' = "client"
             \/ vcc.dataDuration > 0 /\ listedBy # "none" /\ UNCHANGED listedBy
          /\ pc' = "refs" /\ dc' = 1
          /\ UNCHANGED <<arefs, from, mos, reports, clean>>
       \/ \* no client, or a list cannot be refreshed
          /\ pc' = IF Order[kind'] \in GoesOn THEN "collect" ELSE "return"
          /\ UNCHANGED <<listedBy, loopVars>>
    /\ UNCHANGED <<startupVars, clientVars, vCenterVars, platform, expired>>

\* The references of a datacenter are appended to the list, and the list is
\* split into chunks: for ever with a size of 0, and out of range with a
\* negative one.
ListReferences ==
    /\ pc = "refs" /\ dc <= Len(platform)
    /\ LET list == (IF Running \in EmptiesList THEN <<>> ELSE arefs) \o platform[dc] IN
          /\ arefs' = list
          /\ pc' = IF list = <<>> \/ vcc.queryBulkSize > 0 THEN "chunks"
                   ELSE IF vcc.queryBulkSize = 0 THEN "hung" ELSE "panic"
    /\ from' = 0
    /\ UNCHANGED <<startupVars, clientVars, vCenterVars, platform, expired, kind,
                   listedBy, dc, mos, reports, clean>>

\* The object of a host is asked for its service system, and does not answer.
ServiceSystemFails ==
    /\ pc = "refs" /\ dc <= Len(platform)
    /\ Running = "services" /\ platform[dc] # <<>>
    /\ Fail /\ NoLoop
    /\ UNCHANGED <<startupVars, clientVars, vCenterVars, platform, expired, kind, listedBy>>

\* One chunk is retrieved.  The slice for the answer is that of the chunk
\* before; whether the library empties it first is left open.
RetrieveChunk ==
    /\ pc = "chunks" /\ from < Len(arefs)
    /\ Reached
    /\ \E before \in {{}, mos} :
          mos' = before \cup Elements(Chunk(arefs, from, vcc.queryBulkSize))
    /\ reports' = reports \cup {<<r, dc>> : r \in Reportable(dc, arefs, mos')}
    /\ from' = from + vcc.queryBulkSize
    /\ UNCHANGED <<startupVars, pc, clientVars, vCenterVars, platform, expired, kind,
                   listedBy, dc, arefs, clean>>

\* A soft error gives up one chunk, a hard one or the deadline the collector.
QueryFails ==
    /\ pc = "chunks" /\ from < Len(arefs)
    /\ \/ /\ ~expired
          /\ clean' = FALSE
          /\ from' = from + vcc.queryBulkSize
          /\ UNCHANGED <<pc, dc, arefs, mos, reports>>
       \/ Fail /\ NoLoop
    /\ UNCHANGED <<startupVars, clientVars, vCenterVars, platform, expired, kind, listedBy>>

\* The deadline passes before a host collector, after a chunk that it has
\* reported, looks at the context.
ChunkIsLate ==
    /\ pc = "chunks" /\ from < Len(arefs)
    /\ Reached /\ Running \in LooksAtContext
    /\ expired' = TRUE
    /\ Fail /\ NoLoop
    /\ UNCHANGED <<startupVars, clientVars, vCenterVars, platform, kind, listedBy>>

NextDatacenter ==
    /\ pc = "chunks" /\ from >= Len(arefs)
    /\ dc' = dc + 1
    /\ pc' = "refs"
    /\ UNCHANGED <<startupVars, clientVars, vCenterVars, platform, expired, kind,
                   listedBy, arefs, from, mos, reports, clean>>

EndCollector ==
    /\ pc = "refs" /\ dc > Len(platform)
    /\ pc' = "collect"
    /\ NoLoop
    /\ UNCHANGED <<startupVars, clientVars, vCenterVars, platform, expired, kind, listedBy>>

\* Gather returns; the errors of the session and the collectors were added.
Return ==
    /\ pc \in {"collect", "return", "failed"}
    /\ pc' = "idle" /\ kind' = 0 /\ expired' = FALSE
    /\ UNCHANGED <<startupVars, clientVars, vCenterVars, platform, listedBy, loopVars>>

ContextExpires ==
    /\ pc \notin {"idle", "return", "failed", "panic", "hung"} /\ ~expired
    /\ expired' = TRUE
    /\ UNCHANGED <<startupVars, sessionVars, platform, kind, listedBy, loopVars>>

\* The shim calls Gather, whose context lasts for the polling interval.
Poll ==
    /\ BeginGather
    /\ expired' = (config.poll <= 0)
    /\ UNCHANGED <<startupVars, platform, kind, listedBy, loopVars>>

\* The steps of keepActiveSession.  The objects of a client that was closed
\* stay in the cache.
KeepSession ==
    /\ IsActive(expired) \/ Login \/ Close \/ NewClient
    /\ listedBy' = IF client # None /\ client' = None /\ listedBy = "client"
                   THEN "old" ELSE listedBy
    /\ UNCHANGED <<startupVars, platform, expired, kind, loopVars>>

(***************************************************************************)
(* The process is gone, stopped, killed or dead, and telegraf starts it    *)
(* again.  The shim calls Stop only for plugins that have a Start too, and *)
(* this one has none, so nobody holds the session of its client any more.  *)
(***************************************************************************)
Restart ==
    /\ stage' = "load"
    /\ flag' \in Polls /\ config' \in Configs
    /\ vcc' = None /\ registered' = FALSE
    /\ pc' = "idle" /\ client' = None /\ coll' = FALSE /\ late' = FALSE
    /\ live' = IF MayLose THEN live ELSE Unheld
    /\ expired' = FALSE /\ kind' = 0 /\ listedBy' = "none"
    /\ NoLoop
    /\ UNCHANGED <<answers, accepts, steady, platform>>

-----------------------------------------------------------------------------
PluginStep ==
    \/ StartupStep /\ UNCHANGED <<sessionVars, collectVars>>
    \/ KeepSession
    \/ BeginCollector
    \/ ListReferences
    \/ ServiceSystemFails
    \/ RetrieveChunk
    \/ QueryFails
    \/ ChunkIsLate
    \/ NextDatacenter
    \/ EndCollector
    \/ Return

PluginNext ==
    \/ PluginStep
    \/ Poll
    \/ VCenterStep /\ UNCHANGED <<startupVars, collectVars>>
    \/ ContextExpires
    \/ Restart

PluginSpec == PluginInit /\ [][PluginNext]_vars

(***************************************************************************)
(* Every remote call has a context with a deadline, so a step is taken     *)
(* whether the vCenter answers or not, and the shim calls Gather at every  *)
(* interval, if there is one.  Nothing is assumed of the vCenter.          *)
(***************************************************************************)
FairPluginSpec ==
    /\ PluginSpec
    /\ WF_vars(PluginStep)
    /\ WF_vars(Poll /\ config.poll > 0)

-----------------------------------------------------------------------------
(***************************************************************************)
(* Properties                                                              *)
(***************************************************************************)
Collecting == pc \in {"refs", "chunks"}

\* The types of the variables of this module.
CollectTypeOK ==
    /\ pc \in {"idle", "isactive", "login", "close", "newclient", "failed", "collect",
               "refs", "chunks", "return", "hung", "panic"}
    /\ platform \in Platforms
    /\ expired \in BOOLEAN
    /\ kind \in 0..Len(Order)
    /\ listedBy \in {"none", "client", "old"}
    /\ dc \in Nat
    /\ arefs \in Seq(Refs)
    /\ from \in Nat
    /\ mos \subseteq Refs
    /\ reports \subseteq Refs \X Nat
    /\ clean \in BOOLEAN

\* The types of the three parts: an interval and a timeout that a context can
\* be made of, sessions without a holder that the vCenter still knows, and
\* lists of references that stay such, whatever is appended to them.
PluginTypeOK == StartupTypeOK /\ SessionTypeOK /\ CollectTypeOK

\* Renewing the session never ends the process, whatever main has set up and
\* whatever failed before: the metric of sessions is there when it is asked
\* (StartSelfMetrics gives up silently), and a client is never closed without
\* its collector.
RenewalDoesNotPanic == [][KeepSession => pc' # "panic"]_vars

\* While a vCenter answers, the plugin leaves no session behind: a client that
\* cannot log in, as its own session is alive or its credentials are refused, is
\* logged out before it is forgotten.  An endpoint that is no vCenter, and the
\* end of the process, do leave one.
NothingIsLeftBehind ==
    [][PluginStep /\ answers /\ config.isVC => Unheld' \subseteq Unheld]_vars

\* The objects that CollectHostServices asks for their service system belong
\* to the client of this session, although the cache is not emptied when a
\* client is closed: nothing in it lives until the next gather.
ObjectsOfThisClient ==
    pc = "refs" /\ Running = "services" => listedBy = "client"

\* A collector that comes to its end without an error has reported every
\* entity that it selected under the name of its datacenter: no reference is
\* between two chunks, whatever the size.
NothingIsMissed ==
    pc = "refs" /\ dc > Len(platform) /\ clean =>
        \A i \in DOMAIN platform : \A r \in Elements(platform[i]) : <<r, i>> \in reports

\* Hosts and their services are reported under their own datacenter only,
\* also when the library adds to the objects of the chunks before.
HostsUnderTheirDatacenter ==
    Collecting /\ Running \in {"host", "services"} =>
        \A m \in reports : m[1] \in Elements(platform[m[2]])

\* Every entity is reported under its own datacenter only: dcname is a tag of
\* every measurement (METRICS.md).
UnderTheirDatacenter ==
    Collecting => \A m \in reports : m[1] \in Elements(platform[m[2]])

\* If from some time on the vCenter answers and the process is not restarted,
\* gathers get to their collectors again and again.
SessionComesBack ==
    <>[](answers /\ accepts /\ CanOpen /\ stage = "running" /\ pc \notin {"hung", "panic"})
        => []<>(pc = "collect")
=============================================================================
