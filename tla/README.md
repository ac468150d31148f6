# TLA+ models of vcstat

vcstat is a telegraf external plugin that collects the state of a VMware vCenter: a shim calls
`Config.Gather` once per polling interval, and one goroutine then asks the vCenter, through
govmomi, for its datacenters, clusters, hosts, networks, datastores and VMs, and runs esxcli
commands on the ESXi hosts. Nothing runs in parallel inside the program. What makes it hard is
that it keeps state from one gather to the next and refers to it **by position**: parallel slices
with one list per datacenter are refreshed at different moments, by many methods, each of which
can fail half way, while the inventory changes underneath.

Around that sits a session that has to be opened anew whenever the vCenter drops it, against a peer
that may not answer, and a start-up whose order decides what the durations are.

The modules here come in two groups. `HostState`, `VcCache`, `VcCollector` and `Gather` model the
collector's cache, the host states it keeps and the stages that drive them. `Startup`, `Session` and
`Plugin` model the process around it: its configuration, its session, and a property collector seen
from inside. TLC checks them on small instances; TLAPS proves every safety property that the passing
runs check, and both refinements, for all values of the constants, those of the module `Gather` in a
case that the theorem states where they need one.

## Inventory

| component | code | state | operations | what makes it right |
|---|---|---|---|---|
| host states | `internal/vccollector/cache.go` 26-31, 281-312 | `notConnected`, `notResponding`, `lastNoResponse`, `responseTime` | `setNotConnected`, `setNotResponding`, `sumResponseTime`, `isHostConnectedAndResponding` (which also writes) | a failed host is left alone for a while and not for ever |
| inventory cache | `cache.go` 33-279 | five times, `dcs` and six slices over it | `get...` refreshes, accessors by position, `ResetResponseTimes` | slices stay parallel; a state stays with its host |
| host collectors | `host.go`, `graphics.go` | write host states | `CollectHostInfo`, `...HBA`, `...NIC`, `...Fw`, `...Graphics`, `...Services`, `ReportHostEsxcliResponse` | hosts that are down or failing are not queried, and are reported as such |
| property collectors | `cluster.go`, `net.go`, `storage.go`, `vm.go`, `vc.go`, `dc.go` | none kept | one `Collect...` each | every entity under the name of its datacenter |
| gather pipeline | `plugins/inputs/vcstat/vcstat.go` 252-507 | options, context with deadline | the stages in order | never an index out of range; a gather always ends |
| start-up | `vcstat.go` 127-237, `cmd/main.go` | configuration, durations, the plugin's own metrics | `Init`, `SetPollInterval`, `StartSelfMetrics` | the durations are what the configuration says; nothing that a gather needs is missing |
| session | `vccollector.go` 129-165, `vcstat.go` 308-339, `pkg/govplus/client.go` | client, its property collector, the login | `Open`, `Close`, `IsActive`, `keepActiveSession` | a lost session comes back, its renewal never panics, and no client is forgotten that could be logged out |
| chunks | `vccollector.go` 183-207, `host.go` 597-610 | a list of references, the slice of answers | `chunckMoRefSlice`, `Retrieve`, `findHostRefInServiceRefList` | no reference between two chunks; every entity under its datacenter |
| the rest | filters, status codes, error classes, an unused REST client, build files | none | | |

Interactions: the shim calls `Gather`; `Gather` calls the collector's methods in a fixed order;
a method first calls one or more refreshes, each of which returns early when its list is younger
than `dataDuration`, and then loops over `c.dcs`, indexing the other slices. The hard behaviours
are failures at every remote call, the deadline of the gather's context, lists of different age,
and an inventory that changes between or during gathers. The list of what can go wrong, each at
its line, is `hazards` in `PROJECT.json`.

## Modules

| module | models | extends |
|---|---|---|
| `HostState` | the record and methods of `hostState` | |
| `VcCache` | `VcCache` and its methods, as operators and actions on the slices | `HostState` |
| `VcCollector` | the collector as a library: its methods in any order (`CollectorSpec`) | `VcCache` |
| `Gather` | the stages of one gather after the other, step by step (`GatherSpec`) | `VcCollector` |
| `HostBreaker` | abstract: what is promised about a host in its place, with no positions | |
| `VcBreaker` | the mapping from `VcCollector` to `HostBreaker` | `VcCollector` |
| `Startup` | `cmd/main.go` up to the first gather: configuration, `Init`, `SetPollInterval`, `StartSelfMetrics` | |
| `Session` | `keepActiveSession`, one step per remote call, and the vCenter's sessions | `Startup` |
| `Plugin` | the process: start, gather after gather with its session and its collectors, restart (`PluginSpec`) | `Session` |
| `VcCollectorProofs` | theorems about `CollectorSpec` | `VcCollector`, `TLAPS` |
| `GatherProofs` | theorems about `GatherSpec` | `Gather`, `VcCollectorProofs` |
| `SettledProofs` | theorems about `GatherSpec` where nothing is cached | `GatherProofs` |
| `LogProofs` | the types of `GatherSpec`, the number of commands of a gather, and that every step of it leads on | `SettledProofs` |
| `SettledLogProofs` | what a gather reports of a host, where nothing is cached | `LogProofs` |
| `BreakerProofs` | `CollectorSpec` implements `HostBreaker` | `VcBreaker`, `VcCollectorProofs` |
| `PluginProofs` | theorems about `PluginSpec` | `Plugin`, `TLAPS` |
| `MCVcCollector`, `MCGather`, `MCPlugin` | instances for TLC | |

`Gather` and `Plugin` look at the same program from two sides. `Gather` has the stages, the cache and
the host states in full and takes a session for granted; `Plugin` has the session and the inside of a
property collector, and of the lists only whether they belong to the client that is open now; an index
out of range of the cache's slices ends a gather in `Gather` only. What
`Gather` needs of the rest are two durations, and `NothingOutlivesAGather` of `Startup` says what they
are in the program: this is why the run `settled` and `SettledProofs` may take `DataDuration` = 0.

How state and actions correspond to the code, first in the modules of the cache:

* `dcs`, `clusters`, `hosts`, `hostStates`, `nets`, `dss`, `vms` are the fields of that name.
  Only hosts have contents. An entry of the other slices is the datacenter it was listed from,
  which is what a misattributed metric would get wrong, or `None` after a failed refresh.
* `last...Update` and `lastNoResponse` hold ages in clock ticks (what `time.Since` returns), capped
  where every comparison has been decided; `Never` is the zero `time.Time`. `responseTime` counts
  commands, one unit each.
* A refresh is one step: nothing else of the program runs during it. What may happen inside is a
  choice of the step: the inventory it sees, and where in the loop over datacenters it fails
  (`Endings`). A failing `getAllDatacentersClustersAndHosts` leaves what the code leaves: resized
  slices, the lists refreshed so far, and `nil` in place of the list that failed.
* `EsxcliVisit` is one host in an esxcli loop with its outcome (skipped, no executor, answered,
  failed softly, failed hard, too slow). `HostInfo` is `CollectHostInfo` at one datacenter, for any
  set of hosts it learns of. `ReportHost` is one host of the report, including the write that
  `isHostConnectedAndResponding` hides.
* An index out of range is a step that sets `panicked`. In `VcCollector` any method that loops over
  `c.dcs` may take it when a slice is too short, in `Gather` the stage that really indexes.
* `Gather` has a program counter `pc` over `Pipeline`, the refreshes a stage still `need`s, and `at`,
  the indices of its loops. `Fail` is an error returned by a stage: it ends the gather, except in
  `gatherStorage` and `gatherVM`. `log` observes one gather: who was found down, how many commands
  a host was sent, whether the last one failed, which `responding_code` was reported.

In the modules of the process:

* `stage` is where `main` is. `config` holds the fields of `Config` that decide something: whether
  each of the two URL parsers accepts `vcenter` (govmomi adds a scheme, `net/url` does not), whether
  it leads to a vCenter, whether `tls_ca` can be read, whether the filters compile, `timeout`, the
  intervals to skip, `query_bulk_size` and `pollInterval`. Timeout and interval are signed, as nothing
  in the code looks at their sign. `LoadConfig` is `Init` called by the shim: `New`, the setters, the
  filters and the second parser, in that order; an error ends the process. Durations are whole seconds
  except the skip, which `Init` makes a number of nanoseconds (`CollectorOf`). `Run` is `shim.Run`:
  a negative interval panics in its ticker, and with one of zero it never ticks.
* `client` is the vCenter session that `c.client` has logged in to, `None` for nil; `coll` says that
  `c.coll` is not nil. `IsActive`, `Login`, `Close` and `NewClient` are the calls of
  `keepActiveSession` and `Open` in their order. `late` is the context of `Open`, which the login
  and the new client share; `Close` has one of its own.
* The vCenter (`live` sessions, `answers`, `accepts`) is external. It may drop a session at any moment,
  stop answering between any two calls, and refuse the credentials from some moment on. A call that is
  not answered may fail at once, or at the deadline, or may have been performed with the answer lost,
  with or without time left for the next call. A login is refused while the client's session is alive.
  `Unheld` are the live sessions that the client does not hold, so nothing will log them out: those
  whose login or logout went unanswered, those that `NewClient` forgets when it finds that the endpoint
  is not a vCenter, and those of a process that has ended.
* `kind` is the collector at work, in the order of `Gather`'s stages; any of them may be off. Its
  loop over `c.dcs` is `ListReferences` (the references of one datacenter, appended to or replacing
  the list, `EmptiesList`), `RetrieveChunk` or `QueryFails` for each chunk, `NextDatacenter`,
  `EndCollector`. `from` is the index `i` of `chunckMoRefSlice`. `reports` collects what is written
  to the accumulator: an entity and the place of the datacenter that is its `dcname`. `Retrieve` is
  given the slice of the chunk before; whether the library empties it is left open.
* `listedBy` says whose objects the cache holds: nobody's, the open client's or an old one's.
* `Poll` is the shim's call of `Gather`, whose context lasts for one interval: with an interval of zero
  it is over at once.
* `Restart` is the end of the process, at any point, by itself or by a signal, and the next start by
  telegraf, with the same or another configuration. The session is not logged out: the shim calls `Stop`
  for service inputs only, and `Config` has no `Start`.

## Runs

| run | specification | shows |
|---|---|---|
| `collector` | `CollectorSpec` | types; `SlicesAreParallel`, `EveryHostHasItsState`, `NewerHostsMatchDatacenters`, `SkippedSinceSomeTime`, `StatesAreKept` |
| `lists` | `CollectorSpec` | `NewerListsAreOfDatacenters` for clusters, networks, datastores, VMs |
| `breaker` | `CollectorSpec` | implements `HostBreaker!Spec` (`KeepsThePromise`), reports and hosts replaced one for one included |
| `settled` | `GatherSpec` | types, `NoPanic`, `TimesAreThisGathers`, `RespondingNotCounted`, `CountsAreAttributed`, `DownNotQueried` |
| `library` | `GatherSpec` | implements `CollectorSpec`; every step leads on (`GatherAdvances`) |
| `fair` | `FairGatherSpec` | `GatherEnds`, `SkippingEnds` |
| `plugin` | `FairPluginSpec` | types; durations (`NothingOutlivesAGather`); the session (`ClientHasCollector`, `SteadyGatherHasSession`, `RenewalDoesNotPanic`, `NothingIsLeftBehind`, `SessionComesBack`); objects, chunks and attribution (`ObjectsOfThisClient`, `NothingIsMissed`, `HostsUnderTheirDatacenter`) |
| `options`, `counted`, `failed` | `GatherSpec` | each a counterexample to one sentence of the documentation, see below |
| `intervals`, `attributed` | `PluginSpec` | the same |

### Bounds

Two datacenters and two hosts. The invariants are about positions, and two of each already give
every way positions can move: a datacenter in front of another or behind it, a host in front of
another, an inventory that grows and shrinks again, a datacenter without hosts (its listing
fails). `MaxRuns` bounds `responseTime`; in `Gather` four commands per host and gather are all the
pipeline sends, so a bound of 4 or more, which the module assumes, cuts nothing off (`GatherTypeOK`
and, of the sum itself, theorem `BoundIsNoLimit`). In the
library runs it is 1: what the invariants say does not depend on the sum.

* `collector`: `DataDuration` = 2, the least for which a list can be older than another and still be
  fresh. `SkipFor` = 0 is enough for `SkippedSinceSomeTime`, where no duration matters. The other
  refreshes are in `lists`, which needs no host commands; together they use every method.
* `breaker`: `SkipFor` = 1, so that a host is left alone for a tick and then tried again, and `DataDuration`
  = 0, so that every refresh lists, as in the program. Four inventories (`MCReplaced`): one host, another
  one in its stead, both, and both in two datacenters, the new one in front.
* `settled`: `DataDuration` = 0 and `SkipFor` = 0. These are the durations of the program: `Init` makes
  `dataDuration` `time.Duration(57).Round(time.Second)`, which is 0, and a skip of 1200 ns, which is
  over before anything else happens. The inventory changes between gathers only. The four sets of
  options use every stage, each with `cluster_instances` or `host_instances` (see `options`).
* `library`: `DataDuration` = 1, the inventory changes at any moment. `NoPanic` is not claimed there:
  lists that are taken at different moments may not fit, and the code does not defend itself.
* `fair`: one inventory of two hosts, `SkipFor` = 1.
* `plugin`: twelve configurations (the defaults; a timeout of 0, one longer than the interval, and a
  negative one; an ESXi host; a CA that cannot be read; a URL for each parser to refuse; a filter that
  does not compile; chunks of 2, 0 and -1) and three intervals, 30 s, none and a negative one; three
  platforms: one datacenter with more than a chunk of references, two where the second has fewer, and an
  empty one before another. `MaxLost` = 1 is how many sessions without a holder are kept count of: when
  that many are there, a further one is not recorded, and its step is taken all the same. Three session
  identifiers are enough for one to be always free. A session without a holder is in nobody's way.
* `intervals`, `attributed`: the defaults and one platform of two datacenters are enough.

### Fairness

`FairGatherSpec` assumes weak fairness of the plugin's own steps, of the beginning of a gather and
of time. Every remote call is given the gather's context, whose deadline is one polling interval
away, so each returns; there is no lock or channel in the program to wait on. The shim's ticker
calls `Gather` for as long as the process lives. Nothing is assumed of the vCenter: every call may
fail for ever. `GatherEnds` says that a gather ends all the same. `SkippingEnds` says that a
connected host which the esxcli loops keep coming to is tried again or cleared again and again.

`FairPluginSpec` assumes the same: weak fairness of the plugin's steps and, when the interval is
positive, of the shim's call of `Gather`. Every call of `keepActiveSession` has a deadline (5 s in `IsActive`, `timeout` in `Open`, 3 s
in `Close`). Nothing is assumed of the vCenter, and a restart need not happen. `SessionComesBack` has
the condition that from some time on the vCenter answers and accepts the credentials, and that the
configuration allows a session at all (`CanOpen`: a vCenter, a readable CA, a positive interval, no
negative timeout); it holds then whatever was lost before, with sessions still being dropped.

### Where the code does something else than it says

* `options`: with `cluster_instances = false` and `host_instances = false` no stage before
  `ResetResponseTimes` makes the host states, and it indexes them over the datacenters that
  `CollectVcenterInfo` has listed: the first gather panics. `etc/vcstat.conf` line 37 lets the user
  switch every instance type off.
* `intervals`: `Init` multiplies seconds and converts the product to a `time.Duration`, which counts
  nanoseconds, before `SetPollInterval` has told it the interval. A host that does not respond is to
  be skipped for 20 intervals (`README.md` line 113), and is for 1200 ns. For the same reason no
  list is ever found in the cache (`time.Duration(57).Round(time.Second)` is 0): each gather lists
  the inventory once per stage. This also hides what a cache would do: `ObjectsOfThisClient` and
  `NoPanic` rest on it.
* `attributed`: `cluster.go`, `net.go`, `storage.go` and `vm.go` append the references of each
  datacenter to one list (`host.go` lines 55 and 405 empty theirs). With two datacenters the
  entities of the first are queried and reported again with the second as `dcname`.
* `failed`: `isHostConnectedAndResponding` writes before it answers, and `ReportHostEsxcliResponse`
  asks with a zero duration. It therefore clears the mark of a host that has just failed and reports
  0 where `METRICS.md` line 79 promises 2. The skip would be over with it, had it not been over
  anyway.
* `counted`: a host that failed and then was disconnected is still counted by
  `GetNumberNotRespondingHosts`, which says it counts connected hosts (`cache.go` line 256).
* Without a run of its own: `vcstat.go` line 201 says that `Stop` is called when a plugin is stopped,
  and it would log out. `main` runs the plugin in the shim, which calls `Stop` for service inputs only
  (those that have a `Start`), so the session stays at the vCenter until that drops it.
* Without a run of its own: `README.md` line 113 promises that hosts which do not respond are left alone.
  Beside the duration (`intervals`), three things are in its way: the report, which every gather with
  esxcli collections makes, clears the mark as soon as any time has passed (`failed`); the marks of a
  datacenter are gone when its number of hosts, or that of one before it, has changed or its listing has
  failed; and a host that replaces another one for one takes over its mark, or the lack of one.
  `HostBreaker` has these (`Report`, `Forgotten`, `HandedOn`), and no other.
* Without a run of its own: a failed `HostSystemList` leaves an empty list, so the next refresh that
  succeeds finds another number of hosts and makes new states there, although the inventory has not
  changed. `cache.go` line 110 says the states are kept unless a number changed; `StatesAreKept`
  states what is true of it, for lists that were not emptied.

## Proofs

`VcCollectorProofs` proves, for any sets of datacenters, hosts and inventories and any durations,
that `CollectorSpec` implies the invariants of the runs `collector` and `lists`, and `StatesAreKept`.

`IInv` is the conjunction of the type invariant, `SlicesAreParallel`, `EveryHostHasItsState`,
`SkippedSinceSomeTime` and `NewerHostsMatchDatacenters`. They have to be proved together:
`getAllDatacentersClustersAndHosts` decides on a resize by comparing the number of datacenters with
the lengths of `clusters` and `hosts` only, so that `hostStates` is long enough afterwards follows
from `SlicesAreParallel` before; and a datacenter whose number of hosts did not change keeps its old
states, which are as many as its hosts by `EveryHostHasItsState` before. `HostsListed` is that
argument, for a loop that ends anywhere. The methods that only write host states are reduced to one
lemma, `OnlyStatesChange`: each writes states at their places and none changes a length.

`NewerListsAreOfDatacenters` needs only the types beside itself: an age that is no longer fresh is
the largest age, so a list spoiled by a failed refresh is newer than nothing. `StepKeepsInStep` has
one case per action.

`KeepsStates` is about one step. `LoopKeepsStates` follows the loop over datacenters to any end it may
have, and needs `SlicesAreParallel` and `EveryHostHasItsState` to know that the states that are kept
are those of the same position.

The assumptions are those the modules name on their constants: durations are naturals, `Never` is no
age, `None` is neither a datacenter nor a number, and an inventory has the shape the finder returns:
each datacenter once, and each host once and in one datacenter (`ListedOnceAssumption`).

`GatherProofs` proves that `GatherSpec` implies `CollectorSpec`: each stage, whatever it does to the
cache, takes a step that some client of the library may take. It needs two facts of the pipeline
(`PipelineInv`): after an index out of range nothing more is done, and the loops count from one. It
also needs the types of the cache, because a loop that leaves the range of `hosts` must be seen to be
one that `c.dcs` is too long for (`Ending`). With it the collector's invariants hold in every state
of the plugin (`GatherKeepsCache`).

`SettledProofs` proves `NoPanic` and `CountsAreAttributed` under `SettledCase`: the inventory does
not change during a gather, nothing is fresh for any time, and every set of options has clusters or
hosts on. The first two are the program's case, but for an inventory that really changes in the
middle; the third is exactly what the run `options` violates. `SettledInv` says, for each stage,
which lists are known to come from the gather's own list of datacenters, and which refreshes are
still to do (`need`). It is needed because a refresh that fails in a stage that goes on (`storage`,
`vm`) empties `c.dcs` while the other slices keep their length: `Sized` is what survives that. The
order of the stages enters through `DatacenterFollows` (the first stage after the vCenter's is the
one that fills all slices) and `LateFollows`, for every set of options.

`PluginProofs` proves all safety properties of the run `plugin`, for any configurations, intervals,
platforms, sessions and bound, and any size of chunks. Its invariant `IInv` has a part for each
layer. `StartupInv` is what `main` has set up before each stage: the interval that `Init` sees is 60
s (hence `NothingOutlivesAGather`), the timeout is not zero and the metrics are there once gathers
run (hence `SteadyGatherHasSession` and half of `RenewalDoesNotPanic`). `SessionInv` is the session
between two remote calls: a login has a client to log in, a new client replaces none, and only a call
that went unanswered or a negative timeout makes a context late. With `ClientHasCollector` it gives the
other half of `RenewalDoesNotPanic`, that `Close` finds a collector, and `NothingIsLeftBehind`, step by
step: a login takes a session for a client whose own is gone, `Close` ends the one it forgets, and a
new client forgets none. `LoopInv` is the loop of a collector: the references before `from` that are of
this datacenter have been reported, and those of the datacenters before it, which together are
`NothingIsMissed` when the loop ends; the lemmas about `Chunk` say that it holds exactly the
elements after `from`, up to its size or the end.

`LogProofs` proves `GatherTypeOK`, for any durations and an inventory that may change at any time. The
hard part is `log[h].runs <= 4`, which is no type: a stage must not send a host two commands. `RunsInv`
counts the esxcli stages before this one (`Before`) and says of the hosts that the loop has yet to come
to (`Ahead`) that they were sent no more commands than that. A turn of the loop keeps it only if no
host is listed at two positions. This is `OnceInv`, and it holds of a complete listing only: a refresh
that failed may leave a host in its old datacenter and in its new one. The esxcli stages fail with
their refresh, and those that go on after one come later.

`StepsAdvance`, in the same module and for the same specification, proves `GatherAdvances`: a step of
the plugin enters a later stage or an end, refreshes one list less, or goes to the next datacenter or
host of a loop, whose lists nothing changes meanwhile. No stage can be entered again (`EntersLater`),
whatever fails, and `RestInv` says that nothing is left to refresh where there is no stage. This is the
part of `GatherEnds` that is in the prover's reach: what is missing to it is the fairness.

`SettledLogProofs` proves the rest of the run `settled`, in the same case as `SettledProofs`. A gather
lists the hosts again before nearly every stage, so what it knows of a host must survive listings that
fail anywhere. `PlacedInv` says where it does: from the first listing on, `hosts` is the `Listing` of
this gather's inventory, except that the last refresh, that of the VMs, may fail in a gather that goes
on and drop the hosts of one datacenter. Listing the same hosts again keeps every state
(`ListedAgain`), so `LogInv` can relate the log, by host, to `hostStates`, by position: a host found
down is marked down (`DownNotQueried`: the loop asks the state), a host reported as responding is
marked responding (`RespondingNotCounted`), and between `ResetResponseTimes` and the report the
response time is the number of commands of this gather (`TimesAreThisGathers`, `BoundIsNoLimit`). The
last needs the order of the stages once more: the reset is never left out (`ResetIsReached`), so no
esxcli stage is entered with the times of the gather before.

`BreakerProofs` proves that `CollectorSpec` implements `HostBreaker!Spec`, for all inventories and
clients and without a case. What the abstract side knows is kept by seat, a host in a place (an index
of `c.dcs`), and the mapping chooses a position for each seat, so the proof first shows that there is no
choice: `ListingsInv` says that no list has a host twice, and with the types the state of a seat is the
one at the position of its host (`KnownBySeat`). It says nothing of two places: a refresh that fails half
way may leave a host in its old datacenter and in its new one, which are two seats. What a refresh does
to a place is `KeptOrNew`, proved along the loop for any end it may have (`LoopAtPlaces`): there are no
hosts, or the states are new (`PlaceForgotten`), or there are as many hosts as before with the states of
before. In the last case the two lists pair their hosts by position, one for one (`OneForOne`), which is
`HandedOn` (`PlaceHandedOn`). Each of the other methods changes the states at their positions the way one
action of `HostBreaker` does (`TickSteps`, `ResetSteps`, `InfoSteps`, and `EsxcliSteps` and `ReportSteps`
by what comes of the visit).

The settled case is not empty: TLC evaluates `SettledCase` for the run `settled` (`SettledRunAssumption`).

Only model-checked: liveness (`GatherEnds`, `SkippingEnds`, `SessionComesBack`), which is out of the
prover's reach (`StepsAdvance` proves what `GatherEnds` rests on, but for the fairness), and the
counterexamples. Every other property of the passing runs is proved; the runs remain because they show
that the properties are not empty, and that each can be broken.

## Plan

1. Done: `HostState`, `VcCache`, `VcCollector`, `Gather`, `HostBreaker`, their runs; the invariants of
   the collector and `GatherSpec => CollectorSpec` proved.
2. Done: `Startup`, `Session` and `Plugin` with the chunks of references, their run and the proof of its
   invariants; `NoPanic` and `CountsAreAttributed` proved for the settled case; `StatesAreKept`.
3. Done: the log of a gather (`GatherTypeOK`, `TimesAreThisGathers`, `RespondingNotCounted`,
   `DownNotQueried`), the refinement of `HostBreaker`, and that every step of a gather leads on
   (`GatherAdvances`) proved.
4. Done: reports and hosts that are replaced one for one in `HostBreaker`, whose refinement is proved
   without a case; refused credentials, unreadable CAs, signed durations in
   `Startup`, `Session` and `Plugin`, with `NothingIsLeftBehind` and `RenewalDoesNotPanic`.
5. Left: the indices of the cache and the session in one module, and how much of `SettledCase` each
   theorem needs.

## Not modelled

Names and glob filters (the constant `Selected` and the platforms stand for what passes), the fields
and tags of the metrics other than `dcname`, the switches from status strings to codes, the Go error
types behind hard and soft errors, the precision of time stamps, the REST client, which nothing
calls, and the build files. `SetVersion` sets a label.
