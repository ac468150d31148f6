------------------------------- MODULE Startup --------------------------------
(***************************************************************************)
(* What cmd/main.go does before the first gather, in its order: it reads   *)
(* the flags, lets the shim load the configuration and initialise the      *)
(* plugin, then tells the plugin its polling interval and registers its    *)
(* own metrics.  Any error ends the process.                               *)
(*                                                                         *)
(* Durations are whole seconds, but for the skip, which Init computes in   *)
(* nanoseconds.                                                            *)
(***************************************************************************)
EXTENDS Integers

CONSTANTS
    Tables,  \* what a configuration file may say, the defaults filled in
    Polls,   \* the values of -poll_interval
    None     \* nil

VARIABLES
    stage,      \* what main does next, "running", or how it ended
    flag,       \* -poll_interval
    config,     \* the plugin's Config
    vcc,        \* its collector: the options that Init sets, or None
    registered  \* the selfstat metrics are not nil

startupVars == <<stage, flag, config, vcc, registered>>

Int16 == {n \in Int : -32768 <= n /\ n <= 32767}

\* soapURL: govmomi's parser accepts the URL; stdURL: net/url does; isVC: it
\* leads to a vCenter, not to an ESXi host; ca: tls_ca is empty or can be read;
\* filters: every pattern compiles.  Nothing checks the durations' signs.
Table == [soapURL : BOOLEAN, stdURL : BOOLEAN, isVC : BOOLEAN, ca : BOOLEAN,
          filters : BOOLEAN, timeout : Int, intervals : Int16, bulk : Int]

Config == [soapURL : BOOLEAN, stdURL : BOOLEAN, isVC : BOOLEAN, ca : BOOLEAN,
           filters : BOOLEAN, timeout : Int, intervals : Int16, bulk : Int, poll : Int]

\* dataDuration and maxResponseDuration are cut to seconds, the skip is not.
\* Init knows only the default interval, so an answer has some time to come in.
Collector == [dataDuration : Nat, maxResponseDuration : Nat \ {0},
              skipNotRespondigFor : Int, queryBulkSize : Int]

ASSUME TablesAssumption == \A t \in Tables : t \in Table
ASSUME PollsAssumption == Polls \subseteq Int
ASSUME NoneAssumption == None \notin Collector

Second == 1000000000  \* in nanoseconds

-----------------------------------------------------------------------------
Defaults == [soapURL |-> TRUE, stdURL |-> TRUE, isVC |-> TRUE, ca |-> TRUE, filters |-> TRUE,
             timeout |-> 10, intervals |-> 20, bulk |-> 100]

\* Mutant of Configured: the plugin is made without an interval.
ConfiguredWithoutInterval(t) ==
    [soapURL |-> t.soapURL, stdURL |-> t.stdURL, isVC |-> t.isVC,
     ca |-> t.ca, filters |-> t.filters, timeout |-> t.timeout,
     intervals |-> t.intervals, bulk |-> t.bulk, poll |-> 0]

\* The configuration before Init: the interval is not one of its settings.
Configured(t) ==
    [soapURL |-> t.soapURL, stdURL |-> t.stdURL, isVC |-> t.isVC,
     ca |-> t.ca, filters |-> t.filters, timeout |-> t.timeout,
     intervals |-> t.intervals, bulk |-> t.bulk, poll |-> 60]

Round(ns) == (ns + Second \div 2) \div Second

\* Mutant of CollectorOf: dataDuration is computed in seconds.
CollectorOfSeconds(c) ==
    [dataDuration        |-> (c.poll * 95) \div 100,
     maxResponseDuration |-> c.poll,
     skipNotRespondigFor |-> c.poll * c.intervals,
     queryBulkSize       |-> c.bulk]

\* The collector as Init sets it up.  A number of seconds, converted to a
\* time.Duration, is taken for nanoseconds.
CollectorOf(c) ==
    [dataDuration        |-> Round((c.poll * 95) \div 100),
     maxResponseDuration |-> c.poll,
     skipNotRespondigFor |-> c.poll * c.intervals,
     queryBulkSize       |-> c.bulk]

\* Mutant of InitSucceeds: the last check of Init is left out.
InitSucceedsUnparsed(c) == c.soapURL /\ c.filters

InitSucceeds(c) == c.soapURL /\ c.filters /\ c.stdURL

Configs == {Configured(t) : t \in Tables \cup {Defaults}}

StartupInit ==
    /\ stage = "load"
    /\ flag \in Polls
    /\ config \in Configs
    /\ vcc = None
    /\ registered = FALSE

\* shim.LoadConfig, and Init from it.  New makes no collector of a bad URL.
LoadConfig ==
    /\ stage = "load"
    /\ vcc' = IF config.soapURL THEN CollectorOf(config) ELSE None
    /\ stage' = IF InitSucceeds(config) THEN "interval" ELSE "exited"
    /\ UNCHANGED <<flag, config, registered>>

\* Mutant of SetPollInterval: a timeout of zero is not replaced.
SetPollIntervalKeepingZero ==
    /\ stage = "interval"
    /\ config' = [config EXCEPT !.poll = flag,
                                !.timeout = IF @ > flag THEN flag ELSE @]
    /\ stage' = "metrics"
    /\ UNCHANGED <<flag, vcc, registered>>

SetPollInterval ==
    /\ stage = "interval"
    /\ config' = [config EXCEPT !.poll = flag,
                                !.timeout = IF @ = 0 \/ @ > flag THEN flag ELSE @]
    /\ stage' = "metrics"
    /\ UNCHANGED <<flag, vcc, registered>>

\* It gives up silently on a URL that it cannot parse.
StartSelfMetrics ==
    /\ stage = "metrics"
    /\ registered' = config.stdURL
    /\ stage' = "run"
    /\ UNCHANGED <<flag, config, vcc>>

\* shim.Run, whose ticker panics on a negative interval.  With one of zero it
\* never ticks, and gathers are only prompted on stdin.
Run ==
    /\ stage = "run"
    /\ stage' = IF flag < 0 THEN "exited" ELSE "running"
    /\ UNCHANGED <<flag, config, vcc, registered>>

StartupStep == LoadConfig \/ SetPollInterval \/ StartSelfMetrics \/ Run

\* The settings with which a session can be opened.
CanOpen == config.isVC /\ config.ca /\ flag > 0 /\ config.timeout >= 0

-----------------------------------------------------------------------------
(***************************************************************************)
(* Properties                                                              *)
(***************************************************************************)
StartupTypeOK ==
    /\ stage \in {"load", "interval", "metrics", "run", "running", "exited"}
    /\ flag \in Polls
    /\ config \in Config
    /\ vcc \in Collector \cup {None}
    /\ registered \in BOOLEAN

\* Whatever the configuration says, the collector that Init makes keeps no
\* list for any time (dataDuration is 0) and leaves no host alone for as long
\* as a second: both durations are computed as numbers of seconds and taken
\* for nanoseconds, and before the configured interval is known.
NothingOutlivesAGather ==
    vcc # None => vcc.dataDuration = 0 /\ vcc.skipNotRespondigFor < Second

\* Hosts that do not respond are skipped for as many intervals as README.md
\* and vcstat.conf say.
SkipsForIntervals ==
    stage = "running" =>
        vcc.skipNotRespondigFor \div Second >= config.intervals * config.poll
=============================================================================
