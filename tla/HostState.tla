------------------------------ MODULE HostState ------------------------------
(***************************************************************************)
(* The hostState record of internal/vccollector/cache.go and its methods.  *)
(* A hostState remembers, between two gathers, whether an ESXi host is     *)
(* connected to the vCenter, whether its last esxcli command failed, when  *)
(* that was, and how long its esxcli commands took.                        *)
(*                                                                         *)
(* Times are kept as ages.  lastNoResponse holds what time.Since would     *)
(* return for it, in clock ticks, and stops growing once it is past every  *)
(* duration it is compared with; Never is the zero time.Time.  A           *)
(* responseTime is counted in esxcli runs: every run adds one unit.        *)
(***************************************************************************)
EXTENDS Naturals

CONSTANTS
    SkipFor,  \* c.skipNotRespondigFor, in ticks
    Never,    \* the zero time of lastNoResponse
    MaxRuns   \* bound of responseTime: esxcli runs of a host between two resets

ASSUME SkipForAssumption == SkipFor \in Nat
ASSUME NeverAssumption == Never \notin Nat
ASSUME MaxRunsAssumption == MaxRuns \in Nat \ {0}

NoResponseAges == 0..(SkipFor + 1)

HostStates == [notConnected   : BOOLEAN,
               lastNoResponse : NoResponseAges \cup {Never},
               notResponding  : BOOLEAN,
               responseTime   : 0..MaxRuns]

\* The zero value that make([]hostState, n) fills a new slice with.
ZeroState == [notConnected   |-> FALSE,
              lastNoResponse |-> Never,
              notResponding  |-> FALSE,
              responseTime   |-> 0]

setNotConnected(h, conn) == [h EXCEPT !.notConnected = conn]

\* Mutant of setNotResponding: forgets to take the time.
setNotRespondingUntimed(h, resp) == [h EXCEPT !.notResponding = resp]

setNotResponding(h, resp) ==
    IF resp THEN [h EXCEPT !.notResponding = TRUE, !.lastNoResponse = 0]
    ELSE [h EXCEPT !.notResponding = FALSE]

\* Mutant of sumResponseTime: a command is summed twice.
sumResponseTimeTwice(h) == [h EXCEPT !.responseTime = @ + 2]

sumResponseTime(h) == [h EXCEPT !.responseTime = @ + 1]

\* Mutant of SkipIsOver: a skip ends one tick early.
SkipIsAboutOver(h, skip) ==
    /\ h.lastNoResponse # Never
    /\ h.lastNoResponse >= skip

\* !h.lastNoResponse.IsZero() && time.Since(h.lastNoResponse) > skip
SkipIsOver(h, skip) ==
    /\ h.lastNoResponse # Never
    /\ h.lastNoResponse > skip

\* isHostConnectedAndResponding writes before it answers: asked about a
\* connected host whose skip is over, it forgets that the host did not respond.
Asked(h, skip) ==
    IF ~h.notConnected /\ SkipIsOver(h, skip)
    THEN setNotResponding(h, FALSE)
    ELSE h

isHostConnectedAndResponding(h, skip) ==
    ~h.notConnected /\ ~Asked(h, skip).notResponding

\* One tick of the clock, as lastNoResponse sees it.
Aged(h) ==
    [h EXCEPT !.lastNoResponse = IF @ = Never \/ @ = SkipFor + 1 THEN @ ELSE @ + 1]
=============================================================================
