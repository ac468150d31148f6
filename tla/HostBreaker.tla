----------------------------- MODULE HostBreaker ------------------------------
(***************************************************************************)
(* What the collector promises about the ESXi hosts, as a circuit breaker  *)
(* for every seat, that is, for a host in a place of the inventory.  A     *)
(* host that is down is sent no esxcli command, and one whose command has  *)
(* failed is left alone for SkipFor ticks, unless it is reported in the    *)
(* meantime: a report ends the wait when a tick has passed since the       *)
(* failure.                                                                *)
(*                                                                         *)
(* A new listing may unseat hosts.  What is known in a place is then       *)
(* forgotten, or handed on one for one when as many hosts are seated there *)
(* as before: a newcomer takes over the wait of the host it replaces, but  *)
(* nothing is handed on between places, or among other numbers of hosts.   *)
(***************************************************************************)
EXTENDS Naturals

CONSTANTS Places, Hosts, SkipFor, Never, MaxRuns,
          Reports  \* whether hosts are reported

VARIABLES
    listed,  \* the seats that are taken
    breaker  \* for every seat: whether its host is down, whether it is left alone
             \* (open), the time since its last failure, its commands since NewCount

Seats == Places \X Hosts

HostsAt(p) == {h \in Hosts : <<p, h>> \in listed}

Unknown == [down |-> FALSE, open |-> FALSE, age |-> Never, runs |-> 0]

Init == listed = {} /\ breaker = [s \in Seats |-> Unknown]

Tried(b) == ~b.down /\ (b.open => b.age > SkipFor)

\* These hosts of place p are down, as far as is known, and no others there.
Learn(p, down) ==
    /\ breaker' = [s \in Seats |-> IF s[1] = p THEN [breaker[s] EXCEPT !.down = s[2] \in down]
                                   ELSE breaker[s]]
    /\ UNCHANGED listed

Command(s, fails) ==
    /\ s \in listed
    /\ Tried(breaker[s])
    /\ breaker[s].runs < MaxRuns
    /\ breaker' = [breaker EXCEPT ![s].runs = @ + 1,
                                  ![s].open = fails,
                                  ![s].age  = IF fails THEN 0 ELSE @]
    /\ UNCHANGED listed

\* The time to leave it alone is over, and still no command is sent.
Close(s) ==
    /\ Tried(breaker[s])
    /\ breaker' = [breaker EXCEPT ![s].open = FALSE]
    /\ UNCHANGED listed

Report(s) ==
    /\ Reports
    /\ ~breaker[s].down /\ (breaker[s].open => breaker[s].age > 0)
    /\ breaker' = [breaker EXCEPT ![s].open = FALSE]
    /\ UNCHANGED listed

\* A new count begins in these places.
NewCount(some) ==
    /\ breaker' = [s \in Seats |-> IF s[1] \in some THEN [breaker[s] EXCEPT !.runs = 0]
                                   ELSE breaker[s]]
    /\ UNCHANGED listed

Forgotten(p) == \A h \in Hosts : breaker'[<<p, h>>] = Unknown

\* Every host seated in p gets the breaker of one of those seated before.
HandedOn(p) ==
    \E from \in [HostsAt(p)' -> HostsAt(p)] :
        /\ \A g \in HostsAt(p) : \E h \in HostsAt(p)' : from[h] = g
        /\ \A h, k \in HostsAt(p)' : from[h] = from[k] => h = k
        /\ \A h \in Hosts : breaker'[<<p, h>>] = IF h \in HostsAt(p)'
                                                THEN breaker[<<p, from[h]>>] ELSE Unknown

Relist ==
    /\ listed' \in SUBSET Seats
    /\ breaker' = [s \in Seats |-> breaker'[s]]
    /\ \A p \in Places : Forgotten(p) \/ HandedOn(p)

Tick ==
    /\ breaker' = [s \in Seats |->
          [breaker[s] EXCEPT !.age = IF @ = Never \/ @ > SkipFor THEN @ ELSE @ + 1]]
    /\ UNCHANGED listed

Next ==
    \/ Tick
    \/ \E s \in Seats : Close(s) \/ Report(s) \/ \E fails \in BOOLEAN : Command(s, fails)
    \/ \E p \in Places, down \in SUBSET Hosts : Learn(p, down)
    \/ \E some \in SUBSET Places : NewCount(some)
    \/ Relist

Spec == Init /\ [][Next]_<<listed, breaker>>
=============================================================================
