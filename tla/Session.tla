------------------------------- MODULE Session --------------------------------
(***************************************************************************)
(* keepActiveSession of plugins/inputs/vcstat/vcstat.go with Open, Close   *)
(* and IsActive of vccollector.go and the client of pkg/govplus/client.go, *)
(* one step per remote call, against a vCenter that may stop answering and *)
(* drop sessions, or refuse the credentials, at any moment.                *)
(*                                                                         *)
(* A login that the vCenter performs and whose answer the client misses    *)
(* leaves a session that nobody holds, and so does a logout that does not  *)
(* arrive.                                                                 *)
(***************************************************************************)
EXTENDS Startup, FiniteSets

CONSTANTS
    Sessions,  \* the vCenter's session identifiers
    MaxLost    \* bound: of the sessions without a holder, how many are kept count of

VARIABLES
    pc,       \* the call of keepActiveSession, or how it ended
    client,   \* the session that c.client logged in to, or None for nil
    coll,     \* c.coll # nil
    late,     \* the context of Open is over
    live,     \* the sessions that the vCenter knows
    answers,  \* the vCenter performs and answers every call in time
    accepts,  \* it accepts the credentials of a login
    steady    \* and both have been so since the gather began

clientVars == <<client, coll, late>>
vCenterVars == <<live, answers, accepts, steady>>
sessionVars == <<pc, clientVars, vCenterVars>>

ASSUME NoneIsNoSession == None \notin Sessions
ASSUME SessionsAssumption == MaxLost \in Nat /\ Cardinality(Sessions) >= MaxLost + 2

Free == Sessions \ (live \cup {client})

\* The sessions that nothing will ever log out.
Unheld == live \ {client}
MayLose == Cardinality(Unheld) < MaxLost

SessionInit ==
    /\ pc = "idle" /\ client = None /\ coll = FALSE /\ late = FALSE
    /\ live = {}
    /\ answers \in BOOLEAN /\ accepts \in BOOLEAN /\ steady = FALSE

-----------------------------------------------------------------------------
(***************************************************************************)
(* The vCenter                                                             *)
(***************************************************************************)
\* A session ends by itself: idle too long, or the vCenter restarts.
SessionDies ==
    /\ \E s \in live : live' = live \ {s}
    /\ UNCHANGED <<pc, clientVars, answers, accepts, steady>>

VCenterStops ==
    /\ answers
    /\ answers' = FALSE /\ steady' = FALSE
    /\ UNCHANGED <<pc, clientVars, live, accepts>>

VCenterAnswers ==
    /\ ~answers
    /\ answers' = TRUE
    /\ UNCHANGED <<pc, clientVars, live, accepts, steady>>

\* The password expires, say, and is set again.  Open sessions stay open.
CredentialsChange ==
    /\ accepts' = ~accepts
    /\ steady' = (steady /\ accepts')
    /\ UNCHANGED <<pc, clientVars, live, answers>>

\* The vCenter opens a session, and no client will hold it.
Leave == \E s \in Free : live' = IF MayLose THEN live \cup {s} ELSE live

-----------------------------------------------------------------------------
(***************************************************************************)
(* The plugin                                                              *)
(***************************************************************************)
\* The shim calls Gather, which calls keepActiveSession.  Without a collector
\* it calls Init, which fails again on the same URL.
BeginGather ==
    /\ stage = "running" /\ pc = "idle"
    /\ pc' = IF vcc = None THEN "failed" ELSE "isactive"
    /\ steady' = (answers /\ accepts)
    /\ UNCHANGED <<clientVars, live, answers, accepts>>

\* IsActive, and when it says no, the message and the beginning of Open.
IsActive(expired) ==
    /\ pc = "isactive"
    /\ \/ /\ client \in live /\ ~expired
          /\ pc' = "collect"
          /\ UNCHANGED late
       \/ /\ client \notin live \/ expired \/ ~answers
          /\ pc' = IF ~registered THEN "panic"
                   ELSE IF client = None THEN "newclient" ELSE "login"
          /\ late' = (config.timeout <= 0)
    /\ UNCHANGED <<client, coll, vCenterVars>>

\* A login comes in time, and its credentials are accepted.
LoginIsHeard == ~late /\ accepts

\* Mutant of Login: a client that cannot log in is left behind.
LoginOrForget ==
    /\ pc = "login"
    /\ \/ /\ LoginIsHeard /\ client \notin live
          /\ \E s \in Free : client' = s /\ live' = live \cup {s}
          /\ pc' = "collect" /\ late' = FALSE
       \/ /\ client \in live \/ ~LoginIsHeard \/ ~answers
          /\ pc' = "newclient"
          /\ late' \in {late, late \/ ~answers}
          /\ UNCHANGED <<client, live>>
    /\ UNCHANGED <<coll, answers, accepts, steady>>

\* c.client.Login in Open.  The vCenter refuses a client whose session is
\* alive; a login may also fail, fast or by the deadline of Open, or succeed
\* without the client hearing of it: its connection breaks, before the deadline
\* or at it.
Login ==
    /\ pc = "login"
    /\ \/ /\ LoginIsHeard /\ client \notin live
          /\ \E s \in Free : client' = s /\ live' = live \cup {s}
          /\ pc' = "collect" /\ late' = FALSE
       \/ /\ client \in live \/ ~LoginIsHeard \/ ~answers
          /\ pc' = "close"
          /\ late' \in {late, late \/ ~answers}
          /\ UNCHANGED <<client, live>>
       \/ /\ LoginIsHeard /\ client \notin live /\ ~answers
          /\ Leave
          /\ pc' = "close" /\ late' \in BOOLEAN
          /\ UNCHANGED client
    /\ UNCHANGED <<coll, answers, accepts, steady>>

\* Mutant of Close: only the client is forgotten.
CloseClientOnly ==
    /\ pc = "close"
    /\ pc' = "newclient"
    /\ client' = None
    /\ live' = live \ {client}
    /\ UNCHANGED <<coll, late, answers, accepts, steady>>

\* Close, with a context of its own: Destroy of the collector and Logout, whose
\* errors are ignored.
Close ==
    /\ pc = "close"
    /\ pc' = IF coll THEN "newclient" ELSE "panic"
    /\ client' = None /\ coll' = FALSE
    /\ \/ live' = live \ {client}
       \/ ~answers /\ MayLose /\ UNCHANGED live
    /\ UNCHANGED <<late, answers, accepts, steady>>

\* govplus.NewClient in Open, with what is left of the context of the login.
\* An endpoint that is no vCenter has been logged in to, and is forgotten
\* without a logout.
NewClient ==
    /\ pc = "newclient"
    /\ \/ /\ LoginIsHeard /\ config.ca /\ config.isVC
          /\ \E s \in Free : client' = s /\ live' = live \cup {s}
          /\ pc' = "collect" /\ coll' = TRUE
       \/ /\ LoginIsHeard /\ config.ca /\ (~config.isVC \/ ~answers)
          /\ Leave
          /\ pc' = "failed"
          /\ UNCHANGED <<client, coll>>
       \/ /\ ~LoginIsHeard \/ ~config.ca \/ ~answers
          /\ pc' = "failed"
          /\ UNCHANGED <<client, coll, live>>
    /\ late' = FALSE
    /\ UNCHANGED <<answers, accepts, steady>>

VCenterStep == SessionDies \/ VCenterStops \/ VCenterAnswers \/ CredentialsChange

-----------------------------------------------------------------------------
(***************************************************************************)
(* Properties                                                              *)
(***************************************************************************)
SessionTypeOK ==
    /\ client \in Sessions \cup {None}
    /\ coll \in BOOLEAN /\ late \in BOOLEAN
    /\ live \subseteq Sessions
    /\ answers \in BOOLEAN /\ accepts \in BOOLEAN /\ steady \in BOOLEAN

\* A client comes with its property collector, at every step of Open and
\* Close: Close calls the collector of any client it finds, and a collector
\* without a client would pass for a session.
ClientHasCollector == coll = (client # None)

\* A gather during which the vCenter has answered every call and accepted the
\* credentials has a session, whatever happened in the gathers before: a dead
\* session, a login that came too late, a client that was dropped.  With the timeout of zero that
\* vcstat.conf allows, too, but not with a negative one, nor without an interval.
SteadyGatherHasSession == pc = "failed" /\ steady => ~CanOpen
=============================================================================
