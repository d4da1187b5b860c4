---- MODULE LinkSupervisor ----
(***************************************************************************)
(* network_superviseLink and its gateway probe (network.c).  The driver    *)
(* and lwIP may report a link that is dead, so the supervisor asks the     *)
(* gateway by ARP; a link that is down, or claimed by nobody, is rejoined. *)
(*                                                                         *)
(* Time passes in ticks; a timer that is due stays at 0 until the main     *)
(* loop looks, however long that takes.  The driver, lwIP and the network  *)
(* are external: a join comes up, fails or finds a wrong key as it likes.  *)
(***************************************************************************)
EXTENDS Integers

CONSTANTS
    Grace, BackoffMin, BackoffMax,              \* NETWORK_LINK_DOWN_GRACE_MS, ...
    ProbeInterval, ProbeRetry, ProbeTimeout,    \* NETWORK_PROBE_INTERVAL_MS, ...
    ProbeFailures                               \* NETWORK_PROBE_FAILURES

ASSUME LinkAssumption ==
    /\ {Grace, BackoffMin, BackoffMax, ProbeInterval, ProbeRetry,
        ProbeTimeout, ProbeFailures} \subseteq Nat \ {0}
    /\ BackoffMin <= BackoffMax /\ BackoffMin <= ProbeInterval

VARIABLES
    reachable,  \* the network hears the radio and the gateway answers
    link,       \* what driver and lwIP report
    known,      \* the ARP cache holds the gateway
    reply,      \* an ARP reply is on its way
    supervisor, \* the static variables of network.c
    rejoins,    \* rejoinAttempts modulo 2
    since,      \* ticks since the last attempt, up to BackoffMax
    wrongKey    \* since then: it saw a wrong key and the link did not come up

linkVars == <<reachable, link, known, reply, supervisor, rejoins, since, wrongKey>>

Max2(a, b) == IF a > b THEN a ELSE b
Min2(a, b) == IF a < b THEN a ELSE b
LongestTimer == Max2(Max2(Grace, BackoffMax), Max2(ProbeInterval, Max2(ProbeRetry, ProbeTimeout)))

\* probe: not started, scheduled, in flight
LinkTypeOK ==
    /\ reachable \in BOOLEAN /\ link \in {"up", "down", "badauth"}
    /\ known \in BOOLEAN /\ reply \in BOOLEAN
    /\ supervisor \in [tripped : BOOLEAN, rejoinIn : 0..LongestTimer,
                       backoff : BackoffMin..BackoffMax,
                       probe : {"none", "scheduled", "inflight"},
                       probeIn : 0..LongestTimer, failures : 0..ProbeFailures]
    /\ rejoins \in 0..1 /\ since \in 0..BackoffMax /\ wrongKey \in BOOLEAN

LinkInit ==
    /\ reachable \in BOOLEAN /\ link \in {"up", "down"}
    /\ known = FALSE /\ reply = FALSE
    /\ supervisor = [tripped |-> FALSE, rejoinIn |-> 0, backoff |-> BackoffMin,
                     probe |-> "none", probeIn |-> 0, failures |-> 0]
    /\ rejoins = 0 /\ since = BackoffMax /\ wrongKey = FALSE

----------------------------------------------------------------------------
(* The network.                                                            *)

NetworkChanges ==
    /\ reachable' = ~reachable
    /\ UNCHANGED <<link, known, reply, supervisor, rejoins, since, wrongKey>>

LinkChanges ==
    /\ \/ link = "up" /\ link' = "down" /\ UNCHANGED wrongKey
       \/ link # "up" /\ link' = "up" /\ wrongKey' = FALSE
       \/ link = "down" /\ link' = "badauth" /\ UNCHANGED wrongKey
    /\ UNCHANGED <<reachable, known, reply, supervisor, rejoins, since>>

\* the reply to a probe, whenever it comes
ReplyArrives ==
    /\ reply /\ reply' = FALSE
    /\ known' = (link = "up")
    /\ UNCHANGED <<reachable, link, supervisor, rejoins, since, wrongKey>>

\* other traffic brings the gateway into the cache
GatewayHeard ==
    /\ reachable /\ link = "up" /\ ~known
    /\ known' = TRUE
    /\ UNCHANGED <<reachable, link, reply, supervisor, rejoins, since, wrongKey>>

Tick ==
    /\ since' = Min2(since + 1, BackoffMax)
    /\ supervisor' = [supervisor EXCEPT !.rejoinIn = Max2(@ - 1, 0),
                                        !.probeIn = Max2(@ - 1, 0)]
    /\ UNCHANGED <<reachable, link, known, reply, rejoins, wrongKey>>

----------------------------------------------------------------------------
(* network_superviseLink.                                                  *)

\* network_resetGatewayProbe
ResetProbe(s) == [s EXCEPT !.probe = "none", !.failures = 0]

Schedule(s, ticks) == [s EXCEPT !.probe = "scheduled", !.probeIn = ticks]

\* a link that is healthy again lets go of the supervisor and of an old probe
ProbeStarts ==
    /\ link = "up" /\ (supervisor.tripped \/ supervisor.probe = "none")
    /\ supervisor' =
         Schedule(IF supervisor.tripped
                  THEN ResetProbe([supervisor EXCEPT !.tripped = FALSE, !.backoff = BackoffMin])
                  ELSE supervisor, ProbeInterval)
    /\ UNCHANGED <<reachable, link, known, reply, rejoins, since, wrongKey>>

Probing(state) == link = "up" /\ ~supervisor.tripped /\ supervisor.probe = state

\* Mutant: the ARP cache is not flushed before the gateway is asked.
ProbeSent_NoFlush ==
    /\ Probing("scheduled") /\ supervisor.probeIn = 0
    /\ reply' = (reply \/ reachable)
    /\ supervisor' = [supervisor EXCEPT !.probe = "inflight", !.probeIn = ProbeTimeout]
    /\ UNCHANGED <<reachable, link, known, rejoins, since, wrongKey>>

\* the cache is flushed and the gateway asked
ProbeSent ==
    /\ Probing("scheduled") /\ supervisor.probeIn = 0
    /\ known' = FALSE /\ reply' = (reply \/ reachable)
    /\ supervisor' = [supervisor EXCEPT !.probe = "inflight", !.probeIn = ProbeTimeout]
    /\ UNCHANGED <<reachable, link, rejoins, since, wrongKey>>

\* lwIP refuses to send: no verdict, ask again
ProbeNotSent ==
    /\ Probing("scheduled") /\ supervisor.probeIn = 0
    /\ known' = FALSE
    /\ supervisor' = Schedule(supervisor, ProbeRetry)
    /\ UNCHANGED <<reachable, link, reply, rejoins, since, wrongKey>>

\* the cache is looked at before the deadline is
ProbeAnswered ==
    /\ Probing("inflight") /\ known
    /\ supervisor' = Schedule([supervisor EXCEPT !.failures = 0], ProbeInterval)
    /\ UNCHANGED <<reachable, link, known, reply, rejoins, since, wrongKey>>

Unanswered == Probing("inflight") /\ ~known /\ supervisor.probeIn = 0

ProbeUnanswered ==
    /\ Unanswered /\ supervisor.failures + 1 < ProbeFailures
    /\ supervisor' = Schedule([supervisor EXCEPT !.failures = @ + 1], ProbeRetry)
    /\ UNCHANGED <<reachable, link, known, reply, rejoins, since, wrongKey>>

\* Mutant: the backoff doubles without a limit.
Rejoin_Uncapped(s) ==
    LET backoff == IF link = "badauth" THEN BackoffMax ELSE s.backoff IN
    /\ supervisor' = ResetProbe([s EXCEPT !.tripped = TRUE, !.rejoinIn = backoff,
                                          !.backoff = 2 * backoff])
    /\ link' = "down" /\ known' = FALSE /\ reply' = FALSE
    /\ rejoins' = 1 - rejoins /\ since' = 0 /\ wrongKey' = (link = "badauth")
    /\ UNCHANGED reachable

\* the last part of network_superviseLink: network_beginStaConnect takes the
\* interface down and arms a join, or fails to; a wrong key waits the longest
Rejoin(s) ==
    LET backoff == IF link = "badauth" THEN BackoffMax ELSE s.backoff IN
    /\ supervisor' = ResetProbe([s EXCEPT !.tripped = TRUE, !.rejoinIn = backoff,
                                          !.backoff = Min2(2 * backoff, BackoffMax)])
    /\ link' = "down" /\ known' = FALSE /\ reply' = FALSE
    /\ rejoins' = 1 - rejoins /\ since' = 0 /\ wrongKey' = (link = "badauth")
    /\ UNCHANGED reachable

\* a link that claims to be up is declared dead and rejoined in the same pass
DeclareDead ==
    /\ Unanswered /\ supervisor.failures + 1 >= ProbeFailures
    /\ Rejoin(ResetProbe([supervisor EXCEPT !.backoff = BackoffMin]))

\* Mutant: the first pass that finds the link down rejoins at once.
Trip_NoGrace ==
    /\ link # "up" /\ ~supervisor.tripped
    /\ supervisor' = [supervisor EXCEPT !.tripped = TRUE, !.rejoinIn = 0,
                                        !.backoff = BackoffMin]
    /\ UNCHANGED <<reachable, link, known, reply, rejoins, since, wrongKey>>

Trip ==
    /\ link # "up" /\ ~supervisor.tripped
    /\ supervisor' = [supervisor EXCEPT !.tripped = TRUE, !.rejoinIn = Grace,
                                        !.backoff = BackoffMin]
    /\ UNCHANGED <<reachable, link, known, reply, rejoins, since, wrongKey>>

RejoinDue ==
    /\ link # "up" /\ supervisor.tripped /\ supervisor.rejoinIn = 0
    /\ Rejoin(supervisor)

Supervise ==
    \/ ProbeStarts \/ ProbeAnswered \/ ProbeUnanswered
    \/ DeclareDead \/ Trip \/ RejoinDue

LinkNext ==
    \/ NetworkChanges \/ LinkChanges \/ ReplyArrives \/ GatewayHeard \/ Tick
    \/ Supervise \/ ProbeSent \/ ProbeNotSent

LinkSpec == LinkInit /\ [][LinkNext]_linkVars

(* Time passes and the main loop goes round.  lwIP may refuse a probe, but  *)
(* not every one for ever.                                                  *)
LinkFairness ==
    /\ WF_linkVars(Tick) /\ WF_linkVars(Supervise) /\ SF_linkVars(ProbeSent)

----------------------------------------------------------------------------
(* Properties.                                                             *)

\* Attempts keep their distance whatever the link does in between: a link that
\* flaps, comes up for a moment or is declared dead never has the radio torn
\* down twice within the grace period or the shortest backoff, and a wrong key
\* waits for the longest one.
RejoinSpaced ==
    [][rejoins' # rejoins =>
        since >= IF wrongKey /\ link = "badauth" THEN BackoffMax
                 ELSE Min2(Grace, BackoffMin)]_linkVars

\* A network that stays away is noticed, also when driver and lwIP go on
\* reporting a link that is up, and a link that stays down too: the radio is told
\* to rejoin.  Only a link that comes and goes can put it off for ever.
DeadIsRejoined ==
    /\ link = "up" /\ ~reachable ~> since = 0 \/ reachable \/ link # "up"
    /\ link # "up" ~> since = 0 \/ link = "up"
====
