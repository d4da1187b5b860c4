---- MODULE WifiConnect ----
(***************************************************************************)
(* The connection to the Wi-Fi and what the menu shows of it (network.c):   *)
(* the attempts at boot, which wait for an address while the polling        *)
(* callback serves the ST, the joins that are begun afterwards without      *)
(* waiting, and the two callbacks by which lwIP reports.  When a join is    *)
(* due is a matter of LinkSupervisor.                                       *)
(*                                                                         *)
(* Driver, lwIP and access point are external.  lwIP calls back only in the *)
(* poll of a turn, and its status callback only when an address changes: a  *)
(* link that comes back with the address it had is not reported.            *)
(***************************************************************************)
EXTENDS Integers

CONSTANTS
    MaxAttempts,    \* maxAttempts in emul_start
    Timeout,        \* NETWORK_CONNECT_TIMEOUT, in some unit of time
    Interval        \* wifiConnPollingInterval

ASSUME WifiAssumption == {MaxAttempts, Timeout, Interval} \subseteq Nat \ {0}

VARIABLES
    config,     \* what the settings hold: a valid static address, an SSID
    join,       \* the driver's wifi_join_state
    linkUp,     \* lwIP's flag
    addr,       \* the interface's address
    shown,      \* connectionStatus and currentIp
    boot        \* network_wifiStaConnect and the loop around it in emul_start

wifiVars == <<config, join, linkUp, addr, shown, boot>>

Addresses == {"none", "leased", "static"}
Disconnected == [status |-> "disconnected", ip |-> "none"]

WifiTypeOK ==
    /\ config \in [static : BOOLEAN, ssid : BOOLEAN]
    /\ join \in {"down", "joining", "joined", "failed"}
    /\ linkUp \in BOOLEAN /\ addr \in Addresses
    /\ shown \in [status : {"disconnected", "joining", "noip", "ip", "failed"}, ip : Addresses]
    /\ boot \in [at : {"begin", "turn", "poll", "done"}, attempt : 0..MaxAttempts,
                 time : 0..Timeout, nextStatus : 0..(Timeout + Interval),
                 status : {"disconnected", "joining", "noip", "ip", "failed"},
                 err : {"timeout", "error", "ok"}]

WifiInit ==
    /\ config \in [static : BOOLEAN, ssid : BOOLEAN]
    /\ join = "down" /\ linkUp = FALSE /\ addr = "none" /\ shown = Disconnected
    /\ boot = [at |-> "begin", attempt |-> 0, time |-> 0, nextStatus |-> 0,
               status |-> "disconnected", err |-> "timeout"]

----------------------------------------------------------------------------
(* What lwIP tells the program.                                             *)

\* networkStatusCallback: the interface is up whenever it is called
StatusCallback(a) == [status |-> "ip", ip |-> a]

\* Mutant: the callback forgets nothing.
LinkCallback_KeepsIp(up) == shown

\* wifiLinkCallback
LinkCallback(up) == IF up THEN shown ELSE Disconnected

\* cyw43_tcpip_link_status, in the words of network_wifiConnStatus
LinkStatus ==
    IF linkUp THEN IF addr = "none" THEN "noip" ELSE "ip"
    ELSE CASE join = "down" -> "disconnected"
           [] join \in {"joining", "joined"} -> "joining"
           [] OTHER -> "failed"

----------------------------------------------------------------------------
(* The program.                                                             *)

\* network_resetStaInterface, the addresses and the join of network_beginStaConnect;
\* "fails" stands for its other errors (address of the radio, refused join)
BeginConnect(fails) ==
    /\ linkUp' = FALSE
    /\ addr' = IF config.static THEN "static" ELSE "none"
    /\ shown' = IF config.static THEN StatusCallback("static") ELSE Disconnected
    /\ join' = IF config.ssid /\ ~fails THEN "joining" ELSE "down"
    /\ UNCHANGED config

ConnectAttempt ==
    /\ boot.at = "begin"
    /\ \E fails \in BOOLEAN :
         /\ BeginConnect(fails)
         /\ boot' = IF config.ssid /\ ~fails
                    THEN [boot EXCEPT !.at = "turn", !.attempt = @ + 1, !.time = 0,
                                      !.nextStatus = Interval]
                    ELSE [boot EXCEPT !.at = "done", !.attempt = @ + 1, !.err = "error"]

\* network_wifiConnStatus: the driver is asked once in an interval, between two
\* of them the last status stands
ReadStatus ==
    /\ boot.at = "turn"
    /\ IF boot.time > boot.nextStatus
       THEN /\ shown' = [shown EXCEPT !.status = LinkStatus]
            /\ boot' = [boot EXCEPT !.at = "poll", !.status = LinkStatus,
                                    !.nextStatus = boot.time + Interval]
       ELSE /\ boot' = [boot EXCEPT !.at = "poll", !.status = shown.status]
            /\ UNCHANGED shown
    /\ UNCHANGED <<config, join, linkUp, addr>>

\* an attempt that ended: only a timeout is tried again
AttemptEnds(time) ==
    IF time < Timeout THEN [boot EXCEPT !.at = "done", !.time = time, !.err = "ok"]
    ELSE [boot EXCEPT !.at = IF boot.attempt < MaxAttempts THEN "begin" ELSE "done",
                      !.time = time, !.err = "timeout"]

\* the rest of a turn takes its time: the polling callback may serve a whole
\* GEMDRIVE call
TurnEnds ==
    /\ boot.at = "poll"
    /\ \E time \in boot.time..Timeout :
         boot' = IF boot.status = "ip" \/ time = Timeout THEN AttemptEnds(time)
                 ELSE [boot EXCEPT !.at = "turn", !.time = time]
    /\ UNCHANGED <<config, join, linkUp, addr, shown>>

\* a join of network_superviseLink
RejoinBegins ==
    /\ boot.at = "done"
    /\ \E fails \in BOOLEAN : BeginConnect(fails)
    /\ UNCHANGED boot

----------------------------------------------------------------------------
(* Access point, driver and lwIP.                                           *)

Polls == boot.at \in {"poll", "done"}

Joins ==
    /\ Polls /\ join = "joining" /\ ~linkUp
    /\ \/ join' = "joined" /\ linkUp' = TRUE /\ shown' = LinkCallback(TRUE)
       \/ join' = "failed" /\ UNCHANGED <<linkUp, shown>>
    /\ UNCHANGED <<config, addr, boot>>

LinkDrops ==
    /\ Polls /\ linkUp
    /\ linkUp' = FALSE /\ join' \in {"down", "joining"}
    /\ shown' = LinkCallback(FALSE)
    /\ UNCHANGED <<config, addr, boot>>

\* DHCP has got an address, or lost it
LeaseChanges ==
    /\ Polls /\ ~config.static
    /\ \/ linkUp /\ addr = "none" /\ addr' = "leased"
       \/ addr = "leased" /\ addr' = "none"
    /\ shown' = StatusCallback(addr')
    /\ UNCHANGED <<config, join, linkUp, boot>>

WifiNext ==
    \/ ConnectAttempt \/ ReadStatus \/ TurnEnds \/ RejoinBegins
    \/ Joins \/ LinkDrops \/ LeaseChanges

WifiSpec == WifiInit /\ [][WifiNext]_wifiVars

----------------------------------------------------------------------------
\* An address the menu shows is the one the interface has, and with a lease
\* there is a link below it: what a lost link or a new join left behind is not
\* shown ("so callers don't keep serving stale values after a link drop").  A
\* static address is shown from the moment a join is begun.
ShownIsOurs ==
    shown.ip # "none" => shown.ip = addr /\ (linkUp \/ addr = "static")
====
