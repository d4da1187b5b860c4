---- MODULE MCNetSide ----
(***************************************************************************)
(* The transfers with the card, the reader of a request, the connection to *)
(* the Wi-Fi and its supervision.  The models share no variable, so a      *)
(* property of one of them holds of all together as soon as it holds of    *)
(* that one.  Hence a behaviour chooses the part that moves; the others    *)
(* keep still.                                                             *)
(***************************************************************************)
EXTENDS HttpTransfers, RequestReader, LinkSupervisor, WifiConnect

VARIABLE part

netVars == <<part, transfersVars, readerVars, linkVars, wifiVars>>

TransfersMove(Step) ==
    part = "transfers" /\ Step /\ UNCHANGED <<part, readerVars, linkVars, wifiVars>>
ReaderMoves(Step) ==
    part = "reader" /\ Step /\ UNCHANGED <<part, transfersVars, linkVars, wifiVars>>
LinkMoves(Step) ==
    part = "link" /\ Step /\ UNCHANGED <<part, transfersVars, readerVars, wifiVars>>
WifiMoves(Step) ==
    part = "wifi" /\ Step /\ UNCHANGED <<part, transfersVars, readerVars, linkVars>>

\* a part that keeps still has one initial state
NetInit ==
    /\ part \in {"transfers", "reader", "link", "wifi"}
    /\ TransfersInit /\ ReaderInit /\ LinkInit /\ WifiInit
    /\ part # "transfers" => content = "absent"
    /\ part # "reader" => request = [route |-> "bodiless", header |-> 1,
                                    content_length |-> 0, wanted |-> 0, extra |-> 0]
    /\ part # "link" => reachable /\ link = "up"
    /\ part # "wifi" => config = [static |-> FALSE, ssid |-> TRUE]

NetNext ==
    \/ TransfersMove(TransfersNext) \/ ReaderMoves(ReaderNext)
    \/ LinkMoves(LinkNext) \/ WifiMoves(WifiNext)

NetFairness ==
    /\ \A c \in Conns : WF_netVars(TransfersMove(SweepVanished(c)))
    /\ WF_netVars(LinkMoves(Tick)) /\ WF_netVars(LinkMoves(Supervise))
    /\ SF_netVars(LinkMoves(ProbeSent))

NetSpec == NetInit /\ [][NetNext]_netVars /\ NetFairness
====
