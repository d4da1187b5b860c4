---- MODULE MCForeground ----
(***************************************************************************)
(* What the foreground of the ST sends: any commands, one after another,   *)
(* and the keystrokes of the setup menu.  As in MCNetSide the models share *)
(* no variable, and a behaviour chooses the part that moves.               *)
(***************************************************************************)
EXTENDS CommandChannel, MCSetupMenu

VARIABLE part

foregroundVars == <<part, vars, menuVars>>

\* a part that keeps still has one initial state
ForegroundInit ==
    /\ part \in {"commands", "menu"} /\ Init /\ MenuInit
    /\ part # "menu" => folders = NoCard

ForegroundNext ==
    /\ \/ part = "commands" /\ Next /\ UNCHANGED menuVars
       \/ part = "menu" /\ MenuNext /\ UNCHANGED vars
    /\ UNCHANGED part

ForegroundSpec == ForegroundInit /\ [][ForegroundNext]_foregroundVars
====
