---- MODULE MCCartridge ----
(***************************************************************************)
(* What the ST puts on the cartridge bus: commands, from the foreground    *)
(* and from the interrupt hook, and debug bytes.  The two models share no  *)
(* variable, so a property of one holds of both together as soon as it     *)
(* holds of that one.  Hence a behaviour chooses the part that moves.      *)
(***************************************************************************)
EXTENDS CommandChannel, DebugRing

VARIABLE part

busVars == <<part, vars, debugVars>>

ChannelMoves(Step) == part = "channel" /\ Step /\ UNCHANGED <<part, debugVars>>
DebugMoves(Step) == part = "debug" /\ Step /\ UNCHANGED <<part, vars>>

\* a part that keeps still has one initial state
BusInit ==
    /\ part \in {"channel", "debug"} /\ Init /\ DebugInit
    /\ part # "debug" => connected

\* lwIP polls an open connection for ever
BusFairness ==
    /\ \A x \in Context :
          /\ WF_busVars(ChannelMoves(ContextStep(x)))
          /\ SF_busVars(ChannelMoves(Resend(x) \/ GiveUp(x)))
    /\ WF_busVars(ChannelMoves(Poll \/ Dispatch \/ Publish))
    /\ \A c \in Tails : WF_busVars(DebugMoves(DriveTail(c)))

BusNext == ChannelMoves(Next) \/ DebugMoves(DebugNext)

BusSpec == BusInit /\ [][BusNext]_busVars /\ BusFairness
====
