---- MODULE Device_proofs ----
(***************************************************************************)
(* Proofs about what the device keeps for its user: crash counting and the *)
(* launch gate, for every size of the fields, window and countdown; the    *)
(* SELECT button, for any length of a long press, of the debouncing and of *)
(* the time between two polls; the settings in flash, for any number of    *)
(* entries and pages; and the setup menu, for any cards, folders and texts. *)
(***************************************************************************)
EXTENDS BootGuard, SelectButton, SettingsStore, SetupMenu, FiniteSetTheorems,
        SequenceTheorems, TLAPS

----------------------------------------------------------------------------
(* Crash counting and the launch gate.                                     *)

\* The constants are natural numbers, and the fields hold what they count.
LEMMA Sizes ==
    /\ CrashLoopCount \in Nat /\ CrashLoopWindow \in Nat /\ TopCount \in Nat
    /\ TopWindow \in Nat /\ BootCountdown \in Nat
    /\ CrashLoopCount > 0 /\ BootCountdown > 0
    /\ CrashLoopCount <= TopCount /\ CrashLoopWindow < TopWindow
BY BootAssumption

Gates ==
    [halt : BOOLEAN, countdown : 0..BootCountdown, restart : BOOLEAN,
     needsSd : BOOLEAN, needsSt : BOOLEAN, lastDrawn : BOOLEAN,
     menu : BOOLEAN, launched : {"no", "user", "countdown"}]

Scratches ==
    [magic : BOOLEAN, reason : {"running", "reset", "crash"},
     count : 0..TopCount, window : 0..TopWindow]

LEMMA GateUpdates ==
    ASSUME NEW g \in Gates
    PROVE  /\ \A v \in BOOLEAN : [g EXCEPT !.halt = v] \in Gates
           /\ \A v \in 0..BootCountdown : [g EXCEPT !.countdown = v] \in Gates
           /\ \A v \in BOOLEAN : [g EXCEPT !.restart = v] \in Gates
           /\ \A v \in BOOLEAN : [g EXCEPT !.needsSd = v] \in Gates
           /\ \A v \in BOOLEAN : [g EXCEPT !.needsSt = v] \in Gates
           /\ \A v \in BOOLEAN : [g EXCEPT !.lastDrawn = v] \in Gates
           /\ \A v \in BOOLEAN : [g EXCEPT !.menu = v] \in Gates
           /\ \A v \in {"no", "user", "countdown"} : [g EXCEPT !.launched = v] \in Gates
BY DEF Gates

LEMMA FreshGateType == FreshGate \in Gates
<1>1. BootCountdown \in 0..BootCountdown
  BY Sizes
<1>2. QED BY <1>1 DEF FreshGate, Gates

\* What a restarted countdown looks like.
LEMMA RestartedGate ==
    ASSUME NEW g \in Gates
    PROVE  /\ Restarted(g) \in Gates
           /\ ~Restarted(g).halt /\ ~Restarted(g).restart
           /\ Restarted(g).countdown = BootCountdown
           /\ Restarted(g).needsSd = g.needsSd /\ Restarted(g).needsSt = g.needsSt
           /\ Restarted(g).lastDrawn = g.lastDrawn
           /\ Restarted(g).launched = g.launched
<1>1. BootCountdown \in 0..BootCountdown
  BY Sizes
<1>2. [g EXCEPT !.restart = FALSE] \in Gates
  BY GateUpdates
<1>3. [[g EXCEPT !.restart = FALSE] EXCEPT !.countdown = BootCountdown] \in Gates
  BY <1>1, <1>2, GateUpdates
<1>4. Restarted(g) \in Gates
  BY <1>3, GateUpdates DEF Restarted
<1>5. QED BY <1>4 DEF Restarted, Gates

\* What an attempt to launch leaves behind: it always halts the countdown.
LEMMA LaunchedGate ==
    ASSUME BootTypeOK, NEW who \in {"user", "countdown"}
    PROVE  /\ Launch(who) \in Gates
           /\ Launch(who).halt
           /\ Launch(who).countdown = gate.countdown
           /\ Launch(who).lastDrawn = gate.lastDrawn
           /\ Launch(who).needsSd => gate.needsSd \/ ~mounted
           /\ Launch(who).needsSt => gate.needsSt \/ ~hello
           /\ Launch(who).restart => gate.restart \/ who = "countdown"
           /\ Launch(who).launched \in {gate.launched, who}
<1>0. gate \in Gates
  BY DEF BootTypeOK, Gates
<1>1. CASE ~mounted
  <2>1. [gate EXCEPT !.halt = TRUE] \in Gates
    BY <1>0, GateUpdates
  <2>2. [[gate EXCEPT !.halt = TRUE] EXCEPT !.needsSd = TRUE] \in Gates
    BY <2>1, GateUpdates
  <2>3. [[[gate EXCEPT !.halt = TRUE] EXCEPT !.needsSd = TRUE] EXCEPT !.menu = TRUE] \in Gates
    BY <2>2, GateUpdates
  <2>4. (who = "countdown") \in BOOLEAN
    OBVIOUS
  <2>5. Launch(who) \in Gates
    BY <1>1, <2>3, <2>4, GateUpdates DEF Launch
  <2>6. QED BY <1>0, <1>1, <2>5 DEF Launch, Gates
<1>2. CASE mounted /\ ~hello
  <2>1. [gate EXCEPT !.halt = TRUE] \in Gates
    BY <1>0, GateUpdates
  <2>2. [[gate EXCEPT !.halt = TRUE] EXCEPT !.needsSt = TRUE] \in Gates
    BY <2>1, GateUpdates
  <2>3. [[[gate EXCEPT !.halt = TRUE] EXCEPT !.needsSt = TRUE] EXCEPT !.menu = TRUE] \in Gates
    BY <2>2, GateUpdates
  <2>4. (who = "countdown") \in BOOLEAN
    OBVIOUS
  <2>5. Launch(who) \in Gates
    BY <1>2, <2>3, <2>4, GateUpdates DEF Launch
  <2>6. QED BY <1>0, <1>2, <2>5 DEF Launch, Gates
<1>3. CASE mounted /\ hello
  <2>1. [gate EXCEPT !.halt = TRUE] \in Gates
    BY <1>0, GateUpdates
  <2>2. [[gate EXCEPT !.halt = TRUE] EXCEPT !.menu = FALSE] \in Gates
    BY <2>1, GateUpdates
  <2>3. Launch(who) \in Gates
    BY <1>3, <2>2, GateUpdates DEF Launch
  <2>4. QED BY <1>0, <1>3, <2>3 DEF Launch, Gates
<1>4. QED BY <1>1, <1>2, <1>3

----------------------------------------------------------------------------
(* Type correctness.  The countdown stays above zero while it runs: the    *)
(* launch at its end always halts it.                                      *)

Counting == BootTypeOK /\ (~gate.halt => gate.countdown > 0)

\* health_init never counts past the field, and never below a full loop.
LEMMA NextCrashBounds ==
    ASSUME BootTypeOK
    PROVE  /\ NextCrash[1] \in 0..TopCount /\ NextCrash[2] \in 0..TopWindow
           /\ Crashed /\ scratch.count >= CrashLoopCount
                 => NextCrash[1] >= CrashLoopCount
<1>1. scratch.count \in 0..TopCount /\ scratch.window \in 0..TopWindow
  BY DEF BootTypeOK
<1>2. CASE ~Crashed
  BY <1>2, Sizes DEF NextCrash
<1>3. CASE Crashed /\ scratch.count >= CrashLoopCount
  <2>1. NextCrash = <<Min3(scratch.count + 1, TopCount), 0>>
    BY <1>3 DEF NextCrash
  <2>2. Min3(scratch.count + 1, TopCount) \in CrashLoopCount..TopCount
    BY <1>1, <1>3, Sizes DEF Min3
  <2>3. QED BY <2>1, <2>2, Sizes
<1>4. CASE /\ Crashed /\ ~(scratch.count >= CrashLoopCount)
           /\ scratch.count > 0 /\ scratch.window <= CrashLoopWindow
  <2>1. NextCrash = <<scratch.count + 1, scratch.window>>
    BY <1>4 DEF NextCrash
  <2>2. QED BY <1>1, <1>4, <2>1, Sizes
<1>5. CASE /\ Crashed /\ ~(scratch.count >= CrashLoopCount)
           /\ ~(scratch.count > 0 /\ scratch.window <= CrashLoopWindow)
  <2>1. NextCrash = <<1, 0>>
    BY <1>5 DEF NextCrash
  <2>2. QED BY <1>5, <2>1, Sizes
<1>6. QED BY <1>2, <1>3, <1>4, <1>5

LEMMA InitCounting == BootInit => Counting
<1> SUFFICES ASSUME BootInit PROVE Counting
  OBVIOUS
<1>1. gate \in Gates
  BY FreshGateType DEF BootInit
<1>2. scratch \in Scratches
  BY Sizes DEF BootInit, NoCrumb, Scratches
<1>3. gate.countdown > 0
  BY Sizes DEF BootInit, FreshGate
<1>4. 0 \in 0..TopCount /\ 0 \in 0..TopWindow
  BY Sizes
<1>5. QED BY <1>1, <1>2, <1>3, <1>4 DEF BootInit, Counting, BootTypeOK, Gates, Scratches

LEMMA NextCounting == Counting /\ [BootNext]_bootVars => Counting'
<1> SUFFICES ASSUME Counting, [BootNext]_bootVars PROVE Counting'
  OBVIOUS
<1>0. /\ BootTypeOK /\ gate \in Gates /\ scratch \in Scratches
      /\ ~gate.halt => gate.countdown > 0
  BY DEF Counting, BootTypeOK, Gates, Scratches
<1> USE DEF cells, counts
<1>1. CASE Boot
  <2>1. NextCrash[1] \in 0..TopCount /\ NextCrash[2] \in 0..TopWindow
    BY <1>0, NextCrashBounds
  <2>2. scratch' \in Scratches
    BY <1>1, <2>1 DEF Boot, Scratches
  <2>3. gate' \in Gates /\ gate'.countdown > 0
    BY <1>1, FreshGateType, Sizes DEF Boot, FreshGate
  <2>4. 0 \in 0..TopWindow
    BY Sizes
  <2>5. QED BY <1>0, <1>1, <2>1, <2>2, <2>3, <2>4
            DEF Boot, Counting, BootTypeOK, Gates, Scratches
<1>2. CASE ConnectTakes
  <2>1. uptime' \in 0..TopWindow
    BY <1>0, <1>2, Sizes DEF ConnectTakes, Min3, BootTypeOK
  <2>2. QED BY <1>0, <1>2, <2>1 DEF ConnectTakes, Counting, BootTypeOK
<1>3. CASE Connected
  <2>1. (gate.halt \/ IsCrashLoop) \in BOOLEAN
    BY <1>0 DEF Gates
  <2>2. [gate EXCEPT !.menu = TRUE] \in Gates
    BY <1>0, GateUpdates
  <2>3. [[gate EXCEPT !.menu = TRUE] EXCEPT !.halt = gate.halt \/ IsCrashLoop] \in Gates
    BY <2>1, <2>2, GateUpdates
  <2>4. gate' = [[gate EXCEPT !.menu = TRUE] EXCEPT !.halt = gate.halt \/ IsCrashLoop]
    BY <1>0, <1>3 DEF Connected, Gates
  <2>5. gate'.countdown = gate.countdown /\ (gate.halt => gate'.halt)
    BY <1>0, <2>4 DEF Gates
  <2>6. QED BY <1>0, <1>3, <2>3, <2>4, <2>5 DEF Connected, Counting, BootTypeOK, Gates, Steps
<1>4. CASE Crash
  <2>1. scratch' \in Scratches
    BY <1>0, <1>4 DEF Crash, Scratches
  <2>2. QED BY <1>0, <1>4, <2>1 DEF Crash, Stop, Counting, BootTypeOK, Scratches
<1>5. CASE Hang \/ HangMasked
  BY <1>0, <1>5 DEF Hang, HangMasked, Stop, Counting, BootTypeOK
<1>6. CASE SlowCall
  BY <1>0, <1>6 DEF SlowCall, Counting, BootTypeOK
<1>7. CASE SelectReset
  <2>1. scratch' \in Scratches
    BY <1>7, Sizes DEF SelectReset, Scratches
  <2>2. QED BY <1>0, <1>7, <2>1 DEF SelectReset, Stop, Counting, BootTypeOK, Scratches
<1>8. CASE JumpToBooster
  <2>1. scratch' \in Scratches
    BY <1>8, Sizes DEF JumpToBooster, NoCrumb, Scratches
  <2>2. QED BY <1>0, <1>8, <2>1 DEF JumpToBooster, Stop, Counting, BootTypeOK, Scratches
<1>9. CASE PowerCycle
  <2>1. scratch' \in Scratches
    BY <1>9, Sizes DEF PowerCycle, NoCrumb, Scratches
  <2>2. QED BY <1>0, <1>9, <2>1 DEF PowerCycle, Counting, BootTypeOK, Scratches
<1>10. CASE CardMoves
  BY <1>0, <1>10 DEF CardMoves, Counting, BootTypeOK
<1>11. CASE HelloLands
  <2>1. [gate EXCEPT !.needsSt = FALSE] \in Gates
    BY <1>0, GateUpdates
  <2>2. /\ [gate EXCEPT !.needsSt = FALSE].countdown = gate.countdown
        /\ [gate EXCEPT !.needsSt = FALSE].halt = gate.halt
    BY <1>0 DEF Gates
  <2>3. gate' \in Gates /\ (~gate'.halt => gate'.countdown > 0)
    <3>1. CASE ~gate.needsSt
      BY <1>0, <1>11, <3>1 DEF HelloLands
    <3>2. CASE gate.needsSt /\ gate.restart
      BY <1>11, <2>1, <3>2, RestartedGate, Sizes DEF HelloLands
    <3>3. CASE gate.needsSt /\ ~gate.restart
      BY <1>0, <1>11, <2>1, <2>2, <3>3 DEF HelloLands
    <3>4. QED BY <3>1, <3>2, <3>3
  <2>4. key' \in BOOLEAN
    BY <1>11 DEF HelloLands
  <2>5. QED BY <1>0, <1>11, <2>3, <2>4 DEF HelloLands, Counting, BootTypeOK, Gates, Steps
<1>12. CASE Commands
  <2>1. mounted' \in BOOLEAN
    BY <1>0, <1>12 DEF Commands, BootTypeOK
  <2>2. QED BY <1>0, <1>12, <2>1 DEF Commands, Counting, BootTypeOK, Steps
<1>13. CASE PollCard
  <2> DEFINE lifted == mounted' # gate.lastDrawn /\ mounted' /\ gate.needsSd
             drawn == [gate EXCEPT !.lastDrawn = mounted', !.needsSd = gate.needsSd /\ ~lifted]
  <2>1. mounted' \in BOOLEAN /\ (gate.needsSd /\ ~lifted) \in BOOLEAN
    BY <1>0, <1>13 DEF PollCard, BootTypeOK
  <2>2. [gate EXCEPT !.lastDrawn = mounted'] \in Gates
    BY <1>0, <2>1, GateUpdates
  <2>3. drawn \in Gates
    BY <2>1, <2>2, GateUpdates
  <2>4. drawn.countdown = gate.countdown /\ drawn.halt = gate.halt
    BY <1>0 DEF Gates
  <2>5. gate' = Restarted(drawn) \/ gate' = drawn
    BY <1>13 DEF PollCard
  <2> HIDE DEF drawn
  <2>6. gate' \in Gates /\ (~gate'.halt => gate'.countdown > 0)
    BY <1>0, <2>3, <2>4, <2>5, RestartedGate, Sizes
  <2>7. key' \in BOOLEAN
    BY <1>13 DEF PollCard
  <2>8. QED BY <1>0, <1>13, <2>1, <2>6, <2>7 DEF PollCard, Counting, BootTypeOK, Gates, Steps
<1>14. CASE HealthTick
  <2>1. uptime' \in 0..TopWindow
    BY <1>0, <1>14, Sizes DEF HealthTick, Min3, BootTypeOK
  <2>2. Min3(base + uptime', TopWindow) \in 0..TopWindow
    <3>1. base \in Nat /\ uptime' \in Nat
      BY <1>0, <2>1, Sizes DEF BootTypeOK
    <3>2. \A a, b \in Nat : Min3(a + b, TopWindow) \in 0..TopWindow
      BY Sizes DEF Min3
    <3>3. QED BY <3>1, <3>2
  <2>3. scratch' \in Scratches
    BY <1>0, <1>14, <2>2 DEF HealthTick, Scratches, BootTypeOK
  <2>4. QED BY <1>0, <1>14, <2>1, <2>3 DEF HealthTick, Counting, BootTypeOK, Scratches, Steps
<1>15. CASE TermLoop
  <2>1. [gate EXCEPT !.halt = TRUE] \in Gates /\ [gate EXCEPT !.halt = TRUE].halt
    <3>1. [gate EXCEPT !.halt = TRUE] \in Gates
      BY <1>0, GateUpdates
    <3>2. [gate EXCEPT !.halt = TRUE].halt = TRUE
      BY <1>0 DEF Gates
    <3>3. QED BY <3>1, <3>2
  <2>2. Launch("user") \in Gates /\ Launch("user").halt
    BY <1>0, LaunchedGate
  <2>3. gate' \in Gates /\ (~gate'.halt => gate'.countdown > 0)
    BY <1>0, <1>15, <2>1, <2>2 DEF TermLoop
  <2>4. key' \in BOOLEAN
    BY <1>0, <1>15 DEF TermLoop, BootTypeOK
  <2>5. QED BY <1>0, <1>15, <2>3, <2>4 DEF TermLoop, Counting, BootTypeOK, Gates, Steps
<1>16. CASE Count
  <2>1. [gate EXCEPT !.halt = TRUE] \in Gates /\ [gate EXCEPT !.halt = TRUE].halt
    <3>1. [gate EXCEPT !.halt = TRUE] \in Gates
      BY <1>0, GateUpdates
    <3>2. [gate EXCEPT !.halt = TRUE].halt = TRUE
      BY <1>0 DEF Gates
    <3>3. QED BY <3>1, <3>2
  <2>2. Launch("countdown") \in Gates /\ Launch("countdown").halt
    BY <1>0, LaunchedGate
  <2>3. 0 \in 0..BootCountdown
    BY Sizes
  <2>4. /\ [Launch("countdown") EXCEPT !.countdown = 0] \in Gates
        /\ [Launch("countdown") EXCEPT !.countdown = 0].halt
    BY <2>2, <2>3, GateUpdates DEF Gates
  <2>5. ASSUME ~gate.halt, gate.countdown # 1
        PROVE  /\ [gate EXCEPT !.countdown = gate.countdown - 1] \in Gates
               /\ [gate EXCEPT !.countdown = gate.countdown - 1].countdown > 0
    <3>1. gate.countdown - 1 \in 0..BootCountdown /\ gate.countdown - 1 > 0
      BY <1>0, <2>5, Sizes DEF Gates
    <3>2. [gate EXCEPT !.countdown = gate.countdown - 1] \in Gates
      BY <1>0, <3>1, GateUpdates
    <3>3. [gate EXCEPT !.countdown = gate.countdown - 1].countdown = gate.countdown - 1
      BY <1>0 DEF Gates
    <3>4. QED BY <3>1, <3>2, <3>3
  <2>6. gate' \in Gates /\ (~gate'.halt => gate'.countdown > 0)
    BY <1>0, <1>16, <2>1, <2>4, <2>5 DEF Count
  <2>7. key' \in BOOLEAN
    BY <1>16 DEF Count
  <2>8. QED BY <1>0, <1>16, <2>6, <2>7 DEF Count, Counting, BootTypeOK, Gates, Steps
<1>17. CASE UNCHANGED bootVars
  BY <1>0, <1>17 DEF bootVars, Counting, BootTypeOK
<1>18. QED
  BY <1>1, <1>2, <1>3, <1>4, <1>5, <1>6, <1>7, <1>8, <1>9, <1>10, <1>11, <1>12,
     <1>13, <1>14, <1>15, <1>16, <1>17 DEF BootNext

(* Every variable keeps its type: the count and the window never outgrow   *)
(* the fields of the scratch register, nor the countdown its range.        *)
THEOREM BootTypeCorrect == BootSpec => []BootTypeOK
<1>1. Counting => BootTypeOK
  BY DEF Counting
<1>2. QED BY <1>1, InitCounting, NextCounting, PTL DEF BootSpec

----------------------------------------------------------------------------
(* The launch gate.  From the card's step to the end of the pass the menu  *)
(* shows the card as it is known, so a refusal for want of a card was      *)
(* drawn as such.                                                          *)

DrawnAsKnown ==
    phase \in {"health", "term", "count"} => gate.lastDrawn = mounted

LEMMA NextLifted ==
    Counting /\ DrawnAsKnown /\ RefusalIsLifted /\ [BootNext]_bootVars
       => DrawnAsKnown' /\ RefusalIsLifted'
<1> SUFFICES ASSUME Counting, DrawnAsKnown, RefusalIsLifted, [BootNext]_bootVars
             PROVE  DrawnAsKnown' /\ RefusalIsLifted'
  OBVIOUS
<1>0. BootTypeOK /\ gate \in Gates /\ mounted \in BOOLEAN
  BY DEF Counting, BootTypeOK, Gates
<1> USE DEF cells, counts
<1>1. CASE Boot
  BY <1>1 DEF Boot, FreshGate, DrawnAsKnown, RefusalIsLifted
<1>2. CASE ConnectTakes \/ SlowCall \/ CardMoves
  BY <1>2 DEF ConnectTakes, SlowCall, CardMoves, DrawnAsKnown, RefusalIsLifted
<1>3. CASE Connected
  <2>1. /\ gate'.lastDrawn = gate.lastDrawn /\ gate'.needsSd = gate.needsSd
        /\ gate'.needsSt = gate.needsSt
    BY <1>0, <1>3 DEF Connected, Gates
  <2>2. QED BY <1>3, <2>1 DEF Connected, DrawnAsKnown, RefusalIsLifted
<1>4. CASE Crash \/ Hang \/ HangMasked \/ SelectReset \/ JumpToBooster \/ PowerCycle
  BY <1>4 DEF Crash, Hang, HangMasked, SelectReset, JumpToBooster, PowerCycle, Stop,
              DrawnAsKnown, RefusalIsLifted
<1>5. CASE HelloLands
  <2> DEFINE g == [gate EXCEPT !.needsSt = FALSE]
  <2>1. g \in Gates
    BY <1>0, GateUpdates
  <2>9. /\ g.needsSt = FALSE /\ g.needsSd = gate.needsSd
        /\ g.lastDrawn = gate.lastDrawn
    BY <1>0 DEF Gates
  <2>2. /\ gate'.needsSt = FALSE /\ gate'.needsSd = gate.needsSd
        /\ gate'.lastDrawn = gate.lastDrawn
    <3>1. CASE ~gate.needsSt
      BY <1>0, <1>5, <3>1 DEF HelloLands, Gates
    <3>2. CASE gate.needsSt /\ gate.restart
      BY <1>5, <2>1, <2>9, <3>2, RestartedGate DEF HelloLands
    <3>3. CASE gate.needsSt /\ ~gate.restart
      BY <1>5, <2>1, <2>9, <3>3 DEF HelloLands
    <3>4. QED BY <3>1, <3>2, <3>3
  <2>3. QED BY <1>5, <2>2 DEF HelloLands, DrawnAsKnown, RefusalIsLifted
<1>6. CASE Commands
  BY <1>6 DEF Commands, DrawnAsKnown, RefusalIsLifted
<1>7. CASE PollCard
  <2> DEFINE lifted == mounted' # gate.lastDrawn /\ mounted' /\ gate.needsSd
             drawn == [gate EXCEPT !.lastDrawn = mounted', !.needsSd = gate.needsSd /\ ~lifted]
  <2>1. mounted' \in BOOLEAN /\ (gate.needsSd /\ ~lifted) \in BOOLEAN
    BY <1>0, <1>7 DEF PollCard, BootTypeOK
  <2>2. [gate EXCEPT !.lastDrawn = mounted'] \in Gates
    BY <1>0, <2>1, GateUpdates
  <2>3. drawn \in Gates
    BY <2>1, <2>2, GateUpdates
  <2>4. /\ drawn.lastDrawn = mounted' /\ drawn.needsSd = (gate.needsSd /\ ~lifted)
        /\ drawn.needsSt = gate.needsSt
    BY <1>0 DEF Gates
  <2>5. gate' = Restarted(drawn) \/ gate' = drawn
    BY <1>7 DEF PollCard
  <2> HIDE DEF drawn
  <2>6. /\ gate'.lastDrawn = mounted' /\ gate'.needsSd = (gate.needsSd /\ ~lifted)
        /\ gate'.needsSt = gate.needsSt
    BY <2>3, <2>4, <2>5, RestartedGate
  <2>7. gate'.needsSd => ~gate'.lastDrawn
    BY <2>6 DEF RefusalIsLifted
  <2>8. QED BY <1>7, <2>6, <2>7 DEF PollCard, DrawnAsKnown, RefusalIsLifted
<1>8. CASE HealthTick
  BY <1>8 DEF HealthTick, DrawnAsKnown, RefusalIsLifted
<1>9. CASE TermLoop
  <2>1. [gate EXCEPT !.halt = TRUE].lastDrawn = gate.lastDrawn
        /\ [gate EXCEPT !.halt = TRUE].needsSd = gate.needsSd
        /\ [gate EXCEPT !.halt = TRUE].needsSt = gate.needsSt
    BY <1>0 DEF Gates
  <2>2. /\ gate'.lastDrawn = gate.lastDrawn
        /\ gate'.needsSd => gate.needsSd \/ ~mounted
        /\ gate'.needsSt => gate.needsSt \/ ~hello
    BY <1>0, <1>9, <2>1, LaunchedGate DEF TermLoop
  <2>3. QED BY <1>9, <2>2 DEF TermLoop, DrawnAsKnown, RefusalIsLifted
<1>10. CASE Count
  <2>1. /\ Launch("countdown") \in Gates
        /\ Launch("countdown").lastDrawn = gate.lastDrawn
        /\ Launch("countdown").needsSd => gate.needsSd \/ ~mounted
        /\ Launch("countdown").needsSt => gate.needsSt \/ ~hello
    BY <1>0, LaunchedGate
  <2>2. ASSUME NEW g \in Gates, NEW v, gate' = [g EXCEPT !.countdown = v]
        PROVE  /\ gate'.lastDrawn = g.lastDrawn /\ gate'.needsSd = g.needsSd
               /\ gate'.needsSt = g.needsSt
    BY <2>2 DEF Gates
  <2>3. CASE gate' = [gate EXCEPT !.halt = TRUE]
    <3>1. /\ gate'.lastDrawn = gate.lastDrawn /\ gate'.needsSd = gate.needsSd
          /\ gate'.needsSt = gate.needsSt
      BY <1>0, <2>3 DEF Gates
    <3>2. QED BY <1>10, <3>1 DEF Count, DrawnAsKnown, RefusalIsLifted
  <2>4. CASE gate' = [Launch("countdown") EXCEPT !.countdown = 0]
    BY <1>10, <2>1, <2>2, <2>4 DEF Count, DrawnAsKnown, RefusalIsLifted
  <2>5. CASE gate' = [gate EXCEPT !.countdown = gate.countdown - 1]
    BY <1>0, <1>10, <2>2, <2>5 DEF Count, DrawnAsKnown, RefusalIsLifted
  <2>6. CASE gate' = gate
    BY <1>10, <2>6 DEF Count, DrawnAsKnown, RefusalIsLifted
  <2>7. QED BY <1>10, <2>3, <2>4, <2>5, <2>6 DEF Count
<1>11. CASE UNCHANGED bootVars
  BY <1>11 DEF bootVars, DrawnAsKnown, RefusalIsLifted
<1>12. QED
  BY <1>1, <1>2, <1>3, <1>4, <1>5, <1>6, <1>7, <1>8, <1>9, <1>10, <1>11 DEF BootNext

(* A launch refused for want of a card or of the ST waits for something    *)
(* that can still come: no card or HELLO that is already there is waited   *)
(* for.                                                                    *)
THEOREM RefusalsAreLifted == BootSpec => []RefusalIsLifted
<1>1. BootInit => DrawnAsKnown /\ RefusalIsLifted
  BY DEF BootInit, FreshGate, DrawnAsKnown, RefusalIsLifted
<1>2. QED BY <1>1, InitCounting, NextCounting, NextLifted, PTL DEF BootSpec

----------------------------------------------------------------------------
(* The crash loop.  In such a boot nothing asks for a restart of the       *)
(* countdown, since only a launch of the countdown would; and what a crash *)
(* or a hang leaves in the scratch registers makes the next boot count it. *)

CountKept ==
    /\ phase # "off" =>
          scratch.magic /\ scratch.reason = "running" /\ scratch.count = crashes
    /\ phase = "off" /\ stopped \in {"crash", "hang"} =>
          scratch.count = crashes /\ Crashed

InMenu ==
    IsCrashLoop /\ phase # "off" =>
        /\ ~gate.restart /\ gate.launched # "countdown"
        /\ phase \in Steps => gate.halt
        /\ phase = "connect" => ~gate.needsSt

StaysPut == CountKept /\ InMenu

\* Crashed and IsCrashLoop look at a few variables only.
LEMMA NextCountKept ==
    Counting /\ CountKept /\ [BootNext]_bootVars => CountKept'
<1> SUFFICES ASSUME Counting, CountKept, [BootNext]_bootVars PROVE CountKept'
  OBVIOUS
<1>0. BootTypeOK /\ scratch \in Scratches
  BY DEF Counting, BootTypeOK, Scratches
<1> USE DEF cells, counts
<1>1. CASE Boot
  BY <1>1 DEF Boot, CountKept
<1>2. CASE ConnectTakes \/ Connected \/ CardMoves \/ HelloLands \/ Commands \/ PollCard
           \/ TermLoop \/ Count \/ UNCHANGED bootVars
  <2>1. /\ (phase' = "off" <=> phase = "off") /\ scratch' = scratch /\ mark' = mark
        /\ crashes' = crashes /\ watchdog' = watchdog /\ stopped' = stopped
    BY <1>2 DEF ConnectTakes, Connected, CardMoves, HelloLands, Commands, PollCard,
                TermLoop, Count, bootVars
  <2>2. QED BY <2>1 DEF CountKept, Crashed
<1>3. CASE Crash
  <2>1. scratch'.magic /\ scratch'.reason = "crash" /\ scratch'.count = scratch.count
    BY <1>0, <1>3 DEF Crash, Stop, Running, CountKept, Scratches
  <2>2. QED BY <1>3, <2>1 DEF Crash, Stop, Running, CountKept, Crashed
<1>4. CASE Hang
  BY <1>4 DEF Hang, Stop, Running, CountKept, Crashed
<1>5. CASE HangMasked \/ SelectReset \/ JumpToBooster \/ PowerCycle
  BY <1>5 DEF HangMasked, SelectReset, JumpToBooster, PowerCycle, Stop, CountKept
<1>6. CASE SlowCall
  BY <1>6 DEF SlowCall, Running, CountKept
<1>7. CASE HealthTick
  <2>1. scratch'.magic /\ scratch'.reason = "running" /\ scratch'.count = crashes
    BY <1>0, <1>7 DEF HealthTick, CountKept, Scratches
  <2>2. QED BY <1>7, <2>1 DEF HealthTick, CountKept
<1>8. QED
  BY <1>1, <1>2, <1>3, <1>4, <1>5, <1>6, <1>7 DEF BootNext

LEMMA NextInMenu ==
    Counting /\ InMenu /\ [BootNext]_bootVars => InMenu'
<1> SUFFICES ASSUME Counting, InMenu, [BootNext]_bootVars,
                    IsCrashLoop', phase' # "off"
             PROVE  /\ ~gate'.restart /\ gate'.launched # "countdown"
                    /\ phase' \in Steps => gate'.halt
                    /\ phase' = "connect" => ~gate'.needsSt
  BY DEF InMenu, Steps
<1>0. BootTypeOK /\ gate \in Gates
  BY DEF Counting, BootTypeOK, Gates
<1> USE DEF cells, counts
<1>1. CASE Boot
  BY <1>1 DEF Boot, FreshGate, Steps
<1>3. CASE ConnectTakes \/ SlowCall \/ CardMoves \/ Commands \/ HealthTick \/ UNCHANGED bootVars
  <2>1. /\ gate' = gate /\ crashes' = crashes /\ phase # "off"
        /\ phase' \in Steps <=> phase \in Steps
        /\ phase' = "connect" <=> phase = "connect"
    BY <1>3 DEF ConnectTakes, SlowCall, Running, CardMoves, Commands, HealthTick,
                bootVars, Steps
  <2>2. QED BY <2>1 DEF InMenu, IsCrashLoop
<1>4. CASE Connected
  <2>1. /\ phase = "connect" /\ phase' = "commands" /\ IsCrashLoop
        /\ gate' = [gate EXCEPT !.menu = TRUE, !.halt = gate.halt \/ IsCrashLoop]
    BY <1>4 DEF Connected, IsCrashLoop
  <2>2. /\ gate'.restart = gate.restart /\ gate'.launched = gate.launched
        /\ gate'.halt = (gate.halt \/ IsCrashLoop)
    BY <1>0, <2>1 DEF Gates
  <2>3. QED BY <2>1, <2>2 DEF InMenu
<1>5. CASE Crash \/ Hang \/ HangMasked \/ SelectReset \/ JumpToBooster \/ PowerCycle
  BY <1>5 DEF Crash, Hang, HangMasked, SelectReset, JumpToBooster, PowerCycle, Stop
<1>6. CASE HelloLands
  <2>1. /\ IsCrashLoop /\ phase # "off" /\ ~gate.restart /\ gate.launched # "countdown"
        /\ phase' = phase
    BY <1>6 DEF HelloLands, InMenu, IsCrashLoop
  <2>2. gate' = gate \/ gate' = [gate EXCEPT !.needsSt = FALSE]
    BY <1>6, <2>1 DEF HelloLands
  <2>3. /\ gate'.restart = gate.restart /\ gate'.launched = gate.launched
        /\ gate'.halt = gate.halt /\ (gate'.needsSt => gate.needsSt)
    BY <1>0, <2>2 DEF Gates
  <2>4. QED BY <2>1, <2>3 DEF InMenu
<1>7. CASE PollCard
  <2> DEFINE lifted == mounted' # gate.lastDrawn /\ mounted' /\ gate.needsSd
             drawn == [gate EXCEPT !.lastDrawn = mounted', !.needsSd = gate.needsSd /\ ~lifted]
  <2>1. /\ IsCrashLoop /\ phase \in Steps /\ phase' \in Steps
        /\ ~gate.restart /\ gate.halt /\ gate.launched # "countdown"
    BY <1>7 DEF PollCard, InMenu, IsCrashLoop, Steps
  <2>2. gate' = drawn
    BY <1>7, <2>1 DEF PollCard
  <2>3. /\ gate'.restart = gate.restart /\ gate'.launched = gate.launched
        /\ gate'.halt = gate.halt
    BY <1>0, <2>2 DEF Gates
  <2>4. QED BY <2>1, <2>3 DEF Steps
<1>8. CASE TermLoop
  <2>1. /\ IsCrashLoop /\ phase \in Steps /\ phase' \in Steps
        /\ ~gate.restart /\ gate.halt /\ gate.launched # "countdown"
    BY <1>8 DEF TermLoop, InMenu, IsCrashLoop, Steps
  <2>2. /\ Launch("user").halt /\ ~Launch("user").restart
        /\ Launch("user").launched # "countdown"
    BY <1>0, <2>1, LaunchedGate
  <2>3. /\ [gate EXCEPT !.halt = TRUE].restart = gate.restart
        /\ [gate EXCEPT !.halt = TRUE].launched = gate.launched
        /\ [gate EXCEPT !.halt = TRUE].halt = TRUE
    BY <1>0 DEF Gates
  <2>4. QED BY <1>8, <2>1, <2>2, <2>3 DEF TermLoop, Steps
<1>9. CASE Count
  <2>1. /\ IsCrashLoop /\ phase \in Steps /\ phase' \in Steps
        /\ ~gate.restart /\ gate.halt /\ gate.launched # "countdown"
    BY <1>9 DEF Count, InMenu, IsCrashLoop, Steps
  <2>2. gate' = gate
    BY <1>9, <2>1 DEF Count
  <2>3. QED BY <2>1, <2>2 DEF Steps
<1>10. QED
  BY <1>1, <1>3, <1>4, <1>5, <1>6, <1>7, <1>8, <1>9 DEF BootNext

\* The two promises of CrashLoopStaysPut, step by step.
LEMMA StepStaysPut ==
    ASSUME Counting, StaysPut, [BootNext]_bootVars
    PROVE  /\ IsCrashLoop /\ phase \in Steps => gate.halt /\ gate.launched # "countdown"
           /\ IsCrashLoop /\ phase = "off" /\ phase' # "off"
                 /\ stopped \in {"crash", "hang"} => crashes' >= CrashLoopCount
<1>1. IsCrashLoop /\ phase \in Steps => gate.halt /\ gate.launched # "countdown"
  BY DEF StaysPut, InMenu, Steps
<1>2. ASSUME IsCrashLoop, phase = "off", phase' # "off", stopped \in {"crash", "hang"}
      PROVE  crashes' >= CrashLoopCount
  <2>1. Crashed /\ scratch.count >= CrashLoopCount
    BY <1>2 DEF StaysPut, CountKept, IsCrashLoop
  <2>2. Boot
    BY <1>2 DEF BootNext, ConnectTakes, Connected, Crash, Hang, HangMasked, SlowCall,
       SelectReset, JumpToBooster, PowerCycle, CardMoves, HelloLands, Commands, PollCard,
       HealthTick, TermLoop, Count, Stop, Running, bootVars
  <2>3. NextCrash[1] >= CrashLoopCount
    BY <2>1, NextCrashBounds DEF Counting
  <2>4. QED BY <2>2, <2>3 DEF Boot
<1>3. QED BY <1>1, <1>2

(* For every size of the loop, its window and its field: a crash loop      *)
(* stays in the menu, and the next crash or hang leads back to it.         *)
THEOREM CrashLoopsStay == BootSpec => CrashLoopStaysPut
<1>1. BootInit => StaysPut
  BY DEF BootInit, StaysPut, CountKept, InMenu
<1>2. Counting /\ StaysPut /\ [BootNext]_bootVars => StaysPut'
  BY NextCountKept, NextInMenu DEF StaysPut
<1>3. Counting /\ StaysPut /\ [BootNext]_bootVars =>
        [/\ IsCrashLoop /\ phase \in Steps => gate.halt /\ gate.launched # "countdown"
         /\ IsCrashLoop /\ phase = "off" /\ phase' # "off"
               /\ stopped \in {"crash", "hang"} => crashes' >= CrashLoopCount]_bootVars
  BY StepStaysPut
<1>4. QED
  BY <1>1, <1>2, <1>3, InitCounting, NextCounting, PTL DEF BootSpec, CrashLoopStaysPut

----------------------------------------------------------------------------
(* The SELECT button.                                                      *)

Waiting == steady # NotWaiting

\* Of a press that was noticed: it is timed from there, and the button was let
\* go of no longer ago than what polls and debouncing have spent since.
Timed ==
    pressLatched =>
        /\ pressTime = age /\ span <= age
        /\ longSeen => age = LongPress
        /\ Waiting => ~steady.expected /\ age - span <= MaxGap + Steady - steady.left
        /\ ~Waiting /\ ~pushed => age - span <= unpolled

\* What is debounced is a change, a long press is a press, and a callback that
\* was called is the last thing to happen.
Edges ==
    /\ Waiting => steady.expected = ~pressLatched
    /\ longSeen => pressLatched
    /\ called # "none" => ~Waiting

SelectInv == SelectTypeOK /\ Timed /\ Edges /\ TapKeepsSettings

LEMMA NotWaitingLeft == NotWaiting.left = -1
BY DEF NotWaiting

\* A debouncing that begins.
LEMMA BeginsWaiting ==
    ASSUME NEW e \in BOOLEAN
    PROVE  LET w == [expected |-> e, left |-> Steady] IN
           /\ w \in [expected : BOOLEAN, left : 0..Steady]
           /\ w # NotWaiting /\ w.expected = e /\ w.left = Steady
<1> DEFINE w == [expected |-> e, left |-> Steady]
<1>1. w.expected = e /\ w.left = Steady /\ Steady # -1
  BY SelectAssumption
<1>2. w # NotWaiting
  BY <1>1, NotWaitingLeft
<1>3. QED BY <1>1, <1>2, SelectAssumption

\* A clock stops at LongPress.
LEMMA LaterClock ==
    ASSUME NEW t \in 0..LongPress
    PROVE  /\ Later(t) \in 0..LongPress /\ Later(t) <= t + 1 /\ t <= Later(t)
           /\ t = LongPress => Later(t) = LongPress
BY SelectAssumption DEF Later

LEMMA SelectInitInv == SelectInit => SelectInv
<1> SUFFICES ASSUME SelectInit PROVE SelectInv
  OBVIOUS
<1>1. {pressTime, age, span} \subseteq 0..LongPress /\ unpolled \in 0..MaxGap
  BY SelectAssumption DEF SelectInit
<1>2. SelectTypeOK
  BY <1>1 DEF SelectInit, SelectTypeOK
<1>3. Timed /\ Edges /\ TapKeepsSettings
  BY DEF SelectInit, Timed, Edges, TapKeepsSettings, Waiting
<1>4. QED BY <1>2, <1>3 DEF SelectInv

LEMMA SelectStepInv == SelectInv /\ [SelectNext]_selectVars => SelectInv'
<1> SUFFICES ASSUME SelectInv, [SelectNext]_selectVars PROVE SelectInv'
  OBVIOUS
<1>0. /\ LongPress \in Nat \ {0} /\ Steady \in Nat \ {0} /\ MaxGap \in Nat
      /\ SelectTypeOK
  BY SelectAssumption DEF SelectInv
<1> USE DEF clocks
<1>1. CASE ButtonMoves
  <2>1. SelectTypeOK'
    BY <1>0, <1>1 DEF ButtonMoves, SelectTypeOK
  <2>2. Timed'
    BY <1>0, <1>1 DEF ButtonMoves, SelectInv, SelectTypeOK, Timed, Waiting, NotWaiting
  <2>3. Edges' /\ TapKeepsSettings'
    BY <1>0, <1>1 DEF ButtonMoves, SelectInv, Edges, TapKeepsSettings, Waiting
  <2>4. QED BY <2>1, <2>2, <2>3 DEF SelectInv
<1>2. CASE Elsewhere
  <2>1. SelectTypeOK'
    BY <1>0, <1>2, LaterClock DEF Elsewhere, TimePasses, SelectTypeOK
  <2>2. Timed'
    BY <1>0, <1>2, LaterClock DEF Elsewhere, TimePasses, SelectInv, SelectTypeOK, Timed, Waiting
  <2>3. Edges' /\ TapKeepsSettings'
    BY <1>0, <1>2 DEF Elsewhere, TimePasses, SelectInv, Edges, TapKeepsSettings, Waiting
  <2>4. QED BY <2>1, <2>2, <2>3 DEF SelectInv
<1>3. CASE CheckPushReset
  <2>1. SelectTypeOK'
    BY <1>0, <1>3 DEF CheckPushReset, SelectTypeOK
  <2>2. Timed'
    <3>1. UNCHANGED <<pushed, pressLatched, pressTime, age, span>> /\ ~Waiting
      BY <1>3 DEF CheckPushReset, Waiting
    <3>2. CASE pushed # pressLatched
      <4>1. /\ Waiting' /\ steady'.expected = pushed /\ steady'.left = Steady
            /\ longSeen' = longSeen
        BY <1>0, <1>3, <3>2, BeginsWaiting DEF CheckPushReset, Waiting, SelectTypeOK
      <4>2. /\ {age, span, unpolled} \subseteq Int /\ unpolled <= MaxGap
            /\ pushed \in BOOLEAN /\ pressLatched \in BOOLEAN
        BY <1>0 DEF SelectTypeOK
      <4>3. Timed
        BY DEF SelectInv
      <4>4. CASE pressLatched
        <5>1. ~pushed /\ ~steady'.expected /\ pressLatched'
          BY <3>1, <3>2, <4>1, <4>2, <4>4
        <5>2. pressTime = age /\ span <= age /\ (longSeen => age = LongPress)
              /\ age - span <= unpolled
          BY <3>1, <4>3, <4>4, <5>1 DEF Timed
        <5>3. age - span <= MaxGap + Steady - steady'.left
          BY <1>0, <4>1, <4>2, <5>2
        <5>4. QED BY <3>1, <4>1, <5>1, <5>2, <5>3 DEF Timed
      <4>5. CASE ~pressLatched
        BY <3>1, <4>5 DEF Timed
      <4>6. QED BY <4>4, <4>5
    <3>3. CASE pushed = pressLatched
      <4>1. ~Waiting' /\ (longSeen' => longSeen \/ pressTime = LongPress)
        BY <1>3, <3>1, <3>3 DEF CheckPushReset, Waiting
      <4>2. QED BY <3>1, <3>3, <4>1 DEF SelectInv, Timed
    <3>4. QED BY <3>2, <3>3
  <2>3. Edges' /\ TapKeepsSettings'
    BY <1>0, <1>3
       DEF CheckPushReset, SelectInv, SelectTypeOK, Edges, TapKeepsSettings, Waiting, NotWaiting
  <2>4. QED BY <2>1, <2>2, <2>3 DEF SelectInv
<1>4. CASE DetectStableState
  <2>1. SelectTypeOK'
    BY <1>0, <1>4, LaterClock DEF DetectStableState, TimePasses, SelectTypeOK, NotWaiting
  <2>2. Waiting
    BY <1>4 DEF DetectStableState, Waiting, NotWaiting
  <2>3. CASE pushed = steady.expected
    <3>1. /\ steady' = [steady EXCEPT !.left = @ - 1] /\ steady'.left = steady.left - 1
          /\ steady'.expected = steady.expected
      BY <1>0, <1>4, <2>2, <2>3 DEF DetectStableState, SelectTypeOK, Waiting
    <3>2. Waiting'
      BY <1>4, <3>1 DEF DetectStableState, Waiting, NotWaiting, SelectInv, SelectTypeOK
    <3>3. Timed'
      <4>1. /\ pressTime' = Later(pressTime) /\ age' = Later(age)
            /\ UNCHANGED <<span, pushed, pressLatched, longSeen, unpolled>>
        BY <1>4, <2>3 DEF DetectStableState, TimePasses
      <4>2. /\ {pressTime, age, span} \subseteq 0..LongPress /\ steady.left \in Int
            /\ steady'.left \in Int
        BY <1>0, <2>2, <3>1 DEF SelectTypeOK, Waiting
      <4>3. Timed
        BY DEF SelectInv
      <4>4. QED
        BY <1>0, <2>2, <3>1, <3>2, <4>1, <4>2, <4>3, LaterClock DEF Timed
    <3>4. Edges' /\ TapKeepsSettings'
      BY <1>4, <2>2, <2>3, <3>1, <3>2
         DEF DetectStableState, TimePasses, SelectInv, Edges, TapKeepsSettings
    <3>5. QED BY <2>1, <3>3, <3>4 DEF SelectInv
  <2>4. CASE pushed # steady.expected
    <3>1. ~Waiting' /\ UNCHANGED <<pushed, pressLatched, pressTime, age, span, longSeen, called>>
      BY <1>4, <2>4 DEF DetectStableState, Waiting
    <3>2. pressLatched => pushed
      BY <1>0, <2>2, <2>4 DEF SelectInv, Edges, SelectTypeOK
    <3>3. QED BY <2>1, <2>2, <3>1, <3>2 DEF SelectInv, Timed, Edges, TapKeepsSettings
  <2>5. QED BY <2>3, <2>4
<1>5. CASE Pressed
  <2>1. SelectTypeOK'
    <3>1. {pressTime', age', span'} \subseteq 0..LongPress
      BY <1>0, <1>5 DEF Pressed
    <3>2. QED BY <1>0, <1>5, <3>1 DEF Pressed, SelectTypeOK
  <2>2. QED
    BY <1>0, <1>5, <2>1, NotWaitingLeft
       DEF Pressed, SelectInv, SelectTypeOK, Timed, Edges, TapKeepsSettings, Waiting
<1>6. CASE Released
  <2>1. SelectTypeOK'
    BY <1>0, <1>6 DEF Released, SelectTypeOK, NotWaiting
  <2>2. Waiting /\ pressLatched
    BY <1>0, <1>6, NotWaitingLeft DEF Released, SelectInv, SelectTypeOK, Edges, Waiting
  <2>3. pressTime = age /\ span <= age /\ age - span <= MaxGap + Steady
    BY <1>0, <1>6, <2>2 DEF Released, SelectInv, Timed
  <2>4. TapKeepsSettings'
    BY <1>0, <1>6, <2>2, <2>3 DEF Released, SelectInv, SelectTypeOK, Timed, TapKeepsSettings
  <2>5. Timed' /\ Edges'
    BY <1>6 DEF Released, Timed, Edges, Waiting
  <2>6. QED BY <2>1, <2>4, <2>5 DEF SelectInv
<1>7. CASE UNCHANGED selectVars
  BY <1>7 DEF selectVars, SelectInv, SelectTypeOK, Timed, Edges, TapKeepsSettings, Waiting
<1>8. QED
  BY <1>1, <1>2, <1>3, <1>4, <1>5, <1>6, <1>7 DEF SelectNext

(* Every variable keeps its type.                                          *)
THEOREM SelectTypeCorrect == SelectSpec => []SelectTypeOK
<1>1. SelectInv => SelectTypeOK
  BY DEF SelectInv
<1>2. QED BY <1>1, SelectInitInv, SelectStepInv, PTL DEF SelectSpec

(* For every debouncing and every rate of polling: the settings are erased *)
(* only after a press that was long, but for what the polls may miss, and  *)
(* never kept after one that was.                                          *)
THEOREM TapsKeepSettings == SelectSpec => []TapKeepsSettings
<1>1. SelectInv => TapKeepsSettings
  BY DEF SelectInv
<1>2. QED BY <1>1, SelectInitInv, SelectStepInv, PTL DEF SelectSpec

----------------------------------------------------------------------------
(* The settings.                                                           *)

\* Within settings_save the copy is what is in use, and a page is left to
\* program.
Saving ==
    /\ power \in {"erase", "program"} => padded = entries
    /\ power = "program" => page * PerPage <= LastEntry

\* The pages that a save has programmed, and erased flash behind them.
HalfDone ==
    power = "program" =>
        \A i \in Setting : flash[i] = IF i \div PerPage < page THEN padded[i] ELSE Blank

SettingsInv == SettingsTypeOK /\ Saving /\ HalfDone /\ SettingsSurvive

\* What the assumption says of the constants.
LEMMA SettingsConstants ==
    /\ LastEntry \in Nat /\ PerPage \in Nat \ {0} /\ Default \in Values /\ Blank \notin Values
    /\ Setting = 0..LastEntry
BY SettingsAssumption DEF Blank, Setting

\* The pages of the entries.
LEMMA PageOf ==
    ASSUME NEW i \in Nat, NEW k \in Nat, NEW p \in Nat \ {0}
    PROVE  /\ i \div p \in Nat
           /\ i \div p < k <=> i < k * p
           /\ i \div p <= k <=> i < (k + 1) * p
<1> DEFINE q == i \div p
           r == i % p
<1>1. q \in Int /\ i = p * q + r /\ r \in 0..(p - 1)
  BY Z3
<1> HIDE DEF q, r
<1>2. q >= 0
  BY <1>1, Z3
<1>3. ASSUME NEW n \in Nat PROVE q < n <=> i < n * p
  <2>1. CASE q < n
    <3>1. p * q + p <= n * p
      BY <1>1, <1>2, <2>1, Z3
    <3>2. QED BY <1>1, <2>1, <3>1
  <2>2. CASE q >= n
    <3>1. n * p <= p * q
      BY <1>1, <1>2, <2>2, Z3
    <3>2. QED BY <1>1, <2>2, <3>1, Z3
  <2>3. QED BY <1>1, <2>1, <2>2
<1>4. q < k + 1 <=> i < (k + 1) * p
  BY <1>3
<1>5. q < k <=> i < k * p
  BY <1>3
<1>6. QED BY <1>1, <1>2, <1>4, <1>5 DEF q

\* What a boot loads is an image, of valid settings only.
LEMMA LoadedIsImage ==
    ASSUME NEW f \in [Setting -> Values \cup {Blank}]
    PROVE  Loaded(f) \in Images
BY SettingsConstants DEF Loaded, Images, Blank

\* It is the flash itself if that holds an image, and the defaults if it is
\* erased.
LEMMA LoadedWhole ==
    ASSUME NEW f \in Images
    PROVE  Loaded(f) = f
BY SettingsConstants DEF Loaded, Images, Blank

\* A store with nothing in it loads the defaults.
LEMMA LoadedBlank == Loaded(Nowhere) = Defaults
<1>1. \A i \in Setting : i \in 0..i /\ Nowhere[i] = Blank
  BY SettingsConstants DEF Nowhere
<1>2. QED BY <1>1 DEF Loaded, Defaults

\* It is the programmed part of an image, if that is all there is.
LEMMA LoadedPart ==
    ASSUME NEW f \in [Setting -> Values \cup {Blank}], NEW image \in Images, NEW n \in Nat,
           \A i \in Setting : f[i] = IF i < n THEN image[i] ELSE Blank
    PROVE  Loaded(f) = FirstOf(image, n)
<1> SUFFICES ASSUME NEW i \in Setting
             PROVE  Loaded(f)[i] = FirstOf(image, n)[i]
  BY DEF Loaded, FirstOf
<1>1. i \in Nat /\ 0..i \subseteq Setting
  BY SettingsConstants
<1>2. CASE i < n
  <2>1. \A j \in 0..i : j < n /\ j \in Setting
    BY <1>1, <1>2
  <2>2. \A j \in 0..i : f[j] # Blank
    BY <2>1, SettingsConstants DEF Images
  <2>3. QED BY <1>2, <2>2 DEF Loaded, FirstOf
<1>3. CASE ~(i < n)
  <2>1. i \in 0..i /\ f[i] = Blank
    BY <1>1, <1>3
  <2>2. QED BY <1>3, <2>1 DEF Loaded, FirstOf
<1>4. QED BY <1>2, <1>3

\* Flash that was never written has the defaults in use.
LEMMA SettingsInitInv == SettingsInit => SettingsInv
<1> SUFFICES ASSUME SettingsInit PROVE SettingsInv
  OBVIOUS
<1>1. Defaults \in Images /\ Nowhere \in [Setting -> Values \cup {Blank}]
  BY SettingsConstants DEF Defaults, Images, Nowhere
<1>2. SettingsTypeOK
  BY <1>1 DEF SettingsInit, SettingsTypeOK
<1>3. Saving /\ HalfDone
  BY DEF SettingsInit, Saving, HalfDone
<1>4. SettingsSurvive
  BY LoadedBlank DEF SettingsInit, SettingsSurvive
<1>5. QED BY <1>2, <1>3, <1>4 DEF SettingsInv

\* One case for each step of a save, and for the loss of power within it.
LEMMA SettingsStepInv == SettingsInv /\ [SettingsNext]_settingsVars => SettingsInv'
<1> SUFFICES ASSUME SettingsInv, [SettingsNext]_settingsVars PROVE SettingsInv'
  OBVIOUS
<1>0. /\ SettingsTypeOK /\ Saving /\ HalfDone /\ SettingsSurvive
      /\ LastEntry \in Nat /\ PerPage \in Nat \ {0}
  BY SettingsConstants DEF SettingsInv
<1>1. CASE LoadAtBoot
  <2>1. Loaded(flash) \in Images
    BY <1>0, LoadedIsImage DEF SettingsTypeOK
  <2>2. SettingsTypeOK'
    BY <1>0, <1>1, <2>1 DEF LoadAtBoot, SaveBegins, SettingsTypeOK
  <2>3. Saving' /\ HalfDone'
    BY <1>1 DEF LoadAtBoot, SaveBegins, Saving, HalfDone
  <2>4. SettingsSurvive'
    BY <1>0, <1>1 DEF LoadAtBoot, SaveBegins, SettingsSurvive, Loaded, Setting
  <2>5. QED BY <2>2, <2>3, <2>4 DEF SettingsInv
<1>2. CASE \E i \in Setting, v \in Values : Change(i, v)
  <2> PICK i \in Setting, v \in Values : Change(i, v)
    BY <1>2
  <2>1. entries' \in Images
    BY <1>0 DEF Change, SettingsTypeOK, Images
  <2>2. SettingsTypeOK'
    BY <1>0, <2>1 DEF Change, SaveBegins, SettingsTypeOK
  <2>3. Saving' /\ HalfDone' /\ SettingsSurvive'
    BY <1>0 DEF Change, SaveBegins, Saving, HalfDone, SettingsSurvive, Loaded, Setting
  <2>4. QED BY <2>2, <2>3 DEF SettingsInv
<1>3. CASE Erase
  <2>1. Nowhere \in [Setting -> Values \cup {Blank}]
    BY DEF Nowhere
  <2>2. SettingsTypeOK'
    BY <1>0, <1>3, <2>1 DEF Erase, SettingsTypeOK
  <2>3. Saving'
    BY <1>0, <1>3 DEF Erase, Saving
  <2>4. \A i \in Setting : i \div PerPage \in Nat
    BY <1>0, PageOf DEF Setting
  <2>5. HalfDone'
    BY <1>3, <2>4 DEF Erase, HalfDone, Nowhere
  <2>6. SettingsSurvive'
    BY <1>3 DEF Erase, SettingsSurvive
  <2>7. QED BY <2>2, <2>3, <2>5, <2>6 DEF SettingsInv
<1>4. CASE ProgramPage
  <2>1. page \in Nat /\ power = "program" /\ padded \in Images /\ padded = entries
    BY <1>0, <1>4 DEF ProgramPage, SettingsTypeOK, Saving
  <2>2. \A i \in Setting : i \div PerPage \in Nat
    BY <1>0, PageOf DEF Setting
  <2>3. \A i \in Setting : flash'[i] = IF i \div PerPage < page + 1 THEN padded[i] ELSE Blank
    BY <1>0, <1>4, <2>1, <2>2 DEF ProgramPage, HalfDone
  <2>4. flash' \in [Setting -> Values \cup {Blank}]
    BY <1>0, <1>4, <2>1 DEF ProgramPage, SettingsTypeOK, Images
  <2>5. SettingsTypeOK'
    <3>1. page' = page + 1 /\ page' \in Nat
      BY <1>4, <2>1 DEF ProgramPage
    <3>2. /\ power' \in {"program", "on"}
          /\ settingsSaveFailed' \in BOOLEAN /\ cut' \in BOOLEAN
      BY <1>0, <1>4, <2>1 DEF ProgramPage, SettingsTypeOK
    <3>3. entries' \in Images /\ padded' \in Images /\ stored' \in Images /\ torn' \in Images
      BY <1>0, <1>4 DEF ProgramPage, SettingsTypeOK
    <3>4. QED BY <2>4, <3>1, <3>2, <3>3 DEF SettingsTypeOK
  <2>6. CASE (page + 1) * PerPage <= LastEntry /\ UNCHANGED power
    BY <1>4, <2>1, <2>3, <2>5, <2>6
       DEF ProgramPage, Saving, HalfDone, SettingsSurvive, SettingsInv
  <2>7. CASE /\ (page + 1) * PerPage > LastEntry
             /\ power' = "on" /\ stored' = padded /\ cut' = FALSE
    <3>1. \A i \in Setting : i \div PerPage < page + 1
      <4>1. page + 1 \in Nat /\ (page + 1) * PerPage \in Nat
        BY <1>0, <2>1
      <4>2. \A i \in Setting : i < (page + 1) * PerPage
        BY <1>0, <2>7, <4>1 DEF Setting
      <4>3. QED BY <1>0, <4>1, <4>2, PageOf, SMTT(30) DEF Setting
    <3>2. flash' = padded
      BY <2>1, <2>3, <2>4, <3>1 DEF Images
    <3>3. Loaded(flash)' = padded
      BY <2>1, <3>2, LoadedWhole DEF Loaded, Setting
    <3>4. SettingsSurvive'
      BY <1>4, <2>1, <2>7, <3>3 DEF ProgramPage, SettingsSurvive
    <3>5. QED BY <2>5, <2>7, <3>4 DEF Saving, HalfDone, SettingsInv
  <2>8. QED BY <1>4, <2>6, <2>7 DEF ProgramPage
<1>5. CASE PowerOff
  <2>1. SettingsTypeOK' /\ Saving' /\ HalfDone'
    BY <1>0, <1>5 DEF PowerOff, SettingsTypeOK, Saving, HalfDone
  <2>2. Loaded(flash)' = Loaded(flash)
    BY <1>5 DEF PowerOff, Loaded, Setting
  <2>3. CASE power # "program"
    <3>1. UNCHANGED <<cut, torn, stored>> /\ power' = "off"
      BY <1>5, <2>3 DEF PowerOff
    <3>2. \A n : FirstOf(torn, n)' = FirstOf(torn, n)
      BY <3>1 DEF FirstOf, Setting
    <3>3. SettingsSurvive'
      BY <1>0, <2>2, <2>3, <3>1, <3>2 DEF SettingsSurvive
    <3>4. QED BY <2>1, <3>3 DEF SettingsInv
  <2>4. CASE power = "program"
    <3> DEFINE n == page * PerPage
    <3>1. /\ page \in Nat /\ padded \in Images /\ flash \in [Setting -> Values \cup {Blank}]
          /\ n \in Nat /\ n \in 0..(LastEntry + 1)
      BY <1>0, <2>4 DEF SettingsTypeOK, Saving
    <3>2. \A i \in Setting : i \div PerPage < page <=> i < n
      BY <1>0, <3>1, PageOf DEF Setting
    <3>3. \A i \in Setting : flash[i] = IF i < n THEN padded[i] ELSE Blank
      BY <1>0, <2>4, <3>2 DEF HalfDone
    <3> HIDE DEF n
    <3>4. Loaded(flash) = FirstOf(padded, n)
      BY <3>1, <3>3, LoadedPart
    <3>5. cut' = TRUE /\ torn' = padded /\ power' = "off"
      BY <1>5, <2>4 DEF PowerOff
    <3>6. Loaded(flash)' = FirstOf(torn', n)
      BY <2>2, <3>4, <3>5
    <3>7. SettingsSurvive'
      BY <3>1, <3>5, <3>6 DEF SettingsSurvive, FirstOf
    <3>8. QED BY <2>1, <3>7 DEF SettingsInv
  <2>5. QED BY <2>1, <2>3, <2>4 DEF SettingsInv
<1>6. CASE UNCHANGED settingsVars
  BY <1>0, <1>6, ZenonT(30) DEF settingsVars, SettingsTypeOK, Saving, HalfDone, SettingsSurvive,
                    SettingsInv, Loaded, FirstOf, Setting
<1>7. QED
  BY <1>1, <1>2, <1>3, <1>4, <1>5, <1>6 DEF SettingsNext

(* Every variable keeps its type.                                          *)
THEOREM SettingsTypeCorrect == SettingsSpec => []SettingsTypeOK
<1>1. SettingsInv => SettingsTypeOK
  BY DEF SettingsInv
<1>2. QED BY <1>1, SettingsInitInv, SettingsStepInv, PTL DEF SettingsSpec

(* For any number of entries and any size of a page: the next boot loads   *)
(* what was saved last, or the first entries of a save that was cut, and   *)
(* settings in use that no failure is shown for are the ones it loads.     *)
THEOREM SettingsSurviveHolds == SettingsSpec => []SettingsSurvive
<1>1. SettingsInv => SettingsSurvive
  BY DEF SettingsInv
<1>2. QED BY <1>1, SettingsInitInv, SettingsStepInv, PTL DEF SettingsSpec

----------------------------------------------------------------------------
(* The setup menu.                                                         *)

Kinds == {"letter", Digit, "other"}

Settings == {"folder", "drive", "reloc"}

Pickers ==
    [open : {TRUE}, path : UNION Cards, entries : Seq(UNION Cards), selected : Nat, page : Nat]

\* The picker has read its entries from a folder of a card.
PickerOK ==
    /\ folders \in Cards \cup {NoCard}
    /\ picker = NoPicker \/ picker \in Pickers

\* While a dialogue has the keys, the screen shows what a pressed acts on: the
\* picker's page, or the prompt with all that was typed behind it.
InDialogue ==
    /\ typed \in Seq(Kinds) /\ DOMAIN config = Settings
    /\ level = "reentry" => lastKey = "o" /\ picker.open /\ display = Page(picker)
    /\ level = "data" => lastKey \in DOMAIN Asked /\ display = PromptFor(lastKey, typed)

\* The settings that a dialogue asks for.
LEMMA AskedIs == DOMAIN Asked = {"d", "r"} /\ Asked["d"] = "drive" /\ Asked["r"] = "reloc"
BY DEF Asked

\* What a key is to a dialogue.
LEMMA CharKindIs == \A pressed : CharKind(pressed) \in Kinds
BY DEF CharKind, Kinds

\* An element of a sequence.
LEMMA ElementOf == ASSUME NEW S, NEW x \in Seq(S), NEW i \in 1..Len(x) PROVE x[i] \in S
OBVIOUS

\* A sequence without its last element.
LEMMA FrontIs ==
    ASSUME NEW S, NEW s \in Seq(S), s # <<>>
    PROVE  Front(s) \in Seq(S) /\ Len(Front(s)) = Len(s) - 1
<1>1. Len(s) \in Nat /\ Len(s) >= 1 /\ Len(s) - 1 \in 0..Len(s)
  BY EmptySeq
<1>2. SubSeq(s, 1, Len(s) - 1) \in Seq(S) /\ Len(SubSeq(s, 1, Len(s) - 1)) = Len(s) - 1
  <2>1. \A i \in 1..(Len(s) - 1) : s[i] \in S
    BY <1>1, ElementOf
  <2> DEFINE n == Len(s) - 1
  <2>2. n \in Nat /\ n - 1 + 1 = n /\ (~(1 <= n) => n = 0)
    <3>1. n \in Nat
      BY <1>1
    <3> HIDE DEF n
    <3>2. QED BY <3>1
  <2> HIDE DEF n
  <2>3. SubSeq(s, 1, n) \in Seq(S) /\ Len(SubSeq(s, 1, n)) = IF 1 <= n THEN n - 1 + 1 ELSE 0
    BY <2>1, <2>2, SubSeqProperties DEF n
  <2>4. QED BY <2>2, <2>3 DEF n
<1>3. QED BY <1>2 DEF Front

\* Nothing is shown before the menu is painted.
LEMMA DialogueInit == MenuInit => InDialogue
BY DEF MenuInit, InDialogue, Settings

\* A page shows the picker it was made of.
LEMMA PageIs ==
    \A p : /\ Page(p).kind = "picker" /\ Page(p).path = p.path
BY DEF Page

\* A prompt shows the text it was made of.
LEMMA PromptIs ==
    \A k, text : /\ PromptFor(k, text).kind = "prompt"
                 /\ PromptFor(k, text).of = k /\ PromptFor(k, text).text = text
                 /\ \A new : [PromptFor(k, text) EXCEPT !.text = new] = PromptFor(k, new)
BY DEF PromptFor

\* A directory that was read is shown, or the menu comes back.
LEMMA LoadShows ==
    ASSUME NEW path, Load(path)
    PROVE  \/ level' = "reentry" /\ picker'.open /\ display' = Page(picker')
           \/ level' = "single"
BY DEF Load, PickerAt, PaintMenu

\* The picker that a key leaves is the one on the screen.
LEMMA RedrawShows ==
    ASSUME NEW p, p.open, Redraw(p), level = "reentry"
    PROVE  picker'.open /\ display' = Page(picker') /\ level' = level
BY DEF Redraw

\* One case for each key at each level of the menu.
LEMMA DialogueStep == PickerOK /\ InDialogue /\ [MenuNext]_menuVars => InDialogue'
<1> SUFFICES ASSUME PickerOK, InDialogue, [MenuNext]_menuVars PROVE InDialogue'
  OBVIOUS
<1>1. CASE Backspace /\ TakeKey
  <2>1. typed' = (IF typed = <<>> THEN typed ELSE Front(typed))
        /\ display' = (IF display.kind = "prompt" /\ typed # <<>>
                       THEN [display EXCEPT !.text = Front(@)] ELSE display)
        /\ UNCHANGED <<level, lastKey, picker, config>>
    BY <1>1 DEF Backspace
  <2>2. typed' \in Seq(Kinds)
    BY <2>1, FrontIs DEF InDialogue
  <2>3. CASE level = "reentry"
    BY <2>1, <2>2, <2>3, PageIs DEF InDialogue
  <2>4. CASE level = "data"
    <3>1. display = PromptFor(lastKey, typed)
      BY <2>4 DEF InDialogue
    <3>2. display' = PromptFor(lastKey, typed')
      BY <2>1, <3>1, PromptIs
    <3>3. QED BY <2>1, <2>2, <2>4, <3>2 DEF InDialogue
  <2>5. CASE level \notin {"reentry", "data"}
    BY <2>1, <2>2, <2>5 DEF InDialogue
  <2>6. QED BY <2>3, <2>4, <2>5
<1>2. CASE SingleKey /\ TakeKey
  <2>1. level = "single" /\ typed' = <<>>
    BY <1>2 DEF SingleKey
  <2>2. CASE slot \in Letters
    <3>1. lastKey' = slot /\ MenuCommand(slot)
      BY <1>2, <2>2 DEF SingleKey
    <3>2. CASE slot = "o" /\ OpenPicker
      BY <2>1, <3>1, <3>2, LoadShows DEF OpenPicker, InDialogue
    <3>3. CASE slot \in DOMAIN Asked /\ OpenPrompt(slot)
      BY <2>1, <3>1, <3>3 DEF OpenPrompt, InDialogue
    <3>4. CASE ToggleHook \/ LaunchST \/ LeaveToBooster
      BY <2>1, <3>4 DEF ToggleHook, LaunchST, LeaveToBooster, PaintMenu, InDialogue
    <3>5. QED BY <3>1, <3>2, <3>3, <3>4 DEF MenuCommand
  <2>3. CASE slot \notin Letters
    BY <1>2, <2>1, <2>3 DEF SingleKey, Showing, InDialogue
  <2>4. QED BY <2>2, <2>3
<1>3. CASE Reentry /\ TakeKey
  <2>1. /\ level = "reentry" /\ typed' = <<>> /\ PickerKey(slot) /\ lastKey' = lastKey
        /\ lastKey = "o" /\ picker.open /\ display = Page(picker)
    BY <1>3 DEF Reentry, InDialogue
  <2>2. picker \in Pickers
    BY <2>1 DEF PickerOK, NoPicker
  <2>3. \A pressed : Stepped(picker, pressed).open /\ Turned(picker, pressed).open
    BY <2>2 DEF Stepped, Turned, Pickers
  <2>4. CASE Redraw(picker) \/ Redraw(Stepped(picker, slot)) \/ Redraw(Turned(picker, slot))
    <3>1. UNCHANGED config
      BY <2>4 DEF Redraw
    <3>2. QED BY <2>1, <2>3, <2>4, <3>1, RedrawShows DEF InDialogue
  <2>5. CASE \E path : Load(path) /\ UNCHANGED config
    BY <2>1, <2>5, LoadShows DEF InDialogue
  <2>6. CASE Store("folder", picker.path)
    BY <2>1, <2>6 DEF Store, PaintMenu, InDialogue
  <2>7. CASE UNCHANGED <<level, picker, display, menuActive, config>>
    BY <2>1, <2>7 DEF InDialogue
  <2>8. QED
    BY <2>1, <2>4, <2>5, <2>6, <2>7 DEF PickerKey
<1>4. CASE DataInput /\ TakeKey
  <2>1. /\ level = "data" /\ lastKey' = lastKey /\ typed \in Seq(Kinds)
        /\ lastKey \in DOMAIN Asked /\ display = PromptFor(lastKey, typed)
    BY <1>4 DEF DataInput, InDialogue
  <2>2. CASE slot = "return"
    BY <1>4, <2>1, <2>2 DEF DataInput, ClosePrompt, Store, PaintMenu, InDialogue
  <2>3. CASE slot # "return" /\ Len(typed) < MaxTyped
    <3>1. /\ typed' = Append(typed, CharKind(slot)) /\ level' = level
          /\ UNCHANGED config
          /\ display' = [display EXCEPT !.text = Append(@, CharKind(slot))]
      BY <1>4, <2>3 DEF DataInput
    <3>2. display' = PromptFor(lastKey, typed')
      <4>1. display' = [PromptFor(lastKey, typed) EXCEPT !.text = typed']
        BY <2>1, <3>1, PromptIs
      <4>2. QED BY <4>1, PromptIs
    <3>3. typed' \in Seq(Kinds)
      BY <2>1, <3>1, CharKindIs
    <3>4. QED BY <2>1, <3>1, <3>2, <3>3 DEF InDialogue
  <2>4. CASE slot # "return" /\ Len(typed) = MaxTyped
    BY <1>4, <2>1, <2>4 DEF DataInput, Showing, InDialogue
  <2>5. QED BY <1>4, <2>2, <2>3, <2>4 DEF DataInput
<1>5. CASE TerminalStart /\ TakeKey
  BY <1>5 DEF TerminalStart, InDialogue
<1>6. CASE CardChanges
  BY <1>6 DEF CardChanges, PaintMenu, InDialogue
<1>7. CASE \E pressed \in Keys \cup {"esc"} : Press(pressed)
  BY <1>7 DEF Press, InDialogue
<1>8. CASE UNCHANGED menuVars
  BY <1>8 DEF menuVars, InDialogue
<1>9. QED
  BY <1>1, <1>2, <1>3, <1>4, <1>5, <1>6, <1>7, <1>8 DEF MenuNext, TakeKey

\* What is stored by a command is one setting.
LEMMA StoreIs ==
    ASSUME DOMAIN config = Settings, NEW name, NEW value, Store(name, value)
    PROVE  \A other \in Settings \ {name} : config'[other] = config[other]
BY DEF Store

\* Only SPACE in the picker and RETURN at a prompt store anything.
LEMMA OnlyTwoStore ==
    ASSUME [MenuNext]_menuVars
    PROVE  \/ UNCHANGED config
           \/ level = "reentry" /\ Store("folder", picker.path)
           \/ level = "data" /\ Accepts(lastKey, typed)
                 /\ Store(Asked[lastKey], ValueOf(lastKey, typed))
<1>1. CASE TakeKey
  <2>1. CASE Backspace \/ TerminalStart
    BY <2>1 DEF Backspace, TerminalStart
  <2>2. CASE SingleKey
    BY <2>2 DEF SingleKey, Showing, MenuCommand, OpenPicker, OpenPrompt, ToggleHook,
                LaunchST, LeaveToBooster
  <2>3. CASE Reentry
    BY <2>3 DEF Reentry, PickerKey, Redraw
  <2>4. CASE DataInput
    BY <2>4 DEF DataInput, ClosePrompt, Showing
  <2>5. QED BY <1>1, <2>1, <2>2, <2>3, <2>4 DEF TakeKey
<1>2. CASE CardChanges \/ \E pressed \in Keys \cup {"esc"} : Press(pressed)
  BY <1>2 DEF CardChanges, Press
<1>3. CASE UNCHANGED menuVars
  BY <1>3 DEF menuVars
<1>4. QED BY <1>1, <1>2, <1>3 DEF MenuNext

\* The step as the property states it.
StoresShown ==
    /\ config'.folder # config.folder =>
          display.kind = "picker" /\ display.path = config'.folder
    /\ \A k \in DOMAIN Asked : config'[Asked[k]] # config[Asked[k]] =>
          /\ display.kind = "prompt" /\ display.of = k
          /\ Accepts(k, display.text) /\ ValueOf(k, display.text) = config'[Asked[k]]

\* One case for each key at each level of the menu.
LEMMA StepStoresShown == PickerOK /\ InDialogue /\ [MenuNext]_menuVars => StoresShown
<1> SUFFICES ASSUME PickerOK, InDialogue, [MenuNext]_menuVars PROVE StoresShown
  OBVIOUS
<1>0. DOMAIN config = Settings
  BY DEF InDialogue
<1>1. CASE UNCHANGED config
  BY <1>1 DEF StoresShown
<1>2. CASE level = "reentry" /\ Store("folder", picker.path)
  <2>1. display.kind = "picker" /\ display.path = picker.path
    BY <1>2, PageIs DEF InDialogue
  <2>2. config'["folder"] = picker.path
    BY <1>0, <1>2 DEF Store, Settings
  <2>3. config'["drive"] = config["drive"] /\ config'["reloc"] = config["reloc"]
    BY <1>0, <1>2, StoreIs DEF Settings
  <2>4. QED BY <2>1, <2>2, <2>3, AskedIs DEF StoresShown
<1>3. CASE /\ level = "data" /\ Accepts(lastKey, typed)
           /\ Store(Asked[lastKey], ValueOf(lastKey, typed))
  <2>1. lastKey \in {"d", "r"} /\ display = PromptFor(lastKey, typed)
    BY <1>3, AskedIs DEF InDialogue
  <2>2. display.kind = "prompt" /\ display.of = lastKey /\ display.text = typed
    BY <2>1, PromptIs
  <2>3. config'[Asked[lastKey]] = ValueOf(lastKey, typed)
    BY <1>0, <1>3, <2>1, AskedIs DEF Store, Settings
  <2>4. config'["folder"] = config["folder"]
    BY <1>0, <1>3, <2>1, StoreIs, AskedIs DEF Settings
  <2>5. \A k \in {"d", "r"} \ {lastKey} : config'[Asked[k]] = config[Asked[k]]
    BY <1>0, <1>3, <2>1, StoreIs, AskedIs DEF Settings
  <2>6. QED BY <1>3, <2>1, <2>2, <2>3, <2>4, <2>5, AskedIs DEF StoresShown
<1>4. QED BY <1>1, <1>2, <1>3, OnlyTwoStore

----------------------------------------------------------------------------
(* The picker.                                                             *)

\* The folders below a path, in some order.
LEMMA FoldersInOrder ==
    ASSUME NEW tree \in Cards, NEW path
    PROVE  SetToSeq(SubFolders(tree, path)) \in Seq(UNION Cards)
<1> DEFINE S == SubFolders(tree, path)
           n == Cardinality(S)
<1>1. S \subseteq tree /\ IsFiniteSet(tree)
  BY MenuAssumption DEF SubFolders
<1>2. IsFiniteSet(S)
  BY <1>1, FS_Subset
<1>3. n \in Nat /\ ExistsBijection(1..n, S)
  BY <1>2, FS_CardinalityType
<1>4. \E f \in [1..n -> S] : IsInjective(f)
  BY <1>3 DEF ExistsBijection, Bijection, Injection, IsInjective
<1>5. SetToSeq(S) \in [1..n -> S]
  BY <1>4 DEF SetToSeq
<1> HIDE DEF n, S
<1>6. \A i \in 1..n : SetToSeq(S)[i] \in UNION Cards
  BY <1>1, <1>5
<1>7. QED BY <1>3, <1>5, <1>6 DEF S

\* A folder that was read starts at its first entry.
LEMMA PickerAtIsPicker ==
    ASSUME PickerOK, Mounted, NEW path \in folders
    PROVE  /\ PickerAt(path) \in Pickers /\ PickerAt(path).selected = 0
<1>1. folders \in Cards /\ path \in UNION Cards
  BY DEF PickerOK, Mounted
<1>2. SetToSeq(SubFolders(folders, path)) \in Seq(UNION Cards)
  BY <1>1, FoldersInOrder
<1>3. <<path>> \in Seq(UNION Cards) /\ <<>> \in Seq(UNION Cards)
  BY <1>1
<1>4. EntriesOf(path) \in Seq(UNION Cards)
  BY <1>2, <1>3, ConcatProperties DEF EntriesOf
<1>5. QED BY <1>1, <1>4 DEF PickerAt, Pickers

\* Turning to a page that exists selects an entry that exists.
LEMMA PageStart ==
    ASSUME NEW n \in Nat, NEW lines \in Nat \ {0},
           NEW to \in 0..((n + lines - 1) \div lines - 1)
    PROVE  to * lines \in 0..(n - 1)
<1> DEFINE x == n + lines - 1
           q == x \div lines
           r == x % lines
<1>1. x \in Nat /\ q \in Int /\ x = lines * q + r /\ r \in 0..(lines - 1)
  BY Z3
<1> HIDE DEF q, r
<1>2. to \in Nat /\ to + 1 <= q
  BY <1>1 DEF q
<1>3. lines * (to + 1) <= lines * q /\ lines * (to + 1) = to * lines + lines
  BY <1>1, <1>2, Z3
<1>4. to * lines \in Nat
  BY <1>2
<1>5. QED BY <1>1, <1>3, <1>4

\* The arrows move the selection within the entries.
LEMMA KeysKeepSelection ==
    ASSUME NEW p \in Pickers, NEW pressed,
           p.selected < Len(p.entries) \/ (p.entries = <<>> /\ p.selected = 0)
    PROVE  /\ Stepped(p, pressed) \in Pickers /\ Turned(p, pressed) \in Pickers
           /\ \/ Stepped(p, pressed).selected < Len(Stepped(p, pressed).entries)
              \/ Stepped(p, pressed).entries = <<>> /\ Stepped(p, pressed).selected = 0
           /\ \/ Turned(p, pressed).selected < Len(Turned(p, pressed).entries)
              \/ Turned(p, pressed).entries = <<>> /\ Turned(p, pressed).selected = 0
<1>1. /\ p.selected \in Nat /\ p.page \in Nat /\ Len(p.entries) \in Nat
      /\ p.entries \in Seq(UNION Cards)
      /\ PageLines \in Nat \ {0}
  BY MenuAssumption DEF Pickers
<1>2. \A v \in Nat : [p EXCEPT !.selected = v] \in Pickers
                      /\ [p EXCEPT !.selected = v].selected = v
                      /\ [p EXCEPT !.selected = v].entries = p.entries
  BY DEF Pickers
<1>3. Stepped(p, pressed) \in Pickers
      /\ (\/ Stepped(p, pressed).selected < Len(Stepped(p, pressed).entries)
          \/ Stepped(p, pressed).entries = <<>> /\ Stepped(p, pressed).selected = 0)
  <2>1. CASE Stepped(p, pressed) = p
    BY <2>1
  <2>2. CASE p.selected > 0 /\ Stepped(p, pressed) = [p EXCEPT !.selected = p.selected - 1]
    <3>1. p.selected - 1 \in Nat /\ p.selected - 1 < Len(p.entries)
      BY <1>1, <2>2
    <3>2. QED BY <1>2, <2>2, <3>1
  <2>3. CASE /\ p.selected < Len(p.entries) - 1
             /\ Stepped(p, pressed) = [p EXCEPT !.selected = p.selected + 1]
    <3>1. p.selected + 1 \in Nat /\ p.selected + 1 < Len(p.entries)
      BY <1>1, <2>3
    <3>2. QED BY <1>2, <2>3, <3>1
  <2>4. QED BY <2>1, <2>2, <2>3 DEF Stepped
<1>4. Turned(p, pressed) \in Pickers
      /\ (\/ Turned(p, pressed).selected < Len(Turned(p, pressed).entries)
          \/ Turned(p, pressed).entries = <<>> /\ Turned(p, pressed).selected = 0)
  <2>1. CASE Turned(p, pressed) = p
    BY <2>1
  <2>2. CASE \E to \in 0..LastPage(p) :
                 Turned(p, pressed) = [p EXCEPT !.page = to, !.selected = to * PageLines]
    <3>1. PICK to \in 0..LastPage(p) :
                 Turned(p, pressed) = [p EXCEPT !.page = to, !.selected = to * PageLines]
      BY <2>2
    <3>2. to * PageLines \in 0..(Len(p.entries) - 1)
      BY <1>1, PageStart DEF LastPage
    <3> DEFINE s == to * PageLines
    <3>3. s \in Nat /\ s < Len(p.entries) /\ to \in Nat
      BY <1>1, <3>2
    <3> HIDE DEF s
    <3>4. Turned(p, pressed) = [p EXCEPT !.page = to, !.selected = s]
      BY <3>1 DEF s
    <3>5. Turned(p, pressed) \in Pickers /\ Turned(p, pressed).selected = s
          /\ Turned(p, pressed).entries = p.entries
      BY <3>3, <3>4 DEF Pickers
    <3>6. QED BY <3>3, <3>5
  <2>3. QED BY <2>1, <2>2 DEF Turned
<1>5. QED BY <1>3, <1>4

\* No picker is open at first.
LEMMA SelectionInit == MenuInit => PickerOK /\ SelectionExists
BY DEF MenuInit, PickerOK, SelectionExists, NoPicker

\* A folder that was read has a selection, or no picker is left.
LEMMA LoadSelects ==
    ASSUME PickerOK, NEW path, Load(path), UNCHANGED folders
    PROVE  PickerOK' /\ SelectionExists'
<1>1. CASE Mounted /\ path \in folders /\ picker' = PickerAt(path)
  <2>1. picker' \in Pickers /\ picker'.selected = 0
    BY <1>1, PickerAtIsPicker
  <2>2. Len(picker'.entries) \in Nat /\ (Len(picker'.entries) = 0 => picker'.entries = <<>>)
    BY <2>1, EmptySeq DEF Pickers
  <2>3. QED BY <2>1, <2>2 DEF PickerOK, SelectionExists
<1>2. CASE picker' = NoPicker
  BY <1>2 DEF PickerOK, SelectionExists, NoPicker
<1>3. QED BY <1>1, <1>2 DEF Load

\* One case for each key, and the card coming and going.
LEMMA SelectionStep ==
    PickerOK /\ SelectionExists /\ InDialogue /\ [MenuNext]_menuVars
        => PickerOK' /\ SelectionExists'
<1> SUFFICES ASSUME PickerOK, SelectionExists, InDialogue, [MenuNext]_menuVars
             PROVE  PickerOK' /\ SelectionExists'
  OBVIOUS
<1>1. CASE UNCHANGED <<picker, folders>>
  BY <1>1 DEF PickerOK, SelectionExists
<1>2. ASSUME NEW path, Load(path), UNCHANGED folders PROVE PickerOK' /\ SelectionExists'
  BY <1>2, LoadSelects
<1>3. CASE Reentry /\ UNCHANGED folders
  <2>1. picker.open /\ PickerKey(slot)
    BY <1>3 DEF Reentry, InDialogue
  <2>2. /\ picker \in Pickers
        /\ picker.selected < Len(picker.entries)
           \/ (picker.entries = <<>> /\ picker.selected = 0)
    <3>1. picker # NoPicker
      BY <2>1 DEF NoPicker
    <3>2. picker \in Pickers
      BY <3>1 DEF PickerOK
    <3>3. QED BY <2>1, <3>2, Zenon DEF SelectionExists
  <2>3. CASE picker' \in {Stepped(picker, slot), Turned(picker, slot)}
    BY <1>3, <2>2, <2>3, KeysKeepSelection DEF PickerOK, SelectionExists
  <2>4. CASE picker' = picker
    BY <1>1, <1>3, <2>4
  <2>5. CASE picker' = NoPicker
    BY <1>3, <2>5 DEF PickerOK, SelectionExists, NoPicker
  <2>6. QED BY <1>2, <1>3, <2>1, <2>3, <2>4, <2>5 DEF PickerKey, Redraw
<1>4. CASE SingleKey /\ UNCHANGED folders
  BY <1>1, <1>2, <1>4 DEF SingleKey, Showing, MenuCommand, OpenPicker, OpenPrompt,
                          ToggleHook, LaunchST, LeaveToBooster
<1>5. CASE (Backspace \/ DataInput \/ TerminalStart) /\ UNCHANGED folders
  BY <1>1, <1>5 DEF Backspace, DataInput, TerminalStart, ClosePrompt, Showing
<1>6. CASE CardChanges
  BY <1>6 DEF CardChanges, PickerOK, SelectionExists
<1>7. CASE \E pressed \in Keys \cup {"esc"} : Press(pressed)
  BY <1>1, <1>7 DEF Press
<1>8. CASE UNCHANGED menuVars
  BY <1>1, <1>8 DEF menuVars
<1>9. QED BY <1>3, <1>4, <1>5, <1>6, <1>7, <1>8 DEF MenuNext, TakeKey

MenuInv == PickerOK /\ SelectionExists /\ InDialogue

\* The invariant, of every state of the menu.
LEMMA MenuInvariant == MenuSpec => []MenuInv
<1>1. MenuInit => MenuInv
  BY SelectionInit, DialogueInit DEF MenuInv
<1>2. MenuInv /\ [MenuNext]_menuVars => MenuInv'
  BY SelectionStep, DialogueStep DEF MenuInv
<1>3. QED BY <1>1, <1>2, PTL DEF MenuSpec

(* For every card and any number of lines on a page: the entry that RETURN *)
(* opens exists, whatever keys came before and whenever the card came or   *)
(* went.                                                                   *)
THEOREM SelectionExistsHolds == MenuSpec => []SelectionExists
<1>1. MenuInv => SelectionExists
  BY DEF MenuInv
<1>2. QED BY <1>1, MenuInvariant, PTL

(* For every card, any length of a page and of the input buffer: no step   *)
(* stores a setting that the screen does not show, in whatever order keys, *)
(* ESC and the card come.                                                  *)
THEOREM SavesWhatIsShownHolds == MenuSpec => SavesWhatIsShown
<1>1. MenuInv /\ [MenuNext]_menuVars => [StoresShown]_menuVars
  BY StepStoresShown DEF MenuInv
<1>2. MenuSpec => [][StoresShown]_menuVars
  BY <1>1, MenuInvariant, PTL DEF MenuSpec
<1>3. QED BY <1>2 DEF SavesWhatIsShown, StoresShown

============================================================================
