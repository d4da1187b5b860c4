---- MODULE BootGuard ----
(***************************************************************************)
(* Crash counting across reboots (health.c), the launch gate and the boot  *)
(* countdown (emul.c).  The watchdog's scratch registers survive a reset;  *)
(* everything else starts anew in health_init.  One pass of the main loop  *)
(* is five steps, in the order of emul_start, and the firmware may crash,  *)
(* hang or be reset between any two of them.                               *)
(***************************************************************************)
EXTENDS Integers

CONSTANTS
    CrashLoopCount,     \* HEALTH_CRASH_LOOP_COUNT
    CrashLoopWindow,    \* HEALTH_CRASH_LOOP_WINDOW_S
    TopCount,           \* the largest value of the count's field, 15
    TopWindow,          \* the largest value of the window's field, 255
    BootCountdown       \* BOOT_COUNTDOWN_SECONDS

ASSUME BootAssumption ==
    /\ {CrashLoopCount, CrashLoopWindow, TopCount, TopWindow, BootCountdown}
         \subseteq Nat \ {0}
    /\ CrashLoopCount <= TopCount /\ CrashLoopWindow < TopWindow

VARIABLES
    phase,      \* off, connect, or the next step of the main loop
    scratch,    \* watchdog scratch[0], with whether it holds HEALTH_MAGIC
    mark,       \* watchdog scratch[1]: none, the stall mark, a crash's PC
    watchdog,   \* the last reset: power, the watchdog's timeout, a forced one
    stopped,    \* what ended the last run
    crashes,    \* crashCount
    base,       \* crashWindowBaseS
    uptime,     \* seconds since the boot, up to TopWindow
    card,       \* a working card is in the slot
    mounted,    \* sdcard_isMounted
    hello,      \* gemdriveHelloLanded
    key,        \* anyKeyPressedFlag
    gate        \* the static variables of emul.c

cells == <<scratch, mark, watchdog, stopped>>
counts == <<crashes, base, uptime>>
bootVars == <<phase, cells, counts, card, mounted, hello, key, gate>>

Steps == {"commands", "card", "health", "term", "count"}

\* launched is FALSE until a launch gets through, then by whom it was asked
FreshGate ==
    [halt |-> FALSE, countdown |-> BootCountdown, restart |-> FALSE,
     needsSd |-> FALSE, needsSt |-> FALSE, lastDrawn |-> FALSE,
     menu |-> FALSE, launched |-> "no"]

BootTypeOK ==
    /\ phase \in {"off", "connect"} \cup Steps
    /\ scratch \in [magic : BOOLEAN, reason : {"running", "reset", "crash"},
                    count : 0..TopCount, window : 0..TopWindow]
    /\ mark \in {"none", "stall", "pc"}
    /\ watchdog \in {"power", "timeout", "forced"}
    /\ stopped \in {"power", "crash", "hang", "masked", "select", "other"}
    /\ crashes \in 0..TopCount /\ base \in 0..TopWindow /\ uptime \in 0..TopWindow
    /\ card \in BOOLEAN /\ mounted \in BOOLEAN /\ hello \in BOOLEAN /\ key \in BOOLEAN
    /\ gate \in [halt : BOOLEAN, countdown : 0..BootCountdown, restart : BOOLEAN,
                 needsSd : BOOLEAN, needsSt : BOOLEAN, lastDrawn : BOOLEAN,
                 menu : BOOLEAN, launched : {"no", "user", "countdown"}]

NoCrumb == [magic |-> FALSE, reason |-> "running", count |-> 0, window |-> 0]

BootInit ==
    /\ phase = "off" /\ scratch = NoCrumb /\ mark = "none"
    /\ watchdog = "power" /\ stopped = "power"
    /\ crashes = 0 /\ base = 0 /\ uptime = 0
    /\ card \in BOOLEAN /\ mounted = FALSE /\ hello = FALSE /\ key = FALSE
    /\ gate = FreshGate

Min3(a, b) == IF a < b THEN a ELSE b

----------------------------------------------------------------------------
(* health_init.                                                            *)

\* the boot cause, and whether it is one of PANIC, HARDFAULT and HANG
Crashed ==
    /\ watchdog # "power" /\ scratch.magic
    /\ \/ scratch.reason = "crash"
       \/ scratch.reason = "running" /\ watchdog = "timeout" /\ mark = "stall"

\* Mutant: the count is not capped at what its field holds.
NextCrash_Uncapped ==
    IF ~Crashed THEN <<0, 0>>
    ELSE IF scratch.count >= CrashLoopCount
         THEN <<scratch.count + 1, 0>>
    ELSE IF scratch.count > 0 /\ scratch.window <= CrashLoopWindow
         THEN <<scratch.count + 1, scratch.window>>
    ELSE <<1, 0>>

\* crashCount and crashWindowBaseS of the new boot
NextCrash ==
    IF ~Crashed THEN <<0, 0>>
    ELSE IF scratch.count >= CrashLoopCount
         THEN <<Min3(scratch.count + 1, TopCount), 0>>
    ELSE IF scratch.count > 0 /\ scratch.window <= CrashLoopWindow
         THEN <<scratch.count + 1, scratch.window>>
    ELSE <<1, 0>>

\* health_init, and the card's mount further on
Boot ==
    /\ phase = "off"
    /\ phase' = "connect"
    /\ crashes' = NextCrash[1] /\ base' = NextCrash[2] /\ uptime' = 0
    /\ scratch' = [magic |-> TRUE, reason |-> "running",
                   count |-> NextCrash[1], window |-> NextCrash[2]]
    /\ mark' = "none"
    /\ mounted' = card
    /\ hello' = FALSE /\ key' = FALSE /\ gate' = FreshGate
    /\ UNCHANGED <<watchdog, stopped, card>>

IsCrashLoop == crashes >= CrashLoopCount

\* the Wi-Fi connect is over, in success or not, and the menu is drawn
Connected ==
    /\ phase = "connect"
    /\ phase' = "commands"
    /\ gate' = [gate EXCEPT !.menu = TRUE, !.halt = @ \/ IsCrashLoop]
    /\ UNCHANGED <<cells, counts, card, mounted, hello, key>>

\* nobody keeps the crash window during the connect, emul_pollTick does not
ConnectTakes ==
    /\ phase = "connect"
    /\ uptime' = Min3(uptime + 1, TopWindow)
    /\ UNCHANGED <<phase, cells, crashes, base, card, mounted, hello, key, gate>>

----------------------------------------------------------------------------
(* The end of a run.                                                       *)

Running == phase # "off"

Stop(how, reset) ==
    /\ Running /\ phase' = "off"
    /\ stopped' = how /\ watchdog' = reset
    /\ UNCHANGED <<counts, card, mounted, hello, key, gate>>

\* health_panicReport and health_hardfaultReport
Crash ==
    /\ Stop("crash", "forced")
    /\ scratch' = [scratch EXCEPT !.reason = "crash"] /\ mark' = "pc"

\* nobody feeds: health_stallCheck marks, then the watchdog's time is up
Hang ==
    /\ Stop("hang", "timeout")
    /\ mark' = "stall" /\ UNCHANGED scratch

\* with interrupts off nobody marks either; a debug probe looks the same
HangMasked ==
    /\ \/ Stop("masked", "timeout")
       \/ Stop("other", "timeout")
    /\ UNCHANGED <<scratch, mark>>

\* a call that takes longer than STALL_MARK_MS but returns in time, and the
\* next health_stallCheck
SlowCall ==
    /\ Running /\ mark # "pc"
    /\ mark' = IF mark = "none" THEN "stall" ELSE "none"
    /\ UNCHANGED <<phase, scratch, watchdog, stopped, counts, card, mounted, hello, key, gate>>

\* reset_device, by SELECT or the menu: health_markReset
SelectReset ==
    /\ Stop("select", "forced")
    /\ scratch' = [magic |-> TRUE, reason |-> "reset", count |-> 0, window |-> 0]
    /\ UNCHANGED mark

\* health_prepareJump: Booster runs, and its watchdog reboot comes back here
JumpToBooster ==
    /\ Stop("other", "forced")
    /\ scratch' = NoCrumb /\ UNCHANGED mark

PowerCycle ==
    /\ Running /\ phase' = "off"
    /\ stopped' = "power" /\ watchdog' = "power"
    /\ scratch' = NoCrumb /\ mark' = "none"
    /\ UNCHANGED <<counts, card, mounted, hello, key, gate>>

----------------------------------------------------------------------------
(* The main loop.                                                          *)

CardMoves ==
    /\ card' = ~card
    /\ UNCHANGED <<phase, cells, counts, mounted, hello, key, gate>>

\* the countdown starts over, and forgets the keys pressed while it stood still
Restarted(g) ==
    [g EXCEPT !.restart = FALSE, !.countdown = BootCountdown, !.halt = FALSE]

\* emul_onGemdriveHello and clearLaunchBlock, from chandler_loop
HelloLands ==
    /\ phase \in {"connect", "commands"}
    /\ hello' = TRUE
    /\ gate' = IF ~gate.needsSt THEN gate
               ELSE IF gate.restart THEN Restarted([gate EXCEPT !.needsSt = FALSE])
               ELSE [gate EXCEPT !.needsSt = FALSE]
    /\ key' = (key /\ ~(gate.needsSt /\ gate.restart))
    /\ UNCHANGED <<phase, cells, counts, card, mounted>>

\* chandler_loop and lwIP: a call that finds the card gone notes it
Commands ==
    /\ phase = "commands" /\ phase' = "card"
    /\ \/ UNCHANGED mounted
       \/ mounted /\ ~card /\ mounted' = FALSE
    /\ UNCHANGED <<cells, counts, card, hello, key, gate>>

\* sdcard_pollRemount, not due or done, then the card's state on the menu
PollCard ==
    /\ phase = "card" /\ phase' = "health"
    /\ mounted' \in {mounted, card}
    /\ LET lifted == mounted' # gate.lastDrawn /\ mounted' /\ gate.needsSd
           again == lifted /\ gate.restart
           drawn == [gate EXCEPT !.lastDrawn = mounted', !.needsSd = @ /\ ~lifted]
       IN /\ gate' = IF again THEN Restarted(drawn) ELSE drawn
          /\ key' = (key /\ ~again)
    /\ UNCHANGED <<cells, counts, card, hello>>

\* health_tick, in the same second or in the next
HealthTick ==
    /\ phase = "health" /\ phase' = "term"
    /\ \/ UNCHANGED <<uptime, scratch>>
       \/ /\ uptime' = Min3(uptime + 1, TopWindow)
          /\ scratch' = IF crashes = 0 THEN scratch
                        ELSE [scratch EXCEPT !.count = crashes,
                                             !.window = Min3(base + uptime', TopWindow)]
    /\ UNCHANGED <<mark, watchdog, stopped, crashes, base, card, mounted, hello, key, gate>>

\* Mutant: a refusal always restarts the countdown later.
Launch_AlwaysRestarts(who) ==
    IF ~mounted THEN [gate EXCEPT !.halt = TRUE, !.needsSd = TRUE, !.menu = TRUE,
                                  !.restart = TRUE]
    ELSE IF ~hello THEN [gate EXCEPT !.halt = TRUE, !.needsSt = TRUE, !.menu = TRUE,
                                     !.restart = TRUE]
    ELSE [gate EXCEPT !.halt = TRUE, !.menu = FALSE, !.launched = who]

\* cmdGemdrive and cmdRunner behind emul_canLaunch
Launch(who) ==
    IF ~mounted THEN [gate EXCEPT !.halt = TRUE, !.needsSd = TRUE, !.menu = TRUE,
                                  !.restart = (who = "countdown")]
    ELSE IF ~hello THEN [gate EXCEPT !.halt = TRUE, !.needsSt = TRUE, !.menu = TRUE,
                                     !.restart = (who = "countdown")]
    ELSE [gate EXCEPT !.halt = TRUE, !.menu = FALSE, !.launched = who]

\* term_loop: no key, one without a command, one with, or [G] and [U]
TermLoop ==
    /\ phase = "term" /\ phase' = "count"
    /\ \/ UNCHANGED <<key, gate>>
       \/ /\ gate.menu /\ key' = TRUE
          /\ \/ UNCHANGED gate
             \/ gate' = [gate EXCEPT !.halt = TRUE]
             \/ gate' = Launch("user")
    /\ UNCHANGED <<cells, counts, card, mounted, hello>>

\* any key halts the countdown; a second of it passes; at zero it launches
Count ==
    /\ phase = "count" /\ phase' = "commands"
    /\ key' = (key /\ gate.halt)
    /\ \/ gate.halt /\ UNCHANGED gate
       \/ ~gate.halt /\ key /\ gate' = [gate EXCEPT !.halt = TRUE]
       \/ ~gate.halt /\ ~key /\ UNCHANGED gate
       \/ /\ ~gate.halt /\ ~key /\ gate.menu
          /\ gate' = IF gate.countdown = 1
                     THEN [Launch("countdown") EXCEPT !.countdown = 0]
                     ELSE [gate EXCEPT !.countdown = @ - 1]
    /\ UNCHANGED <<cells, counts, card, mounted, hello>>

BootNext ==
    \/ Boot \/ ConnectTakes \/ Connected
    \/ Crash \/ Hang \/ HangMasked \/ SlowCall \/ SelectReset \/ JumpToBooster \/ PowerCycle
    \/ CardMoves \/ HelloLands
    \/ Commands \/ PollCard \/ HealthTick \/ TermLoop \/ Count

BootSpec == BootInit /\ [][BootNext]_bootVars

----------------------------------------------------------------------------
(* Properties.                                                             *)

\* After a crash loop the device stays in the menu: no HELLO, no card and no
\* refused launch sets the countdown going in such a boot, and another crash or
\* hang, however often and however late, does not end it.
CrashLoopStaysPut ==
    [][/\ IsCrashLoop /\ phase \in Steps => gate.halt /\ gate.launched # "countdown"
       /\ IsCrashLoop /\ phase = "off" /\ phase' # "off" /\ stopped \in {"crash", "hang"}
             => crashes' >= CrashLoopCount
      ]_bootVars

\* A refusal cannot outlive its reason: while the gate waits for a card the
\* menu was drawn without one, so the next card is seen as a change, and while
\* it waits for the ST no HELLO has come.
RefusalIsLifted ==
    /\ gate.needsSd => ~gate.lastDrawn
    /\ gate.needsSt => ~hello
====
