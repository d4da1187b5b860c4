---- MODULE SelectButton ----
(***************************************************************************)
(* The SELECT button (select.c): a tap resets the device, a press of ten   *)
(* seconds erases the settings first.  The button is polled from the main  *)
(* loop and from every loop that waits, and debounced by reading it every  *)
(* SELECT_LOOP_DELAY until it was steady for SELECT_DEBOUNCE_MS; one step  *)
(* of time here is one such delay.  The button may bounce at any moment.   *)
(***************************************************************************)
EXTENDS Integers

CONSTANTS
    LongPress,      \* SELECT_LONG_RESET
    Steady,         \* SELECT_DEBOUNCE_MS
    MaxGap          \* the longest time between two polls

ASSUME SelectAssumption ==
    /\ LongPress \in Nat \ {0} /\ Steady \in Nat \ {0} /\ MaxGap \in Nat

VARIABLES
    pushed,         \* select_detectPush()
    pressLatched,   \* selectPressedLatched
    pressTime,      \* select_getPressDurationMs, at most LongPress
    longSeen,       \* selectLongPressDetected
    steady,         \* select_detectStableState: what it expects, and for how long
    unpolled,       \* time since the last poll
    age,            \* history: time since the press was noticed, likewise
    span,           \* history: age, when the button was last let go of
    called          \* none, then the callback that was called

clocks == <<pressTime, unpolled, age, span>>
selectVars == <<pushed, pressLatched, longSeen, steady, clocks, called>>

NotWaiting == [expected |-> FALSE, left |-> -1]

SelectTypeOK ==
    /\ pushed \in BOOLEAN /\ pressLatched \in BOOLEAN /\ longSeen \in BOOLEAN
    /\ steady \in [expected : BOOLEAN, left : 0..Steady] \cup {NotWaiting}
    /\ {pressTime, age, span} \subseteq 0..LongPress /\ unpolled \in 0..MaxGap
    /\ called \in {"none", "reset", "erase"}

\* booted for longer than any press
SelectInit ==
    /\ pushed = FALSE /\ pressLatched = FALSE /\ longSeen = FALSE
    /\ steady = NotWaiting /\ called = "none"
    /\ pressTime = LongPress /\ age = 0 /\ span = 0 /\ unpolled = 0

----------------------------------------------------------------------------
ButtonMoves ==
    /\ called = "none"
    /\ pushed' = ~pushed
    /\ span' = IF pushed THEN age ELSE span
    /\ UNCHANGED <<pressLatched, longSeen, steady, pressTime, unpolled, age, called>>

Later(clock) == IF clock < LongPress THEN clock + 1 ELSE clock

TimePasses ==
    /\ pressTime' = Later(pressTime) /\ age' = Later(age)
    /\ UNCHANGED span

\* the main loop is busy elsewhere
Elsewhere ==
    /\ called = "none" /\ steady = NotWaiting /\ unpolled < MaxGap
    /\ TimePasses /\ unpolled' = unpolled + 1
    /\ UNCHANGED <<pushed, pressLatched, longSeen, steady, called>>

\* select_checkPushReset: an edge is to be steady, a press may be long by now
CheckPushReset ==
    /\ called = "none" /\ steady = NotWaiting
    /\ steady' = IF pushed # pressLatched THEN [expected |-> pushed, left |-> Steady] ELSE steady
    /\ longSeen' = (longSeen \/ (pushed /\ pressLatched /\ pressTime = LongPress))
    /\ unpolled' = 0
    /\ UNCHANGED <<pushed, pressLatched, pressTime, age, span, called>>

\* select_detectStableState: one look, and sleep_ms, or a bounce
DetectStableState ==
    /\ steady.left > 0
    /\ IF pushed = steady.expected
       THEN steady' = [steady EXCEPT !.left = @ - 1] /\ TimePasses
       ELSE steady' = NotWaiting /\ UNCHANGED <<pressTime, age, span>>
    /\ UNCHANGED <<pushed, pressLatched, longSeen, unpolled, called>>

\* Mutant: the time of the press is not taken.
Pressed_KeepsTime ==
    /\ steady.left = 0 /\ steady.expected
    /\ pressLatched' = TRUE /\ longSeen' = FALSE
    /\ age' = 0 /\ span' = 0
    /\ steady' = NotWaiting
    /\ UNCHANGED <<pushed, pressTime, unpolled, called>>

Pressed ==
    /\ steady.left = 0 /\ steady.expected
    /\ pressLatched' = TRUE /\ longSeen' = FALSE
    /\ pressTime' = 0 /\ age' = 0 /\ span' = 0
    /\ steady' = NotWaiting
    /\ UNCHANGED <<pushed, unpolled, called>>

\* reset_device, or reset_deviceAndEraseFlash before it
Released ==
    /\ steady.left = 0 /\ ~steady.expected
    /\ called' = IF longSeen \/ pressTime = LongPress THEN "erase" ELSE "reset"
    /\ pressLatched' = FALSE /\ longSeen' = FALSE
    /\ steady' = NotWaiting
    /\ UNCHANGED <<pushed, clocks>>

SelectNext ==
    \/ ButtonMoves \/ Elsewhere
    \/ CheckPushReset \/ DetectStableState \/ Pressed \/ Released

SelectSpec == SelectInit /\ [][SelectNext]_selectVars

----------------------------------------------------------------------------
(* Properties.                                                             *)

\* "Long press (10 s, hold steady): factory reset" (README.md).  The settings
\* are erased only after a press as long as that, less what the polls may
\* miss: the time between two of them and the debouncing of the release.  A
\* press as long as that is never taken for a tap.  (Two taps with no poll
\* between them are one press to the code, and so they are here.)
TapKeepsSettings ==
    /\ called = "erase" => span >= LongPress - MaxGap - Steady
    /\ called = "reset" => span < LongPress
====
