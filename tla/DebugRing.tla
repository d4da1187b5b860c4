---- MODULE DebugRing ----
(***************************************************************************)
(* The debug-byte ring (debugcap.c) with its consumers: the USB CDC sink   *)
(* (usbcdc.c) and the HTTP tails of GET /debug/log (http_server.c).  The   *)
(* producer always writes; each consumer pulls through its own cursor and  *)
(* counts what it lost.  Everything runs on one core: each action is one   *)
(* call from the main loop.                                                *)
(*                                                                        *)
(* A byte is named by its rank among the bytes emitted since boot, so that *)
(* a stale or repeated byte shows.  Positions wrap at Modulus (2^32).      *)
(***************************************************************************)
EXTENDS Integers, Sequences, FiniteSets

CONSTANTS
    RingBytes,      \* DEBUGCAP_RING_BYTES
    Modulus,        \* 2^32, a multiple of RingBytes
    Tails,          \* the HTTP connections that can hold a debug tail
    Batch,          \* most bytes one pull may ask for
    MaxEmitted,     \* bound: bytes emitted
    LagLimit        \* bytes a cursor may be behind before emission stops

ASSUME RingAssumption ==
    /\ RingBytes \in Nat \ {0} /\ Batch \in Nat \ {0}
    /\ Modulus \in Nat /\ Modulus > RingBytes /\ Modulus % RingBytes = 0
    /\ MaxEmitted \in Nat /\ LagLimit \in 1..(Modulus - 1)

Usb == "usb"
ASSUME TailsAssumption == Usb \notin Tails
Cursor == Tails \cup {Usb}

VARIABLES
    firmwareMode,   \* emul_isFirmwareMode()
    debugRing,      \* g_debugRing
    writePos,       \* g_debugWritePos
    readPos,        \* cur->read_pos
    dropped,        \* cur->dropped
    open,           \* the cursor belongs to a live consumer
    connected,      \* tud_cdc_connected(): a host has the port open
    lastConnected,  \* g_usbcdcLastConnected
    emitted,        \* bytes emitted since boot
    since,          \* emitted, when its consumer was last seen to attach
    started,        \* emitted, when the cursor was initialised
    out             \* bytes the consumer was handed, in order

cursors == <<readPos, dropped, open, since, started, out>>
usbLink == <<connected, lastConnected>>
debugVars == <<firmwareMode, debugRing, writePos, cursors, usbLink, emitted>>

Index == 0..(RingBytes - 1)
Position == 0..(Modulus - 1)
Behind(c) == (writePos - readPos[c]) % Modulus      \* unsigned subtraction
Lesser(a, b) == IF a < b THEN a ELSE b

DebugTypeOK ==
    /\ firmwareMode \in BOOLEAN
    /\ debugRing \in [Index -> 0..MaxEmitted]
    /\ writePos \in Position
    /\ readPos \in [Cursor -> Position]
    /\ dropped \in [Cursor -> 0..MaxEmitted]
    /\ open \in [Cursor -> BOOLEAN]
    /\ connected \in BOOLEAN /\ lastConnected \in BOOLEAN
    /\ emitted \in 0..MaxEmitted
    /\ since \in [Cursor -> 0..MaxEmitted] /\ started \in [Cursor -> 0..MaxEmitted]
    /\ out \in [Cursor -> Seq(1..MaxEmitted)]

\* usbcdc_init has put the USB cursor at the start of the empty ring
DebugInit ==
    /\ firmwareMode = FALSE
    /\ debugRing = [i \in Index |-> 0] /\ writePos = 0
    /\ readPos = [c \in Cursor |-> 0] /\ dropped = [c \in Cursor |-> 0]
    /\ open = [c \in Cursor |-> c = Usb]
    /\ connected \in BOOLEAN /\ lastConnected = FALSE
    /\ emitted = 0
    /\ since = [c \in Cursor |-> 0] /\ started = [c \in Cursor |-> 0]
    /\ out = [c \in Cursor |-> <<>>]

----------------------------------------------------------------------------
(* Producer                                                                *)

\* [U] or [G] in the menu, or the boot countdown
EnterFirmwareMode ==
    /\ ~firmwareMode /\ firmwareMode' = TRUE
    /\ UNCHANGED <<debugRing, writePos, cursors, usbLink, emitted>>

\* bytes a live cursor really is behind, where Behind is the 32-bit view
Lag(c) == emitted - started[c] - Len(out[c]) - dropped[c]

\* chandler's filter, then debugcap_emit.  Samples captured before firmware
\* mode are dropped by the filter and change nothing.
Emit ==
    /\ firmwareMode /\ emitted < MaxEmitted
    /\ \A c \in Cursor : open[c] => Lag(c) < LagLimit
    /\ debugRing' = [debugRing EXCEPT ![writePos % RingBytes] = emitted + 1]
    /\ writePos' = (writePos + 1) % Modulus
    /\ emitted' = emitted + 1
    /\ UNCHANGED <<firmwareMode, cursors, usbLink>>

----------------------------------------------------------------------------
(* Cursors                                                                 *)

\* Jump over lost bytes, count those of them that are noted, take the rest
Take(c, max, lost, noted) ==
    LET first == (readPos[c] + lost) % Modulus
        take  == Lesser(Behind(c) - lost, max)
    IN  /\ dropped' = [dropped EXCEPT ![c] = @ + noted]
        /\ readPos' = [readPos EXCEPT ![c] = (first + take) % Modulus]
        /\ out' = [out EXCEPT ![c] = @ \o
                     [i \in 1..take |-> debugRing[(first + i - 1) % RingBytes]]]
        /\ UNCHANGED <<open, since, started>>

\* Bytes overwritten before the cursor reached them
Lost(c) == IF Behind(c) > RingBytes THEN Behind(c) - RingBytes ELSE 0

\* Mutant: the loss is not counted.
Pull_Uncounted(c, max) == Take(c, max, Lost(c), 0)

\* debugcap_cursor_pull: what it leaves in the cursor and in the buffer
Pull(c, max) == Take(c, max, Lost(c), Lost(c))

\* debugcap_cursor_skipToNow
SkipToNow(c) ==
    /\ dropped' = [dropped EXCEPT ![c] = @ + Behind(c)]
    /\ readPos' = [readPos EXCEPT ![c] = writePos]
    /\ UNCHANGED <<open, started, out>>

\* handle_debug_log: debugcap_cursor_initSnapshot for a new tail
OpenTail(c) ==
    /\ c \in Tails /\ ~open[c]
    /\ open' = [open EXCEPT ![c] = TRUE]
    /\ readPos' = [readPos EXCEPT ![c] = writePos]
    /\ dropped' = [dropped EXCEPT ![c] = 0]
    /\ since' = [since EXCEPT ![c] = emitted]
    /\ started' = [started EXCEPT ![c] = emitted]
    /\ out' = [out EXCEPT ![c] = <<>>]
    /\ UNCHANGED <<firmwareMode, debugRing, writePos, usbLink, emitted>>

\* Mutant: waits for a full batch.
DriveTail_FullBatches(c) ==
    /\ c \in Tails /\ open[c] /\ Behind(c) >= Batch
    /\ Pull(c, Batch)
    /\ UNCHANGED <<firmwareMode, debugRing, writePos, usbLink, emitted>>

\* stream_debug_drive, from the sent or poll callback of the connection
DriveTail(c) ==
    /\ c \in Tails /\ open[c]
    /\ Pull(c, Batch)
    /\ UNCHANGED <<firmwareMode, debugRing, writePos, usbLink, emitted>>

\* the client leaves, or the chunk cannot be queued: conn_close
CloseTail(c) ==
    /\ c \in Tails /\ open[c]
    /\ open' = [open EXCEPT ![c] = FALSE]
    /\ UNCHANGED <<firmwareMode, debugRing, writePos, readPos, dropped, since,
                   started, out, usbLink, emitted>>

\* a terminal opens or closes the CDC port
HostToggles ==
    /\ connected' = ~connected
    /\ UNCHANGED <<firmwareMode, debugRing, writePos, cursors, lastConnected, emitted>>

\* Mutant: no catch-up when a host attaches.
UsbDrain_NoSkip ==
    /\ lastConnected' = connected
    /\ since' = [since EXCEPT ![Usb] =
                    IF connected /\ ~lastConnected THEN emitted ELSE @]
    /\ \/ /\ connected
          /\ \E avail \in 0..Batch : dropped' = dropped /\ out' = [out EXCEPT
                 ![Usb] = @ \o [i \in 1..Lesser(avail, Behind(Usb)) |->
                             debugRing[(readPos[Usb] + i - 1) % RingBytes]]]
                /\ readPos' = [readPos EXCEPT ![Usb] =
                      (@ + Lesser(avail, Behind(Usb))) % Modulus]
       \/ ~connected /\ UNCHANGED <<dropped, out, readPos>>
    /\ UNCHANGED <<firmwareMode, debugRing, writePos, open, started, connected,
                   emitted>>

\* usbcdc_drain.  A rising edge skips to now, after which there is nothing to
\* pull in the same call; avail is the room in the TX FIFO.
UsbDrain ==
    /\ lastConnected' = connected
    /\ \/ /\ connected /\ ~lastConnected
          /\ SkipToNow(Usb)
          /\ since' = [since EXCEPT ![Usb] = emitted]
       \/ /\ connected /\ lastConnected
          /\ \E avail \in 0..Batch : Pull(Usb, avail)
       \/ ~connected /\ UNCHANGED cursors
    /\ UNCHANGED <<firmwareMode, debugRing, writePos, connected, emitted>>

DebugNext ==
    \/ EnterFirmwareMode \/ Emit \/ HostToggles \/ UsbDrain
    \/ \E c \in Tails : OpenTail(c) \/ DriveTail(c) \/ CloseTail(c)

DebugSpec == DebugInit /\ [][DebugNext]_debugVars

----------------------------------------------------------------------------
(* Properties.                                                             *)

\* No byte vanishes: what a consumer was handed, what its drop counter says
\* and what is still ahead of its cursor add up to what was emitted since the
\* cursor was initialised (the 32-bit lag agrees with the real one).
Accounted ==
    \A c \in Cursor : open[c] =>
        Behind(c) = emitted - started[c] - Len(out[c]) - dropped[c]

\* A consumer gets exactly the bytes that are due: from the one after its last
\* one, or after the attach that put it at "now" ("only bytes emitted from this
\* point forward", usbcdc.c), or the oldest in the ring when the producer has
\* lapped it; and without a gap from there.  The drain samples the line: a host
\* that leaves and returns between two drains is not seen to attach.
EachByteIsDue ==
    [][\A c \in Cursor :
          LET had == Len(out[c])
              due == {since[c], emitted - RingBytes,
                      IF had = 0 THEN started[c] ELSE out[c][had]}
          IN  open'[c] /\ started'[c] = started[c] =>
                 \A i \in (had + 1)..Len(out'[c]) :
                     out'[c][i] = (CHOOSE d \in due : \A e \in due : d >= e) + i - had
      ]_debugVars

\* A tail that stays open gets the last byte emitted, when emission pauses.
TailCatchesUp ==
    \A c \in Tails : open[c] ~> (~open[c] \/ Behind(c) = 0)
====
