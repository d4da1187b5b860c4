# A TLA+ model of the md-devops microfirmware

md-devops turns the cartridge slot of an Atari ST into a development surface.
Two programs run at the same time and share nothing but the cartridge bus:

- the **RP** firmware on the RP2040 (`src/rp/src`): one core, one cooperative
  main loop in `emul.c`, lwIP callbacks on that same loop, PIO and DMA that
  serve ROM4 reads from RAM and capture every ROM3 access as a sample;
- the **ST** side (`src/target/atarist/src`): 68000 code inside the emulated
  cartridge: a GEMDOS trap handler, the Runner's poll loop, and an interrupt
  hook that stays alive when the foreground program has wedged.

The ST can only *read* the cartridge. It sends a word by reading an address in
the ROM3 window (the address is the word), and it receives by polling RAM that
the RP exposes in the ROM4 window. There is no interrupt, no acknowledgement
line and no mutual exclusion between them, and everything above (the GEMDOS
drive, the Runner, the HTTP API) rests on the protocol built from these reads.

Contents: [inventory](#inventory), [plan](#plan), [modules](#modules),
[runs](#runs), [fairness](#fairness), [proofs](#proofs),
[disagreements](#disagreements-found), [what is not shown](#what-is-not-shown),
[how to run](#how-to-run).

## Inventory

For each component: its state, its operations, whom it talks to, what is hard
about it, and what makes it correct. `PROJECT.json` carries the same list with
the files of each component and its status, and the list of hazards, each at
the line where it bites, with the properties that watch it.

### Command channel (modelled)
`sidecart_functions.s`, `sidecart_macros.s`, `chandler.c`, `tprotocol.h`

- *State.* ST: the token it waits for (`d2`), the attempts left (`d7`). RP: the
  sample ring and its read index, the frame parser, `pendingProtocol`, the
  token cell, the seed cell, `incrementalCmdCount`.
- *Operations.* `send_sync` reads the seed cell, sends a frame with that value
  as its token, and spins until the token cell echoes it and the seed cell has
  moved on; it resends after a timeout and finally gives up. `chandler_loop`
  drains the samples, keeps the first complete frame, runs all callbacks, then
  publishes token and new count with one 64-bit store.
- *Hard.* A retry is sent while the first attempt may still be in the ring. A
  second frame of one drain is dropped. The seed only moves when a command is
  published, so tokens repeat. The interrupt hook sends from inside somebody
  else's frame. The RP may reboot under a waiting ST.
- *Correct when* an answer proves that the command ran, the results read after
  it are the command's own, duplicates do not run after newer commands, and
  `send_sync` always returns.

### ROM3 sample capture (modelled)
`commemul.c`. A DMA channel fills a ring of 16-bit samples without ever
waiting; `commemul_poll` computes where it writes, tests for an overrun, drains
the ring into the parser and re-arms the channel before its count runs out.
*Hard:* lapping by exactly one ring looks empty; the count restarts at a
re-arm. *Correct when* the parser gets the samples in order, and every gap is
counted.

### GEMDRIVE file transfer (modelled)
`gemdrive.s`, `gemdrive.c`

- *State.* The open-file slots (`FIL`, `lastWriteSeq`, `lastWriteBytes`), the
  shared read window and the two count cells; on the ST the bytes asked for,
  left and done.
- *Operations.* Fwrite cuts the caller's buffer into chunks with a sequence
  number each; Fread asks for one buffer at a time and copies it byte by byte;
  Fseek moves the position both use.
- *Hard.* All ride on a channel that may execute a command twice; writes are
  made idempotent by the sequence number, reads and seeks are not. The card may
  fill up or fail in the middle of a chunk.
- *Correct when* the file holds the caller's bytes in order and once each, and
  what is read are the bytes from the position the program knows.

### GEMDRIVE handles, DTAs and directory calls (partly)
`gemdrive.s`, `gemdrive.c`

- *State.* A table of open files and one of directory searches, with fixed
  slots; `dpathStr`; the re-entry lock; a status cell per call.
- *Operations.* Fopen, Fcreate, Fclose, Pexec's reads; Fsetdta, Fsfirst,
  Fsnext, release of a DTA; Dsetpath, Dgetpath, Dfree, Dcreate, Ddelete,
  Fdelete, Frename, Fattrib. *Left out:* Fdatime, which hands back what it was
  sent and keeps nothing.
- *Hard.* A program that ends or is reset tells nobody; DTA addresses are
  reused and evicted by age; every call may run twice, and relative paths mean
  something else the second time; the lock may outlive its owner.
- *Correct when* a slot belongs to at most one live handle and a full table
  refuses instead of overwriting, a listing is whole or visibly cut, and a
  status is the truth about the card.

### Runner session (partly: all verbs but adv/jump)
`http_server.c` (Runner endpoints), `emul.c` (runner state), `runner.c`,
`runner.s`, `main.s`

- *State.* RP: `busy`, the mirrored basepage and directory, `memPending`, the
  relaunch timer; shared: the sentinel cell, path and basepage cells; ST: the
  loaded program, its directory, the place in the poll loop, the hook.
- *Operations.* Each endpoint stages its arguments and writes a command into
  the sentinel; the ST polls it, calls GEMDOS and reports with a DONE command,
  whose callback updates the mirror and clears the sentinel. `load`, `unload`
  and the meminfo calls spin in the HTTP handler until the report or a deadline.
- *Hard.* One cell in each direction, no acknowledgement; late, duplicate and
  abandoned reports; deadlines racing answers; resets from the API, the hook
  and the button crossing all of it; handlers that pump the cartridge from
  inside a receive callback.
- *Correct when* the mirror agrees with the ST whenever the ST is between two
  commands, nothing is executed twice, and the Runner comes back after a reset.

### Runner adv/load (modelled)
`http_server.c`, `runner.c`, `runner.s`. A connection streams its body through
one staging buffer, and the hook copies each chunk to its target and reports
it. *Hard:* two loads share the buffer; the ST copies while the RP streams on
after a deadline; a repeated report acknowledges the next chunk. *Correct when*
a load that is answered 200 has every byte in its place.

### Debug-byte capture (modelled)
`debugcap.c`, `usbcdc.c`, the `/debug/log` stream of `http_server.c`

- *State.* A byte ring with a 32-bit write position; a cursor per consumer with
  its read position and drop count; the last seen state of the USB line.
- *Hard.* The producer never waits and laps its consumers; positions wrap; a
  host that attaches must not get old bytes; an idle tail has nothing in flight
  to wake it.
- *Correct when* every byte is delivered once and in order, or counted as lost.

### Health supervision (partly)
`health.c`. The watchdog fed by the main loop; the scratch registers that
survive a reset; the cause of a boot, the crash count and its window; the stall
mark. Sampling of stack and heap and the names of phases only report and are
left out. *Hard:* the count must survive the reboot it counts, and nothing may
relaunch a crash loop. *Correct when* a crash loop stays in the menu.

### SD card supervision (modelled)
`sdcard.c`, `sd_timeouts.c`, `hw_config.c`. Presence polling, errors noted by
every user of the card, remount after unmounting the old volume. *Hard:* a card
that leaves and returns in the middle of a transfer; objects of the old mount;
lock entries of FatFs that outlive them. *Correct when* nothing shared outlives
its owner and nobody works on the wrong file.

### HTTP connection pool and file transfers (partly)
`http_server.c`. Two connection slots, one body lock, uploads, downloads and
listings driven by callbacks, changes of files and folders, the idle sweep;
the reading of a request from TCP segments. Routing, the parsing of header
lines and paths, the volume endpoint and the bytes of the bodies are left out.
*Hard:* a connection may end in any callback and in any state; slots held by
clients that vanished; an upload interrupted at any chunk. *Correct when*
everything a transfer holds is given back on every way out, and a route is
handed exactly the body that was sent.

### Network supervision (modelled)
`network.c`. The attempts to connect at boot, the callbacks of lwIP, the
address shown; the link supervisor with its grace period, its gateway probe by
ARP and its back-off. *Hard:* late answers, links that flap, drivers that
report a dead link as up, leases that outlive links. *Correct when* a dead
network is rejoined, attempts keep their distance, and no stale address is
shown.

### Setup menu, countdown, launch gate (partly)
`emul.c`, `term.c`, `display.c`. One slot for the last keystroke, prompts and
the folder picker, the repaint when the card changes; the launch gate, the
countdown and the crash-loop halt. Drawing is output; the debug mailbox of debug
builds is left out. *Hard:* what a key means depends on the level when it is
taken, not on the screen it was typed at; a countdown, a key, a HELLO and a
crash loop decide the same launch. *Correct when* only what the screen shows is
saved, and a refusal is lifted with its reason.

### Settings (partly)
`settings.c`, `aconfig.c`. A flash sector that every save erases and programs
anew, and its copy in RAM. `gconfig.c` (a read-only second context), the
validation of single values and `settings_erase` are left out. *Hard:* the
power may go between erase and the last page. *Correct when* the next boot
loads what was saved, or a prefix of what was being saved.

### SELECT button and reset (partly)
`select.c`, `reset.c`. Debounce, tap and long press. *Hard:* polls may be
seconds apart. *Correct when* a tap never erases the settings.

### Not modelled
- *ROM emulation and boot* (`romemul.c`, the rest of `main.c`): PIO and DMA
  set-up, executed once; hardware programming, with nothing to explore.
- *Command-line client* (`sidecart.py`): one request of the HTTP API per call,
  without state and without retries.
- *u8g2* (`src/rp/src/u8g2`): vendored; 29 of the 46 thousand lines of C
  and assembly. The map covers a little over two fifths of the rest.
- *Developer tools*: bench scripts.
- Of `http_server.c`: the text of requests and answers (URL and JSON decoding,
  8.3 names, header lines, status bodies). Of `emul.c` and `term.c`: drawing.
  Of `runner.s`: texts, palettes and the arithmetic of meminfo.

## Plan

| step | module | rests on | status |
| --- | --- | --- | --- |
| 1 | `ChannelContract` (abstract), `CommandChannel` | | checked, proved with the refinement |
| 2 | `FwriteContract` (abstract), `GemdriveWrite` | `CommandChannel` | checked, proved with the refinement |
| 3 | `GemdriveRead` with Fseek | `CommandChannel` | checked, proved |
| 4 | `DebugRing` | | checked, proved |
| 5 | `RunnerSession` | contract of the channel | checked, proved |
| 6 | `GemdriveTables`, `GemdriveCalls` | contract of the channel | checked, proved |
| 7 | `AdvLoad` | contract of the channel | checked, proved |
| 8 | `BootGuard` | | checked, proved |
| 9 | `HttpTransfers`, `RequestReader` | | checked, proved |
| 10 | `LinkSupervisor`, `WifiConnect` | | checked, proved |
| 11 | `SetupMenu`, `SelectButton` | | checked, proved |
| 12 | `CaptureRing`, `SettingsStore` | | checked, proved |

"Proved" means every safety property of the runs; liveness stays with TLC.
Left for later: two files of different owners in one `GemdriveTables` with their
contents; the prefix that a save leaves in flash composed with the reboots of
`BootGuard`. None of the modules declares a RECURSIVE operator.

Models that interact share their variables (`GemdriveWrite` and `GemdriveRead`
extend `CommandChannel`; the transfers, the card and the ST's file are one
module) or use what another one is shown to do: `RunnerSession`,
`GemdriveTables`, `GemdriveCalls` and `AdvLoad` take the channel at
`ChannelContract`, a row of copies of commands that run in the order of the
calls or are lost, and an answer that is that of a run. What the contract leaves
open they leave open: after a command was given up the next answer may be that
of its late run (`Mistakable` in `GemdriveCalls`; `GemdriveTables` starts no
call after one was given up). The contract holds of the foreground alone. Where
the hook itself sends, in `RunnerSession` and `AdvLoad`, it shares its token
with the command it interrupts (`CommandChannel_seed`), and either may take the
answer to the other for its own (`Mistakable` in `RunnerSession`,
`HookTakesAnother` in `AdvLoad`).
Models that share no variable are checked side by side in one run, where a
behaviour first chooses the part that moves (`MCForeground`, `MCCartridge`,
`MCGemdriveFiles`, `MCDeviceSide`, `MCNetSide`): a property of one part cannot
be changed by the steps of another, so nothing is lost and no product is built.

## Modules

### CommandChannel

One action per step of the two programs that the other can observe.

| code | model |
| --- | --- |
| `send_sync` macro: attempt counter, retry, give up | `Begin`, `Resend`, `GiveUp` |
| reading the seed into `d2` | `ReadSeed`, part of `Begin` and `Resend` |
| header word, payload and checksum on the bus | `HeaderOut`, `ChecksumOut` |
| frame of the interrupt hook | `HookFrameOut` |
| wait loop: token compare, then seed compare | `SeeToken`, `Accept`, `NotReady` |
| drain of `chandler_loop`, one frame kept | `Poll` |
| ring lapped by the DMA | `Overrun` |
| callbacks, then the 64-bit store | `Dispatch`, `Publish` |
| `chandler_init` after a reset of the RP | `Reboot` |

The words between header and checksum are one phase: what matters is that a
frame can be broken into between the first and the last. `ChecksumOut` may lose
the frame, for a corrupted sample or a silence longer than the parser's restart
time. Two contexts send; the interrupt context runs to its end before the
foreground moves (`Running`). Tokens are integers: counts are natural numbers,
the random boot values negative ones, different for each boot and cell. That
random 32-bit values do not collide with each other or with a running count is
an assumption of the model, and so is that the count does not wrap.

### ChannelContract

What a caller of `send_sync` may rely on, without tokens, cells and the parser:
the commands issued, what each caller was told, the commands on their way and
the one whose results the shared cells hold. A call is sent once or again, is
answered, or is given up when no attempt is left; commands on their way run in
turn, or are lost. The heart is `Answered`: while the RP stays up, the cells hold
the results of the very command, or those of one that was given up with nothing
but give-ups since; after a reboot, the command has run, or one that was given
up has. `SendSyncKeepsContract` is the refinement, for the hook not installed:

| step of `CommandChannel` | step of `ChannelContract` |
| --- | --- |
| `Begin` | `Call` |
| `ChecksumOut` | `Sent`, the frame captured or lost |
| `Resend` | `TryAgain` |
| `Accept` | `Answered` |
| `GiveUp` | `GivenUp` |
| `Dispatch` | `Run` |
| `Poll` (all of a drain but one frame), `Overrun` | `Lost` |
| `Reboot` | `RebootOfRP` |
| the others (`SeeToken`, `NotReady`, `Publish`, ...) | a stutter |

The pending frame counts as on its way until its callbacks have run
(`Handled`, `Flying`).

### CaptureRing

A sample is its number. `Sample` is the DMA (external), `PollStarts` the test
for an overrun and the target of the drain, `Drain` one word handed on, and
`Drained` the end with the re-arm. The DMA goes on during a drain. `slipped`
remembers the two losses the code cannot count: see
[disagreements](#disagreements-found).

### FwriteContract and GemdriveWrite

`GemdriveWrite` EXTENDS the channel: `SendChunk` is `Begin` with a chunk,
`ChunkAnswered` is `Accept`, `ChunkAbandoned` is the last `GiveUp`, and
`DispatchWrite` is `Dispatch` with `handleWriteBuffCall`. The number of the
command stands for the sequence number: both are fresh for each chunk and equal
on its retries. `HandleWriteBuffCall` has the three outcomes of the code: a
known sequence number is answered from memory, a write stores what fits, an
error stores any part of it and leaves a `FIL` that FatFs refuses afterwards.
`FwriteContract` says what a program may rely on: the file grows by the bytes of
its buffer in order and once each, a call that returns its count has put all of
them there, and a call always may fail; of what is written after a failure only
that it is appended. The property `FwriteKeepsContract` is the refinement,
`INSTANCE FwriteContract WITH` the file and the call, size and result as they
are: chunks, card and channel are what it hides.

### GemdriveRead

One Fseek or none, in a file opened for reading, then one Fread. `CopyByte` is
a single byte of the copy loop, so that a duplicate request may refill the
window in the middle of it. `handleReadBuffCall` and `handleFseekCall` move the
file position at each execution.

### GemdriveTables

| code | model |
| --- | --- |
| `send_sync` at its contract | `Start`, `Resend`, `Answered`, `GivenUp`, `Lose`, `Execute` |
| `fileSlotAlloc`, `handleFopenCall`, `handleFcreateCall`, `handleFcloseCall` | `FreeSlots`, `HandleOpen`, `HandleFcloseCall` |
| `findDtaSlot`, `allocDtaSlot` with its eviction | `SlotsOf`, `Victim`, `SlotFor` |
| `handleFsetdtaCall`, `handleFsfirstCall`, `handleFsnextCall`, the release | `Handle...` of the same name |
| `.Fopen`, `.Fclose`, `.Pexec`, `.Fsfirst` of `gemdrive.s` | `Call...`, `Take...`, `Pexec...` |
| a program that ends, a reset of the ST and its HELLO, a reboot of the RP | `ProgramEnds`, `ResetST`, `Hello`, `RebootRP` |

`orphan` marks a slot whose owner is gone without having closed it; `since` and
`skipped` remember what a listing may be excused by. `unsure` says that a call
was given up or the RP rebooted under the ST, after which nothing is promised
and the model starts no new call: `.Fopen` returns the handle cell without
looking at the result of its call. `MaxStamp` bounds `dtaLruCounter`.

### GemdriveCalls

The calls that are over with one command, on a card given as a small tree.
`Trap` is the dispatch of `gemdrive_trap` with the lock that
`detect_emulated_drive` takes around its question to TOS; `NextCommand` goes
through lock, unlock and the call, each with a token of its own unless the one
before was given up (`lockLost`, `lost`): then the late run of that one may
answer it (`Mistakable`), the call itself stays unsent or unheard, and nothing
is promised of its status; `ReturnStatus` and `ReturnPath` are what the
program gets, after `AsWord` where the code reads a word of a longword.
`Target` is `getLocalFullPathname`. Assumed: the drive TOS names is the
emulated one, no "..", nobody else changes the card, the RP does not reboot;
the paths the tree may have are closed under going up (`CallsAssumption`); one
cell stands for the status cells of all calls (each call writes its own before
it is read, except when it was given up). The read-only attribute is explored
with the four calls it concerns.

### RunnerSession

| code | model |
| --- | --- |
| the endpoints of `http_server.c` | `Run` ... `Escape` |
| the spin of a blocking handler, its answer and its deadline | `Return`, `Timeout` |
| `runner_command_cb` and the `emul_record...` functions | `HandleReport`, `Recorded` |
| the relaunch timer of the main loop | `RelaunchTick` |
| cold boot, GEMDRIVE HELLO, Runner HELLO | `ColdBoot`, `StartRunner`, `Transmit`, `Proceed` |
| poll loop, GEMDOS call, report, `.wait_clear_*` | `Take`, `Perform`, `Transmit`, `Proceed`, `Cleared` |
| the hook's `adv_force_reset` and `adv_meminfo_isr` | `HookReset`, `HookMeminfo`, `HookTimeout` |

Requests are numbered and a number also names the path it stages. `Run` stands
for `res` too, which takes the same lock and mirrors nothing. `Pages` are the
addresses GEMDOS may return for a loaded program.

The code does not promise the mirror unconditionally, and the properties say
under which events it holds. The history variable `causes` records those that
have happened: `late` (a report that was sent again, a deadline that passed, an
adv/meminfo, a reset overwritten before the hook saw it), `early` (a request
accepted while the ST is still on its way back), `gaveUp` (a report abandoned
after all its attempts), `mistaken` (a report whose sender took another's
answer for its own, `Mistakable`: that of the hook's report it shared its token
with, or of one given up before), `raced` (the answer to `load` and its deadline in the
same turn of the spin). Each property excludes only the events that really
break it. One timing assumption is made: a hooked ST sees a reset request
within the 3 s before the first relaunch tick (the hook runs at every vertical
blank).

### AdvLoad

`BeginLoad`, `StageByte`, `Dispatch`, `ChunkAcked`, `ChunkTimesOut` and
`LoadAborted` are the connection; `HookStarts`, `HookCopies` (a whole chunk),
`HookReports`, `HookReturns` and `HookTakesAnother` the ST; `DoneLoadChunk` is
the callback of the report, possibly late. A byte is the load and the place it belongs to, and each
load has a region of its own. `causes` again names what breaks a load. The hook
always sends its report at least twice before it gives up (`Retries` is positive).

### DebugRing

`debugcap.c` with both kinds of consumer. A byte is named by its rank, so a
repeated, stale or missing byte shows. `Pull` is `debugcap_cursor_pull`,
`UsbDrain` is `usbcdc_drain`, `OpenTail`, `DriveTail` and `CloseTail` are the
life of a `/debug/log` connection.

### BootGuard

`scratch` are the watchdog's registers, the only thing that survives a stop.
`Boot` is `health_init` with `NextCrash`, its arithmetic on count and window;
`Connected` and `ConnectTakes` are the Wi-Fi connect before the main loop, in
which the window grows stale; then one action for each step of a pass:
`Commands`, `PollCard`, `HealthTick`, `TermLoop`, `Count`. `Crash`, `Hang`,
`HangMasked` (interrupts off), `SlowCall`, `SelectReset`, `JumpToBooster` and
`PowerCycle` may happen between any two. `Launch` is `emul_canLaunch` with the
reasons for a refusal that the gate remembers.

### HttpTransfers

| code | model |
| --- | --- |
| `srv_accept_cb`, `conn_close`, `conn_release_resources`, `srv_err_cb`, `srv_poll_cb` | `Accept`, `Close`, `Release`, `PeerCloses`, `IdleSweep` |
| uploads with `upload_finish_ok` and the removal of a partial file | `StartUpload`, `UploadFails`, `UploadFinish`, `Unlinked` |
| downloads, listings, debug tails | `Start...`, `Drive...` |
| delete, rename and create of file and folder | `DeleteFile`, `RenameFile`, `MakeFolder`, `DeleteFolder`, `RenameFolder` |
| `sdcard_pollPresence`, `sdcard_noteResult`, `sdcard_pollRemount` | `PollPresence`, `NoteError`, `PollRemount`, `Unmount` |
| the file the ST has open | `StOpen`, `StClose` |

FatFs is external: an opened object holds an entry of the lock table until it
is closed without error or the volume is unmounted, and an object of an older
mount is refused. The path "f" stands for the path of a transfer; renaming its
folder takes an open file to the place "moved". While a file that moved is
open there is no second renaming and no creation of its old folder: a third
generation of the same path would need names of its own.

### RequestReader

`ReceiveHeaders` and `ReceiveBody` are the two phases of `srv_recv_cb`,
`Dispatch_` the end of `parse_and_dispatch` that hands on what came with the
headers. A byte is its place in the stream; the request has any headers, body
and bytes behind it up to the bounds, and TCP cuts it anywhere.

### LinkSupervisor and WifiConnect

`LinkSupervisor` is `network_superviseLink`: grace (`Trip`), back-off
(`Rejoin`), and the probe (`ProbeStarts`, `ProbeSent`, `ProbeNotSent`,
`ProbeAnswered`, `ProbeUnanswered`, `DeclareDead`). The network, the driver's
claim about the link and the ARP entry change by themselves; time passes in
ticks. `WifiConnect` is the other half of `network.c`: the attempts at boot
(`ConnectAttempt`, `ReadStatus`, `TurnEnds`, `AttemptEnds`), the joins the
supervisor begins (`RejoinBegins`), and the two callbacks of lwIP, which write
what the menu shows (`LinkCallback`, `StatusCallback`). When a rejoin is due is
left open here and decided there.

### SetupMenu

`Press` puts a key into the one slot of `term.c`, `TakeKey` is `term_loop`;
what it does depends on the command level: `SingleKey` (a menu command),
`DataInput` (a prompt), `Reentry` and `PickerKey` (the folder picker). A text is
a sequence of three kinds of characters. `CardChanges` repaints. `display` is
what the user sees, `config` what is stored. [T] has the shape of [R] and [U] of
[G]: each pair is one key. The notation of numbers and the cutting of long
paths are left out.

### SettingsStore

`Change` and `SaveBegins` write the RAM image, `Erase` and `ProgramPage` the
sector, `PowerOff` may come between any two, `LoadAtBoot` reads what it left.
An erase and the program of a page are whole or have not begun. `settings_init`
out of memory at boot is left out.

### SelectButton

`ButtonMoves` is the finger (bouncing allowed), `TimePasses` 10 ms,
`Elsewhere` the time between two polls; `CheckPushReset`, `DetectStableState`,
`Pressed` and `Released` are the functions of `select.c`. `span` is how long
the button was really held.

## Runs

| run | parts | question | distinct states | time |
| --- | --- | --- | --- | --- |
| `Foreground` | `CommandChannel` without hook, `SetupMenu` | does `send_sync` implement `ChannelContract`, what can an answer prove, in which order do things run; is only saved what is shown? | 1.09 M | 100 s |
| `Cartridge` | `CommandChannel` with hook, `DebugRing` | has an answered command run, does `send_sync` return; where did each byte go? | 264 k | 80 s |
| `CommandChannel_seed` | | does the moved seed prove a response? (no) | violation | |
| `GemdriveWrite_plain` | | does Fwrite implement `FwriteContract`, and return? | 296 k | 60 s |
| `GemdriveFiles` | `GemdriveRead`, `GemdriveCalls` | what do a seek and a read deliver; is a status true; who leaves the lock taken? | 2.55 M | 110 s |
| `GemdriveRead_overrun` | | does Fread stop at the count? (no) | violation | |
| `RunnerSession` | | do mirror, reports and at-most-once survive? | 2.84 M | 70 s |
| `RunnerSession_return` | | does the Runner come back? | 162 k | 30 s |
| `RunnerSession_unload` | | does unload free the loaded program? (no) | violation | |
| `DeviceSide` | `GemdriveTables`, `AdvLoad`, `BootGuard`, `CaptureRing`, `SettingsStore`, `SelectButton` | the tables and stores of the RP at their limits | 1.53 M | 220 s |
| `NetSide` | `HttpTransfers`, `RequestReader`, `LinkSupervisor`, `WifiConnect` | is everything given back, and a dead network rejoined? | 266 k | 190 s |
| `SetupMenu_esc` | | does ESC leave the picker? (no) | violation | |

Times are those of two workers on a small machine, and rough. All configurations
set `CHECK_DEADLOCK FALSE`: the ST, its programs, the clients and the user may
stop, and the bounds end many behaviours. Type invariants that no run lists
(those of `SetupMenu` and of the modules whose theorem is in
[proofs](#proofs)) were checked while the modules were written.

**Bounds.**
- `Foreground`: three commands with one retry each, so that a duplicate of the
  first can meet the second and a token of an abandoned one the third, and one
  reboot. Menu: three folders on pages of two, a card without folders and none,
  texts of two characters.
- `Cartridge`: two commands suffice for one to preempt the other at any step. A
  ring of two under a modulus of four and six bytes emitted: the position wraps,
  and the emitter laps a cursor; `LagLimit` keeps a cursor less than a modulus
  behind, which is the difference between the model and 2^32 bytes without a
  pull.
- `GemdriveWrite_plain`: two calls of two or three bytes, chunks of two, room
  for four bytes and five commands: chunks that fill up exactly, a short last
  chunk, a card that takes part of a chunk of the second call and then nothing,
  and a program that writes on after an error.
- `GemdriveFiles`: buffers of two, counts 1, 2 and 5 from positions 0 and 1
  of a file of six bytes (below and at one buffer, above two and no multiple,
  the end inside the last buffer), seeks forwards, backwards, past the
  end and before the start; four commands, one retry. Paths: two names and one
  level below, so that a folder has a content and a relative path two meanings. The
  calls that make and remove folders, those that rename, and those that meet the
  read-only attribute are parts of their own: no behaviour here removes a folder
  that it renamed. The proofs have no such split.
- `RunnerSession`: three requests (`load`, `exec`, `unload`, the shortest session
  in which all succeed) and one upset; `RunnerSession_return`: two upsets, so
  that a second cold boot lands in the return from the first, and one request
  that overwrites the sentinel.
- `DeviceSide`: two slots per table, three DTAs (one more than slots), two
  entries, one retry, four time stamps; two loads at once and two in a row, of
  one chunk and a half; a crash loop of two in a window of one, the fields of
  the count as small as the code's order allows; a ring of four words, re-armed
  after six, fourteen samples (two re-arms and three laps); four settings on two
  pages, the second entry of a page crossing over (as the real 127-byte entries
  do in 256-byte pages); nine ticks stand for the ten seconds of a long press, three for
  the debouncing, and up to four pass without a poll.
- `NetSide`: the two connections of the code, one file and its folder; headers of
  up to five bytes in a buffer of four, bodies of three in a buffer of two:
  below, at and above each limit; timers whose order is that of the code's;
  three attempts as in the code, of four units of time.

Each property has a mutant in `PROJECT.json`: a change of one definition, as a
plausible bug would make it, under which TLC finds the property violated. The
mutated forms stand beside the definitions they mutate.

## Fairness

Safety properties need none. For liveness:

- `CommandChannel` (in `MCCartridge`): weak fairness of each context's next step,
  because the ST spins on its CPU, and strong fairness of its timeout, because
  `NotReady` sends it back and forth between the two compares while the poll
  count goes on. Weak fairness of `Poll`, `Dispatch` and `Publish` for the main
  loop. Never owed: a new command, a loss, an overrun, a reboot.
- `DebugRing` (in `MCCartridge`): weak fairness of `DriveTail` for each tail,
  lwIP's poll callback, which is called for an open connection for ever.
- `GemdriveWrite`: the ST only. Nothing is asked of the RP: Fwrite must return
  even if the cartridge falls silent.
- `RunnerSession`: weak fairness of the main loop and of the hook's reset and
  timeout; strong fairness of the ST's sending and starting steps, which an
  interrupt may disable and enable again. A request, the button, the program
  that a verb starts, and a GEMDOS call are owed to nobody.
- `HttpTransfers` (in `MCNetSide`): weak fairness of the sweep of a client that
  has vanished, lwIP's poll timer, which runs without it. A client that sends
  a byte now and then is never swept, and may stay.
- `LinkSupervisor` (in `MCNetSide`): time passes, and the main loop calls
  `network_superviseLink` (weak fairness of both); strong fairness of
  `ProbeSent`, which says that the ARP request is not refused for ever: if it is,
  the probe is put off for ever, and a dead network stays unnoticed.

## Proofs

Every safety property of the runs but the ones listed at the end of this section
is a theorem, for every value of the constants that the named assumptions of the
module admit. A theorem is about the specification of its module (`Spec`,
`BootSpec`, ...); the runs check the same property of a composition in which only
that module's part moves. Each inductive invariant was an invariant of a TLC run
before it was proved.

### CommandChannel_proofs

For every number of commands, retries and reboots, with no bound on the ring:

| theorem | says | assumes |
| --- | --- | --- |
| `TypeCorrect` | `Spec => []TypeOK` | the constants' types |
| `AnsweredExecuted` | an answered command has run, or shares its token with another | nothing more: hook and reboots included |
| `ContractKept` | the refinement of `ChannelContract`, reboots included | no hook |
| `TokenReuse` | only a command that was given up shares its token with a later one | no hook |
| `NoLateReplayHolds` | commands run in the order of the calls | no hook |
| `AnswerIsMineHolds` | the cells hold the results of the command that was answered | no hook |
| `FalseAnswer` | an answered command that never ran has the token of an earlier command that was given up and ran after all, reboots included | no hook |

`AnsweredWasExecuted` is not inductive: nothing in it says where the value in
the token cell comes from. `Provenance` does: the seed cell and every token a
command ever carried are seeds (a count or a boot seed, never a boot token); the
token cell holds a boot token or a token carried by a command that has run;
frames in the ring, the pending frame and each waiting context carry a token of
their own command; a context that has matched the token cell waits for a token of
a command that has run. The interesting steps are `Dispatch` (the pending command
has run), `Publish` (its token reaches the cell) and `SeeToken` (the compare turns
a fact about the cell into one about the waiting context). A reboot puts a boot
token in the cell, which no command carries (`SeedIsNoBootToken`).

`TokenReuseNeedsGiveUp` is about time: tokens are drawn from the seed cell, and
the seed cell only grows. `Freshness` says, while the RP has not rebooted and
the hook is not installed, that the seed cell is at most the count, that no
token exceeds it, that every token of an answered command lies strictly below
it, and that only the current command is open. Then the next draw can meet only
a token of a command that is neither answered nor open: one that was given up.
Strictness comes from `Accept`, the second compare of the wait loop.

`InTurn` gives the order: frames wait in the order of their commands, and none is
older than a command that has run. Both `NoLateReplay` and `AnswerIsMine` follow.

`FalseAnswer` across reboots is the hardest of them. A reboot starts the count
again, so tokens of the boot before come back, and a frame that waited through
the reboot might be taken for an answer to a new command. `EpochInv` says why not.
Every frame whose token could be taken for an answer is excused: it belongs to
the command in progress or to one given up (`RingExcused`, `PendingExcused`). A
frame with a token of an earlier boot reaches the new boot only from the
attempt that the reboot broke into, is the first frame there, and nothing is
published before it (`StaleAlone`). The published token belongs to an excused
command that has run (`Published`).

`ContractKept` needs one thing more, for the answer while the RP stays up:
whose results are in the cells. `Abandonment` (in `ContractInv`) relates tokens
to give-ups over time: a command drawn with the same token as an earlier one
finds every command from that one on given up, because any other outcome moves
the seed cell (`Freshness`) before the next draw (`DrawAbandons`). With it
`AnswerShows` says what an accepted answer proves in each epoch, the first
alternative from `Freshness`, `InTurn` and `Abandonment`, the other from
`EpochInv`. Two lemmas treat the frames on their way: `FlyingIs` (the pending
frame, then the ring), `PollLoses` (a drain keeps the first frame and loses a
part of those behind). The step proof has one case per action of the
channel, each a step of the contract or a stutter.

### GemdriveWrite_proofs and GemdriveRead_proofs

Both extend `CommandChannel_proofs`: their steps are steps of the channel, so
`Provenance`, `Freshness` and `InTurn` hold of the channel below.

| theorem | inductive invariant, and why it is needed |
| --- | --- |
| `WriteTypeCorrect`, `BlocksWrittenOnce` | `Ordered`: the pending frame and those in the ring stand in the order of their numbers, none older than the last number written and none newer than the chunk being sent; `WrittenOnce`: what is stored belongs to chunks up to the last number. A frame that is executed carries the last number, and is recognised, or belongs to a chunk of which nothing is stored. |
| `FwriteContractHolds` | the refinement of `FwriteContract`. `CallSound`: where the program is in its call, and what each call returned; no command was given up before the first failed call. `Delivered`: while that is so, the file ends with what was stored of the last chunk, which starts where the reported bytes end, and the last command was stored, was refused by the card or has not run. Each step of the protocol is then one step of the contract (`StoreChunk` appends a part of the buffer, `TakeBytes` and `Return` end the call) or a stutter: a duplicate stores nothing. |
| `ReadTypeCorrect`, `ReadInOrderHolds` | `CallSound` again; `ReadProgress`: as long as no command ran twice and the Fseek was not given up, the caller's buffer is the file from `start` on (`OnCourse`) and the RP's position is where the next byte of the call stands (`Progress`: whole windows between two chunks; before and after the execution of the chunk under way; during the copy, whose window is the bytes from there). An answered command has run (`AcceptedReadRan`), so a chunk that is copied was filled for this request. |

### Gemdrive_proofs

| theorem | inductive invariant, and why it is needed |
| --- | --- |
| `TablesTypeCorrect`, `HandleIsMineHolds`, `LeakExplainedHolds`, `PexecReadsOneOpenHolds` | `FilesInv`. `WireOrder`: the current call's frames come after all older ones; `Workloads`: which calls go with which program; `SlotsKnown`: a slot that is in use belongs to a handle held, to an opening or closing under way, or is an orphan; `HeldMine`: held handles are apart and open on their files, no Fclose on its way names one, and the cell of an opening that has run names a slot of its own; `PexecCell`: nothing on its way moves the cell Pexec reads. |
| `ListingWholeHolds` | `ListInv`. `SlotOrder`: a DTA has one slot, stamped not ahead of the counter. `Kept`: a walk's slot stands where the program believes, and every slot touched later belongs to a DTA in `since`; or it was evicted, and then `since` is as large as the table, because the victim is the slot touched longest ago. `Outcome`: what the first run of a step found. |
| `BypassHolds` | `LockInv`. `Queued`: the frames of the command under way come last, and once it has run nothing older is left; `InStep`: while neither its LOCK nor an UNLOCK was given up, an answer is that of the command itself, which ran; `LockOver`: behind an UNLOCK that has run there is then no LOCK in the wire. |
| `CallsTypeCorrect`, `StatusIsTrueHolds` | `StatusInv`, on top of `LockInv`. `Rooted`: whatever exists lies in folders that exist, so that what Frename moves arrives whole and leaves nothing. `Spent`: runs, copies on the wire and attempts left are together no more than the attempts there are. `Harmless`: a call that has not run, or has run once and failed, has changed nothing. `Placed`: while dpathStr cannot have strayed it is the program's directory, but for a Dsetpath that has run and not yet returned; a copy of an older one leads back there. `Told`: what a call that has run says of the card stays true until it returns, because nothing but another copy of it can run in between, and that one is judged again (`Ran`, one lemma for each handler). |

### RunnerSession_proofs

| theorem | inductive invariant, and why it is needed |
| --- | --- |
| `RunnerTypeCorrect` | `Typed`: the types, with the program counter's say in which values are meaningful. |
| `NotTwiceHolds` | `TakenOnce`: a command in the sentinel that was started before is the one being done, or its report was given up and its verb does not wait. A mistaken answer does no harm here: the report that gave it has cleared the sentinel, unless it is the HELLO of the boot, which must have been given up before. |
| `ExecOnLoadedHolds` | `SessionInv`. While no report was given up or answered in another's stead (`Heard`): `InLine`: the ring holds copies of earlier reports, then copies of the one being sent, and after its answer nothing else; `Held`: the basepage of the mirror, of every load report on its way and of the staged slot is held by the ST, except where a report that takes it away is still to come (`Behind`). |
| `MirrorAgreesHolds`, `ReportIsMineHolds` | `MirrorInv`, which adds to it, for the causes each property excludes: `Mirrored` (every report on its way leaves the mirror as it is, except the first copy of the one being sent), `Single` (one frame on its way at a time), `Mine` (that frame is of the latest request), `SameCwd` (a cd is mirrored before the ST has done it, with the directory to go back to). |

### Device_proofs, Rings_proofs and NetSide_proofs

| theorem | inductive invariant, and why it is needed |
| --- | --- |
| `BootTypeCorrect`, `RefusalsAreLifted`, `CrashLoopsStay` | `Counting`: the countdown stays above zero while it runs; `DrawnAsKnown`: from the card's step to the end of a pass the menu was drawn as the card is known; `CountKept` and `InMenu`: the scratch registers hold the count in whichever way the device stopped, and a crash-loop boot has nothing pending that would restart the countdown. |
| `SelectTypeCorrect`, `TapsKeepSettings` | `Timed` and `Edges`: a noticed press is timed from the moment it was noticed, and the finger left no longer ago than what polls and debouncing have used up since. |
| `SettingsTypeCorrect`, `SettingsSurviveHolds` | `Saving`: the padded copy is what is in use, and a page is left to program; `HalfDone`: the pages before the current one hold the copy, and those behind are erased. Power may then go at any page. |
| `SelectionExistsHolds`, `SavesWhatIsShownHolds` | `PickerOK`: the entries were read from a folder of a card; `InDialogue`: while a dialogue has the keys, the screen shows the picker's page, or the prompt with all that was typed. |
| `DebugTypeCorrect`, `BytesAreAccounted`, `BytesAreDue` | `Written`: the position is the number of bytes emitted modulo the counter's size, and the newest ring's worth of bytes stand in their places; `Follows`: the same for each cursor, whose true lag stays below the modulus. Lemmas about remainders (`ModAdd`, `ModOfMod`) carry both across the wrap. |
| `CaptureTypeCorrect`, `SamplesInOrderHolds` | `Stored`: the DMA's next word and the newest samples in their words; `Reading`: the reader's index, and how far it is behind, between two polls and during a drain: less than a ring, unless the count slipped. |
| `TransfersTypeCorrect`, `ResourcesAreOwned` | `Sound`: well-formed records (only a live connection beyond its headers holds anything) with the property itself. Every step has one of three shapes (nothing shared changes hands, one object is let go of, one is opened), each a lemma. |
| `AbortSparesOthersHolds` | `PartialsMarked`: an upload holds the body lock, and while its card answers what its path names is its own partial file. |
| `ReaderTypeCorrect`, `BodiesAreExact` | `Position`: while headers are read all that came is in the buffer; while the body is read all that came after them has been handed on. |
| `LinkTypeCorrect`, `RejoinsKeepDistance` | `Spaced`: time since the last attempt plus what is left on the running timer is at least the shortest distance, for each state of the supervisor. |
| `WifiTypeCorrect`, `ShownIsOursHolds` | `AttemptsLeft`: an attempt begins within the limit. |
| `LoadTypeCorrect`, `LoadLandsWholeHolds` | `LoadKept`: a waiting connection is loading, others have room; `LoadInv`, while no cause was noted: `Alone` (one load, one report of it), `Posted` (the shared variables hold the chunk of the connection that waits), `Landed` (every byte received is in the staging buffer or in its place). |

### Assumptions

The constants have their types, and: a debug ring's counter is a multiple of the
ring (2^32 and a power of two in the code); the timers keep the order of the
code's; folders of a card are finitely many; the report of adv/load has at
least two attempts (`runner.s:92` gives it more); the hook is not installed where
the table says so, since with it the property is false (`CommandChannel_seed`).
Bounds of the models (`MaxCmds`, `MaxReq`, `MaxRing`, `MaxFrames`, ...) are
arbitrary naturals.

### Model-checked only

- Everything with fairness (`EveryCommandEnds`, `FwriteReturns`, `TailCatchesUp`,
  `RunnerComesBack`, `ConnectionsEnd`, `DeadIsRejoined`): liveness and ENABLED are
  out of the prover's reach.
- `DeviceTypeOK` and `FilesTypeOK`, which join the type invariants of parts in one
  formula; each part's is proved.

## Disagreements found

Shown by a run that ends in a violation:

- `CommandChannel_seed`: "Seed must advance to prove a real response"
  (`sidecart_functions.s:229`). With the hook installed it does not: the hook
  draws the same seed as the foreground command it preempts, and its answer
  satisfies both.
- `GemdriveRead_overrun`: Fread sends the whole count for every buffer
  (`gemdrive.s:849`), so a count above one buffer that is no multiple of it
  stores up to a whole last buffer and returns more than was asked for.
- `RunnerSession_unload`: unload does not stage the basepage it means to free
  (`http_server.c:1955`); load followed by unload frees a stale address.
- `SetupMenu_esc`: "ESC cancels the picker" (`emul.c`, `drawPage` too). The ST
  sends ESC as a start of the terminal: the screen is cleared, the picker stays
  open and takes the next key. (`term.c:696` names an "m" nobody registers.)

Read in the code while modelling, and excluded by the condition of a property,
part of an assumption, or outside a model, without a run of their own:

*Channel and transfers.*
- A foreground Fwrite chunk can be answered by the hook's command, and after an
  abandoned chunk the next one by the late execution of the old one
  (`CHANGELOG.md:30` says files arrive whole).
- A read that is executed, times out and is resent skips a buffer of the file,
  without an error (`docs/api.md:225`, "the ST retries them"); a relative seek
  seeks twice, and one that is given up returns a stale position.
- A seek before the start of the file is not an error: the file size is 64 bits
  wide, so it goes to the end of a file open for reading and extends one open for
  writing.
- Samples overwritten while a drain runs, or between the snapshot of a poll and
  its re-arm, are not in the overrun count (`commemul.h:26`, `docs/api.md:225`).

*GEMDRIVE calls.*
- CMD_RESET_GEM is defined (`gemdrive.s:66`) and never sent, though
  `gemdrive.h:25` has it clear the state of a session: after a reset of the ST
  `dpathStr` keeps the old directory while TOS believes in the root.
- An UNLOCK that is given up leaves the re-entry lock taken, and every call goes
  past GEMDRIVE until the next HELLO. So does a LOCK that is given up and runs
  late: its answer passes for that of the UNLOCK.
- Relative Dsetpath, Dcreate, Ddelete and Frename do not survive a retry; the
  status of the second run is the one returned. A call that is given up returns
  what its cell held.
- Dsetpath and Fdelete write a longword of which the ST reads a word: every error
  arrives as -1, where the comments promise -34 and -36.
- `.Frename` asks for the drive with `a4` unset, and `.Fdatime` treats the address
  of the time as a path; `.Dgetpath` of drive 0 answers with our path whatever
  drive is current. Fdatime returns what it was sent.
- A pattern "FOO.*" is cut to "FOO" and finds only the name without extension;
  FatFs matches long names only, while the ST was told short ones; `wildcardMatch`
  is never called.
- A duplicate of Pexec's Fopen moves the handle cell on, and the rest of the
  program is read from the start of the file through another opening.

*Runner.*
- adv/meminfo has no busy gate, but takes and clears busy flag and sentinel of a
  foreground command in flight (`docs/api.md:540` says 503 when busy).
- A late or repeated report clears busy flag and sentinel of the next command,
  which the ST then may never take although its request was accepted.
- The deadline of load is tested after the turn that handled the report too; a
  report in the last turn is discarded and the ST keeps a program the RP does
  not know (cause `raced`).
- A reset request is lost when another request, or the report of a program that
  ends, writes the sentinel before the hook looks (part of cause `late`).
- A request accepted between a reset and the Runner's HELLO is dropped by the
  HELLO (cause `early`); a reset of the ST during a load makes the spinning
  handler answer 200 with basepage 0.
- If the Runner's HELLO is given up, the relaunch timer writes START for ever.
- `runner.s:537` says the loaded state is cleared by the report of exec; the
  code keeps it, as the API documents.
- adv/meminfo in the middle of a report of the Runner: the report takes the answer
  to the hook's, and if its own frame was lost the RP never hears of the program
  that was loaded or freed (cause `mistaken`).
- adv/load: two loads at once share one buffer and mix their bytes, a chunk that
  was given up leaves its command in the sentinel and spoils the next load, and a
  repeated report acknowledges the next chunk early (`docs/api.md:1048`); a hook
  that takes the answer to the command it interrupted copies the chunk again and
  may acknowledge the next one unseen (`runner.s:1115`).

*Debug bytes.*
- `ring_used` of `/debug/log` (`docs/api.md:1146`) is wrong after the write
  position wraps (`debugcap.c:72`).
- The USB drain samples the line: a host that leaves and returns between two
  drains is not seen to attach and gets the backlog (`usbcdc.c:64`).
- `stream_debug_drive` closes a tail on ERR_MEM after it has pulled the bytes.

*Health, launch gate, SELECT.*
- A hang with interrupts off is reported as a reboot and ends a crash loop,
  though `health.c:201` and `README.md:176` keep it until SELECT or a power cycle.
- The window of crashes does not slide (`README.md:176`), and is not kept while the
  Wi-Fi connects.
- A HELLO restarts the countdown while the user is in the folder picker.
- A long press of SELECT erases the global configuration, not the app's
  (`README.md:117`); its ten seconds are as exact as the longest time between two
  polls, and two taps with no poll between them are one press.

*HTTP and card.*
- Deleting an open file gives FR_LOCKED, hence 500, where a comment at
  `http_server.c:4139` expects FR_DENIED and 409.
- After an f_close that failed the lock entry stays until the next mount, where
  the comment at `http_server.c:3915` says the unlink prevents that.
- The comment at `http_server.c:4361` has one check for the card cover uploads
  too; a PUT is dispatched before it.
- The partial file of an interrupted upload is removed by its path: after an
  exchange of the card or a renaming of the folder that is another file.
- A listing takes an error of `f_readdir` for the end of the folder.

*Network.*
- A link that flaps, or ARP requests that are refused for ever, keep a dead
  network from being noticed; a late answer to an old probe counts for the new.
- A link that returns with the address it had, within the grace period, is not
  reported to the menu, which shows it as down; a lost lease is shown as a link
  that is up with address 0.0.0.0.
- With a static address the boot connect succeeds at once, before any
  association, and the icon shows meanwhile (`README.md:216` has it hidden).
- A connect that succeeds in its last turn counts as timed out, and a wrong key
  does not end an attempt early.

*Menu and settings.*
- KEY_UP leaves a page of the picker without changing the page; a folder with as
  many subfolders as the picker has room for has no room left for its "..".
- A change of the card repaints the menu over an open picker, and turns the rest
  of a text that is being typed into menu commands; two keys within one pass of
  the main loop overwrite each other.
- On a card without the configured folder [O] fails until the next boot.
- "Any key" halts the countdown (`README.md:102`), ESC does not; "Press SPACE to
  continue" after an invalid value does nothing.
- A power cut during a save leaves a prefix of the image with a valid magic: saved
  values and defaults mixed. After a failed save the menu says that the change was
  not stored, yet it is in use and goes to flash with the next save. If
  `settings_init` has no memory at boot, the save of `main.c` erases the sector.

## What is not shown

- Everything marked as left out or not modelled in the inventory.
- The bits of a frame: a frame is whole, lost or broken.
- The 2^32 wrap of the command count, and collisions of random boot values.
- Real time, but for the timers whose order is modelled (`LinkSupervisor`,
  `SelectButton`, `BootGuard`). A timeout may happen at any poll.
- The contents of meminfo, path validation, HTTP headers and status texts,
  timestamps, adv/jump (it hands the ST to the user's code), and the check of the
  hook's installation address.
- That the hook sends nothing while a program calls GEMDRIVE: `GemdriveTables`,
  `GemdriveCalls`, `GemdriveWrite_plain` and `GemdriveFiles` have the foreground
  alone, and their properties are shown for it. What the hook can do to a
  foreground command is in `Cartridge` and `CommandChannel_seed`.
- A frame that waits in the ring through a reset of the ST is assumed to be
  handled before the HELLO of the next boot is sent (the ST takes seconds, the RP
  drains its ring thousands of times a second).
- Two programs writing to one file slot: `GemdriveWrite` and `GemdriveRead` have
  one slot each, and `GemdriveTables` has no contents.
- The gateway is assumed to be configured; without one the probe is not used.
- A tail of `/debug/log` whose client has vanished keeps its slot until lwIP
  fails to send something: the sweep leaves tails alone.

## How to run

In this directory:

    tlc -config DeviceSide.cfg MCDeviceSide.tla
    tlapm Rings_proofs.tla

Each run's module, configuration and properties are in `PROJECT.json`, with the
lines of the code that each definition models.
