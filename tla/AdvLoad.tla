---- MODULE AdvLoad ----
(***************************************************************************)
(* POST /api/v1/runner/adv/load: connections stream their bodies through   *)
(* one staging buffer in APP_FREE, and the ST's VBL hook copies it, chunk  *)
(* by chunk, to its target (http_server.c, runner.c, runner.s).  Every     *)
(* load has a region of its own in the ST's RAM; a byte is the place it    *)
(* belongs to.  While a chunk is dispatched the RP does nothing but poll   *)
(* the command ring; the ST runs on its own.  Its report travels over the  *)
(* command channel at that channel's contract: an attempt is captured or   *)
(* lost, and may be handled late.                                          *)
(***************************************************************************)
EXTENDS Integers, FiniteSets

CONSTANTS
    Loaders,    \* connections of the pool
    Chunk,      \* ADV_LOAD_CHUNK_SIZE
    Total,      \* bytes of a load
    Retries,    \* CMD_RETRIES_COUNT
    MaxFrames,  \* bound: reports captured and not yet handled
    MaxLoads    \* bound: loads begun

ASSUME LoadAssumption ==
    /\ IsFiniteSet(Loaders) /\ "none" \notin Loaders
    /\ {Chunk, Total, Retries} \subseteq Nat \ {0}
    /\ {MaxFrames, MaxLoads} \subseteq Nat

VARIABLES
    loads,      \* per connection: what adv_load_received and adv_load_chunk_pos are
    waiting,    \* the connection in adv_load_dispatch_chunk
    staging,    \* the buffer at adv_load_buf_base
    slots,      \* shared variables 18 and 19
    sentinel,   \* the command word is RUNNER_ADV_CMD_LOAD_CHUNK
    runnerAdvLoadAcked,
    hook,       \* the ST's VBL hook: idle, copying, reporting, its report answered
    latched,    \* the target and length it works with
    left,       \* attempts send_sync has left
    frames,     \* its reports in the ring: of this copy, of older ones
    ram,        \* the loads' regions
    begun,      \* loads begun
    causes      \* history: what may have mixed the bytes of a load

stVars == <<hook, latched, left, ram>>
loadVars == <<loads, waiting, staging, slots, sentinel, runnerAdvLoadAcked,
              frames, begun, causes, stVars>>

NoByte == [of |-> "none", at |-> 0]
Bytes  == [of : Loaders, at : 0..(Total - 1)] \cup {NoByte}
NoTarget == [of |-> "none", at |-> 0, len |-> 0]
Targets  == [of : Loaders, at : 0..(Total - 1), len : 1..Chunk] \cup {NoTarget}

LoadTypeOK ==
    /\ loads \in [Loaders -> [state : {"idle", "load", "done", "failed"},
                              received : 0..Total, pos : 0..Chunk]]
    /\ waiting \in Loaders \cup {"none"}
    /\ staging \in [0..(Chunk - 1) -> Bytes]
    /\ slots \in Targets /\ latched \in Targets
    /\ sentinel \in BOOLEAN /\ runnerAdvLoadAcked \in BOOLEAN
    /\ hook \in {"idle", "copy", "report", "answered"} /\ left \in 0..(Retries + 1)
    /\ frames \in [now : 0..MaxFrames, old : 0..MaxFrames]
    /\ ram \in [Loaders -> [0..(Total - 1) -> Bytes]]
    /\ begun \in 0..MaxLoads
    /\ causes \subseteq {"overlap", "given up", "repeated", "mistaken"}

LoadInit ==
    /\ loads = [c \in Loaders |-> [state |-> "idle", received |-> 0, pos |-> 0]]
    /\ waiting = "none" /\ staging = [i \in 0..(Chunk - 1) |-> NoByte]
    /\ slots = NoTarget /\ latched = NoTarget
    /\ sentinel = FALSE /\ runnerAdvLoadAcked = FALSE
    /\ hook = "idle" /\ left = 0 /\ frames = [now |-> 0, old |-> 0]
    /\ ram = [c \in Loaders |-> [i \in 0..(Total - 1) |-> NoByte]]
    /\ begun = 0 /\ causes = {}

----------------------------------------------------------------------------
(* The RP.                                                                 *)

Loading == {c \in Loaders : loads[c].state = "load"}

\* handle_runner_adv_load_init: nothing asks whether another load is under way
BeginLoad(c) ==
    /\ waiting = "none" /\ loads[c].state # "load" /\ begun < MaxLoads
    /\ loads' = [loads EXCEPT ![c] = [state |-> "load", received |-> 0, pos |-> 0]]
    /\ ram' = [ram EXCEPT ![c] = [i \in 0..(Total - 1) |-> NoByte]]
    /\ begun' = begun + 1
    /\ causes' = causes \cup IF Loading = {} THEN {} ELSE {"overlap"}
    /\ UNCHANGED <<waiting, staging, slots, sentinel, runnerAdvLoadAcked, frames,
                   hook, latched, left>>

\* Mutant: the acknowledgement of the chunk before is left standing.
Dispatch_OldAck(c, received, pos) ==
    /\ waiting' = c /\ sentinel' = TRUE
    /\ slots' = [of |-> c, at |-> received - pos, len |-> pos]
    /\ UNCHANGED runnerAdvLoadAcked

\* adv_load_dispatch_chunk up to its wait
Dispatch(c, received, pos) ==
    /\ waiting' = c /\ sentinel' = TRUE
    /\ slots' = [of |-> c, at |-> received - pos, len |-> pos]
    /\ runnerAdvLoadAcked' = FALSE

\* adv_load_drain_pbuf for a byte; a full buffer and the last byte dispatch
StageByte(c) ==
    LET received == loads[c].received + 1
        pos == loads[c].pos + 1
    IN  /\ waiting = "none" /\ loads[c].state = "load"
        /\ staging' = [staging EXCEPT ![loads[c].pos] = [of |-> c, at |-> loads[c].received]]
        /\ loads' = [loads EXCEPT ![c].received = received, ![c].pos = pos]
        /\ IF pos = Chunk \/ received = Total
           THEN Dispatch(c, received, pos)
           ELSE UNCHANGED <<waiting, slots, sentinel, runnerAdvLoadAcked>>
        /\ UNCHANGED <<frames, begun, causes, stVars>>

\* the chunk is acknowledged; after the last one adv_load_finish_ok answers 200
ChunkAcked ==
    /\ waiting # "none" /\ runnerAdvLoadAcked
    /\ waiting' = "none"
    /\ loads' = [loads EXCEPT ![waiting].pos = 0,
                              ![waiting].state = IF loads[waiting].received = Total
                                                 THEN "done" ELSE "load"]
    /\ UNCHANGED <<staging, slots, sentinel, runnerAdvLoadAcked, frames, begun, causes, stVars>>

\* ADV_LOAD_TIMEOUT_US: 504, and the command stays where it is
ChunkTimesOut ==
    /\ waiting # "none" /\ ~runnerAdvLoadAcked
    /\ waiting' = "none"
    /\ loads' = [loads EXCEPT ![waiting].state = "failed"]
    /\ causes' = causes \cup {"given up"}
    /\ UNCHANGED <<staging, slots, sentinel, runnerAdvLoadAcked, frames, begun, stVars>>

\* the client goes away, or the sweep closes it
LoadAborted(c) ==
    /\ waiting = "none" /\ loads[c].state = "load"
    /\ loads' = [loads EXCEPT ![c].state = "failed"]
    /\ UNCHANGED <<waiting, staging, slots, sentinel, runnerAdvLoadAcked, frames, begun,
                   causes, stVars>>

\* runner_command_cb, from the spin-wait or the main loop; the channel then
\* answers the report
DoneLoadChunk(which) ==
    /\ frames[which] > 0
    /\ frames' = [frames EXCEPT ![which] = @ - 1]
    /\ sentinel' = FALSE /\ runnerAdvLoadAcked' = TRUE
    /\ hook' = IF which = "now" THEN "answered" ELSE hook
    /\ UNCHANGED <<loads, waiting, staging, slots, begun, causes, latched, left, ram>>

----------------------------------------------------------------------------
(* The ST: adv_load_chunk_isr.                                             *)

HookStarts ==
    /\ hook = "idle" /\ sentinel
    /\ hook' = "copy" /\ latched' = slots
    /\ UNCHANGED <<loads, waiting, staging, slots, sentinel, runnerAdvLoadAcked, frames,
                   left, ram, begun, causes>>

HookCopies ==
    /\ hook = "copy"
    /\ ram' = [ram EXCEPT ![latched.of] =
                 [i \in 0..(Total - 1) |->
                    IF i \in latched.at..(latched.at + latched.len - 1)
                    THEN staging[i - latched.at] ELSE @[i]]]
    /\ hook' = "report" /\ left' = Retries + 1
    /\ UNCHANGED <<loads, waiting, staging, slots, sentinel, runnerAdvLoadAcked, frames,
                   latched, begun, causes>>

\* an attempt of send_sync
HookReports ==
    /\ hook \in {"report", "answered"} /\ left > 0 /\ frames.now + frames.old < MaxFrames
    /\ left' = left - 1
    /\ \/ frames' = [frames EXCEPT !.now = @ + 1]
       \/ UNCHANGED frames
    /\ causes' = causes \cup IF left <= Retries THEN {"repeated"} ELSE {}
    /\ UNCHANGED <<loads, waiting, staging, slots, sentinel, runnerAdvLoadAcked,
                   hook, latched, ram, begun>>

\* the interrupt returns; what is left of its reports is from an older copy
HookEnds ==
    /\ hook' = "idle" /\ left' = 0 /\ latched' = NoTarget
    /\ frames' = [now |-> 0, old |-> frames.now + frames.old]
    /\ UNCHANGED <<loads, waiting, staging, slots, sentinel, runnerAdvLoadAcked,
                   ram, begun>>

\* the answer is seen, or the last attempt runs out
HookReturns ==
    /\ hook = "answered" \/ (hook = "report" /\ left = 0)
    /\ HookEnds /\ UNCHANGED causes

\* the answer is the one to the command the hook interrupted: both drew the
\* same token from the seed (CommandChannel)
HookTakesAnother ==
    /\ hook = "report" /\ left \in 1..Retries
    /\ HookEnds /\ causes' = causes \cup {"mistaken"}

LoadNext ==
    \/ \E c \in Loaders : BeginLoad(c) \/ StageByte(c) \/ LoadAborted(c)
    \/ ChunkAcked \/ ChunkTimesOut
    \/ \E which \in {"now", "old"} : DoneLoadChunk(which)
    \/ HookStarts \/ HookCopies \/ HookReports \/ HookReturns
    \/ HookTakesAnother

LoadSpec == LoadInit /\ [][LoadNext]_loadVars

----------------------------------------------------------------------------
(* Properties.                                                             *)

\* A load that is answered 200 has every byte of it in its place, and no byte
\* of another load, unless two loads were under way at once, a chunk had been
\* given up before, or the ST had reported one twice or taken the answer to
\* another command for the one to its report.
LoadLandsWhole ==
    [][\A c \in Loaders :
        loads[c].state = "load" /\ loads'[c].state = "done" /\ causes' = {}
        => ram'[c] = [i \in 0..(Total - 1) |-> [of |-> c, at |-> i]]]_loadVars
====
