---- MODULE CommandChannel ----
(***************************************************************************)
(* The synchronous command channel between the Atari ST and the RP2040.   *)
(*                                                                        *)
(* The ST reads the seed cell, sends a frame that carries that value as   *)
(* its token, and spins until the token cell echoes it and the seed cell  *)
(* has moved on (sidecart_functions.s); the send_sync macro sends again   *)
(* after a timeout and finally gives up (sidecart_macros.s).  The RP      *)
(* drains its sample ring, keeps the first complete frame of the drain,   *)
(* runs the callbacks and only then publishes token and seed (chandler.c).*)
(*                                                                        *)
(* Two contexts of the ST may send: the foreground and, when the Advanced *)
(* Runner hook is installed, the interrupt handler of runner.s, which     *)
(* preempts the foreground anywhere.                                      *)
(*                                                                        *)
(* Tokens are integers.  A boot seeds both cells with random values, here *)
(* negative numbers assumed different from each other and from every      *)
(* command count; the 2^32 wrap of the count is not modelled.             *)
(***************************************************************************)
EXTENDS Integers, Sequences, FiniteSets

CONSTANTS
    MaxCmds,        \* bound: commands the ST issues
    Retries,        \* CMD_RETRIES_COUNT: attempts after the first one
    MaxReboots,     \* bound: reboots of the RP under a running ST
    HookInstalled   \* whether the interrupt hook sends commands too

ASSUME MaxCmdsAssumption == MaxCmds \in Nat \ {0}
ASSUME RetriesAssumption == Retries \in Nat
ASSUME MaxRebootsAssumption == MaxReboots \in Nat
ASSUME HookInstalledAssumption == HookInstalled \in BOOLEAN

VARIABLES
    issued,     \* commands issued so far; commands are numbered from 1
    outcome,    \* what the issuer of each command knows of it
    toks,       \* tokens the attempts of each command have carried
    executed,   \* times the RP ran the callbacks for each command
    lastRun,    \* command whose results the shared cells hold (0: none)
    pc,         \* per context: where it is in send_sync
    cur,        \* per context: command it is sending
    want,       \* per context: d2, the token it waits for
    left,       \* per context: attempts left
    line,       \* whether the foreground is inside a frame, and its state
    ring,       \* complete frames in the sample ring, oldest first
    pending,    \* pendingProtocol, the one frame being handled
    rpc,        \* where chandler_loop is
    tokenCell, seedCell,    \* RANDOM_TOKEN and RANDOM_TOKEN_SEED
    count,      \* incrementalCmdCount
    boots       \* reboots so far

stVars == <<issued, outcome, toks, pc, cur, want, left>>
cells  == <<tokenCell, seedCell, count>>
vars   == <<stVars, executed, lastRun, line, ring, pending, rpc, cells, boots>>

Command == 1..MaxCmds
Context == {"fg", "isr"}
Frame   == [cmd : Command, tok : Int]
NoFrame == [cmd |-> 0, tok |-> 0]

BootToken(b) == -(2 * b + 1)
BootSeed(b)  == -(2 * b + 2)

TypeOK ==
    /\ issued \in 0..MaxCmds
    /\ outcome \in [Command -> {"unsent", "open", "ok", "gaveUp"}]
    /\ toks \in [Command -> SUBSET Int]
    /\ executed \in [Command -> Nat]
    /\ lastRun \in 0..MaxCmds
    /\ pc \in [Context -> {"idle", "seeded", "sending", "wait", "check"}]
    /\ cur \in [Context -> 0..MaxCmds]
    /\ \A x \in Context : pc[x] # "idle" => cur[x] \in Command
    /\ want \in [Context -> Int]
    /\ left \in [Context -> Nat]
    /\ line \in {"clear", "open", "broken"}
    /\ ring \in Seq(Frame)
    /\ pending \in Frame \cup {NoFrame}
    /\ rpc \in {"idle", "pending", "run"}
    /\ rpc # "idle" => pending \in Frame
    /\ tokenCell \in Int /\ seedCell \in Int /\ count \in Nat
    /\ boots \in 0..MaxReboots

Init ==
    /\ issued = 0
    /\ outcome = [c \in Command |-> "unsent"]
    /\ toks = [c \in Command |-> {}]
    /\ executed = [c \in Command |-> 0]
    /\ lastRun = 0
    /\ pc = [x \in Context |-> "idle"]
    /\ cur = [x \in Context |-> 0]
    /\ want = [x \in Context |-> 0]
    /\ left = [x \in Context |-> 0]
    /\ line = "clear"
    /\ ring = <<>>
    /\ pending = NoFrame
    /\ rpc = "idle"
    /\ tokenCell = BootToken(0)
    /\ seedCell = BootSeed(0)
    /\ count = 0
    /\ boots = 0

----------------------------------------------------------------------------
(* The ST.  The interrupt handler runs to its end before the foreground    *)
(* takes another step.                                                     *)

Running(x) == x = "isr" \/ pc["isr"] = "idle"

\* Start of an attempt: d2 := seed cell.  Every attempt reads it afresh.
ReadSeed(x, c) ==
    /\ want' = [want EXCEPT ![x] = seedCell]
    /\ toks' = [toks EXCEPT ![c] = @ \cup {seedCell}]
    /\ pc' = [pc EXCEPT ![x] = "seeded"]

Begin(x) ==
    /\ pc[x] = "idle" /\ issued < MaxCmds
    /\ Running(x) /\ (x = "isr" => HookInstalled)
    /\ issued' = issued + 1
    /\ outcome' = [outcome EXCEPT ![issued + 1] = "open"]
    /\ cur' = [cur EXCEPT ![x] = issued + 1]
    /\ left' = [left EXCEPT ![x] = Retries]
    /\ ReadSeed(x, issued + 1)
    /\ UNCHANGED <<executed, lastRun, line, ring, pending, rpc, cells, boots>>

FrameOf(x) == [cmd |-> cur[x], tok |-> want[x]]

\* The header word is out: until the checksum the frame can be broken into.
HeaderOut ==
    /\ pc["fg"] = "seeded" /\ Running("fg")
    /\ pc' = [pc EXCEPT !["fg"] = "sending"]
    /\ line' = "open"
    /\ UNCHANGED <<issued, outcome, toks, cur, want, left, executed, lastRun,
                   ring, pending, rpc, cells, boots>>

\* The last word is out.  A frame the hook wrote into fails its checksum; any
\* other frame reaches the ring, or is lost to a corrupted sample or to a
\* silence longer than PROTOCOL_READ_RESTART_MICROSECONDS.
ChecksumOut ==
    /\ pc["fg"] = "sending" /\ Running("fg")
    /\ pc' = [pc EXCEPT !["fg"] = "wait"]
    /\ line' = "clear"
    /\ \/ line = "open" /\ ring' = Append(ring, FrameOf("fg"))
       \/ UNCHANGED ring
    /\ UNCHANGED <<issued, outcome, toks, cur, want, left, executed, lastRun,
                   pending, rpc, cells, boots>>

\* The hook sends its whole frame at once: nothing that sends preempts it.
\* Inside an open foreground frame the parser takes it for payload.
HookFrameOut ==
    /\ pc["isr"] = "seeded"
    /\ pc' = [pc EXCEPT !["isr"] = "wait"]
    /\ line' = IF line = "open" THEN "broken" ELSE line
    /\ \/ line # "open" /\ ring' = Append(ring, FrameOf("isr"))
       \/ UNCHANGED ring
    /\ UNCHANGED <<issued, outcome, toks, cur, want, left, executed, lastRun,
                   pending, rpc, cells, boots>>

\* Mutant: any token is taken for the answer.
SeeToken_Any(x) ==
    /\ pc[x] = "wait" /\ Running(x)
    /\ pc' = [pc EXCEPT ![x] = "check"]
    /\ UNCHANGED <<issued, outcome, toks, cur, want, left, executed, lastRun,
                   line, ring, pending, rpc, cells, boots>>

\* cmp.l (a1), d2
SeeToken(x) ==
    /\ pc[x] = "wait" /\ Running(x)
    /\ tokenCell = want[x]
    /\ pc' = [pc EXCEPT ![x] = "check"]
    /\ UNCHANGED <<issued, outcome, toks, cur, want, left, executed, lastRun,
                   line, ring, pending, rpc, cells, boots>>

\* cmp.l RANDOM_TOKEN_SEED_ADDR, d2: the seed must have moved
Accept(x) ==
    /\ pc[x] = "check" /\ Running(x)
    /\ seedCell # want[x]
    /\ pc' = [pc EXCEPT ![x] = "idle"]
    /\ outcome' = [outcome EXCEPT ![cur[x]] = "ok"]
    /\ UNCHANGED <<issued, toks, cur, want, left, executed, lastRun,
                   line, ring, pending, rpc, cells, boots>>

NotReady(x) ==
    /\ pc[x] = "check" /\ Running(x)
    /\ seedCell = want[x]
    /\ pc' = [pc EXCEPT ![x] = "wait"]
    /\ UNCHANGED <<issued, outcome, toks, cur, want, left, executed, lastRun,
                   line, ring, pending, rpc, cells, boots>>

\* Mutant: the retry counter is saved and restored around each attempt.
Resend_Endless(x) ==
    /\ pc[x] = "wait" /\ Running(x)
    /\ left[x] > 0
    /\ ReadSeed(x, cur[x])
    /\ UNCHANGED <<issued, outcome, cur, left, executed, lastRun,
                   line, ring, pending, rpc, cells, boots>>

\* COMMAND_TIMEOUT polls without an answer: dbf d7, and a new attempt
Resend(x) ==
    /\ pc[x] = "wait" /\ Running(x)
    /\ left[x] > 0
    /\ left' = [left EXCEPT ![x] = @ - 1]
    /\ ReadSeed(x, cur[x])
    /\ UNCHANGED <<issued, outcome, cur, executed, lastRun,
                   line, ring, pending, rpc, cells, boots>>

\* Mutant: the last timeout leaves d0 at zero, as after an answer.
GiveUp_AsAnswered(x) ==
    /\ pc[x] = "wait" /\ Running(x)
    /\ left[x] = 0
    /\ pc' = [pc EXCEPT ![x] = "idle"]
    /\ outcome' = [outcome EXCEPT ![cur[x]] = "ok"]
    /\ UNCHANGED <<issued, toks, cur, want, left, executed, lastRun,
                   line, ring, pending, rpc, cells, boots>>

GiveUp(x) ==
    /\ pc[x] = "wait" /\ Running(x)
    /\ left[x] = 0
    /\ pc' = [pc EXCEPT ![x] = "idle"]
    /\ outcome' = [outcome EXCEPT ![cur[x]] = "gaveUp"]
    /\ UNCHANGED <<issued, toks, cur, want, left, executed, lastRun,
                   line, ring, pending, rpc, cells, boots>>

----------------------------------------------------------------------------
(* The RP: chandler_loop, called from the main loop.                       *)

\* Mutant: the newest frame of the ring is handled first.
Poll_NewestFirst ==
    /\ rpc = "idle" /\ ring # <<>>
    /\ pending' = ring[Len(ring)]
    /\ ring' = SubSeq(ring, 1, Len(ring) - 1)
    /\ rpc' = "pending"
    /\ UNCHANGED <<stVars, executed, lastRun, line, cells, boots>>

\* Mutant: token and seed are published before the callbacks run.
Poll_PublishesEarly ==
    /\ rpc = "idle" /\ ring # <<>>
    /\ pending' = Head(ring)
    /\ tokenCell' = Head(ring).tok /\ seedCell' = count + 1
    /\ \E k \in 1..Len(ring) : ring' = SubSeq(ring, k + 1, Len(ring))
    /\ rpc' = "pending"
    /\ UNCHANGED <<stVars, executed, lastRun, line, count, boots>>

\* A poll drains the samples captured so far.  The first complete frame
\* becomes the pending one, the other frames of the same drain are dropped.
Poll ==
    /\ rpc = "idle" /\ ring # <<>>
    /\ pending' = Head(ring)
    /\ \E k \in 1..Len(ring) : ring' = SubSeq(ring, k + 1, Len(ring))
    /\ rpc' = "pending"
    /\ UNCHANGED <<stVars, executed, lastRun, line, cells, boots>>

\* commemul_poll finds that the DMA lapped it and skips everything captured.
Overrun ==
    /\ rpc = "idle" /\ ring # <<>>
    /\ ring' = <<>>
    /\ UNCHANGED <<stVars, executed, lastRun, line, pending, rpc, cells, boots>>

\* Every registered callback runs: the effect of the command.
Dispatch ==
    /\ rpc = "pending"
    /\ executed' = [executed EXCEPT ![pending.cmd] = @ + 1]
    /\ lastRun' = pending.cmd
    /\ rpc' = "run"
    /\ UNCHANGED <<stVars, line, ring, pending, cells, boots>>

\* TPROTO_SET_RANDOM_TOKEN64: token and new count in one 64-bit store.  The
\* two bus words leave the RP within nanoseconds, and the ST never makes two
\* reads that close, so it cannot tell the store from an atomic one.
Publish ==
    /\ rpc = "run"
    /\ count' = count + 1
    /\ tokenCell' = pending.tok
    /\ seedCell' = count + 1
    /\ pending' = NoFrame
    /\ rpc' = "idle"
    /\ UNCHANGED <<stVars, executed, lastRun, line, ring, boots>>

\* Panic, hang or reset of the RP while the ST runs on: chandler_init.  What
\* follows of an open frame is not a frame to the new parser.
Reboot ==
    /\ boots < MaxReboots
    /\ boots' = boots + 1
    /\ tokenCell' = BootToken(boots + 1)
    /\ seedCell' = BootSeed(boots + 1)
    /\ count' = 0
    /\ ring' = <<>> /\ pending' = NoFrame /\ rpc' = "idle"
    /\ lastRun' = 0
    /\ line' = IF line = "open" THEN "broken" ELSE line
    /\ UNCHANGED <<stVars, executed>>

----------------------------------------------------------------------------
SendSync(x) ==
    Begin(x) \/ SeeToken(x) \/ Accept(x) \/ NotReady(x) \/ Resend(x) \/ GiveUp(x)

ChandlerLoop == Poll \/ Overrun \/ Dispatch \/ Publish

Next ==
    \/ \E x \in Context : SendSync(x)
    \/ HeaderOut \/ ChecksumOut \/ HookFrameOut
    \/ ChandlerLoop
    \/ Reboot

Spec == Init /\ [][Next]_vars

(* The ST spins on the CPU and its timeout is a loop count, so each of its  *)
(* steps is eventually taken; so is each step of the RP's main loop.  A new *)
(* command, a loss and a reboot are never owed.                             *)
ContextStep(x) ==
    \/ SeeToken(x) \/ Accept(x) \/ NotReady(x) \/ Resend(x) \/ GiveUp(x)
    \/ x = "fg" /\ (HeaderOut \/ ChecksumOut)
    \/ x = "isr" /\ HookFrameOut

----------------------------------------------------------------------------
(* Properties.                                                             *)

ShareToken(c, d) == toks[c] \cap toks[d] # {}

\* A command that send_sync reports as answered did run on the RP, unless
\* another command carried the same token.  Whatever is lost, resent, dropped
\* or rebooted, and whoever preempts whom (sidecart_functions.s, the wait
\* loop; chandler_loop publishes only after the callbacks).
AnsweredWasExecuted ==
    \A c \in Command : outcome[c] = "ok" =>
        executed[c] > 0 \/ \E d \in Command \ {c} : ShareToken(c, d)

\* With the foreground alone, the only command whose token can be used again
\* by a later one is a command that was given up: send_sync does not draw
\* fresh tokens, it relies on the seed having moved on.
TokenReuseNeedsGiveUp ==
    boots = 0 => \A c, d \in Command :
        c < d /\ ShareToken(c, d) => outcome[c] = "gaveUp"

\* With the foreground alone an answer can be false only because an earlier
\* command was given up and ran after all, even when the RP reboots in between.
FalseAnswerNeedsGiveUp ==
    \A c \in Command : outcome[c] = "ok" =>
        \/ executed[c] > 0
        \/ \E d \in 1..(c - 1) :
               outcome[d] = "gaveUp" /\ executed[d] > 0 /\ ShareToken(c, d)

\* When the foreground accepts an answer from an RP that stayed up, the shared
\* cells it is about to read hold the results of its own command, not those of
\* a late duplicate of an earlier one.
AnswerIsMine ==
    [][\A c \in Command :
        /\ boots = 0
        /\ outcome[c] = "open" /\ outcome'[c] = "ok"
        /\ \A d \in Command \ {c} : ~ShareToken(c, d)
        => lastRun = c]_vars

\* A duplicate left in the ring by a timeout is never executed after a newer
\* command has been: effects on the card happen in the order of the calls.
NoLateReplay ==
    [][\A c, d \in Command :
        c < d /\ executed[d] > 0 => executed'[c] = executed[c]]_vars

\* The comment of the wait loop, "Seed must advance to prove a real response".
SeedProvesResponse ==
    \A c \in Command : outcome[c] = "ok" => executed[c] > 0

\* What the callers of send_sync may rely on while the hook is not installed,
\* without tokens, cells and rings: ChannelContract.  The frame that the RP is
\* handling is still on its way until its callbacks have run.
Phase == CASE pc["fg"] = "idle" -> "idle"
           [] pc["fg"] \in {"seeded", "sending"} -> "sending"
           [] pc["fg"] \in {"wait", "check"} -> "waiting"

Handled == IF rpc = "pending" THEN <<pending.cmd>> ELSE <<>>
Flying  == Handled \o [i \in 1..Len(ring) |-> ring[i].cmd]

Channel == INSTANCE ChannelContract WITH
    phase <- Phase, left <- left["fg"], flying <- Flying

SendSyncKeepsContract == Channel!ContractSpec

\* send_sync always returns, answered or given up: neither a lost frame nor a
\* reboot of the RP leaves the ST spinning for ever.
EveryCommandEnds ==
    \A x \in Context : pc[x] # "idle" ~> pc[x] = "idle"

====
