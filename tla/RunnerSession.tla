---- MODULE RunnerSession ----
(***************************************************************************)
(* A Runner session: the HTTP endpoints of http_server.c hand one command  *)
(* at a time to the ST through the sentinel cell, guarded by a busy flag;  *)
(* runner.s polls the cell, calls GEMDOS and reports with a DONE command;  *)
(* the callback of runner.c updates the RP's mirror of the ST (emul.c) and *)
(* clears the cell.  Resets, timeouts, resent reports and the interrupt    *)
(* hook's meminfo cross all of this.                                       *)
(*                                                                        *)
(* Foreground requests are numbered; a number also stands for the path a   *)
(* request stages, 0 for the root directory.  Run stands for res as well,  *)
(* which holds the same lock and mirrors nothing.  Reports travel over the *)
(* command channel, seen here as a FIFO of copies: lost, resent, or left   *)
(* behind after the answer, and never executed after a newer report; the   *)
(* answer to one may pass for the answer to another, where CommandChannel  *)
(* shows that it can.  adv/jump and adv/load hand the ST to code of the     *)
(* user and are left out.                                                  *)
(***************************************************************************)
EXTENDS Naturals, Sequences, FiniteSets

CONSTANTS
    MaxReq,     \* bound: foreground requests accepted
    MaxUpsets,  \* bound: reset and adv/meminfo requests, presses of the button
    Retries,    \* CMD_RETRIES_COUNT
    MaxRing,    \* bound: reports captured and not yet handled
    Pages       \* basepage addresses GEMDOS may return

ASSUME BoundsAssumption ==
    {MaxReq, MaxUpsets, Retries, MaxRing} \subseteq Nat
ASSUME PagesAssumption == Pages \subseteq Nat \ {0}

VARIABLES
    nReq,       \* foreground requests accepted so far
    upsets,     \* resets, adv/meminfo requests and presses of the button so far
    rp,         \* the runner* variables of emul.c
    sentinel,   \* CMD_MAGIC_SENTINEL: a command, and whose request it is
    path, slot, \* RUNNER_PATH and RUNNER_BASEPAGE in APP_FREE
    relaunch,   \* runnerRelaunchAtMs # 0
    waiting,    \* the HTTP handler that spins for the ST, or "none"
    st,         \* where the ST is
    doing, arg, \* the command it is at, and the cell it read for it
    val,        \* the result it reports
    left, acked,    \* attempts left for the report; whether it is answered
    isr,        \* the hook is in adv_meminfo_isr
    loaded,     \* basepages Pexec(3) allocated and Mfree has not released
    stCwd,      \* the ST's current directory
    boot,       \* cold boots of the ST so far
    ring,       \* reports captured by the RP, oldest first
    taken,      \* requests the ST has started
    causes      \* what has happened that the mirror does not survive

http  == <<nReq, path, slot, waiting>>
stMem == <<loaded, stCwd, boot>>
stCpu == <<st, doing, arg, val, left, acked, isr>>
cells == <<sentinel, relaunch>>
seen  == <<taken, causes>>
vars  == <<upsets, http, stMem, stCpu, cells, rp, ring, seen>>

Root    == 0
Request == 1..MaxReq
Verb    == {"run", "cd", "load", "exec", "unload", "mem"}
Waits   == {"load", "exec", "unload"}     \* verbs with a wait_clear spin
Nop     == [cmd |-> "none", req |-> 0]

TypeOK ==
    /\ nReq \in 0..MaxReq /\ upsets \in 0..MaxUpsets
    /\ rp \in [busy : BOOLEAN, basepage : Pages \cup {0}, memPending : BOOLEAN,
               cwd : {Root} \cup Request, cwdPrev : {Root} \cup Request]
    /\ sentinel \in [cmd : Verb \cup {"none", "start", "reset", "advMem"},
                     req : 0..MaxReq]
    /\ path \in 0..MaxReq /\ slot \in Pages \cup {0} /\ relaunch \in BOOLEAN
    /\ waiting \in {"none", "load", "unload", "mem", "advMem"}
    /\ st \in {"boot", "menu", "hello", "poll", "work", "report", "clear"}
    /\ st \in {"work", "report", "clear"} => doing.cmd \in Verb
    /\ left \in 0..(Retries + 1) /\ acked \in BOOLEAN /\ isr \in BOOLEAN
    /\ isr => st \notin {"boot", "menu"}
    /\ loaded \subseteq Pages /\ stCwd \in {Root} \cup Request
    /\ Len(ring) <= MaxRing
    /\ taken \subseteq Request

\* cmdRunner: [U] has just been pressed in the setup menu.
Init ==
    /\ nReq = 0 /\ upsets = 0
    /\ rp = [busy |-> FALSE, basepage |-> 0, memPending |-> FALSE,
             cwd |-> Root, cwdPrev |-> Root]
    /\ sentinel = [cmd |-> "start", req |-> 0]
    /\ path = 0 /\ slot = 0 /\ relaunch = FALSE /\ waiting = "none"
    /\ st = "menu" /\ doing = Nop /\ arg = 0 /\ val = 0
    /\ left = 0 /\ acked = FALSE /\ isr = FALSE
    /\ loaded = {} /\ stCwd = Root /\ boot = 0
    /\ ring = <<>>
    /\ taken = {} /\ causes = {}

\* From runner_post_reloc to the next cold boot the hook sees every tick.
Hooked == st \notin {"boot", "menu"}

\* Until the HELLO cancels the relaunch the ST is on its way back: a request
\* accepted now comes early, and HELLO will drop it.
Early == IF relaunch THEN {"early"} ELSE {}

\* A reset the hook has not seen is lost when the cell is written again.
LostReset == IF sentinel.cmd = "reset" /\ Hooked THEN {"late"} ELSE {}

----------------------------------------------------------------------------
(* http_server.c.  A handler that spins lets no other request in.          *)

Submit(verb, session) ==
    /\ waiting = "none" /\ nReq < MaxReq
    /\ nReq' = nReq + 1
    /\ rp' = [session EXCEPT !.busy = TRUE]
    /\ sentinel' = [cmd |-> verb, req |-> nReq + 1]
    /\ causes' = causes \cup LostReset \cup Early
    /\ UNCHANGED <<upsets, relaunch, stMem, stCpu, ring, taken>>

\* Mutant: run does not look at the busy flag.
Run_Ungated ==
    /\ Submit("run", rp)
    /\ path' = nReq'
    /\ UNCHANGED <<slot, waiting>>

Run ==
    /\ ~rp.busy
    /\ Submit("run", rp)
    /\ path' = nReq'
    /\ UNCHANGED <<slot, waiting>>

\* Mutant: the directory to come back to is not saved.
Cd_NoPrev ==
    /\ ~rp.busy
    /\ Submit("cd", [rp EXCEPT !.cwd = nReq + 1])
    /\ path' = nReq'
    /\ UNCHANGED <<slot, waiting>>

\* The mirror takes the new directory before the ST has it.
Cd ==
    /\ ~rp.busy
    /\ Submit("cd", [rp EXCEPT !.cwdPrev = rp.cwd, !.cwd = nReq + 1])
    /\ path' = nReq'
    /\ UNCHANGED <<slot, waiting>>

Load ==
    /\ ~rp.busy /\ rp.basepage = 0
    /\ Submit("load", rp)
    /\ path' = nReq' /\ waiting' = "load"
    /\ UNCHANGED slot

\* Mutant: the basepage is not staged for the ST.
Exec_NotStaged ==
    /\ ~rp.busy /\ rp.basepage # 0
    /\ Submit("exec", rp)
    /\ UNCHANGED <<path, slot, waiting>>

Exec ==
    /\ ~rp.busy /\ rp.basepage # 0
    /\ Submit("exec", rp)
    /\ slot' = rp.basepage
    /\ UNCHANGED <<path, waiting>>

Unload ==
    /\ ~rp.busy /\ rp.basepage # 0
    /\ Submit("unload", rp)
    /\ waiting' = "unload"
    /\ UNCHANGED <<path, slot>>

Meminfo ==
    /\ ~rp.busy
    /\ Submit("mem", [rp EXCEPT !.memPending = TRUE])
    /\ waiting' = "mem"
    /\ UNCHANGED <<path, slot>>

Escape(cmd) ==
    /\ waiting = "none" /\ upsets < MaxUpsets
    /\ upsets' = upsets + 1
    /\ sentinel' = [cmd |-> cmd, req |-> 0]
    /\ UNCHANGED <<nReq, path, slot, stMem, stCpu, ring, taken>>

\* No busy gate, yet it takes and releases the busy flag.
AdvMeminfo ==
    /\ Escape("advMem")
    /\ rp' = [rp EXCEPT !.memPending = TRUE, !.busy = TRUE]
    /\ waiting' = "advMem"
    /\ causes' = causes \cup LostReset \cup {"late"}
    /\ UNCHANGED relaunch

Reset ==
    /\ Escape("reset")
    /\ rp' = [rp EXCEPT !.busy = FALSE, !.cwd = Root, !.cwdPrev = Root]
    /\ relaunch' = TRUE
    /\ UNCHANGED <<waiting, causes>>

Over == IF waiting \in {"load", "unload"} THEN ~rp.busy ELSE ~rp.memPending

\* The spin loop finds its flag down and the handler answers.
Return ==
    /\ waiting # "none" /\ Over
    /\ waiting' = "none"
    /\ UNCHANGED <<upsets, nReq, path, slot, stMem, stCpu, cells, rp, ring, seen>>

\* The deadline is tested after each turn, also after the turn in which the
\* report came; the sentinel is left as it is.
Timeout ==
    /\ waiting # "none"
    /\ waiting' = "none"
    /\ rp' = [rp EXCEPT !.busy = FALSE,
                 !.basepage = IF waiting = "load" THEN 0 ELSE @,
                 !.memPending = IF waiting \in {"load", "unload"} THEN @ ELSE FALSE]
    /\ causes' = causes \cup {"late"}
                 \cup IF waiting = "load" /\ rp.basepage # 0 THEN {"raced"} ELSE {}
    /\ UNCHANGED <<upsets, nReq, path, slot, stMem, stCpu, cells, ring, taken>>

----------------------------------------------------------------------------
(* The main loop of emul.c and the callback of runner.c.                   *)

\* Mutant: the single shot that the retry replaced.
RelaunchTick_Once ==
    /\ relaunch /\ waiting = "none"
    /\ ~(sentinel.cmd = "reset" /\ Hooked)
    /\ sentinel' = [cmd |-> "start", req |-> 0]
    /\ relaunch' = FALSE
    /\ UNCHANGED <<upsets, http, stMem, stCpu, rp, ring, seen>>

\* Every 500 ms, until the Runner's HELLO.  The first tick comes 3 s after a
\* reset request: by then a hooked ST has seen the request.
RelaunchTick ==
    /\ relaunch /\ waiting = "none"
    /\ ~(sentinel.cmd = "reset" /\ Hooked)
    /\ sentinel' = [cmd |-> "start", req |-> 0]
    /\ UNCHANGED <<relaunch, upsets, http, stMem, stCpu, rp, ring, seen>>

Fresh == [busy |-> FALSE, basepage |-> 0, memPending |-> FALSE,
          cwd |-> Root, cwdPrev |-> Root]

\* The emul_record...Done functions, emul_resetRunnerSession and
\* emul_onGemdriveHello.
Recorded(f) ==
    CASE f.cmd = "gemhello" -> [rp EXCEPT !.busy = FALSE, !.cwd = Root, !.cwdPrev = Root]
      [] f.cmd = "hello"  -> Fresh
      [] f.cmd = "load"   -> [rp EXCEPT !.busy = FALSE, !.basepage = f.val]
      [] f.cmd = "unload" -> [rp EXCEPT !.busy = FALSE,
                                 !.basepage = IF f.val = 0 THEN 0 ELSE @]
      [] f.cmd = "cd"     -> [rp EXCEPT !.busy = FALSE,
                                 !.cwd = IF f.val = 0 THEN @ ELSE rp.cwdPrev]
      [] f.cmd = "mem"    -> [rp EXCEPT !.busy = FALSE, !.memPending = FALSE]
      [] OTHER            -> [rp EXCEPT !.busy = FALSE]

Sending == st \in {"boot", "hello", "report"}

\* The sender of this very report still waits for the answer.
IsCurrent(f) ==
    /\ f.boot = boot
    /\ \/ st = "boot" /\ f.cmd = "gemhello"
       \/ st = "hello" /\ f.cmd = "hello"
       \/ st = "report" /\ f.cmd = doing.cmd /\ f.req = doing.req

\* A sender whose token was drawn from the same seed takes the answer to this
\* report for its own: the hook's report, which interrupts it or was sent
\* before it, or one that was given up.
Mistakable(f) ==
    /\ Sending /\ ~acked /\ left <= Retries /\ f.boot = boot /\ ~IsCurrent(f)
    /\ (f.cmd = "mem" /\ f.req = 0) \/ "gaveUp" \in causes

Answer(f, dropped) ==
    /\ \/ acked' = (acked \/ IsCurrent(f)) /\ causes' = causes \cup dropped
       \/ /\ Mistakable(f)
          /\ acked' = TRUE /\ causes' = causes \cup dropped \cup {"mistaken"}
    /\ isr' = (isr /\ ~(f.cmd = "mem" /\ f.req = 0 /\ f.boot = boot))
    /\ UNCHANGED <<st, doing, arg, val, left>>

\* chandler_loop, from the main loop or from the spin of a handler.
HandleReport ==
    /\ ring # <<>>
    /\ LET f == Head(ring) IN
       /\ rp' = Recorded(f)
       /\ relaunch' = CASE f.cmd = "gemhello" -> TRUE [] f.cmd = "hello" -> FALSE
                        [] OTHER -> relaunch
       /\ IF f.cmd = "gemhello" THEN UNCHANGED sentinel /\ Answer(f, {})
          ELSE sentinel' = Nop /\ Answer(f, LostReset)
    /\ ring' = Tail(ring)
    /\ UNCHANGED <<upsets, http, stMem, taken>>

----------------------------------------------------------------------------
(* The ST: boot and runner.s.  Nothing of it moves while the hook reports. *)

Prepare(state) == st' = state /\ left' = Retries + 1 /\ acked' = FALSE

\* Power-on initialisation, down to the GEMDRIVE HELLO.
ColdBoot ==
    /\ Prepare("boot") /\ doing' = Nop /\ isr' = FALSE
    /\ boot' = boot + 1 /\ loaded' = {} /\ stCwd' = Root
    /\ arg' = 0 /\ val' = 0
    /\ UNCHANGED <<http, cells, rp, ring, seen>>

ResetButton ==
    /\ upsets < MaxUpsets /\ upsets' = upsets + 1
    /\ ColdBoot

\* adv_force_reset
HookReset ==
    /\ Hooked /\ ~isr /\ sentinel.cmd = "reset"
    /\ ColdBoot
    /\ UNCHANGED upsets

\* adv_meminfo_isr; an attempt that fails is made again at the next tick.
HookMeminfo ==
    /\ Hooked /\ ~isr /\ sentinel.cmd = "advMem" /\ Len(ring) < MaxRing
    /\ isr' = TRUE
    /\ \/ ring' = Append(ring, [cmd |-> "mem", req |-> 0, val |-> 0, boot |-> boot])
       \/ UNCHANGED ring
    /\ UNCHANGED <<st, doing, arg, val, left, acked, upsets, http, stMem, cells, rp, seen>>

HookTimeout ==
    /\ isr /\ isr' = FALSE
    /\ UNCHANGED <<st, doing, arg, val, left, acked, ring, upsets, http, stMem, cells, rp, seen>>

Report ==
    [cmd |-> CASE st = "boot" -> "gemhello" [] st = "hello" -> "hello" [] OTHER -> doing.cmd,
     req |-> doing.req, val |-> val, boot |-> boot]

\* An attempt of send_sync: the frame is captured or lost.
Transmit ==
    /\ Sending /\ ~acked /\ left > 0 /\ ~isr /\ Len(ring) < MaxRing
    /\ left' = left - 1
    /\ ring' = Append(ring, Report) \/ UNCHANGED ring
    /\ causes' = causes \cup IF left <= Retries THEN {"late"} ELSE {}
    /\ UNCHANGED <<st, doing, arg, val, acked, isr, upsets, http, stMem, cells, rp, taken>>

\* Mutant: exec does not wait for its command to be cleared.
Proceed_NoWait ==
    /\ Sending /\ ~isr /\ (acked \/ left = 0)
    /\ causes' = causes \cup IF acked THEN {} ELSE {"gaveUp"}
    /\ st' = CASE st = "boot" -> "menu" [] OTHER -> "poll"
    /\ doing' = IF st' = "clear" THEN doing ELSE Nop
    /\ arg' = 0 /\ val' = 0 /\ left' = 0 /\ acked' = FALSE
    /\ UNCHANGED <<isr, ring, upsets, http, stMem, cells, rp, taken>>

\* The report is answered, or given up: runner.s does not look which.
Proceed ==
    /\ Sending /\ ~isr /\ (acked \/ left = 0)
    /\ causes' = causes \cup IF acked THEN {} ELSE {"gaveUp"}
    /\ st' = CASE st = "boot" -> "menu"
               [] st = "report" /\ doing.cmd \in Waits -> "clear"
               [] OTHER -> "poll"
    /\ doing' = IF st' = "clear" THEN doing ELSE Nop
    /\ arg' = 0 /\ val' = 0 /\ left' = 0 /\ acked' = FALSE
    /\ UNCHANGED <<isr, ring, upsets, http, stMem, cells, rp, taken>>

\* check_commands, runner_function, runner_entry, runner_post_reloc
StartRunner ==
    /\ st = "menu" /\ sentinel.cmd = "start"
    /\ Prepare("hello") /\ doing' = Nop
    /\ stCwd' = Root
    /\ UNCHANGED <<arg, val, isr, loaded, boot, ring, upsets, http, cells, rp, seen>>

\* runner_poll_loop: a verb is found and its arguments are read
Take ==
    /\ st = "poll" /\ ~isr /\ sentinel.cmd \in Verb
    /\ st' = "work" /\ doing' = sentinel
    /\ arg' = CASE sentinel.cmd = "cd" -> path
                 [] sentinel.cmd \in {"exec", "unload"} -> slot
                 [] OTHER -> 0
    /\ taken' = taken \cup {sentinel.req}
    /\ UNCHANGED <<val, left, acked, isr, ring, upsets, http, stMem, cells, rp, causes>>

\* What GEMDOS does for each verb, and the value it returns.
Gemdos(v) ==
    CASE doing.cmd = "cd" -> \/ v = 0 /\ stCwd' = arg /\ UNCHANGED loaded
                             \/ v = 1 /\ UNCHANGED <<stCwd, loaded>>
      [] doing.cmd = "load" -> /\ v \in (Pages \ loaded) \cup {0}
                               /\ loaded' = loaded \cup ({v} \ {0})
                               /\ UNCHANGED stCwd
      [] doing.cmd = "unload" -> /\ v = IF arg \in loaded THEN 0 ELSE 1
                                 /\ loaded' = loaded \ {arg}
                                 /\ UNCHANGED stCwd
      [] OTHER -> v = 0 /\ UNCHANGED <<stCwd, loaded>>

Perform ==
    /\ st = "work" /\ ~isr
    /\ \E v \in Pages \cup {0, 1} : Gemdos(v) /\ val' = v
    /\ Prepare("report")
    /\ UNCHANGED <<doing, arg, isr, boot, ring, upsets, http, cells, rp, seen>>

\* .wait_clear_*: until the cell holds another verb
Cleared ==
    /\ st = "clear" /\ ~isr /\ sentinel.cmd # doing.cmd
    /\ st' = "poll" /\ doing' = Nop
    /\ UNCHANGED <<arg, val, left, acked, isr, ring, upsets, http, stMem, cells, rp, seen>>

----------------------------------------------------------------------------
Http == Run \/ Cd \/ Load \/ Exec \/ Unload \/ Meminfo \/ AdvMeminfo \/ Reset
MainLoop == Return \/ Timeout \/ RelaunchTick \/ HandleReport
Hook == HookReset \/ HookMeminfo \/ HookTimeout
Foreground == Transmit \/ Proceed \/ StartRunner \/ Take \/ Perform \/ Cleared

Next == Http \/ MainLoop \/ Hook \/ ResetButton \/ Foreground

Spec == Init /\ [][Next]_vars

(* The main loop runs on and handlers time out; the ST's own code and its  *)
(* interrupts run on, the former also between two ticks.  A request, the   *)
(* button, and the end of the program that a verb runs are owed to nobody. *)
FairSpec ==
    /\ Spec
    /\ WF_vars(MainLoop)
    /\ WF_vars(HookReset \/ HookTimeout)
    /\ SF_vars(Transmit \/ Proceed \/ StartRunner)

----------------------------------------------------------------------------
(* Properties.                                                             *)

\* with one of these the RP may not have heard of what the ST did
Unheard == {"gaveUp", "mistaken"}

\* The Runner never starts a basepage that the ST does not hold: not one of
\* an earlier boot, not one that was freed, whatever the client, the timeouts
\* and the resets do, as long as no report was given up or took another's answer
\* for its own (handle_runner_exec stages the mirror, HELLO clears it).
ExecOnLoaded ==
    st = "work" /\ doing.cmd = "exec" /\ causes \cap Unheard = {} => arg \in loaded

\* Between two commands the RP's mirror is what the ST is in: its basepage is
\* the one program the ST holds, with no orphan the RP forgot (docs/api.md,
\* strict-refuse), and its directory is the ST's, so that relative paths mean
\* the same on both sides (handle_runner_cd, emul_recordRunnerCdDone).  It
\* takes a report given up or mistakenly answered, or an answer that falls into
\* one turn with the deadline, to break it; late and repeated reports of a load do not.
MirrorAgrees ==
    st = "poll" =>
        /\ causes \cap (Unheard \cup {"raced"}) = {} => loaded = {rp.basepage} \ {0}
        /\ ~rp.busy /\ sentinel.cmd # "reset" /\ causes \subseteq {"early"} =>
               rp.cwd = stCwd

\* A report is recorded for the request it answers, and once: the RP never
\* takes the end of one command for the end of the next, and a cold boot by
\* the button is no exception.
ReportIsMine ==
    [][\A r \in Request :
        /\ causes' = {} /\ ring # <<>> /\ ring' = Tail(ring) /\ Head(ring).req = r
        => r = nReq /\ (rp.busy \/ relaunch)]_vars

\* No request is executed twice, except a run, cd or meminfo whose report was
\* given up: the other verbs wait for the cleared cell (runner.s).
NotTwice ==
    [][\A r \in taken :
        /\ st = "poll" /\ st' = "work" /\ doing'.req = r
        => "gaveUp" \in causes /\ doing'.cmd \notin Waits]_vars

\* After every cold boot the Runner comes back to its poll loop by itself,
\* whatever the client writes into the sentinel meanwhile.
RunnerComesBack == st = "boot" ~> st = "poll" \/ "gaveUp" \in causes

\* docs/api.md: unload "Issues GEMDOS Mfree on the loaded basepage".
UnloadsTheLoaded ==
    st = "work" /\ doing.cmd = "unload" /\ causes = {} => arg \in loaded

====
