---- MODULE RunnerSession_proofs ----
(***************************************************************************)
(* A Runner session, for any number of requests, retries, resets and       *)
(* basepages: no request runs twice, a report is recorded for the request  *)
(* it answers, exec starts only what the ST holds, and between commands    *)
(* the RP's mirror is the ST's state.                                      *)
(***************************************************************************)
EXTENDS RunnerSession, Integers, SequenceTheorems, TLAPS

----------------------------------------------------------------------------
(* Types.                                                                  *)

Answers  == Pages \cup {0, 1}
Sessions == [busy : BOOLEAN, basepage : Pages \cup {0}, memPending : BOOLEAN,
             cwd : {Root} \cup Request, cwdPrev : {Root} \cup Request]
Reports  == [cmd : Verb \cup {"gemhello", "hello"}, req : 0..MaxReq, val : Answers, boot : Nat]

Flags == relaunch \in BOOLEAN /\ acked \in BOOLEAN /\ isr \in BOOLEAN

Cells == [cmd : Verb \cup {"none", "start", "reset", "advMem"}, req : 0..MaxReq]

\* TypeOK, and what it leaves open of the values read in one step and used in
\* a later one.
Values ==
    /\ nReq \in 0..MaxReq /\ upsets \in 0..MaxUpsets /\ boot \in Nat
    /\ rp \in Sessions
    /\ sentinel \in Cells
    /\ sentinel.cmd \in Verb => sentinel.req \in Request
    /\ path \in 0..MaxReq /\ slot \in Pages \cup {0}
    /\ waiting \in {"none", "load", "unload", "mem", "advMem"}
    /\ st \in {"boot", "menu", "hello", "poll", "work", "report", "clear"}
    /\ doing \in [cmd : Verb \cup {"none"}, req : 0..MaxReq]
    /\ st \in {"work", "report", "clear"} => doing.cmd \in Verb
    /\ arg \in 0..MaxReq \cup Pages /\ val \in Answers
    /\ st = "work" /\ doing.cmd = "cd" => arg \in 0..MaxReq
    /\ st = "report" /\ doing.cmd = "load" => val \in Pages \cup {0}
    /\ left \in 0..(Retries + 1)
    /\ isr => st \notin {"boot", "menu"}
    /\ loaded \subseteq Pages /\ stCwd \in {Root} \cup Request
    /\ ring \in Seq(Reports) /\ Len(ring) <= MaxRing
    /\ \A i \in 1..Len(ring) : ring[i].cmd = "load" => ring[i].val \in Pages \cup {0}
    /\ taken \subseteq Request
    /\ causes \subseteq {"early", "late", "raced", "gaveUp", "mistaken"}

Typed == Values /\ Flags

LEMMA TypeOfTyped == Typed => TypeOK
BY Zenon DEF Typed, Values, Flags, TypeOK, Sessions, Cells

\* The constants in the form the steps use.
LEMMA Constants ==
    /\ MaxReq \in Nat /\ MaxUpsets \in Nat /\ Retries \in Nat /\ MaxRing \in Nat
    /\ \A p \in Pages : p \in Nat /\ p # 0
BY BoundsAssumption, PagesAssumption

\* A report joins the ring.
LEMMA Joins ==
    ASSUME Typed, NEW f \in Reports, f.cmd = "load" => f.val \in Pages \cup {0},
           Len(ring) < MaxRing, ring' = Append(ring, f)
    PROVE  /\ ring' \in Seq(Reports) /\ Len(ring') = Len(ring) + 1 /\ Len(ring') <= MaxRing
           /\ ring'[Len(ring')] = f
           /\ \A i \in 1..Len(ring) : ring'[i] = ring[i]
           /\ \A i \in 1..Len(ring') : i \in 1..Len(ring) \/ i = Len(ring')
           /\ \A i \in 1..Len(ring') : ring'[i].cmd = "load" => ring'[i].val \in Pages \cup {0}
<1>1. ring \in Seq(Reports) /\ Len(ring) \in Nat
  BY DEF Typed, Values
<1>2. /\ ring' \in Seq(Reports) /\ Len(ring') = Len(ring) + 1 /\ ring'[Len(ring')] = f
      /\ \A i \in 1..Len(ring) : ring'[i] = ring[i]
  BY <1>1, AppendProperties
<1>3. \A i \in 1..Len(ring') : i \in 1..Len(ring) \/ i = Len(ring')
  BY <1>1, <1>2
<1>4. Len(ring') <= MaxRing
  BY <1>1, <1>2, Constants
<1>5. \A i \in 1..Len(ring') : ring'[i].cmd = "load" => ring'[i].val \in Pages \cup {0}
  BY <1>2, <1>3 DEF Typed, Values
<1>6. QED BY <1>2, <1>3, <1>4, <1>5

\* The oldest report leaves the ring.
LEMMA Leaves ==
    ASSUME Typed, ring # <<>>, ring' = Tail(ring)
    PROVE  /\ Head(ring) = ring[1] /\ Head(ring) \in Reports
           /\ Head(ring).cmd = "load" => Head(ring).val \in Pages \cup {0}
           /\ ring' \in Seq(Reports) /\ Len(ring) \in Nat /\ Len(ring) > 0
           /\ Len(ring') = Len(ring) - 1 /\ Len(ring') <= MaxRing
           /\ \A i \in 1..Len(ring') :
                 i + 1 \in 2..Len(ring) /\ i + 1 \in 1..Len(ring) /\ ring'[i] = ring[i + 1]
           /\ \A i \in 1..Len(ring') : ring'[i].cmd = "load" => ring'[i].val \in Pages \cup {0}
<1>1. ring \in Seq(Reports) /\ Len(ring) \in Nat /\ Len(ring) > 0
  BY EmptySeq DEF Typed, Values
<1>2. /\ ring' \in Seq(Reports) /\ Len(ring') = Len(ring) - 1
      /\ \A i \in 1..Len(ring') : ring'[i] = ring[i + 1]
  BY <1>1, HeadTailProperties
<1>3. Head(ring) = ring[1] /\ ring[1] \in Reports
  BY <1>1
<1>4. \A i \in 1..Len(ring') : i + 1 \in 2..Len(ring) /\ i + 1 \in 1..Len(ring)
  BY <1>1, <1>2
<1>5. Len(ring') <= MaxRing
  BY <1>1, <1>2, Constants DEF Typed, Values
<1>6. /\ ring[1].cmd = "load" => ring[1].val \in Pages \cup {0}
      /\ \A i \in 1..Len(ring') : ring'[i].cmd = "load" => ring'[i].val \in Pages \cup {0}
  BY <1>1, <1>2, <1>4 DEF Typed, Values
<1>7. QED BY <1>1, <1>2, <1>3, <1>4, <1>5, <1>6

\* What the ST has to send is a report.
LEMMA ReportTyped ==
    ASSUME Typed, Sending
    PROVE  Report \in Reports /\ (Report.cmd = "load" => Report.val \in Pages \cup {0})
BY DEF Typed, Values, Sending, Report, Reports, Answers, Verb

LEMMA InitTyped == Init => Typed
<1> SUFFICES ASSUME Init PROVE Typed
  OBVIOUS
<1>1. ring = <<>> /\ Len(ring) = 0 /\ ring \in Seq(Reports)
  BY DEF Init
<1>2. Values
  BY <1>1, Constants DEF Init, Values, Nop, Root, Request, Verb, Answers, Sessions, Cells
<1>3. Flags
  BY Zenon DEF Init, Flags
<1>4. QED BY <1>2, <1>3 DEF Typed

\* What the RP records of a report is a state of the mirror.
LEMMA RecordedTyped ==
    ASSUME Typed, NEW f \in Reports, f.cmd = "load" => f.val \in Pages \cup {0}
    PROVE  Recorded(f) \in Sessions
<1>1. rp \in Sessions /\ Fresh \in Sessions
  BY DEF Typed, Values, Fresh, Sessions
<1>2. CASE f.cmd \in {"gemhello", "hello"}
  BY <1>1, <1>2 DEF Recorded, Sessions
<1>3. CASE f.cmd = "load"
  BY <1>1, <1>3 DEF Recorded, Sessions
<1>4. CASE f.cmd \in {"unload", "cd", "mem"}
  BY <1>1, <1>4 DEF Recorded, Sessions
<1>5. CASE f.cmd \notin {"gemhello", "hello", "load", "unload", "cd", "mem"}
  <2>1. Recorded(f) = [rp EXCEPT !.busy = FALSE]
    BY <1>5 DEF Recorded
  <2>2. QED BY <1>1, <2>1 DEF Sessions
<1>6. QED BY <1>2, <1>3, <1>4, <1>5

\* The mirror and the cell keep their types.
LEMMA MirrorTyped == Typed /\ [Next]_vars => rp' \in Sessions
<1> SUFFICES ASSUME Typed, [Next]_vars PROVE rp' \in Sessions
  OBVIOUS
<1>1. rp \in Sessions /\ rp.cwd \in {Root} \cup Request
  BY DEF Typed, Values, Sessions
<1>2. CASE Cd
  <2>1. nReq + 1 \in {Root} \cup Request
    BY <1>2, Constants, SMTT(30) DEF Cd, Submit, Request, Typed, Values
  <2>2. QED BY <1>1, <1>2, <2>1, Zenon DEF Cd, Submit, Sessions
<1>3. CASE Run \/ Load \/ Exec \/ Unload \/ Meminfo \/ AdvMeminfo
  BY <1>1, <1>3, Zenon DEF Run, Load, Exec, Unload, Meminfo, Submit, AdvMeminfo, Sessions
<1>4. CASE Reset \/ Timeout
  BY <1>1, <1>4, Zenon DEF Reset, Timeout, Sessions
<1>5. CASE HandleReport
  <2>1. ring # <<>> /\ ring' = Tail(ring) /\ rp' = Recorded(Head(ring))
    BY <1>5 DEF HandleReport
  <2>2. PICK f : f = Head(ring)
    OBVIOUS
  <2>3. QED BY <2>1, <2>2, Leaves, RecordedTyped
<1>6. CASE rp' = rp
  BY <1>1, <1>6
<1>7. CASE \/ Return \/ RelaunchTick \/ Hook \/ ResetButton \/ Foreground \/ UNCHANGED vars
  BY <1>6, <1>7, Zenon
     DEF Return, RelaunchTick, Hook, HookReset, HookMeminfo, HookTimeout, ResetButton, ColdBoot,
         Foreground, Transmit, Proceed, StartRunner, Take, Perform, Cleared, vars
<1>8. QED
  BY <1>2, <1>3, <1>4, <1>5, <1>7, Zenon DEF Next, Http, MainLoop

LEMMA CellTyped ==
    Typed /\ [Next]_vars => /\ sentinel' \in Cells
                            /\ sentinel'.cmd \in Verb => sentinel'.req \in Request
<1> SUFFICES ASSUME Typed, [Next]_vars
             PROVE  /\ sentinel' \in Cells
                    /\ sentinel'.cmd \in Verb => sentinel'.req \in Request
  OBVIOUS
<1> USE DEF vars, http, stMem, stCpu, cells, seen
<1>1. /\ sentinel \in Cells /\ (sentinel.cmd \in Verb => sentinel.req \in Request)
      /\ Nop \in Cells /\ Nop.cmd \notin Verb
  BY Constants DEF Typed, Values, Cells, Nop, Verb
<1>2. ASSUME NEW v \in Verb, NEW session, Submit(v, session)
      PROVE  sentinel' \in Cells /\ sentinel'.req \in Request
  <2>1. nReq + 1 \in Request /\ nReq + 1 \in 0..MaxReq
    BY <1>2, Constants, SMTT(30) DEF Submit, Typed, Values, Request
  <2>2. QED BY <1>2, <2>1 DEF Submit, Cells
<1>3. CASE Run \/ Cd \/ Load \/ Exec \/ Unload \/ Meminfo
  BY <1>2, <1>3 DEF Run, Cd, Load, Exec, Unload, Meminfo, Verb
<1>4. CASE AdvMeminfo \/ Reset \/ RelaunchTick
  BY <1>4, Constants DEF AdvMeminfo, Reset, Escape, RelaunchTick, Cells, Verb
<1>5. CASE sentinel' \in {sentinel, Nop}
  BY <1>1, <1>5
<1>6. CASE \/ Return \/ Timeout \/ HandleReport \/ Hook \/ ResetButton \/ Foreground
           \/ UNCHANGED vars
  BY <1>5, <1>6, Zenon
     DEF Return, Timeout, HandleReport, Hook, HookReset, HookMeminfo, HookTimeout, ResetButton,
         ColdBoot, Foreground, Transmit, Proceed, StartRunner, Take, Perform, Cleared
<1>7. QED BY <1>3, <1>4, <1>6, Zenon DEF Next, Http, MainLoop

LEMMA NextValues == Typed /\ [Next]_vars => Values'
<1> SUFFICES ASSUME Typed, [Next]_vars PROVE Values'
  OBVIOUS
<1> USE DEF vars, http, stMem, stCpu, cells, seen
<1>0. /\ rp' \in Sessions /\ sentinel' \in Cells
      /\ sentinel'.cmd \in Verb => sentinel'.req \in Request
  BY MirrorTyped, CellTyped
<1>1. CASE Http
  <2>1. CASE Run \/ Cd \/ Load \/ Exec \/ Unload \/ Meminfo
    <3>1. /\ nReq' = nReq + 1 /\ nReq < MaxReq
          /\ path' \in {path, nReq'} /\ slot' \in {slot, rp.basepage}
          /\ UNCHANGED <<upsets, relaunch, stMem, stCpu, ring, taken>>
      BY <2>1 DEF Run, Cd, Load, Exec, Unload, Meminfo, Submit
    <3>2. waiting' \in {"none", "load", "unload", "mem"}
      BY <2>1 DEF Run, Cd, Load, Exec, Unload, Meminfo, Submit
    <3>3. causes' \subseteq causes \cup {"early", "late"}
      BY <2>1 DEF Run, Cd, Load, Exec, Unload, Meminfo, Submit, LostReset, Early
    <3>4. nReq' \in 0..MaxReq /\ path' \in 0..MaxReq /\ slot' \in Pages \cup {0}
      <4>1. nReq \in 0..MaxReq /\ path \in 0..MaxReq /\ slot \in Pages \cup {0}
            /\ rp.basepage \in Pages \cup {0}
        BY DEF Typed, Values, Sessions
      <4>2. QED BY <3>1, <4>1, Constants
    <3>5. QED BY <1>0, <3>1, <3>2, <3>3, <3>4 DEF Typed, Values, Cells
  <2>2. CASE AdvMeminfo \/ Reset
    <3>1. /\ upsets' \in 0..MaxUpsets /\ waiting' \in {waiting, "advMem"}
          /\ UNCHANGED <<nReq, path, slot, stMem, stCpu, ring, taken>>
      BY <2>2, Constants, SMTT(30) DEF AdvMeminfo, Reset, Escape, Typed, Values
    <3>2. causes' \subseteq causes \cup {"late"}
      BY <2>2 DEF AdvMeminfo, Reset, Escape, LostReset
    <3>3. QED BY <1>0, <3>1, <3>2 DEF Typed, Values, Cells
  <2>3. QED BY <1>1, <2>1, <2>2 DEF Http
<1>2. CASE Return \/ Timeout \/ RelaunchTick
  BY <1>0, <1>2 DEF Typed, Values, Cells, Return, Timeout, RelaunchTick
<1>3. CASE HandleReport
  <2>1. ring # <<>> /\ ring' = Tail(ring)
    BY <1>3 DEF HandleReport
  <2>2. /\ ring' \in Seq(Reports) /\ Len(ring') <= MaxRing
        /\ \A i \in 1..Len(ring') : ring'[i].cmd = "load" => ring'[i].val \in Pages \cup {0}
    BY <2>1, Leaves
  <2>3. /\ causes' \subseteq causes \cup {"late", "mistaken"} /\ (isr' => isr)
        /\ UNCHANGED <<upsets, http, stMem, taken, st, doing, arg, val, left>>
    BY <1>3 DEF HandleReport, Answer, LostReset
  <2>4. QED BY <1>0, <2>2, <2>3 DEF Typed, Values, Cells
<1>4. CASE HookReset \/ ResetButton
  <2>1. ColdBoot /\ upsets' \in 0..MaxUpsets
    BY <1>4, Constants DEF HookReset, ResetButton, Typed, Values
  <2>2. boot' \in Nat /\ left' \in 0..(Retries + 1) /\ doing' = Nop /\ ~isr'
    BY <2>1, Constants DEF ColdBoot, Prepare, Typed, Values
  <2>3. QED BY <1>0, <2>1, <2>2, Constants
           DEF ColdBoot, Prepare, Typed, Values, Cells, Nop, Answers
<1>5. CASE HookMeminfo
  <2> DEFINE f == [cmd |-> "mem", req |-> 0, val |-> 0, boot |-> boot]
  <2>1. f \in Reports /\ (f.cmd = "load" => f.val \in Pages \cup {0})
    BY Constants DEF Reports, Answers, Typed, Values, Verb
  <2>2. Len(ring) < MaxRing /\ ring' \in {ring, Append(ring, f)}
    BY <1>5 DEF HookMeminfo
  <2> HIDE DEF f
  <2>3. /\ ring' \in Seq(Reports) /\ Len(ring') <= MaxRing
        /\ \A i \in 1..Len(ring') : ring'[i].cmd = "load" => ring'[i].val \in Pages \cup {0}
    BY <2>1, <2>2, Joins DEF Typed, Values
  <2>4. QED BY <1>0, <1>5, <2>3 DEF HookMeminfo, Hooked, Typed, Values, Cells
<1>6. CASE HookTimeout
  BY <1>0, <1>6 DEF HookTimeout, Typed, Values, Cells
<1>7. CASE Transmit
  <2>1. Sending /\ Len(ring) < MaxRing /\ ring' \in {ring, Append(ring, Report)}
    BY <1>7 DEF Transmit
  <2>2. Report \in Reports /\ (Report.cmd = "load" => Report.val \in Pages \cup {0})
    BY <2>1, ReportTyped
  <2>3. /\ ring' \in Seq(Reports) /\ Len(ring') <= MaxRing
        /\ \A i \in 1..Len(ring') : ring'[i].cmd = "load" => ring'[i].val \in Pages \cup {0}
    BY <2>1, <2>2, Joins DEF Typed, Values
  <2>4. left' \in 0..(Retries + 1)
    BY <1>7, Constants DEF Transmit, Typed, Values
  <2>5. QED BY <1>0, <1>7, <2>3, <2>4 DEF Transmit, Typed, Values, Cells
<1>8. CASE Proceed
  <2>1. /\ st' \in {"menu", "clear", "poll"} /\ left' = 0 /\ arg' = 0 /\ val' = 0
        /\ (st' = "clear" => st = "report" /\ doing' = doing)
        /\ doing' \in {doing, Nop} /\ ~isr'
        /\ UNCHANGED <<ring, upsets, http, stMem, cells, rp, taken>>
        /\ causes' \subseteq causes \cup {"gaveUp"}
    BY <1>8 DEF Proceed
  <2>2. QED BY <1>0, <2>1, Constants DEF Typed, Values, Cells, Nop, Answers
<1>9. CASE StartRunner \/ Cleared
  <2>1. /\ st' \in {"hello", "poll"} /\ doing' = Nop /\ left' \in {left, Retries + 1}
        /\ stCwd' \in {stCwd, Root}
        /\ UNCHANGED <<arg, val, isr, loaded, boot, ring, upsets, http, cells, rp, seen>>
    BY <1>9 DEF StartRunner, Cleared, Prepare
  <2>2. left' \in 0..(Retries + 1) /\ doing' \in [cmd : Verb \cup {"none"}, req : 0..MaxReq]
    BY <2>1, Constants DEF Typed, Values, Nop
  <2>3. QED BY <1>0, <2>1, <2>2 DEF Typed, Values, Cells
<1>10. CASE Take
  <2>1. /\ st' = "work" /\ doing' = sentinel /\ sentinel.cmd \in Verb
        /\ taken' = taken \cup {sentinel.req} /\ arg' \in {path, slot, 0}
        /\ (sentinel.cmd = "cd" => arg' = path)
        /\ UNCHANGED <<val, left, acked, isr, ring, upsets, http, stMem, cells, rp, causes>>
    BY <1>10 DEF Take
  <2>2. doing' \in [cmd : Verb \cup {"none"}, req : 0..MaxReq] /\ sentinel.req \in Request
    BY <2>1 DEF Typed, Values, Cells
  <2>3. arg' \in 0..MaxReq \cup Pages
    BY <2>1, Constants DEF Typed, Values
  <2>4. path \in 0..MaxReq
    BY DEF Typed, Values
  <2>5. QED BY <1>0, <2>1, <2>2, <2>3, <2>4 DEF Typed, Values, Cells
<1>11. CASE Perform
  <2>1. PICK v \in Pages \cup {0, 1} : Gemdos(v) /\ val' = v
    BY <1>11 DEF Perform
  <2>2. /\ doing.cmd \in Verb /\ loaded' \subseteq Pages /\ stCwd' \in {Root} \cup Request
        /\ doing.cmd = "load" => v \in Pages \cup {0}
    BY <1>11, <2>1, Constants, SMTT(30) DEF Perform, Gemdos, Typed, Values, Root, Request
  <2>3. left' \in 0..(Retries + 1)
    BY <1>11, Constants DEF Perform, Prepare
  <2>4. QED BY <1>0, <1>11, <2>1, <2>2, <2>3 DEF Perform, Prepare, Typed, Values, Cells, Answers
<1>12. CASE UNCHANGED vars
  BY <1>12 DEF Typed, Values
<1>13. QED
  BY <1>1, <1>2, <1>3, <1>4, <1>5, <1>6, <1>7, <1>8, <1>9, <1>10, <1>11, <1>12, Zenon
     DEF Next, MainLoop, Hook, Foreground

LEMMA NextFlags == Typed /\ [Next]_vars => Flags'
<1> SUFFICES ASSUME Flags, [Next]_vars PROVE Flags'
  BY DEF Typed
<1> USE DEF Flags, vars, http, stMem, stCpu, cells, seen
<1>1. CASE Http
  BY <1>1, Zenon DEF Http, Run, Cd, Load, Exec, Unload, Meminfo, Submit, AdvMeminfo, Reset, Escape
<1>2. CASE Return \/ Timeout \/ RelaunchTick \/ UNCHANGED vars
  BY <1>2, Zenon DEF Return, Timeout, RelaunchTick
<1>3. CASE HandleReport
  BY <1>3, Zenon DEF HandleReport, Answer
<1>4. CASE Hook \/ ResetButton
  BY <1>4, Zenon DEF Hook, HookReset, HookMeminfo, HookTimeout, ResetButton, ColdBoot, Prepare
<1>5. CASE Foreground
  BY <1>5, Zenon DEF Foreground, Transmit, Proceed, StartRunner, Take, Perform, Cleared, Prepare
<1>6. QED BY <1>1, <1>2, <1>3, <1>4, <1>5 DEF Next, MainLoop

LEMMA NextTyped == Typed /\ [Next]_vars => Typed'
BY NextValues, NextFlags DEF Typed

(* The type invariant of the session, for any number of requests, resets    *)
(* and retries.                                                             *)
THEOREM RunnerTypeCorrect == Spec => []TypeOK
<1>1. Spec => []Typed
  BY InitTyped, NextTyped, PTL DEF Spec
<1>2. QED BY <1>1, TypeOfTyped, PTL

----------------------------------------------------------------------------
(* What the actions do, once for all invariants.                           *)

\* A request that passes the busy flag writes the cell.
LEMMA Submitted ==
    ASSUME Typed, Run \/ Cd \/ Load \/ Exec \/ Unload \/ Meminfo
    PROVE  /\ ~rp.busy /\ rp'.busy /\ nReq' = nReq + 1
           /\ sentinel'.cmd \in Verb /\ sentinel'.req = nReq'
           /\ rp'.basepage = rp.basepage
           /\ sentinel'.cmd = "load" => rp.basepage = 0
           /\ IF sentinel'.cmd = "exec" THEN slot' = rp.basepage /\ slot' # 0 ELSE slot' = slot
           /\ IF sentinel'.cmd = "cd"
              THEN rp'.cwd = path' /\ rp'.cwdPrev = rp.cwd
              ELSE rp'.cwd = rp.cwd
           /\ causes' = causes \cup LostReset \cup Early
           /\ UNCHANGED <<upsets, relaunch, stMem, stCpu, ring, taken>>
<1> USE DEF Submit, Typed, Values, Sessions, Verb
<1>1. CASE Run
  BY <1>1 DEF Run
<1>2. CASE Cd
  BY <1>2 DEF Cd
<1>3. CASE Load
  BY <1>3 DEF Load
<1>4. CASE Exec
  BY <1>4 DEF Exec
<1>5. CASE Unload
  BY <1>5 DEF Unload
<1>6. CASE Meminfo
  BY <1>6 DEF Meminfo
<1>7. QED BY <1>1, <1>2, <1>3, <1>4, <1>5, <1>6

\* A report is recorded, clears the cell unless it comes from the boot, and is
\* the answer to its sender if that still waits.
LEMMA Handled ==
    ASSUME Typed, HandleReport, NEW f, f = Head(ring)
    PROVE  /\ ring # <<>> /\ ring' = Tail(ring) /\ rp' = Recorded(f)
           /\ sentinel' = IF f.cmd = "gemhello" THEN sentinel ELSE Nop
           /\ relaunch' <=> f.cmd = "gemhello" \/ (relaunch /\ f.cmd # "hello")
           /\ acked' => acked \/ IsCurrent(f) \/ Mistakable(f)
           /\ "mistaken" \notin causes' =>
                /\ acked' <=> acked \/ IsCurrent(f)
                /\ causes' = IF f.cmd = "gemhello" THEN causes ELSE causes \cup LostReset
           /\ causes \subseteq causes'
           /\ UNCHANGED <<upsets, http, stMem, taken, st, doing, arg, val, left>>
<1>1. /\ ring # <<>> /\ ring' = Tail(ring) /\ rp' = Recorded(f)
      /\ sentinel' = IF f.cmd = "gemhello" THEN sentinel ELSE Nop
      /\ UNCHANGED <<upsets, http, stMem, taken, st, doing, arg, val, left>>
  BY DEF HandleReport, Answer
<1>2. relaunch' = CASE f.cmd = "gemhello" -> TRUE [] f.cmd = "hello" -> FALSE
                    [] OTHER -> relaunch
  BY DEF HandleReport
<1>3. relaunch' <=> f.cmd = "gemhello" \/ (relaunch /\ f.cmd # "hello")
  BY <1>2
<1>4. PICK dropped : Answer(f, dropped) /\ dropped = IF f.cmd = "gemhello" THEN {} ELSE LostReset
  BY Zenon DEF HandleReport
<1>5. acked' => acked \/ IsCurrent(f) \/ Mistakable(f)
  BY <1>4, Zenon DEF Answer
<1>6. causes' = causes \cup dropped \/ causes' = causes \cup dropped \cup {"mistaken"}
  BY <1>4, Zenon DEF Answer
<1>7. ASSUME "mistaken" \notin causes'
      PROVE  /\ acked' <=> acked \/ IsCurrent(f)
             /\ causes' = IF f.cmd = "gemhello" THEN causes ELSE causes \cup LostReset
  <2>1. causes' # causes \cup dropped \cup {"mistaken"}
    BY <1>7
  <2>2. acked' <=> acked \/ IsCurrent(f)
    BY <1>4, <2>1, Zenon DEF Answer
  <2>3. causes' = causes \cup dropped
    BY <1>6, <2>1
  <2>4. QED BY <1>4, <2>2, <2>3
<1>8. causes \subseteq causes'
  BY <1>6
<1>9. QED BY <1>1, <1>3, <1>5, <1>7, <1>8

----------------------------------------------------------------------------
(* A request runs once.                                                    *)

\* The cell still holds a command the ST has started.
Again == sentinel.cmd \in Verb /\ sentinel.req \in taken

TakenOnce ==
    /\ taken \subseteq 1..nReq
    /\ sentinel.cmd \in Verb => sentinel.req = nReq /\ nReq > 0
    /\ IF st \in {"work", "report", "clear"} THEN doing.req \in taken ELSE doing = Nop
    /\ acked => Sending
    /\ Again =>
        /\ st # "hello" /\ (acked => st = "boot" \/ "gaveUp" \in causes)
        /\ st \in {"work", "report", "clear"} => sentinel = doing
        /\ st = "poll" => "gaveUp" \in causes /\ sentinel.cmd \notin Waits

LEMMA InitTakenOnce == Init => TakenOnce
<1> SUFFICES ASSUME Init PROVE TakenOnce
  OBVIOUS
<1>1. taken = {} /\ sentinel.cmd \notin Verb /\ st = "menu" /\ doing = Nop /\ ~acked
  BY DEF Init, Verb
<1>2. QED BY <1>1 DEF TakenOnce, Again

LEMMA NextTakenOnce == Typed /\ TakenOnce /\ [Next]_vars => TakenOnce'
<1> SUFFICES ASSUME Typed, TakenOnce, [Next]_vars PROVE TakenOnce'
  OBVIOUS
<1> USE DEF vars, http, stMem, stCpu, cells, seen
<1>0. nReq \in Nat
  BY Constants DEF Typed, Values
<1>1. CASE Run \/ Cd \/ Load \/ Exec \/ Unload \/ Meminfo
  <2>1. /\ nReq' = nReq + 1 /\ sentinel'.req = nReq' /\ UNCHANGED <<stCpu, taken>>
    BY <1>1, Submitted
  <2>2. taken' \subseteq 1..nReq' /\ nReq' > 0 /\ nReq' \notin taken'
    BY <1>0, <2>1 DEF TakenOnce
  <2>3. QED BY <2>1, <2>2 DEF TakenOnce, Again, Sending
<1>2. CASE AdvMeminfo \/ Reset \/ RelaunchTick
  <2>1. sentinel'.cmd \notin Verb /\ UNCHANGED <<nReq, stCpu, taken>>
    BY <1>2 DEF AdvMeminfo, Reset, RelaunchTick, Escape, Verb
  <2>2. QED BY <2>1 DEF TakenOnce, Again, Sending
<1>3. CASE Return \/ Timeout \/ HookMeminfo \/ HookTimeout \/ Transmit \/ UNCHANGED vars
  <2>1. UNCHANGED <<nReq, st, doing, acked, sentinel, taken>> /\ causes \subseteq causes'
    BY <1>3 DEF Return, Timeout, HookMeminfo, HookTimeout, Transmit
  <2>2. QED BY <2>1 DEF TakenOnce, Again, Sending
<1>4. CASE HandleReport
  <2>1. PICK f : f = Head(ring)
    OBVIOUS
  <2>2. /\ IF f.cmd = "gemhello" THEN sentinel' = sentinel ELSE sentinel' = Nop
        /\ acked' => acked \/ IsCurrent(f) \/ Mistakable(f)
        /\ causes \subseteq causes' /\ UNCHANGED <<nReq, taken, st, doing>>
    BY <1>4, <2>1, Handled
  <2>3. /\ IsCurrent(f) => Sending /\ (f.cmd = "gemhello" => st = "boot")
        /\ Mistakable(f) => Sending /\ (f.cmd = "gemhello" => "gaveUp" \in causes)
    BY DEF IsCurrent, Mistakable, Sending, Typed, Values, Verb
  <2>4. CASE f.cmd = "gemhello"
    BY <2>2, <2>3, <2>4 DEF TakenOnce, Again, Sending
  <2>5. CASE f.cmd # "gemhello"
    BY <2>2, <2>3, <2>5 DEF TakenOnce, Again, Sending, Nop, Verb
  <2>6. QED BY <2>4, <2>5
<1>5. CASE HookReset \/ ResetButton
  BY <1>5 DEF HookReset, ResetButton, ColdBoot, Prepare, TakenOnce, Again, Sending
<1>6. CASE Proceed
  <2>1. /\ Sending /\ (acked \/ "gaveUp" \in causes') /\ ~acked'
        /\ st' = CASE st = "boot" -> "menu"
                   [] st = "report" /\ doing.cmd \in Waits -> "clear"
                   [] OTHER -> "poll"
        /\ doing' = IF st' = "clear" THEN doing ELSE Nop
        /\ causes \subseteq causes' /\ UNCHANGED <<nReq, sentinel, taken>>
    BY <1>6 DEF Proceed
  <2>2. CASE st = "boot"
    BY <2>1, <2>2 DEF TakenOnce, Again, Sending
  <2>3. CASE st = "hello"
    BY <2>1, <2>3 DEF TakenOnce, Again, Sending
  <2>4. CASE st = "report"
    BY <2>1, <2>4 DEF TakenOnce, Again, Sending
  <2>5. QED BY <2>1, <2>2, <2>3, <2>4 DEF Sending
<1>7. CASE StartRunner
  BY <1>7 DEF StartRunner, Prepare, TakenOnce, Again, Sending, Verb
<1>8. CASE Take
  <2>1. /\ st = "poll" /\ st' = "work" /\ doing' = sentinel /\ sentinel.cmd \in Verb
        /\ taken' = taken \cup {sentinel.req} /\ UNCHANGED <<nReq, sentinel, acked>>
    BY <1>8 DEF Take
  <2>2. ~acked
    BY <2>1 DEF TakenOnce, Sending
  <2>3. taken' \subseteq 1..nReq'
    <3>1. sentinel.req = nReq /\ nReq > 0 /\ taken \subseteq 1..nReq
      BY <2>1 DEF TakenOnce
    <3>2. nReq \in 1..nReq
      BY <1>0, <3>1
    <3>3. QED BY <2>1, <3>1, <3>2
  <2>4. QED BY <2>1, <2>2, <2>3 DEF TakenOnce, Again, Sending
<1>9. CASE Perform
  <2>1. st = "work" /\ st' = "report" /\ ~acked' /\ UNCHANGED <<nReq, sentinel, doing, taken>>
    BY <1>9 DEF Perform, Prepare
  <2>2. QED BY <2>1 DEF TakenOnce, Again, Sending
<1>10. CASE Cleared
  <2>1. /\ st = "clear" /\ st' = "poll" /\ doing' = Nop /\ sentinel.cmd # doing.cmd
        /\ UNCHANGED <<nReq, sentinel, acked, taken>>
    BY <1>10 DEF Cleared
  <2>2. ~Again
    BY <2>1 DEF TakenOnce
  <2>3. QED BY <2>1, <2>2 DEF TakenOnce, Again, Sending
<1>11. QED
  BY <1>1, <1>2, <1>3, <1>4, <1>5, <1>6, <1>7, <1>8, <1>9, <1>10, Zenon
     DEF Next, Http, MainLoop, Hook, Foreground

(* No request is executed twice, unless its report was given up and its      *)
(* verb does not wait for the cleared cell, for any number of requests,      *)
(* resets, timeouts and resent reports.                                      *)
THEOREM NotTwiceHolds == Spec => NotTwice
<1>1. Spec => [](Typed /\ TakenOnce)
  BY InitTyped, NextTyped, InitTakenOnce, NextTakenOnce, PTL DEF Spec
<1>2. ASSUME TakenOnce, [Next]_vars, NEW r \in taken, st = "poll", st' = "work", doing'.req = r
      PROVE  "gaveUp" \in causes /\ doing'.cmd \notin Waits
  <2>1. Take
    BY <1>2, Zenon
       DEF Next, Http, Run, Cd, Load, Exec, Unload, Meminfo, Submit, AdvMeminfo, Reset, Escape,
           MainLoop, Return, Timeout, RelaunchTick, HandleReport, Answer, Hook, HookReset,
           HookMeminfo, HookTimeout, ResetButton, ColdBoot, Prepare, Foreground, Transmit,
           Proceed, StartRunner, Perform, Cleared, Sending, vars, stCpu
  <2>2. doing' = sentinel /\ sentinel.cmd \in Verb
    BY <2>1 DEF Take
  <2>3. QED BY <1>2, <2>2 DEF TakenOnce, Again
<1>3. TakenOnce /\ [Next]_vars =>
    [\A r \in taken :
        /\ st = "poll" /\ st' = "work" /\ doing'.req = r
        => "gaveUp" \in causes /\ doing'.cmd \notin Waits]_vars
  BY <1>2
<1>4. QED BY <1>1, <1>3, PTL DEF Spec, NotTwice

----------------------------------------------------------------------------
(* Reports are handled in the order in which the ST sent them.             *)

\* The interrupt hook's report, which belongs to no request.
Adv(f) == f.cmd = "mem" /\ f.req = 0

\* What is in the ring was sent by this or an earlier boot, for a request that
\* was started or for none.
Known ==
    \A i \in 1..Len(ring) :
        /\ ring[i].boot <= boot /\ ring[i].req \in taken \cup {0}
        /\ ring[i].cmd \in {"gemhello", "hello"} => ring[i].req = 0

\* An ST that has not started the Runner holds no program.
Empty ==
    /\ st \in {"boot", "menu", "hello"} => loaded = {}
    /\ st = "hello" => stCwd = Root

LEMMA InitKnown == Init => Known /\ Empty
BY DEF Init, Known, Empty

LEMMA NextEmpty == Typed /\ Empty /\ [Next]_vars => Empty'
<1> SUFFICES ASSUME Typed, Empty, [Next]_vars PROVE Empty'
  OBVIOUS
<1> USE DEF vars, http, stMem, stCpu, cells, seen
<1>1. CASE UNCHANGED <<st, loaded, stCwd>>
  BY <1>1 DEF Empty
<1>2. CASE Run \/ Cd \/ Load \/ Exec \/ Unload \/ Meminfo
  BY <1>1, <1>2, Submitted
<1>3. CASE \/ AdvMeminfo \/ Reset \/ Return \/ Timeout \/ RelaunchTick \/ HandleReport
           \/ HookMeminfo \/ HookTimeout \/ Transmit \/ UNCHANGED vars
  BY <1>1, <1>3 DEF AdvMeminfo, Reset, Escape, Return, Timeout, RelaunchTick, HandleReport,
                    Answer, HookMeminfo, HookTimeout, Transmit
<1>4. CASE HookReset \/ ResetButton
  BY <1>4 DEF HookReset, ResetButton, ColdBoot, Prepare, Empty
<1>5. CASE Proceed
  BY <1>5 DEF Proceed, Empty
<1>6. CASE StartRunner
  BY <1>6 DEF StartRunner, Prepare, Empty
<1>7. CASE Take \/ Perform \/ Cleared
  BY <1>7 DEF Take, Perform, Prepare, Cleared, Empty
<1>8. QED
  BY <1>2, <1>3, <1>4, <1>5, <1>6, <1>7, Zenon DEF Next, Http, MainLoop, Hook, Foreground

LEMMA NextKnown == Typed /\ TakenOnce /\ Known /\ [Next]_vars => Known'
<1> SUFFICES ASSUME Typed, TakenOnce, Known, [Next]_vars PROVE Known'
  OBVIOUS
<1> USE DEF vars, http, stMem, stCpu, cells, seen
<1>1. /\ boot \in Nat /\ ring \in Seq(Reports)
      /\ \A i \in 1..Len(ring) : ring[i] \in Reports /\ ring[i].boot \in Nat
  <2>1. boot \in Nat /\ ring \in Seq(Reports)
    BY DEF Typed, Values
  <2>2. \A g \in Reports : g.boot \in Nat
    BY DEF Reports
  <2>3. QED BY <2>1, <2>2
<1>2. CASE UNCHANGED ring /\ boot' \in {boot, boot + 1} /\ taken \subseteq taken'
  BY <1>1, <1>2 DEF Known
<1>3. ASSUME NEW f \in Reports, f.cmd = "load" => f.val \in Pages \cup {0},
             f.boot = boot, f.req \in taken \cup {0},
             f.cmd \in {"gemhello", "hello"} => f.req = 0,
             Len(ring) < MaxRing, ring' \in {ring, Append(ring, f)}, UNCHANGED <<boot, taken>>
      PROVE  Known'
  BY <1>1, <1>3, Joins DEF Known
<1>4. CASE Run \/ Cd \/ Load \/ Exec \/ Unload \/ Meminfo
  BY <1>2, <1>4, Submitted
<1>5. CASE \/ AdvMeminfo \/ Reset \/ Return \/ Timeout \/ RelaunchTick \/ HookTimeout
           \/ Proceed \/ StartRunner \/ Take \/ Perform \/ Cleared \/ UNCHANGED vars
  BY <1>2, <1>5 DEF AdvMeminfo, Reset, Escape, Return, Timeout, RelaunchTick, HookTimeout,
                    Proceed, StartRunner, Take, Perform, Prepare, Cleared
<1>6. CASE HookReset \/ ResetButton
  BY <1>2, <1>6 DEF HookReset, ResetButton, ColdBoot
<1>7. CASE HandleReport
  <2>1. ring # <<>> /\ ring' = Tail(ring) /\ UNCHANGED <<boot, taken>>
    BY <1>7 DEF HandleReport
  <2>2. \A i \in 1..Len(ring') : i + 1 \in 1..Len(ring) /\ ring'[i] = ring[i + 1]
    BY <2>1, Leaves
  <2>3. QED BY <2>1, <2>2 DEF Known
<1>8. CASE HookMeminfo
  <2> DEFINE f == [cmd |-> "mem", req |-> 0, val |-> 0, boot |-> boot]
  <2>1. /\ f \in Reports /\ (f.cmd = "load" => f.val \in Pages \cup {0})
        /\ f.boot = boot /\ f.req = 0
    BY Constants DEF Reports, Answers, Typed, Values, Verb
  <2>2. Len(ring) < MaxRing /\ ring' \in {ring, Append(ring, f)} /\ UNCHANGED <<boot, taken>>
    BY <1>8 DEF HookMeminfo
  <2> HIDE DEF f
  <2>3. QED BY <1>3, <2>1, <2>2
<1>9. CASE Transmit
  <2>1. /\ Sending /\ Len(ring) < MaxRing /\ ring' \in {ring, Append(ring, Report)}
        /\ UNCHANGED <<boot, taken>>
    BY <1>9 DEF Transmit
  <2>2. Report \in Reports /\ (Report.cmd = "load" => Report.val \in Pages \cup {0})
    BY <2>1, ReportTyped
  <2>3. /\ Report.boot = boot /\ Report.req \in taken \cup {0}
        /\ Report.cmd \in {"gemhello", "hello"} => Report.req = 0
    BY <2>1 DEF Report, Sending, TakenOnce, Typed, Values, Nop, Verb
  <2>4. QED BY <1>3, <2>1, <2>2, <2>3
<1>10. QED
  BY <1>4, <1>5, <1>6, <1>7, <1>8, <1>9, Zenon DEF Next, Http, MainLoop, Hook, Foreground

\* The RP has heard of all that the ST did, but for the report being sent.
Heard == causes \cap Unheard = {}

\* As long as no report was given up or took another's answer for its own, the
\* ring holds copies of the reports
\* before, then copies of the one being sent; once that is answered, only its.
InLine ==
    Heard =>
        /\ \A i \in 1..Len(ring) : IsCurrent(ring[i]) => ring[i] = Report
        /\ \A i \in 1..Len(ring) : \A j \in (i + 1)..Len(ring) :
              IsCurrent(ring[i]) => IsCurrent(ring[j]) \/ Adv(ring[j])
        /\ acked => \A i \in 1..Len(ring) : IsCurrent(ring[i]) \/ Adv(ring[i])
        /\ st = "work" => \A i \in 1..Len(ring) : ring[i].req # doing.req
        /\ st \in {"boot", "menu"} =>
              \A i \in 1..Len(ring) : ring[i].cmd = "hello" => ring[i].boot < boot

LEMMA InitInLine == Init => InLine
BY DEF Init, InLine

\* What has happened stays known.
LEMMA CausesGrow == [Next]_vars => causes \subseteq causes'
<1> SUFFICES ASSUME [Next]_vars PROVE causes \subseteq causes'
  OBVIOUS
<1> USE DEF vars, http, stMem, stCpu, cells, seen
<1>1. CASE Http
  BY <1>1 DEF Http, Run, Cd, Load, Exec, Unload, Meminfo, Submit, AdvMeminfo, Reset, Escape
<1>2. CASE MainLoop \/ UNCHANGED vars
  BY <1>2 DEF MainLoop, Return, Timeout, RelaunchTick, HandleReport, Answer
<1>3. CASE Hook \/ ResetButton
  BY <1>3 DEF Hook, HookReset, HookMeminfo, HookTimeout, ResetButton, ColdBoot
<1>4. CASE Foreground
  BY <1>4 DEF Foreground, Transmit, Proceed, StartRunner, Take, Perform, Cleared
<1>5. QED BY <1>1, <1>2, <1>3, <1>4 DEF Next

LEMMA HeardBefore ==
    [Next]_vars /\ Heard' => /\ Heard /\ "gaveUp" \notin causes
                             /\ {"gaveUp", "mistaken"} \cap causes' = {}
BY CausesGrow DEF Heard, Unheard

\* What the ST sends is what it waits for; what the hook sends is not.
LEMMA SentIsCurrent ==
    ASSUME Typed, TakenOnce
    PROVE  /\ Sending => IsCurrent(Report)
           /\ \A f \in Reports : Adv(f) => ~IsCurrent(f)
           /\ st = "boot" => Report.cmd = "gemhello"
BY DEF Typed, Values, Sending, IsCurrent, Report, Adv, TakenOnce

LEMMA NextInLine ==
    Typed /\ TakenOnce /\ Known /\ InLine /\ [Next]_vars => InLine'
<1> SUFFICES ASSUME Typed, TakenOnce, Known, InLine, [Next]_vars, Heard'
             PROVE  InLine'
  BY DEF InLine
<1> USE DEF vars, http, stMem, stCpu, cells, seen
<1>1. Heard /\ "gaveUp" \notin causes /\ {"gaveUp", "mistaken"} \cap causes' = {}
  BY HeardBefore
<1>2. /\ ring \in Seq(Reports) /\ Len(ring) \in Nat /\ boot \in Nat
      /\ \A i \in 1..Len(ring) : ring[i] \in Reports /\ ring[i].boot \in Nat
  <2>1. \A g \in Reports : g.boot \in Nat
    BY DEF Reports
  <2>2. QED BY <2>1 DEF Typed, Values
<1>3. CASE UNCHANGED <<ring, st, doing, val, acked, boot>>
  BY <1>1, <1>3 DEF InLine, IsCurrent, Report, Adv
<1>4. ASSUME ~acked', \A i \in 1..Len(ring') : ~IsCurrent(ring[i])', st' # "work",
             st' \in {"boot", "menu"} =>
                \A i \in 1..Len(ring') : ring'[i].cmd = "hello" => ring'[i].boot < boot'
      PROVE  InLine'
  BY <1>4 DEF InLine
<1>5. CASE Run \/ Cd \/ Load \/ Exec \/ Unload \/ Meminfo
  BY <1>3, <1>5, Submitted
<1>6. CASE AdvMeminfo \/ Reset \/ Return \/ Timeout \/ RelaunchTick \/ HookTimeout \/ UNCHANGED vars
  BY <1>3, <1>6 DEF AdvMeminfo, Reset, Escape, Return, Timeout, RelaunchTick, HookTimeout
<1>7. CASE HandleReport
  <2>1. PICK f : f = Head(ring)
    OBVIOUS
  <2>2. /\ ring # <<>> /\ ring' = Tail(ring) /\ (acked' <=> acked \/ IsCurrent(f))
        /\ UNCHANGED <<st, doing, val, boot>>
    BY <1>1, <1>7, <2>1, Handled
  <2>3. /\ f = ring[1] /\ Len(ring) > 0 /\ Len(ring') = Len(ring) - 1
        /\ \A i \in 1..Len(ring') :
              i + 1 \in 2..Len(ring) /\ i + 1 \in 1..Len(ring) /\ ring'[i] = ring[i + 1]
    BY <2>1, <2>2, Leaves
  <2>4. /\ \A i \in 1..Len(ring') : IsCurrent(ring[i])' <=> IsCurrent(ring'[i])
        /\ Report' = Report
    BY <2>2 DEF IsCurrent, Report
  <2>5. \A i \in 1..Len(ring') : IsCurrent(ring'[i]) => ring'[i] = Report
    BY <1>1, <2>3 DEF InLine
  <2>6. \A i \in 1..Len(ring') : \A j \in (i + 1)..Len(ring') :
           IsCurrent(ring'[i]) => IsCurrent(ring'[j]) \/ Adv(ring'[j])
    <3>1. \A i \in 1..Len(ring') : \A j \in (i + 1)..Len(ring') :
             j \in 1..Len(ring') /\ j + 1 \in ((i + 1) + 1)..Len(ring)
      BY <1>2, <2>3
    <3>2. QED BY <1>1, <2>3, <3>1 DEF InLine
  <2>7. acked' => \A i \in 1..Len(ring') : IsCurrent(ring'[i]) \/ Adv(ring'[i])
    <3>1. CASE acked
      BY <1>1, <2>3, <3>1 DEF InLine
    <3>2. CASE IsCurrent(f)
      <4>1. 1 \in 1..Len(ring) /\ \A i \in 1..Len(ring') : i + 1 \in (1 + 1)..Len(ring)
        BY <1>2, <2>3
      <4>2. QED BY <1>1, <2>3, <3>2, <4>1 DEF InLine
    <3>3. QED BY <2>2, <3>1, <3>2
  <2>8. /\ st' = "work" => \A i \in 1..Len(ring') : ring'[i].req # doing'.req
        /\ st' \in {"boot", "menu"} =>
              \A i \in 1..Len(ring') : ring'[i].cmd = "hello" => ring'[i].boot < boot'
    BY <1>1, <2>2, <2>3 DEF InLine
  <2>9. QED BY <2>4, <2>5, <2>6, <2>7, <2>8 DEF InLine, Adv
<1>8. ASSUME NEW f \in Reports, f.cmd = "load" => f.val \in Pages \cup {0},
             Adv(f) \/ (f = Report /\ Sending /\ ~acked),
             Len(ring) < MaxRing, ring' \in {ring, Append(ring, f)},
             UNCHANGED <<st, doing, val, acked, boot>>
      PROVE  InLine'
  <2>1. CASE ring' = ring
    BY <1>3, <1>8, <2>1
  <2>2. CASE ring' = Append(ring, f)
    <3>1. /\ Len(ring') = Len(ring) + 1 /\ ring'[Len(ring')] = f
          /\ \A i \in 1..Len(ring) : ring'[i] = ring[i]
          /\ \A i \in 1..Len(ring') : i \in 1..Len(ring) \/ i = Len(ring')
      BY <1>8, <2>2, Joins
    <3>2. /\ \A i \in 1..Len(ring') : IsCurrent(ring[i])' <=> IsCurrent(ring'[i])
          /\ Report' = Report
      BY <1>8 DEF IsCurrent, Report
    <3>3. IsCurrent(f) \/ Adv(f)
      BY <1>8, SentIsCurrent
    <3>4. Adv(f) => ~IsCurrent(f)
      BY <1>8, SentIsCurrent
    <3>5. \A i \in 1..Len(ring') : IsCurrent(ring'[i]) => ring'[i] = Report
      BY <1>1, <1>8, <3>1, <3>4 DEF InLine
    <3>6. \A i \in 1..Len(ring') : \A j \in (i + 1)..Len(ring') :
             IsCurrent(ring'[i]) => IsCurrent(ring'[j]) \/ Adv(ring'[j])
      <4>1. \A i \in 1..Len(ring') : \A j \in (i + 1)..Len(ring') :
               j = Len(ring') \/ (i \in 1..Len(ring) /\ j \in (i + 1)..Len(ring)
                                  /\ j \in 1..Len(ring))
        BY <1>2, <3>1
      <4>2. QED BY <1>1, <3>1, <3>3, <4>1 DEF InLine
    <3>7. acked => \A i \in 1..Len(ring') : IsCurrent(ring'[i]) \/ Adv(ring'[i])
      BY <1>1, <1>8, <3>1 DEF InLine
    <3>8. st = "work" => \A i \in 1..Len(ring') : ring'[i].req # doing.req
      <4>1. st = "work" => f.req = 0 /\ doing.req # 0
        BY <1>8 DEF Sending, Adv, TakenOnce
      <4>2. QED BY <1>1, <3>1, <4>1 DEF InLine
    <3>9. st \in {"boot", "menu"} =>
             \A i \in 1..Len(ring') : ring'[i].cmd = "hello" => ring'[i].boot < boot
      <4>1. st \in {"boot", "menu"} => f.cmd # "hello"
        BY <1>8, SentIsCurrent DEF Sending, Adv
      <4>2. QED BY <1>1, <3>1, <4>1 DEF InLine
    <3>10. QED BY <1>8, <3>2, <3>5, <3>6, <3>7, <3>8, <3>9 DEF InLine, Adv
  <2>3. QED BY <1>8, <2>1, <2>2
<1>9. CASE HookMeminfo
  <2> DEFINE f == [cmd |-> "mem", req |-> 0, val |-> 0, boot |-> boot]
  <2>1. f \in Reports /\ (f.cmd = "load" => f.val \in Pages \cup {0}) /\ Adv(f)
    BY <1>2, Constants DEF Reports, Answers, Verb, Adv
  <2>2. /\ Len(ring) < MaxRing /\ ring' \in {ring, Append(ring, f)}
        /\ UNCHANGED <<st, doing, val, acked, boot>>
    BY <1>9 DEF HookMeminfo
  <2> HIDE DEF f
  <2>3. QED BY <1>8, <2>1, <2>2
<1>10. CASE Transmit
  <2>1. /\ Sending /\ ~acked /\ Len(ring) < MaxRing /\ ring' \in {ring, Append(ring, Report)}
        /\ UNCHANGED <<st, doing, val, acked, boot>>
    BY <1>10 DEF Transmit
  <2>2. Report \in Reports /\ (Report.cmd = "load" => Report.val \in Pages \cup {0})
    BY <2>1, ReportTyped
  <2>3. QED BY <1>8, <2>1, <2>2
<1>11. CASE HookReset \/ ResetButton
  <2>1. ~acked' /\ st' = "boot" /\ boot' = boot + 1 /\ ring' = ring
    BY <1>11 DEF HookReset, ResetButton, ColdBoot, Prepare
  <2>2. \A i \in 1..Len(ring') : ring'[i].boot < boot'
    BY <1>2, <2>1 DEF Known
  <2>3. \A i \in 1..Len(ring') : ~IsCurrent(ring[i])'
    BY <1>2, <2>1, <2>2 DEF IsCurrent
  <2>4. QED BY <1>4, <2>1, <2>2, <2>3
<1>12. CASE Proceed
  <2>1. /\ ~acked' /\ st' \in {"menu", "clear", "poll"} /\ (st' = "menu" => st = "boot")
        /\ UNCHANGED <<ring, boot>>
    BY <1>12 DEF Proceed
  <2>2. QED BY <1>1, <1>4, <2>1 DEF InLine, IsCurrent
<1>13. CASE StartRunner
  <2>1. ~acked' /\ st = "menu" /\ st' = "hello" /\ UNCHANGED <<ring, boot>>
    BY <1>13 DEF StartRunner, Prepare
  <2>2. \A i \in 1..Len(ring') : ~IsCurrent(ring[i])'
    BY <1>1, <1>2, <2>1 DEF InLine, IsCurrent
  <2>3. QED BY <1>4, <2>1, <2>2
<1>14. CASE Take
  <2>1. /\ st = "poll" /\ st' = "work" /\ sentinel.cmd \in Verb /\ doing' = sentinel
        /\ UNCHANGED <<ring, acked, boot>>
    BY <1>14 DEF Take
  <2>2. ~acked /\ sentinel.req # 0 /\ sentinel.req \notin taken
    BY <1>1, <2>1 DEF TakenOnce, Again, Sending
  <2>3. \A i \in 1..Len(ring') : ring'[i].req # doing'.req
    BY <2>1, <2>2 DEF Known
  <2>4. QED BY <2>1, <2>2, <2>3 DEF InLine, IsCurrent
<1>15. CASE Perform
  <2>1. st = "work" /\ st' = "report" /\ ~acked' /\ UNCHANGED <<ring, doing, boot>>
    BY <1>15 DEF Perform, Prepare
  <2>2. \A i \in 1..Len(ring') : ~IsCurrent(ring[i])'
    BY <1>1, <2>1 DEF InLine, IsCurrent
  <2>3. QED BY <1>4, <2>1, <2>2
<1>16. CASE Cleared
  <2>1. st = "clear" /\ st' = "poll" /\ UNCHANGED <<ring, acked, boot>>
    BY <1>16 DEF Cleared
  <2>2. ~acked
    BY <2>1 DEF TakenOnce, Sending
  <2>3. QED BY <1>4, <2>1, <2>2 DEF IsCurrent
<1>17. QED
  BY <1>5, <1>6, <1>7, <1>9, <1>10, <1>11, <1>12, <1>13, <1>14, <1>15, <1>16, Zenon
     DEF Next, Http, MainLoop, Hook, Foreground

----------------------------------------------------------------------------
(* The basepage.                                                           *)

\* The mirror waits for a report that changes it.
Behind ==
    \/ st \in {"boot", "menu"} \/ (st = "hello" /\ ~acked)
    \/ st = "report" /\ ~acked /\ doing.cmd = "unload" /\ val = 0

Held ==
    Heard =>
        /\ ~Behind =>
            /\ rp.basepage \in loaded \cup {0}
            /\ \A i \in 1..Len(ring) : ring[i].cmd = "load" => ring[i].val \in loaded \cup {0}
            /\ sentinel.cmd = "exec" => slot \in loaded
        /\ st = "work" /\ doing.cmd = "exec" => arg \in loaded
        /\ st = "report" /\ doing.cmd = "load" => val \in loaded \cup {0}

LEMMA InitHeld == Init => Held
BY DEF Init, Held

\* The report that the ST waits for is the first of its kind in the ring, and
\* what is left behind it are copies of it.
LEMMA AnswerComes ==
    ASSUME Typed, InLine, HandleReport, Heard, IsCurrent(Head(ring))
    PROVE  /\ Head(ring) = Report
           /\ \A i \in 1..Len(ring') : ring'[i] = Report \/ Adv(ring'[i])
<1>1. ring # <<>> /\ ring' = Tail(ring)
  BY DEF HandleReport
<1>2. /\ Head(ring) = ring[1] /\ Len(ring) \in Nat /\ Len(ring) > 0
      /\ \A i \in 1..Len(ring') :
            i + 1 \in 2..Len(ring) /\ i + 1 \in 1..Len(ring) /\ ring'[i] = ring[i + 1]
  BY <1>1, Leaves
<1>3. 1 \in 1..Len(ring) /\ (1 + 1)..Len(ring) = 2..Len(ring)
  BY <1>2
<1>4. \A j \in 2..Len(ring) : IsCurrent(ring[j]) \/ Adv(ring[j])
  BY <1>2, <1>3 DEF InLine
<1>5. QED BY <1>2, <1>3, <1>4 DEF InLine

LEMMA NextHeld ==
    Typed /\ TakenOnce /\ InLine /\ Held /\ [Next]_vars => Held'
<1> SUFFICES ASSUME Typed, TakenOnce, InLine, Held, [Next]_vars, Heard'
             PROVE  Held'
  BY DEF Held
<1> USE DEF vars, http, stMem, stCpu, cells, seen
<1>1. Heard /\ "gaveUp" \notin causes /\ {"gaveUp", "mistaken"} \cap causes' = {}
  BY HeardBefore
<1>2. ASSUME UNCHANGED <<st, doing, arg, val, acked, loaded>>,
             ~Behind => rp'.basepage \in {rp.basepage, 0},
             \A i \in 1..Len(ring') : ring'[i].cmd = "load" =>
                \/ \E j \in 1..Len(ring) : ring'[i] = ring[j]
                \/ st = "report" /\ doing.cmd = "load" /\ ring'[i].val = val,
             sentinel'.cmd = "exec" => \/ slot' = slot /\ sentinel.cmd = "exec"
                                       \/ slot' = rp.basepage /\ slot' # 0
      PROVE  Held'
  <2>1. Behind' <=> Behind
    BY <1>2 DEF Behind
  <2>2. ~Behind => \A i \in 1..Len(ring') :
                      ring'[i].cmd = "load" => ring'[i].val \in loaded' \cup {0}
    BY <1>1, <1>2 DEF Held
  <2>3. ~Behind => /\ rp'.basepage \in loaded' \cup {0}
                   /\ sentinel'.cmd = "exec" => slot' \in loaded'
    BY <1>1, <1>2 DEF Held
  <2>4. /\ st' = "work" /\ doing'.cmd = "exec" => arg' \in loaded'
        /\ st' = "report" /\ doing'.cmd = "load" => val' \in loaded' \cup {0}
    BY <1>1, <1>2 DEF Held
  <2>5. QED BY <2>1, <2>2, <2>3, <2>4 DEF Held
<1>3. CASE Run \/ Cd \/ Load \/ Exec \/ Unload \/ Meminfo
  <2>1. /\ rp'.basepage = rp.basepage
        /\ IF sentinel'.cmd = "exec" THEN slot' = rp.basepage /\ slot' # 0 ELSE slot' = slot
        /\ UNCHANGED <<stMem, stCpu, ring>>
    BY <1>3, Submitted
  <2>2. QED BY <1>2, <2>1
<1>4. CASE AdvMeminfo \/ Reset \/ RelaunchTick
  <2>1. /\ rp'.basepage = rp.basepage /\ sentinel'.cmd # "exec"
        /\ UNCHANGED <<stMem, stCpu, ring>>
    <3>1. CASE AdvMeminfo
      BY <3>1 DEF AdvMeminfo, Escape, Typed, Values, Sessions
    <3>2. CASE Reset
      BY <3>2 DEF Reset, Escape, Typed, Values, Sessions
    <3>3. CASE RelaunchTick
      BY <3>3 DEF RelaunchTick
    <3>4. QED BY <1>4, <3>1, <3>2, <3>3
  <2>2. QED BY <1>2, <2>1
<1>5. CASE Return \/ Timeout \/ HookTimeout \/ UNCHANGED vars
  <2>1. /\ rp'.basepage \in {rp.basepage, 0}
        /\ UNCHANGED <<stMem, st, doing, arg, val, acked, ring, sentinel, slot>>
    BY <1>5 DEF Return, Timeout, HookTimeout, Typed, Values, Sessions
  <2>2. QED BY <1>2, <2>1
<1>6. CASE HandleReport
  <2>1. PICK f : f = Head(ring)
    OBVIOUS
  <2>2. /\ ring # <<>> /\ ring' = Tail(ring) /\ rp' = Recorded(f)
        /\ IF f.cmd = "gemhello" THEN sentinel' = sentinel ELSE sentinel' = Nop
        /\ acked' <=> acked \/ IsCurrent(f)
        /\ UNCHANGED <<http, stMem, st, doing, arg, val>>
    BY <1>1, <1>6, <2>1, Handled
  <2>3. /\ f = ring[1] /\ 1 \in 1..Len(ring)
        /\ \A i \in 1..Len(ring') : i + 1 \in 1..Len(ring) /\ ring'[i] = ring[i + 1]
    <3>1. /\ Head(ring) = ring[1] /\ Len(ring) \in Nat /\ Len(ring) > 0
          /\ \A i \in 1..Len(ring') : i + 1 \in 1..Len(ring) /\ ring'[i] = ring[i + 1]
      BY <2>2, Leaves
    <3>2. QED BY <2>1, <3>1
  <2>4. CASE ~Behind
    <3>1. rp'.basepage \in loaded \cup {0}
      <4>1. rp.basepage \in loaded \cup {0} /\ (f.cmd = "load" => f.val \in loaded \cup {0})
        BY <1>1, <2>3, <2>4 DEF Held
      <4>2. rp'.basepage \in {rp.basepage, 0} \/ (f.cmd = "load" /\ rp'.basepage = f.val)
        BY <2>2 DEF Recorded, Fresh, Typed, Values, Sessions
      <4>3. QED BY <4>1, <4>2
    <3>2. \A i \in 1..Len(ring') : ring'[i].cmd = "load" => ring'[i].val \in loaded \cup {0}
      BY <1>1, <2>3, <2>4 DEF Held
    <3>3. sentinel'.cmd = "exec" => slot' \in loaded
      BY <1>1, <2>2, <2>4 DEF Held, Nop
    <3>4. QED BY <1>1, <2>2, <3>1, <3>2, <3>3 DEF Held
  <2>5. CASE Behind /\ IsCurrent(f)
    <3>1. f = Report /\ \A i \in 1..Len(ring') : ring'[i] = Report \/ Adv(ring'[i])
      BY <1>1, <1>6, <2>1, <2>5, AnswerComes
    <3>2. CASE st = "boot"
      BY <1>1, <2>2, <3>2 DEF Held, Behind
    <3>3. CASE st # "boot"
      <4>1. \/ f.cmd = "hello"
            \/ f.cmd = "unload" /\ f.val = 0
        BY <2>5, <3>1, <3>3 DEF Behind, IsCurrent, Report
      <4>2. rp'.basepage = 0 /\ sentinel' = Nop
        BY <2>2, <4>1 DEF Recorded, Fresh, Typed, Values, Sessions
      <4>3. \A i \in 1..Len(ring') : ring'[i].cmd # "load"
        BY <3>1, <4>1 DEF Adv
      <4>4. QED BY <1>1, <2>2, <4>2, <4>3 DEF Held, Nop
    <3>4. QED BY <3>2, <3>3
  <2>6. CASE Behind /\ ~IsCurrent(f)
    BY <1>1, <2>2, <2>6 DEF Held, Behind
  <2>7. QED BY <2>4, <2>5, <2>6
<1>7. ASSUME NEW f \in Reports, f.cmd = "load" => f.val \in Pages \cup {0},
             f.cmd = "load" => st = "report" /\ doing.cmd = "load" /\ f.val = val,
             Len(ring) < MaxRing, ring' \in {ring, Append(ring, f)},
             UNCHANGED <<st, doing, arg, val, acked, stMem, rp, sentinel, slot>>
      PROVE  Held'
  <2>1. \A i \in 1..Len(ring') : (\E j \in 1..Len(ring) : ring'[i] = ring[j]) \/ ring'[i] = f
    <3>1. CASE ring' = ring
      BY <3>1
    <3>2. CASE ring' = Append(ring, f)
      BY <1>7, <3>2, Joins
    <3>3. QED BY <1>7, <3>1, <3>2
  <2>2. QED BY <1>2, <1>7, <2>1
<1>8. CASE HookMeminfo
  <2> DEFINE f == [cmd |-> "mem", req |-> 0, val |-> 0, boot |-> boot]
  <2>1. f \in Reports /\ f.cmd # "load"
    BY Constants DEF Reports, Answers, Typed, Values, Verb
  <2>2. /\ Len(ring) < MaxRing /\ ring' \in {ring, Append(ring, f)}
        /\ UNCHANGED <<st, doing, arg, val, acked, stMem, rp, sentinel, slot>>
    BY <1>8 DEF HookMeminfo
  <2> HIDE DEF f
  <2>3. QED BY <1>7, <2>1, <2>2
<1>9. CASE Transmit
  <2>1. /\ Sending /\ Len(ring) < MaxRing /\ ring' \in {ring, Append(ring, Report)}
        /\ UNCHANGED <<st, doing, arg, val, acked, stMem, rp, sentinel, slot>>
    BY <1>9 DEF Transmit
  <2>2. Report \in Reports /\ (Report.cmd = "load" => Report.val \in Pages \cup {0})
    BY <2>1, ReportTyped
  <2>3. Report.cmd = "load" => st = "report" /\ doing.cmd = "load" /\ Report.val = val
    BY <2>1 DEF Report, Sending
  <2>4. QED BY <1>7, <2>1, <2>2, <2>3
<1>10. CASE HookReset \/ ResetButton
  BY <1>10 DEF HookReset, ResetButton, ColdBoot, Prepare, Held, Behind
<1>11. CASE Proceed
  <2>1. /\ acked /\ st' \in {"menu", "clear", "poll"}
        /\ UNCHANGED <<ring, http, stMem, cells, rp>>
    BY <1>1, <1>11 DEF Proceed
  <2>2. st' # "menu" => ~Behind
    BY <1>11, <2>1 DEF Proceed, Behind, Sending
  <2>3. QED BY <1>1, <2>1, <2>2 DEF Held, Behind
<1>12. CASE StartRunner
  BY <1>12 DEF StartRunner, Prepare, Held, Behind
<1>13. CASE Take
  <2>1. /\ st = "poll" /\ st' = "work" /\ doing' = sentinel
        /\ (sentinel.cmd = "exec" => arg' = slot)
        /\ UNCHANGED <<ring, http, stMem, cells, rp>>
    BY <1>13 DEF Take
  <2>2. QED BY <1>1, <2>1 DEF Held, Behind
<1>14. CASE Perform
  <2>1. PICK v \in Pages \cup {0, 1} : Gemdos(v) /\ val' = v
    BY <1>14 DEF Perform
  <2>2. /\ st = "work" /\ st' = "report" /\ UNCHANGED <<doing, ring, http, cells, rp>>
        /\ ~Behind /\ ~acked'
    BY <1>14 DEF Perform, Prepare, Behind
  <2>3. doing.cmd = "load" => val' \in loaded' \cup {0}
    BY <2>1 DEF Gemdos
  <2>4. CASE doing.cmd = "unload" /\ v = 0
    BY <2>1, <2>2, <2>3, <2>4 DEF Held, Behind
  <2>5. CASE ~(doing.cmd = "unload" /\ v = 0)
    <3>1. loaded \subseteq loaded'
      BY <2>1, <2>5 DEF Gemdos
    <3>2. QED BY <1>1, <2>2, <2>3, <3>1 DEF Held
  <2>6. QED BY <2>4, <2>5
<1>15. CASE Cleared
  BY <1>1, <1>15 DEF Cleared, Held, Behind
<1>16. QED
  BY <1>3, <1>4, <1>5, <1>6, <1>8, <1>9, <1>10, <1>11, <1>12, <1>13, <1>14, <1>15, Zenon
     DEF Next, Http, MainLoop, Hook, Foreground

SessionInv == Typed /\ TakenOnce /\ Known /\ Empty /\ InLine /\ Held

LEMMA SessionHolds == Spec => []SessionInv
<1>1. Init => SessionInv
  BY InitTyped, InitTakenOnce, InitKnown, InitInLine, InitHeld DEF SessionInv
<1>2. SessionInv /\ [Next]_vars => SessionInv'
  BY NextTyped, NextTakenOnce, NextKnown, NextEmpty, NextInLine, NextHeld DEF SessionInv
<1>3. QED BY <1>1, <1>2, PTL DEF Spec

(* The Runner never starts a basepage that the ST does not hold, as long as  *)
(* no report was given up or took another's answer for its own, for any      *)
(* number of requests, resets, timeouts and repeated reports and any         *)
(* addresses GEMDOS returns.                                                 *)
THEOREM ExecOnLoadedHolds == Spec => []ExecOnLoaded
<1>1. SessionInv => ExecOnLoaded
  BY DEF SessionInv, Held, Heard, ExecOnLoaded
<1>2. QED BY <1>1, SessionHolds, PTL

\* Reports that set the basepage, and to what.
Sets(f)  == f.cmd \in {"load", "hello"} \/ (f.cmd = "unload" /\ f.val = 0)
Gives(f) == IF f.cmd = "load" THEN f.val ELSE 0

Up == st \in {"poll", "work", "clear", "report"} \/ (st = "hello" /\ acked)
Pending == st = "report" /\ ~acked

Mirrored ==
    causes \cap (Unheard \cup {"raced"}) = {} /\ Up =>
        /\ \A i \in 1..Len(ring) :
              Sets(ring[i]) /\ ~(Pending /\ IsCurrent(ring[i])) => Gives(ring[i]) = rp.basepage
        /\ sentinel.cmd = "load" => rp.basepage = 0
        /\ st = "work" /\ doing.cmd = "load" => rp.basepage = 0
        /\ loaded = CASE Pending /\ doing.cmd = "load" -> {val} \ {0}
                      [] Pending /\ doing.cmd = "unload" /\ val = 0 -> {}
                      [] OTHER -> {rp.basepage} \ {0}
        /\ Pending /\ doing.cmd = "load" => rp.basepage = 0

LEMMA InitMirrored == Init => Mirrored
BY DEF Init, Mirrored, Up

\* The basepage in the mirror after a report.
LEMMA RecordedBasepage ==
    ASSUME Typed, NEW f
    PROVE  Recorded(f).basepage = IF Sets(f) THEN Gives(f) ELSE rp.basepage
BY DEF Recorded, Fresh, Sets, Gives, Typed, Values, Sessions

\* Nothing the mirror's basepage depends on changes, but for one report more
\* that has yet to be handled.
LEMMA MirroredKept ==
    ASSUME Typed, Mirrored, causes \cap (Unheard \cup {"raced"}) = {},
           UNCHANGED <<st, doing, val, acked, boot, loaded>>,
           Up => rp'.basepage = rp.basepage,
           sentinel'.cmd = "load" => sentinel.cmd = "load" \/ rp.basepage = 0,
           \A i \in 1..Len(ring') :
              \/ \E j \in 1..Len(ring) : ring'[i] = ring[j]
              \/ ~Sets(ring'[i]) \/ (Up => Pending /\ IsCurrent(ring'[i]))
    PROVE  Mirrored'
<1>1. /\ Up' <=> Up
      /\ Pending' <=> Pending
      /\ \A i \in 1..Len(ring') : (IsCurrent(ring[i])' <=> IsCurrent(ring'[i]))
                               /\ (Sets(ring[i])' <=> Sets(ring'[i]))
                               /\ (Gives(ring[i])' = Gives(ring'[i]))
  BY DEF Up, Pending, IsCurrent, Sets, Gives
<1>2. CASE ~Up
  BY <1>1, <1>2 DEF Mirrored
<1>3. CASE Up
  <2>1. \A i \in 1..Len(ring') :
           Sets(ring'[i]) /\ ~(Pending /\ IsCurrent(ring'[i])) => Gives(ring'[i]) = rp'.basepage
    BY <1>3 DEF Mirrored
  <2>2. QED BY <1>1, <1>3, <2>1 DEF Mirrored
<1>4. QED BY <1>2, <1>3

LEMMA NextMirrored ==
    SessionInv /\ Mirrored /\ [Next]_vars => Mirrored'
<1> SUFFICES ASSUME SessionInv, Mirrored, [Next]_vars, causes' \cap (Unheard \cup {"raced"}) = {}
             PROVE  Mirrored'
  BY DEF Mirrored
<1> USE DEF vars, http, stMem, stCpu, cells, seen
<1>1. /\ causes \cap (Unheard \cup {"raced"}) = {} /\ Heard
      /\ {"gaveUp", "mistaken", "raced"} \cap causes' = {}
      /\ Typed /\ TakenOnce /\ InLine /\ Empty
  BY CausesGrow DEF SessionInv, Heard, Unheard
<1>2. CASE Run \/ Cd \/ Load \/ Exec \/ Unload \/ Meminfo
  <2>1. /\ rp'.basepage = rp.basepage /\ (sentinel'.cmd = "load" => rp.basepage = 0)
        /\ UNCHANGED <<stMem, stCpu, ring>>
    BY <1>1, <1>2, Submitted
  <2>2. QED BY <1>1, <2>1, MirroredKept
<1>3. CASE AdvMeminfo \/ Reset \/ RelaunchTick
  <2>1. /\ rp'.basepage = rp.basepage /\ sentinel'.cmd # "load"
        /\ UNCHANGED <<stMem, stCpu, ring>>
    <3>1. CASE AdvMeminfo
      BY <1>1, <3>1 DEF AdvMeminfo, Escape, Typed, Values, Sessions
    <3>2. CASE Reset
      BY <1>1, <3>2 DEF Reset, Escape, Typed, Values, Sessions
    <3>3. CASE RelaunchTick
      BY <3>3 DEF RelaunchTick
    <3>4. QED BY <1>3, <3>1, <3>2, <3>3
  <2>2. QED BY <1>1, <2>1, MirroredKept
<1>4. CASE Return \/ Timeout \/ HookTimeout \/ UNCHANGED vars
  <2>1. /\ rp'.basepage = rp.basepage
        /\ UNCHANGED <<stMem, st, doing, arg, val, acked, ring, sentinel>>
    <3>1. CASE Timeout
      <4>1. ~(waiting = "load" /\ rp.basepage # 0)
        BY <3>1 DEF Timeout
      <4>2. QED BY <1>1, <3>1, <4>1 DEF Timeout, Typed, Values, Sessions
    <3>2. CASE Return \/ HookTimeout \/ UNCHANGED vars
      BY <3>2 DEF Return, HookTimeout
    <3>3. QED BY <1>4, <3>1, <3>2
  <2>2. QED BY <1>1, <2>1, MirroredKept
<1>5. CASE HandleReport
  <2>1. PICK f : f = Head(ring)
    OBVIOUS
  <2>2. /\ ring # <<>> /\ ring' = Tail(ring) /\ rp' = Recorded(f)
        /\ IF f.cmd = "gemhello" THEN sentinel' = sentinel ELSE sentinel' = Nop
        /\ acked' <=> acked \/ IsCurrent(f)
        /\ UNCHANGED <<http, stMem, st, doing, arg, val>>
    BY <1>1, <1>5, <2>1, Handled
  <2>3. /\ f = ring[1] /\ 1 \in 1..Len(ring)
        /\ \A i \in 1..Len(ring') : i + 1 \in 1..Len(ring) /\ ring'[i] = ring[i + 1]
    <3>1. /\ Head(ring) = ring[1] /\ Len(ring) \in Nat /\ Len(ring) > 0
          /\ \A i \in 1..Len(ring') : i + 1 \in 1..Len(ring) /\ ring'[i] = ring[i + 1]
      BY <1>1, <2>2, Leaves
    <3>2. QED BY <2>1, <3>1
  <2>4. rp'.basepage = IF Sets(f) THEN Gives(f) ELSE rp.basepage
    BY <1>1, <2>2, RecordedBasepage
  <2>5. CASE IsCurrent(f) /\ ~acked /\ st # "boot"
    <3>1. f = Report /\ \A i \in 1..Len(ring') : ring'[i] = Report \/ Adv(ring'[i])
      BY <1>1, <1>5, <2>1, <2>5, AnswerComes
    <3>2. sentinel' = Nop /\ ~Pending' /\ st \in {"hello", "report"}
      BY <1>1, <2>2, <2>5, <3>1 DEF Pending, IsCurrent, Report, Typed, Values, Verb
    <3>3. \A i \in 1..Len(ring') : Sets(ring'[i]) => Gives(ring'[i]) = rp'.basepage
      BY <2>4, <3>1 DEF Sets, Gives, Adv
    <3>4. loaded = {rp'.basepage} \ {0}
      <4>1. CASE st = "hello"
        <5>1. Report.cmd = "hello"
          BY <4>1 DEF Report
        <5>2. loaded = {} /\ rp'.basepage = 0
          BY <1>1, <2>4, <3>1, <4>1, <5>1 DEF Empty, Sets, Gives
        <5>3. QED BY <5>2
      <4>2. CASE st = "report"
        <5>1. Up /\ Pending
          BY <2>5, <4>2 DEF Up, Pending
        <5>2. f.cmd = doing.cmd /\ f.val = val
          BY <3>1, <4>2 DEF Report
        <5>3. QED BY <1>1, <2>4, <5>1, <5>2, <1>1 DEF Mirrored, Sets, Gives, Typed, Values, Verb
      <4>3. QED BY <3>2, <4>1, <4>2
    <3>5. QED BY <2>2, <3>2, <3>3, <3>4 DEF Mirrored, Nop, Sets, Gives, Pending
  <2>6. CASE IsCurrent(f) /\ ~acked /\ st = "boot"
    BY <2>2, <2>6 DEF Mirrored, Up
  <2>7. CASE acked \/ ~IsCurrent(f)
    <3>1. acked' <=> acked
      BY <2>2, <2>7
    <3>2. acked' = acked
      BY <1>1, <3>1, NextTyped, Zenon DEF Typed, Flags
    <3>3. Up => rp'.basepage = rp.basepage
      BY <1>1, <2>3, <2>4, <2>7 DEF Mirrored, Pending
    <3>4. QED BY <1>1, <2>2, <2>3, <3>2, <3>3, MirroredKept DEF Nop
  <2>8. QED BY <2>5, <2>6, <2>7
<1>6. ASSUME NEW f \in Reports, f.cmd = "load" => f.val \in Pages \cup {0},
             ~Sets(f) \/ (Up => Pending /\ IsCurrent(f)),
             Len(ring) < MaxRing, ring' \in {ring, Append(ring, f)},
             UNCHANGED <<st, doing, val, acked, stMem, rp, sentinel>>
      PROVE  Mirrored'
  <2>1. \A i \in 1..Len(ring') : (\E j \in 1..Len(ring) : ring'[i] = ring[j]) \/ ring'[i] = f
    <3>1. CASE ring' = ring
      BY <3>1
    <3>2. CASE ring' = Append(ring, f)
      BY <1>1, <1>6, <3>2, Joins
    <3>3. QED BY <1>6, <3>1, <3>2
  <2>2. QED BY <1>1, <1>6, <2>1, MirroredKept
<1>7. CASE HookMeminfo
  <2> DEFINE f == [cmd |-> "mem", req |-> 0, val |-> 0, boot |-> boot]
  <2>1. f \in Reports /\ f.cmd # "load" /\ ~Sets(f)
    BY <1>1, Constants DEF Reports, Answers, Typed, Values, Verb, Sets
  <2>2. /\ Len(ring) < MaxRing /\ ring' \in {ring, Append(ring, f)}
        /\ UNCHANGED <<st, doing, val, acked, stMem, rp, sentinel>>
    BY <1>7 DEF HookMeminfo
  <2> HIDE DEF f
  <2>3. QED BY <1>6, <2>1, <2>2
<1>8. CASE Transmit
  <2>1. /\ Sending /\ ~acked /\ Len(ring) < MaxRing /\ ring' \in {ring, Append(ring, Report)}
        /\ UNCHANGED <<st, doing, val, acked, stMem, rp, sentinel>>
    BY <1>8 DEF Transmit
  <2>2. Report \in Reports /\ (Report.cmd = "load" => Report.val \in Pages \cup {0})
    BY <1>1, <2>1, ReportTyped
  <2>3. Up => Pending /\ IsCurrent(Report)
    BY <1>1, <2>1, SentIsCurrent DEF Up, Pending, Sending
  <2>4. QED BY <1>6, <2>1, <2>2, <2>3
<1>9. CASE HookReset \/ ResetButton \/ StartRunner
  BY <1>9 DEF HookReset, ResetButton, ColdBoot, StartRunner, Prepare, Mirrored, Up
<1>10. CASE Proceed \/ Cleared
  <2>1. /\ st' \in {"menu", "clear", "poll"}
        /\ UNCHANGED <<ring, http, stMem, cells, rp>>
        /\ (st' # "menu" => Up /\ ~Pending)
    BY <1>1, <1>10 DEF Proceed, Cleared, Up, Pending, Sending
  <2>2. QED BY <1>1, <2>1 DEF Mirrored, Up, Pending, Sets, Gives
<1>11. CASE Take
  <2>1. /\ st = "poll" /\ st' = "work" /\ doing' = sentinel
        /\ UNCHANGED <<ring, http, stMem, cells, rp>>
    BY <1>11 DEF Take
  <2>2. QED BY <1>1, <2>1 DEF Mirrored, Up, Pending, Sets, Gives
<1>12. CASE Perform
  <2>1. PICK v \in Pages \cup {0, 1} : Gemdos(v) /\ val' = v
    BY <1>12 DEF Perform
  <2>2. /\ st = "work" /\ st' = "report" /\ ~acked'
        /\ UNCHANGED <<doing, ring, http, cells, rp>>
        /\ Up /\ ~Pending /\ Pending'
    BY <1>12 DEF Perform, Prepare, Up, Pending
  <2>3. /\ loaded = {rp.basepage} \ {0}
        /\ doing.cmd = "load" => rp.basepage = 0
        /\ sentinel.cmd = "load" => rp.basepage = 0
        /\ \A i \in 1..Len(ring) : Sets(ring[i]) => Gives(ring[i]) = rp.basepage
    BY <1>1, <2>2 DEF Mirrored
  <2>4. loaded' = CASE doing.cmd = "load" -> {v} \ {0}
                    [] doing.cmd = "unload" /\ v = 0 -> {}
                    [] OTHER -> {rp.basepage} \ {0}
    <3>1. CASE doing.cmd = "load"
      BY <2>1, <2>3, <3>1 DEF Gemdos
    <3>2. CASE doing.cmd = "unload"
      BY <2>1, <2>3, <3>2 DEF Gemdos
    <3>3. CASE doing.cmd \notin {"load", "unload"}
      BY <2>1, <2>3, <3>3 DEF Gemdos
    <3>4. QED BY <3>1, <3>2, <3>3
  <2>5. QED BY <2>1, <2>2, <2>3, <2>4 DEF Mirrored, Sets, Gives
<1>13. QED
  BY <1>2, <1>3, <1>4, <1>5, <1>7, <1>8, <1>9, <1>10, <1>11, <1>12, Zenon
     DEF Next, Http, MainLoop, Hook, Foreground

----------------------------------------------------------------------------
(* One report at a time, as long as none is sent again or given up.        *)

Orderly == causes \subseteq {"early"}

Single ==
    Orderly =>
        /\ \A i \in 1..Len(ring) : ring[i].boot = boot =>
              /\ i = Len(ring) /\ Sending /\ ~acked /\ left <= Retries
              /\ ring[i] = Report
        /\ st # "boot" \/ acked => \A i \in 1..Len(ring) : ring[i].boot = boot
        /\ \A i \in 2..Len(ring) : ring[i].cmd = "gemhello"
        /\ sentinel.cmd # "advMem"

LEMMA InitSingle == Init => Single
BY DEF Init, Single

\* Between two reports the ring is empty.
LEMMA Quiet ==
    ASSUME Typed, Single, Orderly, st # "boot" \/ acked, ~Sending \/ acked \/ ~(left <= Retries)
    PROVE  Len(ring) = 0
<1>1. ring \in Seq(Reports) /\ Len(ring) \in Nat
  BY DEF Typed, Values
<1>2. \A i \in 1..Len(ring) : FALSE
  BY DEF Single
<1>3. Len(ring) > 0 => 1 \in 1..Len(ring)
  BY <1>1
<1>4. QED BY <1>1, <1>2, <1>3

LEMMA NextSingle == SessionInv /\ Single /\ [Next]_vars => Single'
<1> SUFFICES ASSUME SessionInv, Single, [Next]_vars, Orderly'
             PROVE  Single'
  BY DEF Single
<1> USE DEF vars, http, stMem, stCpu, cells, seen
<1>1. /\ Orderly /\ Typed /\ TakenOnce /\ Known
      /\ {"late", "gaveUp", "raced", "mistaken"} \cap causes' = {}
  BY CausesGrow DEF SessionInv, Orderly
<1>2. /\ ring \in Seq(Reports) /\ Len(ring) \in Nat /\ boot \in Nat /\ Retries \in Nat
      /\ left \in Nat /\ left <= Retries + 1
      /\ \A i \in 1..Len(ring) : ring[i].boot \in Nat
  <2>1. \A g \in Reports : g.boot \in Nat
    BY DEF Reports
  <2>2. QED BY <1>1, <2>1, Constants DEF Typed, Values
<1>3. CASE UNCHANGED <<ring, st, doing, val, acked, left, boot>> /\ sentinel'.cmd # "advMem"
  BY <1>1, <1>3 DEF Single, Report, Sending
<1>4. CASE Len(ring) = 0 /\ ring' = ring /\ sentinel' = sentinel
  BY <1>1, <1>4 DEF Single
<1>5. CASE Run \/ Cd \/ Load \/ Exec \/ Unload \/ Meminfo
  <2>1. sentinel'.cmd \in Verb /\ UNCHANGED <<stMem, stCpu, ring>>
    BY <1>1, <1>5, Submitted
  <2>2. QED BY <1>3, <2>1 DEF Verb
<1>6. CASE AdvMeminfo \/ Timeout
  BY <1>1, <1>6 DEF AdvMeminfo, Timeout
<1>7. CASE Reset \/ Return \/ RelaunchTick \/ HookTimeout \/ UNCHANGED vars
  BY <1>1, <1>3, <1>7 DEF Reset, Escape, Return, RelaunchTick, HookTimeout, Single
<1>8. CASE HandleReport
  <2>1. PICK f : f = Head(ring)
    OBVIOUS
  <2>2. /\ ring # <<>> /\ ring' = Tail(ring)
        /\ IF f.cmd = "gemhello" THEN sentinel' = sentinel ELSE sentinel' = Nop
        /\ acked' <=> acked \/ IsCurrent(f)
        /\ UNCHANGED <<boot, st, doing, val, left>>
    BY <1>1, <1>8, <2>1, Handled
  <2>3. /\ f = ring[1] /\ Len(ring) > 0 /\ Len(ring') = Len(ring) - 1
        /\ \A i \in 1..Len(ring') :
              i + 1 \in 2..Len(ring) /\ i + 1 \in 1..Len(ring) /\ ring'[i] = ring[i + 1]
    BY <1>1, <2>1, <2>2, Leaves
  <2>4. f.boot = boot => Len(ring') = 0
    <3>1. 1 \in 1..Len(ring)
      BY <1>2, <2>3
    <3>2. QED BY <1>1, <1>2, <2>3, <3>1 DEF Single
  <2>5. sentinel'.cmd # "advMem"
    BY <1>1, <2>2 DEF Single, Nop
  <2>6. CASE f.boot = boot
    BY <2>4, <2>5, <2>6 DEF Single
  <2>7. CASE f.boot # boot
    <3>1. (acked' <=> acked) /\ Report' = Report /\ (Sending' <=> Sending)
      BY <2>2, <2>7 DEF IsCurrent, Report, Sending
    <3>2. \A i \in 1..Len(ring') : ring'[i].boot = boot' =>
             /\ i = Len(ring') /\ Sending /\ ~acked /\ left <= Retries
             /\ ring'[i] = Report
      <4>1. \A i \in 1..Len(ring') : i + 1 = Len(ring) => i = Len(ring')
        BY <1>2, <2>3
      <4>2. QED BY <1>1, <2>2, <2>3, <4>1 DEF Single
    <3>3. st # "boot" \/ acked => \A i \in 1..Len(ring') : ring'[i].boot = boot'
      BY <1>1, <2>2, <2>3 DEF Single
    <3>4. \A i \in 2..Len(ring') : ring'[i].cmd = "gemhello"
      <4>1. \A i \in 2..Len(ring') : i \in 1..Len(ring')
        BY <1>2, <2>3
      <4>2. QED BY <1>1, <2>3, <4>1 DEF Single
    <3>5. QED BY <2>2, <2>5, <3>1, <3>2, <3>3, <3>4 DEF Single
  <2>8. QED BY <2>6, <2>7
<1>9. CASE HookMeminfo
  BY <1>1, <1>9 DEF HookMeminfo, Single
<1>10. CASE Transmit
  <2>1. /\ Sending /\ ~acked /\ ~(left <= Retries) /\ left' = left - 1
        /\ Len(ring) < MaxRing /\ ring' \in {ring, Append(ring, Report)}
        /\ UNCHANGED <<st, doing, val, acked, boot, sentinel>>
    BY <1>1, <1>10 DEF Transmit
  <2>2. left' <= Retries
    BY <1>2, <2>1
  <2>3. \A i \in 1..Len(ring) : ring[i].boot # boot
    BY <1>1, <2>1 DEF Single
  <2>4. CASE ring' = ring
    BY <1>1, <2>1, <2>3, <2>4 DEF Single
  <2>5. CASE ring' = Append(ring, Report)
    <3>1. Report \in Reports /\ (Report.cmd = "load" => Report.val \in Pages \cup {0})
      BY <1>1, <2>1, ReportTyped
    <3>2. /\ Len(ring') = Len(ring) + 1 /\ ring'[Len(ring')] = Report
          /\ \A i \in 1..Len(ring) : ring'[i] = ring[i]
          /\ \A i \in 1..Len(ring') : i \in 1..Len(ring) \/ i = Len(ring')
      BY <1>1, <2>1, <2>5, <3>1, Joins
    <3>3. Report' = Report /\ (Sending' <=> Sending) /\ Report.boot = boot
      BY <2>1 DEF Report, Sending
    <3>4. st # "boot" => Len(ring) = 0
      BY <1>1, <2>1, Quiet
    <3>5. \A i \in 1..Len(ring') : ring'[i].boot = boot =>
             /\ i = Len(ring') /\ Sending /\ ~acked /\ left' <= Retries
             /\ ring'[i] = Report
      BY <2>1, <2>2, <2>3, <3>2
    <3>6. st # "boot" => \A i \in 1..Len(ring') : ring'[i].boot = boot
      <4>1. ASSUME st # "boot", NEW i \in 1..Len(ring') PROVE i = Len(ring')
        BY <3>2, <3>4, <4>1
      <4>2. QED BY <3>2, <3>3, <4>1
    <3>7. \A i \in 2..Len(ring') : ring'[i].cmd = "gemhello"
      <4>1. CASE st = "boot"
        <5>1. \A i \in 2..Len(ring') : i = Len(ring') \/ (i \in 2..Len(ring) /\ i \in 1..Len(ring))
          BY <1>2, <3>2
        <5>2. Report.cmd = "gemhello"
          BY <4>1 DEF Report
        <5>3. QED BY <1>1, <3>2, <5>1, <5>2 DEF Single
      <4>2. CASE st # "boot"
        BY <3>2, <3>4, <4>2
      <4>3. QED BY <4>1, <4>2
    <3>8. sentinel'.cmd # "advMem"
      BY <1>1, <2>1 DEF Single
    <3>9. QED BY <2>1, <3>3, <3>5, <3>6, <3>7, <3>8 DEF Single
  <2>6. QED BY <2>1, <2>4, <2>5
<1>11. CASE HookReset \/ ResetButton
  <2>1. /\ ~acked' /\ st' = "boot" /\ boot' = boot + 1 /\ UNCHANGED <<ring, sentinel>>
    BY <1>11 DEF HookReset, ResetButton, ColdBoot, Prepare
  <2>2. \A i \in 1..Len(ring') : ring'[i].boot # boot'
    BY <1>1, <1>2, <2>1 DEF Known
  <2>3. QED BY <1>1, <2>1, <2>2 DEF Single
<1>12. CASE Proceed
  <2>1. acked /\ UNCHANGED <<ring, sentinel>>
    BY <1>1, <1>12 DEF Proceed
  <2>2. QED BY <1>1, <1>4, <2>1, Quiet
<1>13. CASE StartRunner \/ Take \/ Perform \/ Cleared
  <2>1. st # "boot" /\ ~Sending /\ UNCHANGED <<ring, sentinel>>
    BY <1>13 DEF StartRunner, Take, Perform, Cleared, Sending
  <2>2. QED BY <1>1, <1>4, <2>1, Quiet
<1>14. QED
  BY <1>5, <1>6, <1>7, <1>8, <1>9, <1>10, <1>11, <1>12, <1>13, Zenon
     DEF Next, Http, MainLoop, Hook, Foreground

\* Whatever may be reported is the last request, which is not over.
Mine ==
    causes = {} =>
        /\ \A i \in 1..Len(ring) :
              ring[i].req # 0 => ring[i].req = nReq /\ (rp.busy \/ relaunch)
        /\ st = "work" \/ Pending => doing.req = nReq /\ (rp.busy \/ relaunch)
        /\ sentinel.cmd \in Verb => rp.busy \/ relaunch

LEMMA InitMine == Init => Mine
BY DEF Init, Mine, Pending, Verb

\* While reports are orderly, one that is handled after the boot is the answer
\* to the ST, and the only one in the ring.
LEMMA OnlyAnswer ==
    ASSUME Typed, TakenOnce, Single, Orderly, HandleReport, st # "boot",
           "mistaken" \notin causes'
    PROVE  /\ ~acked /\ acked' /\ Head(ring) = Report /\ Sending
           /\ Len(ring') = 0
<1>1. /\ ring # <<>> /\ ring' = Tail(ring) /\ (acked' <=> acked \/ IsCurrent(Head(ring)))
  BY Handled
<1>2. /\ Head(ring) = ring[1] /\ Len(ring) \in Nat /\ Len(ring) > 0
      /\ Len(ring') = Len(ring) - 1
  BY <1>1, Leaves
<1>3. 1 \in 1..Len(ring)
  BY <1>2
<1>4. 1 = Len(ring) /\ Sending /\ ~acked /\ ring[1] = Report
  BY <1>3 DEF Single
<1>5. Len(ring') = 0
  <2>1. Len(ring) = 1 /\ Len(ring') = Len(ring) - 1
    BY <1>2, <1>4
  <2>2. QED BY <2>1
<1>6. IsCurrent(Report)
  BY <1>4, SentIsCurrent
<1>7. QED BY <1>1, <1>2, <1>4, <1>5, <1>6

LEMMA NextMine == SessionInv /\ Single /\ Mine /\ [Next]_vars => Mine'
<1> SUFFICES ASSUME SessionInv, Single, Mine, [Next]_vars, causes' = {}
             PROVE  Mine'
  BY DEF Mine
<1> USE DEF vars, http, stMem, stCpu, cells, seen
<1>1. causes = {} /\ Orderly /\ Typed /\ TakenOnce /\ Known
  BY CausesGrow DEF SessionInv, Orderly
<1>2. CASE UNCHANGED <<nReq, ring, st, doing, acked>> /\ rp' = rp /\ (relaunch => relaunch')
           /\ (sentinel'.cmd \in Verb => sentinel' = sentinel)
  BY <1>1, <1>2 DEF Mine, Pending
<1>3. CASE Run \/ Cd \/ Load \/ Exec \/ Unload \/ Meminfo
  <2>1. /\ ~rp.busy /\ rp'.busy /\ UNCHANGED <<relaunch, st, doing, acked, ring>>
        /\ causes' = causes \cup LostReset \cup Early
    BY <1>1, <1>3, Submitted
  <2>2. ~relaunch
    BY <2>1 DEF Early
  <2>3. /\ \A i \in 1..Len(ring) : ring[i].req = 0
        /\ ~(st = "work" \/ Pending)
    BY <1>1, <2>1, <2>2 DEF Mine
  <2>4. QED BY <2>1, <2>3 DEF Mine, Pending
<1>4. CASE AdvMeminfo \/ Timeout
  BY <1>4 DEF AdvMeminfo, Timeout
<1>5. CASE Reset
  <2>1. /\ relaunch' /\ sentinel'.cmd \notin Verb /\ UNCHANGED <<nReq, ring, st, doing, acked>>
    BY <1>5 DEF Reset, Escape, Verb
  <2>2. QED BY <1>1, <2>1 DEF Mine, Pending
<1>6. CASE Return \/ RelaunchTick \/ HookTimeout \/ UNCHANGED vars
  BY <1>2, <1>6 DEF Return, RelaunchTick, HookTimeout, Verb
<1>7. CASE HandleReport
  <2>1. PICK f : f = Head(ring)
    OBVIOUS
  <2>2. /\ ring # <<>> /\ ring' = Tail(ring)
        /\ IF f.cmd = "gemhello" THEN sentinel' = sentinel ELSE sentinel' = Nop
        /\ relaunch' <=> f.cmd = "gemhello" \/ (relaunch /\ f.cmd # "hello")
        /\ acked' <=> acked \/ IsCurrent(f)
        /\ UNCHANGED <<nReq, st, doing>>
    BY <1>1, <1>7, <2>1, Handled
  <2>3. \A i \in 1..Len(ring') :
           i + 1 \in 2..Len(ring) /\ i + 1 \in 1..Len(ring) /\ ring'[i] = ring[i + 1]
    BY <1>1, <2>2, Leaves
  <2>4. \A i \in 1..Len(ring') : ring'[i].req = 0
    BY <1>1, <2>3 DEF Single, Known
  <2>5. ~(st' = "work" \/ Pending')
    <3>1. CASE st = "boot"
      BY <2>2, <3>1 DEF Pending
    <3>2. CASE st # "boot"
      BY <1>1, <1>7, <2>2, <3>2, OnlyAnswer DEF Sending, Pending
    <3>3. QED BY <3>1, <3>2
  <2>6. QED BY <2>2, <2>4, <2>5 DEF Mine, Nop, Verb
<1>8. CASE HookMeminfo
  BY <1>1, <1>8 DEF HookMeminfo, Single
<1>9. CASE Transmit
  <2>1. /\ Sending /\ ~acked /\ Len(ring) < MaxRing /\ ring' \in {ring, Append(ring, Report)}
        /\ UNCHANGED <<nReq, st, doing, acked, rp, relaunch, sentinel>>
    BY <1>9 DEF Transmit
  <2>2. Report \in Reports /\ (Report.cmd = "load" => Report.val \in Pages \cup {0})
    BY <1>1, <2>1, ReportTyped
  <2>3. Report.req # 0 => Report.req = nReq /\ (rp.busy \/ relaunch)
    BY <1>1, <2>1 DEF Report, Sending, TakenOnce, Nop, Mine, Pending
  <2>4. \A i \in 1..Len(ring') : (i \in 1..Len(ring) /\ ring'[i] = ring[i]) \/ ring'[i] = Report
    BY <1>1, <2>1, <2>2, Joins
  <2>5. \A i \in 1..Len(ring') : ring'[i].req # 0 => ring'[i].req = nReq /\ (rp.busy \/ relaunch)
    BY <1>1, <2>3, <2>4 DEF Mine
  <2>6. QED BY <1>1, <2>1, <2>5 DEF Mine, Pending
<1>10. CASE HookReset \/ ResetButton \/ Proceed \/ StartRunner \/ Cleared
  <2>1. /\ st' \notin {"work", "report"} /\ UNCHANGED <<nReq, ring, rp, relaunch, sentinel>>
    BY <1>10 DEF HookReset, ResetButton, ColdBoot, Proceed, StartRunner, Prepare, Cleared
  <2>2. QED BY <1>1, <2>1 DEF Mine, Pending
<1>11. CASE Take
  <2>1. /\ sentinel.cmd \in Verb /\ doing' = sentinel
        /\ UNCHANGED <<nReq, ring, rp, relaunch, sentinel>>
    BY <1>11 DEF Take
  <2>2. QED BY <1>1, <2>1 DEF Mine, TakenOnce
<1>12. CASE Perform
  <2>1. st = "work" /\ UNCHANGED <<nReq, ring, doing, rp, relaunch, sentinel>>
    BY <1>12 DEF Perform
  <2>2. QED BY <1>1, <2>1 DEF Mine
<1>13. QED
  BY <1>3, <1>4, <1>5, <1>6, <1>7, <1>8, <1>9, <1>10, <1>11, <1>12, Zenon
     DEF Next, Http, MainLoop, Hook, Foreground

----------------------------------------------------------------------------
(* The current directory.                                                  *)

\* The ST is between two commands.
Ready == st \in {"poll", "clear"} \/ (st \in {"hello", "report"} /\ acked)

SameCwd ==
    Orderly =>
        /\ relaunch /\ (Ready \/ st = "work" \/ Pending) => sentinel.cmd = "reset"
        /\ sentinel.cmd # "reset" =>
            /\ Ready =>
                /\ sentinel.cmd \in Verb => rp.busy
                /\ IF sentinel.cmd = "cd" THEN rp.cwd = path /\ rp.cwdPrev = stCwd
                   ELSE rp.cwd = stCwd
            /\ st = "work" \/ Pending =>
                /\ sentinel = doing /\ rp.busy
                /\ doing.cmd # "cd" => rp.cwd = stCwd
            /\ st = "work" /\ doing.cmd = "cd" => rp.cwd = arg /\ rp.cwdPrev = stCwd
            /\ Pending /\ doing.cmd = "cd" =>
                stCwd = IF val = 0 THEN rp.cwd ELSE rp.cwdPrev

LEMMA InitSameCwd == Init => SameCwd
BY DEF Init, SameCwd, Ready, Pending

LEMMA NextSameCwd == SessionInv /\ Single /\ SameCwd /\ [Next]_vars => SameCwd'
<1> SUFFICES ASSUME SessionInv, Single, SameCwd, [Next]_vars, Orderly'
             PROVE  SameCwd'
  BY DEF SameCwd
<1> USE DEF vars, http, stMem, stCpu, cells, seen
<1>1. /\ Orderly /\ Typed /\ TakenOnce /\ Empty
      /\ {"late", "gaveUp", "raced", "mistaken"} \cap causes' = {}
  BY CausesGrow DEF SessionInv, Orderly
<1>2. CASE UNCHANGED <<st, doing, arg, val, acked, stCwd, rp, path, sentinel, relaunch>>
  BY <1>1, <1>2 DEF SameCwd, Ready, Pending
<1>3. CASE ~Ready' /\ st' # "work" /\ ~Pending'
  BY <1>3 DEF SameCwd
<1>4. CASE Run \/ Cd \/ Load \/ Exec \/ Unload \/ Meminfo
  <2>1. /\ ~rp.busy /\ rp'.busy /\ sentinel'.cmd \in Verb
        /\ IF sentinel'.cmd = "cd" THEN rp'.cwd = path' /\ rp'.cwdPrev = rp.cwd
           ELSE rp'.cwd = rp.cwd
        /\ causes' = causes \cup LostReset \cup Early
        /\ UNCHANGED <<relaunch, stMem, stCpu>>
    BY <1>1, <1>4, Submitted
  <2>2. CASE Ready \/ st = "work" \/ Pending
    <3>1. sentinel.cmd # "reset"
      BY <1>1, <2>1, <2>2 DEF LostReset, Hooked, Ready, Pending
    <3>2. ~relaunch /\ Ready /\ st # "work" /\ ~Pending
      BY <1>1, <2>1, <2>2, <3>1 DEF SameCwd
    <3>3. rp.cwd = stCwd
      BY <1>1, <2>1, <3>1, <3>2 DEF SameCwd, Verb
    <3>4. QED BY <2>1, <3>2, <3>3 DEF SameCwd, Ready, Pending
  <2>3. CASE ~(Ready \/ st = "work" \/ Pending)
    BY <1>3, <2>1, <2>3 DEF Ready, Pending
  <2>4. QED BY <2>2, <2>3
<1>5. CASE AdvMeminfo \/ Timeout
  BY <1>1, <1>5 DEF AdvMeminfo, Timeout
<1>6. CASE Reset
  <2>1. sentinel'.cmd = "reset"
    BY <1>6 DEF Reset, Escape
  <2>2. QED BY <2>1 DEF SameCwd
<1>7. CASE Return \/ HookTimeout \/ UNCHANGED vars
  BY <1>2, <1>7 DEF Return, HookTimeout
<1>8. CASE RelaunchTick
  <2>1. relaunch /\ ~(sentinel.cmd = "reset" /\ Hooked) /\ UNCHANGED stCpu
    BY <1>8 DEF RelaunchTick
  <2>2. ~(Ready \/ st = "work" \/ Pending)
    BY <1>1, <2>1 DEF SameCwd, Hooked, Ready, Pending
  <2>3. QED BY <1>3, <2>1, <2>2 DEF Ready, Pending
<1>9. CASE HandleReport
  <2>1. PICK f : f = Head(ring)
    OBVIOUS
  <2>2. /\ rp' = Recorded(f)
        /\ IF f.cmd = "gemhello" THEN UNCHANGED <<sentinel, causes>>
           ELSE sentinel' = Nop /\ causes' = causes \cup LostReset
        /\ relaunch' <=> f.cmd = "gemhello" \/ (relaunch /\ f.cmd # "hello")
        /\ UNCHANGED <<path, stMem, st, doing, arg, val>>
    BY <1>1, <1>9, <2>1, Handled
  <2>3. CASE st = "boot"
    BY <1>3, <2>2, <2>3 DEF Ready, Pending
  <2>4. CASE st # "boot"
    <3>1. ~acked /\ acked' /\ f = Report /\ st \in {"hello", "report"}
      BY <1>1, <1>9, <2>1, <2>4, OnlyAnswer DEF Sending
    <3>2. f.cmd # "gemhello" /\ sentinel' = Nop /\ sentinel.cmd # "reset"
      <4>1. f.cmd # "gemhello"
        BY <1>1, <3>1 DEF Report, Typed, Values, Verb
      <4>2. QED BY <1>1, <2>2, <3>1, <4>1 DEF LostReset, Hooked
    <3>3. ~relaunch' /\ rp'.cwd = stCwd
      <4>1. CASE st = "hello"
        <5>1. f.cmd = "hello"
          BY <3>1, <4>1 DEF Report
        <5>2. QED BY <1>1, <2>2, <4>1, <5>1 DEF Recorded, Fresh, Empty
      <4>2. CASE st = "report"
        <5>1. Pending /\ f.cmd = doing.cmd /\ f.val = val /\ doing.cmd \in Verb
          BY <1>1, <3>1, <4>2 DEF Pending, Report, Typed, Values
        <5>2. ~relaunch /\ (doing.cmd # "cd" => rp.cwd = stCwd)
          BY <1>1, <3>2, <5>1 DEF SameCwd
        <5>3. CASE doing.cmd = "cd"
          <6>1. stCwd = IF val = 0 THEN rp.cwd ELSE rp.cwdPrev
            BY <1>1, <3>2, <5>1, <5>3 DEF SameCwd
          <6>2. QED BY <1>1, <2>2, <5>1, <5>2, <5>3, <6>1
                   DEF Recorded, Typed, Values, Sessions
        <5>4. CASE doing.cmd # "cd"
          BY <1>1, <2>2, <5>1, <5>2, <5>4 DEF Recorded, Typed, Values, Sessions, Verb
        <5>5. QED BY <5>3, <5>4
      <4>3. QED BY <3>1, <4>1, <4>2
    <3>4. QED BY <2>2, <3>1, <3>2, <3>3 DEF SameCwd, Ready, Pending, Nop, Verb
  <2>5. QED BY <2>3, <2>4
<1>10. CASE HookMeminfo
  BY <1>1, <1>10 DEF HookMeminfo, Single
<1>11. CASE Transmit
  BY <1>2, <1>11 DEF Transmit
<1>12. CASE HookReset \/ ResetButton \/ StartRunner
  BY <1>3, <1>12 DEF HookReset, ResetButton, ColdBoot, StartRunner, Prepare, Ready, Pending
<1>13. CASE Proceed \/ Cleared
  <2>1. /\ st' = "menu" \/ (Ready /\ Ready' /\ st' # "work" /\ ~Pending')
        /\ st' \in {"menu", "poll", "clear"}
        /\ UNCHANGED <<stMem, http, cells, rp>>
    BY <1>1, <1>13 DEF Proceed, Cleared, Sending, Ready, Pending
  <2>2. CASE st' = "menu"
    BY <1>3, <2>2 DEF Ready, Pending
  <2>3. CASE st' # "menu"
    BY <1>1, <2>1, <2>3 DEF SameCwd
  <2>4. QED BY <2>2, <2>3
<1>14. CASE Take
  <2>1. /\ st = "poll" /\ st' = "work" /\ doing' = sentinel /\ sentinel.cmd \in Verb
        /\ (sentinel.cmd = "cd" => arg' = path)
        /\ UNCHANGED <<stMem, http, cells, rp>>
    BY <1>14 DEF Take
  <2>2. sentinel.cmd # "reset" /\ Ready
    BY <2>1 DEF Verb, Ready
  <2>3. /\ ~relaunch /\ rp.busy
        /\ IF sentinel.cmd = "cd" THEN rp.cwd = path /\ rp.cwdPrev = stCwd
           ELSE rp.cwd = stCwd
    BY <1>1, <2>1, <2>2 DEF SameCwd
  <2>4. QED BY <2>1, <2>3 DEF SameCwd, Ready, Pending
<1>15. CASE Perform
  <2>1. PICK v \in Pages \cup {0, 1} : Gemdos(v) /\ val' = v
    BY <1>15 DEF Perform
  <2>2. /\ st = "work" /\ st' = "report" /\ ~acked'
        /\ UNCHANGED <<doing, http, cells, rp>>
    BY <1>15 DEF Perform, Prepare
  <2>3. CASE sentinel.cmd = "reset"
    BY <2>2, <2>3 DEF SameCwd
  <2>4. CASE sentinel.cmd # "reset"
    <3>1. /\ ~relaunch /\ sentinel = doing /\ rp.busy
          /\ doing.cmd # "cd" => rp.cwd = stCwd
          /\ doing.cmd = "cd" => rp.cwd = arg /\ rp.cwdPrev = stCwd
      BY <1>1, <2>2, <2>4 DEF SameCwd
    <3>2. IF doing.cmd = "cd" THEN stCwd' = IF v = 0 THEN arg ELSE stCwd
          ELSE stCwd' = stCwd
      BY <2>1 DEF Gemdos
    <3>3. QED BY <2>1, <2>2, <3>1, <3>2 DEF SameCwd, Ready, Pending
  <2>5. QED BY <2>3, <2>4
<1>16. QED
  BY <1>4, <1>5, <1>6, <1>7, <1>8, <1>9, <1>10, <1>11, <1>12, <1>13, <1>14, <1>15, Zenon
     DEF Next, Http, MainLoop, Hook, Foreground

----------------------------------------------------------------------------
(* The properties of the mirror.                                           *)

MirrorInv == SessionInv /\ Mirrored /\ Single /\ Mine /\ SameCwd

LEMMA MirrorHolds == Spec => []MirrorInv
<1>1. Init => MirrorInv
  BY InitTyped, InitTakenOnce, InitKnown, InitInLine, InitHeld, InitMirrored, InitSingle,
     InitMine, InitSameCwd DEF SessionInv, MirrorInv
<1>2. SessionInv /\ [Next]_vars => SessionInv'
  BY NextTyped, NextTakenOnce, NextKnown, NextEmpty, NextInLine, NextHeld DEF SessionInv
<1>3. MirrorInv /\ [Next]_vars => MirrorInv'
  BY <1>2, NextMirrored, NextSingle, NextMine, NextSameCwd DEF MirrorInv
<1>4. QED BY <1>1, <1>3, PTL DEF Spec

(* Between two commands the mirror is what the ST is in: its basepage is the *)
(* one program the ST holds, unless a report was given up, took another's    *)
(* answer for its own, or was answered in one turn with the deadline, and    *)
(* its directory is the ST's as long as every report came in its turn; for   *)
(* any number of requests and resets.                                        *)
THEOREM MirrorAgreesHolds == Spec => []MirrorAgrees
<1>1. MirrorInv => MirrorAgrees
  <2> SUFFICES ASSUME MirrorInv, st = "poll"
               PROVE  /\ causes \cap (Unheard \cup {"raced"}) = {} => loaded = {rp.basepage} \ {0}
                      /\ ~rp.busy /\ sentinel.cmd # "reset" /\ causes \subseteq {"early"} =>
                            rp.cwd = stCwd
    BY DEF MirrorAgrees
  <2>1. causes \cap (Unheard \cup {"raced"}) = {} => loaded = {rp.basepage} \ {0}
    BY DEF MirrorInv, Mirrored, Up, Pending
  <2>2. ~rp.busy /\ sentinel.cmd # "reset" /\ causes \subseteq {"early"} => rp.cwd = stCwd
    BY DEF MirrorInv, SameCwd, Orderly, Ready, Verb
  <2>3. QED BY <2>1, <2>2
<1>2. QED BY <1>1, MirrorHolds, PTL

(* A report is recorded for the request it answers, and once, as long as     *)
(* nothing was early, late or given up; cold boots by the button included.   *)
THEOREM ReportIsMineHolds == Spec => ReportIsMine
<1>1. ASSUME MirrorInv, [Next]_vars, NEW r \in Request, causes' = {}, ring # <<>>,
             Head(ring).req = r
      PROVE  r = nReq /\ (rp.busy \/ relaunch)
  <2>1. causes = {}
    BY <1>1, CausesGrow
  <2>2. ring \in Seq(Reports) /\ Len(ring) \in Nat /\ Len(ring) > 0
    BY <1>1, EmptySeq DEF MirrorInv, SessionInv, Typed, Values
  <2>3. Head(ring) = ring[1] /\ 1 \in 1..Len(ring)
    BY <2>2
  <2>4. r # 0
    BY Constants DEF Request
  <2>5. QED BY <1>1, <2>1, <2>3, <2>4 DEF MirrorInv, Mine
<1>2. MirrorInv /\ [Next]_vars =>
    [\A r \in Request :
        /\ causes' = {} /\ ring # <<>> /\ ring' = Tail(ring) /\ Head(ring).req = r
        => r = nReq /\ (rp.busy \/ relaunch)]_vars
  BY <1>1
<1>3. QED BY <1>2, MirrorHolds, PTL DEF Spec, ReportIsMine

====
