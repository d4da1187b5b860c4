---- MODULE Gemdrive_proofs ----
(***************************************************************************)
(* Proofs about GEMDRIVE: the table of handles and the table of DTAs, for  *)
(* any number of slots, paths, retries and entries; and of the calls that  *)
(* name a path the lock around them and the truth of their status, for any *)
(* card, requests and retries.                                             *)
(***************************************************************************)
EXTENDS GemdriveTables, GemdriveCalls, FiniteSetTheorems, SequenceTheorems,
        TLAPS

----------------------------------------------------------------------------
(* The handles.                                                            *)

\* A set of numbers that is not empty has a least one.
LEMMA LeastIn ==
    ASSUME NEW S \in SUBSET Nat, S # {}
    PROVE  Lowest(S) \in S /\ \A t \in S : Lowest(S) <= t
<1> DEFINE below == {1..x : x \in S}
<1>1. \A x \in S : IsFiniteSet(1..x) /\ 1..x \subseteq Nat
  BY FS_Interval
<1>2. below \subseteq FiniteSubsetsOf(Nat) /\ below # {}
  BY <1>1 DEF FiniteSubsetsOf
<1>3. IsWellFoundedOn(StrictSubsetOrdering(Nat), FiniteSubsetsOf(Nat))
  BY FS_StrictSubsetOrderingWellFounded
<1>4. PICK u \in below : \A v \in below : ~(<<v, u>> \in StrictSubsetOrdering(Nat))
  <2> HIDE DEF below
  <2>1. QED BY <1>2, <1>3, WFMin
<1>5. PICK x \in S : u = 1..x
  BY <1>4
<1>6. ASSUME NEW y \in S, y < x PROVE FALSE
  <2>1. <<1..y, 1..x>> \in StrictSubsetOrdering(Nat)
    <3>1. 1..y \subseteq 1..x /\ x \in 1..x /\ x \notin 1..y
      BY <1>6
    <3>2. 1..y # 1..x
      BY <3>1
    <3>3. QED BY <1>1, <3>1, <3>2 DEF StrictSubsetOrdering
  <2>2. QED BY <1>4, <1>5, <2>1
<1>7. \A y \in S : x <= y
  BY <1>6
<1>8. QED BY <1>7 DEF Lowest

----------------------------------------------------------------------------
(* The channel of the tables.                                              *)

Bound == [call : Calls, current : BOOLEAN]      \* frames bound for the RP
CallerStates == [pc : {"idle", "sent", "answered", "booting"}, call : Calls \cup {NoCall},
                 left : 0..TableRetries, ran : BOOLEAN]
PexecStates == [step : {"none", "open", "header", "rest", "close"},
                header : Cells \cup {NoHandle}, next : Cells \cup {NoHandle},
                again : BOOLEAN]
Openings == {"Fopen", "Fcreate"}
Asked == caller.pc \in {"sent", "answered"}

\* The part of the types that the channel and the handles depend on.
FileTypes ==
    /\ caller \in CallerStates
    /\ wire \in Seq(Bound)
    /\ held \subseteq [handle : Handles, path : Paths]
    /\ pexec \in PexecStates
    /\ fileTable \in [Slots -> FileSlot]
    /\ handleCell \in [Openings -> Cells]
    /\ unsure \in BOOLEAN

\* What is current in the wire is the call under way, behind all that is not;
\* once it has run nothing older is left, and nothing at all unless it was sent
\* again.
WireOrder ==
    /\ \A i, j \in DOMAIN wire : i < j /\ wire[i].current => wire[j].current
    /\ Asked => /\ caller.call \in Calls
                /\ \A i \in DOMAIN wire : wire[i].current => wire[i].call = caller.call
                /\ ~Resent => \A i, j \in DOMAIN wire : i < j => ~wire[i].current
                /\ ~Resent /\ caller.ran => wire = <<>>
    /\ ~Asked => caller.call = NoCall
    /\ caller.ran => Asked /\ \A i \in DOMAIN wire : wire[i].current
    /\ caller.pc = "answered" /\ ~unsure => caller.ran

\* The arguments that each call has.
LEMMA CallKinds ==
    ASSUME NEW c \in Calls
    PROVE  /\ c.op \in Openings => c \in FileCalls /\ c.path \in Paths /\ c.write \in BOOLEAN
           /\ c.op \in {"Fclose", "Fread"} => c \in FdCalls /\ c.handle \in Cells
           /\ c.op \in {"Fsetdta", "Fsfirst", "Fsnext", "DtaRelease"} =>
                 c \in DtaCalls /\ c.dta \in Dtas
           /\ c.op \in Openings \cup {"Fclose", "Fread"}
                         \cup {"Fsetdta", "Fsfirst", "Fsnext", "DtaRelease"}
           /\ c # NoCall
BY DEF Calls, FileCalls, FdCalls, DtaCalls, Openings, NoCall

\* send_sync at rest.
LEMMA IdleIs ==
    /\ Idle \in CallerStates /\ Idle.pc = "idle" /\ Idle.call = NoCall /\ Idle.ran = FALSE
    /\ [Idle EXCEPT !.pc = "booting"] \in CallerStates
    /\ [Idle EXCEPT !.pc = "booting"].pc = "booting"
    /\ [Idle EXCEPT !.pc = "booting"].call = NoCall
    /\ [Idle EXCEPT !.pc = "booting"].ran = FALSE
<1>1. 0 \in 0..TableRetries /\ FALSE \in BOOLEAN /\ NoCall \in Calls \cup {NoCall}
  BY TablesAssumption
<1>2. Idle \in CallerStates /\ Idle.pc = "idle" /\ Idle.call = NoCall /\ Idle.ran = FALSE
  BY <1>1 DEF Idle, CallerStates
<1>3. QED BY <1>2 DEF CallerStates

\* A new call goes behind all that is in the wire.
LEMMA Started ==
    ASSUME FileTypes, NEW c \in Calls, Start(c)
    PROVE  /\ wire' \in Seq(Bound) /\ caller' \in CallerStates
           /\ caller'.pc = "sent" /\ ~caller'.ran /\ caller'.call = c
           /\ DOMAIN wire' = 1..(Len(wire) + 1) /\ Len(wire) \in Nat
           /\ \A i \in 1..Len(wire) : ~wire'[i].current /\ wire'[i].call = wire[i].call
           /\ wire'[Len(wire) + 1] = [call |-> c, current |-> TRUE]
           /\ ~unsure
<1> DEFINE old == [i \in DOMAIN wire |-> [wire[i] EXCEPT !.current = FALSE]]
           new == [call |-> c, current |-> TRUE]
<1>1. /\ Len(wire) \in Nat /\ DOMAIN wire = 1..Len(wire)
      /\ \A i \in 1..Len(wire) : wire[i] \in Bound
  BY DEF FileTypes
<1>2. \A i \in 1..Len(wire) : old[i] \in Bound
  BY <1>1 DEF Bound
<1>3. old \in Seq(Bound) /\ Len(old) = Len(wire)
  BY <1>1, <1>2, IsASeq DEF Bound
<1>4. new \in Bound
  BY DEF Bound
<1>5. \A i \in 1..Len(wire) : ~old[i].current /\ old[i].call = wire[i].call
  BY <1>1 DEF Bound
<1>6. /\ wire' = Append(old, new) /\ ~unsure
      /\ caller' = [pc |-> "sent", call |-> c, left |-> TableRetries, ran |-> FALSE]
  BY DEF Start
<1> HIDE DEF old, new
<1>7. /\ wire' \in Seq(Bound) /\ DOMAIN wire' = 1..(Len(wire) + 1)
      /\ \A i \in 1..Len(wire) : wire'[i] = old[i]
      /\ wire'[Len(wire) + 1] = new
  BY <1>1, <1>3, <1>4, <1>6
<1>8. /\ caller' \in CallerStates
      /\ caller'.pc = "sent" /\ ~caller'.ran /\ caller'.call = c
  BY <1>6, TablesAssumption DEF CallerStates
<1>9. QED BY <1>1, <1>5, <1>6, <1>7, <1>8 DEF new

\* A call sent again stands behind the wire as well.
LEMMA Repeated ==
    ASSUME FileTypes, WireOrder, Resend
    PROVE  /\ wire' \in Seq(Bound) /\ caller' \in CallerStates
           /\ caller.pc = "sent" /\ caller'.pc = "sent"
           /\ caller'.ran = caller.ran /\ caller'.call = caller.call
           /\ DOMAIN wire' = 1..(Len(wire) + 1) /\ Len(wire) \in Nat
           /\ \A i \in 1..Len(wire) : wire'[i] = wire[i]
           /\ wire'[Len(wire) + 1] = [call |-> caller.call, current |-> TRUE]
           /\ Resent'
<1> DEFINE new == [call |-> caller.call, current |-> TRUE]
<1>1. /\ caller.pc = "sent" /\ caller.left > 0 /\ caller' = [caller EXCEPT !.left = @ - 1]
      /\ wire' = Append(wire, new) /\ caller.call \in Calls
  BY DEF Resend, WireOrder, Asked
<1>2. new \in Bound
  BY <1>1 DEF Bound
<1>3. /\ caller' \in CallerStates /\ caller'.pc = "sent"
      /\ caller'.ran = caller.ran /\ caller'.call = caller.call
      /\ caller'.left < TableRetries
  <2>1. caller.left - 1 \in 0..TableRetries /\ caller.left - 1 < TableRetries
    BY <1>1, TablesAssumption DEF FileTypes, CallerStates
  <2>2. QED BY <1>1, <2>1 DEF FileTypes, CallerStates
<1> HIDE DEF new
<1>4. QED BY <1>1, <1>2, <1>3 DEF FileTypes, Resent, new

\* What a wire keeps whose oldest frame is taken.
LEMMA TailOfWire ==
    ASSUME FileTypes, wire # <<>>
    PROVE  /\ Tail(wire) \in Seq(Bound) /\ Head(wire) = wire[1]
           /\ 1 \in DOMAIN wire /\ Head(wire) \in Bound
           /\ \A i \in DOMAIN Tail(wire) :
                 i + 1 \in DOMAIN wire /\ Tail(wire)[i] = wire[i + 1] /\ 1 < i + 1
           /\ \A i, j \in DOMAIN Tail(wire) : i < j => i + 1 < j + 1
           /\ DOMAIN wire = {1} => Tail(wire) = <<>>
<1>1. wire \in Seq(Bound) /\ Len(wire) \in Nat /\ Len(wire) # 0
  BY DEF FileTypes
<1>2. Tail(wire) \in Seq(Bound) /\ Len(Tail(wire)) = Len(wire) - 1
  BY <1>1
<1>3. /\ Head(wire) = wire[1] /\ 1 \in DOMAIN wire /\ Head(wire) \in Bound
      /\ \A i \in DOMAIN Tail(wire) :
            i + 1 \in DOMAIN wire /\ Tail(wire)[i] = wire[i + 1] /\ 1 < i + 1
      /\ \A i, j \in DOMAIN Tail(wire) : i < j => i + 1 < j + 1
  BY <1>1, <1>2
<1>4. ASSUME DOMAIN wire = {1} PROVE Tail(wire) = <<>>
  <2>1. Len(wire) = 1
    <3>1. Len(wire) \in DOMAIN wire
      BY <1>1
    <3>2. QED BY <1>4, <3>1
  <2> DEFINE t == Tail(wire)
  <2>2. t \in Seq(Bound) /\ Len(t) = 0
    BY <1>2, <2>1
  <2> HIDE DEF t
  <2>3. t # <<>> => Len(t) \in Nat \ {0}
    BY <2>2, EmptySeq
  <2>4. t = <<>>
    BY <2>2, <2>3
  <2>5. QED BY <2>4 DEF t
<1>5. QED BY <1>2, <1>3, <1>4

\* A frame is executed: the wire loses its head, and the call has run if it is
\* the first run of it.
LEMMA Executed ==
    ASSUME FileTypes, Execute
    PROVE  /\ wire # <<>> /\ wire' = Tail(wire) /\ UNCHANGED <<held, pexec, unsure, workload>>
           /\ caller' \in CallerStates /\ UNCHANGED <<caller.pc, caller.call, caller.left>>
           /\ caller'.ran = (caller.ran \/ FirstRun)
<1>1. /\ wire # <<>> /\ wire' = Tail(wire) /\ UNCHANGED <<held, pexec, unsure, workload>>
      /\ caller' = IF FirstRun THEN [caller EXCEPT !.ran = TRUE] ELSE caller
  BY DEF Execute
<1>2. FirstRun \in BOOLEAN /\ Head(wire).current \in BOOLEAN
  BY <1>1, TailOfWire DEF FirstRun, Bound
<1>3. CASE FirstRun
  <2>1. caller' = [caller EXCEPT !.ran = TRUE]
    BY <1>1, <1>3
  <2>2. QED BY <1>1, <1>3, <2>1 DEF FileTypes, CallerStates
<1>4. CASE ~FirstRun
  <2>1. caller' = caller
    BY <1>1, <1>4
  <2>2. caller \in CallerStates /\ caller.ran \in BOOLEAN
    BY DEF FileTypes, CallerStates
  <2>3. QED BY <1>1, <1>4, <2>1, <2>2
<1>5. QED BY <1>3, <1>4

\* A command is sent for a call.
LEMMA StartedOrder ==
    ASSUME FileTypes, NEW c \in Calls, Start(c)
    PROVE  WireOrder'
<1>1. /\ caller'.pc = "sent" /\ ~caller'.ran /\ caller'.call = c
      /\ DOMAIN wire' = 1..(Len(wire) + 1) /\ Len(wire) \in Nat
      /\ \A i \in 1..Len(wire) : ~wire'[i].current
      /\ wire'[Len(wire) + 1] = [call |-> c, current |-> TRUE]
  BY Started
<1>2. \A i \in DOMAIN wire' : wire'[i].current => i = Len(wire) + 1 /\ wire'[i].call = c
  BY <1>1
<1>3. \A i, j \in DOMAIN wire' : i < j => ~wire'[i].current
  BY <1>1, <1>2
<1>4. QED BY <1>1, <1>2, <1>3 DEF WireOrder, Asked

\* A command is sent again.
LEMMA RepeatedOrder ==
    ASSUME FileTypes, WireOrder, Resend
    PROVE  WireOrder'
<1>1. /\ caller.pc = "sent" /\ caller'.pc = "sent"
      /\ caller'.ran = caller.ran /\ caller'.call = caller.call
      /\ DOMAIN wire = 1..Len(wire)
      /\ DOMAIN wire' = 1..(Len(wire) + 1) /\ Len(wire) \in Nat
      /\ \A i \in 1..Len(wire) : wire'[i] = wire[i]
      /\ wire'[Len(wire) + 1].call = caller.call /\ wire'[Len(wire) + 1].current
      /\ Resent'
  BY Repeated DEF FileTypes
<1>2. \A i, j \in DOMAIN wire' : i < j /\ wire'[i].current => wire'[j].current
  BY <1>1 DEF WireOrder
<1>3. \A i \in DOMAIN wire' : wire'[i].current => wire'[i].call = caller.call
  BY <1>1 DEF WireOrder, Asked
<1>4. caller.ran => \A i \in DOMAIN wire' : wire'[i].current
  BY <1>1 DEF WireOrder
<1>5. QED BY <1>1, <1>2, <1>3, <1>4 DEF WireOrder, Asked

\* A call that is over leaves its frames in the wire.
LEMMA EndedOrder ==
    ASSUME WireOrder, caller' = Idle \/ caller' = [Idle EXCEPT !.pc = "booting"], wire' = wire
    PROVE  WireOrder' /\ ~Asked' /\ caller'.call = NoCall /\ caller'.ran = FALSE
           /\ caller' \in CallerStates
BY IdleIs DEF WireOrder, Asked

\* The RP takes the oldest command.
LEMMA ExecutedOrder ==
    ASSUME FileTypes, WireOrder, Execute
    PROVE  WireOrder'
<1>1. /\ wire # <<>> /\ wire' = Tail(wire) /\ UNCHANGED <<caller.pc, caller.call, caller.left>>
      /\ caller'.ran = (caller.ran \/ FirstRun) /\ UNCHANGED unsure
      /\ Resent' = Resent /\ Asked' = Asked
  BY Executed DEF Resent, Asked
<1>2. /\ wire' \in Seq(Bound) /\ Head(wire) = wire[1] /\ 1 \in DOMAIN wire
      /\ \A i \in DOMAIN wire' :
            i + 1 \in DOMAIN wire /\ wire'[i] = wire[i + 1] /\ 1 < i + 1
      /\ \A i, j \in DOMAIN wire' : i < j => i + 1 < j + 1
      /\ DOMAIN wire = {1} => wire' = <<>>
  BY <1>1, TailOfWire
<1>3. \A i, j \in DOMAIN wire' : i < j /\ wire'[i].current => wire'[j].current
  BY <1>2 DEF WireOrder
<1>4. ASSUME Asked
      PROVE  /\ \A i \in DOMAIN wire' : wire'[i].current => wire'[i].call = caller.call
             /\ ~Resent => \A i, j \in DOMAIN wire' : i < j => ~wire'[i].current
  BY <1>2, <1>4 DEF WireOrder
<1>5. ASSUME Asked, ~Resent, caller.ran \/ FirstRun PROVE wire' = <<>>
  <2>1. CASE caller.ran
    BY <1>1, <1>5, <2>1 DEF WireOrder
  <2>2. CASE FirstRun
    <3>1. \A j \in DOMAIN wire : ~(1 < j)
      BY <1>2, <1>5, <2>2 DEF WireOrder, FirstRun
    <3>2. DOMAIN wire = 1..Len(wire) /\ Len(wire) \in Nat
      BY DEF FileTypes
    <3>3. DOMAIN wire = {1}
      BY <1>2, <3>1, <3>2
    <3>4. QED BY <1>2, <3>3
  <2>3. QED BY <1>5, <2>1, <2>2
<1>6. ASSUME caller.ran \/ FirstRun
      PROVE  Asked /\ \A i \in DOMAIN wire' : wire'[i].current
  BY <1>2, <1>6 DEF WireOrder, FirstRun, Asked
<1>7. QED BY <1>1, <1>3, <1>4, <1>5, <1>6 DEF WireOrder

\* Any other step of the channel.
LEMMA LostOrder ==
    ASSUME FileTypes, WireOrder, UNCHANGED caller, wire # <<>>, wire' = Tail(wire),
           UNCHANGED unsure
    PROVE  WireOrder' /\ wire' \in Seq(Bound)
<1>1. /\ wire' \in Seq(Bound) /\ Resent' = Resent /\ Asked' = Asked
      /\ \A i \in DOMAIN wire' : i + 1 \in DOMAIN wire /\ wire'[i] = wire[i + 1]
      /\ \A i, j \in DOMAIN wire' : i < j => i + 1 < j + 1
  BY TailOfWire DEF Resent, Asked
<1>2. \A i, j \in DOMAIN wire' : i < j /\ wire'[i].current => wire'[j].current
  BY <1>1 DEF WireOrder
<1>3. ASSUME Asked
      PROVE  /\ \A i \in DOMAIN wire' : wire'[i].current => wire'[i].call = caller.call
             /\ ~Resent => \A i, j \in DOMAIN wire' : i < j => ~wire'[i].current
             /\ ~Resent => ~caller.ran
  BY <1>1, <1>3 DEF WireOrder
<1>4. caller.ran => \A i \in DOMAIN wire' : wire'[i].current
  BY <1>1 DEF WireOrder
<1>5. QED BY <1>1, <1>2, <1>3, <1>4 DEF WireOrder

----------------------------------------------------------------------------
(* The handles.                                                            *)

Reading == {"header", "rest", "close"}

\* Who is at work: programs that hold handles and Pexec do not meet, and each
\* step of Pexec has its call.
Workloads ==
    /\ held # {} => workload = "files"
    /\ pexec.step # "none" => workload = "pexec"
    /\ Asked /\ caller.call.op \in Openings =>
          IF pexec.step = "none" THEN workload = "files" ELSE pexec.step = "open"
    /\ pexec.step = "open" => Asked /\ caller.call.op = "Fopen"
    /\ pexec.step \in Reading =>
          pexec.header \in Cells /\ (Asked => caller.call.op = "Fread")
    /\ Asked /\ caller.call.op = "Fread" => pexec.step \in {"header", "rest"}

\* A slot that is in use and no orphan belongs to somebody.
Owned(s) ==
    \/ FirstFd + s \in HandlesHeld
    \/ pexec.step \in Reading /\ FirstFd + s = pexec.header
    \/ Asked /\ caller.call.op \in Openings /\ caller.ran
       /\ (Resent \/ handleCell[caller.call.op] = FirstFd + s)
    \/ Asked /\ caller.call.op = "Fclose" /\ caller.call.handle = FirstFd + s /\ ~caller.ran

SlotsKnown ==
    ~unsure => \A s \in Slots : fileTable[s].inUse /\ ~fileTable[s].orphan => Owned(s)

\* The cell that Pexec reads again has not moved, unless its Fopen was sent
\* twice.
PexecCell ==
    /\ ~unsure /\ pexec.step \in Reading /\ ~pexec.again =>
          /\ handleCell["Fopen"] = pexec.header
          /\ \A i \in DOMAIN wire : wire[i].call.op # "Fopen"
    /\ PexecReadsOneOpen

OpenOn(h, p) == fileTable[h - FirstFd].inUse /\ fileTable[h - FirstFd].path = p

\* Nothing on its way closes a handle the program holds, and the cell of the
\* opening that has run names a slot of its own.
HeldMine ==
    ~unsure =>
        /\ \A h \in held : OpenOn(h.handle, h.path)
        /\ \A h, g \in held : h.handle = g.handle => h = g
        /\ \A i \in DOMAIN wire :
              wire[i].call.op = "Fclose" => wire[i].call.handle \notin HandlesHeld
        /\ Asked /\ caller.call.op = "Fclose" => caller.call.handle \notin HandlesHeld
        /\ Asked /\ caller.call.op \in Openings /\ caller.ran =>
              LET h == handleCell[caller.call.op] IN
              h >= FirstFd => OpenOn(h, caller.call.path) /\ h \notin HandlesHeld

FilesInv == FileTypes /\ WireOrder /\ Workloads /\ SlotsKnown /\ PexecCell /\ HeldMine

\* Handles and slots go together.
LEMMA HandleSlots ==
    /\ Slots \subseteq Nat /\ 0 \in Slots
    /\ \A s \in Slots : FirstFd + s \in Handles /\ FirstFd + s >= FirstFd /\ FirstFd + s >= 0
    /\ \A h \in Handles : h - FirstFd \in Slots /\ FirstFd + (h - FirstFd) = h
    /\ \A h \in Cells : h >= FirstFd => h \in Handles
    /\ Cells \subseteq Int /\ Handles \subseteq Cells
    /\ ENHNDL < 0 /\ EFILNF < 0 /\ NoHandle \notin Cells
BY TablesAssumption DEF Slots, Handles, Cells, ENHNDL, EFILNF, NoHandle

\* A call that is none of the handles, put behind the wire, leaves them be.
LEMMA OtherStarted ==
    ASSUME FilesInv, NEW c \in Calls, Start(c), UNCHANGED <<workload, held, pexec, fileTable,
           handleCell, unsure>>,
           c.op \notin Openings \cup {"Fclose", "Fread"},
           pexec.step = "none", ~Asked \/ caller.call.op \notin Openings \cup {"Fclose"}
    PROVE  FilesInv'
<1>1. /\ wire' \in Seq(Bound) /\ caller' \in CallerStates
      /\ caller'.pc = "sent" /\ ~caller'.ran /\ caller'.call = c
      /\ DOMAIN wire' = 1..(Len(wire) + 1) /\ Len(wire) \in Nat
      /\ \A i \in 1..Len(wire) : ~wire'[i].current /\ wire'[i].call = wire[i].call
      /\ wire'[Len(wire) + 1] = [call |-> c, current |-> TRUE]
      /\ DOMAIN wire = 1..Len(wire)
  BY Started DEF FilesInv, FileTypes
<1>2. FileTypes' /\ WireOrder'
  BY <1>1, StartedOrder DEF FilesInv, FileTypes
<1>3. Workloads'
  BY <1>1 DEF FilesInv, Workloads, Asked, Reading
<1>4. SlotsKnown'
  BY <1>1 DEF FilesInv, SlotsKnown, Owned, Asked, HandlesHeld, Reading
<1>5. PexecCell'
  BY DEF FilesInv, PexecCell, PexecReadsOneOpen, Reading
<1>6. HeldMine'
  <2>1. \A i \in DOMAIN wire' :
           wire'[i].call.op = "Fclose" => i \in DOMAIN wire /\ wire'[i].call = wire[i].call
    BY <1>1
  <2>2. QED BY <1>1, <2>1 DEF FilesInv, HeldMine, OpenOn, Asked, HandlesHeld
<1>7. QED BY <1>2, <1>3, <1>4, <1>5, <1>6 DEF FilesInv

\* Fopen and Fcreate are sent.
LEMMA CallFopenStep ==
    ASSUME FilesInv, NEW p \in Paths, NEW w \in BOOLEAN, NEW op \in Openings, CallFopen(p, w, op)
    PROVE  FilesInv'
<1> DEFINE c == [op |-> op, path |-> p, write |-> w]
<1>1. /\ workload = "files" /\ caller.pc = "idle" /\ Start(c) /\ c \in Calls /\ c.op = op
      /\ UNCHANGED <<workload, held, pexec, fileTable, handleCell, unsure>>
  BY DEF CallFopen, Calls, FileCalls, Openings, sideRP
<1> HIDE DEF c
<1>2. /\ wire' \in Seq(Bound) /\ caller' \in CallerStates
      /\ caller'.pc = "sent" /\ ~caller'.ran /\ caller'.call = c
      /\ DOMAIN wire' = 1..(Len(wire) + 1) /\ Len(wire) \in Nat
      /\ \A i \in 1..Len(wire) : ~wire'[i].current /\ wire'[i].call = wire[i].call
      /\ wire'[Len(wire) + 1] = [call |-> c, current |-> TRUE]
      /\ DOMAIN wire = 1..Len(wire)
  BY <1>1, Started DEF FilesInv, FileTypes
<1>3. FileTypes' /\ WireOrder'
  BY <1>1, <1>2, StartedOrder DEF FilesInv, FileTypes
<1>4. Workloads' /\ pexec.step = "none"
  BY <1>1, <1>2 DEF FilesInv, Workloads, Asked, Reading, Openings
<1>5. SlotsKnown'
  BY <1>1, <1>2 DEF FilesInv, SlotsKnown, Owned, Asked, HandlesHeld, Reading
<1>6. PexecCell'
  BY <1>1, <1>4 DEF FilesInv, PexecCell, PexecReadsOneOpen, Reading
<1>7. HeldMine'
  <2>1. \A i \in DOMAIN wire' :
           wire'[i].call.op = "Fclose" => i \in DOMAIN wire /\ wire'[i].call = wire[i].call
    BY <1>1, <1>2 DEF Openings
  <2>2. QED BY <1>1, <1>2, <2>1 DEF FilesInv, HeldMine, OpenOn, Asked, HandlesHeld, Openings
<1>8. QED BY <1>3, <1>4, <1>5, <1>6, <1>7 DEF FilesInv

\* Fclose is sent.
LEMMA CallFcloseStep ==
    ASSUME FilesInv, NEW h \in held, CallFclose(h)
    PROVE  FilesInv'
<1> DEFINE c == [op |-> "Fclose", handle |-> h.handle]
<1>1. /\ caller.pc = "idle" /\ Start(c) /\ c.op = "Fclose" /\ c.handle = h.handle
      /\ held' = held \ {h}
      /\ UNCHANGED <<workload, pexec, fileTable, handleCell, unsure>>
  BY DEF CallFclose, sideRP
<1>2. h.handle \in Handles /\ c \in Calls
  BY HandleSlots DEF FilesInv, FileTypes, Calls, FdCalls
<1> HIDE DEF c
<1>3. /\ wire' \in Seq(Bound) /\ caller' \in CallerStates
      /\ caller'.pc = "sent" /\ ~caller'.ran /\ caller'.call = c
      /\ DOMAIN wire' = 1..(Len(wire) + 1) /\ Len(wire) \in Nat
      /\ \A i \in 1..Len(wire) : ~wire'[i].current /\ wire'[i].call = wire[i].call
      /\ wire'[Len(wire) + 1] = [call |-> c, current |-> TRUE]
      /\ DOMAIN wire = 1..Len(wire) /\ ~unsure
  <2>1. FileTypes /\ DOMAIN wire = 1..Len(wire)
    BY DEF FilesInv, FileTypes
  <2>2. QED BY <1>1, <1>2, <2>1, Started
<1>4. FileTypes' /\ WireOrder'
  BY <1>1, <1>2, <1>3, StartedOrder DEF FilesInv, FileTypes
<1>5. Workloads' /\ pexec.step = "none"
  BY <1>1, <1>3 DEF FilesInv, Workloads, Asked, Reading, Openings
<1>6. SlotsKnown'
  <2>1. \A x \in HandlesHeld : x \in HandlesHeld' \/ x = h.handle
    BY <1>1 DEF HandlesHeld
  <2>2. QED BY <1>1, <1>3, <1>5, <2>1 DEF FilesInv, SlotsKnown, Owned, Asked, Reading
<1>7. PexecCell'
  BY <1>1, <1>5 DEF FilesInv, PexecCell, PexecReadsOneOpen, Reading
<1>8. HeldMine'
  <2>1. HandlesHeld' \subseteq HandlesHeld /\ h.handle \notin HandlesHeld'
    BY <1>1, <1>3 DEF FilesInv, HeldMine, HandlesHeld
  <2>2. \A i \in DOMAIN wire' : wire'[i].call.op = "Fclose" =>
           wire'[i].call = c \/ (i \in DOMAIN wire /\ wire'[i].call = wire[i].call)
    BY <1>3
  <2>3. \A i \in DOMAIN wire' : wire'[i].call.op = "Fclose" =>
           wire'[i].call.handle \notin HandlesHeld'
    BY <1>1, <1>3, <2>1, <2>2 DEF FilesInv, HeldMine
  <2>4. (\A g \in held' : OpenOn(g.handle, g.path)')
        /\ \A g, k \in held' : g.handle = k.handle => g = k
    BY <1>1, <1>3 DEF FilesInv, HeldMine, OpenOn
  <2>5. QED BY <1>1, <1>3, <2>1, <2>3, <2>4 DEF HeldMine, Openings
<1>9. QED BY <1>4, <1>5, <1>6, <1>7, <1>8 DEF FilesInv

\* What an opening leaves to the program that takes its handle.
LEMMA OpeningOver ==
    ASSUME FilesInv, ~unsure, Done(Openings), NEW taken, taken = handleCell[caller.call.op],
           NEW keep, keep = HandlesHeld, fileTable' = Orphaned(taken, keep)
    PROVE  /\ fileTable' \in [Slots -> FileSlot]
           /\ \A s \in Slots : fileTable'[s].inUse = fileTable[s].inUse
                 /\ (fileTable[s].inUse => fileTable'[s].path = fileTable[s].path)
           /\ \A s \in Slots : fileTable'[s].inUse /\ ~fileTable'[s].orphan =>
                 taken = FirstFd + s \/ FirstFd + s \in keep
                 \/ (pexec.step \in Reading /\ FirstFd + s = pexec.header)
           /\ taken \in Cells /\ caller.ran /\ caller.call.path \in Paths
           /\ \A i \in DOMAIN wire : wire[i].call = caller.call
           /\ ~Resent => wire = <<>>
<1>1. /\ caller.pc = "answered" /\ caller.call.op \in Openings /\ Asked /\ caller.ran
      /\ caller.call \in Calls
  BY DEF Done, Asked, FilesInv, WireOrder
<1>2. taken \in Cells /\ caller.call.path \in Paths
  BY <1>1, CallKinds DEF FilesInv, FileTypes
<1>3. /\ \A i \in DOMAIN wire : wire[i].call = caller.call
      /\ ~Resent => wire = <<>>
  BY <1>1 DEF FilesInv, WireOrder
<1>4. ASSUME NEW s \in Slots
      PROVE  /\ fileTable'[s] \in FileSlot
             /\ fileTable'[s].inUse = fileTable[s].inUse
             /\ (fileTable[s].inUse => fileTable'[s].path = fileTable[s].path)
             /\ fileTable'[s].inUse /\ ~fileTable'[s].orphan =>
                   taken = FirstFd + s \/ FirstFd + s \in keep \/ (~fileTable[s].orphan /\ ~Resent)
  <2>1. fileTable[s] \in FileSlot
    BY DEF FilesInv, FileTypes
  <2>2. CASE fileTable[s].inUse
    <3> DEFINE o == FirstFd + s # taken /\ FirstFd + s \notin keep
                      /\ (fileTable[s].orphan \/ Resent)
    <3>1. fileTable'[s] = [fileTable[s] EXCEPT !.orphan = o] /\ o \in BOOLEAN
      BY <2>2 DEF Orphaned
    <3>2. fileTable[s] \in [inUse : {TRUE}, path : Paths, write : BOOLEAN, orphan : BOOLEAN]
      <4>1. fileTable[s] # FreeSlot
        BY <2>2 DEF FreeSlot
      <4>2. QED BY <2>1, <4>1 DEF FileSlot
    <3> HIDE DEF o
    <3>3. /\ fileTable'[s] \in FileSlot /\ fileTable'[s].orphan = o
          /\ fileTable'[s].inUse = fileTable[s].inUse
          /\ fileTable'[s].path = fileTable[s].path
      BY <3>1, <3>2 DEF FileSlot
    <3>4. QED BY <3>3 DEF o
  <2>3. CASE ~fileTable[s].inUse
    BY <2>1, <2>3 DEF Orphaned
  <2>4. QED BY <2>2, <2>3
<1>5. fileTable' \in [Slots -> FileSlot]
  BY <1>4 DEF Orphaned
<1>6. ASSUME NEW s \in Slots, fileTable'[s].inUse, ~fileTable'[s].orphan
      PROVE  \/ taken = FirstFd + s \/ FirstFd + s \in keep
             \/ pexec.step \in Reading /\ FirstFd + s = pexec.header
  <2>1. CASE ~fileTable[s].orphan /\ ~Resent
    <3>1. Owned(s) /\ ~Resent
      BY <1>4, <1>6, <2>1 DEF FilesInv, SlotsKnown
    <3>2. QED BY <1>1, <3>1 DEF Owned, Openings
  <2>2. QED BY <1>4, <1>6, <2>1
<1>7. QED BY <1>1, <1>2, <1>3, <1>4, <1>5, <1>6

\* The answer to Fopen, Fcreate or Fclose is taken.
LEMMA TakeHandleStep ==
    ASSUME FilesInv, TakeHandle
    PROVE  FilesInv'
<1> DEFINE h == handleCell[caller.call.op]
           new == IF h < FirstFd THEN {} ELSE {[handle |-> h, path |-> caller.call.path]}
<1>1. /\ Done(Openings) /\ pexec.step = "none" /\ caller' = Idle
      /\ held' = held \cup new /\ fileTable' = Orphaned(h, HandlesHeld)
      /\ UNCHANGED <<workload, wire, pexec, handleCell, unsure>>
  BY DEF TakeHandle, Openings
<1>2. /\ caller.pc = "answered" /\ caller.call.op \in Openings /\ Asked /\ workload = "files"
  BY <1>1 DEF Done, Asked, FilesInv, Workloads
<1>3. WireOrder' /\ ~Asked' /\ caller'.ran = FALSE /\ caller' \in CallerStates
  BY <1>1, EndedOrder DEF FilesInv
<1>4. Workloads' /\ PexecCell'
  BY <1>1, <1>2, <1>3 DEF FilesInv, Workloads, PexecCell, PexecReadsOneOpen, Reading
<1>5. h \in Cells /\ caller.call.path \in Paths
  BY <1>2, CallKinds DEF FilesInv, FileTypes, WireOrder
<1>6. fileTable' \in [Slots -> FileSlot]
  <2>1. ASSUME NEW s \in Slots PROVE fileTable'[s] \in FileSlot
    <3>1. fileTable[s] \in FileSlot
      BY DEF FilesInv, FileTypes
    <3>2. CASE fileTable[s].inUse
      BY <1>1, <3>1, <3>2 DEF Orphaned, FileSlot, FreeSlot
    <3>3. CASE ~fileTable[s].inUse
      BY <1>1, <3>1, <3>3 DEF Orphaned
    <3>4. QED BY <3>2, <3>3
  <2>2. QED BY <1>1, <2>1 DEF Orphaned
<1>7. new \subseteq [handle : Handles, path : Paths]
  <2> HIDE DEF h
  <2>1. h \in Int /\ FirstFd \in Int
    BY <1>5, HandleSlots, TablesAssumption
  <2>2. CASE h >= FirstFd
    <3>1. h \in Handles /\ new = {[handle |-> h, path |-> caller.call.path]}
      BY <1>5, <2>1, <2>2, HandleSlots
    <3>2. QED BY <1>5, <3>1
  <2>3. CASE ~(h >= FirstFd)
    BY <2>1, <2>3
  <2>4. QED BY <2>2, <2>3
<1> HIDE DEF new, h
<1>8. FileTypes'
  BY <1>1, <1>3, <1>6, <1>7 DEF FilesInv, FileTypes
<1>9. CASE unsure
  BY <1>1, <1>3, <1>4, <1>8, <1>9 DEF FilesInv, SlotsKnown, HeldMine
<1>10. CASE ~unsure
  <2>1. /\ \A s \in Slots : fileTable'[s].inUse = fileTable[s].inUse
              /\ (fileTable[s].inUse => fileTable'[s].path = fileTable[s].path)
        /\ \A s \in Slots : fileTable'[s].inUse /\ ~fileTable'[s].orphan =>
              h = FirstFd + s \/ FirstFd + s \in HandlesHeld
        /\ caller.ran /\ \A i \in DOMAIN wire : wire[i].call = caller.call
    <3>1. h = handleCell[caller.call.op]
      BY DEF h
    <3>2. QED BY <1>1, <1>10, <3>1, OpeningOver DEF Reading
  <2>2. /\ HandlesHeld \subseteq HandlesHeld'
        /\ h >= FirstFd => h \in HandlesHeld'
    <3>1. h \in Int /\ FirstFd \in Int
      BY <1>5, HandleSlots, TablesAssumption
    <3>2. ASSUME h >= FirstFd PROVE \E g \in held' : g.handle = h
      <4>1. [handle |-> h, path |-> caller.call.path] \in new
        BY <3>1, <3>2 DEF new
      <4>2. QED BY <1>1, <4>1
    <3>3. QED BY <1>1, <3>2 DEF HandlesHeld
  <2>3. SlotsKnown'
    BY <1>10, <2>1, <2>2, HandleSlots DEF SlotsKnown, Owned
  <2>4. \A x, p : x \in Handles /\ OpenOn(x, p) => OpenOn(x, p)'
    BY <2>1, HandleSlots DEF OpenOn
  <2>5. /\ \A g \in held :
              g.handle \in Handles /\ OpenOn(g.handle, g.path) /\ g.handle \in HandlesHeld
        /\ \A g, k \in held : g.handle = k.handle => g = k
    BY <1>10 DEF FilesInv, FileTypes, HeldMine, HandlesHeld
  <2>6. \A g \in new : /\ g.handle = h /\ g.handle \in Handles /\ OpenOn(g.handle, g.path)
                       /\ g.handle \notin HandlesHeld
                       /\ g = [handle |-> h, path |-> caller.call.path]
    <3>1. h \in Int /\ FirstFd \in Int
      BY <1>5, HandleSlots, TablesAssumption
    <3>2. h >= FirstFd => h \in Handles /\ OpenOn(h, caller.call.path) /\ h \notin HandlesHeld
      BY <1>2, <1>5, <1>10, <2>1, HandleSlots DEF FilesInv, HeldMine, h
    <3>3. QED BY <3>1, <3>2 DEF new
  <2>7. (\A g \in held' : OpenOn(g.handle, g.path)')
        /\ \A g, k \in held' : g.handle = k.handle => g = k
    BY <1>1, <2>4, <2>5, <2>6
  <2>8. \A i \in DOMAIN wire' : wire'[i].call.op # "Fclose"
    BY <1>1, <1>2, <2>1 DEF Openings
  <2>9. HeldMine'
    BY <1>3, <2>7, <2>8 DEF HeldMine
  <2>10. QED BY <1>3, <1>4, <1>8, <2>3, <2>9 DEF FilesInv
<1>11. QED BY <1>9, <1>10

\* A call whose answer changes nothing of the handles is over.
LEMMA OtherOver ==
    ASSUME FilesInv, caller' = Idle, UNCHANGED <<workload, wire, held, pexec, fileTable,
           handleCell, unsure>>,
           ~Asked \/ Done({"Fclose", "Fsetdta", "DtaRelease", "Fsfirst", "Fsnext"}),
           Asked => pexec.step = "none" \/ caller.call.op # "Fclose"
    PROVE  FilesInv'
<1>1. WireOrder' /\ ~Asked' /\ caller'.ran = FALSE /\ caller' \in CallerStates
  BY EndedOrder DEF FilesInv
<1>2. FileTypes' /\ PexecCell'
  BY <1>1 DEF FilesInv, FileTypes, PexecCell, PexecReadsOneOpen
<1>3. Workloads'
  BY <1>1 DEF FilesInv, Workloads, Done, Asked
<1>4. SlotsKnown'
  <2>1. ~unsure /\ Asked => caller.ran /\ caller.call.op \notin Openings
    BY DEF FilesInv, WireOrder, Asked, Done, Openings
  <2>2. QED BY <1>1, <2>1 DEF FilesInv, SlotsKnown, Owned, HandlesHeld
<1>5. HeldMine'
  BY <1>1 DEF FilesInv, HeldMine, OpenOn, HandlesHeld
<1>6. QED BY <1>1, <1>2, <1>3, <1>4, <1>5 DEF FilesInv

\* Pexec sends its Fopen.
LEMMA CallPexecStep ==
    ASSUME FilesInv, NEW p \in Paths, CallPexec(p)
    PROVE  FilesInv'
<1> DEFINE c == [op |-> "Fopen", path |-> p, write |-> FALSE]
<1>1. /\ workload = "pexec" /\ caller.pc = "idle" /\ pexec.step = "none" /\ Start(c)
      /\ c \in Calls /\ c.op = "Fopen"
      /\ pexec' = [NoPexec EXCEPT !.step = "open"]
      /\ UNCHANGED <<workload, held, fileTable, handleCell, unsure>>
  BY DEF CallPexec, Calls, FileCalls, sideRP
<1> HIDE DEF c
<1>2. /\ wire' \in Seq(Bound) /\ caller' \in CallerStates
      /\ caller'.pc = "sent" /\ ~caller'.ran /\ caller'.call = c
      /\ DOMAIN wire' = 1..(Len(wire) + 1) /\ Len(wire) \in Nat
      /\ \A i \in 1..Len(wire) : ~wire'[i].current /\ wire'[i].call = wire[i].call
      /\ wire'[Len(wire) + 1] = [call |-> c, current |-> TRUE]
      /\ DOMAIN wire = 1..Len(wire)
  BY <1>1, Started DEF FilesInv, FileTypes
<1>3. pexec' \in PexecStates /\ pexec'.step = "open" /\ pexec'.next = NoHandle
  BY <1>1 DEF PexecStates, NoPexec
<1>4. FileTypes' /\ WireOrder'
  BY <1>1, <1>2, <1>3, StartedOrder DEF FilesInv, FileTypes
<1>5. Workloads' /\ held = {}
  BY <1>1, <1>2, <1>3 DEF FilesInv, Workloads, Asked, Reading, Openings
<1>6. SlotsKnown'
  BY <1>1, <1>2, <1>3 DEF FilesInv, SlotsKnown, Owned, Asked, HandlesHeld, Reading
<1>7. PexecCell'
  BY <1>3 DEF PexecCell, PexecReadsOneOpen, Reading
<1>8. HeldMine'
  BY <1>1, <1>2, <1>5 DEF HeldMine, HandlesHeld, Openings
<1>9. QED BY <1>4, <1>5, <1>6, <1>7, <1>8 DEF FilesInv

\* Pexec takes the handle.
LEMMA PexecOpenedStep ==
    ASSUME FilesInv, PexecOpened
    PROVE  FilesInv'
<1> DEFINE h == handleCell["Fopen"]
<1>1. /\ Done({"Fopen"}) /\ pexec.step = "open" /\ caller' = Idle
      /\ pexec' = IF h < 0 THEN NoPexec
                  ELSE [step |-> "header", header |-> h, next |-> NoHandle, again |-> Resent]
      /\ fileTable' = Orphaned(h, {})
      /\ UNCHANGED <<workload, wire, held, handleCell, unsure>>
  BY DEF PexecOpened
<1>2. /\ caller.pc = "answered" /\ caller.call.op = "Fopen" /\ Asked
      /\ workload = "pexec" /\ held = {} /\ HandlesHeld = {}
  BY <1>1 DEF Done, Asked, FilesInv, Workloads, HandlesHeld
<1>3. WireOrder' /\ ~Asked' /\ caller'.ran = FALSE /\ caller' \in CallerStates
  BY <1>1, EndedOrder DEF FilesInv
<1>4. h \in Cells /\ h \in Int
  BY HandleSlots DEF FilesInv, FileTypes, Openings
<1>5. fileTable' \in [Slots -> FileSlot]
  <2>1. ASSUME NEW s \in Slots PROVE fileTable'[s] \in FileSlot
    <3>1. fileTable[s] \in FileSlot
      BY DEF FilesInv, FileTypes
    <3>2. CASE fileTable[s].inUse
      BY <1>1, <3>1, <3>2 DEF Orphaned, FileSlot, FreeSlot
    <3>3. CASE ~fileTable[s].inUse
      BY <1>1, <3>1, <3>3 DEF Orphaned
    <3>4. QED BY <3>2, <3>3
  <2>2. QED BY <1>1, <2>1 DEF Orphaned
<1> HIDE DEF h
<1>6. /\ pexec' \in PexecStates /\ pexec'.next = NoHandle
      /\ h < 0 => pexec'.step = "none"
      /\ ~(h < 0) => pexec'.step = "header" /\ pexec'.header = h /\ pexec'.again = Resent
  <2>1. Resent \in BOOLEAN
    BY DEF Resent
  <2>2. CASE h < 0
    BY <1>1, <2>2 DEF PexecStates, NoPexec
  <2>3. CASE ~(h < 0)
    BY <1>1, <1>4, <2>1, <2>3 DEF PexecStates
  <2>4. QED BY <2>2, <2>3
<1>7. FileTypes'
  BY <1>1, <1>3, <1>5, <1>6 DEF FilesInv, FileTypes
<1>8. Workloads'
  BY <1>1, <1>2, <1>3, <1>4, <1>6 DEF FilesInv, Workloads, Reading
<1>9. CASE unsure
  BY <1>1, <1>3, <1>6, <1>7, <1>8, <1>9
     DEF FilesInv, SlotsKnown, HeldMine, PexecCell, PexecReadsOneOpen
<1>10. CASE ~unsure
  <2>1. /\ \A s \in Slots : fileTable'[s].inUse /\ ~fileTable'[s].orphan =>
              h = FirstFd + s
        /\ ~Resent => wire = <<>>
    <3>1. h = handleCell[caller.call.op] /\ Done(Openings)
      BY <1>1, <1>2 DEF h, Done, Openings
    <3>2. QED BY <1>1, <1>2, <1>10, <3>1, OpeningOver DEF Reading
  <2>2. SlotsKnown'
    <3>1. ASSUME NEW s \in Slots, fileTable'[s].inUse, ~fileTable'[s].orphan
          PROVE  pexec'.step \in Reading /\ FirstFd + s = pexec'.header
      <4>1. h = FirstFd + s /\ h >= 0
        BY <2>1, <3>1, HandleSlots
      <4>2. QED BY <1>4, <1>6, <4>1 DEF Reading
    <3>2. QED BY <3>1 DEF SlotsKnown, Owned
  <2>3. PexecCell'
    <3>1. ~Resent => DOMAIN wire = {}
      BY <2>1
    <3>2. QED BY <1>1, <1>6, <3>1 DEF PexecCell, PexecReadsOneOpen, Reading, h
  <2>4. HeldMine'
    BY <1>1, <1>2, <1>3 DEF HeldMine, HandlesHeld
  <2>5. QED BY <1>3, <1>7, <1>8, <2>2, <2>3, <2>4 DEF FilesInv
<1>11. QED BY <1>9, <1>10

\* Pexec sends a read.
LEMMA PexecReadStep ==
    ASSUME FilesInv, PexecRead
    PROVE  FilesInv'
<1> DEFINE h == IF pexec.step = "header" THEN pexec.header ELSE handleCell["Fopen"]
           c == [op |-> "Fread", handle |-> h]
<1>1. /\ caller.pc = "idle" /\ pexec.step \in {"header", "rest"} /\ Start(c)
      /\ c.op = "Fread"
      /\ pexec' = IF pexec.step = "header" THEN pexec ELSE [pexec EXCEPT !.next = h]
      /\ UNCHANGED <<workload, held, fileTable, handleCell, unsure>>
  BY DEF PexecRead, sideRP
<1>2. h \in Cells
  BY <1>1 DEF FilesInv, FileTypes, Workloads, Reading, Openings
<1>3. c \in Calls
  BY <1>2 DEF Calls, FdCalls
<1>4. pexec.step = "rest" => h = handleCell["Fopen"]
  OBVIOUS
<1> HIDE DEF c, h
<1>5. /\ wire' \in Seq(Bound) /\ caller' \in CallerStates
      /\ caller'.pc = "sent" /\ ~caller'.ran /\ caller'.call = c
      /\ DOMAIN wire' = 1..(Len(wire) + 1) /\ Len(wire) \in Nat
      /\ \A i \in 1..Len(wire) : ~wire'[i].current /\ wire'[i].call = wire[i].call
      /\ wire'[Len(wire) + 1] = [call |-> c, current |-> TRUE]
      /\ DOMAIN wire = 1..Len(wire) /\ ~unsure
  <2>1. FileTypes /\ DOMAIN wire = 1..Len(wire)
    BY DEF FilesInv, FileTypes
  <2>2. QED BY <1>1, <1>3, <2>1, Started
<1>6. /\ pexec' \in PexecStates
      /\ UNCHANGED <<pexec.step, pexec.header, pexec.again>>
      /\ pexec'.next = pexec.next \/ (pexec.step = "rest" /\ pexec'.next = h)
  BY <1>1, <1>2 DEF FilesInv, FileTypes, PexecStates
<1>7. FileTypes' /\ WireOrder'
  BY <1>1, <1>3, <1>5, <1>6, StartedOrder DEF FilesInv, FileTypes
<1>8. Workloads' /\ held = {}
  BY <1>1, <1>5, <1>6 DEF FilesInv, Workloads, Asked, Reading, Openings
<1>9. SlotsKnown'
  BY <1>1, <1>5, <1>6 DEF FilesInv, SlotsKnown, Owned, Asked, HandlesHeld, Reading
<1>10. PexecCell'
  <2>1. \A i \in DOMAIN wire' :
           wire'[i].call.op = "Fopen" => i \in DOMAIN wire /\ wire'[i].call = wire[i].call
    BY <1>1, <1>5
  <2>2. PexecReadsOneOpen'
    BY <1>1, <1>4, <1>6 DEF FilesInv, PexecCell, PexecReadsOneOpen, Reading
  <2>3. QED BY <1>1, <1>6, <2>1, <2>2 DEF FilesInv, PexecCell
<1>11. HeldMine'
  BY <1>1, <1>5, <1>8 DEF HeldMine, HandlesHeld, Openings
<1>12. QED BY <1>7, <1>8, <1>9, <1>10, <1>11 DEF FilesInv

\* Pexec takes what was read.
LEMMA PexecHaveReadStep ==
    ASSUME FilesInv, PexecHaveRead
    PROVE  FilesInv'
<1>1. /\ Done({"Fread"}) /\ caller' = Idle
      /\ \E step \in {"rest", "close"} : pexec' = [pexec EXCEPT !.step = step]
      /\ UNCHANGED <<workload, wire, held, fileTable, handleCell, unsure>>
  BY DEF PexecHaveRead, sideRP
<1>2. Asked /\ caller.call.op = "Fread" /\ pexec.step \in {"header", "rest"}
  BY <1>1 DEF Done, Asked, FilesInv, Workloads
<1>3. WireOrder' /\ ~Asked' /\ caller'.ran = FALSE /\ caller' \in CallerStates
  BY <1>1, EndedOrder DEF FilesInv
<1>4. /\ pexec' \in PexecStates /\ pexec'.step \in {"rest", "close"}
      /\ UNCHANGED <<pexec.header, pexec.next, pexec.again>>
  BY <1>1 DEF FilesInv, FileTypes, PexecStates
<1>5. FileTypes'
  BY <1>1, <1>3, <1>4 DEF FilesInv, FileTypes
<1>6. Workloads' /\ held = {}
  BY <1>1, <1>2, <1>3, <1>4 DEF FilesInv, Workloads, Reading
<1>7. SlotsKnown'
  BY <1>1, <1>2, <1>4 DEF FilesInv, SlotsKnown, Owned, Asked, HandlesHeld, Reading, Openings
<1>8. PexecCell'
  BY <1>1, <1>2, <1>4 DEF FilesInv, PexecCell, PexecReadsOneOpen, Reading
<1>9. HeldMine'
  <2>1. held' = {} /\ HandlesHeld' = {}
    BY <1>1, <1>6 DEF HandlesHeld
  <2>2. QED BY <1>3, <2>1 DEF HeldMine
<1>10. QED BY <1>3, <1>5, <1>6, <1>7, <1>8, <1>9 DEF FilesInv

\* Nobody knows of the slots in use any more.
LEMMA AllOrphanedTable ==
    ASSUME fileTable \in [Slots -> FileSlot], fileTable' = AllOrphaned
    PROVE  /\ fileTable' \in [Slots -> FileSlot]
           /\ \A s \in Slots : ~(fileTable'[s].inUse /\ ~fileTable'[s].orphan)
<1>1. ASSUME NEW s \in Slots
      PROVE  fileTable'[s] \in FileSlot /\ ~(fileTable'[s].inUse /\ ~fileTable'[s].orphan)
  <2>1. fileTable[s] \in FileSlot
    OBVIOUS
  <2>2. CASE fileTable[s].inUse
    <3>1. fileTable[s] # FreeSlot
      BY <2>2 DEF FreeSlot
    <3>2. fileTable[s] \in [inUse : {TRUE}, path : Paths, write : BOOLEAN, orphan : BOOLEAN]
      BY <2>1, <3>1 DEF FileSlot
    <3>3. fileTable'[s] = [fileTable[s] EXCEPT !.orphan = TRUE]
      BY <2>2 DEF AllOrphaned
    <3>4. /\ fileTable'[s] \in [inUse : {TRUE}, path : Paths, write : BOOLEAN, orphan : BOOLEAN]
          /\ fileTable'[s].orphan = TRUE
      BY <3>2, <3>3
    <3>5. QED BY <3>4 DEF FileSlot
  <2>3. CASE ~fileTable[s].inUse
    BY <2>1, <2>3 DEF AllOrphaned
  <2>4. QED BY <2>2, <2>3
<1>2. QED BY <1>1 DEF AllOrphaned

\* Pexec sends its Fclose.
LEMMA PexecCloseStep ==
    ASSUME FilesInv, PexecClose
    PROVE  FilesInv'
<1> DEFINE c == [op |-> "Fclose", handle |-> handleCell["Fopen"]]
<1>1. /\ caller.pc = "idle" /\ pexec.step = "close" /\ Start(c)
      /\ c.op = "Fclose" /\ c.handle = handleCell["Fopen"]
      /\ pexec' = NoPexec
      /\ fileTable' = IF pexec.again THEN AllOrphaned ELSE fileTable
      /\ UNCHANGED <<workload, held, handleCell, unsure>>
  BY DEF PexecClose
<1>2. c \in Calls
  BY DEF Calls, FdCalls, FilesInv, FileTypes, Openings
<1> HIDE DEF c
<1>3. /\ wire' \in Seq(Bound) /\ caller' \in CallerStates
      /\ caller'.pc = "sent" /\ ~caller'.ran /\ caller'.call = c
      /\ ~unsure
  BY <1>1, <1>2, Started DEF FilesInv
<1>4. pexec' \in PexecStates /\ pexec'.step = "none" /\ pexec'.next = NoHandle
  BY <1>1 DEF NoPexec, PexecStates
<1>5. /\ fileTable' \in [Slots -> FileSlot]
      /\ pexec.again => \A s \in Slots : ~(fileTable'[s].inUse /\ ~fileTable'[s].orphan)
      /\ ~pexec.again => fileTable' = fileTable
  BY <1>1, AllOrphanedTable DEF FilesInv, FileTypes
<1>6. FileTypes' /\ WireOrder'
  BY <1>1, <1>2, <1>3, <1>4, <1>5, StartedOrder DEF FilesInv, FileTypes
<1>7. Workloads' /\ held = {}
  BY <1>1, <1>3, <1>4 DEF FilesInv, Workloads, Asked, Reading, Openings
<1>8. SlotsKnown'
  <2>1. CASE pexec.again
    BY <1>5, <2>1 DEF SlotsKnown
  <2>2. CASE ~pexec.again
    <3>1. handleCell["Fopen"] = pexec.header
      BY <1>1, <1>3, <2>2 DEF FilesInv, PexecCell, Reading
    <3>2. ~Asked /\ HandlesHeld = {}
      BY <1>1, <1>7 DEF Asked, HandlesHeld
    <3>3. \A s \in Slots : fileTable[s].inUse /\ ~fileTable[s].orphan =>
             FirstFd + s = pexec.header
      BY <1>3, <3>2 DEF FilesInv, SlotsKnown, Owned
    <3>4. QED BY <1>1, <1>3, <1>5, <2>2, <3>1, <3>3 DEF SlotsKnown, Owned, Asked
  <2>3. QED BY <2>1, <2>2
<1>9. PexecCell'
  BY <1>4 DEF PexecCell, PexecReadsOneOpen, Reading
<1>10. HeldMine'
  BY <1>1, <1>3, <1>7 DEF HeldMine, HandlesHeld, Openings
<1>11. QED BY <1>6, <1>7, <1>8, <1>9, <1>10 DEF FilesInv

\* The retries of send_sync and what ends them.
LEMMA AnswerStep ==
    ASSUME FilesInv, Resend \/ Answered \/ GivenUp
    PROVE  FilesInv'
<1>1. CASE Resend
  <2>1. UNCHANGED <<workload, held, pexec, fileTable, handleCell, unsure>>
    BY <1>1 DEF Resend, sideRP
  <2>2. /\ wire' \in Seq(Bound) /\ caller' \in CallerStates
        /\ caller.pc = "sent" /\ caller'.pc = "sent" /\ Asked /\ Asked'
        /\ caller'.ran = caller.ran /\ caller'.call = caller.call
        /\ DOMAIN wire = 1..Len(wire)
        /\ DOMAIN wire' = 1..(Len(wire) + 1) /\ Len(wire) \in Nat
        /\ \A i \in 1..Len(wire) : wire'[i] = wire[i]
        /\ wire'[Len(wire) + 1].call = caller.call
        /\ Resent'
    BY <1>1, Repeated DEF FilesInv, FileTypes, Asked
  <2>3. FileTypes' /\ WireOrder'
    BY <1>1, <2>1, <2>2, RepeatedOrder DEF FilesInv, FileTypes
  <2>4. Workloads'
    BY <2>1, <2>2 DEF FilesInv, Workloads
  <2>5. SlotsKnown'
    BY <2>1, <2>2 DEF FilesInv, SlotsKnown, Owned, HandlesHeld
  <2>6. PexecCell'
    <3>1. \A i \in DOMAIN wire' :
             wire'[i].call = caller.call \/ (i \in DOMAIN wire /\ wire'[i] = wire[i])
      BY <2>2
    <3>2. pexec.step \in Reading => caller.call.op # "Fopen"
      BY <2>2 DEF FilesInv, Workloads
    <3>3. QED BY <2>1, <3>1, <3>2 DEF FilesInv, PexecCell, PexecReadsOneOpen
  <2>7. HeldMine'
    <3>1. \A i \in DOMAIN wire' :
             wire'[i].call = caller.call \/ (i \in DOMAIN wire /\ wire'[i] = wire[i])
      BY <2>2
    <3>2. QED BY <2>1, <2>2, <3>1 DEF FilesInv, HeldMine, OpenOn, HandlesHeld
  <2>8. QED BY <2>3, <2>4, <2>5, <2>6, <2>7 DEF FilesInv
<1>2. CASE Answered \/ GivenUp
  <2>1. /\ caller.pc = "sent" /\ caller' = [caller EXCEPT !.pc = "answered"]
        /\ UNCHANGED <<workload, wire, held, pexec, fileTable, handleCell>>
        /\ (unsure' = unsure /\ caller.ran) \/ unsure' = TRUE
    BY <1>2 DEF Answered, GivenUp, sideRP
  <2>2. /\ caller' \in CallerStates /\ caller'.pc = "answered" /\ Asked /\ Asked'
        /\ UNCHANGED <<caller.call, caller.ran, caller.left>> /\ Resent' = Resent
    BY <2>1 DEF FilesInv, FileTypes, CallerStates, Asked, Resent
  <2>3. FileTypes' /\ WireOrder'
    BY <2>1, <2>2 DEF FilesInv, FileTypes, WireOrder
  <2>4. Workloads'
    BY <2>1, <2>2 DEF FilesInv, Workloads
  <2>5. SlotsKnown'
    BY <2>1, <2>2 DEF FilesInv, SlotsKnown, Owned, HandlesHeld
  <2>6. PexecCell' /\ HeldMine'
    BY <2>1, <2>2 DEF FilesInv, PexecCell, PexecReadsOneOpen, HeldMine, OpenOn, HandlesHeld
  <2>7. QED BY <2>3, <2>4, <2>5, <2>6 DEF FilesInv
<1>3. QED BY <1>1, <1>2

\* A program ends, or the ST is reset.
LEMMA ForgetStep ==
    ASSUME FilesInv, ProgramEnds \/ ResetST
    PROVE  FilesInv'
<1>1. /\ caller' = Idle \/ caller' = [Idle EXCEPT !.pc = "booting"]
      /\ held' = {} /\ pexec' = NoPexec /\ fileTable' = AllOrphaned
      /\ UNCHANGED <<workload, wire, handleCell, unsure>>
  BY DEF ProgramEnds, ResetST, Forget
<1>2. WireOrder' /\ ~Asked' /\ caller' \in CallerStates
  BY <1>1, EndedOrder DEF FilesInv
<1>3. /\ fileTable' \in [Slots -> FileSlot]
      /\ \A s \in Slots : ~(fileTable'[s].inUse /\ ~fileTable'[s].orphan)
  BY <1>1, AllOrphanedTable DEF FilesInv, FileTypes
<1>4. pexec' \in PexecStates /\ pexec'.step = "none" /\ pexec'.next = NoHandle
  BY <1>1 DEF NoPexec, PexecStates
<1>5. FileTypes'
  BY <1>1, <1>2, <1>3, <1>4 DEF FilesInv, FileTypes
<1>6. Workloads' /\ SlotsKnown' /\ PexecCell' /\ HeldMine'
  <2>1. Workloads'
    BY <1>1, <1>2, <1>4 DEF Workloads, Reading
  <2>2. SlotsKnown'
    BY <1>3 DEF SlotsKnown
  <2>3. PexecCell'
    BY <1>4 DEF PexecCell, PexecReadsOneOpen, Reading
  <2>4. HeldMine'
    BY <1>1, <1>2 DEF HeldMine, HandlesHeld
  <2>5. QED BY <2>1, <2>2, <2>3, <2>4
<1>7. QED BY <1>2, <1>5, <1>6 DEF FilesInv

\* A slot that is taken: the lowest free one, and its handle in the cell.
LEMMA SlotTaken ==
    ASSUME FileTypes, FreeSlots # {}
    PROVE  LET s == Lowest(FreeSlots) IN
           s \in Slots /\ ~fileTable[s].inUse /\ HandleOf(s) \in Cells
           /\ HandleOf(s) = FirstFd + s
<1>1. FreeSlots \subseteq Nat
  BY HandleSlots DEF FreeSlots
<1>2. Lowest(FreeSlots) \in FreeSlots
  BY <1>1, LeastIn
<1>3. QED BY <1>2, HandleSlots DEF FreeSlots, HandleOf

\* The RP opens a file.
LEMMA OpenRuns ==
    ASSUME FilesInv, Execute, Head(wire).call.op \in Openings, HandleOpen(Head(wire).call)
    PROVE  FilesInv'
<1> DEFINE c == Head(wire).call
           first == FirstRun
<1>1. /\ wire # <<>> /\ wire' = Tail(wire) /\ UNCHANGED <<held, pexec, unsure, workload>>
      /\ caller' \in CallerStates /\ UNCHANGED <<caller.pc, caller.call, caller.left>>
      /\ caller'.ran = (caller.ran \/ first)
  BY Executed DEF FilesInv
<1>2. /\ wire' \in Seq(Bound) /\ Head(wire) = wire[1] /\ 1 \in DOMAIN wire /\ Head(wire) \in Bound
      /\ \A i \in DOMAIN wire' : i + 1 \in DOMAIN wire /\ wire'[i] = wire[i + 1]
  BY <1>1, TailOfWire DEF FilesInv
<1>3. c \in Calls /\ c.op \in Openings /\ c.path \in Paths /\ c.write \in BOOLEAN
  BY <1>2, CallKinds DEF Bound
<1>4. first \in BOOLEAN /\ (first => Asked /\ c = caller.call /\ ~caller.ran)
  BY <1>1, <1>2 DEF FirstRun, Bound, FilesInv, WireOrder, Asked
<1>5. caller.ran => c = caller.call /\ Asked
  BY <1>2 DEF FilesInv, WireOrder
<1>6. Resent' = Resent /\ Asked' = Asked /\ HandlesHeld' = HandlesHeld
  BY <1>1 DEF Resent, Asked, HandlesHeld
<1>7. caller.ran => Resent
  <2>1. wire # <<>>
    BY <1>1
  <2>2. QED BY <1>5, <2>1 DEF FilesInv, WireOrder
<1>8. HandleOpen(c)
  OBVIOUS
<1> HIDE DEF c, first
<1>9. \E v \in Cells, t \in Slots, r \in FileSlot :
        /\ handleCell' = [handleCell EXCEPT ![c.op] = v]
        /\ \/ v < 0 /\ fileTable' = fileTable
           \/ /\ v = FirstFd + t /\ ~fileTable[t].inUse
              /\ fileTable' = [fileTable EXCEPT ![t] = r]
              /\ r.inUse /\ r.path = c.path /\ r.orphan = ~first
  <2>1. CASE handleCell' = [handleCell EXCEPT ![c.op] = ENHNDL] /\ UNCHANGED fileTable
    <3>1. ENHNDL \in Cells /\ ENHNDL < 0 /\ FreeSlot \in FileSlot /\ 0 \in Slots
      BY HandleSlots DEF Cells, FileSlot
    <3>2. QED BY <2>1, <3>1
  <2>2. CASE handleCell' = [handleCell EXCEPT ![c.op] = EFILNF] /\ UNCHANGED fileTable
    <3>1. EFILNF \in Cells /\ EFILNF < 0 /\ FreeSlot \in FileSlot /\ 0 \in Slots
      BY HandleSlots DEF Cells, FileSlot
    <3>2. QED BY <2>2, <3>1
  <2>3. CASE /\ FreeSlots # {}
             /\ LET s == Lowest(FreeSlots) IN
                  /\ handleCell' = [handleCell EXCEPT ![c.op] = HandleOf(s)]
                  /\ fileTable' = [fileTable EXCEPT ![s] =
                        [inUse |-> TRUE, path |-> c.path, write |-> c.write,
                         orphan |-> ~FirstRun]]
    <3> DEFINE s == Lowest(FreeSlots)
               r == [inUse |-> TRUE, path |-> c.path, write |-> c.write, orphan |-> ~FirstRun]
    <3>1. s \in Slots /\ ~fileTable[s].inUse /\ HandleOf(s) \in Cells /\ HandleOf(s) = FirstFd + s
      BY <2>3, SlotTaken DEF FilesInv
    <3>2. r \in FileSlot /\ r.inUse /\ r.path = c.path /\ r.orphan = ~first
      BY <1>3, <1>4 DEF FileSlot, first
    <3> HIDE DEF s, r
    <3>3. handleCell' = [handleCell EXCEPT ![c.op] = HandleOf(s)]
          /\ fileTable' = [fileTable EXCEPT ![s] = r]
      BY <2>3 DEF s, r
    <3>4. QED BY <3>1, <3>2, <3>3
  <2>4. QED BY <1>8, <2>1, <2>2, <2>3 DEF HandleOpen
<1>10. PICK v \in Cells, t \in Slots, r \in FileSlot :
        /\ handleCell' = [handleCell EXCEPT ![c.op] = v]
        /\ \/ v < 0 /\ fileTable' = fileTable
           \/ /\ v = FirstFd + t /\ ~fileTable[t].inUse
              /\ fileTable' = [fileTable EXCEPT ![t] = r]
              /\ r.inUse /\ r.path = c.path /\ r.orphan = ~first
  BY <1>9
<1>11. /\ handleCell' \in [Openings -> Cells] /\ handleCell'[c.op] = v
       /\ \A op \in Openings \ {c.op} : handleCell'[op] = handleCell[op]
       /\ fileTable' \in [Slots -> FileSlot]
       /\ \A s \in Slots : \/ fileTable'[s] = fileTable[s]
                           \/ /\ s = t /\ v = FirstFd + t /\ ~fileTable[s].inUse
                              /\ fileTable'[s] = r /\ r.orphan = ~first
  BY <1>3, <1>10 DEF FilesInv, FileTypes
<1>12. FileTypes' /\ WireOrder'
  BY <1>1, <1>2, <1>11, ExecutedOrder DEF FilesInv, FileTypes
<1>13. Workloads'
  BY <1>1, <1>6 DEF FilesInv, Workloads
<1>14. SlotsKnown'
  <2>1. SUFFICES ASSUME ~unsure, NEW s \in Slots, fileTable'[s].inUse, ~fileTable'[s].orphan
                 PROVE  Owned(s)'
    BY <1>1 DEF SlotsKnown
  <2>2. CASE fileTable'[s] = fileTable[s]
    <3>1. Owned(s)
      BY <2>1, <2>2 DEF FilesInv, SlotsKnown
    <3>2. caller.ran => Resent
      BY <1>7
    <3>3. first /\ Asked /\ caller.call.op = "Fclose" => FALSE
      BY <1>3, <1>4 DEF Openings
    <3>4. QED BY <1>1, <1>3, <1>4, <1>6, <3>1, <3>2, <3>3 DEF Owned
  <2>3. CASE s = t /\ v = FirstFd + t /\ fileTable'[s] = r /\ r.orphan = ~first
    <3>1. first
      BY <2>1, <2>3
    <3>2. Asked' /\ caller'.ran /\ caller'.call = c
      BY <1>1, <1>4, <1>6, <3>1
    <3>3. handleCell'[caller'.call.op] = FirstFd + s
      BY <1>11, <2>3, <3>2
    <3>4. QED BY <1>3, <3>2, <3>3 DEF Owned
  <2>4. QED BY <1>11, <2>2, <2>3
<1>15. PexecCell'
  <2>1. ~unsure /\ pexec.step \in Reading /\ ~pexec.again => c.op # "Fopen"
    BY <1>2 DEF FilesInv, PexecCell, c
  <2>2. QED BY <1>1, <1>2, <1>11, <2>1 DEF FilesInv, PexecCell, PexecReadsOneOpen, Openings
<1>16. HeldMine'
  <2>1. SUFFICES ASSUME ~unsure PROVE HeldMine'
    BY <1>1 DEF HeldMine
  <2>2. \A h, p : h \in Handles /\ OpenOn(h, p) => OpenOn(h, p)'
    BY <1>11, HandleSlots DEF OpenOn
  <2>3. \A h \in held : h.handle \in Handles /\ OpenOn(h.handle, h.path)
    BY <2>1 DEF FilesInv, FileTypes, HeldMine
  <2>4. \A h \in held' : OpenOn(h.handle, h.path)'
    BY <1>1, <2>2, <2>3
  <2>5. \A i \in DOMAIN wire' :
           wire'[i].call.op = "Fclose" => wire'[i].call.handle \notin HandlesHeld'
    BY <1>2, <1>6, <2>1 DEF FilesInv, HeldMine
  <2>6. ASSUME Asked, caller.call.op \in Openings, caller.ran \/ first,
               handleCell'[caller.call.op] >= FirstFd
        PROVE  LET h == handleCell'[caller.call.op] IN
               /\ fileTable'[h - FirstFd].inUse
               /\ fileTable'[h - FirstFd].path = caller.call.path
               /\ h \notin HandlesHeld
    <3>1. c = caller.call
      BY <1>4, <1>5, <2>6
    <3>2. v >= FirstFd /\ handleCell'[caller.call.op] = v
      BY <1>11, <2>6, <3>1
    <3>3. ~(v < 0)
      BY <3>2, HandleSlots, TablesAssumption
    <3>4. /\ v = FirstFd + t /\ ~fileTable[t].inUse
          /\ fileTable' = [fileTable EXCEPT ![t] = r]
          /\ r.inUse /\ r.path = c.path
      BY <1>10, <3>3
    <3>5. v - FirstFd = t
      BY <3>4, HandleSlots, TablesAssumption
    <3>6. fileTable'[t] = r
      BY <3>4 DEF FilesInv, FileTypes
    <3>7. fileTable'[v - FirstFd].inUse /\ fileTable'[v - FirstFd].path = caller.call.path
      BY <3>1, <3>4, <3>5, <3>6
    <3>8. ASSUME v \in HandlesHeld PROVE FALSE
      <4>1. fileTable[v - FirstFd].inUse
        BY <2>3, <3>8 DEF HandlesHeld, OpenOn
      <4>2. QED BY <3>4, <3>5, <4>1
    <3>9. QED BY <3>2, <3>7, <3>8
  <2>7. (\A h, g \in held : h.handle = g.handle => h = g)
        /\ (Asked /\ caller.call.op = "Fclose" => caller.call.handle \notin HandlesHeld)
    BY <2>1 DEF FilesInv, HeldMine
  <2>8. QED BY <1>1, <1>6, <2>4, <2>5, <2>6, <2>7 DEF HeldMine, OpenOn
<1>17. QED BY <1>12, <1>13, <1>14, <1>15, <1>16 DEF FilesInv

\* The RP closes a handle.
LEMMA CloseRuns ==
    ASSUME FilesInv, Execute, Head(wire).call.op = "Fclose", HandleFcloseCall(Head(wire).call)
    PROVE  FilesInv'
<1> DEFINE c == Head(wire).call
           first == FirstRun
<1>1. /\ wire # <<>> /\ wire' = Tail(wire) /\ UNCHANGED <<held, pexec, unsure, workload>>
      /\ caller' \in CallerStates /\ UNCHANGED <<caller.pc, caller.call, caller.left>>
      /\ caller'.ran = (caller.ran \/ first)
  BY Executed DEF FilesInv
<1>2. /\ wire' \in Seq(Bound) /\ Head(wire) = wire[1] /\ 1 \in DOMAIN wire /\ Head(wire) \in Bound
      /\ \A i \in DOMAIN wire' : i + 1 \in DOMAIN wire /\ wire'[i] = wire[i + 1]
  BY <1>1, TailOfWire DEF FilesInv
<1>3. first \in BOOLEAN /\ (first => Asked /\ c = caller.call /\ ~caller.ran)
  BY <1>1, <1>2 DEF FirstRun, Bound, FilesInv, WireOrder, Asked
<1>4. caller.ran => c = caller.call /\ Asked
  BY <1>2 DEF FilesInv, WireOrder
<1>5. Resent' = Resent /\ Asked' = Asked /\ HandlesHeld' = HandlesHeld
  BY <1>1 DEF Resent, Asked, HandlesHeld
<1>6. /\ c.op = "Fclose" /\ handleCell' = handleCell
      /\ fileTable' = [s \in Slots |->
                          IF FirstFd + s = c.handle THEN FreeSlot ELSE fileTable[s]]
  BY DEF HandleFcloseCall
<1> HIDE DEF c, first
<1>7. /\ fileTable' \in [Slots -> FileSlot]
      /\ \A s \in Slots : FirstFd + s # c.handle => fileTable'[s] = fileTable[s]
      /\ \A s \in Slots : fileTable'[s].inUse =>
            FirstFd + s # c.handle /\ fileTable'[s] = fileTable[s]
  BY <1>6 DEF FilesInv, FileTypes, FileSlot, FreeSlot
<1>8. FileTypes' /\ WireOrder'
  BY <1>1, <1>2, <1>6, <1>7, ExecutedOrder DEF FilesInv, FileTypes
<1>9. Workloads'
  BY <1>1, <1>5 DEF FilesInv, Workloads
<1>10. SlotsKnown'
  <2>1. SUFFICES ASSUME ~unsure, NEW s \in Slots, fileTable'[s].inUse, ~fileTable'[s].orphan
                 PROVE  Owned(s)'
    BY <1>1 DEF SlotsKnown
  <2>2. Owned(s) /\ FirstFd + s # c.handle
    BY <1>7, <2>1 DEF FilesInv, SlotsKnown
  <2>3. first \/ caller.ran => c = caller.call
    BY <1>3, <1>4
  <2>4. first \/ caller.ran => caller.call.op = "Fclose" /\ caller.call.handle # FirstFd + s
    BY <1>6, <2>2, <2>3
  <2>5. QED BY <1>1, <1>5, <1>6, <2>2, <2>4 DEF Owned, Openings
<1>11. PexecCell'
  BY <1>1, <1>2, <1>6 DEF FilesInv, PexecCell, PexecReadsOneOpen
<1>12. HeldMine'
  <2>1. SUFFICES ASSUME ~unsure PROVE HeldMine'
    BY <1>1 DEF HeldMine
  <2>2. c.handle \notin HandlesHeld
    BY <1>2, <1>6, <2>1 DEF FilesInv, HeldMine, c
  <2>3. ASSUME NEW h \in held PROVE OpenOn(h.handle, h.path)'
    <3>1. h.handle \in Handles /\ OpenOn(h.handle, h.path) /\ h.handle # c.handle
      BY <2>1, <2>2, <2>3 DEF FilesInv, FileTypes, HeldMine, HandlesHeld
    <3>2. fileTable'[h.handle - FirstFd] = fileTable[h.handle - FirstFd]
      BY <1>7, <3>1, HandleSlots
    <3>3. QED BY <3>1, <3>2 DEF OpenOn
  <2>4. \A i \in DOMAIN wire' :
           wire'[i].call.op = "Fclose" => wire'[i].call.handle \notin HandlesHeld'
    BY <1>2, <1>5, <2>1 DEF FilesInv, HeldMine
  <2>5. first \/ caller.ran => caller.call.op = "Fclose"
    BY <1>3, <1>4, <1>6
  <2>6. (\A h, g \in held : h.handle = g.handle => h = g)
        /\ (Asked /\ caller.call.op = "Fclose" => caller.call.handle \notin HandlesHeld)
    BY <2>1 DEF FilesInv, HeldMine
  <2>7. QED BY <1>1, <1>5, <2>3, <2>4, <2>5, <2>6 DEF HeldMine, Openings
<1>13. QED BY <1>8, <1>9, <1>10, <1>11, <1>12 DEF FilesInv

\* The head of the wire goes and the handles stay: any other call that is
\* executed, or a frame that is lost.
LEMMA HeadGoes ==
    ASSUME FilesInv, wire # <<>>, wire' = Tail(wire),
           UNCHANGED <<workload, held, pexec, fileTable, handleCell, unsure>>,
           \/ UNCHANGED caller
           \/ Execute /\ Head(wire).call.op \notin Openings \cup {"Fclose"}
    PROVE  FilesInv'
<1>1. /\ wire' \in Seq(Bound) /\ Head(wire) = wire[1] /\ 1 \in DOMAIN wire /\ Head(wire) \in Bound
      /\ \A i \in DOMAIN wire' : i + 1 \in DOMAIN wire /\ wire'[i] = wire[i + 1]
  BY TailOfWire DEF FilesInv
<1>2. /\ caller' \in CallerStates /\ UNCHANGED <<caller.pc, caller.call, caller.left>>
      /\ Resent' = Resent /\ Asked' = Asked /\ HandlesHeld' = HandlesHeld
      /\ \/ caller'.ran = caller.ran
         \/ Asked => caller.call.op \notin Openings \cup {"Fclose"}
  <2>1. CASE UNCHANGED caller
    BY <2>1 DEF FilesInv, FileTypes, Resent, Asked, HandlesHeld
  <2>2. CASE Execute /\ Head(wire).call.op \notin Openings \cup {"Fclose"}
    <3>1. /\ caller' \in CallerStates /\ UNCHANGED <<caller.pc, caller.call, caller.left>>
          /\ caller'.ran = (caller.ran \/ FirstRun)
      BY <2>2, Executed DEF FilesInv
    <3>2. Resent' = Resent /\ Asked' = Asked /\ HandlesHeld' = HandlesHeld
      BY <3>1 DEF Resent, Asked, HandlesHeld
    <3>3. FirstRun => Head(wire).call = caller.call
      BY <1>1 DEF FirstRun, FilesInv, WireOrder, Asked
    <3>4. caller.ran \in BOOLEAN
      BY DEF FilesInv, FileTypes, CallerStates
    <3>5. CASE FirstRun
      BY <2>2, <3>1, <3>2, <3>3, <3>5
    <3>6. CASE ~FirstRun
      BY <3>1, <3>2, <3>4, <3>6
    <3>7. QED BY <3>5, <3>6
  <2>3. QED BY <2>1, <2>2
<1>3. FileTypes'
  BY <1>1, <1>2 DEF FilesInv, FileTypes
<1>4. WireOrder'
  BY LostOrder, ExecutedOrder DEF FilesInv
<1>5. Workloads'
  BY <1>2 DEF FilesInv, Workloads
<1>6. SlotsKnown'
  BY <1>2 DEF FilesInv, SlotsKnown, Owned
<1>7. PexecCell'
  BY <1>1 DEF FilesInv, PexecCell, PexecReadsOneOpen
<1>8. HeldMine'
  BY <1>1, <1>2 DEF FilesInv, HeldMine, OpenOn
<1>9. QED BY <1>3, <1>4, <1>5, <1>6, <1>7, <1>8 DEF FilesInv

\* The RP executes a command: one case for each handler.
LEMMA ExecuteStep ==
    ASSUME FilesInv, Execute
    PROVE  FilesInv'
<1> DEFINE c == Head(wire).call
<1>1. /\ wire # <<>> /\ wire' = Tail(wire)
      /\ \/ c.op \in Openings /\ HandleOpen(c)
         \/ c.op = "Fclose" /\ HandleFcloseCall(c)
         \/ c.op = "Fread" /\ HandleOther
         \/ c.op = "Fsetdta" /\ HandleFsetdtaCall(c.dta)
         \/ c.op = "Fsfirst" /\ HandleFsfirstCall(c.dta)
         \/ c.op = "Fsnext" /\ HandleFsnextCall(c.dta)
         \/ c.op = "DtaRelease" /\ HandleDtaReleaseCall(c.dta)
      /\ UNCHANGED <<workload, held, pexec, unsure>>
  BY DEF Execute, Openings
<1>2. CASE c.op \in Openings
  BY <1>1, <1>2, OpenRuns DEF Openings
<1>3. CASE c.op = "Fclose"
  BY <1>1, <1>3, CloseRuns DEF Openings
<1>4. CASE c.op \notin Openings \cup {"Fclose"}
  <2>1. UNCHANGED <<fileTable, handleCell>>
    BY <1>1, <1>4 DEF HandleOther, sideRP, HandleFsetdtaCall, HandleFsfirstCall,
       HandleFsnextCall, HandleDtaReleaseCall
  <2>2. QED BY <1>1, <1>4, <2>1, HeadGoes
<1>5. QED BY <1>2, <1>3, <1>4

\* Nothing is open at first.
LEMMA FilesInitInv == TablesInit => FilesInv
<1> SUFFICES ASSUME TablesInit PROVE FilesInv
  OBVIOUS
<1>1. /\ caller = Idle /\ wire = <<>> /\ held = {} /\ pexec = NoPexec /\ unsure = FALSE
      /\ fileTable = [s \in Slots |-> FreeSlot] /\ handleCell = [c \in Openings |-> 0]
  BY DEF TablesInit, Openings
<1>2. ~Asked /\ DOMAIN wire = {} /\ HandlesHeld = {} /\ wire \in Seq(Bound)
  BY <1>1, IdleIs DEF Asked, HandlesHeld
<1>3. FileTypes
  BY <1>1, <1>2, IdleIs DEF FileTypes, NoPexec, PexecStates, FileSlot, Cells
<1>4. WireOrder
  BY <1>1, <1>2, IdleIs DEF WireOrder
<1>5. Workloads /\ PexecCell
  BY <1>1, <1>2, IdleIs DEF Workloads, PexecCell, PexecReadsOneOpen, NoPexec, Reading
<1>6. SlotsKnown /\ HeldMine
  BY <1>1, <1>2 DEF SlotsKnown, HeldMine, FreeSlot
<1>7. QED BY <1>3, <1>4, <1>5, <1>6 DEF FilesInv

\* One case for each step of the ST and of the RP.
LEMMA FilesStepInv == FilesInv /\ [TablesNext]_tablesVars => FilesInv'
<1> SUFFICES ASSUME FilesInv, [TablesNext]_tablesVars PROVE FilesInv'
  OBVIOUS
<1>1. CASE \E p \in Paths, w \in BOOLEAN, op \in {"Fopen", "Fcreate"} : CallFopen(p, w, op)
  BY <1>1, CallFopenStep DEF Openings
<1>2. CASE \E h \in held : CallFclose(h)
  BY <1>2, CallFcloseStep
<1>3. CASE TakeHandle
  BY <1>3, TakeHandleStep
<1>4. CASE TakeStatus \/ TakeEntry \/ Hello
  <2>1. /\ caller' = Idle
        /\ UNCHANGED <<workload, wire, held, pexec, fileTable, handleCell, unsure>>
        /\ \/ Done({"Fclose", "Fsetdta", "DtaRelease"}) /\ pexec.step = "none"
           \/ Done({"Fsfirst", "Fsnext"})
           \/ caller.pc = "booting"
    BY <1>4 DEF TakeStatus, TakeEntry, Hello, sideRP
  <2>2. QED BY <2>1, OtherOver DEF Done, Asked
<1>5. CASE \E p \in Paths : CallPexec(p)
  BY <1>5, CallPexecStep
<1>6. CASE PexecOpened \/ PexecRead \/ PexecHaveRead \/ PexecClose
  BY <1>6, PexecOpenedStep, PexecReadStep, PexecHaveReadStep, PexecCloseStep
<1>7. CASE \E d \in Dtas, op \in {"Fsetdta", "Fsfirst", "Fsnext"} : CallSearch(op, d)
  <2>1. PICK d \in Dtas, op \in {"Fsetdta", "Fsfirst", "Fsnext"} : CallSearch(op, d)
    BY <1>7
  <2> DEFINE c == [op |-> op, dta |-> d]
  <2>2. /\ Start(c) /\ c \in Calls /\ c.op \notin Openings \cup {"Fclose", "Fread"}
        /\ workload = "searches" /\ caller.pc = "idle"
        /\ UNCHANGED <<workload, held, pexec, fileTable, handleCell, unsure>>
    BY <2>1 DEF CallSearch, Calls, DtaCalls, Openings, sideRP
  <2>3. pexec.step = "none"
    BY <2>2 DEF FilesInv, Workloads
  <2> HIDE DEF c
  <2>4. QED BY <2>2, <2>3, OtherStarted DEF Asked
<1>8. CASE TakeMiss
  <2> DEFINE c == [op |-> "DtaRelease", dta |-> caller.call.dta]
  <2>1. /\ Start(c) /\ Done({"Fsfirst", "Fsnext"})
        /\ UNCHANGED <<workload, held, pexec, fileTable, handleCell, unsure>>
    BY <1>8 DEF TakeMiss, sideRP
  <2>2. Asked /\ caller.call \in Calls /\ caller.call.op \in {"Fsfirst", "Fsnext"}
    BY <2>1 DEF Done, Asked, FilesInv, WireOrder
  <2>3. c \in Calls /\ c.op \notin Openings \cup {"Fclose", "Fread"}
    <3>1. caller.call.dta \in Dtas
      BY <2>2, CallKinds
    <3>2. QED BY <3>1 DEF Calls, DtaCalls, Openings
  <2>4. pexec.step = "none" /\ caller.call.op \notin Openings \cup {"Fclose"}
    BY <2>2 DEF FilesInv, FileTypes, PexecStates, Workloads, Reading, Openings
  <2> HIDE DEF c
  <2>5. QED BY <2>1, <2>3, <2>4, OtherStarted
<1>9. CASE Resend \/ Answered \/ GivenUp
  BY <1>9, AnswerStep
<1>10. CASE ProgramEnds \/ ResetST
  BY <1>10, ForgetStep
<1>11. CASE Execute
  BY <1>11, ExecuteStep
<1>12. CASE Lose
  BY <1>12, HeadGoes DEF Lose, sideST, sideRP
<1>13. CASE RebootRP
  <2>1. /\ unsure' = TRUE /\ wire' = <<>>
        /\ fileTable' = [s \in Slots |-> FreeSlot] /\ handleCell' = [c \in Openings |-> 0]
        /\ UNCHANGED <<workload, caller, held, pexec>>
    BY <1>13 DEF RebootRP, sideST, Openings
  <2>2. DOMAIN wire' = {} /\ wire' \in Seq(Bound) /\ Asked' = Asked /\ Resent' = Resent
    BY <2>1 DEF Asked, Resent
  <2>3. FileTypes'
    BY <2>1, <2>2 DEF FilesInv, FileTypes, FileSlot, Cells
  <2>4. WireOrder'
    BY <2>1, <2>2 DEF FilesInv, WireOrder
  <2>5. Workloads' /\ SlotsKnown' /\ PexecCell' /\ HeldMine'
    BY <2>1, <2>2 DEF FilesInv, Workloads, SlotsKnown, PexecCell, PexecReadsOneOpen, HeldMine
  <2>6. QED BY <2>3, <2>4, <2>5 DEF FilesInv
<1>14. CASE UNCHANGED tablesVars
  <2>1. UNCHANGED <<workload, caller, wire, held, pexec, fileTable, handleCell, unsure>>
    BY <1>14 DEF tablesVars, sideST, sideRP
  <2>2. Asked' = Asked /\ Resent' = Resent /\ HandlesHeld' = HandlesHeld
    BY <2>1 DEF Asked, Resent, HandlesHeld
  <2>3. FileTypes' /\ WireOrder' /\ Workloads'
    BY <2>1, <2>2 DEF FilesInv, FileTypes, WireOrder, Workloads
  <2>4. SlotsKnown' /\ PexecCell' /\ HeldMine'
    BY <2>1, <2>2 DEF FilesInv, SlotsKnown, Owned, PexecCell, PexecReadsOneOpen, HeldMine, OpenOn
  <2>5. QED BY <2>3, <2>4 DEF FilesInv
<1>15. QED
  BY <1>1, <1>2, <1>3, <1>4, <1>5, <1>6, <1>7, <1>8, <1>9, <1>10, <1>11, <1>12, <1>13, <1>14
     DEF TablesNext

(* A handle the program holds is open on the file it was got for, and is    *)
(* nobody else's, however often calls were sent again and whatever other    *)
(* programs left behind, for tables of any size (.Fopen of gemdrive.s,      *)
(* handleFopenCall).                                                        *)
THEOREM HandleIsMineHolds == TablesSpec => []HandleIsMine
<1>1. FilesInv => HandleIsMine
  BY DEF FilesInv, HeldMine, OpenOn, HandleIsMine
<1>2. QED BY <1>1, FilesInitInv, FilesStepInv, PTL DEF TablesSpec

(* Every slot that is in use is accounted for: failed openings and failed   *)
(* closes leave none behind (handleFopenCall, handleFcloseCall).            *)
THEOREM LeakExplainedHolds == TablesSpec => []LeakExplained
<1>1. FilesInv => LeakExplained
  BY DEF FilesInv, SlotsKnown, Owned, Openings, LeakExplained
<1>2. QED BY <1>1, FilesInitInv, FilesStepInv, PTL DEF TablesSpec

(* Pexec reads a program through one opening, unless its Fopen was sent     *)
(* twice (.Pexec of gemdrive.s reads the handle cell again).                *)
THEOREM PexecReadsOneOpenHolds == TablesSpec => []PexecReadsOneOpen
<1>1. FilesInv => PexecReadsOneOpen
  BY DEF FilesInv, PexecCell
<1>2. QED BY <1>1, FilesInitInv, FilesStepInv, PTL DEF TablesSpec

----------------------------------------------------------------------------
(* The listings.                                                           *)

----------------------------------------------------------------------------
(* The DTA slots.                                                          *)

Stepping == {"Fsfirst", "Fsnext"}
DtaOps == {"Fsetdta", "Fsfirst", "Fsnext", "DtaRelease"}

DtaTypes ==
    /\ listing \in [Dtas -> 0..Entries]
    /\ dtaTable \in [DtaSlots -> DtaSlot]
    /\ dtaLruCounter \in 0..MaxStamp
    /\ dtaFound \in [why : {"found", "end", "error", "noSlot"}, entry : 0..Entries]
    /\ since \in [Dtas -> SUBSET Dtas] /\ skipped \subseteq Dtas
    /\ \A d \in Dtas : IsFiniteSet(since[d])

\* A DTA has one slot, and no slot is ahead of the counter.
SlotOrder ==
    /\ \A i, j \in DtaSlots :
          dtaTable[i].inUse /\ dtaTable[j].inUse /\ dtaTable[i].addr = dtaTable[j].addr => i = j
    /\ \A i \in DtaSlots : dtaTable[i].inUse => dtaTable[i].lruStamp <= dtaLruCounter

\* What the call under way says of the listing it steps.
Steps ==
    /\ Asked /\ caller.call.op \in Stepping /\ Resent => caller.call.dta \in skipped
    /\ Asked /\ caller.call.op = "Fsnext" => listing[caller.call.dta] > 0
    /\ Asked /\ caller.call.op = "DtaRelease" => listing[caller.call.dta] = 0

\* Slot i holds the search of d, at entry n.
Holds(d, i, n) ==
    /\ dtaTable[i].inUse /\ dtaTable[i].addr = d /\ dtaTable[i].hasDir
    /\ dtaTable[i].pos = n

\* The search of d stands where the program believes, and what was touched
\* after it is named in since[d]; or it was evicted, and since[d] is as large as
\* the table.
Kept(d) ==
    \/ \E i \in DtaSlots :
          /\ Holds(d, i, listing[d])
          /\ \A j \in DtaSlots \ {i} : dtaTable[j].inUse =>
                dtaTable[j].lruStamp < dtaTable[i].lruStamp \/ dtaTable[j].addr \in since[d]
    \/ ~Searching(d) /\ Cardinality(since[d]) >= MaxDtas

\* A frame that would move the search of d.
Moves(f, d) == f.call.op \in {"Fsfirst", "Fsnext", "DtaRelease"} /\ f.call.dta = d

InHand(d) ==
    /\ Asked /\ caller.call.op \in Stepping /\ caller.call.dta = d
    /\ caller.call.op = "Fsfirst" \/ caller.ran

Walking(d) == ~unsure /\ listing[d] > 0 /\ d \notin skipped /\ ~InHand(d)

\* A walk that goes on: nothing on its way moves its search but the call of
\* its own that has not run.
WalksOn ==
    \A d \in Dtas : Walking(d) =>
        /\ Kept(d)
        /\ \A i \in DOMAIN wire : Moves(wire[i], d) =>
              wire[i].current /\ Asked /\ caller.call.op = "Fsnext" /\ caller.call.dta = d

\* What the first run of a step of the walk has put into dtaFound.
Outcome ==
    ~unsure /\ Asked /\ caller.ran /\ caller.call.op \in Stepping
            /\ caller.call.dta \notin skipped =>
        LET d == caller.call.dta IN
        /\ dtaFound.why = "found" =>
              /\ dtaFound.entry = IF caller.call.op = "Fsfirst" THEN 1 ELSE listing[d] + 1
              /\ \E i \in DtaSlots :
                    /\ Holds(d, i, dtaFound.entry)
                    /\ \A j \in DtaSlots \ {i} : dtaTable[j].inUse =>
                          dtaTable[j].lruStamp < dtaTable[i].lruStamp
        /\ caller.call.op = "Fsnext" /\ dtaFound.why = "end" => listing[d] = Entries
        /\ caller.call.op = "Fsnext" /\ dtaFound.why = "noSlot" =>
              Cardinality(since[d]) >= MaxDtas

ListInv == FilesInv /\ DtaTypes /\ SlotOrder /\ Steps /\ WalksOn /\ Outcome

\* The slot touched longest ago exists.
LEMMA VictimIs ==
    ASSUME DtaTypes, FreeDtas = {}
    PROVE  /\ Victim \in DtaSlots
           /\ \A j \in DtaSlots : dtaTable[Victim].lruStamp <= dtaTable[j].lruStamp
<1> DEFINE stamp(i) == dtaTable[i].lruStamp
           stamps == {stamp(i) : i \in DtaSlots}
           oldest == {i \in DtaSlots : \A j \in DtaSlots : stamp(i) <= stamp(j)}
<1>1. \A i \in DtaSlots : stamp(i) \in Nat
  <2>1. SUFFICES ASSUME NEW i \in DtaSlots PROVE dtaTable[i].lruStamp \in Nat
    OBVIOUS
  <2>2. dtaTable[i].inUse /\ dtaTable[i] \in DtaSlot
    BY DEF DtaTypes, FreeDtas
  <2>3. dtaTable[i] # FreeSlot
    BY <2>2 DEF FreeSlot
  <2>4. dtaTable[i].lruStamp \in 0..MaxStamp
    BY <2>2, <2>3 DEF DtaSlot
  <2>5. QED BY <2>4
<1>2. 1 \in DtaSlots /\ DtaSlots \subseteq Nat
  BY TablesAssumption DEF DtaSlots
<1>3. stamps \subseteq Nat /\ stamps # {}
  BY <1>1, <1>2
<1>4. oldest # {}
  <2> HIDE DEF stamp
  <2> DEFINE least == Lowest(stamps)
  <2>1. least \in stamps /\ \A t \in stamps : least <= t
    <3> HIDE DEF stamps
    <3>1. QED BY <1>3, LeastIn
  <2>2. PICK i \in DtaSlots : least = stamp(i)
    BY <2>1
  <2> HIDE DEF least
  <2>3. i \in oldest
    BY <2>1, <2>2
  <2>4. QED BY <2>3
<1>5. oldest \subseteq Nat
  BY <1>2
<1> DEFINE v == Lowest(oldest)
<1>6. v \in oldest /\ \A j \in oldest : v <= j
  <2> HIDE DEF oldest
  <2>1. QED BY <1>4, <1>5, LeastIn
<1> HIDE DEF v
<1>7. ASSUME NEW j \in DtaSlots
      PROVE  stamp(v) < stamp(j) \/ (stamp(v) = stamp(j) /\ v <= j)
  <2>1. stamp(v) <= stamp(j) /\ v \in DtaSlots
    BY <1>6
  <2>2. ASSUME stamp(v) = stamp(j) PROVE v <= j
    <3>1. j \in oldest
      BY <1>6, <2>2
    <3>2. QED BY <1>6, <3>1
  <2>3. QED BY <1>1, <2>1, <2>2
<1>8. \E i \in DtaSlots : \A j \in DtaSlots :
         \/ dtaTable[i].lruStamp < dtaTable[j].lruStamp
         \/ dtaTable[i].lruStamp = dtaTable[j].lruStamp /\ i <= j
  BY <1>6, <1>7
<1>9. /\ Victim \in DtaSlots
      /\ \A j \in DtaSlots :
         \/ dtaTable[Victim].lruStamp < dtaTable[j].lruStamp
         \/ dtaTable[Victim].lruStamp = dtaTable[j].lruStamp /\ Victim <= j
  BY <1>8 DEF Victim
<1>10. \A j \in DtaSlots : stamp(Victim) <= stamp(j)
  BY <1>1, <1>9
<1>11. QED BY <1>9, <1>10

\* What a slot in use consists of.
LEMMA InUseIs ==
    ASSUME DtaTypes, NEW i \in DtaSlots, dtaTable[i].inUse
    PROVE  /\ dtaTable[i] \in [inUse : {TRUE}, addr : Dtas, hasDir : BOOLEAN,
                               pos : 0..Entries, lruStamp : 0..MaxStamp]
           /\ dtaTable[i].lruStamp \in Nat /\ dtaTable[i].addr \in Dtas
           /\ dtaTable[i].pos \in 0..Entries /\ dtaTable[i].hasDir \in BOOLEAN
<1>1. dtaTable[i] \in DtaSlot /\ dtaTable[i] # FreeSlot
  BY DEF DtaTypes, FreeSlot
<1>2. dtaTable[i] \in [inUse : {TRUE}, addr : Dtas, hasDir : BOOLEAN,
                      pos : 0..Entries, lruStamp : 0..MaxStamp]
  BY <1>1 DEF DtaSlot
<1>3. dtaTable[i].lruStamp \in 0..MaxStamp
  BY <1>2
<1>4. dtaTable[i].lruStamp \in Nat
  BY <1>3
<1>5. QED BY <1>2, <1>4

\* The slot that a DTA gets: its own, a free one, or the least recently used.
LEMMA SlotForIs ==
    ASSUME DtaTypes, SlotOrder, NEW d \in Dtas
    PROVE  /\ SlotFor(d) \in DtaSlots
           /\ SlotsOf(d) # {} => SlotsOf(d) = {SlotFor(d)}
           /\ SlotsOf(d) = {} /\ dtaTable[SlotFor(d)].inUse =>
                 FreeDtas = {} /\ \A j \in DtaSlots :
                     dtaTable[SlotFor(d)].lruStamp <= dtaTable[j].lruStamp
<1>1. DtaSlots \subseteq Nat /\ SlotsOf(d) \subseteq Nat /\ FreeDtas \subseteq Nat
  BY DEF DtaSlots, SlotsOf, FreeDtas
<1>2. CASE SlotsOf(d) # {}
  <2>1. Lowest(SlotsOf(d)) \in SlotsOf(d) /\ SlotFor(d) = Lowest(SlotsOf(d))
    BY <1>1, <1>2, LeastIn DEF SlotFor
  <2>2. QED BY <1>2, <2>1 DEF SlotsOf, SlotOrder
<1>3. CASE SlotsOf(d) = {} /\ FreeDtas # {}
  <2>1. Lowest(FreeDtas) \in FreeDtas /\ SlotFor(d) = Lowest(FreeDtas)
    BY <1>1, <1>3, LeastIn DEF SlotFor
  <2>2. QED BY <1>3, <2>1 DEF FreeDtas
<1>4. CASE SlotsOf(d) = {} /\ FreeDtas = {}
  <2>1. SlotFor(d) = Victim
    BY <1>4 DEF SlotFor
  <2>2. QED BY <1>4, <2>1, VictimIs
<1>5. QED BY <1>2, <1>3, <1>4

----------------------------------------------------------------------------
(* The handlers leave a walk in order.                                     *)

\* Another DTA is named, and the slot of x stays as it is.
LEMMA OtherNamed ==
    ASSUME DtaTypes, NEW x \in Dtas, NEW y \in Dtas, x # y, Kept(x),
           listing[x] > 0, listing' = listing, dtaTable' \in [DtaSlots -> DtaSlot],
           since'[x] = since[x] \cup {y},
           \A j \in DtaSlots : \/ dtaTable'[j] = dtaTable[j] \/ ~dtaTable'[j].inUse
                               \/ dtaTable'[j].addr = y,
           \A j \in SlotsOf(x) : dtaTable'[j] = dtaTable[j]
    PROVE  Kept(x)'
<1>1. CASE \E i \in DtaSlots :
              /\ Holds(x, i, listing[x])
              /\ \A j \in DtaSlots \ {i} : dtaTable[j].inUse =>
                    dtaTable[j].lruStamp < dtaTable[i].lruStamp \/ dtaTable[j].addr \in since[x]
  <2>1. PICK i \in DtaSlots :
              /\ Holds(x, i, listing[x])
              /\ \A j \in DtaSlots \ {i} : dtaTable[j].inUse =>
                    dtaTable[j].lruStamp < dtaTable[i].lruStamp \/ dtaTable[j].addr \in since[x]
    BY <1>1
  <2>2. dtaTable'[i] = dtaTable[i]
    BY <2>1 DEF Holds, SlotsOf
  <2>3. Holds(x, i, listing[x])'
    BY <2>1, <2>2 DEF Holds
  <2>4. ASSUME NEW j \in DtaSlots \ {i}, dtaTable'[j].inUse
        PROVE  dtaTable'[j].lruStamp < dtaTable'[i].lruStamp \/ dtaTable'[j].addr \in since'[x]
    BY <2>1, <2>2, <2>4
  <2>5. QED BY <2>3, <2>4 DEF Kept
<1>2. CASE ~Searching(x) /\ Cardinality(since[x]) >= MaxDtas
  <2>1. ~Searching(x)'
    BY <1>2 DEF Searching, SlotsOf
  <2>2. /\ IsFiniteSet(since[x]) /\ IsFiniteSet(since'[x])
        /\ Cardinality(since[x]) <= Cardinality(since'[x])
    <3>1. IsFiniteSet(since[x])
      BY DEF DtaTypes
    <3>2. IsFiniteSet(since'[x])
      BY <3>1, FS_AddElement
    <3>3. since[x] \subseteq since'[x]
      OBVIOUS
    <3>4. QED BY <3>1, <3>2, <3>3, FS_Subset
  <2>3. Cardinality(since'[x]) >= MaxDtas
    BY <1>2, <2>2, FS_CardinalityType, TablesAssumption
  <2>4. QED BY <2>1, <2>3 DEF Kept
<1>3. QED BY <1>1, <1>2 DEF Kept

\* The slot of x is evicted for y: as many others were named as the table has
\* slots.
LEMMA Evicted ==
    ASSUME DtaTypes, SlotOrder, NEW x \in Dtas, NEW y \in Dtas, x # y, Kept(x),
           since'[x] = since[x] \cup {y},
           NEW v \in DtaSlots, dtaTable[v].inUse, dtaTable[v].addr = x,
           SlotsOf(y) = {}, FreeDtas = {},
           \A j \in DtaSlots : dtaTable[v].lruStamp <= dtaTable[j].lruStamp
    PROVE  Searching(x) => Cardinality(since'[x]) >= MaxDtas
<1> SUFFICES ASSUME Searching(x) PROVE Cardinality(since'[x]) >= MaxDtas
  OBVIOUS
<1>1. PICK i \in DtaSlots :
              /\ Holds(x, i, listing[x])
              /\ \A j \in DtaSlots \ {i} : dtaTable[j].inUse =>
                    dtaTable[j].lruStamp < dtaTable[i].lruStamp \/ dtaTable[j].addr \in since[x]
  BY DEF Kept
<1>2. i = v
  BY <1>1 DEF Holds, SlotOrder
<1>3. ASSUME NEW j \in DtaSlots \ {v} PROVE dtaTable[j].inUse /\ dtaTable[j].addr \in since[x]
  <2>1. dtaTable[j].inUse
    BY DEF FreeDtas
  <2>2. dtaTable[j].lruStamp \in Nat /\ dtaTable[v].lruStamp \in Nat
    BY <2>1, InUseIs
  <2>3. dtaTable[v].lruStamp <= dtaTable[j].lruStamp
    OBVIOUS
  <2>4. ~(dtaTable[j].lruStamp < dtaTable[v].lruStamp)
    BY <2>2, <2>3
  <2>5. QED BY <1>1, <1>2, <2>1, <2>4
<1> DEFINE f == [j \in DtaSlots |-> IF j = v THEN y ELSE dtaTable[j].addr]
<1>4. f \in [DtaSlots -> since'[x]]
  BY <1>3
<1>5. ASSUME NEW j \in DtaSlots, NEW k \in DtaSlots, f[j] = f[k] PROVE j = k
  <2>1. \A l \in DtaSlots \ {v} : dtaTable[l].inUse /\ dtaTable[l].addr # y
    BY <1>3 DEF SlotsOf
  <2>2. QED BY <1>5, <2>1 DEF SlotOrder
<1>6. f \in Injection(DtaSlots, since'[x])
  BY <1>4, <1>5 DEF Injection, IsInjective
<1>7. IsFiniteSet(since'[x])
  BY FS_AddElement, SMTT(30) DEF DtaTypes
<1>8. Cardinality(DtaSlots) <= Cardinality(since'[x])
  <2> HIDE DEF f
  <2>1. QED BY <1>6, <1>7, FS_Injection
<1>9. Cardinality(DtaSlots) = MaxDtas
  <2>1. 1 \in Int /\ MaxDtas \in Int /\ MaxDtas \in Nat \ {0}
    BY TablesAssumption
  <2>2. Cardinality(1..MaxDtas) = IF 1 > MaxDtas THEN 0 ELSE MaxDtas - 1 + 1
    BY <2>1, FS_Interval
  <2>3. QED BY <2>1, <2>2 DEF DtaSlots
<1>10. Cardinality(since'[x]) \in Nat
  BY <1>7, FS_CardinalityType
<1>11. QED BY <1>8, <1>9, <1>10, TablesAssumption

\* The slot of x is touched, and nothing was named since.
LEMMA SelfTouched ==
    ASSUME DtaTypes, SlotOrder, NEW x \in Dtas, NEW n, NEW i \in DtaSlots,
           dtaTable' \in [DtaSlots -> DtaSlot], dtaTable'[i].inUse, dtaTable'[i].addr = x,
           dtaTable'[i].hasDir, dtaTable'[i].pos = n,
           dtaTable'[i].lruStamp = dtaLruCounter + 1,
           \A j \in DtaSlots \ {i} : dtaTable'[j].inUse => dtaTable'[j] = dtaTable[j]
    PROVE  /\ Holds(x, i, n)'
           /\ \A j \in DtaSlots \ {i} : dtaTable'[j].inUse =>
                 dtaTable'[j].lruStamp < dtaTable'[i].lruStamp
<1>1. ASSUME NEW j \in DtaSlots \ {i}, dtaTable'[j].inUse
      PROVE  dtaTable'[j].lruStamp < dtaTable'[i].lruStamp
  <2>1. dtaTable'[j] = dtaTable[j] /\ dtaTable[j].inUse
    BY <1>1
  <2>2. dtaTable[j].lruStamp \in Nat /\ dtaTable[j].lruStamp <= dtaLruCounter
    BY <2>1, InUseIs DEF SlotOrder
  <2>3. dtaLruCounter \in Nat
    BY TablesAssumption DEF DtaTypes
  <2>4. QED BY <2>1, <2>2, <2>3
<1>2. QED BY <1>1 DEF Holds

\* The table stays in order: each slot that changes is freed, or is the only one
\* of its DTA and stamped no later than the counter.
LEMMA OrderKept ==
    ASSUME DtaTypes, SlotOrder, NEW y \in Dtas, NEW i \in DtaSlots,
           dtaTable' \in [DtaSlots -> DtaSlot], dtaLruCounter' \in 0..MaxStamp,
           dtaLruCounter <= dtaLruCounter',
           \A j \in DtaSlots : j # i => dtaTable'[j] = dtaTable[j],
           dtaTable'[i].inUse => /\ dtaTable'[i].addr = y /\ SlotsOf(y) \subseteq {i}
                                 /\ dtaTable'[i].lruStamp <= dtaLruCounter'
    PROVE  SlotOrder'
<1>1. ASSUME NEW j \in DtaSlots, NEW k \in DtaSlots, dtaTable'[j].inUse, dtaTable'[k].inUse,
             dtaTable'[j].addr = dtaTable'[k].addr
      PROVE  j = k
  <2>1. CASE j # i /\ k # i
    BY <1>1, <2>1 DEF SlotOrder
  <2>2. CASE j = i
    BY <1>1, <2>2 DEF SlotsOf
  <2>3. CASE k = i
    BY <1>1, <2>3 DEF SlotsOf
  <2>4. QED BY <2>1, <2>2, <2>3
<1>2. ASSUME NEW j \in DtaSlots, dtaTable'[j].inUse
      PROVE  dtaTable'[j].lruStamp <= dtaLruCounter'
  <2>1. CASE j # i
    <3>1. dtaTable'[j] = dtaTable[j] /\ dtaTable[j].inUse
      BY <1>2, <2>1
    <3>2. dtaTable[j].lruStamp \in Nat /\ dtaTable[j].lruStamp <= dtaLruCounter
      BY <3>1, InUseIs DEF SlotOrder
    <3>3. dtaLruCounter \in Nat /\ dtaLruCounter' \in Nat
      BY TablesAssumption DEF DtaTypes
    <3>4. QED BY <3>1, <3>2, <3>3
  <2>2. CASE j = i
    BY <1>2, <2>2
  <2>3. QED BY <2>1, <2>2
<1>3. QED BY <1>1, <1>2 DEF SlotOrder

\* What a handler does to the table of the DTA y that it is called for: at most
\* one slot changes, which is freed or is the only one of y.
Handled(y, i) ==
    /\ dtaTable' \in [DtaSlots -> DtaSlot]
    /\ dtaLruCounter' \in 0..MaxStamp /\ dtaLruCounter <= dtaLruCounter'
    /\ \A j \in DtaSlots : j # i => dtaTable'[j] = dtaTable[j]
    /\ SlotsOf(y) \subseteq {i}
    /\ dtaTable'[i].inUse =>
          dtaTable'[i].addr = y /\ dtaTable'[i].lruStamp <= dtaLruCounter'

\* A slot that is taken over was of y, free, or the one touched longest ago.
TakenOver(y, i) ==
    dtaTable[i].inUse =>
        \/ dtaTable[i].addr = y
        \/ /\ SlotsOf(y) = {} /\ FreeDtas = {}
           /\ \A j \in DtaSlots : dtaTable[i].lruStamp <= dtaTable[j].lruStamp

\* Any walk but that of y goes on.
LEMMA OtherHandled ==
    ASSUME DtaTypes, SlotOrder, NEW x \in Dtas, NEW y \in Dtas, x # y, Kept(x),
           listing[x] > 0, listing' = listing, since'[x] = since[x] \cup {y},
           NEW i \in DtaSlots, Handled(y, i), TakenOver(y, i)
    PROVE  Kept(x)'
<1>1. CASE dtaTable[i].inUse /\ dtaTable[i].addr = x
  <2>1. /\ SlotsOf(y) = {} /\ FreeDtas = {}
        /\ \A j \in DtaSlots : dtaTable[i].lruStamp <= dtaTable[j].lruStamp
    BY <1>1 DEF TakenOver
  <2>2. ~Searching(x)'
    BY <1>1 DEF Searching, SlotsOf, Handled, SlotOrder
  <2>3. CASE Searching(x)
    BY <1>1, <2>1, <2>2, <2>3, Evicted DEF Kept
  <2>4. CASE ~Searching(x)
    <3>1. ~(\E k \in DtaSlots : Holds(x, k, listing[x]))
      BY <2>4 DEF Searching, SlotsOf, Holds
    <3>2. Cardinality(since[x]) >= MaxDtas
      BY <3>1 DEF Kept
    <3>3. IsFiniteSet(since[x]) /\ IsFiniteSet(since'[x]) /\ since[x] \subseteq since'[x]
      BY FS_AddElement, SMTT(30) DEF DtaTypes
    <3>4. Cardinality(since[x]) <= Cardinality(since'[x])
      BY <3>3, FS_Subset
    <3>5. Cardinality(since'[x]) >= MaxDtas
      BY <3>2, <3>3, <3>4, FS_CardinalityType, TablesAssumption
    <3>6. QED BY <2>2, <3>5 DEF Kept
  <2>5. QED BY <2>3, <2>4
<1>2. CASE ~(dtaTable[i].inUse /\ dtaTable[i].addr = x)
  <2>1. \A j \in SlotsOf(x) : dtaTable'[j] = dtaTable[j]
    BY <1>2 DEF SlotsOf, Handled
  <2>2. \A j \in DtaSlots : \/ dtaTable'[j] = dtaTable[j] \/ ~dtaTable'[j].inUse
                            \/ dtaTable'[j].addr = y
    BY DEF Handled
  <2>3. QED BY <2>1, <2>2, OtherNamed DEF Handled
<1>3. QED BY <1>1, <1>2

\* What a handler called for y leaves of the table.
Served(y) ==
    \/ UNCHANGED <<dtaTable, dtaLruCounter>>
    \/ \E i \in DtaSlots : Handled(y, i) /\ TakenOver(y, i)

\* What a command for one DTA adds to the record of the others.
LEMMA NamedIs ==
    ASSUME DtaTypes, NEW d \in Dtas, NEW found \in BOOLEAN, Named(d, found)
    PROVE  /\ since' \in [Dtas -> SUBSET Dtas] /\ \A x \in Dtas : IsFiniteSet(since'[x])
           /\ \A x \in Dtas : x # d /\ listing[x] > 0 => since'[x] = since[x] \cup {d}
           /\ since'[d] = IF found THEN {} ELSE since[d]
<1>1. \A x \in Dtas : since'[x] = IF x = d THEN (IF found THEN {} ELSE since[x])
                                  ELSE IF listing[x] > 0 THEN since[x] \cup {d} ELSE {}
  BY DEF Named
<1>2. ASSUME NEW x \in Dtas PROVE since'[x] \in SUBSET Dtas /\ IsFiniteSet(since'[x])
  <2>1. IsFiniteSet(since[x]) /\ IsFiniteSet(since[x] \cup {d}) /\ IsFiniteSet({})
    BY FS_AddElement, FS_EmptySet DEF DtaTypes
  <2>2. since[x] \in SUBSET Dtas
    BY DEF DtaTypes
  <2>3. QED BY <1>1, <2>1, <2>2
<1>3. since' \in [Dtas -> SUBSET Dtas]
  BY <1>2 DEF Named
<1>4. QED BY <1>1, <1>2, <1>3

\* A command for a DTA keeps the table in order.
LEMMA ServedKeeps ==
    ASSUME DtaTypes, SlotOrder, NEW y \in Dtas, Served(y), listing' = listing
    PROVE  /\ dtaTable' \in [DtaSlots -> DtaSlot] /\ dtaLruCounter' \in 0..MaxStamp
           /\ SlotOrder'
           /\ \A x \in Dtas : x # y /\ Kept(x) /\ listing[x] > 0
                              /\ since'[x] = since[x] \cup {y} => Kept(x)'
<1>1. CASE UNCHANGED <<dtaTable, dtaLruCounter>>
  <2>1. ASSUME NEW x \in Dtas, x # y, Kept(x), listing[x] > 0, since'[x] = since[x] \cup {y}
        PROVE  Kept(x)'
    BY <1>1, <2>1, OtherNamed DEF DtaTypes
  <2>2. QED BY <1>1, <2>1 DEF DtaTypes, SlotOrder
<1>2. CASE \E i \in DtaSlots : Handled(y, i) /\ TakenOver(y, i)
  <2>1. PICK i \in DtaSlots : Handled(y, i) /\ TakenOver(y, i)
    BY <1>2
  <2>2. SlotOrder'
    BY <2>1, OrderKept DEF Handled
  <2>3. QED BY <2>1, <2>2, OtherHandled DEF Handled
<1>3. QED BY <1>1, <1>2 DEF Served

\* The counter of the table goes up.
LEMMA Touched ==
    ASSUME DtaTypes, Touch
    PROVE  /\ dtaLruCounter' = dtaLruCounter + 1 /\ dtaLruCounter' \in 0..MaxStamp
           /\ dtaLruCounter <= dtaLruCounter' /\ dtaLruCounter \in Nat
BY TablesAssumption DEF DtaTypes, Touch

\* A DTA has no second slot.
LEMMA OneSlot ==
    ASSUME DtaTypes, SlotOrder, NEW d \in Dtas, NEW i \in SlotsOf(d)
    PROVE  i \in DtaSlots /\ SlotsOf(d) = {i} /\ dtaTable[i].inUse /\ dtaTable[i].addr = d
BY DEF SlotsOf, SlotOrder

\* Without a search, what is left of Kept is the eviction.
LEMMA KeptBy ==
    ASSUME DtaTypes, SlotOrder, NEW d \in Dtas, Kept(d)
    PROVE  /\ ~Searching(d) => Cardinality(since[d]) >= MaxDtas
           /\ \A i \in SlotsOf(d) : dtaTable[i].hasDir => dtaTable[i].pos = listing[d]
BY DEF Kept, Searching, SlotsOf, Holds, SlotOrder

\* Fsetdta is such a command.
LEMMA FsetdtaServes ==
    ASSUME DtaTypes, SlotOrder, NEW d \in Dtas, HandleFsetdtaCall(d), listing' = listing
    PROVE  Served(d) /\ (Kept(d) => Kept(d)')
<1>1. CASE SlotsOf(d) # {}
  <2>1. PICK i : i \in SlotsOf(d)
    BY <1>1
  <2>2. i \in DtaSlots /\ SlotsOf(d) = {i} /\ dtaTable[i].inUse /\ dtaTable[i].addr = d
    BY <2>1, OneSlot
  <2>3. /\ Touch /\ Named(d, Searching(d))
        /\ dtaTable' = [j \in DtaSlots |->
                    IF j \in SlotsOf(d) THEN [dtaTable[j] EXCEPT !.lruStamp = dtaLruCounter']
                    ELSE dtaTable[j]]
    BY <1>1 DEF HandleFsetdtaCall
  <2>4. /\ dtaLruCounter' = dtaLruCounter + 1 /\ dtaLruCounter' \in 0..MaxStamp
        /\ dtaLruCounter <= dtaLruCounter'
    BY <2>3, Touched
  <2>5. dtaTable'[i] = [dtaTable[i] EXCEPT !.lruStamp = dtaLruCounter']
        /\ \A j \in DtaSlots : j # i => dtaTable'[j] = dtaTable[j]
    BY <2>2, <2>3
  <2>6. dtaTable[i] \in [inUse : {TRUE}, addr : Dtas, hasDir : BOOLEAN,
                         pos : 0..Entries, lruStamp : 0..MaxStamp]
    BY <2>2, InUseIs
  <2>7. /\ dtaTable'[i] \in [inUse : {TRUE}, addr : Dtas, hasDir : BOOLEAN,
                             pos : 0..Entries, lruStamp : 0..MaxStamp]
        /\ dtaTable'[i].lruStamp = dtaLruCounter' /\ dtaTable'[i].inUse
        /\ dtaTable'[i].addr = d /\ dtaTable'[i].hasDir = dtaTable[i].hasDir
        /\ dtaTable'[i].pos = dtaTable[i].pos
    BY <2>2, <2>4, <2>5, <2>6, ZenonT(30)
  <2>8. dtaTable' \in [DtaSlots -> DtaSlot]
    <3>1. \A j \in DtaSlots : dtaTable'[j] \in DtaSlot
      BY <2>5, <2>7 DEF DtaTypes, DtaSlot
    <3>2. QED BY <2>3, <3>1
  <2>9. Handled(d, i) /\ TakenOver(d, i)
    BY <2>2, <2>4, <2>5, <2>7, <2>8 DEF Handled, TakenOver
  <2>10. ASSUME Kept(d) PROVE Kept(d)'
    <3>1. CASE dtaTable[i].hasDir
      <4>1. dtaTable[i].pos = listing[d]
        BY <2>1, <2>10, <3>1, KeptBy
      <4>2. /\ Holds(d, i, listing[d])'
            /\ \A j \in DtaSlots \ {i} : dtaTable'[j].inUse =>
                  dtaTable'[j].lruStamp < dtaTable'[i].lruStamp
        <5> DEFINE n == listing[d]
        <5>1. Holds(d, i, n)' /\ n' = n
              /\ \A j \in DtaSlots \ {i} : dtaTable'[j].inUse =>
                    dtaTable'[j].lruStamp < dtaTable'[i].lruStamp
          <6>1. n' = n /\ dtaTable[i].pos = n
            BY <4>1
          <6> HIDE DEF n
          <6>2. dtaTable'[i].hasDir /\ dtaTable'[i].pos = n
                /\ dtaTable'[i].lruStamp = dtaLruCounter + 1
            BY <2>4, <2>7, <3>1, <6>1
          <6>3. \A j \in DtaSlots \ {i} : dtaTable'[j].inUse => dtaTable'[j] = dtaTable[j]
            BY <2>5
          <6>4. /\ \A j \in DtaSlots \ {i} : dtaTable'[j].inUse =>
                      dtaTable'[j].lruStamp < dtaTable'[i].lruStamp
            BY <2>2, <2>7, <2>8, <6>2, <6>3, SelfTouched
          <6>5. QED BY <2>7, <6>1, <6>2, <6>4 DEF Holds
        <5>2. QED BY <5>1
      <4>3. QED BY <2>2, <4>2 DEF Kept
    <3>2. CASE ~dtaTable[i].hasDir
      <4>1. ~Searching(d) /\ Cardinality(since[d]) >= MaxDtas
        BY <2>2, <2>10, <3>2, KeptBy DEF Searching
      <4>2. ~Searching(d)'
        BY <2>2, <2>5, <2>7, <3>2 DEF Searching, SlotsOf
      <4>3. since'[d] = since[d]
        BY <2>3, <4>1, NamedIs DEF Searching
      <4>4. QED BY <4>1, <4>2, <4>3 DEF Kept
    <3>3. QED BY <3>1, <3>2
  <2>11. QED BY <2>2, <2>9, <2>10 DEF Served
<1>2. CASE SlotsOf(d) = {} /\ FreeDtas # {}
  <2> DEFINE i == Lowest(FreeDtas)
             r == [inUse |-> TRUE, addr |-> d, hasDir |-> FALSE, pos |-> 0, lruStamp |-> 0]
  <2>1. i \in FreeDtas
    BY <1>2, LeastIn DEF FreeDtas, DtaSlots
  <2>2. dtaTable' = [dtaTable EXCEPT ![i] = r] /\ dtaLruCounter' = dtaLruCounter
        /\ Named(d, Searching(d))
    BY <1>2 DEF HandleFsetdtaCall
  <2>3. r \in DtaSlot /\ 0 <= dtaLruCounter
    BY TablesAssumption DEF DtaSlot, DtaTypes
  <2>4. i \in DtaSlots /\ ~dtaTable[i].inUse
    BY <2>1 DEF FreeDtas
  <2>5. /\ r.inUse /\ r.addr = d /\ r.lruStamp = 0 /\ ~r.hasDir
    OBVIOUS
  <2> HIDE DEF i, r
  <2>6. /\ dtaTable' \in [DtaSlots -> DtaSlot] /\ dtaTable'[i] = r
        /\ \A j \in DtaSlots : j # i => dtaTable'[j] = dtaTable[j]
    BY <2>2, <2>3, <2>4 DEF DtaTypes
  <2>7. dtaLruCounter \in 0..MaxStamp /\ dtaLruCounter \in Nat
    BY TablesAssumption DEF DtaTypes
  <2>8. Handled(d, i) /\ TakenOver(d, i)
    BY <1>2, <2>2, <2>3, <2>4, <2>5, <2>6, <2>7 DEF Handled, TakenOver
  <2>9. ASSUME Kept(d) PROVE Kept(d)'
    <3>1. ~Searching(d) /\ Cardinality(since[d]) >= MaxDtas
      BY <1>2, <2>9, KeptBy DEF Searching
    <3>2. ~Searching(d)'
      BY <1>2, <2>5, <2>6 DEF Searching, SlotsOf
    <3>3. since'[d] = since[d]
      BY <2>2, <3>1, NamedIs DEF Searching
    <3>4. QED BY <3>1, <3>2, <3>3 DEF Kept
  <2>10. QED BY <2>4, <2>8, <2>9 DEF Served
<1>3. CASE SlotsOf(d) = {} /\ FreeDtas = {}
  <2>1. UNCHANGED <<dtaTable, dtaLruCounter>> /\ Named(d, Searching(d))
    BY <1>3 DEF HandleFsetdtaCall
  <2>2. ASSUME Kept(d) PROVE Kept(d)'
    <3>1. ~Searching(d) /\ Cardinality(since[d]) >= MaxDtas
      BY <1>3, <2>2, KeptBy DEF Searching
    <3>2. ~Searching(d)'
      BY <2>1, <3>1 DEF Searching, SlotsOf
    <3>3. since'[d] = since[d]
      BY <2>1, <3>1, NamedIs DEF Searching
    <3>4. QED BY <3>1, <3>2, <3>3 DEF Kept
  <2>3. QED BY <2>1, <2>2 DEF Served
<1>4. QED BY <1>1, <1>2, <1>3

\* What the first match of a search looks like afterwards.
Newest(d, n) ==
    \E i \in DtaSlots :
        /\ Holds(d, i, n)
        /\ \A j \in DtaSlots \ {i} : dtaTable[j].inUse =>
              dtaTable[j].lruStamp < dtaTable[i].lruStamp

\* Fsfirst is such a command.
LEMMA FsfirstServes ==
    ASSUME DtaTypes, SlotOrder, NEW d \in Dtas, HandleFsfirstCall(d)
    PROVE  /\ Served(d) /\ Named(d, TRUE)
           /\ dtaFound' \in [why : {"found", "end", "error", "noSlot"}, entry : 0..Entries]
           /\ dtaFound'.why = "found" => dtaFound'.entry = 1 /\ Newest(d, 1)'
<1>0. PICK i \in DtaSlots : i = SlotFor(d)
  BY SlotForIs
<1> DEFINE r == [inUse |-> TRUE, addr |-> d, hasDir |-> TRUE, pos |-> 1,
                 lruStamp |-> dtaLruCounter']
<1>1. /\ i \in DtaSlots
      /\ SlotsOf(d) # {} => SlotsOf(d) = {i}
      /\ SlotsOf(d) = {} /\ dtaTable[i].inUse =>
             FreeDtas = {} /\ \A j \in DtaSlots : dtaTable[i].lruStamp <= dtaTable[j].lruStamp
  BY <1>0, SlotForIs
<1>2. /\ Touch /\ Named(d, TRUE)
      /\ \/ dtaTable' = [dtaTable EXCEPT ![i] = r] /\ dtaFound' = [why |-> "found", entry |-> 1]
         \/ dtaTable' = [dtaTable EXCEPT ![i] = FreeSlot]
            /\ dtaFound' = [dtaFound EXCEPT !.why = "error"]
  BY <1>0 DEF HandleFsfirstCall
<1>3. /\ dtaLruCounter' = dtaLruCounter + 1 /\ dtaLruCounter' \in 0..MaxStamp
      /\ dtaLruCounter <= dtaLruCounter'
  BY <1>2, Touched
<1>4. /\ r \in DtaSlot /\ r.inUse /\ r.addr = d /\ r.hasDir /\ r.pos = 1
      /\ r.lruStamp = dtaLruCounter' /\ 1 \in 0..Entries
  BY <1>3, TablesAssumption DEF DtaSlot
<1>5. FreeSlot \in DtaSlot /\ ~FreeSlot.inUse
  BY DEF DtaSlot, FreeSlot
<1>6. TakenOver(d, i)
  <2>1. ASSUME dtaTable[i].inUse, SlotsOf(d) # {} PROVE dtaTable[i].addr = d
    BY <1>1, <2>1, OneSlot
  <2>2. QED BY <1>1, <2>1 DEF TakenOver
<1> HIDE DEF r
<1>7. CASE dtaTable' = [dtaTable EXCEPT ![i] = r] /\ dtaFound' = [why |-> "found", entry |-> 1]
  <2>1. /\ dtaTable' \in [DtaSlots -> DtaSlot] /\ dtaTable'[i] = r
        /\ \A j \in DtaSlots : j # i => dtaTable'[j] = dtaTable[j]
    BY <1>1, <1>4, <1>7 DEF DtaTypes
  <2>2. SlotsOf(d) \subseteq {i} /\ dtaLruCounter' <= dtaLruCounter'
    BY <1>1, <1>3
  <2>3. Handled(d, i)
    BY <1>3, <1>4, <2>1, <2>2 DEF Handled
  <2>4. /\ Holds(d, i, 1)'
        /\ \A j \in DtaSlots \ {i} : dtaTable'[j].inUse =>
              dtaTable'[j].lruStamp < dtaTable'[i].lruStamp
    BY <1>1, <1>3, <1>4, <2>1, SelfTouched
  <2>5. Newest(d, 1)'
    BY <1>1, <2>4 DEF Newest
  <2>6. dtaFound' \in [why : {"found", "end", "error", "noSlot"}, entry : 0..Entries]
        /\ dtaFound'.entry = 1
    BY <1>4, <1>7
  <2>7. QED BY <1>1, <1>2, <1>6, <2>3, <2>5, <2>6 DEF Served
<1>8. CASE dtaTable' = [dtaTable EXCEPT ![i] = FreeSlot]
           /\ dtaFound' = [dtaFound EXCEPT !.why = "error"]
  <2>1. /\ dtaTable' \in [DtaSlots -> DtaSlot] /\ dtaTable'[i] = FreeSlot
        /\ \A j \in DtaSlots : j # i => dtaTable'[j] = dtaTable[j]
    BY <1>1, <1>5, <1>8 DEF DtaTypes
  <2>2. SlotsOf(d) \subseteq {i}
    BY <1>1
  <2>3. Handled(d, i)
    BY <1>3, <1>5, <2>1, <2>2 DEF Handled
  <2>4. dtaFound' \in [why : {"found", "end", "error", "noSlot"}, entry : 0..Entries]
        /\ dtaFound'.why = "error"
    BY <1>8 DEF DtaTypes
  <2>5. QED BY <1>1, <1>2, <1>6, <2>3, <2>4 DEF Served
<1>9. QED BY <1>2, <1>7, <1>8

\* Fsnext is such a command.
LEMMA FsnextServes ==
    ASSUME DtaTypes, SlotOrder, NEW d \in Dtas, HandleFsnextCall(d)
    PROVE  /\ Served(d) /\ Named(d, Searching(d))
           /\ dtaFound' \in [why : {"found", "end", "error", "noSlot"}, entry : 0..Entries]
           /\ Kept(d) /\ listing' = listing =>
                 /\ dtaFound'.why = "found" =>
                       dtaFound'.entry = listing[d] + 1 /\ Newest(d, listing[d] + 1)'
                 /\ dtaFound'.why = "end" => listing[d] = Entries
                 /\ dtaFound'.why = "noSlot" => Cardinality(since'[d]) >= MaxDtas
<1> DEFINE Founds == [why : {"found", "end", "error", "noSlot"}, entry : 0..Entries]
<1>1. dtaFound \in Founds /\ Named(d, Searching(d))
  BY DEF DtaTypes, HandleFsnextCall
<1>2. ASSUME Kept(d), ~Searching(d) PROVE Cardinality(since'[d]) >= MaxDtas
  <2>1. since'[d] = since[d]
    BY <1>1, <1>2, NamedIs DEF Searching
  <2>2. QED BY <1>2, <2>1, KeptBy
<1>3. CASE /\ SlotsOf(d) = {}
           /\ dtaFound' = [dtaFound EXCEPT !.why = "noSlot"]
           /\ UNCHANGED <<dtaTable, dtaLruCounter>>
  <2>1. dtaFound' \in Founds /\ dtaFound'.why = "noSlot"
    BY <1>1, <1>3
  <2>2. ~Searching(d)
    BY <1>3 DEF Searching
  <2>3. QED BY <1>1, <1>2, <1>3, <2>1, <2>2 DEF Served
<1>4. ASSUME NEW i \in SlotsOf(d), Touch,
             \/ /\ dtaTable[i].hasDir /\ dtaTable[i].pos < Entries
                /\ dtaTable' = [dtaTable EXCEPT ![i].pos = @ + 1,
                                                ![i].lruStamp = dtaLruCounter']
                /\ dtaFound' = [why |-> "found", entry |-> dtaTable[i].pos + 1]
             \/ /\ dtaTable[i].hasDir /\ dtaTable[i].pos = Entries
                /\ dtaTable' = [dtaTable EXCEPT ![i] = FreeSlot]
                /\ dtaFound' = [dtaFound EXCEPT !.why = "end"]
             \/ /\ dtaTable' = [dtaTable EXCEPT ![i] = FreeSlot]
                /\ dtaFound' = [dtaFound EXCEPT !.why =
                                    IF dtaTable[i].hasDir THEN "error" ELSE "noSlot"]
      PROVE  /\ Served(d) /\ dtaFound' \in Founds
             /\ Kept(d) /\ listing' = listing =>
                   /\ dtaFound'.why = "found" =>
                         dtaFound'.entry = listing[d] + 1 /\ Newest(d, listing[d] + 1)'
                   /\ dtaFound'.why = "end" => listing[d] = Entries
                   /\ dtaFound'.why = "noSlot" => Cardinality(since'[d]) >= MaxDtas
  <2>1. i \in DtaSlots /\ SlotsOf(d) = {i} /\ dtaTable[i].inUse /\ dtaTable[i].addr = d
    BY <1>4, OneSlot
  <2>2. dtaTable[i] \in [inUse : {TRUE}, addr : Dtas, hasDir : BOOLEAN,
                         pos : 0..Entries, lruStamp : 0..MaxStamp]
        /\ dtaTable[i].pos \in 0..Entries
    BY <2>1, InUseIs
  <2>3. /\ dtaLruCounter' = dtaLruCounter + 1 /\ dtaLruCounter' \in 0..MaxStamp
        /\ dtaLruCounter <= dtaLruCounter' /\ dtaLruCounter' <= dtaLruCounter'
    BY <1>4, Touched
  <2>4. TakenOver(d, i)
    BY <2>1 DEF TakenOver
  <2>5. Kept(d) /\ dtaTable[i].hasDir => dtaTable[i].pos = listing[d]
    BY <2>1, KeptBy
  <2>6. Searching(d) <=> dtaTable[i].hasDir
    BY <2>1 DEF Searching
  <2>7. FreeSlot \in DtaSlot /\ ~FreeSlot.inUse
    BY DEF DtaSlot, FreeSlot
  <2>8. ASSUME dtaTable' = [dtaTable EXCEPT ![i] = FreeSlot] PROVE Served(d)
    <3>1. /\ dtaTable' \in [DtaSlots -> DtaSlot] /\ dtaTable'[i] = FreeSlot
          /\ \A j \in DtaSlots : j # i => dtaTable'[j] = dtaTable[j]
      BY <2>1, <2>7, <2>8 DEF DtaTypes
    <3>2. Handled(d, i)
      BY <2>1, <2>3, <2>7, <3>1 DEF Handled
    <3>3. QED BY <2>1, <2>4, <3>2 DEF Served
  <2>9. CASE /\ dtaTable[i].hasDir /\ dtaTable[i].pos < Entries
             /\ dtaTable' = [dtaTable EXCEPT ![i].pos = @ + 1,
                                             ![i].lruStamp = dtaLruCounter']
             /\ dtaFound' = [why |-> "found", entry |-> dtaTable[i].pos + 1]
    <3>0. PICK n \in 0..Entries : n = dtaTable[i].pos + 1
      <4>1. dtaTable[i].pos + 1 \in 0..Entries
        BY <2>2, <2>9, TablesAssumption
      <4>2. QED BY <4>1
    <3> DEFINE r == [dtaTable[i] EXCEPT !.pos = n, !.lruStamp = dtaLruCounter']
    <3>1. n \in 0..Entries
      OBVIOUS
    <3>2. dtaTable' = [dtaTable EXCEPT ![i] = r]
      BY <2>1, <2>9, <3>0 DEF DtaTypes
    <3>3. dtaFound' = [why |-> "found", entry |-> n]
      BY <2>9, <3>0
    <3>4. /\ r \in [inUse : {TRUE}, addr : Dtas, hasDir : BOOLEAN,
                    pos : 0..Entries, lruStamp : 0..MaxStamp]
          /\ r.inUse /\ r.addr = d /\ r.hasDir = dtaTable[i].hasDir /\ r.pos = n
          /\ r.lruStamp = dtaLruCounter'
      BY <2>1, <2>2, <2>3, <3>1
    <3> HIDE DEF r
    <3>5. /\ dtaTable' \in [DtaSlots -> DtaSlot] /\ dtaTable'[i] = r
          /\ \A j \in DtaSlots : j # i => dtaTable'[j] = dtaTable[j]
      BY <2>1, <3>2, <3>4 DEF DtaTypes, DtaSlot
    <3>6. Handled(d, i)
      BY <2>1, <2>3, <3>4, <3>5 DEF Handled
    <3>7. Served(d)
      BY <2>1, <2>4, <3>6 DEF Served
    <3>8. /\ Holds(d, i, n)'
          /\ \A j \in DtaSlots \ {i} : dtaTable'[j].inUse =>
                dtaTable'[j].lruStamp < dtaTable'[i].lruStamp
      <4>1. dtaTable'[i].hasDir
        BY <2>9, <3>4, <3>5
      <4>2. /\ \A j \in DtaSlots \ {i} : dtaTable'[j].inUse => dtaTable'[j] = dtaTable[j]
            /\ dtaTable'[i].inUse /\ dtaTable'[i].addr = d /\ dtaTable'[i].pos = n
            /\ dtaTable'[i].lruStamp = dtaLruCounter + 1
        BY <2>3, <3>4, <3>5
      <4>3. \A j \in DtaSlots \ {i} : dtaTable'[j].inUse =>
               dtaTable'[j].lruStamp < dtaTable'[i].lruStamp
        BY <2>1, <3>5, <4>1, <4>2, SelfTouched
      <4>4. QED BY <4>1, <4>2, <4>3 DEF Holds
    <3>9. dtaFound' \in Founds /\ dtaFound'.why = "found" /\ dtaFound'.entry = n
      BY <3>1, <3>3
    <3>10. ASSUME Kept(d), listing' = listing
           PROVE  n = listing[d] + 1 /\ Newest(d, listing[d] + 1)'
      <4>1. n = listing[d] + 1
        BY <2>5, <2>9, <3>0, <3>10
      <4>2. QED BY <2>1, <3>8, <3>10, <4>1 DEF Newest, Holds
    <3>11. QED BY <3>7, <3>9, <3>10
  <2>10. CASE /\ dtaTable[i].hasDir /\ dtaTable[i].pos = Entries
              /\ dtaTable' = [dtaTable EXCEPT ![i] = FreeSlot]
              /\ dtaFound' = [dtaFound EXCEPT !.why = "end"]
    <3>1. dtaFound' \in Founds /\ dtaFound'.why = "end"
      BY <1>1, <2>10
    <3>2. QED BY <2>5, <2>8, <2>10, <3>1
  <2>11. CASE /\ dtaTable' = [dtaTable EXCEPT ![i] = FreeSlot]
              /\ dtaFound' = [dtaFound EXCEPT !.why =
                                  IF dtaTable[i].hasDir THEN "error" ELSE "noSlot"]
    <3>1. /\ dtaFound' \in Founds /\ dtaFound'.why \in {"error", "noSlot"}
          /\ dtaFound'.why = "noSlot" => ~dtaTable[i].hasDir
      BY <1>1, <2>11
    <3>2. Served(d)
      BY <2>8, <2>11
    <3>3. ASSUME Kept(d), dtaFound'.why = "noSlot" PROVE Cardinality(since'[d]) >= MaxDtas
      BY <1>2, <2>6, <3>1, <3>3
    <3>4. QED BY <3>1, <3>2, <3>3
  <2>12. QED BY <1>4, <2>9, <2>10, <2>11
<1>5. QED BY <1>1, <1>3, <1>4 DEF HandleFsnextCall

\* The release of a DTA is such a command.
LEMMA ReleaseServes ==
    ASSUME DtaTypes, SlotOrder, NEW d \in Dtas, HandleDtaReleaseCall(d)
    PROVE  Served(d) /\ Named(d, TRUE)
<1>1. CASE SlotsOf(d) # {}
  <2>1. PICK i : i \in SlotsOf(d)
    BY <1>1
  <2>2. i \in DtaSlots /\ SlotsOf(d) = {i} /\ dtaTable[i].inUse /\ dtaTable[i].addr = d
    BY <2>1, OneSlot
  <2>3. /\ Touch /\ Named(d, TRUE)
        /\ dtaTable' = [j \in DtaSlots |-> IF j \in SlotsOf(d) THEN FreeSlot ELSE dtaTable[j]]
    BY <1>1 DEF HandleDtaReleaseCall
  <2>4. FreeSlot \in DtaSlot /\ ~FreeSlot.inUse
    BY DEF DtaSlot, FreeSlot
  <2>5. /\ dtaTable' \in [DtaSlots -> DtaSlot] /\ dtaTable'[i] = FreeSlot
        /\ \A j \in DtaSlots : j # i => dtaTable'[j] = dtaTable[j]
    BY <2>2, <2>3, <2>4 DEF DtaTypes
  <2>6. Handled(d, i) /\ TakenOver(d, i)
    BY <2>2, <2>3, <2>4, <2>5, Touched DEF Handled, TakenOver
  <2>7. QED BY <2>2, <2>3, <2>6 DEF Served
<1>2. CASE SlotsOf(d) = {}
  <2>1. dtaTable' = [j \in DtaSlots |-> dtaTable[j]] /\ UNCHANGED dtaLruCounter
        /\ Named(d, TRUE)
    BY <1>2 DEF HandleDtaReleaseCall
  <2>2. dtaTable' = dtaTable
    BY <2>1 DEF DtaTypes
  <2>3. QED BY <2>1, <2>2 DEF Served
<1>3. QED BY <1>1, <1>2

----------------------------------------------------------------------------
(* The walks, step by step.                                                *)

dtaState == <<listing, dtaTable, dtaLruCounter, dtaFound, since, skipped>>

\* Steps that leave the table alone.
LEMMA DtaStateKept ==
    ASSUME UNCHANGED <<dtaTable, dtaLruCounter, since>>
    PROVE  /\ SlotOrder => SlotOrder'
           /\ \A d \in Dtas : listing'[d] = listing[d] /\ Kept(d) => Kept(d)'
           /\ \A d \in Dtas, i \in DtaSlots : \A n : Holds(d, i, n)' <=> Holds(d, i, n)
BY DEF SlotOrder, Kept, Holds, Searching, SlotsOf

\* A call is begun, or Fsfirst drops what was skipped.
LEMMA ListStarted ==
    ASSUME ListInv, FilesInv', NEW c \in Calls, Start(c), caller.pc = "idle",
           UNCHANGED <<listing, dtaTable, dtaLruCounter, dtaFound, since, unsure>>,
           skipped' = IF c.op = "Fsfirst" THEN skipped \ {c.dta} ELSE skipped,
           c.op # "DtaRelease", c.op = "Fsnext" => listing[c.dta] > 0
    PROVE  ListInv'
<1>1. /\ caller'.pc = "sent" /\ ~caller'.ran /\ caller'.call = c
      /\ DOMAIN wire' = 1..(Len(wire) + 1) /\ Len(wire) \in Nat
      /\ DOMAIN wire = 1..Len(wire)
      /\ \A i \in 1..Len(wire) : wire'[i].call = wire[i].call
      /\ wire'[Len(wire) + 1] = [call |-> c, current |-> TRUE]
      /\ Asked' /\ ~Asked
  <2>1. FileTypes /\ DOMAIN wire = 1..Len(wire)
    BY DEF ListInv, FilesInv, FileTypes
  <2>2. QED BY <2>1, Started DEF Asked
<1>2. ~Resent'
  <2>1. caller'.left = TableRetries
    BY DEF Start
  <2>2. QED BY <2>1, TablesAssumption DEF Resent
<1>3. DtaTypes' /\ SlotOrder'
  BY DtaStateKept DEF ListInv, DtaTypes
<1>4. Steps' /\ Outcome'
  BY <1>1, <1>2 DEF Steps, Outcome
<1>5. WalksOn'
  <2>1. SUFFICES ASSUME NEW d \in Dtas, Walking(d)'
                 PROVE  /\ Kept(d)'
                        /\ \A i \in DOMAIN wire' : Moves(wire'[i], d) =>
                              wire'[i].current /\ c.op = "Fsnext" /\ c.dta = d
    BY <1>1 DEF WalksOn, Moves
  <2>2. ~(c.op = "Fsfirst" /\ c.dta = d) /\ Walking(d)
    BY <1>1, <2>1 DEF Walking, InHand, Stepping
  <2>3. Kept(d) /\ \A i \in DOMAIN wire : ~Moves(wire[i], d)
    BY <1>1, <2>2 DEF ListInv, WalksOn
  <2>4. Kept(d)'
    BY <2>3, DtaStateKept
  <2>5. ASSUME NEW i \in DOMAIN wire', Moves(wire'[i], d)
        PROVE  wire'[i].current /\ c.op = "Fsnext" /\ c.dta = d
    <3>1. i = Len(wire) + 1
      BY <1>1, <2>3, <2>5 DEF Moves
    <3>2. QED BY <1>1, <2>2, <2>5, <3>1 DEF Moves
  <2>6. QED BY <2>4, <2>5
<1>6. QED BY <1>3, <1>4, <1>5 DEF ListInv

\* A call is over that was no step of a listing.
LEMMA ListOver ==
    ASSUME ListInv, FilesInv', UNCHANGED <<wire, dtaState, unsure>>, caller' = Idle,
           Asked => caller.call.op \notin Stepping
    PROVE  ListInv'
<1>1. ~Asked'
  BY IdleIs DEF Asked
<1>2. DtaTypes' /\ SlotOrder'
  BY DtaStateKept DEF ListInv, DtaTypes, dtaState
<1>3. Steps' /\ Outcome'
  BY <1>1 DEF Steps, Outcome
<1>4. WalksOn'
  <2>1. SUFFICES ASSUME NEW d \in Dtas, Walking(d)'
                 PROVE  Kept(d)' /\ \A i \in DOMAIN wire' : ~Moves(wire'[i], d)
    BY DEF WalksOn, Moves
  <2>2. Walking(d)
    BY <2>1 DEF Walking, InHand, dtaState
  <2>3. Kept(d) /\ \A i \in DOMAIN wire : ~Moves(wire[i], d)
    BY <2>2 DEF ListInv, WalksOn, Stepping
  <2>4. QED BY <2>3, DtaStateKept DEF dtaState, Moves
<1>5. QED BY <1>2, <1>3, <1>4 DEF ListInv

\* An entry is taken.
LEMMA TakeEntryStep ==
    ASSUME ListInv, FilesInv', TakeEntry
    PROVE  ListInv'
<1>1. /\ Done(Stepping) /\ dtaFound.why = "found" /\ caller' = Idle
      /\ listing' = [listing EXCEPT ![caller.call.dta] = dtaFound.entry]
      /\ UNCHANGED <<wire, dtaTable, dtaLruCounter, dtaFound, since, skipped, unsure>>
  BY DEF TakeEntry, Stepping, sideRP
<1>2. Asked /\ caller.call \in Calls /\ caller.pc = "answered" /\ caller.call.op \in Stepping
  BY <1>1 DEF Done, Asked, ListInv, FilesInv, WireOrder
<1> DEFINE y == caller.call.dta
<1>3. y \in Dtas
  BY <1>2, CallKinds DEF Stepping
<1>4. ~Asked'
  BY <1>1, IdleIs DEF Asked
<1>5. /\ DtaTypes' /\ SlotOrder'
      /\ listing'[y] = dtaFound.entry /\ \A d \in Dtas : d # y => listing'[d] = listing[d]
  BY <1>1, <1>3, DtaStateKept DEF ListInv, DtaTypes
<1>6. Steps' /\ Outcome'
  BY <1>4 DEF Steps, Outcome
<1>7. WalksOn'
  <2>1. SUFFICES ASSUME NEW d \in Dtas, Walking(d)'
                 PROVE  Kept(d)' /\ \A i \in DOMAIN wire' : ~Moves(wire'[i], d)
    BY DEF WalksOn, Moves
  <2>2. CASE d # y
    <3>1. Walking(d)
      BY <1>1, <1>5, <2>1, <2>2 DEF Walking, InHand
    <3>2. Kept(d) /\ \A i \in DOMAIN wire : ~Moves(wire[i], d)
      BY <2>2, <3>1 DEF ListInv, WalksOn
    <3>3. QED BY <1>1, <1>5, <2>2, <3>2, DtaStateKept DEF Moves
  <2>3. CASE d = y
    <3>1. ~unsure /\ y \notin skipped /\ caller.ran
      BY <1>1, <1>2, <2>1, <2>3 DEF Walking, ListInv, FilesInv, WireOrder
    <3>2. wire = <<>>
      BY <1>2, <3>1 DEF ListInv, Steps, FilesInv, WireOrder
    <3>3. Newest(y, dtaFound.entry)
      BY <1>1, <1>2, <3>1 DEF ListInv, Outcome, Newest
    <3>4. Kept(d)'
      BY <1>1, <1>5, <2>3, <3>3 DEF Kept, Newest, Holds
    <3>5. QED BY <1>1, <2>3, <3>2, <3>4
  <2>4. QED BY <2>2, <2>3
<1>8. QED BY <1>5, <1>6, <1>7 DEF ListInv

\* The end of a listing is taken.
LEMMA TakeMissStep ==
    ASSUME ListInv, FilesInv', TakeMiss
    PROVE  ListInv'
<1> DEFINE c == [op |-> "DtaRelease", dta |-> caller.call.dta]
<1>1. /\ Done(Stepping) /\ Start(c) /\ c.op = "DtaRelease" /\ c.dta = caller.call.dta
      /\ listing' = [listing EXCEPT ![caller.call.dta] = 0]
      /\ skipped' = skipped \ {caller.call.dta}
      /\ UNCHANGED <<dtaTable, dtaLruCounter, dtaFound, since, unsure>>
  BY DEF TakeMiss, Stepping, sideRP
<1>2. Asked /\ caller.call \in Calls /\ caller.call.op \in Stepping
  BY <1>1 DEF Done, Asked, ListInv, FilesInv, WireOrder
<1>3. caller.call.dta \in Dtas
  BY <1>2, CallKinds DEF Stepping
<1>4. c \in Calls
  BY <1>3 DEF Calls, DtaCalls
<1> HIDE DEF c
<1>5. /\ caller'.pc = "sent" /\ ~caller'.ran /\ caller'.call = c
      /\ DOMAIN wire' = 1..(Len(wire) + 1) /\ Len(wire) \in Nat
      /\ DOMAIN wire = 1..Len(wire)
      /\ \A i \in 1..Len(wire) : wire'[i].call = wire[i].call
      /\ wire'[Len(wire) + 1] = [call |-> c, current |-> TRUE]
      /\ Asked'
  <2>1. FileTypes /\ DOMAIN wire = 1..Len(wire)
    BY DEF ListInv, FilesInv, FileTypes
  <2>2. QED BY <1>1, <1>4, <2>1, Started DEF Asked
<1>6. /\ DtaTypes' /\ SlotOrder' /\ listing'[c.dta] = 0
      /\ \A d \in Dtas : d # c.dta => listing'[d] = listing[d]
  BY <1>1, <1>3, TablesAssumption, DtaStateKept DEF ListInv, DtaTypes
<1>7. Steps' /\ Outcome'
  BY <1>1, <1>5, <1>6 DEF Steps, Outcome, Stepping
<1>8. WalksOn'
  <2>1. SUFFICES ASSUME NEW d \in Dtas, Walking(d)'
                 PROVE  Kept(d)' /\ \A i \in DOMAIN wire' : ~Moves(wire'[i], d)
    BY DEF WalksOn, Moves
  <2>2. d # c.dta
    BY <1>6, <2>1 DEF Walking
  <2>3. Walking(d)
    BY <1>1, <1>6, <2>1, <2>2 DEF Walking, InHand
  <2>4. Kept(d) /\ \A i \in DOMAIN wire : ~Moves(wire[i], d)
    BY <1>1, <2>2, <2>3 DEF ListInv, WalksOn
  <2>5. Kept(d)'
    BY <1>1, <1>6, <2>2, <2>4, DtaStateKept
  <2>6. \A i \in DOMAIN wire' : ~Moves(wire'[i], d)
    BY <1>5, <2>2, <2>4 DEF Moves
  <2>7. QED BY <2>5, <2>6
<1>9. QED BY <1>6, <1>7, <1>8 DEF ListInv

\* The retries of send_sync and what ends them.
LEMMA ListAnswer ==
    ASSUME ListInv, FilesInv', Resend \/ Answered \/ GivenUp
    PROVE  ListInv'
<1>1. CASE Resend
  <2>1. /\ caller.pc = "sent" /\ caller'.pc = "sent" /\ Asked /\ Asked'
        /\ caller'.ran = caller.ran /\ caller'.call = caller.call
        /\ DOMAIN wire = 1..Len(wire)
        /\ DOMAIN wire' = 1..(Len(wire) + 1) /\ Len(wire) \in Nat
        /\ \A i \in 1..Len(wire) : wire'[i] = wire[i]
        /\ wire'[Len(wire) + 1] = [call |-> caller.call, current |-> TRUE]
    BY <1>1, Repeated DEF ListInv, FilesInv, FileTypes, Asked
  <2>2. /\ UNCHANGED <<listing, dtaTable, dtaLruCounter, dtaFound, since, unsure>>
        /\ skipped' = IF caller.call.op \in Stepping THEN skipped \cup {caller.call.dta}
                      ELSE skipped
    BY <1>1 DEF Resend, sideRP, Stepping
  <2>3. caller.call \in Calls /\ (caller.call.op \in Stepping => caller.call.dta \in Dtas)
    BY <2>1, CallKinds DEF ListInv, FilesInv, WireOrder, Stepping
  <2>4. DtaTypes' /\ SlotOrder'
    BY <2>2, <2>3, DtaStateKept DEF ListInv, DtaTypes
  <2>5. Steps'
    BY <2>1, <2>2 DEF ListInv, Steps
  <2>6. Outcome'
    BY <2>1, <2>2 DEF Outcome
  <2>7. WalksOn'
    <3>1. SUFFICES ASSUME NEW d \in Dtas, Walking(d)'
                   PROVE  /\ Kept(d)'
                          /\ \A i \in DOMAIN wire' : Moves(wire'[i], d) =>
                                wire'[i].current /\ caller.call.op = "Fsnext" /\ caller.call.dta = d
      BY <2>1 DEF WalksOn, Moves
    <3>2. Walking(d) /\ ~(caller.call.op \in Stepping /\ caller.call.dta = d)
      BY <2>1, <2>2, <3>1 DEF Walking, InHand
    <3>3. Kept(d) /\ \A i \in DOMAIN wire : ~Moves(wire[i], d)
      BY <3>2 DEF ListInv, WalksOn, Stepping
    <3>4. Kept(d)'
      BY <2>2, <3>3, DtaStateKept
    <3>5. ~(caller.call.op = "DtaRelease" /\ caller.call.dta = d)
      BY <2>1, <3>2 DEF ListInv, Steps, Walking
    <3>6. \A i \in DOMAIN wire' : ~Moves(wire'[i], d)
      BY <2>1, <3>2, <3>3, <3>5 DEF Moves, Stepping
    <3>7. QED BY <3>4, <3>6
  <2>8. QED BY <2>4, <2>5, <2>6, <2>7 DEF ListInv
<1>2. CASE Answered \/ GivenUp
  <2>1. /\ caller.pc = "sent" /\ caller' = [caller EXCEPT !.pc = "answered"]
        /\ UNCHANGED <<wire, dtaState>>
        /\ unsure' = unsure \/ unsure' = TRUE
    BY <1>2 DEF Answered, GivenUp, sideRP, dtaState
  <2>2. /\ Asked /\ Asked' /\ UNCHANGED <<caller.call, caller.ran, caller.left>> /\ Resent' = Resent
    BY <2>1 DEF ListInv, FilesInv, FileTypes, CallerStates, Asked, Resent
  <2>3. DtaTypes' /\ SlotOrder' /\ Steps'
    BY <2>1, <2>2, DtaStateKept DEF ListInv, DtaTypes, Steps, dtaState
  <2>4. Outcome'
    BY <2>1, <2>2 DEF ListInv, Outcome, Holds, dtaState
  <2>5. WalksOn'
    <3>1. \A d \in Dtas : Walking(d)' => Walking(d)
      BY <2>1, <2>2 DEF Walking, InHand, dtaState
    <3>2. QED BY <2>1, <2>2, <3>1, DtaStateKept DEF ListInv, WalksOn, Moves, dtaState
  <2>6. QED BY <2>3, <2>4, <2>5 DEF ListInv
<1>3. QED BY <1>1, <1>2

\* The head of the wire goes, and nothing of the listings moves.
LEMMA ListHeadGoes ==
    ASSUME ListInv, FilesInv', wire # <<>>, wire' = Tail(wire), UNCHANGED <<dtaState, unsure>>,
           \/ UNCHANGED caller
           \/ Execute /\ Head(wire).call.op \notin DtaOps
    PROVE  ListInv'
<1>1. /\ \A i \in DOMAIN wire' : i + 1 \in DOMAIN wire /\ wire'[i] = wire[i + 1]
      /\ Head(wire) = wire[1] /\ 1 \in DOMAIN wire
  BY TailOfWire DEF ListInv, FilesInv
<1>2. /\ UNCHANGED <<caller.pc, caller.call, caller.left>>
      /\ Asked' = Asked /\ Resent' = Resent
      /\ caller'.ran = caller.ran \/ (Asked => caller.call.op \notin DtaOps)
  <2>1. CASE UNCHANGED caller
    BY <2>1 DEF Asked, Resent
  <2>2. CASE Execute /\ Head(wire).call.op \notin DtaOps
    <3>1. /\ UNCHANGED <<caller.pc, caller.call, caller.left>>
          /\ caller'.ran = (caller.ran \/ FirstRun)
      BY <2>2, Executed DEF ListInv, FilesInv
    <3>2. Asked' = Asked /\ Resent' = Resent
      BY <3>1 DEF Asked, Resent
    <3>3. FirstRun => Head(wire).call = caller.call
      BY <1>1 DEF FirstRun, ListInv, FilesInv, WireOrder, Asked
    <3>4. caller.ran \in BOOLEAN
      BY DEF ListInv, FilesInv, FileTypes, CallerStates
    <3>5. CASE FirstRun
      BY <2>2, <3>1, <3>2, <3>3, <3>5
    <3>6. CASE ~FirstRun
      BY <3>1, <3>2, <3>4, <3>6
    <3>7. QED BY <3>5, <3>6
  <2>3. QED BY <2>1, <2>2
<1>3. DtaTypes' /\ SlotOrder' /\ Steps'
  BY <1>2, DtaStateKept DEF ListInv, DtaTypes, Steps, dtaState
<1>4. Outcome'
  <2>1. SUFFICES ASSUME Asked', caller'.call.op \in Stepping PROVE Outcome'
    BY DEF Outcome
  <2>2. caller'.ran = caller.ran
    BY <1>2, <2>1 DEF Stepping, DtaOps
  <2>3. QED BY <1>2, <2>2 DEF ListInv, Outcome, Holds, dtaState
<1>5. WalksOn'
  <2>1. SUFFICES ASSUME NEW d \in Dtas, Walking(d)'
                 PROVE  /\ Kept(d)'
                        /\ \A i \in DOMAIN wire' : Moves(wire'[i], d) =>
                              wire'[i].current /\ Asked /\ caller.call.op = "Fsnext"
                              /\ caller.call.dta = d
    BY <1>2 DEF WalksOn, Moves
  <2>2. Walking(d)
    BY <1>2, <2>1 DEF Walking, InHand, Stepping, DtaOps, dtaState
  <2>3. QED BY <1>1, <2>2, DtaStateKept DEF ListInv, WalksOn, Moves, dtaState
<1>6. QED BY <1>3, <1>4, <1>5 DEF ListInv

\* A call that names a DTA is executed.
LEMMA DtaCallRuns ==
    ASSUME ListInv, FilesInv', Execute, Head(wire).call.op \in DtaOps
    PROVE  ListInv'
<1>1. /\ wire # <<>> /\ wire' = Tail(wire) /\ UNCHANGED <<unsure, listing, skipped>>
      /\ UNCHANGED <<caller.pc, caller.call, caller.left>>
      /\ caller'.ran = (caller.ran \/ FirstRun)
  BY Executed DEF ListInv, FilesInv, Execute
<1>2. /\ Head(wire) = wire[1] /\ 1 \in DOMAIN wire /\ Head(wire) \in Bound
      /\ \A i \in DOMAIN wire' : i + 1 \in DOMAIN wire /\ wire'[i] = wire[i + 1]
  BY <1>1, TailOfWire DEF ListInv, FilesInv
<1>3. Asked' = Asked /\ Resent' = Resent
  BY <1>1 DEF Asked, Resent
<1>4. PICK c \in Calls : c = Head(wire).call
  BY <1>2 DEF Bound
<1>5. PICK y \in Dtas : y = c.dta
  BY <1>4, CallKinds DEF DtaOps
<1>6. /\ c.op \in DtaOps
      /\ \/ c.op = "Fsetdta"    /\ HandleFsetdtaCall(y)
         \/ c.op = "Fsfirst"    /\ HandleFsfirstCall(y)
         \/ c.op = "Fsnext"     /\ HandleFsnextCall(y)
         \/ c.op = "DtaRelease" /\ HandleDtaReleaseCall(y)
  BY <1>4, <1>5 DEF Execute, DtaOps
<1>7. DtaTypes /\ SlotOrder
  BY DEF ListInv
<1>8. /\ Served(y) /\ \E found \in BOOLEAN : Named(y, found)
      /\ dtaFound' \in [why : {"found", "end", "error", "noSlot"}, entry : 0..Entries]
  <2>1. CASE c.op = "Fsetdta"
    <3>1. HandleFsetdtaCall(y)
      BY <1>6, <2>1
    <3>2. Searching(y) \in BOOLEAN /\ Named(y, Searching(y)) /\ dtaFound' = dtaFound
      BY <3>1 DEF HandleFsetdtaCall, Searching
    <3>3. QED BY <1>1, <1>7, <3>1, <3>2, FsetdtaServes DEF DtaTypes
  <2>2. CASE c.op = "Fsfirst"
    BY <1>6, <1>7, <2>2, FsfirstServes
  <2>3. CASE c.op = "Fsnext"
    <3>1. Searching(y) \in BOOLEAN
      BY DEF Searching
    <3>2. QED BY <1>6, <1>7, <2>3, <3>1, FsnextServes
  <2>4. CASE c.op = "DtaRelease"
    <3>1. dtaFound' = dtaFound
      BY <1>6, <2>4 DEF HandleDtaReleaseCall
    <3>2. QED BY <1>6, <1>7, <2>4, <3>1, ReleaseServes DEF DtaTypes
  <2>5. QED BY <1>6, <2>1, <2>2, <2>3, <2>4 DEF DtaOps
<1>9. /\ since' \in [Dtas -> SUBSET Dtas] /\ \A x \in Dtas : IsFiniteSet(since'[x])
      /\ \A x \in Dtas : x # y /\ listing[x] > 0 => since'[x] = since[x] \cup {y}
  BY <1>7, <1>8, NamedIs
<1>10. /\ dtaTable' \in [DtaSlots -> DtaSlot] /\ dtaLruCounter' \in 0..MaxStamp
       /\ SlotOrder'
       /\ \A x \in Dtas : x # y /\ Kept(x) /\ listing[x] > 0 => Kept(x)'
  BY <1>1, <1>7, <1>8, <1>9, ServedKeeps
<1>11. DtaTypes'
  BY <1>1, <1>7, <1>8, <1>9, <1>10 DEF DtaTypes
<1>12. Steps'
  BY <1>1, <1>3 DEF ListInv, Steps
<1>13. /\ FirstRun => Asked /\ caller.call = c /\ ~caller.ran
       /\ caller.ran => Asked /\ caller.call = c /\ Resent
  BY <1>1, <1>2, <1>4 DEF FirstRun, ListInv, FilesInv, WireOrder, Asked
<1>14. WalksOn'
  <2>1. SUFFICES ASSUME NEW d \in Dtas, Walking(d)'
                 PROVE  /\ Kept(d)'
                        /\ \A i \in DOMAIN wire' : Moves(wire'[i], d) =>
                              wire'[i].current /\ Asked /\ caller.call.op = "Fsnext"
                              /\ caller.call.dta = d
    BY <1>1, <1>3 DEF WalksOn, Moves
  <2>2. /\ Walking(d) /\ listing[d] > 0 /\ ~unsure
        /\ ~(Asked /\ caller.call.op \in Stepping /\ caller.call.dta = d
             /\ (caller.call.op = "Fsfirst" \/ caller.ran \/ FirstRun))
    BY <1>1, <1>3, <2>1 DEF Walking, InHand
  <2>3. /\ Kept(d)
        /\ \A i \in DOMAIN wire : Moves(wire[i], d) =>
              wire[i].current /\ Asked /\ caller.call.op = "Fsnext" /\ caller.call.dta = d
    BY <2>2 DEF ListInv, WalksOn
  <2>4. CASE y # d
    BY <1>2, <1>10, <2>2, <2>3, <2>4 DEF Moves
  <2>5. CASE y = d
    <3>1. c.op = "Fsetdta"
      <4>1. SUFFICES ASSUME c.op # "Fsetdta" PROVE FALSE
        OBVIOUS
      <4>2. Moves(wire[1], d)
        BY <1>2, <1>4, <1>5, <1>6, <2>5, <4>1 DEF Moves, DtaOps
      <4>3. wire[1].current /\ Asked /\ caller.call.op = "Fsnext" /\ caller.call.dta = d
        BY <1>2, <2>3, <4>2
      <4>4. ~caller.ran
        BY <2>2, <4>3 DEF Stepping
      <4>5. caller.pc = "sent"
        BY <2>2, <4>3, <4>4 DEF Asked, ListInv, FilesInv, WireOrder
      <4>6. FirstRun
        BY <1>2, <4>3, <4>4, <4>5 DEF FirstRun
      <4>7. QED BY <2>2, <4>3, <4>6 DEF Stepping
    <3>2. Kept(d)'
      BY <1>1, <1>6, <1>7, <2>3, <2>5, <3>1, FsetdtaServes
    <3>3. QED BY <1>2, <2>3, <3>2 DEF Moves
  <2>6. QED BY <2>4, <2>5
<1>15. Outcome'
  <2>1. SUFFICES ASSUME ~unsure, Asked, caller.ran \/ FirstRun, caller.call.op \in Stepping,
                        caller.call.dta \notin skipped
                 PROVE  Outcome'
    BY <1>1, <1>3 DEF Outcome
  <2>2. c = caller.call /\ y = caller.call.dta
    BY <1>5, <1>13, <2>1
  <2>3. ~caller.ran /\ FirstRun
    BY <1>13, <2>1 DEF ListInv, Steps
  <2>4. CASE c.op = "Fsfirst"
    <3>1. dtaFound'.why = "found" => dtaFound'.entry = 1 /\ Newest(y, 1)'
      BY <1>6, <1>7, <2>4, FsfirstServes
    <3>2. QED BY <1>1, <2>2, <2>4, <3>1 DEF Outcome, Newest, Holds
  <2>5. CASE c.op = "Fsnext"
    <3>1. Walking(y)
      BY <2>1, <2>2, <2>3, <2>5 DEF Walking, InHand, ListInv, Steps
    <3>2. Kept(y)
      BY <3>1 DEF ListInv, WalksOn
    <3>3. /\ dtaFound'.why = "found" =>
                dtaFound'.entry = listing[y] + 1 /\ Newest(y, listing[y] + 1)'
          /\ dtaFound'.why = "end" => listing[y] = Entries
          /\ dtaFound'.why = "noSlot" => Cardinality(since'[y]) >= MaxDtas
      BY <1>1, <1>6, <1>7, <2>5, <3>2, FsnextServes
    <3>4. QED BY <1>1, <2>2, <2>5, <3>3 DEF Outcome, Newest, Holds
  <2>6. QED BY <2>1, <2>2, <2>4, <2>5 DEF Stepping
<1>16. QED BY <1>10, <1>11, <1>12, <1>14, <1>15 DEF ListInv

\* No listing has begun at first.
LEMMA ListInitInv == TablesInit => ListInv
<1> SUFFICES ASSUME TablesInit PROVE ListInv
  OBVIOUS
<1>1. FilesInv
  BY FilesInitInv
<1>2. /\ caller = Idle /\ listing = [d \in Dtas |-> 0]
      /\ dtaTable = [i \in DtaSlots |-> FreeSlot] /\ dtaLruCounter = 0
      /\ dtaFound = [why |-> "end", entry |-> 0]
      /\ since = [d \in Dtas |-> {}] /\ skipped = {}
  BY DEF TablesInit
<1>3. ~Asked
  BY <1>2, IdleIs DEF Asked
<1>4. DtaTypes /\ SlotOrder
  BY <1>2, FS_EmptySet, TablesAssumption DEF DtaTypes, SlotOrder, DtaSlot, FreeSlot
<1>5. Steps /\ Outcome /\ WalksOn
  BY <1>2, <1>3 DEF Steps, Outcome, WalksOn, Walking
<1>6. QED BY <1>1, <1>4, <1>5 DEF ListInv

\* One case for each step of the ST and of the RP.
LEMMA ListStepInv == ListInv /\ [TablesNext]_tablesVars => ListInv'
<1> SUFFICES ASSUME ListInv, [TablesNext]_tablesVars PROVE ListInv'
  OBVIOUS
<1>0. FilesInv'
  BY FilesStepInv DEF ListInv
<1>1. ASSUME NEW p \in Paths, NEW w \in BOOLEAN, NEW op \in Openings, CallFopen(p, w, op)
      PROVE  ListInv'
  <2> DEFINE c == [op |-> op, path |-> p, write |-> w]
  <2>1. /\ caller.pc = "idle" /\ Start(c) /\ c \in Calls /\ c.op \in Openings
        /\ UNCHANGED <<dtaState, unsure>>
    BY <1>1 DEF CallFopen, Calls, FileCalls, Openings, sideRP, dtaState
  <2> HIDE DEF c
  <2>2. QED BY <1>0, <2>1, ListStarted DEF Openings, dtaState
<1>2. ASSUME NEW h \in held, CallFclose(h) PROVE ListInv'
  <2> DEFINE c == [op |-> "Fclose", handle |-> h.handle]
  <2>1. /\ caller.pc = "idle" /\ Start(c) /\ c.op = "Fclose" /\ UNCHANGED <<dtaState, unsure>>
    BY <1>2 DEF CallFclose, sideRP, dtaState
  <2>2. c \in Calls
    BY HandleSlots DEF ListInv, FilesInv, FileTypes, Calls, FdCalls
  <2> HIDE DEF c
  <2>3. QED BY <1>0, <2>1, <2>2, ListStarted DEF dtaState
<1>3. CASE TakeHandle \/ TakeStatus \/ PexecOpened \/ PexecHaveRead \/ Hello
  <2>1. /\ caller' = Idle /\ UNCHANGED <<wire, dtaState, unsure>>
        /\ Asked => caller.call.op \notin Stepping
    BY <1>3 DEF TakeHandle, TakeStatus, PexecOpened, PexecHaveRead, Hello, Done, Asked, Stepping,
       sideRP, dtaState
  <2>2. QED BY <1>0, <2>1, ListOver
<1>4. ASSUME NEW p \in Paths, CallPexec(p) PROVE ListInv'
  <2> DEFINE c == [op |-> "Fopen", path |-> p, write |-> FALSE]
  <2>1. /\ caller.pc = "idle" /\ Start(c) /\ c \in Calls /\ c.op = "Fopen"
        /\ UNCHANGED <<dtaState, unsure>>
    BY <1>4 DEF CallPexec, Calls, FileCalls, sideRP, dtaState
  <2> HIDE DEF c
  <2>2. QED BY <1>0, <2>1, ListStarted DEF dtaState
<1>5. CASE PexecRead
  <2> DEFINE h == IF pexec.step = "header" THEN pexec.header ELSE handleCell["Fopen"]
             c == [op |-> "Fread", handle |-> h]
  <2>1. /\ caller.pc = "idle" /\ pexec.step \in {"header", "rest"} /\ Start(c)
        /\ c.op = "Fread" /\ UNCHANGED <<dtaState, unsure>>
    BY <1>5 DEF PexecRead, sideRP, dtaState
  <2>2. h \in Cells
    BY <2>1 DEF ListInv, FilesInv, FileTypes, Workloads, Reading, Openings
  <2>3. c \in Calls
    BY <2>2 DEF Calls, FdCalls
  <2> HIDE DEF c
  <2>4. QED BY <1>0, <2>1, <2>3, ListStarted DEF dtaState
<1>6. CASE PexecClose
  <2> DEFINE c == [op |-> "Fclose", handle |-> handleCell["Fopen"]]
  <2>1. /\ caller.pc = "idle" /\ Start(c) /\ c.op = "Fclose" /\ UNCHANGED <<dtaState, unsure>>
    BY <1>6 DEF PexecClose, dtaState
  <2>2. c \in Calls
    BY DEF ListInv, FilesInv, FileTypes, Calls, FdCalls, Openings
  <2> HIDE DEF c
  <2>3. QED BY <1>0, <2>1, <2>2, ListStarted DEF dtaState
<1>7. ASSUME NEW d \in Dtas, NEW op \in {"Fsetdta", "Fsfirst", "Fsnext"}, CallSearch(op, d)
      PROVE  ListInv'
  <2> DEFINE c == [op |-> op, dta |-> d]
  <2>1. /\ caller.pc = "idle" /\ Start(c) /\ c \in Calls /\ c.op = op /\ c.dta = d
        /\ op = "Fsnext" => listing[d] > 0
        /\ skipped' = IF op = "Fsfirst" THEN skipped \ {d} ELSE skipped
        /\ UNCHANGED <<listing, dtaTable, dtaLruCounter, dtaFound, since, unsure>>
    BY <1>7 DEF CallSearch, Calls, DtaCalls, sideRP
  <2> HIDE DEF c
  <2>2. QED BY <1>0, <2>1, ListStarted
<1>8. CASE TakeEntry \/ TakeMiss
  BY <1>0, <1>8, TakeEntryStep, TakeMissStep
<1>9. CASE Resend \/ Answered \/ GivenUp
  BY <1>0, <1>9, ListAnswer
<1>10. CASE ProgramEnds \/ ResetST
  <2>1. /\ caller' = Idle \/ caller' = [Idle EXCEPT !.pc = "booting"]
        /\ listing' = [d \in Dtas |-> 0] /\ skipped' = {}
        /\ UNCHANGED <<dtaTable, dtaLruCounter, dtaFound, since>>
    BY <1>10 DEF ProgramEnds, ResetST, Forget
  <2>2. ~Asked'
    BY <2>1, IdleIs DEF Asked
  <2>3. DtaTypes' /\ SlotOrder'
    BY <2>1, TablesAssumption, DtaStateKept DEF ListInv, DtaTypes
  <2>4. Steps' /\ Outcome' /\ WalksOn'
    BY <2>1, <2>2 DEF Steps, Outcome, WalksOn, Walking
  <2>5. QED BY <1>0, <2>3, <2>4 DEF ListInv
<1>11. CASE Execute
  <2>1. wire # <<>> /\ wire' = Tail(wire)
    BY <1>11 DEF Execute
  <2>2. CASE Head(wire).call.op \in DtaOps
    BY <1>0, <1>11, <2>2, DtaCallRuns
  <2>3. CASE Head(wire).call.op \notin DtaOps
    <3>1. UNCHANGED <<dtaState, unsure>>
      BY <1>11, <2>3 DEF Execute, HandleOpen, HandleFcloseCall, HandleOther, DtaOps, sideRP,
         dtaState
    <3>2. QED BY <1>0, <1>11, <2>1, <2>3, <3>1, ListHeadGoes
  <2>4. QED BY <2>2, <2>3
<1>12. CASE Lose
  <2>1. /\ wire # <<>> /\ wire' = Tail(wire) /\ UNCHANGED <<caller, dtaState, unsure>>
    BY <1>12 DEF Lose, sideST, sideRP, dtaState
  <2>2. QED BY <1>0, <2>1, ListHeadGoes
<1>13. CASE RebootRP
  <2>1. /\ unsure' = TRUE /\ dtaTable' = [i \in DtaSlots |-> FreeSlot] /\ dtaLruCounter' = 0
        /\ UNCHANGED <<caller, listing, dtaFound, since, skipped>>
    BY <1>13 DEF RebootRP, sideST
  <2>2. Asked' = Asked /\ Resent' = Resent
    BY <2>1 DEF Asked, Resent
  <2>3. DtaTypes' /\ SlotOrder'
    BY <2>1, TablesAssumption DEF ListInv, DtaTypes, SlotOrder, DtaSlot, FreeSlot
  <2>4. Steps'
    BY <2>1, <2>2 DEF ListInv, Steps
  <2>5. Outcome' /\ WalksOn'
    BY <2>1 DEF Outcome, WalksOn, Walking
  <2>6. QED BY <1>0, <2>3, <2>4, <2>5 DEF ListInv
<1>14. CASE UNCHANGED tablesVars
  <2>1. UNCHANGED <<caller, wire, unsure, dtaState>>
    BY <1>14 DEF tablesVars, sideST, sideRP, dtaState
  <2>2. Asked' = Asked /\ Resent' = Resent
    BY <2>1 DEF Asked, Resent
  <2>3. DtaTypes' /\ SlotOrder' /\ Steps'
    BY <2>1, <2>2, DtaStateKept DEF ListInv, DtaTypes, Steps, dtaState
  <2>4. Outcome'
    BY <2>1, <2>2 DEF ListInv, Outcome, Holds, dtaState
  <2>5. WalksOn'
    <3>1. \A d \in Dtas : Walking(d)' => Walking(d)
      BY <2>1, <2>2 DEF Walking, InHand, dtaState
    <3>2. QED BY <2>1, <2>2, <3>1, DtaStateKept DEF ListInv, WalksOn, Moves, dtaState
  <2>6. QED BY <1>0, <2>3, <2>4, <2>5 DEF ListInv
<1>15. QED
  BY <1>1, <1>2, <1>3, <1>4, <1>5, <1>6, <1>7, <1>8, <1>9, <1>10, <1>11, <1>12, <1>13, <1>14
     DEF TablesNext, Openings

\* What a walk can see of one step.
LEMMA StepOfWalk ==
    ASSUME ListInv, TablesNext, NEW d \in Dtas,
           caller.pc = "answered", caller.call = [op |-> "Fsnext", dta |-> d],
           ~unsure, d \notin skipped
    PROVE  /\ listing'[d] > listing[d] => listing'[d] = listing[d] + 1
           /\ listing'[d] < listing[d] /\ caller'.pc = "sent" =>
                 CASE dtaFound.why = "end"    -> listing[d] = Entries
                   [] dtaFound.why = "noSlot" -> Cardinality(since[d]) >= MaxDtas
                   [] OTHER -> TRUE
<1>1. Asked /\ caller.ran /\ caller.call.op = "Fsnext" /\ caller.call.dta = d
  BY DEF Asked, ListInv, FilesInv, WireOrder
<1>2. /\ dtaFound.why = "found" => dtaFound.entry = listing[d] + 1
      /\ dtaFound.why = "end" => listing[d] = Entries
      /\ dtaFound.why = "noSlot" => Cardinality(since[d]) >= MaxDtas
  BY <1>1 DEF ListInv, Outcome, Stepping
<1>3. listing \in [Dtas -> 0..Entries] /\ listing[d] \in Nat
  BY TablesAssumption DEF ListInv, DtaTypes
<1>4. CASE TakeEntry
  BY <1>1, <1>2, <1>3, <1>4 DEF TakeEntry, Idle
<1>5. CASE ProgramEnds \/ ResetST
  <2>1. listing'[d] = 0 /\ caller'.pc # "sent"
    BY <1>5 DEF ProgramEnds, ResetST, Forget, Idle
  <2>2. QED BY <1>3, <2>1
<1>6. CASE TakeMiss
  <2>1. listing'[d] = 0
    BY <1>1, <1>3, <1>6 DEF TakeMiss
  <2>2. QED BY <1>2, <1>3, <2>1
<1>7. CASE ~(TakeEntry \/ ProgramEnds \/ ResetST \/ TakeMiss)
  <2>1. UNCHANGED listing
    BY <1>1, <1>7 DEF TablesNext, CallFopen, CallFclose, TakeHandle, TakeStatus, CallPexec,
       PexecOpened, PexecRead, PexecHaveRead, PexecClose, CallSearch, Resend, Answered, GivenUp,
       Hello, Execute, Lose, RebootRP, sideST
  <2>2. QED BY <1>3, <2>1
<1>8. QED BY <1>4, <1>5, <1>6, <1>7

(* The types of the tables and of the calls on their way to them            *)
(* (gemdrive.c).                                                            *)
THEOREM TablesTypeCorrect == TablesSpec => []TablesTypeOK
<1> DEFINE Work == workload \in {"files", "pexec", "searches"}
<1>1. TablesInit => Work
  BY DEF TablesInit
<1>2. Work /\ [TablesNext]_tablesVars => Work'
  <2>1. [TablesNext]_tablesVars => UNCHANGED workload
    BY DEF TablesNext, tablesVars, CallFopen, CallFclose, TakeHandle, TakeStatus, CallPexec,
       PexecOpened, PexecRead, PexecHaveRead, PexecClose, CallSearch, Resend, Answered, GivenUp,
       Hello, Execute, Lose, RebootRP, TakeEntry, TakeMiss, ProgramEnds, ResetST, Forget
  <2>2. QED BY <2>1
<1>3. ListInv /\ Work => TablesTypeOK
  BY DEF ListInv, FilesInv, FileTypes, DtaTypes, TablesTypeOK, CallerStates, PexecStates, Bound,
     Openings
<1> HIDE DEF Work
<1>4. QED BY <1>1, <1>2, <1>3, ListInitInv, ListStepInv, PTL DEF TablesSpec

(* A walk over a directory gets its entries one after the other to the      *)
(* last; it is cut short for want of its slot only when as many other DTAs  *)
(* as the table has slots were named since its last call, for tables and    *)
(* directories of any size (allocDtaSlot, findDtaSlot).                     *)
THEOREM ListingWholeHolds == TablesSpec => ListingWhole
<1>1. ListInv /\ [TablesNext]_tablesVars =>
         [\A d \in Dtas :
            /\ caller.pc = "answered" /\ caller.call = [op |-> "Fsnext", dta |-> d]
            /\ ~unsure /\ d \notin skipped
            => /\ listing'[d] > listing[d] => listing'[d] = listing[d] + 1
               /\ listing'[d] < listing[d] /\ caller'.pc = "sent" =>
                     CASE dtaFound.why = "end"    -> listing[d] = Entries
                       [] dtaFound.why = "noSlot" -> Cardinality(since[d]) >= MaxDtas
                       [] OTHER -> TRUE]_tablesVars
  BY StepOfWalk
<1>2. QED BY <1>1, ListInitInv, ListStepInv, PTL DEF TablesSpec, ListingWhole

----------------------------------------------------------------------------
(* The lock around a call.                                                 *)

Frames == [request : Requests \cup Locking, current : BOOLEAN]

\* The part of the types that the lock depends on.
ChannelTypeOK ==
    /\ trap \in [step : {"idle", "lock", "unlock", "call", "booting"},
                 request : Requests \cup {Nothing}]
    /\ sync \in [pc : {"idle", "sent", "answered"}, left : 0..CallRetries, ran : BOOLEAN]
    /\ inFlight \in Seq(Frames)
    /\ reentry \in BOOLEAN /\ lost \in BOOLEAN /\ lockLost \in BOOLEAN

\* The command that send_sync has been given.
Command == IF trap.step = "call" THEN trap.request ELSE [op |-> trap.step]

\* What is current in the wire is the command under way, and comes after all
\* that is not; once it has run nothing older is left.
Queued ==
    /\ \A i, j \in DOMAIN inFlight : i < j /\ inFlight[i].current => inFlight[j].current
    /\ sync.ran => \A i \in DOMAIN inFlight : inFlight[i].current
    /\ trap.step \in {"lock", "unlock", "call"} /\ sync.pc # "idle" =>
          \A i \in DOMAIN inFlight : inFlight[i].current => inFlight[i].request = Command

\* Whose turn it is: a command is under way exactly in the steps of a trap that
\* send one, and an answer is that of a command that ran, unless it or the
\* command before it was given up.
InStep ==
    /\ trap.step \in {"idle", "booting"} <=> sync.pc = "idle"
    /\ trap.step = "call" => trap.request \in Requests
    /\ trap.step \in {"lock", "unlock"} => trap.request \in Requests
    /\ sync.pc = "answered" /\ trap.step = "call" /\ ~lost => sync.ran
    /\ sync.pc = "answered" /\ trap.step = "unlock" /\ ~lost /\ ~lockLost => sync.ran

NoLocks == \A i \in DOMAIN inFlight : inFlight[i].request.op # "lock"

\* Behind the UNLOCK or the call that has run there is no LOCK any more.
LockOver ==
    /\ trap.step = "unlock" /\ sync.ran => ~reentry
    /\ trap.step \in {"idle", "call"} /\ ~lost /\ ~lockLost => ~reentry /\ NoLocks
    /\ trap.step = "idle" /\ ~lost => NoLocks

LockInv == ChannelTypeOK /\ Queued /\ InStep /\ LockOver

\* A call of GEMDOS is neither of the two commands of the lock.
LEMMA RequestOps ==
    \A r \in Requests : r.op \notin {"lock", "unlock"}
BY DEF Requests, Simple, Renames, Attribs, OfDrive

\* send_sync at rest.
LEMMA QuietIs ==
    /\ Quiet.pc = "idle" /\ Quiet.ran = FALSE
    /\ Quiet \in [pc : {"idle", "sent", "answered"}, left : 0..CallRetries, ran : BOOLEAN]
BY CallsAssumption DEF Quiet

\* A new command is sent behind all that is in the wire.
LEMMA Sent ==
    ASSUME ChannelTypeOK, NEW r \in Requests \cup Locking, Send(r)
    PROVE  /\ inFlight' \in Seq(Frames)
           /\ sync' \in [pc : {"idle", "sent", "answered"}, left : 0..CallRetries, ran : BOOLEAN]
           /\ sync'.pc = "sent" /\ ~sync'.ran
           /\ DOMAIN inFlight' = 1..(Len(inFlight) + 1)
           /\ \A i \in 1..Len(inFlight) : /\ ~inFlight'[i].current
                                          /\ inFlight'[i].request = inFlight[i].request
           /\ inFlight'[Len(inFlight) + 1] = [request |-> r, current |-> TRUE]
<1> DEFINE old == [i \in DOMAIN inFlight |-> [inFlight[i] EXCEPT !.current = FALSE]]
           new == [request |-> r, current |-> TRUE]
<1>1. /\ Len(inFlight) \in Nat /\ DOMAIN inFlight = 1..Len(inFlight)
      /\ \A i \in 1..Len(inFlight) : inFlight[i] \in Frames
  BY DEF ChannelTypeOK
<1>2. \A i \in 1..Len(inFlight) : old[i] \in Frames
  BY <1>1 DEF Frames
<1>3. old \in Seq(Frames) /\ Len(old) = Len(inFlight)
  BY <1>1, <1>2, IsASeq DEF Frames
<1>4. new \in Frames
  BY DEF Frames
<1>5. \A i \in 1..Len(inFlight) : ~old[i].current /\ old[i].request = inFlight[i].request
  BY <1>1 DEF Frames
<1>6. inFlight' = Append(old, new) /\ sync' = [Quiet EXCEPT !.pc = "sent"]
  BY DEF Send
<1> HIDE DEF old, new
<1>7. /\ inFlight' \in Seq(Frames) /\ DOMAIN inFlight' = 1..(Len(inFlight) + 1)
      /\ \A i \in 1..Len(inFlight) : inFlight'[i] = old[i]
      /\ inFlight'[Len(inFlight) + 1] = new
  BY <1>1, <1>3, <1>4, <1>6
<1>8. /\ sync' \in [pc : {"idle", "sent", "answered"}, left : 0..CallRetries, ran : BOOLEAN]
      /\ sync'.pc = "sent" /\ ~sync'.ran
  BY <1>6, QuietIs
<1>9. QED BY <1>5, <1>7, <1>8 DEF new

\* So the queue is in order again.
LEMMA SentQueued ==
    ASSUME ChannelTypeOK, NEW r \in Requests \cup Locking, Send(r),
           trap'.step \in {"lock", "unlock", "call"} => r = Command'
    PROVE  Queued'
<1>1. Len(inFlight) \in Nat
  BY DEF ChannelTypeOK
<1>2. /\ ~sync'.ran
      /\ DOMAIN inFlight' = 1..(Len(inFlight) + 1)
      /\ \A i \in 1..Len(inFlight) : ~inFlight'[i].current
      /\ inFlight'[Len(inFlight) + 1] = [request |-> r, current |-> TRUE]
  BY Sent
<1>3. \A i \in DOMAIN inFlight' : inFlight'[i].current <=> i = Len(inFlight) + 1
  BY <1>1, <1>2
<1>4. \A i, j \in DOMAIN inFlight' : i < j /\ inFlight'[i].current => inFlight'[j].current
  BY <1>1, <1>2, <1>3
<1>5. QED BY <1>2, <1>3, <1>4 DEF Queued

\* What send_sync sends for a call is no lock.
LEMMA SentNoLock ==
    ASSUME ChannelTypeOK, NEW r \in Requests \cup Locking, Send(r), r.op # "lock",
           \A i \in 1..Len(inFlight) : inFlight[i].request.op # "lock"
    PROVE  \A i \in DOMAIN inFlight' : inFlight'[i].request.op # "lock"
<1> DEFINE n == Len(inFlight)
<1>1. n \in Nat
  BY DEF ChannelTypeOK
<1>2. /\ DOMAIN inFlight' = 1..(n + 1)
      /\ \A i \in 1..n : inFlight'[i].request = inFlight[i].request
      /\ inFlight'[n + 1] = [request |-> r, current |-> TRUE]
  BY Sent
<1> HIDE DEF n
<1>3. SUFFICES ASSUME NEW i \in 1..(n + 1) PROVE inFlight'[i].request.op # "lock"
  BY <1>2
<1>4. CASE i = n + 1
  BY <1>2, <1>4
<1>5. CASE i # n + 1
  <2>1. i \in 1..n
    BY <1>1, <1>5
  <2>2. QED BY <1>2, <2>1 DEF n
<1>6. QED BY <1>4, <1>5

\* What a wire keeps whose oldest frame is taken.
LEMMA TailFrames ==
    ASSUME ChannelTypeOK, inFlight # <<>>
    PROVE  /\ Tail(inFlight) \in Seq(Frames) /\ Head(inFlight) = inFlight[1]
           /\ 1 \in DOMAIN inFlight /\ Head(inFlight) \in Frames
           /\ \A i \in DOMAIN Tail(inFlight) :
                 i + 1 \in DOMAIN inFlight /\ Tail(inFlight)[i] = inFlight[i + 1] /\ 1 < i + 1
           /\ \A i, j \in DOMAIN Tail(inFlight) : i < j => i + 1 < j + 1
BY DEF ChannelTypeOK

\* Nothing is under way at first.
LEMMA LockInitInv == CallsInit => LockInv
<1> SUFFICES ASSUME CallsInit PROVE LockInv
  OBVIOUS
<1>1. /\ inFlight = <<>> /\ trap = AtRest /\ sync = Quiet
      /\ reentry = FALSE /\ lost = FALSE /\ lockLost = FALSE
  BY DEF CallsInit
<1>2. ChannelTypeOK
  <2>1. AtRest \in [step : {"idle", "lock", "unlock", "call", "booting"},
                     request : Requests \cup {Nothing}]
    BY DEF AtRest
  <2>2. inFlight \in Seq(Frames)
    BY <1>1
  <2>3. QED BY <1>1, <2>1, <2>2, QuietIs DEF ChannelTypeOK
<1>3. DOMAIN inFlight = {}
  BY <1>1
<1>4. Queued /\ InStep /\ LockOver
  BY <1>1, <1>3, QuietIs DEF Queued, InStep, LockOver, NoLocks, AtRest
<1>5. QED BY <1>2, <1>4 DEF LockInv

\* One case for each step of the trap, of send_sync and of the RP.
LEMMA LockStepInv == LockInv /\ [CallsNext]_callsVars => LockInv'
<1> SUFFICES ASSUME LockInv, [CallsNext]_callsVars PROVE LockInv'
  OBVIOUS
<1>0. ChannelTypeOK /\ Queued /\ InStep /\ LockOver
  BY DEF LockInv
<1>1. ASSUME NEW r \in Requests, Trap(r) PROVE LockInv'
  <2>1. PICK asks \in AsksDrive(r) :
           /\ Send(IF asks THEN [op |-> "lock"] ELSE r)
           /\ trap' = [step |-> IF asks THEN "lock" ELSE "call", request |-> r]
    BY <1>1 DEF Trap
  <2>2. trap.step = "idle" /\ ~reentry /\ ~lost /\ ~lockLost' /\ UNCHANGED <<lost, reentry>>
    BY <1>1 DEF Trap, rpCalls
  <2> DEFINE c == IF asks THEN [op |-> "lock"] ELSE r
  <2>3. c \in Requests \cup Locking /\ c = Command' /\ Send(c)
    BY <2>1 DEF Locking, Command
  <2> HIDE DEF c
  <2>4. ChannelTypeOK'
    <3>1. lockLost' \in BOOLEAN
      BY <1>1 DEF Trap
    <3>2. QED BY <1>0, <2>1, <2>2, <2>3, <3>1, Sent DEF ChannelTypeOK
  <2>5. Queued'
    BY <1>0, <2>3, SentQueued
  <2>6. InStep'
    BY <1>0, <2>1, <2>3, Sent DEF InStep
  <2>7. LockOver'
    <3>1. CASE asks
      BY <2>1, <3>1 DEF LockOver
    <3>2. CASE ~asks
      <4>1. \A i \in 1..Len(inFlight) : inFlight[i].request.op # "lock"
        BY <1>0, <2>2 DEF LockOver, NoLocks, ChannelTypeOK
      <4>2. r.op # "lock" /\ c = r
        BY <3>2, RequestOps DEF c
      <4>3. \A i \in DOMAIN inFlight' : inFlight'[i].request.op # "lock"
        BY <1>0, <2>3, <4>1, <4>2, SentNoLock
      <4>4. QED BY <2>1, <2>2, <3>2, <4>3 DEF LockOver, NoLocks
    <3>3. QED BY <3>1, <3>2
  <2>8. QED BY <2>4, <2>5, <2>6, <2>7 DEF LockInv
<1>2. CASE SendAgain
  <2> DEFINE f == [request |-> Command, current |-> TRUE]
  <2>1. /\ sync.pc = "sent" /\ sync.left > 0 /\ sync' = [sync EXCEPT !.left = @ - 1]
        /\ inFlight' = Append(inFlight, f)
        /\ UNCHANGED <<trap, lost, lockLost, reentry>>
    BY <1>2 DEF SendAgain, Command, rpCalls
  <2>2. trap.step \in {"lock", "unlock", "call"} /\ Command \in Requests \cup Locking
        /\ (trap.step \in {"lock", "unlock"} => Command.op = trap.step)
        /\ (trap.step = "call" => Command.op # "lock")
    BY <1>0, <2>1, RequestOps DEF InStep, ChannelTypeOK, Command, Locking
  <2>3. f \in Frames /\ f.request = Command /\ f.current
    BY <2>2 DEF Frames
  <2>4. sync'.pc = sync.pc /\ sync'.ran = sync.ran
        /\ sync' \in [pc : {"idle", "sent", "answered"}, left : 0..CallRetries, ran : BOOLEAN]
    <3>1. CallRetries \in Nat
      BY CallsAssumption
    <3>2. sync.left - 1 \in 0..CallRetries
      BY <1>0, <2>1, <3>1 DEF ChannelTypeOK
    <3>3. QED BY <1>0, <2>1, <3>2 DEF ChannelTypeOK
  <2> HIDE DEF f
  <2>5. /\ inFlight' \in Seq(Frames) /\ Len(inFlight) \in Nat
        /\ DOMAIN inFlight = 1..Len(inFlight) /\ DOMAIN inFlight' = 1..(Len(inFlight) + 1)
        /\ \A i \in 1..Len(inFlight) : inFlight'[i] = inFlight[i]
        /\ inFlight'[Len(inFlight) + 1] = f
    BY <1>0, <2>1, <2>3 DEF ChannelTypeOK
  <2>6. ChannelTypeOK'
    BY <1>0, <2>1, <2>4, <2>5 DEF ChannelTypeOK
  <2>7. Command' = Command
    BY <2>1 DEF Command
  <2>8. Queued'
    <3>1. \A i, j \in DOMAIN inFlight' : i < j /\ inFlight'[i].current => inFlight'[j].current
      BY <1>0, <2>3, <2>5 DEF Queued
    <3>2. QED BY <1>0, <2>1, <2>3, <2>4, <2>5, <2>7, <3>1 DEF Queued
  <2>9. InStep'
    BY <1>0, <2>1, <2>4 DEF InStep
  <2>10. LockOver'
    BY <1>0, <2>1, <2>2, <2>3, <2>4, <2>5 DEF LockOver, NoLocks
  <2>11. QED BY <2>6, <2>8, <2>9, <2>10 DEF LockInv
<1>3. CASE SyncAnswered \/ SyncGivenUp
  <2>1. /\ sync.pc = "sent" /\ sync' = [sync EXCEPT !.pc = "answered"]
        /\ UNCHANGED <<trap, inFlight, reentry>>
    BY <1>3 DEF SyncAnswered, SyncGivenUp, rpCalls
  <2>2. sync'.pc = "answered" /\ sync'.ran = sync.ran /\ Command' = Command
    BY <1>0, <2>1 DEF ChannelTypeOK, Command
  <2>3. /\ lost' \in BOOLEAN /\ lockLost' \in BOOLEAN
        /\ ~lost' => ~lost
        /\ ~lockLost' => ~lockLost
        /\ trap.step = "call" /\ ~lost' => sync.ran
        /\ trap.step = "unlock" /\ ~lost' /\ ~lockLost' => sync.ran
    <3>1. CASE SyncAnswered
      BY <1>0, <3>1 DEF SyncAnswered, Mistakable, ChannelTypeOK
    <3>2. CASE SyncGivenUp
      <4>1. /\ lost' = (lost \/ trap.step # "lock")
            /\ lockLost' = (lockLost \/ trap.step = "lock")
        BY <3>2 DEF SyncGivenUp
      <4>2. /\ lost' \in BOOLEAN /\ lockLost' \in BOOLEAN
            /\ ~lost' => ~lost /\ trap.step = "lock"
            /\ ~lockLost' => ~lockLost
        BY <4>1, Zenon
      <4>3. QED BY <4>2
    <3>3. QED BY <1>3, <3>1, <3>2
  <2>4. ChannelTypeOK'
    BY <1>0, <2>1, <2>3 DEF ChannelTypeOK
  <2>5. Queued'
    BY <1>0, <2>1, <2>2 DEF Queued
  <2>6. InStep'
    BY <1>0, <2>1, <2>2, <2>3 DEF InStep
  <2>7. LockOver'
    BY <1>0, <2>1, <2>2, <2>3 DEF LockOver, NoLocks
  <2>8. QED BY <2>4, <2>5, <2>6, <2>7 DEF LockInv
<1>4. CASE NextCommand
  <2> DEFINE c == IF trap.step = "lock" THEN [op |-> "unlock"] ELSE trap.request
             s == IF trap.step = "lock" THEN "unlock" ELSE "call"
  <2>1. /\ sync.pc = "answered" /\ trap.step \in {"lock", "unlock"} /\ Send(c)
        /\ trap'.step = s /\ trap'.request = trap.request
        /\ trap' \in [step : {"idle", "lock", "unlock", "call", "booting"},
                      request : Requests \cup {Nothing}]
        /\ UNCHANGED <<lost, lockLost, reentry>>
    BY <1>0, <1>4 DEF NextCommand, ChannelTypeOK, rpCalls
  <2>2. trap.request \in Requests /\ c \in Requests \cup Locking /\ c = Command' /\ c.op # "lock"
    BY <1>0, <2>1, RequestOps DEF InStep, Locking, Command
  <2>3. ChannelTypeOK'
    BY <1>0, <2>1, <2>2, Sent DEF ChannelTypeOK
  <2>4. Queued'
    BY <1>0, <2>1, <2>2, SentQueued
  <2>5. InStep'
    BY <1>0, <2>1, <2>2, Sent DEF InStep
  <2>6. LockOver'
    <3>1. CASE trap.step = "lock"
      BY <1>0, <2>1, <2>2, <3>1, Sent DEF LockOver
    <3>2. CASE trap.step = "unlock" /\ ~lost /\ ~lockLost
      <4>1. sync.ran /\ ~reentry
        BY <1>0, <2>1, <3>2 DEF InStep, LockOver
      <4>2. \A i \in DOMAIN inFlight : inFlight[i].request = [op |-> "unlock"]
        BY <1>0, <2>1, <3>2, <4>1 DEF Queued, Command
      <4>3. \A i \in 1..Len(inFlight) : inFlight[i].request.op # "lock"
        BY <1>0, <4>2 DEF ChannelTypeOK
      <4>4. NoLocks'
        <5> HIDE DEF c
        <5>1. QED BY <1>0, <2>1, <2>2, <4>3, SentNoLock DEF NoLocks
      <4>5. QED BY <2>1, <3>2, <4>1, <4>4 DEF LockOver
    <3>3. CASE trap.step = "unlock" /\ (lost \/ lockLost)
      BY <2>1, <3>3 DEF LockOver
    <3>4. QED BY <2>1, <3>1, <3>2, <3>3
  <2>7. QED BY <2>3, <2>4, <2>5, <2>6 DEF LockInv
<1>5. CASE ReturnStatus \/ ReturnPath
  <2>1. /\ sync.pc = "answered" /\ trap.step = "call"
        /\ trap' = AtRest /\ sync' = Quiet /\ UNCHANGED <<lost, lockLost, inFlight, reentry>>
    BY <1>5 DEF ReturnStatus, ReturnPath, Returning, rpCalls
  <2>2. ChannelTypeOK'
    BY <1>0, <2>1, QuietIs DEF ChannelTypeOK, AtRest
  <2>3. ~lost => NoLocks
    <3>1. SUFFICES ASSUME ~lost PROVE NoLocks
      OBVIOUS
    <3>2. sync.ran /\ trap.request \in Requests
      BY <1>0, <2>1, <3>1 DEF InStep
    <3>3. \A i \in DOMAIN inFlight : inFlight[i].request = trap.request
      BY <1>0, <2>1, <3>2 DEF Queued, Command
    <3>4. QED BY <3>2, <3>3, RequestOps DEF NoLocks
  <2>4. Queued' /\ InStep'
    BY <1>0, <2>1, QuietIs DEF Queued, InStep, AtRest
  <2>5. LockOver'
    BY <1>0, <2>1, <2>3, QuietIs DEF LockOver, NoLocks, AtRest
  <2>6. QED BY <2>2, <2>4, <2>5 DEF LockInv
<1>6. CASE ResetTOS
  <2>1. /\ trap' = [AtRest EXCEPT !.step = "booting"] /\ sync' = Quiet
        /\ UNCHANGED <<lost, lockLost, inFlight, reentry>>
    BY <1>6 DEF ResetTOS, rpCalls
  <2>2. ChannelTypeOK'
    BY <1>0, <2>1, QuietIs DEF ChannelTypeOK, AtRest
  <2>3. Queued' /\ InStep' /\ LockOver'
    BY <1>0, <2>1, QuietIs DEF Queued, InStep, LockOver, AtRest
  <2>4. QED BY <2>2, <2>3 DEF LockInv
<1>7. CASE HelloPublishes
  <2>1. /\ trap.step = "booting" /\ inFlight = <<>> /\ trap' = AtRest /\ reentry' = FALSE
        /\ lost' = FALSE /\ lockLost' = FALSE /\ UNCHANGED <<sync, inFlight>>
    BY <1>7 DEF HelloPublishes
  <2>2. ChannelTypeOK'
    BY <1>0, <2>1 DEF ChannelTypeOK, AtRest
  <2>3. DOMAIN inFlight' = {}
    BY <2>1
  <2>4. Queued' /\ InStep' /\ LockOver'
    BY <1>0, <2>1, <2>3 DEF Queued, InStep, LockOver, NoLocks, AtRest
  <2>5. QED BY <2>2, <2>4 DEF LockInv
<1>8. CASE RunFrame
  <2>1. inFlight # <<>> /\ inFlight' = Tail(inFlight) /\ UNCHANGED <<trap, lost, lockLost>>
    BY <1>8 DEF RunFrame
  <2> DEFINE h == Head(inFlight)
  <2>2. /\ inFlight' \in Seq(Frames) /\ h = inFlight[1] /\ 1 \in DOMAIN inFlight /\ h \in Frames
        /\ \A i \in DOMAIN inFlight' :
              i + 1 \in DOMAIN inFlight /\ inFlight'[i] = inFlight[i + 1] /\ 1 < i + 1
        /\ \A i, j \in DOMAIN inFlight' : i < j => i + 1 < j + 1
    BY <1>0, <2>1, TailFrames
  <2>3. /\ h.request.op = "lock" => reentry' = TRUE
        /\ h.request.op = "unlock" => reentry' = FALSE
        /\ h.request.op \notin {"lock", "unlock"} => reentry' = reentry
    BY <1>8 DEF RunFrame, HandleReentry, HandleDsetpathCall, HandleDgetpathCall,
                HandleDfreeCall, HandleFattribCall, HandleDcreateCall, HandleDdeleteCall,
                HandleFdeleteCall, HandleFrenameCall
  <2>4. sync' = IF h.current /\ sync.pc = "sent" THEN [sync EXCEPT !.ran = TRUE] ELSE sync
    BY <1>8 DEF RunFrame
  <2> HIDE DEF h
  <2>5. /\ sync' \in [pc : {"idle", "sent", "answered"}, left : 0..CallRetries, ran : BOOLEAN]
        /\ sync'.pc = sync.pc
        /\ h.current /\ sync.pc = "sent" => sync'.ran = TRUE
        /\ ~(h.current /\ sync.pc = "sent") => sync' = sync
    <3>1. sync \in [pc : {"idle", "sent", "answered"}, left : 0..CallRetries, ran : BOOLEAN]
      BY <1>0 DEF ChannelTypeOK
    <3>2. CASE h.current /\ sync.pc = "sent"
      BY <2>4, <3>1, <3>2
    <3>3. CASE ~(h.current /\ sync.pc = "sent")
      BY <2>4, <3>1, <3>3
    <3>4. QED BY <3>2, <3>3
  <2>6. ChannelTypeOK' /\ Command' = Command
    <3>1. reentry' \in BOOLEAN
      BY <1>0, <2>3 DEF ChannelTypeOK
    <3>2. QED BY <1>0, <2>1, <2>2, <2>5, <3>1 DEF ChannelTypeOK, Command
  <2>7. Queued'
    <3>1. h.current => \A i \in DOMAIN inFlight' : inFlight'[i].current
      BY <1>0, <2>2 DEF Queued
    <3>2. QED BY <1>0, <2>1, <2>2, <2>5, <2>6, <3>1 DEF Queued
  <2>8. InStep'
    <3>1. UNCHANGED <<trap, lost, lockLost>> /\ sync'.pc = sync.pc /\ (sync.ran => sync'.ran)
      <4>1. CASE h.current /\ sync.pc = "sent"
        BY <2>1, <2>5, <4>1
      <4>2. CASE ~(h.current /\ sync.pc = "sent")
        BY <2>1, <2>5, <4>2
      <4>3. QED BY <4>1, <4>2
    <3>2. QED BY <1>0, <3>1 DEF InStep
  <2>9. LockOver'
    <3>1. ASSUME trap.step = "unlock", sync'.ran PROVE ~reentry'
      <4>1. sync.pc # "idle" /\ h.current
        BY <1>0, <2>2, <2>5, <3>1 DEF InStep, Queued
      <4>2. h.request = [op |-> "unlock"]
        BY <1>0, <2>2, <3>1, <4>1 DEF Queued, Command
      <4>3. QED BY <2>3, <4>2
    <3>2. NoLocks => NoLocks' /\ h.request.op # "lock"
      BY <2>2 DEF NoLocks
    <3>3. ASSUME trap.step \in {"idle", "call"}, ~lost, ~lockLost
          PROVE  ~reentry' /\ NoLocks'
      BY <1>0, <2>3, <3>2, <3>3 DEF LockOver
    <3>4. QED BY <1>0, <2>1, <3>1, <3>2, <3>3 DEF LockOver
  <2>10. QED BY <2>6, <2>7, <2>8, <2>9 DEF LockInv
<1>9. CASE LoseFrame
  <2>1. /\ inFlight # <<>> /\ inFlight' = Tail(inFlight)
        /\ UNCHANGED <<trap, sync, lost, lockLost, reentry>>
    BY <1>9 DEF LoseFrame, stCalls, rpCalls
  <2>2. ChannelTypeOK' /\ Command' = Command
    BY <1>0, <2>1, TailFrames DEF ChannelTypeOK, Command
  <2>3. Queued' /\ InStep' /\ LockOver'
    BY <1>0, <2>1, <2>2, TailFrames DEF Queued, InStep, LockOver, NoLocks
  <2>4. QED BY <2>2, <2>3 DEF LockInv
<1>10. CASE UNCHANGED callsVars
  <2>1. UNCHANGED <<trap, sync, inFlight, reentry, lost, lockLost>>
    BY <1>10 DEF callsVars, stCalls, rpCalls
  <2>2. QED BY <1>0, <2>1 DEF LockInv, ChannelTypeOK, Queued, InStep, LockOver, NoLocks, Command
<1>11. QED
  BY <1>1, <1>2, <1>3, <1>4, <1>5, <1>6, <1>7, <1>8, <1>9, <1>10 DEF CallsNext

\* The re-entry lock outlasts its call only if the LOCK or the UNLOCK was given up.
THEOREM BypassHolds == CallsSpec => []BypassNeedsGiveUp
<1>1. LockInv => BypassNeedsGiveUp
  BY DEF LockInv, LockOver, ChannelTypeOK, BypassNeedsGiveUp
<1>2. QED BY <1>1, LockInitInv, LockStepInv, PTL DEF CallsSpec

----------------------------------------------------------------------------
(* The folders of the card.                                                *)

\* The beginning of a path.
LEMMA Beginning ==
    ASSUME NEW x \in Seq(Names), NEW k \in 0..Len(x)
    PROVE  /\ SubSeq(x, 1, k) \in Seq(Names) /\ Len(SubSeq(x, 1, k)) = k
           /\ \A i \in 1..k : SubSeq(x, 1, k)[i] = x[i]
<1>1. Len(x) \in Nat /\ \A i \in 1..k : x[i] \in Names
  OBVIOUS
<1>2. QED BY <1>1, SubSeqProperties

\* IsPrefix, element by element.
LEMMA PrefixIs ==
    ASSUME NEW p \in Seq(Names), NEW x \in Seq(Names)
    PROVE  IsPrefix(p, x) <=> Len(p) <= Len(x) /\ \A i \in 1..Len(p) : p[i] = x[i]
<1>1. Len(p) \in Nat /\ Len(x) \in Nat /\ SubSeq(p, 1, Len(p)) = p
  BY SubSeqFull
<1>2. ASSUME Len(p) <= Len(x)
      PROVE  /\ SubSeq(x, 1, Len(p)) \in Seq(Names) /\ Len(SubSeq(x, 1, Len(p))) = Len(p)
             /\ \A i \in 1..Len(p) : SubSeq(x, 1, Len(p))[i] = x[i]
  BY <1>1, <1>2, Beginning
<1>3. ASSUME Len(p) <= Len(x), \A i \in 1..Len(p) : p[i] = x[i]
      PROVE  p = SubSeq(x, 1, Len(p))
  BY <1>1, <1>2, <1>3, SeqEqual
<1>4. QED BY <1>1, <1>2, <1>3 DEF IsPrefix

\* Beginnings of a path are among each other as their lengths are.
LEMMA Beginnings ==
    ASSUME NEW x \in Seq(Names), NEW k \in 0..Len(x)
    PROVE  /\ IsPrefix(SubSeq(x, 1, k), x)
           /\ \A j \in 0..k : SubSeq(SubSeq(x, 1, k), 1, j) = SubSeq(x, 1, j)
           /\ \A p \in Seq(Names) : IsPrefix(p, SubSeq(x, 1, k)) => IsPrefix(p, x)
           /\ \A p \in Seq(Names) : IsPrefix(p, x) /\ Len(p) <= k => IsPrefix(p, SubSeq(x, 1, k))
           /\ \A p \in Seq(Names) : IsPrefix(p, x) /\ Len(p) = k => p = SubSeq(x, 1, k)
<1> DEFINE y == SubSeq(x, 1, k)
<1>1. Len(x) \in Nat /\ y \in Seq(Names) /\ Len(y) = k /\ \A i \in 1..k : y[i] = x[i]
  BY Beginning
<1> HIDE DEF y
<1>2. IsPrefix(y, x)
  BY <1>1, PrefixIs
<1>3. ASSUME NEW j \in 0..k PROVE SubSeq(y, 1, j) = SubSeq(x, 1, j)
  <2>1. j \in 0..Len(x) /\ j \in 0..Len(y)
    BY <1>1
  <2>2. /\ SubSeq(y, 1, j) \in Seq(Names) /\ Len(SubSeq(y, 1, j)) = j
        /\ \A i \in 1..j : SubSeq(y, 1, j)[i] = y[i]
    BY <1>1, <2>1, Beginning
  <2>3. /\ SubSeq(x, 1, j) \in Seq(Names) /\ Len(SubSeq(x, 1, j)) = j
        /\ \A i \in 1..j : SubSeq(x, 1, j)[i] = x[i]
    BY <2>1, Beginning
  <2>4. \A i \in 1..j : SubSeq(y, 1, j)[i] = SubSeq(x, 1, j)[i]
    BY <1>1, <2>2, <2>3
  <2>5. QED BY <2>2, <2>3, <2>4, SeqEqual
<1>4. ASSUME NEW p \in Seq(Names) PROVE IsPrefix(p, y) => IsPrefix(p, x)
  <2>1. Len(p) \in Nat
    OBVIOUS
  <2>2. QED BY <1>1, <2>1, PrefixIs
<1>5. ASSUME NEW p \in Seq(Names) PROVE IsPrefix(p, x) /\ Len(p) <= k => IsPrefix(p, y)
  <2>1. Len(p) \in Nat
    OBVIOUS
  <2>2. QED BY <1>1, <2>1, PrefixIs
<1>6. ASSUME NEW p \in Seq(Names), IsPrefix(p, x), Len(p) = k PROVE p = y
  BY <1>1, <1>6, PrefixIs, SeqEqual
<1>7. QED BY <1>2, <1>3, <1>4, <1>5, <1>6 DEF y

\* A path that moves with a folder from s to d, seen from where it was.
Origin(s, d, n) == s \o SubSeq(n, Len(d) + 1, Len(n))

\* What a moved path was, element by element.
LEMMA OriginIs ==
    ASSUME NEW s \in Seq(Names), NEW d \in Seq(Names), NEW x \in Seq(Names), IsPrefix(d, x)
    PROVE  /\ Origin(s, d, x) \in Seq(Names)
           /\ Len(Origin(s, d, x)) = Len(s) + Len(x) - Len(d)
           /\ \A i \in 1..Len(Origin(s, d, x)) :
                 Origin(s, d, x)[i] = IF i <= Len(s) THEN s[i] ELSE x[Len(d) + i - Len(s)]
<1> DEFINE t == SubSeq(x, Len(d) + 1, Len(x))
<1>1. Len(s) \in Nat /\ Len(d) \in Nat /\ Len(x) \in Nat /\ Len(d) <= Len(x)
  BY DEF IsPrefix
<1>2. Len(d) + 1 \in Int /\ Len(x) \in Int /\ \A i \in (Len(d) + 1)..Len(x) : x[i] \in Names
  BY <1>1
<1>3. /\ t \in Seq(Names)
      /\ Len(t) = IF Len(d) + 1 <= Len(x) THEN Len(x) - (Len(d) + 1) + 1 ELSE 0
      /\ \A i \in 1..(Len(x) - (Len(d) + 1) + 1) : t[i] = x[(Len(d) + 1) + i - 1]
  BY <1>2, SubSeqProperties
<1> HIDE DEF t
<1>4. Len(t) = Len(x) - Len(d) /\ \A i \in 1..Len(t) : t[i] = x[Len(d) + i]
  BY <1>1, <1>3
<1>5. /\ s \o t \in Seq(Names) /\ Len(s \o t) = Len(s) + Len(t)
      /\ \A i \in 1..(Len(s) + Len(t)) : (s \o t)[i] = IF i <= Len(s) THEN s[i] ELSE t[i - Len(s)]
  BY <1>3, ConcatProperties
<1>6. ASSUME NEW i \in 1..(Len(s) + Len(t)), ~(i <= Len(s))
      PROVE  t[i - Len(s)] = x[Len(d) + i - Len(s)]
  <2>1. Len(t) \in Nat
    BY <1>1, <1>4
  <2>2. i - Len(s) \in 1..Len(t) /\ Len(d) + (i - Len(s)) = Len(d) + i - Len(s)
    BY <1>1, <1>6, <2>1
  <2>3. t[i - Len(s)] = x[Len(d) + (i - Len(s))]
    BY <1>4, <2>2
  <2>4. QED BY <2>2, <2>3
<1>7. Origin(s, d, x) = s \o t
  BY DEF t, Origin
<1>8. QED BY <1>1, <1>4, <1>5, <1>6, <1>7

\* A beginning of a moved path was a beginning of what the path was.
LEMMA OriginOfBeginning ==
    ASSUME NEW s \in Seq(Names), NEW d \in Seq(Names), NEW x \in Seq(Names), IsPrefix(d, x),
           NEW k \in Len(d)..Len(x)
    PROVE  \E j \in 0..Len(Origin(s, d, x)) :
              Origin(s, d, SubSeq(x, 1, k)) = SubSeq(Origin(s, d, x), 1, j)
<1> DEFINE y == SubSeq(x, 1, k)
           o == Origin(s, d, x)
           j == Len(s) + k - Len(d)
<1>1. Len(s) \in Nat /\ Len(d) \in Nat /\ Len(x) \in Nat /\ k \in Nat /\ k \in 0..Len(x)
      /\ Len(d) <= k /\ k <= Len(x)
  <2>1. Len(s) \in Nat /\ Len(d) \in Nat /\ Len(x) \in Nat
    OBVIOUS
  <2>2. QED BY <2>1
<1>2. y \in Seq(Names) /\ Len(y) = k /\ \A i \in 1..k : y[i] = x[i]
  BY <1>1, Beginning
<1>3. IsPrefix(d, y)
  BY <1>1, Beginnings
<1> HIDE DEF y
<1>4. /\ o \in Seq(Names) /\ Len(o) = Len(s) + Len(x) - Len(d)
      /\ \A i \in 1..Len(o) : o[i] = IF i <= Len(s) THEN s[i] ELSE x[Len(d) + i - Len(s)]
  BY OriginIs
<1>5. /\ Origin(s, d, y) \in Seq(Names) /\ Len(Origin(s, d, y)) = j
      /\ \A i \in 1..j :
            Origin(s, d, y)[i] = IF i <= Len(s) THEN s[i] ELSE y[Len(d) + i - Len(s)]
  <2>1. /\ Origin(s, d, y) \in Seq(Names)
        /\ Len(Origin(s, d, y)) = Len(s) + Len(y) - Len(d)
        /\ \A i \in 1..Len(Origin(s, d, y)) :
              Origin(s, d, y)[i] = IF i <= Len(s) THEN s[i] ELSE y[Len(d) + i - Len(s)]
    BY <1>2, <1>3, OriginIs
  <2>2. QED BY <1>2, <2>1
<1> HIDE DEF o
<1>6. j \in 0..Len(o)
  BY <1>1, <1>4
<1>7. /\ SubSeq(o, 1, j) \in Seq(Names) /\ Len(SubSeq(o, 1, j)) = j
      /\ \A i \in 1..j : SubSeq(o, 1, j)[i] = o[i]
  BY <1>4, <1>6, Beginning
<1>8. ASSUME NEW i \in 1..j PROVE Origin(s, d, y)[i] = SubSeq(o, 1, j)[i]
  <2>1. i \in 1..Len(o) /\ SubSeq(o, 1, j)[i] = o[i]
    BY <1>1, <1>6, <1>7
  <2>2. CASE i <= Len(s)
    BY <1>4, <1>5, <2>1, <2>2
  <2>3. CASE ~(i <= Len(s))
    <3>1. Len(d) + i - Len(s) \in 1..k
      BY <1>1, <2>3
    <3>2. y[Len(d) + i - Len(s)] = x[Len(d) + i - Len(s)]
      BY <1>2, <3>1
    <3>3. QED BY <1>4, <1>5, <2>1, <2>3, <3>2
  <2>4. QED BY <2>2, <2>3
<1>9. Origin(s, d, y) = SubSeq(o, 1, j)
  <2> HIDE DEF j
  <2>1. QED BY <1>5, <1>7, <1>8, SeqEqual
<1>10. QED BY <1>6, <1>9 DEF y, o

\* The card: the root is a folder, and whatever exists lies in what exists.
CardTypes ==
    /\ tree \in [Nodes -> {"none", "dir", "file"}] /\ tree[<<>>] = "dir"
    /\ readOnly \subseteq {n \in Nodes \ {<<>>} : tree[n] # "none"}
    /\ dpath \in Nodes

Rooted == \A n \in Nodes : ~Missing(n) => \A k \in 0..Len(n) : ~Missing(SubSeq(n, 1, k))

Card == CardTypes /\ Rooted

\* The paths the tree may have: with each path those above it.
LEMMA NodesAre ==
    /\ <<>> \in Nodes
    /\ \A n \in Nodes : n \in Seq(Names) /\ \A k \in 0..Len(n) : SubSeq(n, 1, k) \in Nodes
BY CallsAssumption

\* What lies above a path whose folder exists.
LEMMA Above ==
    ASSUME Card, NEW n \in Seq(Names), n # <<>>, ~NoParent(n), NEW k \in 0..(Len(n) - 1)
    PROVE  SubSeq(n, 1, k) \in Nodes /\ ~Missing(SubSeq(n, 1, k))
<1> DEFINE f == Front(n)
<1>1. Len(n) \in Nat /\ Len(n) > 0 /\ Len(n) - 1 \in 0..Len(n)
  BY EmptySeq
<1>2. f = SubSeq(n, 1, Len(n) - 1)
  BY DEF Front
<1>3. f \in Seq(Names) /\ Len(f) = Len(n) - 1
  BY <1>1, <1>2, Beginning
<1>4. SubSeq(f, 1, k) = SubSeq(n, 1, k)
  BY <1>1, <1>2, Beginnings
<1>5. f \in Nodes /\ ~Missing(f)
  BY DEF NoParent, Missing, Kind
<1>6. QED BY <1>3, <1>4, <1>5, NodesAre DEF Card, Rooted

\* Dcreate.
LEMMA CardMakes ==
    ASSUME Card, NEW n \in Nodes, n # <<>>, Missing(n), ~NoParent(n),
           tree' = [tree EXCEPT ![n] = "dir"], UNCHANGED <<readOnly, dpath>>
    PROVE  Card' /\ tree'[n] = "dir"
<1>1. tree \in [Nodes -> {"none", "dir", "file"}] /\ tree[<<>>] = "dir"
  BY DEF Card, CardTypes
<1>2. tree'[n] = "dir" /\ \A m \in Nodes : m # n => tree'[m] = tree[m]
  BY <1>1
<1>3. CardTypes'
  BY <1>1, <1>2 DEF Card, CardTypes
<1>4. \A m \in Nodes : ~Missing(m) => tree'[m] # "none"
  BY <1>2 DEF Missing, Kind
<1>5. ASSUME NEW m \in Nodes, tree'[m] # "none", NEW k \in 0..Len(m)
      PROVE  tree'[SubSeq(m, 1, k)] # "none"
  <2>1. m \in Seq(Names) /\ SubSeq(m, 1, k) \in Nodes
    BY NodesAre
  <2>2. CASE m # n
    BY <1>2, <1>4, <1>5, <2>1, <2>2 DEF Card, Rooted, Missing, Kind
  <2>3. CASE m = n /\ k = Len(m)
    BY <1>2, <2>1, <2>3, SubSeqFull
  <2>4. CASE m = n /\ k # Len(m)
    <3>1. k \in 0..(Len(n) - 1) /\ n \in Seq(Names)
      BY <2>1, <2>4
    <3>2. SubSeq(n, 1, k) \in Nodes /\ ~Missing(SubSeq(n, 1, k))
      BY <3>1, Above
    <3>3. QED BY <1>4, <2>4, <3>2
  <2>5. QED BY <2>2, <2>3, <2>4
<1>6. Rooted'
  BY <1>5, NodesAre DEF Rooted, Missing, Kind
<1>7. QED BY <1>2, <1>3, <1>6 DEF Card

\* Ddelete and Fdelete.
LEMMA CardRemoves ==
    ASSUME Card, NEW n \in Seq(Names), n # <<>>, Removed(n), UNCHANGED <<readOnly, dpath>>
    PROVE  Card' /\ n \in Nodes /\ tree'[n] = "none"
<1>1. tree \in [Nodes -> {"none", "dir", "file"}] /\ tree[<<>>] = "dir"
  BY DEF Card, CardTypes
<1>2. n \in Nodes /\ n \notin readOnly /\ tree' = [tree EXCEPT ![n] = "none"]
  BY DEF Removed, Kind
<1>3. tree'[n] = "none" /\ \A m \in Nodes : m # n => tree'[m] = tree[m]
  BY <1>1, <1>2
<1>4. CardTypes'
  BY <1>1, <1>2, <1>3 DEF Card, CardTypes
<1>5. ASSUME NEW m \in Nodes, tree'[m] # "none", NEW k \in 0..Len(m)
      PROVE  tree'[SubSeq(m, 1, k)] # "none"
  <2>1. m \in Seq(Names) /\ SubSeq(m, 1, k) \in Nodes /\ IsPrefix(SubSeq(m, 1, k), m)
    BY NodesAre, Beginnings
  <2>2. m # n /\ ~Missing(m)
    BY <1>3, <1>5 DEF Missing, Kind
  <2>3. SubSeq(m, 1, k) # n
    BY <2>1, <2>2 DEF Removed, Empty
  <2>4. ~Missing(SubSeq(m, 1, k))
    BY <2>2 DEF Card, Rooted
  <2>5. QED BY <1>3, <2>1, <2>3, <2>4 DEF Missing, Kind
<1>6. Rooted'
  BY <1>5, NodesAre DEF Rooted, Missing, Kind
<1>7. QED BY <1>2, <1>3, <1>4, <1>6 DEF Card

\* Frename: the new tree, path by path.
LEMMA MovedTree ==
    ASSUME NEW s, NEW d, Moved(s, d)
    PROVE  /\ DOMAIN tree' = Nodes
           /\ \A n \in Nodes :
                 tree'[n] = IF IsPrefix(d, n) THEN Kind(Origin(s, d, n))
                            ELSE IF IsPrefix(s, n) THEN "none" ELSE tree[n]
           /\ \A n \in readOnly' :
                 /\ n \in Nodes /\ tree'[n] # "none"
                 /\ IF IsPrefix(d, n) THEN Origin(s, d, n) \in readOnly ELSE n \in readOnly
BY DEF Moved, Origin

\* What Frename moves is found below d afterwards, and nothing below s.
LEMMA CardMoves ==
    ASSUME Card, NEW s \in Seq(Names), NEW d \in Nodes, s # <<>>, d # <<>>,
           ~Missing(s), Missing(d), ~NoParent(d), ~IsPrefix(s, d),
           Moved(s, d), UNCHANGED dpath
    PROVE  Card' /\ tree'[d] # "none" /\ s \in Nodes /\ tree'[s] = "none"
<1>1. tree \in [Nodes -> {"none", "dir", "file"}] /\ tree[<<>>] = "dir"
  BY DEF Card, CardTypes
<1>2. /\ s \in Nodes /\ d \in Seq(Names) /\ Len(s) \in Nat /\ Len(d) \in Nat
      /\ Len(s) > 0 /\ Len(d) > 0
  <2>1. s \in Nodes
    BY DEF Missing, Kind
  <2>2. d \in Seq(Names)
    BY NodesAre
  <2>3. QED BY <2>1, <2>2, EmptySeq
<1>3. \A n \in Nodes : IsPrefix(d, n) => tree'[n] = Kind(Origin(s, d, n))
  BY MovedTree
<1>4. \A n \in Nodes : ~IsPrefix(d, n) /\ IsPrefix(s, n) => tree'[n] = "none"
  BY MovedTree
<1>5. \A n \in Nodes : ~IsPrefix(d, n) /\ ~IsPrefix(s, n) => tree'[n] = tree[n]
  BY MovedTree
<1>6. tree'[d] # "none"
  <2>1. IsPrefix(d, d)
    BY <1>2, PrefixIs
  <2>2. /\ Origin(s, d, d) \in Seq(Names) /\ Len(Origin(s, d, d)) = Len(s)
        /\ \A i \in 1..Len(s) : Origin(s, d, d)[i] = s[i]
    <3>1. /\ Origin(s, d, d) \in Seq(Names)
          /\ Len(Origin(s, d, d)) = Len(s) + Len(d) - Len(d)
          /\ \A i \in 1..Len(Origin(s, d, d)) :
                Origin(s, d, d)[i] = IF i <= Len(s) THEN s[i] ELSE d[Len(d) + i - Len(s)]
      BY <1>2, <2>1, OriginIs
    <3>2. Len(Origin(s, d, d)) = Len(s)
      BY <1>2, <3>1
    <3>3. \A i \in 1..Len(s) : i <= Len(s)
      BY <1>2
    <3>4. QED BY <3>1, <3>2, <3>3
  <2>3. Origin(s, d, d) = s
    BY <2>2, SeqEqual
  <2>4. QED BY <1>3, <2>1, <2>3 DEF Missing
<1>7. ~IsPrefix(d, s)
  <2>1. SUFFICES ASSUME IsPrefix(d, s) PROVE FALSE
    OBVIOUS
  <2>2. Len(d) \in 0..Len(s) /\ d = SubSeq(s, 1, Len(d))
    <3>1. Len(d) \in 0..Len(s)
      BY <1>2, <2>1 DEF IsPrefix
    <3>2. QED BY <1>2, <2>1, <3>1, Beginnings
  <2>3. QED BY <1>2, <2>2 DEF Card, Rooted
<1>8. tree'[s] = "none"
  <2>1. IsPrefix(s, s)
    BY <1>2, PrefixIs
  <2>2. QED BY <1>2, <1>4, <1>7, <2>1
<1>9. ~IsPrefix(d, <<>>) /\ ~IsPrefix(s, <<>>)
  BY <1>2 DEF IsPrefix
<1>10. CardTypes'
  <2>1. tree'[<<>>] = "dir"
    BY <1>1, <1>5, <1>9, NodesAre
  <2>2. \A n \in Nodes : Kind(n) \in {"none", "dir", "file"} /\ tree'[n] \in {"none", "dir", "file"}
    <3>1. \A n : Kind(n) \in {"none", "dir", "file"}
      BY <1>1 DEF Kind
    <3>2. QED BY <1>1, <1>3, <1>4, <1>5, <3>1
  <2>3. tree' \in [Nodes -> {"none", "dir", "file"}]
    <3>1. \E f : tree' = [n \in Nodes |-> f[n]]
      <4>1. tree' = [n \in Nodes |-> tree'[n]]
        BY DEF Moved
      <4>2. QED BY <4>1
    <3>2. QED BY <2>2, <3>1
  <2>4. \A n \in readOnly' : n \in Nodes /\ tree'[n] # "none" /\ n # <<>>
    <3>1. <<>> \notin readOnly
      BY DEF Card, CardTypes
    <3>2. QED BY <1>9, <3>1, MovedTree
  <2>5. QED BY <2>1, <2>3, <2>4 DEF Card, CardTypes
<1>11. ASSUME NEW x \in Nodes, tree'[x] # "none", NEW k \in 0..Len(x)
       PROVE  tree'[SubSeq(x, 1, k)] # "none"
  <2> DEFINE y == SubSeq(x, 1, k)
  <2>1. x \in Seq(Names) /\ y \in Nodes /\ y \in Seq(Names) /\ Len(y) = k /\ Len(x) \in Nat
    BY NodesAre, Beginning
  <2>2. /\ \A p \in Seq(Names) : IsPrefix(p, y) => IsPrefix(p, x)
        /\ \A p \in Seq(Names) : IsPrefix(p, x) /\ Len(p) <= k => IsPrefix(p, y)
    BY <2>1, Beginnings
  <2>3. CASE ~IsPrefix(d, x)
    <3>1. ~IsPrefix(s, x) /\ tree[x] # "none"
      BY <1>4, <1>5, <1>11, <2>3
    <3>2. ~IsPrefix(s, y) /\ ~IsPrefix(d, y)
      BY <1>2, <2>2, <2>3, <3>1
    <3>3. ~Missing(y)
      BY <3>1 DEF Card, Rooted, Missing, Kind
    <3>4. QED BY <1>5, <2>1, <3>2, <3>3 DEF Missing, Kind
  <2>4. CASE IsPrefix(d, x) /\ Len(d) <= k
    <3>1. IsPrefix(d, y)
      BY <1>2, <2>2, <2>4
    <3>2. k \in Len(d)..Len(x)
      BY <1>2, <2>1, <2>4
    <3>3. PICK j \in 0..Len(Origin(s, d, x)) : Origin(s, d, y) = SubSeq(Origin(s, d, x), 1, j)
      BY <1>2, <2>1, <2>4, <3>2, OriginOfBeginning
    <3>4. ~Missing(Origin(s, d, x)) /\ Origin(s, d, x) \in Nodes
      BY <1>3, <1>11, <2>4 DEF Missing, Kind
    <3>5. ~Missing(Origin(s, d, y))
      BY <3>3, <3>4 DEF Card, Rooted
    <3>6. QED BY <1>3, <2>1, <3>1, <3>5 DEF Missing
  <2>5. CASE IsPrefix(d, x) /\ ~(Len(d) <= k)
    <3>1. k \in 0..(Len(d) - 1) /\ Len(d) \in 0..Len(x)
      BY <1>2, <2>1, <2>5 DEF IsPrefix
    <3>2. d = SubSeq(x, 1, Len(d))
      BY <1>2, <2>1, <2>5, <3>1, Beginnings
    <3>3. SubSeq(d, 1, k) = y
      <4>1. k \in 0..Len(d)
        BY <1>2, <3>1
      <4>2. QED BY <2>1, <3>1, <3>2, <4>1, Beginnings
    <3>4. ~Missing(y)
      BY <1>2, <3>1, <3>3, Above
    <3>5. ~IsPrefix(d, y)
      BY <1>2, <2>1, <3>1 DEF IsPrefix
    <3>6. ~IsPrefix(s, y)
      <4>1. k \in 0..Len(d)
        BY <1>2, <3>1
      <4>2. IsPrefix(s, y) => IsPrefix(s, d)
        BY <1>2, <3>3, <4>1, Beginnings
      <4>3. QED BY <4>2
    <3>7. QED BY <1>5, <2>1, <3>4, <3>5, <3>6 DEF Missing, Kind
  <2>6. QED BY <2>3, <2>4, <2>5
<1>12. Rooted'
  BY <1>11, NodesAre DEF Rooted, Missing, Kind
<1>13. QED BY <1>2, <1>6, <1>8, <1>10, <1>12 DEF Card

----------------------------------------------------------------------------
(* What a handler has done.                                                *)

Statuses == {0, ReadOnlyBit, EFILNF_, EPTHNF, EACCDN, EINTRN, EERROR}

\* The command r has been run: a failure has changed nothing, and a success has
\* achieved what was asked for, whoever believes in the directory it went by.
Ran(r) ==
    /\ Card'
    /\ answer' \in [status : Statuses, path : Nodes]
    /\ answer'.status < 0 => UNCHANGED <<tree, readOnly, dpath>>
    /\ r.op # "Dsetpath" => dpath' = dpath
    /\ r.op = "Dsetpath" =>
          \/ answer'.status = 0 /\ dpath' = Target(r.path, dpath)
          \/ answer'.status = EERROR /\ dpath' = dpath
    /\ r.op = "Dgetpath" => answer'.path = dpath'
    /\ r.op \in StatusCalls /\ answer'.status >= 0 =>
          \A b \in Nodes : Absolute(r) \/ b = dpath => Achieved(r, b)'

\* Of the codes, which are failures, and what AsWord makes of them.
LEMMA Codes ==
    /\ EFILNF_ < 0 /\ EPTHNF < 0 /\ EACCDN < 0 /\ EINTRN < 0 /\ EERROR < 0
    /\ ReadOnlyBit > 0
    /\ AsWord(0) = 0 /\ AsWord(EPTHNF) = EERROR /\ AsWord(EACCDN) = EERROR
    /\ \A c \in Statuses : c \in Int
BY DEF EFILNF_, EPTHNF, EACCDN, EINTRN, EERROR, ReadOnlyBit, AsWord, Statuses

\* An answer without a path.
LEMMA AnswerIs ==
    ASSUME NEW c \in Statuses, answer' = Answered_(c)
    PROVE  answer' \in [status : Statuses, path : Nodes] /\ answer'.status = c
BY NodesAre DEF Answered_

\* The paths of a request.
LEMMA RequestPaths ==
    ASSUME NEW r \in Requests
    PROVE  /\ r.op \in StatusCalls \cup {"Dgetpath"}
           /\ r.op = "Dsetpath" => r.path \in AnyPath
           /\ r.op \in {"Dcreate", "Ddelete", "Fdelete", "Frename", "Fattrib"} => r.path \in Below
           /\ r.op = "Frename" => r.dst \in Below
           /\ r.op = "Fattrib" => r.set \in {"get", "readOnly", "plain"}
BY DEF Requests, Simple, Renames, Attribs, OfDrive, StatusCalls

\* Where a path leads.
LEMMA TargetIs ==
    ASSUME NEW p \in AnyPath, NEW b \in Nodes
    PROVE  /\ Target(p, b) \in Seq(Names)
           /\ p \in Below => Target(p, b) # <<>>
           /\ p.abs => Target(p, b) = p.to /\ p.to \in Nodes
<1>1. CASE p.abs
  <2>1. p.to \in AbsPaths
    BY <1>1 DEF AnyPath
  <2>2. p.to \in Nodes /\ p.to \in Seq(Names) /\ Target(p, b) = p.to
    BY <1>1, <2>1, CallsAssumption DEF Target
  <2>3. QED BY <2>2 DEF Below
<1>2. CASE ~p.abs
  <2>1. p.to \in RelPaths
    BY <1>2 DEF AnyPath
  <2>2. p.to \in Seq(Names) /\ p.to # <<>> /\ b \in Seq(Names) /\ Target(p, b) = b \o p.to
    BY <1>2, <2>1, CallsAssumption DEF Target
  <2>3. b \o p.to \in Seq(Names) /\ Len(b \o p.to) = Len(b) + Len(p.to)
    BY <2>2, ConcatProperties
  <2>4. Len(p.to) # 0 /\ Len(p.to) \in Nat /\ Len(b) \in Nat
    BY <2>2, EmptySeq
  <2>5. b \o p.to # <<>>
    BY <2>3, <2>4
  <2>6. QED BY <1>2, <2>2, <2>3, <2>5
<1>3. QED BY <1>1, <1>2

\* An absolute path leads where it leads, and any path does from the same place.
LEMMA SameTarget ==
    ASSUME NEW r \in Requests, r.op \notin {"Dfree", "Dgetpath"}, NEW b, Absolute(r) \/ b = dpath
    PROVE  /\ Target(r.path, b) = Target(r.path, dpath)
           /\ r.op = "Frename" => Target(r.dst, b) = Target(r.dst, dpath)
BY DEF Absolute, Target

\* handleDsetpathCall does what its status says.
LEMMA RunsSetpath ==
    ASSUME Card, NEW r \in Requests, r.op = "Dsetpath", HandleDsetpathCall(r)
    PROVE  Ran(r)
<1> DEFINE n == Target(r.path, dpath)
<1>1. UNCHANGED <<tree, readOnly>>
  BY DEF HandleDsetpathCall
<1>2. CASE Kind(n) = "dir" /\ dpath' = n /\ answer' = Answered_(AsWord(0))
  <2>1. answer' \in [status : Statuses, path : Nodes] /\ answer'.status = 0
    BY <1>2, Codes, AnswerIs DEF Statuses
  <2>2. n \in Nodes
    BY <1>2 DEF Kind
  <2>3. Card'
    BY <1>1, <1>2, <2>2 DEF Card, CardTypes, Rooted, Missing, Kind
  <2>4. \A b \in Nodes : Absolute(r) \/ b = dpath => Achieved(r, b)'
    <3>1. SUFFICES ASSUME NEW b \in Nodes, Absolute(r) \/ b = dpath PROVE Achieved(r, b)'
      OBVIOUS
    <3>2. Target(r.path, b) = n
      BY <3>1, SameTarget
    <3>3. QED BY <1>2, <3>2 DEF Achieved, Target
  <2>5. QED BY <1>2, <2>1, <2>3, <2>4 DEF Ran
<1>3. CASE UNCHANGED dpath /\ answer' = Answered_(AsWord(EPTHNF))
  <2>1. answer' \in [status : Statuses, path : Nodes] /\ answer'.status = EERROR
    BY <1>3, Codes, AnswerIs DEF Statuses
  <2>2. Card'
    BY <1>1, <1>3 DEF Card, CardTypes, Rooted, Missing, Kind
  <2>3. ~(answer'.status >= 0)
    BY <2>1, Codes DEF EERROR
  <2>4. QED BY <1>1, <1>3, <2>1, <2>2, <2>3 DEF Ran
<1>4. QED BY <1>2, <1>3 DEF HandleDsetpathCall

\* handleDgetpathCall and handleDfreeCall do what their status says.
LEMMA RunsOfDrive ==
    ASSUME Card, NEW r \in Requests,
           \/ r.op = "Dgetpath" /\ HandleDgetpathCall
           \/ r.op = "Dfree" /\ HandleDfreeCall
    PROVE  Ran(r)
<1>1. UNCHANGED <<tree, readOnly, dpath>>
  BY DEF HandleDgetpathCall, HandleDfreeCall
<1>2. Card' /\ dpath \in Nodes
  BY <1>1 DEF Card, CardTypes, Rooted, Missing, Kind
<1>3. CASE r.op = "Dgetpath" /\ HandleDgetpathCall
  <2>1. answer' \in [status : Statuses, path : Nodes] /\ answer'.path = dpath
    BY <1>2, <1>3 DEF HandleDgetpathCall, Statuses
  <2>2. r.op \notin StatusCalls
    BY <1>3 DEF StatusCalls
  <2>3. QED BY <1>1, <1>2, <1>3, <2>1, <2>2 DEF Ran
<1>4. CASE r.op = "Dfree" /\ HandleDfreeCall
  <2>1. PICK c \in {0, EERROR} : answer' = Answered_(c)
    BY <1>4 DEF HandleDfreeCall
  <2>2. answer' \in [status : Statuses, path : Nodes]
    BY <2>1, AnswerIs DEF Statuses
  <2>3. \A b \in Nodes : Achieved(r, b)'
    BY <1>4 DEF Achieved
  <2>4. QED BY <1>1, <1>2, <1>4, <2>2, <2>3 DEF Ran
<1>5. QED BY <1>3, <1>4

\* A handler that fails leaves the card alone.
LEMMA Fails ==
    ASSUME Card, NEW r \in Requests, r.op \notin {"Dsetpath", "Dgetpath"},
           NEW c \in Statuses, c < 0, answer' = Answered_(c), UNCHANGED <<tree, readOnly, dpath>>
    PROVE  Ran(r)
<1>1. answer' \in [status : Statuses, path : Nodes] /\ answer'.status = c
  BY AnswerIs
<1>2. ~(answer'.status >= 0)
  BY <1>1, Codes
<1>3. Card'
  BY DEF Card, CardTypes, Rooted, Missing, Kind
<1>4. QED BY <1>1, <1>2, <1>3 DEF Ran

\* handleDcreateCall does what its status says.
LEMMA RunsCreate ==
    ASSUME Card, NEW r \in Requests, r.op = "Dcreate", HandleDcreateCall(r)
    PROVE  Ran(r)
<1> DEFINE n == Target(r.path, dpath)
<1>1. UNCHANGED <<readOnly, dpath>> /\ n # <<>>
  <2>1. r.path \in Below /\ r.path \in AnyPath /\ dpath \in Nodes
    BY RequestPaths DEF Below, Card, CardTypes
  <2>2. QED BY <2>1, TargetIs DEF HandleDcreateCall
<1>2. CASE /\ Missing(n) /\ ~NoParent(n) /\ n \in Nodes
           /\ tree' = [tree EXCEPT ![n] = "dir"] /\ answer' = Answered_(0)
  <2>1. answer' \in [status : Statuses, path : Nodes] /\ answer'.status = 0
    BY <1>2, AnswerIs DEF Statuses
  <2>2. Card' /\ tree'[n] = "dir"
    BY <1>1, <1>2, CardMakes
  <2>3. \A b \in Nodes : Absolute(r) \/ b = dpath => Achieved(r, b)'
    <3>1. SUFFICES ASSUME NEW b \in Nodes, Absolute(r) \/ b = dpath PROVE Achieved(r, b)'
      OBVIOUS
    <3>2. Target(r.path, b) = n
      BY <3>1, SameTarget
    <3>3. QED BY <1>2, <2>2, <3>2 DEF Achieved, Target, Kind
  <2>4. QED BY <1>1, <2>1, <2>2, <2>3 DEF Ran
<1>3. CASE UNCHANGED tree /\ answer' = Answered_(IF NoParent(n) THEN EPTHNF ELSE EACCDN)
  <2>1. PICK c \in {EPTHNF, EACCDN} : answer' = Answered_(c)
    BY <1>3
  <2>2. c \in Statuses /\ c < 0
    BY Codes DEF Statuses
  <2>3. QED BY <1>1, <1>3, <2>1, <2>2, Fails
<1>4. QED BY <1>2, <1>3 DEF HandleDcreateCall

\* handleDdeleteCall and handleFdeleteCall do what their status says.
LEMMA RunsDelete ==
    ASSUME Card, NEW r \in Requests,
           \/ r.op = "Ddelete" /\ HandleDdeleteCall(r)
           \/ r.op = "Fdelete" /\ HandleFdeleteCall(r)
    PROVE  Ran(r)
<1> DEFINE n == Target(r.path, dpath)
<1>1. UNCHANGED <<readOnly, dpath>> /\ n # <<>> /\ n \in Seq(Names)
  <2>1. r.path \in Below /\ r.path \in AnyPath /\ dpath \in Nodes
    BY RequestPaths DEF Below, Card, CardTypes
  <2>2. QED BY <2>1, TargetIs DEF HandleDdeleteCall, HandleFdeleteCall
<1>2. ASSUME answer' = Answered_(0), Card', Missing(n)' PROVE Ran(r)
  <2>1. answer' \in [status : Statuses, path : Nodes] /\ answer'.status = 0
    BY <1>2, AnswerIs DEF Statuses
  <2>2. \A b \in Nodes : Absolute(r) \/ b = dpath => Achieved(r, b)'
    <3>1. SUFFICES ASSUME NEW b \in Nodes, Absolute(r) \/ b = dpath PROVE Achieved(r, b)'
      OBVIOUS
    <3>2. Target(r.path, b) = n
      BY <3>1, SameTarget
    <3>3. (n \in Nodes) => tree'[n] = "none"
      BY <1>2, <1>1 DEF Missing, Kind
    <3>4. QED BY <3>2, <3>3 DEF Achieved, Target, Missing, Kind
  <2>3. QED BY <1>1, <1>2, <2>1, <2>2 DEF Ran
<1>3. CASE Removed(n) /\ (answer' = Answered_(0) \/ answer' = Answered_(AsWord(0)))
  <2>1. Card' /\ n \in Nodes /\ tree'[n] = "none"
    BY <1>1, <1>3, CardRemoves
  <2>2. Missing(n)'
    BY <1>1, <2>1 DEF Missing, Kind
  <2>3. QED BY <1>2, <1>3, <2>1, <2>2, Codes
<1>4. CASE Missing(n) /\ UNCHANGED tree /\ answer' = Answered_(AsWord(0))
  <2>1. Card' /\ Missing(n)'
    BY <1>1, <1>4 DEF Card, CardTypes, Rooted, Missing, Kind
  <2>2. QED BY <1>2, <1>4, <2>1, Codes
<1>5. ASSUME UNCHANGED tree, NEW c \in {EPTHNF, EACCDN, EINTRN, EERROR}, answer' = Answered_(c)
      PROVE  Ran(r)
  <2>1. c \in Statuses /\ c < 0
    BY Codes DEF Statuses
  <2>2. QED BY <1>1, <1>5, <2>1, Fails
<1>6. CASE r.op = "Ddelete" /\ HandleDdeleteCall(r)
  <2>1. CASE Removed(n) /\ answer' = Answered_(0)
    BY <1>3, <2>1
  <2>2. CASE /\ UNCHANGED tree
             /\ \E code \in {IF Missing(n) THEN EPTHNF ELSE EACCDN, EINTRN} :
                   answer' = Answered_(code)
    <3>1. \E c \in {EPTHNF, EACCDN, EINTRN, EERROR} : answer' = Answered_(c)
      BY <2>2
    <3>2. QED BY <1>5, <2>2, <3>1
  <2>3. QED BY <1>6, <2>1, <2>2 DEF HandleDdeleteCall
<1>7. CASE r.op = "Fdelete" /\ HandleFdeleteCall(r)
  <2>1. \/ Removed(n) /\ answer' = Answered_(AsWord(0))
        \/ Missing(n) /\ UNCHANGED tree /\ answer' = Answered_(AsWord(0))
        \/ UNCHANGED tree /\ answer' = Answered_(EERROR)
    BY <1>7, Codes DEF HandleFdeleteCall
  <2>2. QED BY <1>3, <1>4, <1>5, <2>1
<1>8. QED BY <1>6, <1>7

\* handleFrenameCall does what its status says.
LEMMA RunsRename ==
    ASSUME Card, NEW r \in Requests, r.op = "Frename", HandleFrenameCall(r)
    PROVE  Ran(r)
<1> DEFINE s == Target(r.path, dpath)
           d == Target(r.dst, dpath)
<1>1. /\ UNCHANGED dpath
      /\ s # <<>> /\ s \in Seq(Names) /\ d # <<>>
  <2>1. /\ r.path \in Below /\ r.path \in AnyPath /\ r.dst \in Below /\ r.dst \in AnyPath
        /\ dpath \in Nodes
    BY RequestPaths DEF Below, Card, CardTypes
  <2>2. QED BY <2>1, TargetIs DEF HandleFrenameCall
<1>2. CASE /\ ~Missing(s) /\ Missing(d) /\ ~NoParent(d) /\ d \in Nodes /\ ~IsPrefix(s, d)
           /\ Moved(s, d) /\ answer' = Answered_(0)
  <2>1. answer' \in [status : Statuses, path : Nodes] /\ answer'.status = 0
    BY <1>2, AnswerIs DEF Statuses
  <2>2. Card' /\ tree'[d] # "none" /\ s \in Nodes /\ tree'[s] = "none"
    <3> HIDE DEF s, d
    <3>1. QED BY <1>1, <1>2, CardMoves
  <2>3. \A b \in Nodes : Absolute(r) \/ b = dpath => Achieved(r, b)'
    <3>1. SUFFICES ASSUME NEW b \in Nodes, Absolute(r) \/ b = dpath PROVE Achieved(r, b)'
      OBVIOUS
    <3>2. Target(r.path, b) = s /\ Target(r.dst, b) = d
      BY <3>1, SameTarget
    <3>3. QED BY <1>2, <2>2, <3>2 DEF Achieved, Target, Missing, Kind
  <2>4. QED BY <1>1, <2>1, <2>2, <2>3 DEF Ran
<1>3. CASE /\ UNCHANGED <<tree, readOnly>>
           /\ \E code \in {IF Missing(s) \/ NoParent(d) THEN EFILNF_ ELSE EACCDN, EINTRN} :
                 answer' = Answered_(code)
  <2>1. PICK c \in {EFILNF_, EACCDN, EINTRN} : answer' = Answered_(c)
    BY <1>3
  <2>2. c \in Statuses /\ c < 0
    BY Codes DEF Statuses
  <2>3. QED BY <1>1, <1>3, <2>1, <2>2, Fails
<1>4. QED BY <1>2, <1>3 DEF HandleFrenameCall

\* handleFattribCall does what its status says.
LEMMA RunsAttrib ==
    ASSUME Card, NEW r \in Requests, r.op = "Fattrib", HandleFattribCall(r)
    PROVE  Ran(r)
<1> DEFINE n == Target(r.path, dpath)
<1>1. UNCHANGED <<tree, dpath>> /\ n # <<>> /\ r.set \in {"get", "readOnly", "plain"}
  <2>1. r.path \in Below /\ r.path \in AnyPath /\ dpath \in Nodes
    BY RequestPaths DEF Below, Card, CardTypes
  <2>2. QED BY <2>1, RequestPaths, TargetIs DEF HandleFattribCall
<1>2. CASE /\ ~Missing(n)
           /\ readOnly' = CASE r.set = "get" -> readOnly
                            [] r.set = "readOnly" -> readOnly \cup {n}
                            [] r.set = "plain" -> readOnly \ {n}
           /\ answer' = Answered_(IF n \in readOnly' THEN ReadOnlyBit ELSE 0)
  <2>1. /\ r.set = "get" => readOnly' = readOnly
        /\ r.set = "readOnly" => readOnly' = readOnly \cup {n}
        /\ r.set = "plain" => readOnly' = readOnly \ {n}
    BY <1>2
  <2>2. n \in Nodes /\ tree[n] # "none"
    BY <1>2 DEF Missing, Kind
  <2>3. readOnly' \subseteq readOnly \cup {n}
    BY <1>1, <2>1
  <2>4. Card'
    BY <1>1, <2>2, <2>3 DEF Card, CardTypes, Rooted, Missing, Kind
  <2>5. PICK c \in {0, ReadOnlyBit} :
           answer' = Answered_(c) /\ (c = ReadOnlyBit <=> n \in readOnly')
    <3>1. CASE n \in readOnly'
      BY <1>2, <3>1 DEF ReadOnlyBit
    <3>2. CASE ~(n \in readOnly')
      <4>1. answer' = Answered_(0)
        BY <1>2, <3>2
      <4>2. 0 # ReadOnlyBit
        BY DEF ReadOnlyBit
      <4>3. QED BY <3>2, <4>1, <4>2
    <3>3. QED BY <3>1, <3>2
  <2>6. answer' \in [status : Statuses, path : Nodes] /\ answer'.status = c
    BY <2>5, AnswerIs DEF Statuses
  <2>7. \A b \in Nodes : Absolute(r) \/ b = dpath => Achieved(r, b)'
    <3>1. SUFFICES ASSUME NEW b \in Nodes, Absolute(r) \/ b = dpath PROVE Achieved(r, b)'
      OBVIOUS
    <3>2. Target(r.path, b) = n
      BY <3>1, SameTarget
    <3>3. tree'[n] # "none"
      BY <1>1, <2>2
    <3>4. (n \in readOnly') = IF r.set = "get" THEN answer'.status = ReadOnlyBit
                              ELSE r.set = "readOnly"
      <4>1. CASE r.set = "get"
        BY <2>5, <2>6, <4>1
      <4>2. CASE r.set = "readOnly"
        BY <2>1, <4>2
      <4>3. CASE r.set = "plain"
        BY <2>1, <4>3
      <4>4. QED BY <1>1, <4>1, <4>2, <4>3
    <3> HIDE DEF n
    <3>5. QED BY <1>2, <2>2, <3>2, <3>3, <3>4 DEF Achieved, Target, Missing, Kind
  <2>8. ~(answer'.status < 0)
    BY <2>5, <2>6, Codes
  <2>9. QED BY <1>1, <1>2, <2>4, <2>6, <2>7, <2>8 DEF Ran
<1>3. CASE /\ UNCHANGED readOnly
           /\ \E code \in {EFILNF_} \cup (IF Missing(n) THEN {} ELSE {EACCDN}) :
                 answer' = Answered_(code)
  <2>1. PICK c \in {EFILNF_, EACCDN} : answer' = Answered_(c)
    BY <1>3
  <2>2. c \in Statuses /\ c < 0
    BY Codes DEF Statuses
  <2>3. QED BY <1>1, <1>3, <2>1, <2>2, Fails
<1>4. QED BY <1>2, <1>3 DEF HandleFattribCall

\* The handler of the oldest frame.
LEMMA FrameRuns ==
    ASSUME Card, RunFrame, NEW r, r = Head(inFlight).request
    PROVE  /\ r \in Requests => Ran(r)
           /\ r \in Locking => UNCHANGED <<tree, readOnly, dpath, answer>>
<1>1. \/ r.op \in {"lock", "unlock"} /\ HandleReentry(r)
      \/ r.op = "Dsetpath" /\ HandleDsetpathCall(r)
      \/ r.op = "Dgetpath" /\ HandleDgetpathCall
      \/ r.op = "Dfree"    /\ HandleDfreeCall
      \/ r.op = "Fattrib"  /\ HandleFattribCall(r)
      \/ r.op = "Dcreate"  /\ HandleDcreateCall(r)
      \/ r.op = "Ddelete"  /\ HandleDdeleteCall(r)
      \/ r.op = "Fdelete"  /\ HandleFdeleteCall(r)
      \/ r.op = "Frename"  /\ HandleFrenameCall(r)
  BY DEF RunFrame
<1>2. ASSUME r \in Requests PROVE Ran(r)
  BY <1>1, <1>2, RequestOps, RunsSetpath, RunsOfDrive, RunsAttrib, RunsCreate, RunsDelete,
     RunsRename
<1>3. ASSUME r \in Locking PROVE UNCHANGED <<tree, readOnly, dpath, answer>>
  <2>1. r.op \in {"lock", "unlock"}
    BY <1>3 DEF Locking
  <2>2. HandleReentry(r)
    BY <1>1, <2>1
  <2>3. QED BY <2>2 DEF HandleReentry
<1>4. QED BY <1>2, <1>3

----------------------------------------------------------------------------
(* The status of a call.                                                   *)

CallTypes ==
    /\ cwd \in Nodes /\ stray \in BOOLEAN
    /\ answer \in [status : Statuses, path : Nodes]
    /\ effect \in [runs : Nat, changed : BOOLEAN]

\* What an attempt may still run, what it has left to send and what has run are
\* no more than there are attempts.
Spent ==
    /\ effect.runs <= CallRetries + 1
    /\ sync.pc # "idle" =>
          \E m \in 0..Len(inFlight) :
             /\ \A i \in DOMAIN inFlight : inFlight[i].current <=> i > m
             /\ Len(inFlight) - m + sync.left + effect.runs <= CallRetries + 1

\* A call that was not given up has changed nothing before it has run, nor if
\* it has run once and failed.
Harmless ==
    /\ trap.step \in {"lock", "unlock"} => effect = NoRun
    /\ trap.step = "call" /\ ~lost =>
          /\ effect.runs > 0 => sync.ran
          /\ effect.runs = 0 \/ (effect.runs = 1 /\ answer.status < 0) => ~effect.changed

Moving == trap.step = "call" /\ trap.request.op = "Dsetpath"

\* While dpathStr cannot have strayed it is the directory of the program, but
\* for a Dsetpath that has run: that one was sent once.  Older copies of a
\* Dsetpath that are still on their way lead back to that directory.
Placed ==
    /\ trap.step = "booting" => cwd = <<>>
    /\ ~lost /\ ~stray /\ trap.step # "booting" =>
          /\ \A i \in DOMAIN inFlight :
                inFlight[i].request.op = "Dsetpath" /\ ~(Moving /\ inFlight[i].current)
                => inFlight[i].request.path.abs /\ inFlight[i].request.path.to = cwd
          /\ Moving => \A i, j \in DOMAIN inFlight :
                inFlight[i].current /\ inFlight[j].current => i = j
          /\ ~Moving \/ ~sync.ran => dpath = cwd
          /\ Moving /\ sync.ran =>
                /\ \A i \in DOMAIN inFlight : ~inFlight[i].current
                /\ answer.status = 0 => dpath = Target(trap.request.path, cwd)
                /\ answer.status # 0 => dpath = cwd

\* The cells of a call that has run.
Told ==
    trap.step = "call" /\ sync.ran =>
        /\ trap.request.op = "Dgetpath" => answer.path = dpath
        /\ trap.request.op \in StatusCalls /\ ~lost /\ answer.status >= 0
           /\ (Absolute(trap.request) \/ ~stray) => Achieved(trap.request, cwd)

\* A frame is sent again.
LEMMA SentAgain ==
    ASSUME LockInv, SendAgain
    PROVE  /\ sync.pc = "sent" /\ sync.left > 0 /\ trap.step \in {"lock", "unlock", "call"}
           /\ Len(inFlight) \in Nat /\ DOMAIN inFlight = 1..Len(inFlight)
           /\ Len(inFlight') = Len(inFlight) + 1 /\ DOMAIN inFlight' = 1..(Len(inFlight) + 1)
           /\ \A i \in 1..Len(inFlight) : inFlight'[i] = inFlight[i]
           /\ inFlight'[Len(inFlight) + 1] = [request |-> Command, current |-> TRUE]
           /\ sync'.pc = "sent" /\ sync'.ran = sync.ran /\ sync'.left = sync.left - 1
           /\ UNCHANGED <<trap, cwd, lost, reentry, tree, readOnly, dpath, answer, effect>>
           /\ stray' \in BOOLEAN /\ (~stray' => ~stray /\ Command.op # "Dsetpath")
<1> DEFINE f == [request |-> Command, current |-> TRUE]
<1>1. /\ sync.pc = "sent" /\ sync.left > 0 /\ sync' = [sync EXCEPT !.left = @ - 1]
      /\ inFlight' = Append(inFlight, f)
      /\ UNCHANGED <<trap, cwd, lost, reentry, tree, readOnly, dpath, answer, effect>>
  BY DEF SendAgain, Command, rpCalls
<1>2. stray' \in BOOLEAN /\ (~stray' => ~stray /\ Command.op # "Dsetpath")
  <2>1. stray' = (stray \/ Command.op = "Dsetpath")
    BY Zenon DEF SendAgain, Command
  <2>2. QED BY <2>1, Zenon
<1>3. ChannelTypeOK /\ InStep
  BY DEF LockInv
<1>4. trap.step \in {"lock", "unlock", "call"}
  BY <1>1, <1>3 DEF InStep, ChannelTypeOK
<1>5. f \in Frames
  <2>1. Command \in Requests \cup Locking
    BY <1>3, <1>4 DEF InStep, Command, Locking
  <2>2. QED BY <2>1 DEF Frames
<1>6. sync'.pc = "sent" /\ sync'.ran = sync.ran /\ sync'.left = sync.left - 1
  BY <1>1, <1>3 DEF ChannelTypeOK
<1> HIDE DEF f
<1>7. /\ Len(inFlight) \in Nat /\ DOMAIN inFlight = 1..Len(inFlight)
      /\ Len(inFlight') = Len(inFlight) + 1 /\ DOMAIN inFlight' = 1..(Len(inFlight) + 1)
      /\ \A i \in 1..Len(inFlight) : inFlight'[i] = inFlight[i]
      /\ inFlight'[Len(inFlight) + 1] = f
  BY <1>1, <1>3, <1>5 DEF ChannelTypeOK
<1>8. QED BY <1>1, <1>2, <1>4, <1>6, <1>7, Zenon DEF f

\* The oldest frame is taken from the wire.
LEMMA FrameTaken ==
    ASSUME LockInv, inFlight # <<>>, inFlight' = Tail(inFlight)
    PROVE  /\ Len(inFlight) \in Nat /\ Len(inFlight) > 0 /\ Len(inFlight') = Len(inFlight) - 1
           /\ DOMAIN inFlight = 1..Len(inFlight) /\ DOMAIN inFlight' = 1..Len(inFlight')
           /\ Head(inFlight) = inFlight[1] /\ inFlight[1] \in Frames
           /\ \A i \in 1..Len(inFlight') :
                 i + 1 \in 1..Len(inFlight) /\ inFlight'[i] = inFlight[i + 1]
BY DEF LockInv, ChannelTypeOK

\* What running a frame tells send_sync and the history of the call.
LEMMA FrameNoted ==
    ASSUME LockInv, CallTypes, RunFrame, NEW f, f = Head(inFlight)
    PROVE  /\ inFlight # <<>> /\ inFlight' = Tail(inFlight)
           /\ UNCHANGED <<trap, cwd, stray, lost>>
           /\ sync'.pc = sync.pc /\ sync'.left = sync.left
           /\ f.current /\ sync.pc = "sent" => sync'.ran
           /\ ~(f.current /\ sync.pc = "sent") => sync' = sync
           /\ f.current /\ sync.pc # "idle" /\ trap.step = "call" =>
                 /\ effect'.runs = effect.runs + 1 /\ effect'.changed \in BOOLEAN
                 /\ effect' \in [runs : Nat, changed : BOOLEAN]
                 /\ ~effect.changed /\ UNCHANGED <<tree, readOnly, dpath>> => ~effect'.changed
           /\ ~(f.current /\ sync.pc # "idle" /\ trap.step = "call") => effect' = effect
<1>1. /\ inFlight # <<>> /\ inFlight' = Tail(inFlight)
      /\ UNCHANGED <<trap, cwd, stray, lost>>
      /\ sync' = IF f.current /\ sync.pc # "idle" /\ sync.pc = "sent"
                 THEN [sync EXCEPT !.ran = TRUE] ELSE sync
  BY DEF RunFrame
<1>2. /\ sync'.pc = sync.pc /\ sync'.left = sync.left
      /\ f.current /\ sync.pc = "sent" => sync'.ran
      /\ ~(f.current /\ sync.pc = "sent") => sync' = sync
  <2>1. sync \in [pc : {"idle", "sent", "answered"}, left : 0..CallRetries, ran : BOOLEAN]
    BY DEF LockInv, ChannelTypeOK
  <2>2. CASE f.current /\ sync.pc = "sent"
    <3>1. sync' = [sync EXCEPT !.ran = TRUE]
      BY <1>1, <2>2
    <3>2. QED BY <2>1, <2>2, <3>1
  <2>3. CASE ~(f.current /\ sync.pc = "sent")
    <3>1. sync' = sync
      BY <1>1, <2>3
    <3>2. QED BY <2>3, <3>1
  <2>4. QED BY <2>2, <2>3
<1> DEFINE c == effect.changed \/ <<tree, readOnly, dpath>>' # <<tree, readOnly, dpath>>
<1>3. c \in BOOLEAN
  BY Zenon
<1>4. ~effect.changed /\ UNCHANGED <<tree, readOnly, dpath>> => ~c
  BY Zenon
<1>5. /\ f.current /\ sync.pc # "idle" /\ trap.step = "call" =>
            effect' = [runs |-> effect.runs + 1, changed |-> c]
      /\ ~(f.current /\ sync.pc # "idle" /\ trap.step = "call") => effect' = effect
  BY DEF RunFrame
<1> HIDE DEF c
<1>6. effect.runs \in Nat
  BY DEF CallTypes
<1>7. ASSUME f.current, sync.pc # "idle", trap.step = "call"
      PROVE  /\ effect'.runs = effect.runs + 1 /\ effect'.changed \in BOOLEAN
             /\ effect' \in [runs : Nat, changed : BOOLEAN]
             /\ ~effect.changed /\ UNCHANGED <<tree, readOnly, dpath>> => ~effect'.changed
  <2>1. effect' = [runs |-> effect.runs + 1, changed |-> c]
    BY <1>5, <1>7
  <2>2. effect.runs + 1 \in Nat
    BY <1>6
  <2>3. QED BY <1>3, <1>4, <2>1, <2>2
<1>8. QED BY <1>1, <1>2, <1>5, <1>7

\* The card stays a tree.
LEMMA CardNext == LockInv /\ Card /\ [CallsNext]_callsVars => Card'
<1> SUFFICES ASSUME LockInv, Card, [CallsNext]_callsVars PROVE Card'
  OBVIOUS
<1>1. CASE UNCHANGED <<tree, readOnly, dpath>>
  BY <1>1 DEF Card, CardTypes, Rooted, Missing, Kind
<1>2. CASE RunFrame
  <2>1. PICK r : r = Head(inFlight).request
    OBVIOUS
  <2>2. r \in Requests \cup Locking
    BY <1>2, <2>1, FrameTaken DEF RunFrame, Frames
  <2>3. QED BY <1>1, <1>2, <2>1, <2>2, FrameRuns DEF Ran
<1>3. CASE \/ \E r \in Requests : Trap(r)
           \/ SendAgain \/ SyncAnswered \/ SyncGivenUp \/ NextCommand
           \/ ReturnStatus \/ ReturnPath \/ ResetTOS \/ HelloPublishes \/ LoseFrame
           \/ UNCHANGED callsVars
  <2>1. UNCHANGED <<tree, readOnly, dpath>>
    BY <1>3 DEF Trap, SendAgain, SyncAnswered, SyncGivenUp, NextCommand, ReturnStatus,
                ReturnPath, ResetTOS, HelloPublishes, LoseFrame, callsVars, rpCalls
  <2>2. QED BY <1>1, <2>1
<1>4. QED BY <1>2, <1>3 DEF CallsNext

\* The values of a call keep their types.
LEMMA CallTypesNext ==
    LockInv /\ Card /\ CallTypes /\ [CallsNext]_callsVars => CallTypes'
<1> SUFFICES ASSUME LockInv, Card, CallTypes, [CallsNext]_callsVars PROVE CallTypes'
  OBVIOUS
<1>0. NoRun \in [runs : Nat, changed : BOOLEAN] /\ <<>> \in Nodes /\ dpath \in Nodes
  BY NodesAre DEF NoRun, Card, CardTypes
<1>1. CASE UNCHANGED <<cwd, stray, answer>> /\ effect' \in {NoRun, effect}
  BY <1>0, <1>1 DEF CallTypes
<1>2. CASE \/ \E r \in Requests : Trap(r)
           \/ SyncAnswered \/ SyncGivenUp \/ NextCommand \/ LoseFrame \/ UNCHANGED callsVars
  <2>1. UNCHANGED <<cwd, stray, answer>> /\ effect' \in {NoRun, effect}
    BY <1>2 DEF Trap, SyncAnswered, SyncGivenUp, NextCommand, LoseFrame, callsVars, rpCalls,
                stCalls
  <2>2. QED BY <1>1, <2>1
<1>3. CASE SendAgain
  BY <1>3, SentAgain DEF CallTypes
<1>4. CASE ReturnStatus
  <2>1. UNCHANGED <<answer, effect>>
    BY <1>4 DEF ReturnStatus, rpCalls
  <2>2. CASE UNCHANGED <<cwd, stray>>
    BY <1>1, <2>1, <2>2
  <2>3. CASE /\ trap.request.op = "Dsetpath" /\ answer.status = 0 /\ ~lost
             /\ cwd' = IF trap.request.path.abs THEN trap.request.path.to ELSE dpath
             /\ stray' = (stray /\ ~trap.request.path.abs)
    <3>1. stray' \in BOOLEAN
      BY <2>3, Zenon
    <3>2. trap.request \in Requests
      BY <1>4 DEF LockInv, InStep, ReturnStatus, Returning
    <3>3. trap.request.path \in AnyPath
      BY <2>3, <3>2, RequestPaths
    <3>4. cwd' \in Nodes
      BY <1>0, <2>3, <3>3, TargetIs
    <3>5. QED BY <2>1, <3>1, <3>4 DEF CallTypes
  <2>4. QED BY <1>4, <2>2, <2>3 DEF ReturnStatus
<1>5. CASE ReturnPath
  <2>1. UNCHANGED <<answer, effect>> /\ cwd' = answer.path
    BY <1>5 DEF ReturnPath, rpCalls
  <2>2. stray' \in BOOLEAN
    <3>1. stray' = (stray /\ lost)
      BY <1>5, Zenon DEF ReturnPath
    <3>2. QED BY <3>1, Zenon
  <2>3. QED BY <2>1, <2>2 DEF CallTypes
<1>6. CASE ResetTOS
  BY <1>0, <1>6 DEF ResetTOS, CallTypes, rpCalls
<1>7. CASE HelloPublishes
  <2>1. UNCHANGED <<cwd, answer, effect>>
    BY <1>7 DEF HelloPublishes
  <2>2. stray' \in BOOLEAN
    <3>1. stray' = (dpath # <<>>)
      BY <1>7, Zenon DEF HelloPublishes
    <3>2. QED BY <3>1, Zenon
  <2>3. QED BY <2>1, <2>2 DEF CallTypes
<1>8. CASE RunFrame
  <2>1. PICK f : f = Head(inFlight)
    OBVIOUS
  <2>2. PICK r : r = f.request
    OBVIOUS
  <2>3. r \in Requests \cup Locking
    BY <1>8, <2>1, <2>2, FrameTaken DEF RunFrame, Frames
  <2>4. answer' \in [status : Statuses, path : Nodes]
    BY <1>8, <2>1, <2>2, <2>3, FrameRuns DEF Ran, CallTypes
  <2>5. UNCHANGED <<cwd, stray>> /\ effect' \in [runs : Nat, changed : BOOLEAN]
    BY <1>8, <2>1, FrameNoted DEF CallTypes
  <2>6. QED BY <2>4, <2>5 DEF CallTypes
<1>9. QED BY <1>2, <1>3, <1>4, <1>5, <1>6, <1>7, <1>8 DEF CallsNext

\* A call begins with all attempts before it.
LEMMA SentOnce ==
    ASSUME LockInv, NEW r \in Requests \cup Locking, Send(r)
    PROVE  /\ Len(inFlight) \in Nat /\ Len(inFlight') = Len(inFlight) + 1
           /\ DOMAIN inFlight' = 1..(Len(inFlight) + 1)
           /\ \A i \in 1..Len(inFlight) : /\ ~inFlight'[i].current
                                          /\ inFlight'[i].request = inFlight[i].request
           /\ inFlight'[Len(inFlight) + 1].current
           /\ inFlight'[Len(inFlight) + 1].request = r
           /\ sync'.pc = "sent" /\ ~sync'.ran /\ sync'.left = CallRetries
<1>1. ChannelTypeOK
  BY DEF LockInv
<1>2. /\ inFlight' \in Seq(Frames)
      /\ DOMAIN inFlight' = 1..(Len(inFlight) + 1)
      /\ \A i \in 1..Len(inFlight) : /\ ~inFlight'[i].current
                                     /\ inFlight'[i].request = inFlight[i].request
      /\ inFlight'[Len(inFlight) + 1] = [request |-> r, current |-> TRUE]
      /\ sync'.pc = "sent" /\ ~sync'.ran
  BY <1>1, Sent
<1>3. Len(inFlight) \in Nat /\ Len(inFlight') \in Nat /\ DOMAIN inFlight' = 1..Len(inFlight')
  BY <1>1, <1>2 DEF ChannelTypeOK
<1>4. Len(inFlight') = Len(inFlight) + 1
  BY <1>2, <1>3
<1>5. sync'.left = CallRetries
  BY DEF Send, Quiet
<1>6. QED BY <1>2, <1>3, <1>4, <1>5

\* What NextCommand sends.
LEMMA NextSent ==
    ASSUME LockInv, NextCommand
    PROVE  \E r \in Requests \cup Locking :
              /\ Send(r) /\ r.op # "lock"
              /\ IF trap.step = "lock" THEN r = [op |-> "unlock"] ELSE r = trap.request
              /\ trap.step \in {"lock", "unlock"} /\ sync.pc = "answered"
              /\ trap'.request = trap.request
              /\ trap'.step = IF trap.step = "lock" THEN "unlock" ELSE "call"
              /\ UNCHANGED <<cwd, stray, lost, reentry, tree, readOnly, dpath, answer, effect>>
<1> DEFINE r == IF trap.step = "lock" THEN [op |-> "unlock"] ELSE trap.request
<1>1. /\ Send(r) /\ trap.step \in {"lock", "unlock"} /\ sync.pc = "answered"
      /\ trap' = [trap EXCEPT !.step = IF @ = "lock" THEN "unlock" ELSE "call"]
      /\ UNCHANGED <<cwd, stray, lost, reentry, tree, readOnly, dpath, answer, effect>>
  BY DEF NextCommand, rpCalls
<1>2. trap.request \in Requests
  BY <1>1 DEF LockInv, InStep
<1>3. r \in Requests \cup Locking /\ r.op # "lock"
  BY <1>2, RequestOps DEF Locking
<1>4. /\ trap'.request = trap.request
      /\ trap'.step = IF trap.step = "lock" THEN "unlock" ELSE "call"
  BY <1>1 DEF LockInv, ChannelTypeOK
<1>5. QED BY <1>1, <1>3, <1>4

\* A trap sends its first command.
LEMMA TrapSent ==
    ASSUME LockInv, NEW c \in Requests, Trap(c)
    PROVE  \E r \in Requests \cup Locking :
              /\ Send(r)
              /\ trap.step = "idle" /\ ~lost /\ effect' = NoRun
              /\ \/ trap'.step = "lock" /\ r = [op |-> "lock"]
                 \/ trap'.step = "call" /\ r = c
              /\ trap'.request = c
              /\ UNCHANGED <<cwd, stray, lost, reentry, tree, readOnly, dpath, answer>>
<1>1. PICK asks \in AsksDrive(c) :
         /\ Send(IF asks THEN [op |-> "lock"] ELSE c)
         /\ trap' = [step |-> IF asks THEN "lock" ELSE "call", request |-> c]
  BY DEF Trap
<1>2. /\ trap.step = "idle" /\ ~lost /\ effect' = NoRun
      /\ UNCHANGED <<cwd, stray, lost, reentry, tree, readOnly, dpath, answer>>
  BY DEF Trap, rpCalls
<1>3. CASE asks
  BY <1>1, <1>2, <1>3 DEF Locking
<1>4. CASE ~asks
  BY <1>1, <1>2, <1>4
<1>5. QED BY <1>3, <1>4

\* No step makes an attempt out of nothing: what runs was sent, what is sent was left.
LEMMA SpentNext ==
    LockInv /\ CallTypes /\ Harmless /\ Spent /\ [CallsNext]_callsVars => Spent'
<1> SUFFICES ASSUME LockInv, CallTypes, Harmless, Spent, [CallsNext]_callsVars PROVE Spent'
  OBVIOUS
<1>0. CallRetries \in Nat /\ effect.runs \in Nat /\ NoRun.runs = 0
  BY CallsAssumption DEF CallTypes, NoRun
<1>1. ASSUME NEW r \in Requests \cup Locking, Send(r), effect'.runs = 0 PROVE Spent'
  <2>1. /\ Len(inFlight) \in Nat /\ Len(inFlight') = Len(inFlight) + 1
        /\ DOMAIN inFlight' = 1..(Len(inFlight) + 1)
        /\ \A i \in 1..Len(inFlight) : ~inFlight'[i].current
        /\ inFlight'[Len(inFlight) + 1].current
        /\ sync'.left = CallRetries
    BY <1>1, SentOnce
  <2>2. \A i \in DOMAIN inFlight' : inFlight'[i].current <=> i > Len(inFlight)
    BY <2>1
  <2>3. /\ Len(inFlight) \in 0..Len(inFlight')
        /\ Len(inFlight') - Len(inFlight) + sync'.left + effect'.runs <= CallRetries + 1
    BY <1>0, <1>1, <2>1
  <2>4. effect'.runs <= CallRetries + 1
    BY <1>0, <1>1
  <2>5. QED BY <2>2, <2>3, <2>4 DEF Spent
<1>2. ASSUME NEW c \in Requests, Trap(c) PROVE Spent'
  BY <1>0, <1>1, <1>2, TrapSent
<1>3. CASE NextCommand
  BY <1>0, <1>1, <1>3, NextSent DEF Harmless
<1>4. CASE SendAgain
  <2>1. PICK m \in 0..Len(inFlight) :
           /\ \A i \in DOMAIN inFlight : inFlight[i].current <=> i > m
           /\ Len(inFlight) - m + sync.left + effect.runs <= CallRetries + 1
    BY <1>4, SentAgain DEF Spent
  <2>2. /\ Len(inFlight) \in Nat /\ DOMAIN inFlight = 1..Len(inFlight)
        /\ Len(inFlight') = Len(inFlight) + 1 /\ DOMAIN inFlight' = 1..(Len(inFlight) + 1)
        /\ \A i \in 1..Len(inFlight) : inFlight'[i] = inFlight[i]
        /\ inFlight'[Len(inFlight) + 1].current
        /\ sync'.left = sync.left - 1 /\ effect' = effect
    BY <1>4, SentAgain
  <2>3. \A i \in DOMAIN inFlight' : inFlight'[i].current <=> i > m
    BY <2>1, <2>2
  <2>4. sync.left \in Nat
    BY <1>0 DEF LockInv, ChannelTypeOK
  <2>5. /\ m \in 0..Len(inFlight')
        /\ Len(inFlight') - m + sync'.left + effect'.runs <= CallRetries + 1
    BY <1>0, <2>1, <2>2, <2>4
  <2>6. QED BY <2>2, <2>3, <2>5 DEF Spent
<1>5. CASE SyncAnswered \/ SyncGivenUp
  <2>1. sync'.left = sync.left /\ sync.pc # "idle" /\ UNCHANGED <<inFlight, effect>>
    BY <1>5 DEF SyncAnswered, SyncGivenUp, LockInv, ChannelTypeOK
  <2>2. QED BY <2>1 DEF Spent
<1>6. CASE ReturnStatus \/ ReturnPath \/ ResetTOS
  <2>1. sync'.pc = "idle" /\ effect' \in {effect, NoRun}
    BY <1>6, QuietIs DEF ReturnStatus, ReturnPath, ResetTOS
  <2>2. QED BY <1>0, <2>1 DEF Spent
<1>7. CASE HelloPublishes
  <2>1. sync'.pc = "idle" /\ effect' = effect
    BY <1>7 DEF HelloPublishes, LockInv, InStep
  <2>2. QED BY <1>0, <2>1 DEF Spent
<1>8. CASE RunFrame \/ LoseFrame
  <2>1. PICK f : f = Head(inFlight)
    OBVIOUS
  <2>2. inFlight # <<>> /\ inFlight' = Tail(inFlight)
    BY <1>8 DEF RunFrame, LoseFrame
  <2>3. /\ Len(inFlight) \in Nat /\ Len(inFlight) > 0 /\ Len(inFlight') = Len(inFlight) - 1
        /\ DOMAIN inFlight = 1..Len(inFlight) /\ DOMAIN inFlight' = 1..Len(inFlight')
        /\ f = inFlight[1]
        /\ \A i \in 1..Len(inFlight') :
              i + 1 \in 1..Len(inFlight) /\ inFlight'[i] = inFlight[i + 1]
    BY <2>1, <2>2, FrameTaken
  <2>4. /\ sync'.pc = sync.pc /\ sync'.left = sync.left
        /\ \/ effect' = effect
           \/ f.current /\ sync.pc # "idle" /\ effect'.runs = effect.runs + 1
    <3>1. CASE RunFrame
      BY <2>1, <3>1, FrameNoted
    <3>2. CASE LoseFrame
      BY <3>2 DEF LoseFrame, stCalls
    <3>3. QED BY <1>8, <3>1, <3>2
  <2>5. CASE sync.pc = "idle"
    BY <2>4, <2>5 DEF Spent
  <2>6. CASE sync.pc # "idle"
    <3>1. PICK m \in 0..Len(inFlight) :
             /\ \A i \in DOMAIN inFlight : inFlight[i].current <=> i > m
             /\ Len(inFlight) - m + sync.left + effect.runs <= CallRetries + 1
      BY <2>6 DEF Spent
    <3>2. sync.left \in Nat
      BY <1>0 DEF LockInv, ChannelTypeOK
    <3>3. CASE m = 0
      <4>1. \A i \in DOMAIN inFlight' : inFlight'[i].current <=> i > 0
        BY <2>3, <3>1, <3>3
      <4>2. effect'.runs <= effect.runs + 1 /\ effect'.runs \in Nat
        BY <1>0, <2>4
      <4>3. /\ 0 \in 0..Len(inFlight') /\ effect'.runs <= CallRetries + 1
            /\ Len(inFlight') - 0 + sync'.left + effect'.runs <= CallRetries + 1
        BY <1>0, <2>3, <2>4, <3>1, <3>2, <3>3, <4>2, SMTT(30)
      <4>4. QED BY <4>1, <4>3 DEF Spent
    <3>4. CASE m > 0
      <4>1. ~f.current
        BY <2>3, <3>1, <3>4
      <4>2. \A i \in DOMAIN inFlight' : inFlight'[i].current <=> i > m - 1
        <5>1. SUFFICES ASSUME NEW i \in 1..Len(inFlight')
                       PROVE  inFlight'[i].current <=> i > m - 1
          BY <2>3
        <5>2. inFlight'[i] = inFlight[i + 1] /\ i + 1 \in DOMAIN inFlight
          BY <2>3
        <5>3. inFlight[i + 1].current <=> i + 1 > m
          BY <3>1, <5>2
        <5>4. i + 1 > m <=> i > m - 1
          BY <2>3
        <5>5. QED BY <5>2, <5>3, <5>4
      <4>3. /\ m - 1 \in 0..Len(inFlight') /\ effect' = effect
            /\ Len(inFlight') - (m - 1) + sync'.left + effect'.runs <= CallRetries + 1
        BY <1>0, <2>3, <2>4, <3>1, <3>2, <3>4, <4>1
      <4>4. QED BY <4>2, <4>3 DEF Spent
    <3>5. QED BY <3>1, <3>3, <3>4
  <2>7. QED BY <2>5, <2>6
<1>9. CASE UNCHANGED callsVars
  BY <1>9 DEF callsVars, stCalls, Spent
<1>10. QED BY <1>2, <1>3, <1>4, <1>5, <1>6, <1>7, <1>8, <1>9 DEF CallsNext

\* A call changes the card only by running.
LEMMA HarmlessNext ==
    LockInv /\ Card /\ CallTypes /\ Harmless /\ [CallsNext]_callsVars => Harmless'
<1> SUFFICES ASSUME LockInv, Card, CallTypes, Harmless, [CallsNext]_callsVars PROVE Harmless'
  OBVIOUS
<1>0. effect.runs \in Nat /\ NoRun.runs = 0 /\ ~NoRun.changed
  BY DEF CallTypes, NoRun
<1>1. CASE effect' = NoRun
  BY <1>0, <1>1 DEF Harmless
<1>2. ASSUME NEW c \in Requests, Trap(c) PROVE Harmless'
  BY <1>1, <1>2 DEF Trap
<1>3. CASE NextCommand
  BY <1>1, <1>3, NextSent DEF Harmless
<1>4. CASE SendAgain
  BY <1>4, SentAgain DEF Harmless
<1>5. CASE SyncAnswered \/ SyncGivenUp
  <2>1. /\ UNCHANGED <<trap, effect, answer>> /\ sync'.ran = sync.ran
        /\ lost' = lost \/ lost' = (lost \/ trap.step # "lock")
    BY <1>5 DEF SyncAnswered, SyncGivenUp, rpCalls, LockInv, ChannelTypeOK
  <2>2. ~lost' => ~lost
    BY <2>1, Zenon
  <2>3. QED BY <2>1, <2>2 DEF Harmless
<1>6. CASE ReturnStatus \/ ReturnPath \/ ResetTOS \/ HelloPublishes
  <2>1. trap'.step \in {"idle", "booting"}
    BY <1>6 DEF ReturnStatus, ReturnPath, ResetTOS, HelloPublishes, AtRest
  <2>2. QED BY <2>1 DEF Harmless
<1>7. CASE LoseFrame \/ UNCHANGED callsVars
  BY <1>7 DEF LoseFrame, callsVars, stCalls, rpCalls, Harmless
<1>8. CASE RunFrame
  <2>1. PICK f : f = Head(inFlight)
    OBVIOUS
  <2>2. PICK r : r = f.request
    OBVIOUS
  <2>3. UNCHANGED <<trap, lost>>
    BY <1>8, <2>1, FrameNoted
  <2>4. CASE trap.step # "call"
    BY <1>8, <2>1, <2>3, <2>4, FrameNoted DEF Harmless
  <2>5. CASE trap.step = "call" /\ lost
    BY <2>3, <2>5 DEF Harmless
  <2>6. CASE trap.step = "call" /\ ~lost /\ ~f.current
    <3>1. ~sync.ran
      BY <1>8, <2>1, <2>6, FrameTaken DEF RunFrame, LockInv, Queued
    <3>2. effect.runs = 0 /\ effect' = effect
      BY <1>0, <1>8, <2>1, <2>6, <3>1, FrameNoted DEF Harmless
    <3>3. QED BY <2>3, <2>6, <3>2 DEF Harmless
  <2>7. CASE trap.step = "call" /\ ~lost /\ f.current
    <3>1. sync.pc \in {"sent", "answered"} /\ (sync.pc = "answered" => sync.ran)
      BY <2>7 DEF LockInv, InStep, ChannelTypeOK
    <3>2. r = trap.request /\ r \in Requests
      BY <1>8, <2>1, <2>2, <2>7, <3>1, FrameTaken DEF RunFrame, LockInv, Queued, InStep, Command
    <3>3. answer'.status < 0 => UNCHANGED <<tree, readOnly, dpath>>
      BY <1>8, <2>1, <2>2, <3>2, FrameRuns DEF Ran
    <3>4. /\ effect'.runs = effect.runs + 1
          /\ ~effect.changed /\ UNCHANGED <<tree, readOnly, dpath>> => ~effect'.changed
          /\ sync'.ran
      <4>1. CASE sync.pc = "sent"
        BY <1>8, <2>1, <2>7, <4>1, FrameNoted
      <4>2. CASE sync.pc = "answered"
        BY <1>8, <2>1, <2>7, <3>1, <4>2, FrameNoted
      <4>3. QED BY <3>1, <4>1, <4>2
    <3>5. effect'.runs = 1 => effect.runs = 0
      BY <1>0, <3>4
    <3>6. effect'.runs # 0
      BY <1>0, <3>4
    <3>7. QED BY <2>3, <2>7, <3>3, <3>4, <3>5, <3>6 DEF Harmless
  <2>8. QED BY <2>4, <2>5, <2>6, <2>7
<1>9. QED BY <1>2, <1>3, <1>4, <1>5, <1>6, <1>7, <1>8 DEF CallsNext

\* What a call that has run tells stays true until it returns.
LEMMA ToldNext ==
    LockInv /\ Card /\ CallTypes /\ Placed /\ Told /\ [CallsNext]_callsVars => Told'
<1> SUFFICES ASSUME LockInv, Card, CallTypes, Placed, Told, [CallsNext]_callsVars PROVE Told'
  OBVIOUS
<1>1. CASE ~(trap'.step = "call" /\ sync'.ran)
  BY <1>1 DEF Told
<1>2. ASSUME NEW c \in Requests, Trap(c) PROVE Told'
  BY <1>1, <1>2, TrapSent, SentOnce
<1>3. CASE NextCommand
  BY <1>1, <1>3, NextSent, SentOnce
<1>4. CASE ReturnStatus \/ ReturnPath \/ ResetTOS \/ HelloPublishes
  BY <1>1, <1>4 DEF ReturnStatus, ReturnPath, ResetTOS, HelloPublishes, AtRest
<1>5. CASE SendAgain \/ SyncAnswered \/ SyncGivenUp \/ LoseFrame \/ UNCHANGED callsVars
  <2>1. UNCHANGED <<trap, cwd, tree, readOnly, dpath, answer>> /\ sync'.ran = sync.ran
    <3>1. CASE SendAgain
      BY <3>1, SentAgain
    <3>2. CASE SyncAnswered \/ SyncGivenUp
      BY <3>2 DEF SyncAnswered, SyncGivenUp, rpCalls, LockInv, ChannelTypeOK
    <3>3. CASE LoseFrame \/ UNCHANGED callsVars
      BY <3>3 DEF LoseFrame, callsVars, stCalls, rpCalls
    <3>4. QED BY <1>5, <3>1, <3>2, <3>3
  <2>2. (~lost' => ~lost) /\ (~stray' => ~stray)
    <3>1. CASE SendAgain
      BY <3>1, SentAgain
    <3>2. CASE SyncAnswered \/ SyncGivenUp
      <4>1. lost' = lost \/ lost' = (lost \/ trap.step # "lock")
        BY <3>2, Zenon DEF SyncAnswered, SyncGivenUp
      <4>2. stray' = stray
        BY <3>2 DEF SyncAnswered, SyncGivenUp
      <4>3. ~lost' => ~lost
        BY <4>1, Zenon
      <4>4. QED BY <4>2, <4>3
    <3>3. CASE LoseFrame \/ UNCHANGED callsVars
      BY <3>3 DEF LoseFrame, callsVars, stCalls
    <3>4. QED BY <1>5, <3>1, <3>2, <3>3
  <2>3. QED BY <2>1, <2>2 DEF Told, Achieved, Absolute, Target, Missing, Kind
<1>6. CASE RunFrame
  <2>1. PICK f : f = Head(inFlight)
    OBVIOUS
  <2>2. PICK r : r = f.request
    OBVIOUS
  <2>3. PICK b : b = cwd
    OBVIOUS
  <2>4. /\ inFlight # <<>> /\ f = inFlight[1] /\ 1 \in DOMAIN inFlight
        /\ UNCHANGED <<trap, cwd, stray, lost>>
    BY <1>6, <2>1, FrameNoted, FrameTaken
  <2>5. CASE ~f.current
    <3>1. ~sync.ran
      BY <2>4, <2>5 DEF LockInv, Queued
    <3>2. sync' = sync
      BY <1>6, <2>1, <2>5, FrameNoted
    <3>3. QED BY <1>1, <3>1, <3>2
  <2>6. CASE f.current /\ trap.step = "call"
    <3>1. sync.pc # "idle"
      BY <2>6 DEF LockInv, InStep
    <3>2. r = trap.request /\ r \in Requests
      BY <2>2, <2>4, <2>6, <3>1 DEF LockInv, Queued, InStep, Command
    <3>3. Ran(r)
      BY <1>6, <2>1, <2>2, <3>2, FrameRuns
    <3>4. r.op = "Dgetpath" => answer'.path = dpath'
      BY <3>3 DEF Ran
    <3>5. ASSUME r.op \in StatusCalls, ~lost, answer'.status >= 0, Absolute(r) \/ ~stray
          PROVE  Achieved(r, b)'
      <4>1. ~stray => dpath = cwd
        BY <2>4, <2>6, <3>5 DEF Placed
      <4>2. b \in Nodes /\ (Absolute(r) \/ b = dpath)
        BY <2>3, <3>5, <4>1 DEF CallTypes
      <4>3. QED BY <3>3, <3>5, <4>2 DEF Ran
    <3>6. trap'.request = r /\ cwd' = b
      BY <2>3, <2>4, <3>2
    <3>7. QED BY <2>4, <3>4, <3>5, <3>6 DEF Told, Achieved, Absolute, Target, Missing, Kind
  <2>7. CASE trap.step # "call"
    BY <1>1, <2>4, <2>7
  <2>8. QED BY <2>5, <2>6, <2>7
<1>7. QED BY <1>2, <1>3, <1>4, <1>5, <1>6 DEF CallsNext

\* dpathStr and the directory of the program stay together, step by step.
LEMMA PlacedNext ==
    LockInv /\ Card /\ CallTypes /\ Placed /\ Told /\ [CallsNext]_callsVars => Placed'
<1> SUFFICES ASSUME LockInv, Card, CallTypes, Placed, Told, [CallsNext]_callsVars PROVE Placed'
  OBVIOUS
<1>1. ASSUME trap'.step # "booting", ~lost' /\ ~stray' =>
                /\ ~Moving' \/ ~sync'.ran
                /\ dpath' = cwd'
                /\ \A i \in DOMAIN inFlight' :
                      inFlight'[i].request.op = "Dsetpath" /\ ~(Moving' /\ inFlight'[i].current)
                      => inFlight'[i].request.path.abs /\ inFlight'[i].request.path.to = cwd'
                /\ Moving' => \A i, j \in DOMAIN inFlight' :
                      inFlight'[i].current /\ inFlight'[j].current => i = j
      PROVE  Placed'
  BY <1>1 DEF Placed
<1>2. ASSUME NEW r \in Requests \cup Locking, Send(r), r.op = "Dsetpath" => Moving',
             ~Moving, trap.step # "booting", trap'.step # "booting",
             UNCHANGED <<cwd, stray, lost, dpath>>
      PROVE  Placed'
  <2>1. /\ Len(inFlight) \in Nat /\ DOMAIN inFlight = 1..Len(inFlight)
        /\ DOMAIN inFlight' = 1..(Len(inFlight) + 1)
        /\ \A i \in 1..Len(inFlight) : /\ ~inFlight'[i].current
                                       /\ inFlight'[i].request = inFlight[i].request
        /\ inFlight'[Len(inFlight) + 1].current
        /\ inFlight'[Len(inFlight) + 1].request = r
        /\ ~sync'.ran
    BY <1>2, SentOnce DEF LockInv, ChannelTypeOK
  <2>2. \A i \in DOMAIN inFlight' : i \in 1..Len(inFlight) \/ i = Len(inFlight) + 1
    BY <2>1
  <2>3. \A i, j \in DOMAIN inFlight' : inFlight'[i].current /\ inFlight'[j].current => i = j
    BY <2>1, <2>2
  <2>4. ASSUME ~lost', ~stray' PROVE
             /\ dpath' = cwd'
             /\ \A i \in 1..Len(inFlight) : inFlight[i].request.op = "Dsetpath"
                   => inFlight[i].request.path.abs /\ inFlight[i].request.path.to = cwd'
    BY <1>2, <2>1, <2>4 DEF Placed
  <2>5. ASSUME ~lost', ~stray', NEW i \in DOMAIN inFlight',
               inFlight'[i].request.op = "Dsetpath", ~(Moving' /\ inFlight'[i].current)
        PROVE  inFlight'[i].request.path.abs /\ inFlight'[i].request.path.to = cwd'
    <3>1. i \in 1..Len(inFlight)
      BY <1>2, <2>1, <2>2, <2>5
    <3>2. inFlight'[i].request = inFlight[i].request
      BY <2>1, <3>1
    <3>3. QED BY <2>4, <2>5, <3>1, <3>2
  <2>6. QED BY <1>1, <1>2, <2>1, <2>3, <2>4, <2>5
<1>3. ASSUME NEW c \in Requests, Trap(c) PROVE Placed'
  <2>1. PICK r \in Requests \cup Locking :
           /\ Send(r) /\ trap.step = "idle"
           /\ \/ trap'.step = "lock" /\ r = [op |-> "lock"]
              \/ trap'.step = "call" /\ r = c
           /\ trap'.request = c
           /\ UNCHANGED <<cwd, stray, lost, dpath>>
    BY <1>3, TrapSent
  <2>2. ~Moving /\ trap'.step # "booting" /\ (r.op = "Dsetpath" => Moving')
    BY <2>1 DEF Moving
  <2>3. QED BY <1>2, <2>1, <2>2
<1>4. CASE NextCommand
  <2>1. PICK r \in Requests \cup Locking :
           /\ Send(r)
           /\ IF trap.step = "lock" THEN r = [op |-> "unlock"] ELSE r = trap.request
           /\ trap.step \in {"lock", "unlock"}
           /\ trap'.request = trap.request
           /\ trap'.step = IF trap.step = "lock" THEN "unlock" ELSE "call"
           /\ UNCHANGED <<cwd, stray, lost, dpath>>
    BY <1>4, NextSent
  <2>2. ~Moving /\ trap.step # "booting" /\ trap'.step # "booting"
    BY <2>1 DEF Moving
  <2>3. r.op = "Dsetpath" => Moving'
    BY <2>1 DEF Moving
  <2>4. QED BY <1>2, <2>1, <2>2, <2>3
<1>5. CASE SendAgain
  <2>1. /\ trap.step \in {"lock", "unlock", "call"}
        /\ Len(inFlight) \in Nat /\ DOMAIN inFlight = 1..Len(inFlight)
        /\ DOMAIN inFlight' = 1..(Len(inFlight) + 1)
        /\ \A i \in 1..Len(inFlight) : inFlight'[i] = inFlight[i]
        /\ inFlight'[Len(inFlight) + 1].request = Command
        /\ sync'.ran = sync.ran
        /\ UNCHANGED <<trap, cwd, lost, dpath>>
        /\ (~stray' => ~stray /\ Command.op # "Dsetpath")
    BY <1>5, SentAgain
  <2>2. SUFFICES ASSUME ~lost', ~stray' PROVE
             /\ ~Moving' /\ dpath' = cwd'
             /\ \A i \in DOMAIN inFlight' : inFlight'[i].request.op = "Dsetpath"
                   => inFlight'[i].request.path.abs /\ inFlight'[i].request.path.to = cwd'
    BY <1>1, <2>1
  <2>3. ~Moving /\ ~Moving' /\ ~lost /\ ~stray
    BY <2>1, <2>2 DEF Moving, Command
  <2>4. /\ dpath = cwd
        /\ \A i \in 1..Len(inFlight) : inFlight[i].request.op = "Dsetpath"
              => inFlight[i].request.path.abs /\ inFlight[i].request.path.to = cwd
    BY <2>1, <2>3 DEF Placed
  <2>5. \A i \in DOMAIN inFlight' : i \in 1..Len(inFlight) \/ i = Len(inFlight) + 1
    BY <2>1
  <2>6. QED BY <2>1, <2>2, <2>3, <2>4, <2>5
<1>6. CASE SyncAnswered \/ SyncGivenUp \/ UNCHANGED callsVars
  <2>1. /\ UNCHANGED <<trap, inFlight, cwd, stray, dpath, answer>> /\ sync'.ran = sync.ran
    BY <1>6 DEF SyncAnswered, SyncGivenUp, callsVars, stCalls, rpCalls, LockInv, ChannelTypeOK
  <2>2. ~lost' => ~lost
    <3>1. lost' = lost \/ lost' = (lost \/ trap.step # "lock")
      BY <1>6, Zenon DEF SyncAnswered, SyncGivenUp, callsVars, stCalls
    <3>2. QED BY <3>1, Zenon
  <2>3. QED BY <2>1, <2>2 DEF Placed, Moving, Target
<1>7. CASE LoseFrame
  <2>1. /\ UNCHANGED <<trap, sync, cwd, stray, lost, dpath, answer>>
        /\ inFlight # <<>> /\ inFlight' = Tail(inFlight)
    BY <1>7 DEF LoseFrame, stCalls, rpCalls
  <2>2. /\ DOMAIN inFlight = 1..Len(inFlight) /\ DOMAIN inFlight' = 1..Len(inFlight')
        /\ \A i \in 1..Len(inFlight') :
              i + 1 \in 1..Len(inFlight) /\ inFlight'[i] = inFlight[i + 1]
    BY <2>1, FrameTaken
  <2>3. \A i, j \in 1..Len(inFlight') : i + 1 = j + 1 => i = j
    OBVIOUS
  <2>4. QED BY <2>1, <2>2, <2>3 DEF Placed, Moving, Target
<1>8. CASE ReturnStatus
  <2>1. /\ sync.pc = "answered" /\ trap.step = "call" /\ trap.request \in Requests
        /\ trap.request.op \in StatusCalls
        /\ trap'.step = "idle" /\ UNCHANGED <<lost, inFlight, dpath>>
    BY <1>8 DEF ReturnStatus, Returning, AtRest, rpCalls, LockInv, InStep
  <2>2. SUFFICES ASSUME ~lost, ~stray' PROVE
             /\ dpath = cwd'
             /\ \A i \in DOMAIN inFlight : inFlight[i].request.op = "Dsetpath"
                   => inFlight[i].request.path.abs /\ inFlight[i].request.path.to = cwd'
    BY <1>1, <2>1 DEF Moving
  <2>3. sync.ran
    BY <2>1, <2>2 DEF LockInv, InStep
  <2>4. \A i \in DOMAIN inFlight : inFlight[i].current /\ inFlight[i].request = trap.request
    BY <2>1, <2>3 DEF LockInv, Queued, Command
  <2>5. CASE /\ trap.request.op = "Dsetpath" /\ answer.status = 0
             /\ cwd' = IF trap.request.path.abs THEN trap.request.path.to ELSE dpath
             /\ stray' = (stray /\ ~trap.request.path.abs)
    <3>1. CASE trap.request.path.abs
      <4>1. Absolute(trap.request)
        BY <2>5, <3>1 DEF Absolute
      <4>2. answer.status >= 0
        BY <2>5
      <4>3. Achieved(trap.request, cwd)
        BY <2>1, <2>2, <2>3, <4>1, <4>2 DEF Told
      <4>4. dpath = trap.request.path.to
        BY <2>5, <3>1, <4>3 DEF Achieved, Target
      <4>5. QED BY <2>4, <2>5, <3>1, <4>4
    <3>2. CASE ~trap.request.path.abs
      <4>1. ~stray
        <5>1. stray' = (stray /\ ~trap.request.path.abs)
          BY <2>5, Zenon
        <5>2. QED BY <2>2, <3>2, <5>1, Zenon
      <4>2. DOMAIN inFlight = {}
        BY <2>1, <2>2, <2>3, <2>4, <2>5, <4>1 DEF Placed, Moving
      <4>3. QED BY <2>5, <3>2, <4>2
    <3>3. QED BY <3>1, <3>2
  <2>6. CASE UNCHANGED <<cwd, stray>> /\ (trap.request.op = "Dsetpath" => answer.status # 0)
    <3>1. CASE trap.request.op = "Dsetpath"
      <4>1. dpath = cwd /\ DOMAIN inFlight = {}
        BY <2>1, <2>2, <2>3, <2>4, <2>6, <3>1 DEF Placed, Moving
      <4>2. QED BY <2>6, <4>1
    <3>2. CASE trap.request.op # "Dsetpath"
      BY <2>1, <2>2, <2>4, <2>6, <3>2 DEF Placed, Moving
    <3>3. QED BY <3>1, <3>2
  <2>7. QED BY <1>8, <2>2, <2>5, <2>6, Zenon DEF ReturnStatus
<1>9. CASE ReturnPath
  <2>1. /\ sync.pc = "answered" /\ trap.step = "call" /\ trap.request.op = "Dgetpath"
        /\ trap'.step = "idle" /\ UNCHANGED <<lost, inFlight, dpath>>
        /\ cwd' = answer.path
    BY <1>9 DEF ReturnPath, Returning, AtRest, rpCalls
  <2>2. SUFFICES ASSUME ~lost PROVE
             /\ dpath = cwd'
             /\ \A i \in DOMAIN inFlight : inFlight[i].request.op # "Dsetpath"
    BY <1>1, <2>1 DEF Moving
  <2>3. sync.ran
    BY <2>1, <2>2 DEF LockInv, InStep
  <2>4. QED BY <2>1, <2>3 DEF LockInv, Queued, Command, Told
<1>10. CASE ResetTOS
  BY <1>10 DEF ResetTOS, AtRest, Placed
<1>11. CASE HelloPublishes
  <2>1. /\ inFlight' = <<>> /\ trap'.step = "idle" /\ cwd' = <<>> /\ UNCHANGED dpath
    BY <1>11 DEF HelloPublishes, AtRest, Placed
  <2>2. ~stray' => dpath = <<>>
    <3>1. stray' = (dpath # <<>>)
      BY <1>11, Zenon DEF HelloPublishes
    <3>2. QED BY <3>1, Zenon
  <2>3. DOMAIN inFlight' = {}
    BY <2>1
  <2>4. QED BY <1>1, <2>1, <2>2, <2>3 DEF Moving
<1>12. CASE RunFrame
  <2>1. PICK f : f = Head(inFlight)
    OBVIOUS
  <2>2. PICK r : r = f.request
    OBVIOUS
  <2>3. /\ UNCHANGED <<trap, cwd, stray, lost>>
        /\ inFlight # <<>> /\ inFlight' = Tail(inFlight)
    BY <1>12, <2>1, FrameNoted
  <2>4. /\ DOMAIN inFlight = 1..Len(inFlight) /\ DOMAIN inFlight' = 1..Len(inFlight')
        /\ f = inFlight[1] /\ 1 \in DOMAIN inFlight /\ f \in Frames
        /\ \A i \in 1..Len(inFlight') :
              /\ i + 1 \in 1..Len(inFlight) /\ inFlight'[i] = inFlight[i + 1]
              /\ i + 1 # 1
        /\ \A i, j \in 1..Len(inFlight') : i + 1 = j + 1 => i = j
    BY <2>1, <2>3, FrameTaken
  <2>5. r \in Requests \cup Locking
    BY <2>2, <2>4 DEF Frames
  <2>6. CASE lost \/ stray \/ trap.step = "booting"
    BY <2>3, <2>6 DEF Placed
  <2>7. CASE ~lost /\ ~stray /\ trap.step # "booting"
    <3>1. /\ \A i \in DOMAIN inFlight' :
                inFlight'[i].request.op = "Dsetpath" /\ ~(Moving /\ inFlight'[i].current)
                => inFlight'[i].request.path.abs /\ inFlight'[i].request.path.to = cwd
          /\ Moving => \A i, j \in DOMAIN inFlight' :
                inFlight'[i].current /\ inFlight'[j].current => i = j
      BY <2>4, <2>7, SMTT(30) DEF Placed
    <3>2. Moving' = Moving
      BY <2>3 DEF Moving
    <3>3. CASE Moving /\ f.current
      <4>1. r = trap.request /\ r \in Requests /\ r.op = "Dsetpath"
        BY <2>2, <2>4, <3>3 DEF LockInv, Queued, InStep, Command, Moving
      <4>2. ~sync.ran /\ dpath = cwd
        BY <2>4, <2>7, <3>3 DEF Placed
      <4>3. \A i \in DOMAIN inFlight' : ~inFlight'[i].current
        BY <2>4, <2>7, <3>3 DEF Placed
      <4>4. /\ answer'.status = 0 => dpath' = Target(r.path, cwd)
            /\ answer'.status # 0 => dpath' = cwd
        <5>1. Ran(r)
          BY <1>12, <2>1, <2>2, <4>1, FrameRuns
        <5>2. EERROR # 0
          BY Codes
        <5>3. QED BY <4>1, <4>2, <5>1, <5>2 DEF Ran
      <4>5. sync'.ran
        <5>1. sync.pc = "sent"
          BY <2>7, <3>3, <4>2 DEF LockInv, InStep, ChannelTypeOK, Moving
        <5>2. QED BY <1>12, <2>1, <3>3, <5>1, FrameNoted
      <4>6. QED BY <2>3, <2>7, <3>1, <3>2, <3>3, <4>1, <4>3, <4>4, <4>5 DEF Placed, Target
    <3>4. CASE ~(Moving /\ f.current)
      <4>1. Moving => ~sync.ran /\ sync' = sync
        BY <1>12, <2>1, <2>4, <3>4, FrameNoted DEF LockInv, Queued
      <4>2. dpath = cwd
        BY <2>7, <4>1 DEF Placed
      <4>3. dpath' = cwd
        <5>1. CASE r \in Requests /\ r.op = "Dsetpath"
          <6>1. r.path.abs /\ r.path.to = cwd
            BY <2>2, <2>4, <2>7, <3>4, <5>1 DEF Placed
          <6>2. Ran(r)
            BY <1>12, <2>1, <2>2, <5>1, FrameRuns
          <6>3. QED BY <4>2, <5>1, <6>1, <6>2 DEF Ran, Target
        <5>2. CASE r \in Requests /\ r.op # "Dsetpath"
          <6>1. Ran(r)
            BY <1>12, <2>1, <2>2, <5>2, FrameRuns
          <6>2. QED BY <4>2, <5>2, <6>1 DEF Ran
        <5>3. CASE r \in Locking
          BY <1>12, <2>1, <2>2, <4>2, <5>3, FrameRuns
        <5>4. QED BY <2>5, <5>1, <5>2, <5>3
      <4>4. QED BY <1>1, <2>3, <2>7, <3>1, <3>2, <4>1, <4>3
    <3>5. QED BY <3>3, <3>4
  <2>8. QED BY <2>6, <2>7
<1>13. QED BY <1>3, <1>4, <1>5, <1>6, <1>7, <1>8, <1>9, <1>10, <1>11, <1>12 DEF CallsNext

StatusInv == LockInv /\ Card /\ CallTypes /\ Spent /\ Harmless /\ Placed /\ Told

\* A card of files and folders in the root, and no call yet.
LEMMA StatusInit == CallsInit => StatusInv
<1> SUFFICES ASSUME CallsInit PROVE StatusInv
  OBVIOUS
<1>1. LockInv
  BY LockInitInv
<1>2. /\ trap = AtRest /\ sync = Quiet /\ inFlight = <<>> /\ readOnly = {} /\ dpath = <<>>
      /\ cwd = <<>> /\ answer = Answered_(0) /\ stray = FALSE /\ lost = FALSE /\ effect = NoRun
      /\ tree \in [Nodes -> {"none", "dir", "file"}]
      /\ \A n \in Nodes : IF Len(n) = 0 THEN tree[n] = "dir" ELSE Len(n) > 1 => tree[n] = "none"
  BY DEF CallsInit
<1>3. <<>> \in Nodes /\ tree[<<>>] = "dir"
  <2>1. <<>> \in Nodes /\ Len(<<>>) = 0
    BY NodesAre
  <2>2. QED BY <1>2, <2>1
<1>4. Card
  <2>1. CardTypes
    BY <1>2, <1>3 DEF CardTypes
  <2>2. ASSUME NEW n \in Nodes, ~Missing(n), NEW k \in 0..Len(n) PROVE ~Missing(SubSeq(n, 1, k))
    <3>1. n \in Seq(Names) /\ Len(n) \in Nat /\ SubSeq(n, 1, k) \in Seq(Names)
          /\ Len(SubSeq(n, 1, k)) = k
      <4>1. n \in Seq(Names)
        BY NodesAre
      <4>2. QED BY <4>1, Beginning
    <3>2. Len(n) <= 1
      BY <1>2, <2>2, <3>1 DEF Missing, Kind
    <3>3. CASE k = 0
      <4>1. SubSeq(n, 1, k) = <<>>
        BY <3>1, <3>3, EmptySeq
      <4>2. QED BY <1>3, <4>1 DEF Missing, Kind
    <3>4. CASE k # 0
      <4>1. k = Len(n)
        BY <3>1, <3>2, <3>4
      <4>2. SubSeq(n, 1, k) = n
        BY <3>1, <4>1, SubSeqFull
      <4>3. QED BY <2>2, <4>2
    <3>5. QED BY <3>3, <3>4
  <2>3. QED BY <2>1, <2>2 DEF Card, Rooted
<1>5. CallTypes
  BY <1>2, <1>3 DEF CallTypes, Statuses, Answered_, NoRun
<1>6. Spent /\ Harmless /\ Told
  BY <1>2, QuietIs, CallsAssumption DEF Spent, Harmless, Told, AtRest, NoRun
<1>7. Placed
  <2>1. DOMAIN inFlight = {}
    BY <1>2
  <2>2. QED BY <1>2, <2>1, QuietIs DEF Placed, Moving, AtRest
<1>8. QED BY <1>1, <1>4, <1>5, <1>6, <1>7 DEF StatusInv

\* The invariant of the status is inductive.
LEMMA StatusStep == StatusInv /\ [CallsNext]_callsVars => StatusInv'
<1>1. StatusInv /\ [CallsNext]_callsVars => LockInv' /\ Card' /\ CallTypes'
  BY LockStepInv, CardNext, CallTypesNext DEF StatusInv
<1>2. StatusInv /\ [CallsNext]_callsVars => Spent' /\ Harmless'
  BY SpentNext, HarmlessNext DEF StatusInv
<1>3. StatusInv /\ [CallsNext]_callsVars => Placed' /\ Told'
  BY PlacedNext, ToldNext DEF StatusInv
<1>4. QED BY <1>1, <1>2, <1>3 DEF StatusInv

\* The types of the calls; among them that every status is one of the codes, that
\* dpathStr is a path of the card, that nothing is read-only that does not exist
\* and that no call runs more often than it has attempts.
THEOREM CallsTypeCorrect == CallsSpec => []CallsTypeOK
<1>1. StatusInv => CallsTypeOK
  <2> SUFFICES ASSUME StatusInv PROVE CallsTypeOK
    OBVIOUS
  <2>1. ChannelTypeOK /\ CardTypes /\ CallTypes /\ effect.runs <= CallRetries + 1
    BY DEF StatusInv, LockInv, Card, Spent
  <2>2. CallRetries \in Nat
    BY CallsAssumption
  <2>3. effect \in [runs : 0..(CallRetries + 1), changed : BOOLEAN]
    <3>1. effect.runs \in Nat /\ effect.changed \in BOOLEAN
          /\ effect = [runs |-> effect.runs, changed |-> effect.changed]
      BY <2>1 DEF CallTypes
    <3>2. effect.runs \in 0..(CallRetries + 1)
      BY <2>1, <2>2, <3>1
    <3>3. QED BY <3>1, <3>2
  <2>4. QED BY <2>1, <2>3 DEF CallsTypeOK, ChannelTypeOK, CardTypes, CallTypes, Frames, Statuses
<1>2. QED BY <1>1, StatusInit, StatusStep, PTL DEF CallsSpec

\* A status of a call that was not given up is the truth about the card: success
\* means that what was asked for holds, also after the command ran twice, and a
\* failure of a command that ran once that nothing changed.
THEOREM StatusIsTrueHolds == CallsSpec => StatusIsTrue
<1>1. StatusInv /\ [CallsNext]_callsVars =>
        [LET r == trap.request IN
         Returning(StatusCalls)
         /\ ~lost /\ trap'.step = "idle" =>
            /\ answer.status >= 0 /\ (Absolute(r) \/ ~stray) => Achieved(r, cwd)
            /\ answer.status < 0 /\ effect.runs = 1 => ~effect.changed]_callsVars
  <2> SUFFICES ASSUME StatusInv, Returning(StatusCalls), ~lost
               PROVE  /\ answer.status >= 0 /\ (Absolute(trap.request) \/ ~stray)
                         => Achieved(trap.request, cwd)
                      /\ answer.status < 0 /\ effect.runs = 1 => ~effect.changed
    OBVIOUS
  <2>1. sync.pc = "answered" /\ trap.step = "call" /\ trap.request.op \in StatusCalls
    BY DEF Returning
  <2>2. sync.ran
    BY <2>1 DEF StatusInv, LockInv, InStep
  <2>3. QED BY <2>1, <2>2 DEF StatusInv, Told, Harmless
<1>2. QED BY <1>1, StatusInit, StatusStep, PTL DEF CallsSpec, StatusIsTrue

============================================================================
