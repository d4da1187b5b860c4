---- MODULE GemdriveTables ----
(***************************************************************************)
(* The tables GEMDRIVE keeps for the ST between two calls: the open-file   *)
(* slots behind the handles, and the DTA slots behind the directory        *)
(* searches (gemdrive.c).  The ST side (gemdrive.s) is one program at a    *)
(* time that opens and closes files, loads a program with Pexec or walks a *)
(* directory; programs exit and the ST is reset without telling the RP.    *)
(*                                                                         *)
(* The channel below is taken at its contract, which CommandChannel        *)
(* checks: a call is executed at least once before it is answered, its     *)
(* duplicates run before any newer call, and a call can be given up.       *)
(* Positions, data and names are left out; a directory is a row of         *)
(* numbered entries.                                                       *)
(***************************************************************************)
EXTENDS Integers, Sequences, FiniteSets

CONSTANTS
    MaxFiles,       \* GEMDRIVE_MAX_OPEN_FILES
    MaxDtas,        \* GEMDRIVE_MAX_DTAS
    FirstFd,        \* GEMDRIVE_FIRST_FD
    Paths,          \* files a program names
    Dtas,           \* addresses of DTA buffers
    Entries,        \* entries of the directory that is walked
    TableRetries,   \* attempts after the first one
    MaxStamp        \* bound: touches of the DTA table

ASSUME TablesAssumption ==
    /\ MaxFiles \in Nat \ {0} /\ MaxDtas \in Nat \ {0} /\ FirstFd \in Nat
    /\ Entries \in Nat \ {0} /\ TableRetries \in Nat /\ MaxStamp \in Nat

VARIABLES
    workload,       \* what the programs of this ST do
    caller,         \* the call the ST is in
    wire,           \* frames on their way to the RP, oldest first
    held,           \* handles the running program believes are open
    pexec,          \* .Pexec: its step, the handles it has read by
    listing,        \* per DTA: last entry the program got (0: no search)
    fileTable,      \* fileTable
    handleCell,     \* GEMDRIVE_FOPEN_HANDLE and GEMDRIVE_FCREATE_HANDLE
    dtaTable,       \* dtaTable
    dtaLruCounter,  \* dtaLruCounter
    dtaFound,       \* GEMDRIVE_DTA_F_FOUND and the entry beside it
    since,          \* history, per DTA: other DTAs named since its last call
    skipped,        \* history: DTAs whose search had a call sent again
    unsure          \* history: a call was given up, or the RP rebooted

sideST == <<caller, held, pexec, listing>>
sideRP == <<fileTable, handleCell, dtaTable, dtaLruCounter, dtaFound>>
tablesVars == <<workload, sideST, wire, sideRP, since, skipped, unsure>>

ENHNDL == -35
EFILNF == -33
NoHandle == -1      \* not read from the cell yet

Slots    == 0..(MaxFiles - 1)
DtaSlots == 1..MaxDtas
Handles  == FirstFd..(FirstFd + MaxFiles - 1)
Cells    == {0, ENHNDL, EFILNF} \cup Handles     \* what a handle cell can hold

FileCalls == [op : {"Fopen", "Fcreate"}, path : Paths, write : BOOLEAN]
FdCalls   == [op : {"Fclose", "Fread"}, handle : Cells]
DtaCalls  == [op : {"Fsetdta", "Fsfirst", "Fsnext", "DtaRelease"}, dta : Dtas]
NoCall    == [op |-> "none"]
Calls     == FileCalls \cup FdCalls \cup DtaCalls

FreeSlot == [inUse |-> FALSE]
FileSlot == {FreeSlot} \cup
    [inUse : {TRUE}, path : Paths, write : BOOLEAN, orphan : BOOLEAN]
DtaSlot  == {FreeSlot} \cup
    [inUse : {TRUE}, addr : Dtas, hasDir : BOOLEAN, pos : 0..Entries,
     lruStamp : 0..MaxStamp]

TablesTypeOK ==
    /\ workload \in {"files", "pexec", "searches"}
    /\ caller \in [pc : {"idle", "sent", "answered", "booting"}, call : Calls \cup {NoCall},
                   left : 0..TableRetries, ran : BOOLEAN]
    /\ wire \in Seq([call : Calls, current : BOOLEAN])
    /\ held \subseteq [handle : Handles, path : Paths]
    /\ pexec \in [step : {"none", "open", "header", "rest", "close"},
                  header : Cells \cup {NoHandle}, next : Cells \cup {NoHandle},
                  again : BOOLEAN]
    /\ listing \in [Dtas -> 0..Entries]
    /\ fileTable \in [Slots -> FileSlot]
    /\ handleCell \in [{"Fopen", "Fcreate"} -> Cells]
    /\ dtaTable \in [DtaSlots -> DtaSlot]
    /\ dtaLruCounter \in 0..MaxStamp
    /\ dtaFound \in [why : {"found", "end", "error", "noSlot"}, entry : 0..Entries]
    /\ since \in [Dtas -> SUBSET Dtas] /\ skipped \subseteq Dtas
    /\ unsure \in BOOLEAN

Idle == [pc |-> "idle", call |-> NoCall, left |-> 0, ran |-> FALSE]
NoPexec == [step |-> "none", header |-> NoHandle, next |-> NoHandle, again |-> FALSE]

TablesInit ==
    /\ workload \in {"files", "pexec", "searches"}
    /\ caller = Idle /\ wire = <<>>
    /\ held = {} /\ pexec = NoPexec /\ listing = [d \in Dtas |-> 0]
    /\ fileTable = [s \in Slots |-> FreeSlot]
    /\ handleCell = [c \in {"Fopen", "Fcreate"} |-> 0]
    /\ dtaTable = [i \in DtaSlots |-> FreeSlot]
    /\ dtaLruCounter = 0
    /\ dtaFound = [why |-> "end", entry |-> 0]
    /\ since = [d \in Dtas |-> {}] /\ skipped = {} /\ unsure = FALSE

----------------------------------------------------------------------------
(* The ST: send_sync taken at its contract.                                *)

\* a new call; what is left of older ones in the wire is theirs no more
Start(c) ==
    /\ ~unsure      \* bound: nothing is claimed from then on
    /\ caller' = [pc |-> "sent", call |-> c, left |-> TableRetries, ran |-> FALSE]
    /\ wire' = Append([i \in DOMAIN wire |-> [wire[i] EXCEPT !.current = FALSE]],
                      [call |-> c, current |-> TRUE])

Resent == caller.left < TableRetries

Resend ==
    /\ caller.pc = "sent" /\ caller.left > 0
    /\ caller' = [caller EXCEPT !.left = @ - 1]
    /\ wire' = Append(wire, [call |-> caller.call, current |-> TRUE])
    /\ skipped' = IF caller.call.op \in {"Fsfirst", "Fsnext"}
                  THEN skipped \cup {caller.call.dta} ELSE skipped
    /\ UNCHANGED <<workload, held, pexec, listing, sideRP, since, unsure>>

Answered ==
    /\ caller.pc = "sent" /\ caller.ran
    /\ caller' = [caller EXCEPT !.pc = "answered"]
    /\ UNCHANGED <<workload, wire, held, pexec, listing, sideRP, since, skipped, unsure>>

\* nobody but .Fread_core looks at d0: the result cell is read all the same
GivenUp ==
    /\ caller.pc = "sent" /\ caller.left = 0
    /\ caller' = [caller EXCEPT !.pc = "answered"]
    /\ unsure' = TRUE
    /\ UNCHANGED <<workload, wire, held, pexec, listing, sideRP, since, skipped>>

Done(ops) == caller.pc = "answered" /\ caller.call.op \in ops

----------------------------------------------------------------------------
(* Programs that open and close files.                                     *)

\* history: a call sent again is over, and the ST took one handle of it
Orphaned(taken, keep) ==
    [s \in Slots |->
        IF fileTable[s].inUse
        THEN [fileTable[s] EXCEPT !.orphan =
                 FirstFd + s # taken /\ FirstFd + s \notin keep /\ (@ \/ Resent)]
        ELSE fileTable[s]]

\* history: nobody knows of the slots in use any more
AllOrphaned ==
    [s \in Slots |-> IF fileTable[s].inUse
                     THEN [fileTable[s] EXCEPT !.orphan = TRUE] ELSE fileTable[s]]

HandlesHeld == {h.handle : h \in held}

CallFopen(p, w, op) ==
    /\ workload = "files" /\ caller.pc = "idle"
    /\ op = "Fcreate" => w
    /\ Start([op |-> op, path |-> p, write |-> w])
    /\ UNCHANGED <<workload, held, pexec, listing, sideRP, since, skipped, unsure>>

CallFclose(h) ==
    /\ caller.pc = "idle"
    /\ Start([op |-> "Fclose", handle |-> h.handle])
    /\ held' = held \ {h}
    /\ UNCHANGED <<workload, pexec, listing, sideRP, since, skipped, unsure>>

\* return_interrupt_l: a cell below FIRST_FD is no handle of ours
TakeHandle ==
    /\ Done({"Fopen", "Fcreate"}) /\ pexec.step = "none"
    /\ LET h == handleCell[caller.call.op] IN
         /\ held' = IF h < FirstFd THEN held
                    ELSE held \cup {[handle |-> h, path |-> caller.call.path]}
         /\ fileTable' = Orphaned(h, HandlesHeld)
    /\ caller' = Idle
    /\ UNCHANGED <<workload, wire, pexec, listing, handleCell, dtaTable,
                   dtaLruCounter, dtaFound, since, skipped, unsure>>

\* a call whose answer changes nothing the program keeps
TakeStatus ==
    /\ Done({"Fclose", "Fsetdta", "DtaRelease"}) /\ pexec.step = "none"
    /\ caller' = Idle
    /\ UNCHANGED <<workload, wire, held, pexec, listing, sideRP, since, skipped, unsure>>

----------------------------------------------------------------------------
(* .Pexec reads the handle cell again each time it needs the handle.       *)

CallPexec(p) ==
    /\ workload = "pexec" /\ caller.pc = "idle" /\ pexec.step = "none"
    /\ Start([op |-> "Fopen", path |-> p, write |-> FALSE])
    /\ pexec' = [NoPexec EXCEPT !.step = "open"]
    /\ UNCHANGED <<workload, held, listing, sideRP, since, skipped, unsure>>

PexecOpened ==
    /\ Done({"Fopen"}) /\ pexec.step = "open"
    /\ LET h == handleCell["Fopen"] IN
         /\ pexec' = IF h < 0 THEN NoPexec
                     ELSE [step |-> "header", header |-> h, next |-> NoHandle, again |-> Resent]
         /\ fileTable' = Orphaned(h, {})
    /\ caller' = Idle
    /\ UNCHANGED <<workload, wire, held, listing, handleCell, dtaTable,
                   dtaLruCounter, dtaFound, since, skipped, unsure>>

\* Mutant: the rest is read by the cell of Fcreate.
PexecRead_FcreateCell ==
    /\ caller.pc = "idle" /\ pexec.step \in {"header", "rest"}
    /\ LET h == IF pexec.step = "header" THEN pexec.header ELSE handleCell["Fcreate"] IN
         /\ Start([op |-> "Fread", handle |-> h])
         /\ pexec' = IF pexec.step = "header" THEN pexec ELSE [pexec EXCEPT !.next = h]
    /\ UNCHANGED <<workload, held, listing, sideRP, since, skipped, unsure>>

\* the header by the handle in d0, the rest by the cell
PexecRead ==
    /\ caller.pc = "idle" /\ pexec.step \in {"header", "rest"}
    /\ LET h == IF pexec.step = "header" THEN pexec.header ELSE handleCell["Fopen"] IN
         /\ Start([op |-> "Fread", handle |-> h])
         /\ pexec' = IF pexec.step = "header" THEN pexec ELSE [pexec EXCEPT !.next = h]
    /\ UNCHANGED <<workload, held, listing, sideRP, since, skipped, unsure>>

\* a short or foreign header goes straight to the close
PexecHaveRead ==
    /\ Done({"Fread"})
    /\ \E step \in {"rest", "close"} :
          /\ pexec.step = "rest" => step = "close"
          /\ pexec' = [pexec EXCEPT !.step = step]
    /\ caller' = Idle
    /\ UNCHANGED <<workload, wire, held, listing, sideRP, since, skipped, unsure>>

PexecClose ==
    /\ caller.pc = "idle" /\ pexec.step = "close"
    /\ Start([op |-> "Fclose", handle |-> handleCell["Fopen"]])
    /\ pexec' = NoPexec
    /\ fileTable' = IF pexec.again THEN AllOrphaned ELSE fileTable
    /\ UNCHANGED <<workload, held, listing, handleCell, dtaTable, dtaLruCounter,
                   dtaFound, since, skipped, unsure>>

----------------------------------------------------------------------------
(* Programs that walk a directory.                                         *)

CallSearch(op, d) ==
    /\ workload = "searches" /\ caller.pc = "idle"
    /\ op = "Fsnext" => listing[d] > 0      \* the DTA carries our drive number
    /\ Start([op |-> op, dta |-> d])
    /\ skipped' = IF op = "Fsfirst" THEN skipped \ {d} ELSE skipped
    /\ UNCHANGED <<workload, held, pexec, listing, sideRP, since, unsure>>

\* .populate_fsdta: the entry is copied into the DTA
TakeEntry ==
    /\ Done({"Fsfirst", "Fsnext"}) /\ dtaFound.why = "found"
    /\ listing' = [listing EXCEPT ![caller.call.dta] = dtaFound.entry]
    /\ caller' = Idle
    /\ UNCHANGED <<workload, wire, held, pexec, sideRP, since, skipped, unsure>>

\* .populate_fsdta_empty: the DTA is cleared and released
TakeMiss ==
    /\ Done({"Fsfirst", "Fsnext"}) /\ dtaFound.why # "found"
    /\ listing' = [listing EXCEPT ![caller.call.dta] = 0]
    /\ skipped' = skipped \ {caller.call.dta}
    /\ Start([op |-> "DtaRelease", dta |-> caller.call.dta])
    /\ UNCHANGED <<workload, held, pexec, sideRP, since, unsure>>

----------------------------------------------------------------------------
(* A program that ends, or a reset of the ST: Pterm is not hooked and       *)
(* CMD_RESET_GEM is never sent, so the RP keeps the tables as they are.     *)

Forget ==
    /\ held' = {} /\ pexec' = NoPexec
    /\ listing' = [d \in Dtas |-> 0] /\ skipped' = {}
    /\ fileTable' = AllOrphaned
    /\ UNCHANGED <<workload, wire, handleCell, dtaTable, dtaLruCounter, dtaFound,
                   since, unsure>>

ProgramEnds ==
    /\ caller.pc = "idle" /\ pexec.step = "none"
    /\ caller' = Idle
    /\ Forget

ResetST ==
    /\ caller.pc \in {"sent", "answered"}
    /\ caller' = [Idle EXCEPT !.pc = "booting"]
    /\ Forget

\* the HELLO of the booted ST is handled after all that was in the wire; it
\* leaves the tables alone
Hello ==
    /\ caller.pc = "booting" /\ wire = <<>>
    /\ caller' = Idle
    /\ UNCHANGED <<workload, wire, held, pexec, listing, sideRP, since, skipped, unsure>>

----------------------------------------------------------------------------
(* The RP: one handler per frame.                                          *)

\* the frame is the first run of the call the ST is waiting for
FirstRun == Head(wire).current /\ caller.pc = "sent" /\ ~caller.ran

\* Mutant: the slots are not tested.
FreeSlots_Any == Slots

FreeSlots == {s \in Slots : ~fileTable[s].inUse}
Lowest(S) == CHOOSE s \in S : \A t \in S : s <= t

\* FatFs refuses a writer beside another opening, and a reader beside a writer
Refused(p, w) ==
    \E s \in Slots : fileTable[s].inUse /\ fileTable[s].path = p
                     /\ (w \/ fileTable[s].write)

\* Mutant: handles are counted from one.
HandleOf_FromOne(s) == FirstFd + s + 1

\* handleFromSlotIndex
HandleOf(s) == FirstFd + s

\* handleFopenCall, handleFcreateCall.  f_open, or the f_chmod after it, may
\* fail for a missing file or a failing card too: the slot is given back.
HandleOpen(c) ==
    /\ \/ FreeSlots = {}
          /\ handleCell' = [handleCell EXCEPT ![c.op] = ENHNDL]
          /\ UNCHANGED fileTable
       \/ FreeSlots # {}
          /\ handleCell' = [handleCell EXCEPT ![c.op] = EFILNF]
          /\ UNCHANGED fileTable
       \/ FreeSlots # {} /\ ~Refused(c.path, c.write)
          /\ LET s == Lowest(FreeSlots) IN
               /\ handleCell' = [handleCell EXCEPT ![c.op] = HandleOf(s)]
               /\ fileTable' = [fileTable EXCEPT ![s] =
                     [inUse |-> TRUE, path |-> c.path, write |-> c.write,
                      orphan |-> ~FirstRun]]
    /\ UNCHANGED <<dtaTable, dtaLruCounter, dtaFound, since>>

\* Mutant: a failed f_close keeps the slot.
HandleFcloseCall_Keeps(c) ==
    /\ \/ UNCHANGED fileTable
       \/ fileTable' = [s \in Slots |->
                            IF FirstFd + s = c.handle THEN FreeSlot ELSE fileTable[s]]
    /\ UNCHANGED <<handleCell, dtaTable, dtaLruCounter, dtaFound, since>>

\* handleFcloseCall: the slot is given back whatever f_close says
HandleFcloseCall(c) ==
    /\ fileTable' = [s \in Slots |->
                        IF FirstFd + s = c.handle THEN FreeSlot ELSE fileTable[s]]
    /\ UNCHANGED <<handleCell, dtaTable, dtaLruCounter, dtaFound, since>>

\* handleReadBuffCall: nothing in the tables changes
HandleOther == UNCHANGED <<sideRP, since>>

SlotsOf(d) == {i \in DtaSlots : dtaTable[i].inUse /\ dtaTable[i].addr = d}
FreeDtas   == {i \in DtaSlots : ~dtaTable[i].inUse}

\* findDtaSlot and the allocators stamp the slot; only the order matters
Touch == dtaLruCounter < MaxStamp /\ dtaLruCounter' = dtaLruCounter + 1

\* history: d is named to the RP, which found or started its search
Named(d, found) ==
    since' = [x \in Dtas |-> IF x = d THEN (IF found THEN {} ELSE since[x])
                             ELSE IF listing[x] > 0 THEN since[x] \cup {d} ELSE {}]

Searching(d) == \E i \in SlotsOf(d) : dtaTable[i].hasDir

HandleFsetdtaCall(d) ==
    /\ CASE SlotsOf(d) # {} ->
              /\ Touch
              /\ dtaTable' = [i \in DtaSlots |->
                    IF i \in SlotsOf(d) THEN [dtaTable[i] EXCEPT !.lruStamp = dtaLruCounter']
                    ELSE dtaTable[i]]
         [] SlotsOf(d) = {} /\ FreeDtas # {} ->
              /\ dtaTable' = [dtaTable EXCEPT ![Lowest(FreeDtas)] =
                    [inUse |-> TRUE, addr |-> d, hasDir |-> FALSE, pos |-> 0, lruStamp |-> 0]]
              /\ UNCHANGED dtaLruCounter
         [] OTHER -> UNCHANGED <<dtaTable, dtaLruCounter>>
    /\ Named(d, Searching(d))
    /\ UNCHANGED <<fileTable, handleCell, dtaFound>>

\* Mutant: the slot touched last is evicted.
Victim_Newest ==
    CHOOSE i \in DtaSlots :
        \A j \in DtaSlots : dtaTable[i].lruStamp >= dtaTable[j].lruStamp

\* allocDtaSlot: the slot of d, a free one, or the one touched longest ago
Victim ==
    CHOOSE i \in DtaSlots :
        \A j \in DtaSlots : \/ dtaTable[i].lruStamp < dtaTable[j].lruStamp
                            \/ dtaTable[i].lruStamp = dtaTable[j].lruStamp /\ i <= j

SlotFor(d) ==
    IF SlotsOf(d) # {} THEN Lowest(SlotsOf(d))
    ELSE IF FreeDtas # {} THEN Lowest(FreeDtas) ELSE Victim

\* handleFsfirstCall: a search without a match gives its slot back
HandleFsfirstCall(d) ==
    /\ Touch
    /\ \/ /\ dtaTable' = [dtaTable EXCEPT ![SlotFor(d)] =
                [inUse |-> TRUE, addr |-> d, hasDir |-> TRUE, pos |-> 1,
                 lruStamp |-> dtaLruCounter']]
          /\ dtaFound' = [why |-> "found", entry |-> 1]
       \/ /\ dtaTable' = [dtaTable EXCEPT ![SlotFor(d)] = FreeSlot]
          /\ dtaFound' = [dtaFound EXCEPT !.why = "error"]
    /\ Named(d, TRUE)
    /\ UNCHANGED <<fileTable, handleCell>>

\* handleFsnextCall: the end of the directory, or an error of f_findnext,
\* which a slot without an open directory always gives, frees the slot
HandleFsnextCall(d) ==
    /\ \/ /\ SlotsOf(d) = {}
          /\ dtaFound' = [dtaFound EXCEPT !.why = "noSlot"]
          /\ UNCHANGED <<dtaTable, dtaLruCounter>>
       \/ \E i \in SlotsOf(d) :
            /\ Touch
            /\ \/ /\ dtaTable[i].hasDir /\ dtaTable[i].pos < Entries
                  /\ dtaTable' = [dtaTable EXCEPT ![i].pos = @ + 1,
                                                  ![i].lruStamp = dtaLruCounter']
                  /\ dtaFound' = [why |-> "found", entry |-> dtaTable[i].pos + 1]
               \/ /\ dtaTable[i].hasDir /\ dtaTable[i].pos = Entries
                  /\ dtaTable' = [dtaTable EXCEPT ![i] = FreeSlot]
                  /\ dtaFound' = [dtaFound EXCEPT !.why = "end"]
               \/ /\ dtaTable' = [dtaTable EXCEPT ![i] = FreeSlot]
                  /\ dtaFound' = [dtaFound EXCEPT !.why =
                                      IF dtaTable[i].hasDir THEN "error" ELSE "noSlot"]
    /\ Named(d, Searching(d))
    /\ UNCHANGED <<fileTable, handleCell>>

HandleDtaReleaseCall(d) ==
    /\ dtaTable' = [i \in DtaSlots |-> IF i \in SlotsOf(d) THEN FreeSlot ELSE dtaTable[i]]
    /\ IF SlotsOf(d) # {} THEN Touch ELSE UNCHANGED dtaLruCounter
    /\ Named(d, TRUE)
    /\ UNCHANGED <<fileTable, handleCell, dtaFound>>

\* gemdrive_command_cb
Execute ==
    /\ wire # <<>>
    /\ LET c == Head(wire).call IN
         \/ c.op \in {"Fopen", "Fcreate"} /\ HandleOpen(c)
         \/ c.op = "Fclose"     /\ HandleFcloseCall(c)
         \/ c.op = "Fread"      /\ HandleOther
         \/ c.op = "Fsetdta"    /\ HandleFsetdtaCall(c.dta)
         \/ c.op = "Fsfirst"    /\ HandleFsfirstCall(c.dta)
         \/ c.op = "Fsnext"     /\ HandleFsnextCall(c.dta)
         \/ c.op = "DtaRelease" /\ HandleDtaReleaseCall(c.dta)
    /\ wire' = Tail(wire)
    /\ caller' = IF FirstRun THEN [caller EXCEPT !.ran = TRUE] ELSE caller
    /\ UNCHANGED <<workload, held, pexec, listing, skipped, unsure>>

\* a frame lost on the bus, dropped by a drain or lapped in the ring
Lose ==
    /\ wire # <<>> /\ wire' = Tail(wire)
    /\ UNCHANGED <<workload, sideST, sideRP, since, skipped, unsure>>

\* gemdrive_init after a crash of the RP; the ST runs on
RebootRP ==
    /\ ~unsure
    /\ unsure' = TRUE
    /\ wire' = <<>>
    /\ fileTable' = [s \in Slots |-> FreeSlot]
    /\ dtaTable' = [i \in DtaSlots |-> FreeSlot]
    /\ dtaLruCounter' = 0
    /\ handleCell' = [c \in {"Fopen", "Fcreate"} |-> 0]
    /\ UNCHANGED <<workload, sideST, dtaFound, since, skipped>>

----------------------------------------------------------------------------
TablesNext ==
    \/ \E p \in Paths, w \in BOOLEAN, op \in {"Fopen", "Fcreate"} : CallFopen(p, w, op)
    \/ \E h \in held : CallFclose(h)
    \/ TakeHandle \/ TakeStatus
    \/ \E p \in Paths : CallPexec(p)
    \/ PexecOpened \/ PexecRead \/ PexecHaveRead \/ PexecClose
    \/ \E d \in Dtas, op \in {"Fsetdta", "Fsfirst", "Fsnext"} : CallSearch(op, d)
    \/ TakeEntry \/ TakeMiss
    \/ Resend \/ Answered \/ GivenUp
    \/ ProgramEnds \/ ResetST \/ Hello
    \/ Execute \/ Lose \/ RebootRP

TablesSpec == TablesInit /\ [][TablesNext]_tablesVars

----------------------------------------------------------------------------
(* Properties.                                                             *)

\* A handle the program holds is open on the file it was got for, and no two
\* of its handles are the same slot, whatever was sent twice or left behind by
\* other programs; until a call is given up or the RP reboots under the ST
\* (.Fopen returns the handle cell without looking at the result of the call).
HandleIsMine ==
    ~unsure => \A h \in held :
        /\ fileTable[h.handle - FirstFd].inUse
        /\ fileTable[h.handle - FirstFd].path = h.path
        /\ \A g \in held \ {h} : g.handle # h.handle

\* A slot is in use only for a handle the running program holds, for the call
\* under way, for a Pexec under way, or because it was orphaned: by a program
\* that ended or was reset, or by an opening that was sent twice.  A failed
\* opening and a failed f_close leave no slot behind (handleFopenCall,
\* handleFcreateCall, handleFcloseCall).
LeakExplained ==
    ~unsure => \A s \in Slots : fileTable[s].inUse /\ ~fileTable[s].orphan =>
        \/ FirstFd + s \in HandlesHeld
        \/ FirstFd + s \in {pexec.header, pexec.next}
        \/ caller.call.op \in {"Fopen", "Fcreate"}
        \/ caller.call.op = "Fclose" /\ caller.call.handle = FirstFd + s

\* Pexec reads the header and the rest of a program through one opening,
\* unless its Fopen was sent twice: then the handle cell may have moved on to
\* the slot of the duplicate, whose position is at the start of the file.
PexecReadsOneOpen ==
    pexec.next # NoHandle => pexec.next = pexec.header \/ pexec.again \/ unsure

\* A walk over a directory gets the entries one after the other and ends after
\* the last: if it is cut short for want of its slot, at least as many other
\* DTAs as the table has slots were named since its last call; if entries are
\* missing, a call of it was sent twice (allocDtaSlot, findDtaSlot).
ListingWhole ==
    [][\A d \in Dtas :
        /\ caller.pc = "answered" /\ caller.call = [op |-> "Fsnext", dta |-> d]
        /\ ~unsure /\ d \notin skipped
        => /\ listing'[d] > listing[d] => listing'[d] = listing[d] + 1
           /\ listing'[d] < listing[d] /\ caller'.pc = "sent" =>
                 CASE dtaFound.why = "end"    -> listing[d] = Entries
                   [] dtaFound.why = "noSlot" -> Cardinality(since[d]) >= MaxDtas
                   [] OTHER -> TRUE]_tablesVars
====
