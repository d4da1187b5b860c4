---- MODULE GemdriveCalls ----
(***************************************************************************)
(* The GEMDOS calls that name a path or a drive and are over with one      *)
(* command: Dsetpath, Dgetpath, Dfree, Dcreate, Ddelete, Fdelete, Frename  *)
(* and Fattrib.  gemdrive.s asks TOS for the current drive under the       *)
(* re-entry lock, sends the command and returns what the status cell of    *)
(* that call holds; gemdrive.c resolves the path against dpathStr and acts *)
(* on the card.  Of the attributes the one that has an effect is kept:     *)
(* FatFs does not unlink what is read-only.                                *)
(*                                                                         *)
(* The channel is taken at ChannelContract, by which a command sent after  *)
(* one that was given up may be answered by that one's late run.  The      *)
(* current drive of TOS is the emulated one, paths do not use "..", and    *)
(* nobody else changes the card.                                           *)
(***************************************************************************)
EXTENDS Integers, Sequences, SequencesExt

CONSTANTS
    Names,          \* names of one path element
    Nodes,          \* bound: the paths the tree may have
    AbsPaths,       \* paths a program names with the drive's letter
    RelPaths,       \* and those below the current one
    CallRetries     \* attempts after the first one

ASSUME CallsAssumption ==
    /\ Nodes \subseteq Seq(Names) /\ <<>> \in Nodes /\ CallRetries \in Nat
    /\ \A n \in Nodes : \A k \in 0..Len(n) : SubSeq(n, 1, k) \in Nodes
    /\ AbsPaths \subseteq Nodes /\ RelPaths \subseteq Nodes \ {<<>>}

VARIABLES
    trap,           \* the GEMDOS call the program is in, and its step
    sync,           \* send_sync: the command under way
    inFlight,       \* frames on their way to the RP, oldest first
    reentry,        \* GEMDRIVE_SVAR_REENTRY_TRAP
    tree,           \* what is on the card below the folder
    readOnly,       \* what of it has AM_RDO
    dpath,          \* dpathStr
    answer,         \* the cells of the call run last: each call has its own
    cwd,            \* history: the path the program has set or was told
    stray,          \* history: dpathStr may have left cwd
    effect,         \* history: the runs of this call and whether one changed anything
    lost,           \* history: an UNLOCK or a call was given up
    lockLost        \* history: the LOCK of the latest call was given up

stCalls == <<trap, sync, cwd, stray, lost, lockLost>>
rpCalls == <<reentry, tree, readOnly, dpath, answer>>
callsVars == <<stCalls, inFlight, rpCalls, effect>>

EFILNF_ == -33
EPTHNF  == -34
EACCDN  == -36
EINTRN  == -65
ReadOnlyBit == 1     \* AM_RDO, of a status that is an attribute byte
EERROR  == -1       \* the high word of any negative longword

AnyPath == [abs : {TRUE}, to : AbsPaths] \cup [abs : {FALSE}, to : RelPaths]
Below   == {p \in AnyPath : p.to # <<>>}
Simple  == [op : {"Dcreate", "Ddelete", "Fdelete"}, path : Below]
            \cup [op : {"Dsetpath"}, path : AnyPath]
Attribs == [op : {"Fattrib"}, path : Below, set : {"get", "readOnly", "plain"}]
Renames == {r \in [op : {"Frename"}, path : Below, dst : Below] :
               r.path.to # r.dst.to}
OfDrive == {[op |-> "Dgetpath"], [op |-> "Dfree"]}
Requests == Simple \cup Renames \cup Attribs \cup OfDrive
Locking  == {[op |-> "lock"], [op |-> "unlock"]}
Nothing  == [op |-> "none"]

CallsTypeOK ==
    /\ trap \in [step : {"idle", "lock", "unlock", "call", "booting"},
                 request : Requests \cup {Nothing}]
    /\ sync \in [pc : {"idle", "sent", "answered"}, left : 0..CallRetries, ran : BOOLEAN]
    /\ inFlight \in Seq([request : Requests \cup Locking, current : BOOLEAN])
    /\ reentry \in BOOLEAN
    /\ tree \in [Nodes -> {"none", "dir", "file"}] /\ tree[<<>>] = "dir"
    /\ readOnly \subseteq {n \in Nodes \ {<<>>} : tree[n] # "none"}
    /\ dpath \in Nodes /\ cwd \in Nodes
    /\ answer \in [status : {0, ReadOnlyBit, EFILNF_, EPTHNF, EACCDN, EINTRN, EERROR}, path : Nodes]
    /\ stray \in BOOLEAN /\ lost \in BOOLEAN /\ lockLost \in BOOLEAN
    /\ effect \in [runs : 0..(CallRetries + 1), changed : BOOLEAN]

Quiet == [pc |-> "idle", left |-> CallRetries, ran |-> FALSE]
AtRest == [step |-> "idle", request |-> Nothing]
NoRun == [runs |-> 0, changed |-> FALSE]
Answered_(code) == [status |-> code, path |-> <<>>]

CallsInit ==
    /\ trap = AtRest /\ sync = Quiet /\ inFlight = <<>> /\ reentry = FALSE
    /\ tree \in [Nodes -> {"none", "dir", "file"}]
    /\ \A n \in Nodes : IF Len(n) = 0 THEN tree[n] = "dir"
                        ELSE Len(n) > 1 => tree[n] = "none"
    /\ readOnly = {}
    /\ dpath = <<>> /\ cwd = <<>> /\ answer = Answered_(0)
    /\ stray = FALSE /\ lost = FALSE /\ lockLost = FALSE /\ effect = NoRun

----------------------------------------------------------------------------
(* The ST: the trap, and send_sync at its contract.                        *)

Send(r) ==
    /\ sync' = [Quiet EXCEPT !.pc = "sent"]
    /\ inFlight' = Append([i \in DOMAIN inFlight |-> [inFlight[i] EXCEPT !.current = FALSE]],
                        [request |-> r, current |-> TRUE])

\* detect_emulated_drive_letter: a path with our drive letter asks nobody;
\* Dsetpath always asks for the current drive, Dgetpath never, Dfree for drive
\* 0, and Frename looks at whatever a4 of the caller points to
AsksDrive(r) ==
    CASE r.op = "Dsetpath" -> {TRUE}
      [] r.op = "Dgetpath" -> {FALSE}
      [] r.op \in {"Frename", "Dfree"} -> BOOLEAN
      [] OTHER             -> {~r.path.abs}

\* gemdrive_trap; a trap that finds the lock goes to the old handler instead
Trap(r) ==
    /\ trap.step = "idle" /\ ~reentry /\ ~lost
    /\ \E asks \in AsksDrive(r) :
          /\ Send(IF asks THEN [op |-> "lock"] ELSE r)
          /\ trap' = [step |-> IF asks THEN "lock" ELSE "call", request |-> r]
    /\ effect' = NoRun /\ lockLost' = FALSE
    /\ UNCHANGED <<cwd, stray, lost, rpCalls>>

\* history: a Dsetpath that is sent twice may be executed twice
SendAgain ==
    /\ sync.pc = "sent" /\ sync.left > 0
    /\ sync' = [sync EXCEPT !.left = @ - 1]
    /\ LET r == IF trap.step = "call" THEN trap.request ELSE [op |-> trap.step] IN
         /\ inFlight' = Append(inFlight, [request |-> r, current |-> TRUE])
         /\ stray' = (stray \/ r.op = "Dsetpath")
    /\ UNCHANGED <<trap, cwd, lost, lockLost, rpCalls, effect>>

\* the command before this one was given up, and its token is this one's too
Mistakable == \/ trap.step = "unlock" /\ lockLost
              \/ trap.step = "call" /\ lost

SyncAnswered ==
    /\ sync.pc = "sent" /\ (sync.ran \/ Mistakable)
    /\ sync' = [sync EXCEPT !.pc = "answered"]
    /\ UNCHANGED <<trap, cwd, stray, lost, lockLost, inFlight, rpCalls, effect>>

\* the handlers go on as if it had been answered
SyncGivenUp ==
    /\ sync.pc = "sent" /\ sync.left = 0
    /\ sync' = [sync EXCEPT !.pc = "answered"]
    /\ lost' = (lost \/ trap.step # "lock")
    /\ lockLost' = (lockLost \/ trap.step = "lock")
    /\ UNCHANGED <<trap, cwd, stray, inFlight, rpCalls, effect>>

\* Mutant: the lock is not given back before the call.
NextCommand_KeepsLock ==
    /\ sync.pc = "answered" /\ trap.step \in {"lock", "unlock"}
    /\ trap' = [trap EXCEPT !.step = "call"]
    /\ Send(trap.request)
    /\ UNCHANGED <<cwd, stray, lost, lockLost, rpCalls, effect>>

\* reentry_gem_lock; Dgetdrv; reentry_gem_unlock; the call
NextCommand ==
    /\ sync.pc = "answered" /\ trap.step \in {"lock", "unlock"}
    /\ trap' = [trap EXCEPT !.step = IF @ = "lock" THEN "unlock" ELSE "call"]
    /\ Send(IF trap.step = "lock" THEN [op |-> "unlock"] ELSE trap.request)
    /\ UNCHANGED <<cwd, stray, lost, lockLost, rpCalls, effect>>

Target(p, base) == IF p.abs THEN p.to ELSE base \o p.to

\* return_interrupt_w / _l: the status cell is read, whatever send_sync said
StatusCalls == {"Dsetpath", "Dfree", "Dcreate", "Ddelete", "Fdelete", "Frename", "Fattrib"}
Returning(ops) == sync.pc = "answered" /\ trap.step = "call" /\ trap.request.op \in ops

\* history: the program goes by the status it gets
ReturnStatus ==
    /\ Returning(StatusCalls)
    /\ IF trap.request.op = "Dsetpath" /\ answer.status = 0 /\ ~lost
       THEN /\ cwd' = IF trap.request.path.abs THEN trap.request.path.to ELSE dpath
            /\ stray' = (stray /\ ~trap.request.path.abs)
       ELSE UNCHANGED <<cwd, stray>>
    /\ trap' = AtRest /\ sync' = Quiet
    /\ UNCHANGED <<lost, lockLost, inFlight, rpCalls, effect>>

\* .Dgetpath copies the path cell and returns zero: the program knows again
ReturnPath ==
    /\ Returning({"Dgetpath"})
    /\ cwd' = answer.path /\ stray' = (stray /\ lost)
    /\ trap' = AtRest /\ sync' = Quiet
    /\ UNCHANGED <<lost, lockLost, inFlight, rpCalls, effect>>

\* TOS starts at the root; dpathStr stays where it was
ResetTOS ==
    /\ trap.step # "booting"
    /\ trap' = [AtRest EXCEPT !.step = "booting"] /\ sync' = Quiet
    /\ cwd' = <<>>
    /\ effect' = NoRun
    /\ UNCHANGED <<stray, lost, lockLost, inFlight, rpCalls>>

\* HELLO comes after all that was sent before it; publishDriveAndReentry
HelloPublishes ==
    /\ trap.step = "booting" /\ inFlight = <<>>
    /\ trap' = AtRest
    /\ reentry' = FALSE /\ lost' = FALSE /\ lockLost' = FALSE
    /\ stray' = (dpath # <<>>)
    /\ UNCHANGED <<sync, cwd, inFlight, tree, readOnly, dpath, answer, effect>>

----------------------------------------------------------------------------
(* The RP: one handler per frame.                                          *)

Kind(n)   == IF n \in Nodes THEN tree[n] ELSE "none"
Missing(n) == Kind(n) = "none"
NoParent(n) == Kind(Front(n)) # "dir"
Empty(n)  == \A m \in Nodes : Missing(m) \/ m = n \/ ~IsPrefix(n, m)

\* a longword in a cell that the ST reads as a word: its high word
AsWord(code) == IF code < 0 THEN EERROR ELSE 0

\* Mutant: dpathStr is set before the directory is looked up.
HandleDsetpathCall_SetsFirst(r) ==
    LET n == Target(r.path, dpath) IN
    /\ n \in Nodes /\ dpath' = n
    /\ answer' = Answered_(AsWord(IF Kind(n) = "dir" THEN 0 ELSE EPTHNF))
    /\ UNCHANGED <<reentry, tree, readOnly>>

\* handleDsetpathCall: dpathStr moves when f_stat finds a directory
HandleDsetpathCall(r) ==
    LET n == Target(r.path, dpath) IN
    /\ \/ Kind(n) = "dir" /\ dpath' = n /\ answer' = Answered_(AsWord(0))
       \/ UNCHANGED dpath /\ answer' = Answered_(AsWord(EPTHNF))
    /\ UNCHANGED <<reentry, tree, readOnly>>

HandleDgetpathCall ==
    /\ answer' = [status |-> 0, path |-> dpath]
    /\ UNCHANGED <<reentry, tree, readOnly, dpath>>

\* handleDfreeCall; the four numbers it copies are left out
HandleDfreeCall ==
    /\ \E code \in {0, EERROR} : answer' = Answered_(code)
    /\ UNCHANGED <<reentry, tree, readOnly, dpath>>

\* handleDcreateCall: an existing name, a full or failing card is EACCDN
HandleDcreateCall(r) ==
    LET n == Target(r.path, dpath) IN
    /\ \/ /\ Missing(n) /\ ~NoParent(n) /\ n \in Nodes
          /\ tree' = [tree EXCEPT ![n] = "dir"] /\ answer' = Answered_(0)
       \/ UNCHANGED tree /\ answer' = Answered_(IF NoParent(n) THEN EPTHNF ELSE EACCDN)
    /\ UNCHANGED <<reentry, readOnly, dpath>>

\* f_unlink removes a file or an empty directory, whoever asks
Removed(n) ==
    /\ Kind(n) # "none" /\ Empty(n) /\ n \notin readOnly
    /\ tree' = [tree EXCEPT ![n] = "none"]

\* handleDdeleteCall
HandleDdeleteCall(r) ==
    LET n == Target(r.path, dpath) IN
    /\ \/ Removed(n) /\ answer' = Answered_(0)
       \/ /\ UNCHANGED tree
          /\ \E code \in {IF Missing(n) THEN EPTHNF ELSE EACCDN, EINTRN} : answer' = Answered_(code)
    /\ UNCHANGED <<reentry, readOnly, dpath>>

\* handleFdeleteCall: a file that is not there is deleted
HandleFdeleteCall(r) ==
    LET n == Target(r.path, dpath) IN
    /\ \/ Removed(n) /\ answer' = Answered_(AsWord(0))
       \/ /\ Missing(n) /\ ~NoParent(n)
          /\ UNCHANGED tree /\ answer' = Answered_(AsWord(0))
       \/ UNCHANGED tree /\ answer' = Answered_(AsWord(EACCDN))
    /\ UNCHANGED <<reentry, readOnly, dpath>>

\* handleFrenameCall: what lies below a directory moves with it; nobody moves
\* a directory below itself
Moved(s, d) ==
    LET from(n) == s \o SubSeq(n, Len(d) + 1, Len(n)) IN
    /\ tree' = [n \in Nodes |-> IF IsPrefix(d, n) THEN Kind(from(n))
                                ELSE IF IsPrefix(s, n) THEN "none" ELSE tree[n]]
    /\ readOnly' = {n \in Nodes : tree'[n] # "none"
                        /\ IF IsPrefix(d, n) THEN from(n) \in readOnly ELSE n \in readOnly}

HandleFrenameCall(r) ==
    LET s == Target(r.path, dpath)  d == Target(r.dst, dpath) IN
    /\ \/ /\ ~Missing(s) /\ Missing(d) /\ ~NoParent(d) /\ d \in Nodes /\ ~IsPrefix(s, d)
          /\ Moved(s, d) /\ answer' = Answered_(0)
       \/ /\ UNCHANGED <<tree, readOnly>>
          /\ \E code \in {IF Missing(s) \/ NoParent(d) THEN EFILNF_ ELSE EACCDN, EINTRN} :
                answer' = Answered_(code)
    /\ UNCHANGED <<reentry, dpath>>

\* handleFattribCall: f_stat, then f_chmod of the three bits FatFs takes
HandleFattribCall(r) ==
    LET n == Target(r.path, dpath) IN
    /\ \/ /\ ~Missing(n)
          /\ readOnly' = CASE r.set = "get" -> readOnly
                            [] r.set = "readOnly" -> readOnly \cup {n}
                            [] r.set = "plain" -> readOnly \ {n}
          /\ answer' = Answered_(IF n \in readOnly' THEN ReadOnlyBit ELSE 0)
       \/ /\ UNCHANGED readOnly
          /\ \E code \in {EFILNF_} \cup (IF Missing(n) THEN {} ELSE {EACCDN}) :
                answer' = Answered_(code)
    /\ UNCHANGED <<reentry, tree, dpath>>

\* handleReentryLock, handleReentryUnlock
HandleReentry(r) ==
    /\ reentry' = (r.op = "lock")
    /\ UNCHANGED <<tree, readOnly, dpath, answer>>

\* gemdrive_command_cb
RunFrame ==
    /\ inFlight # <<>>
    /\ LET r == Head(inFlight).request
           mine == Head(inFlight).current /\ sync.pc # "idle" IN
         /\ \/ r.op \in {"lock", "unlock"} /\ HandleReentry(r)
            \/ r.op = "Dsetpath" /\ HandleDsetpathCall(r)
            \/ r.op = "Dgetpath" /\ HandleDgetpathCall
            \/ r.op = "Dfree"    /\ HandleDfreeCall
            \/ r.op = "Fattrib"  /\ HandleFattribCall(r)
            \/ r.op = "Dcreate"  /\ HandleDcreateCall(r)
            \/ r.op = "Ddelete"  /\ HandleDdeleteCall(r)
            \/ r.op = "Fdelete"  /\ HandleFdeleteCall(r)
            \/ r.op = "Frename"  /\ HandleFrenameCall(r)
         /\ sync' = IF mine /\ sync.pc = "sent" THEN [sync EXCEPT !.ran = TRUE] ELSE sync
         /\ effect' = IF mine /\ trap.step = "call"
                       THEN [runs |-> effect.runs + 1,
                             changed |-> \/ effect.changed
                                         \/ <<tree, readOnly, dpath>>' # <<tree, readOnly, dpath>>]
                       ELSE effect
    /\ inFlight' = Tail(inFlight)
    /\ UNCHANGED <<trap, cwd, stray, lost, lockLost>>

\* a frame lost on the bus, dropped by a drain or lapped in the ring
LoseFrame ==
    /\ inFlight # <<>> /\ inFlight' = Tail(inFlight)
    /\ UNCHANGED <<stCalls, rpCalls, effect>>

----------------------------------------------------------------------------
CallsNext ==
    \/ \E r \in Requests : Trap(r)
    \/ SendAgain \/ SyncAnswered \/ SyncGivenUp \/ NextCommand
    \/ ReturnStatus \/ ReturnPath
    \/ ResetTOS \/ HelloPublishes
    \/ RunFrame \/ LoseFrame

CallsSpec == CallsInit /\ [][CallsNext]_callsVars

----------------------------------------------------------------------------
(* Properties.                                                             *)

Absolute(r) == r.op \notin {"Dfree", "Dgetpath"} => r.path.abs /\ (r.op = "Frename" => r.dst.abs)

\* what the program asked for holds on the card
Achieved(r, base) ==
    \/ r.op = "Dfree"
    \/ LET n == Target(r.path, base) IN
       CASE r.op = "Dsetpath" -> dpath = n
         [] r.op = "Dcreate"  -> Kind(n) = "dir"
         [] r.op \in {"Ddelete", "Fdelete"} -> Missing(n)
         [] r.op = "Frename"  -> Missing(n) /\ ~Missing(Target(r.dst, base))
         [] r.op = "Fattrib"  ->
              /\ ~Missing(n)
              /\ (n \in readOnly) = IF r.set = "get" THEN answer.status = ReadOnlyBit
                                    ELSE r.set = "readOnly"

\* A status is the truth about the card.  Success means that what was asked
\* for holds, under the directory the program believes it is in, also when the
\* command ran twice; a failure of a command that ran once means that nothing
\* changed.  Nothing is promised for a call that was given up (its cell holds
\* the status of an earlier call), nor, until the next Dgetpath or absolute
\* Dsetpath, for relative paths after a Dsetpath that was sent twice or a reset
\* of the ST, which leaves dpathStr as it was (handleDsetpathCall,
\* getLocalFullPathname).
StatusIsTrue ==
    [][LET r == trap.request IN
       Returning(StatusCalls)
       /\ ~lost /\ trap'.step = "idle" =>
          /\ answer.status >= 0 /\ (Absolute(r) \/ ~stray) => Achieved(r, cwd)
          /\ answer.status < 0 /\ effect.runs = 1 => ~effect.changed]_callsVars

\* The re-entry lock is taken only between the LOCK and the answer of the
\* UNLOCK that belongs to it, or because one of the two was given up: the LOCK
\* that runs late may answer the UNLOCK, which is then dropped.  Until then no
\* call of a program goes past GEMDRIVE to the old handler (gemdrive_trap,
\* reentry_gem_lock, reentry_gem_unlock).
BypassNeedsGiveUp ==
    reentry => lost \/ lockLost \/ trap.step \in {"lock", "unlock", "booting"}
====
