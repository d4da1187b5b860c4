---- MODULE HttpTransfers ----
(***************************************************************************)
(* The HTTP connection pool with its transfers (http_server.c), the SD     *)
(* card they use and its supervision (sdcard.c), and one file the ST has   *)
(* open through GEMDRIVE.  All of it runs on the RP's main loop: a step is *)
(* one lwIP callback or one poll, run to its end.                          *)
(*                                                                         *)
(* FatFs is external: an opened object holds an entry of the lock table    *)
(* until it is closed without error or the volume is unmounted; a card     *)
(* that does not answer fails a call or lets it pass from the cache.  One  *)
(* file is enough to cross the transfers: "f", which with its folder may be *)
(* renamed, deleted and made anew.  Renaming the folder takes a file that  *)
(* is open below it to a place named "moved".                              *)
(***************************************************************************)
EXTENDS Integers, FiniteSets

CONSTANT Conns      \* g_conns, HTTP_SERVER_MAX_CONNECTIONS of them

ASSUME TransfersAssumption ==
    /\ IsFiniteSet(Conns) /\ {"st", "nobody"} \cap Conns = {}

VARIABLES
    inserted,       \* a card is in the slot
    live,           \* and the driver has initialised that very card
    volume,         \* FatFs has a volume mounted
    sdMounted,      \* sdMounted
    content,        \* what "f" is, or that its folder is missing
    locks,          \* FatFs's lock table
    conn,           \* g_conns
    g_body_stream_busy,
    stFile          \* the FIL of a GEMDRIVE slot

cardVars == <<inserted, live, volume, sdMounted, content>>
transfersVars == <<cardVars, locks, conn, g_body_stream_busy, stFile>>

Places == {"f", "moved", "folder"}

\* A FatFs object: which place it has open, for what; stale once its volume
\* was unmounted.
NoObject == [kind |-> "none", at |-> "none", stale |-> FALSE]
Objects  == [kind : {"none", "read", "write", "dir"}, at : Places \cup {"none"},
             stale : BOOLEAN]

\* "response" stands for HC_WRITE_RESPONSE and HC_DRAINING: an answer on its way
States == {"free", "headers", "response",
           "listing", "download", "upload", "debug"}

\* "half" is an upload that has not ended
Contents == {"noFolder", "absent", "half", "whole"}

Free == [state |-> "free", obj |-> NoObject, lock |-> FALSE, gone |-> FALSE]

TransfersTypeOK ==
    /\ inserted \in BOOLEAN /\ volume \in BOOLEAN /\ live \in BOOLEAN
    /\ sdMounted \in BOOLEAN
    /\ content \in Contents
    /\ locks \subseteq [owner : Conns \cup {"st", "nobody"}, at : Places, write : BOOLEAN]
    /\ conn \in [Conns -> [state : States, obj : Objects, lock : BOOLEAN, gone : BOOLEAN]]
    /\ g_body_stream_busy \in BOOLEAN
    /\ stFile \in Objects

TransfersInit ==
    /\ inserted = TRUE /\ volume = TRUE /\ live = TRUE /\ sdMounted = TRUE
    /\ content \in {"noFolder", "absent", "whole"}
    /\ locks = {} /\ conn = [c \in Conns |-> Free]
    /\ g_body_stream_busy = FALSE /\ stFile = NoObject

----------------------------------------------------------------------------
(* FatFs.                                                                  *)

Valid(o) == o.kind # "none" /\ ~o.stale

LockFor(who, o) == [owner |-> who, at |-> o.at, write |-> o.kind = "write"]

\* a writer wants the object alone, a reader shares it with readers
Shared(at, write) == \A l \in locks : l.at = at => ~write /\ ~l.write

Exists == volume /\ content \in {"half", "whole"}
HasFolder == volume /\ content # "noFolder"

\* sdcard_noteResult of an error that means that the medium does not answer
NoteError == sdMounted' = FALSE

\* f_open of a place with a result of FR_OK
Opened(who, o) == locks' = locks \cup {LockFor(who, o)}

\* f_close, f_closedir: closing what was written may fail, and then leaves
\* its lock entry behind; a stale object is refused without any effect
ClosedOk(who, o) ==
    locks' = IF Valid(o) THEN locks \ {LockFor(who, o)} ELSE locks
CloseFailed(who, o) ==
    /\ Valid(o) /\ o.kind = "write"
    /\ locks' = (locks \ {LockFor(who, o)}) \cup
                {[owner |-> "nobody", at |-> o.at, write |-> TRUE]}

Stale(o) == IF o.kind = "none" THEN o ELSE [o EXCEPT !.stale = TRUE]

\* f_mount(NULL): every object of the volume is stale, the locks are gone
Unmount ==
    /\ locks' = {}
    /\ conn' = [c \in Conns |-> [conn[c] EXCEPT !.obj = Stale(@)]]
    /\ stFile' = Stale(stFile)

----------------------------------------------------------------------------
(* The card and sdcard.c.                                                  *)

RemoveCard ==
    /\ inserted
    /\ inserted' = FALSE /\ live' = FALSE
    /\ UNCHANGED <<volume, sdMounted, content, locks, conn, g_body_stream_busy, stFile>>

\* the same card or another, with whatever is on it
InsertCard ==
    /\ ~inserted
    /\ inserted' = TRUE
    /\ content' \in {"noFolder", "absent", "whole", content}
    /\ UNCHANGED <<live, volume, sdMounted, locks, conn, g_body_stream_busy, stFile>>

\* sdcard_pollPresence: a sector that cannot be read; or sdcard_noteResult of
\* any call that fails as the card does
PollPresence ==
    /\ sdMounted /\ ~live
    /\ sdMounted' = FALSE
    /\ UNCHANGED <<inserted, live, volume, content, locks, conn, g_body_stream_busy, stFile>>

\* sdcard_pollRemount: driver and volume are taken down whatever comes of it;
\* the mount can fail, and so can the folder after the mount
PollRemount ==
    /\ ~sdMounted
    /\ Unmount
    /\ \/ /\ inserted
          /\ live' = TRUE /\ volume' = TRUE
          /\ sdMounted' \in BOOLEAN
       \/ live' = FALSE /\ volume' = FALSE /\ UNCHANGED sdMounted
    /\ UNCHANGED <<inserted, content, g_body_stream_busy>>

\* any call with a path mounts a volume that is not, whatever sdMounted says
AutoMount ==
    /\ ~volume /\ inserted
    /\ live' = TRUE /\ volume' = TRUE
    /\ UNCHANGED <<inserted, sdMounted, content, locks, conn, g_body_stream_busy, stFile>>

----------------------------------------------------------------------------
(* The ST's file: handleFopenCall, handleFcreateCall, handleFcloseCall.    *)

StOpen(kind) ==
    LET o == [kind |-> kind, at |-> "f", stale |-> FALSE] IN
    /\ stFile = NoObject
    /\ live /\ Shared("f", kind = "write")
    /\ IF kind = "read" THEN Exists ELSE HasFolder
    /\ stFile' = o /\ Opened("st", o)
    /\ content' = IF kind = "write" THEN "whole" ELSE content
    /\ UNCHANGED <<inserted, live, volume, sdMounted, conn, g_body_stream_busy>>

StClose ==
    /\ stFile # NoObject
    /\ \/ ClosedOk("st", stFile) /\ UNCHANGED sdMounted
       \/ CloseFailed("st", stFile) /\ NoteError
    /\ stFile' = NoObject
    /\ UNCHANGED <<inserted, live, volume, content, conn, g_body_stream_busy>>

----------------------------------------------------------------------------
(* Connections.                                                            *)

\* conn_alloc; a full pool refuses the client
Accept(c) ==
    /\ conn[c].state = "free"
    /\ conn' = [conn EXCEPT ![c].state = "headers"]
    /\ UNCHANGED <<cardVars, locks, g_body_stream_busy, stFile>>

\* f_unlink of the upload path: a locked object is refused
Unlinked(held) ==
    IF live /\ Exists /\ \A l \in held : l.at # "f"
    THEN "absent" ELSE content

\* Mutant: the listing's directory is not closed.
Release_KeepsDir(c) ==
    LET o == conn[c].obj IN
    /\ IF o.kind = "dir" THEN UNCHANGED locks ELSE ClosedOk(c, o) \/ CloseFailed(c, o)
    /\ content' = IF o.kind = "write" THEN Unlinked(locks') ELSE content
    /\ g_body_stream_busy' = (g_body_stream_busy /\ ~conn[c].lock)

\* conn_release_resources: whatever is open is closed, an upload that is still
\* open is removed from the card, the body lock is given back
Release(c) ==
    LET o == conn[c].obj IN
    /\ ClosedOk(c, o) \/ CloseFailed(c, o)
    /\ content' = IF o.kind = "write" THEN Unlinked(locks') ELSE content
    /\ g_body_stream_busy' = (g_body_stream_busy /\ ~conn[c].lock)

\* conn_close, and srv_err_cb where lwIP has freed the pcb already
Close(c) ==
    /\ Release(c)
    /\ conn' = [conn EXCEPT ![c] = Free]
    /\ UNCHANGED <<inserted, live, volume, sdMounted, stFile>>

\* the client vanishes without a word: nothing more comes from it
Vanish(c) ==
    /\ conn[c].state # "free" /\ ~conn[c].gone
    /\ conn' = [conn EXCEPT ![c].gone = TRUE]
    /\ UNCHANGED <<cardVars, locks, g_body_stream_busy, stFile>>

\* the peer closes or resets, lwIP gives up on it, a rejoin takes the link down
PeerCloses(c) == conn[c].state # "free" /\ Close(c)

\* Mutant: only connections that wait for a request are swept.
IdleSweep_HeadersOnly(c) ==
    /\ conn[c].state = "headers"
    /\ Close(c)

\* srv_poll_cb after HTTP_IDLE_TIMEOUT_MS of silence, of whatever length a step
\* takes here; a tail of the debug stream is never swept
IdleSweep(c) ==
    /\ conn[c].state \notin {"free", "debug"}
    /\ Close(c)

\* the answer is written; what is open stays open until it is sent
Answer(c) ==
    /\ conn[c].state = "headers"
    /\ conn' = [conn EXCEPT ![c].state = "response"]
    /\ UNCHANGED <<cardVars, locks, g_body_stream_busy, stFile>>

\* write_fs_error of a medium that does not answer
AnswerFsError(c) ==
    /\ conn[c].state = "headers"
    /\ conn' = [conn EXCEPT ![c].state = "response"]
    /\ NoteError
    /\ UNCHANGED <<inserted, live, volume, content, locks, g_body_stream_busy, stFile>>

\* srv_sent_cb: the answer, or the end of a stream, is acknowledged
ResponseSent(c) ==
    /\ conn[c].state = "response"
    /\ Close(c)

\* handle_file_delete and route's check for a card
DeleteFile(c) ==
    /\ conn[c].state = "headers" /\ sdMounted
    /\ content' = Unlinked(locks)
    /\ conn' = [conn EXCEPT ![c].state = "response"]
    /\ UNCHANGED <<inserted, live, volume, sdMounted, locks, g_body_stream_busy, stFile>>

\* handle_file_rename, of "f" or to "f"; an open source and an existing target
\* are refused
RenameFile(c) ==
    /\ conn[c].state = "headers" /\ sdMounted /\ live
    /\ \/ Exists /\ Shared("f", TRUE) /\ content' = "absent"
       \/ content = "absent" /\ content' = "whole"
    /\ conn' = [conn EXCEPT ![c].state = "response"]
    /\ UNCHANGED <<inserted, live, volume, sdMounted, locks, g_body_stream_busy, stFile>>

\* handle_folder_create; or handle_folder_rename of another one, with or without
\* such a file.  Bound: that is not the folder of a file which is open.
MakeFolder(c) ==
    /\ conn[c].state = "headers" /\ sdMounted /\ live /\ content = "noFolder"
    /\ \/ content' = "absent"
       \/ (\A l \in locks : l.at # "moved") /\ content' = "whole"
    /\ conn' = [conn EXCEPT ![c].state = "response"]
    /\ UNCHANGED <<inserted, live, volume, sdMounted, locks, g_body_stream_busy, stFile>>

\* handle_folder_delete: a folder that is not empty, or that is being listed,
\* is refused
DeleteFolder(c) ==
    /\ conn[c].state = "headers" /\ sdMounted /\ live
    /\ content = "absent" /\ Shared("folder", TRUE)
    /\ content' = "noFolder"
    /\ conn' = [conn EXCEPT ![c].state = "response"]
    /\ UNCHANGED <<inserted, live, volume, sdMounted, locks, g_body_stream_busy, stFile>>

\* handle_folder_rename: an open directory is refused, files open below it are
\* not.  Bound: no second renaming while a file of the first is open.
RenameFolder(c) ==
    LET Moved(o) == IF o.at = "f" /\ ~o.stale THEN [o EXCEPT !.at = "moved"] ELSE o IN
    /\ conn[c].state = "headers" /\ sdMounted /\ live /\ HasFolder
    /\ \A l \in locks : l.at = "f"
    /\ content' = "noFolder"
    /\ locks' = {IF l.at = "f" THEN [l EXCEPT !.at = "moved"] ELSE l : l \in locks}
    /\ conn' = [x \in Conns |-> [conn[x] EXCEPT !.obj = Moved(@),
                                    !.state = IF x = c THEN "response" ELSE @]]
    /\ stFile' = Moved(stFile)
    /\ UNCHANGED <<inserted, live, volume, sdMounted, g_body_stream_busy>>

\* handle_files_list: the DIR is opened and the first chunk sent
StartListing(c) ==
    LET o == [kind |-> "dir", at |-> "folder", stale |-> FALSE] IN
    /\ conn[c].state = "headers" /\ sdMounted /\ HasFolder
    /\ Opened(c, o)
    /\ conn' = [conn EXCEPT ![c].state = "listing", ![c].obj = o]
    /\ UNCHANGED <<cardVars, g_body_stream_busy, stFile>>

\* stream_listing_drive: any number of rounds, then the terminator; a write
\* that fails closes, a read error passes for the end of the directory, which
\* stays open until the connection closes
DriveListing(c) ==
    /\ conn[c].state = "listing"
    /\ \/ /\ conn' = [conn EXCEPT ![c].state = "response"]
          /\ UNCHANGED <<cardVars, locks, g_body_stream_busy, stFile>>
       \/ Close(c)

\* handle_debug_log
StartDebug(c) ==
    /\ conn[c].state = "headers"
    /\ conn' = [conn EXCEPT ![c].state = "debug"]
    /\ UNCHANGED <<cardVars, locks, g_body_stream_busy, stFile>>

----------------------------------------------------------------------------
(* Downloads and uploads, one at a time.                                   *)

\* handle_file_download; HEAD and an empty file let go of everything at once,
\* HEAD of the connection too
StartDownload(c) ==
    LET o == [kind |-> "read", at |-> "f", stale |-> FALSE] IN
    /\ conn[c].state = "headers" /\ sdMounted
    /\ ~g_body_stream_busy
    /\ Exists /\ Shared("f", FALSE)
    /\ \/ /\ Opened(c, o)
          /\ g_body_stream_busy' = TRUE
          /\ conn' = [conn EXCEPT ![c].state = "download", ![c].obj = o,
                                  ![c].lock = TRUE]
       \/ /\ \/ conn' = [conn EXCEPT ![c] = Free]
             \/ conn' = [conn EXCEPT ![c].state = "response"]
          /\ UNCHANGED <<locks, g_body_stream_busy>>
    /\ UNCHANGED <<cardVars, stFile>>

\* stream_download_drive: any number of windows; the end closes, as a read or
\* a write that fails does
DriveDownload(c) == conn[c].state = "download" /\ Close(c)

\* handle_file_upload_init.  It does not go through route: no check for a card.
StartUpload(c) ==
    LET o == [kind |-> "write", at |-> "f", stale |-> FALSE] IN
    /\ conn[c].state = "headers"
    /\ ~g_body_stream_busy
    /\ HasFolder /\ Shared("f", TRUE)
    /\ Opened(c, o)
    /\ content' = IF live THEN "half" ELSE content
    /\ g_body_stream_busy' = TRUE
    /\ conn' = [conn EXCEPT ![c].state = "upload", ![c].obj = o, ![c].lock = TRUE]
    /\ UNCHANGED <<inserted, live, volume, sdMounted, stFile>>

\* srv_recv_cb and upload_drain_pbuf: any number of segments, and a failed or a
\* short write, which is answered with the file still open
UploadFails(c) ==
    /\ conn[c].state = "upload"
    /\ conn' = [conn EXCEPT ![c].state = "response"]
    /\ NoteError \/ UNCHANGED sdMounted
    /\ UNCHANGED <<inserted, live, volume, content, locks, g_body_stream_busy, stFile>>

\* Mutant: upload_file_open is left set after the close.
UploadFinish_StillOpen(c) ==
    /\ conn[c].state = "upload"
    /\ ClosedOk(c, conn[c].obj)
    /\ content' = IF content = "half" THEN "whole" ELSE content
    /\ g_body_stream_busy' = FALSE
    /\ conn' = [conn EXCEPT ![c].state = "response", ![c].lock = FALSE]
    /\ UNCHANGED <<inserted, live, volume, sdMounted, stFile>>

\* upload_finish_ok: the file is closed, the body lock given back; a failed
\* close is followed by f_unlink and is not noted
UploadFinish(c) ==
    LET o == conn[c].obj IN
    /\ conn[c].state = "upload"
    /\ \/ /\ Valid(o) /\ live /\ ClosedOk(c, o)
          /\ content' = IF content = "half" THEN "whole" ELSE content
       \/ /\ CloseFailed(c, o) \/ (~Valid(o) /\ UNCHANGED locks)
          /\ content' = Unlinked(locks')
    /\ g_body_stream_busy' = FALSE
    /\ conn' = [conn EXCEPT ![c] = [Free EXCEPT !.state = "response"]]
    /\ UNCHANGED <<inserted, live, volume, sdMounted, stFile>>
----------------------------------------------------------------------------
\* srv_recv_cb, and srv_sent_cb of an answer: the client's doing
FromClient(c) ==
    /\ ~conn[c].gone
    /\ \/ Answer(c) \/ AnswerFsError(c)
       \/ DeleteFile(c) \/ RenameFile(c) \/ RenameFolder(c) \/ MakeFolder(c) \/ DeleteFolder(c)
       \/ StartListing(c) \/ StartDownload(c) \/ StartUpload(c) \/ StartDebug(c)
       \/ UploadFails(c) \/ UploadFinish(c) \/ ResponseSent(c)

\* lwIP's callbacks of what is sent, and its poll
Drive(c) == DriveListing(c) \/ DriveDownload(c)

Card ==
    RemoveCard \/ InsertCard \/ PollPresence \/ PollRemount \/ AutoMount

TransfersNext ==
    \/ \E c \in Conns : \/ Accept(c) \/ FromClient(c) \/ Drive(c)
                        \/ Vanish(c) \/ PeerCloses(c) \/ IdleSweep(c)
    \/ Card
    \/ \E kind \in {"read", "write"} : StOpen(kind)
    \/ StClose

TransfersSpec == TransfersInit /\ [][TransfersNext]_transfersVars

(* lwIP calls the poll callback of every connection, and a client that has   *)
(* vanished does not start the idle time anew.  Nothing else is assumed: a   *)
(* client that sends a byte now and then stays as long as it likes.         *)
SweepVanished(c) == conn[c].gone /\ IdleSweep(c)

TransfersFairness == \A c \in Conns : WF_transfersVars(SweepVanished(c))

----------------------------------------------------------------------------
(* Properties.                                                             *)

Uploading(c) == conn[c].obj.kind = "write"

\* The body lock is taken exactly while one connection holds it, and never by
\* two: no way out of a transfer, by an answer, an error of FatFs, the peer,
\* the sweep or lwIP, leaves later transfers answering 503 until a reset.
BodyLockHeld ==
    /\ g_body_stream_busy <=> \E c \in Conns : conn[c].lock
    /\ \A c, d \in Conns : conn[c].lock /\ conn[d].lock => c = d

\* Every entry of FatFs's lock table belongs to an object that is open, or to
\* a file whose f_close failed; every open object has its entry until its
\* volume is unmounted.  The table is shared with GEMDRIVE, so what a closed
\* connection left in it would keep the ST from its files.
LocksOwned ==
    /\ \A l \in locks : l.owner # "nobody" =>
          LET o == IF l.owner = "st" THEN stFile ELSE conn[l.owner].obj IN
          Valid(o) /\ l = LockFor(l.owner, o)
    /\ \A c \in Conns : Valid(conn[c].obj) => LockFor(c, conn[c].obj) \in locks
    /\ Valid(stFile) => LockFor("st", stFile) \in locks

\* Both, as one invariant: nothing that transfers share outlives its owner.
ResourcesOwned == BodyLockHeld /\ LocksOwned

\* The f_unlink of an interrupted upload removes its own partial file and no
\* other, unless the card was exchanged or the folder renamed under it: it
\* goes by the path, not by the file.
AbortSparesOthers ==
    [][\A c \in Conns :
        /\ conn[c].state # "free" /\ conn'[c].state = "free"
        /\ content = "whole" /\ content' = "absent"
        => conn[c].obj.stale \/ conn[c].obj.at = "moved"
      ]_transfersVars

\* The slot of a client that vanished without a word is free again some time,
\* whatever it was in the middle of, unless it was a tail of the debug stream:
\* with two slots, two such clients would otherwise shut everybody out.
ConnectionsEnd ==
    \A c \in Conns : conn[c].gone /\ conn[c].state # "debug" ~> ~conn[c].gone
====
