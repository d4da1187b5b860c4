---- MODULE GemdriveRead ----
(***************************************************************************)
(* GEMDOS Fseek and Fread over the command channel.  .Fseek returns the    *)
(* position in its status cell; .Fread_core (gemdrive.s) asks for one      *)
(* buffer at a time and copies it out of the shared window byte by byte;   *)
(* handleReadBuffCall (gemdrive.c) fills that window from the file.  Both  *)
(* handlers move the file position at every execution, a resent one        *)
(* included.  A byte of the file is named by its position.  The program    *)
(* seeks once, or not at all, in a file opened for reading, then reads.    *)
(***************************************************************************)
EXTENDS CommandChannel

CONSTANTS
    BufferSize,     \* BUFFER_READ_SIZE / GEMDRIVE_READ_BUFFER_SIZE
    FileSize,
    Starts,         \* file positions an earlier read may have left
    Seeks,          \* the Fseek calls a program may make
    Wants           \* byte counts the program may ask for

ASSUME ReadAssumption ==
    /\ BufferSize \in Nat \ {0} /\ FileSize \in Nat
    /\ Seeks \subseteq [mode : {"set", "cur", "end"}, by : Int]
    /\ Starts \subseteq 0..FileSize /\ Wants \subseteq Nat \ {0}

VARIABLES
    callPc,         \* where the program, .Fseek or .Fread_core is
    seek,           \* the Fseek call made, or NoSeek
    wanted, start,  \* d4, and the file position the program goes by
    pendingBytes,   \* d5
    chunkBytes,     \* d0: bytes of the window being copied
    copied,         \* how many of them are already in the caller's buffer
    got,            \* the caller's buffer
    seekStatus,     \* GEMDRIVE_FSEEK_STATUS (-1 stands for any error)
    filePos,        \* file pointer of the FIL
    fpError,        \* the FIL refuses further reads
    readBuffer,     \* GEMDRIVE_READ_BUFFER, the shared window
    readBytes       \* GEMDRIVE_READ_BYTES (-1 stands for any error)

stRead == <<callPc, seek, wanted, start, pendingBytes, chunkBytes, copied, got>>
rpRead == <<seekStatus, filePos, fpError, readBuffer, readBytes>>
allVars == <<vars, stRead, rpRead>>

NoSeek == [mode |-> "none"]
Smallest(S) == CHOOSE n \in S : \A m \in S : n <= m

RTypeOK ==
    /\ TypeOK
    /\ callPc \in {"begin", "seeking", "sought", "next", "sent", "answered",
                   "copy", "whole", "failed"}
    /\ seek \in Seeks \cup {NoSeek} /\ seekStatus \in -1..FileSize
    /\ wanted \in Wants /\ start \in 0..FileSize
    /\ pendingBytes \in Int /\ chunkBytes \in 0..BufferSize
    /\ copied \in 0..chunkBytes
    /\ got \in Seq(0..FileSize)
    /\ filePos \in 0..FileSize /\ fpError \in BOOLEAN
    /\ readBuffer \in [1..BufferSize -> 0..FileSize]
    /\ readBytes \in -1..BufferSize

RInit ==
    /\ Init
    /\ callPc = "begin" /\ seek = NoSeek /\ seekStatus = 0
    /\ wanted \in Wants /\ pendingBytes = wanted
    /\ start \in Starts /\ filePos = start
    /\ chunkBytes = 0 /\ copied = 0 /\ got = <<>>
    /\ fpError = FALSE
    /\ readBuffer = [i \in 1..BufferSize |-> 0] /\ readBytes = 0

----------------------------------------------------------------------------
(* gemdrive.s: .Fseek                                                      *)

CallFseek(s) ==
    /\ callPc = "begin"
    /\ Begin("fg")
    /\ callPc' = "seeking" /\ seek' = s
    /\ UNCHANGED <<wanted, start, pendingBytes, chunkBytes, copied, got, rpRead>>

\* whatever send_sync returned, the status cell is the result
SeekEnds ==
    /\ callPc = "seeking" /\ (Accept("fg") \/ GiveUp("fg"))
    /\ callPc' = "sought"
    /\ UNCHANGED <<seek, wanted, start, pendingBytes, chunkBytes, copied, got, rpRead>>

\* the program reads on from the position it was told
TakePosition ==
    /\ callPc = "sought" /\ Running("fg")
    /\ IF seekStatus < 0 THEN callPc' = "failed" /\ UNCHANGED start
       ELSE callPc' = "next" /\ start' = seekStatus
    /\ UNCHANGED <<vars, seek, wanted, pendingBytes, chunkBytes, copied, got, rpRead>>

----------------------------------------------------------------------------
(* gemdrive.s: .Fread_core                                                 *)

\* send (handle, d4, d5); d4 stays the whole count of the call
AskForBuffer ==
    /\ callPc \in {"begin", "next"}
    /\ Begin("fg")
    /\ callPc' = "sent"
    /\ UNCHANGED <<seek, wanted, start, pendingBytes, chunkBytes, copied, got, rpRead>>

ReadAnswered ==
    /\ callPc = "sent" /\ Accept("fg")
    /\ callPc' = "answered"
    /\ UNCHANGED <<seek, wanted, start, pendingBytes, chunkBytes, copied, got, rpRead>>

ReadAbandoned ==
    /\ callPc = "sent" /\ GiveUp("fg")
    /\ callPc' = "failed"
    /\ UNCHANGED <<seek, wanted, start, pendingBytes, chunkBytes, copied, got, rpRead>>

\* .Fread_core_cmd_ok: a negative count is an error, zero is the end of file
TakeCount ==
    /\ callPc = "answered" /\ Running("fg")
    /\ CASE readBytes < 0 -> callPc' = "failed" /\ UNCHANGED chunkBytes
         [] readBytes = 0 -> callPc' = "whole" /\ UNCHANGED chunkBytes
         [] readBytes > 0 -> callPc' = "copy" /\ chunkBytes' = readBytes
    /\ copied' = 0
    /\ UNCHANGED <<vars, seek, wanted, start, pendingBytes, got, rpRead>>

\* .Fread_core_copy: the RP may be writing the window meanwhile
CopyByte ==
    /\ callPc = "copy" /\ copied < chunkBytes /\ Running("fg")
    /\ got' = Append(got, readBuffer[copied + 1])
    /\ copied' = copied + 1
    /\ UNCHANGED <<vars, callPc, seek, wanted, start, pendingBytes, chunkBytes, rpRead>>

\* Mutant: the loop stops when what is left fits in one buffer.
EndOfBuffer_StopsEarly ==
    /\ callPc = "copy" /\ copied = chunkBytes /\ Running("fg")
    /\ pendingBytes' = pendingBytes - chunkBytes
    /\ callPc' = IF pendingBytes' > BufferSize THEN "next" ELSE "whole"
    /\ UNCHANGED <<vars, seek, wanted, start, chunkBytes, copied, got, rpRead>>

\* a short buffer ends the call, and so does having nothing left to ask for
EndOfBuffer ==
    /\ callPc = "copy" /\ copied = chunkBytes /\ Running("fg")
    /\ IF chunkBytes # BufferSize
       THEN callPc' = "whole" /\ UNCHANGED pendingBytes
       ELSE /\ pendingBytes' = pendingBytes - chunkBytes
            /\ callPc' = IF pendingBytes' > 0 THEN "next" ELSE "whole"
    /\ UNCHANGED <<vars, seek, wanted, start, chunkBytes, copied, got, rpRead>>

----------------------------------------------------------------------------
(* gemdrive.c: handleFseekCall, handleReadBuffCall                         *)

\* the position asked for, in the 64 bits of FSIZE_t: before the start is
\* past the end, and f_lseek takes that for the end of a file it only reads
SeekTarget ==
    LET base == CASE seek.mode = "set" -> 0
                  [] seek.mode = "cur" -> filePos
                  [] seek.mode = "end" -> FileSize
    IN  IF base + seek.by \in 0..FileSize THEN base + seek.by ELSE FileSize

HandleFseekCall ==
    /\ \/ /\ ~fpError
          /\ filePos' = SeekTarget /\ seekStatus' = SeekTarget
          /\ UNCHANGED fpError
       \/ fpError' = TRUE /\ seekStatus' = -1 /\ UNCHANGED filePos
    /\ UNCHANGED <<readBuffer, readBytes>>

\* f_read stores into the window itself: n bytes of it
FillWindow(n) ==
    /\ readBuffer' = [i \in 1..BufferSize |->
                         IF i <= n THEN filePos + i ELSE readBuffer[i]]
    /\ filePos' = filePos + n

\* Mutant: the count is not clamped to the window.
HandleReadBuffCall_Unclamped ==
    LET n == Smallest({wanted, FileSize - filePos}) IN
    FillWindow(n) /\ readBytes' = n /\ UNCHANGED <<seekStatus, fpError>>

\* A read error comes after any part of the data; FatFs then refuses the FIL.
HandleReadBuffCall ==
    LET n == Smallest({wanted, BufferSize, FileSize - filePos}) IN
    /\ \/ ~fpError /\ FillWindow(n) /\ readBytes' = n /\ UNCHANGED fpError
       \/ /\ \E m \in 0..n : (fpError => m = 0) /\ FillWindow(m)
          /\ fpError' = TRUE /\ readBytes' = -1
    /\ UNCHANGED seekStatus

\* the program's first command is the Fseek, if it made one
DispatchRead ==
    /\ Dispatch
    /\ IF seek # NoSeek /\ pending.cmd = 1 THEN HandleFseekCall ELSE HandleReadBuffCall
    /\ UNCHANGED stRead

----------------------------------------------------------------------------
ChannelStep ==
    /\ \/ SeeToken("fg") \/ NotReady("fg") \/ Resend("fg")
       \/ HeaderOut \/ ChecksumOut
       \/ Poll \/ Overrun \/ Publish
    /\ UNCHANGED <<stRead, rpRead>>

RNext ==
    \/ \E s \in Seeks : CallFseek(s)
    \/ SeekEnds \/ TakePosition
    \/ AskForBuffer \/ ReadAnswered \/ ReadAbandoned
    \/ TakeCount \/ CopyByte \/ EndOfBuffer
    \/ DispatchRead \/ ChannelStep

RSpec == RInit /\ [][RNext]_allVars

----------------------------------------------------------------------------
(* Properties.                                                             *)

\* the bytes of the file from the start of the call on
FromStart(n) == [i \in 1..n |-> start + i]

\* What the two sides deliver together: whole buffers until the count is
\* reached, or the end of the file.
Delivered ==
    LET buffers == (wanted + BufferSize - 1) \div BufferSize
        most == IF wanted <= BufferSize THEN wanted ELSE buffers * BufferSize
    IN  Smallest({most, FileSize - start})

\* A gap or a repeated byte needs a command that the RP executed twice, or an
\* Fseek that was given up: when frames are lost, but none is executed again,
\* the caller's buffer holds the file from the position on that the program
\* had, or that its Fseek returned, and nothing else.  (A read that is executed,
\* times out and is resent does skip a buffer of the file; an Fseek from the
\* current position seeks twice; one that is given up returns what its status
\* cell held before.)
ReadInOrder ==
    (\A c \in Command : executed[c] <= 1) /\ (seek # NoSeek => outcome[1] = "ok") =>
        /\ got = FromStart(Len(got))
        /\ callPc = "whole" => Len(got) = Delivered

\* "d4.l = bytes wanted ... d0.l = bytes read" (gemdrive.s): Fread stores no
\* more than it was asked for.
NoMoreThanWanted == Len(got) <= wanted

====
