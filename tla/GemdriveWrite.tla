---- MODULE GemdriveWrite ----
(***************************************************************************)
(* GEMDOS Fwrite over the command channel: gemdrive.s .Fwrite cuts the     *)
(* caller's buffer into chunks, sends each under a fresh sequence number   *)
(* and advances by the count the RP reports; gemdrive.c writes a chunk     *)
(* unless it carries the sequence number of the last one it wrote.         *)
(*                                                                        *)
(* A command of the channel is one chunk (the retry loop of .Fwrite is the *)
(* retry loop of send_sync), and its number stands for write_seq, which is *)
(* likewise fresh for each chunk.  The RP does not reboot here and the     *)
(* interrupt hook is not installed; the program is free to write on after  *)
(* an error.                                                               *)
(***************************************************************************)
EXTENDS CommandChannel

CONSTANTS
    ChunkSize,      \* BUFFER_WRITE_SIZE / GEMDRIVE_WRITE_BUFFER_SIZE
    Capacity,       \* bytes the card can still take
    Calls,          \* bound: Fwrite calls of the program
    Sizes           \* byte counts the program asks for

ASSUME PlainChannelAssumption == MaxReboots = 0 /\ ~HookInstalled
ASSUME SizesAssumption ==
    /\ Sizes \subseteq Nat \ {0} /\ ChunkSize \in Nat \ {0}
    /\ Capacity \in Nat /\ Calls \in Nat

VARIABLES
    call, size, callPc,     \* the current Fwrite, its count, where it is
    done,                   \* d6: bytes reported so far
    result,                 \* what each call returned
    chunk,                  \* what each command carries
    file,                   \* the bytes in the file: <<call, index>>
    stored,                 \* bytes of each command that reached the file
    lastWriteSeq, lastWriteBytes,   \* of the file slot
    fpError,                \* the FIL refuses further writes
    writeBytes              \* GEMDRIVE_WRITE_BYTES, the shared answer cell

stFile == <<call, size, callPc, done, result, chunk>>
rpFile == <<file, stored, lastWriteSeq, lastWriteBytes, fpError, writeBytes>>
allVars == <<vars, stFile, rpFile>>

NoChunk == [call |-> 0, from |-> 0, len |-> 0]
Smaller(a, b) == IF a < b THEN a ELSE b

WTypeOK ==
    /\ TypeOK
    /\ call \in 0..Calls
    /\ size \in Sizes \cup {0}
    /\ callPc \in {"idle", "next", "sent", "answered"}
    /\ done \in Nat
    /\ result \in [1..Calls -> {"none", "running", "whole", "failed"}]
    /\ \A c \in Command : chunk[c] = NoChunk \/ chunk[c].len \in 1..ChunkSize
    /\ lastWriteSeq \in 0..MaxCmds
    /\ lastWriteBytes \in 0..ChunkSize /\ writeBytes \in 0..ChunkSize
    /\ fpError \in BOOLEAN
    /\ Len(file) <= Capacity /\ stored \in [Command -> Nat]

WInit ==
    /\ Init
    /\ call = 0 /\ size = 0 /\ callPc = "idle" /\ done = 0
    /\ result = [k \in 1..Calls |-> "none"]
    /\ chunk = [c \in Command |-> NoChunk]
    /\ file = <<>> /\ fpError = FALSE
    /\ stored = [c \in Command |-> 0]
    /\ lastWriteSeq = 0 /\ lastWriteBytes = 0 /\ writeBytes = 0

----------------------------------------------------------------------------
(* gemdrive.s: .Fwrite                                                     *)

Return(r) ==
    /\ result' = [result EXCEPT ![call] = r]
    /\ callPc' = "idle"

\* the program calls Fwrite with n bytes
Fwrite(n) ==
    /\ callPc = "idle" /\ call < Calls
    /\ call' = call + 1 /\ size' = n /\ done' = 0
    /\ result' = [result EXCEPT ![call + 1] = "running"]
    /\ callPc' = "next"
    /\ UNCHANGED <<vars, chunk, rpFile>>

\* .fwrite_loop: at most ChunkSize of the bytes left, under the next number
SendChunk ==
    /\ callPc = "next"
    /\ Begin("fg")
    /\ chunk' = [chunk EXCEPT ![issued + 1] =
                    [call |-> call, from |-> done,
                     len |-> Smaller(size - done, ChunkSize)]]
    /\ callPc' = "sent"
    /\ UNCHANGED <<call, size, done, result, rpFile>>

ChunkAnswered ==
    /\ Accept("fg")
    /\ callPc' = "answered"
    /\ UNCHANGED <<call, size, done, result, chunk, rpFile>>

\* .fwrite_failed after the last retry
ChunkAbandoned ==
    /\ GiveUp("fg")
    /\ Return("failed")
    /\ UNCHANGED <<call, size, done, chunk, rpFile>>

\* Mutant: a count of zero is read again until it changes.
TakeBytes_WaitsForMore ==
    /\ callPc = "answered" /\ Running("fg") /\ writeBytes > 0
    /\ done' = done + writeBytes
    /\ IF size - done' <= 0
       THEN Return("whole")
       ELSE callPc' = "next" /\ UNCHANGED result
    /\ UNCHANGED <<vars, call, size, chunk, rpFile>>

\* .fwrite_chunk_ok: read the shared cell, advance, loop or return
TakeBytes ==
    /\ callPc = "answered" /\ Running("fg")
    /\ IF writeBytes <= 0
       THEN Return("failed") /\ UNCHANGED done
       ELSE /\ done' = done + writeBytes
            /\ IF size - done' <= 0
               THEN Return("whole")
               ELSE callPc' = "next" /\ UNCHANGED result
    /\ UNCHANGED <<vars, call, size, chunk, rpFile>>

----------------------------------------------------------------------------
(* gemdrive.c: handleWriteBuffCall                                         *)

\* f_write stores as much as fits; an I/O error stores some of it, and
\* FatFs then refuses the handle.
StoreChunk(c, n) ==
    /\ file' = file \o [i \in 1..n |-> <<chunk[c].call, chunk[c].from + i>>]
    /\ stored' = [stored EXCEPT ![c] = @ + n]

Room(c) == Smaller(chunk[c].len, Capacity - Len(file))

\* Mutant: the sequence number is not remembered.
HandleWriteBuffCall_Forgets(c) ==
    /\ StoreChunk(c, Room(c))
    /\ writeBytes' = Room(c)
    /\ UNCHANGED <<lastWriteSeq, lastWriteBytes, fpError>>

HandleWriteBuffCall(c) ==
    \/ /\ c = lastWriteSeq
       /\ writeBytes' = lastWriteBytes
       /\ UNCHANGED <<file, stored, lastWriteSeq, lastWriteBytes, fpError>>
    \/ /\ c # lastWriteSeq /\ ~fpError
       /\ StoreChunk(c, Room(c))
       /\ lastWriteSeq' = c /\ lastWriteBytes' = Room(c)
       /\ writeBytes' = Room(c)
       /\ UNCHANGED fpError
    \/ /\ c # lastWriteSeq
       /\ IF fpError THEN UNCHANGED <<file, stored>>
          ELSE \E n \in 0..Room(c) : StoreChunk(c, n)
       /\ fpError' = TRUE
       /\ writeBytes' = 0
       /\ UNCHANGED <<lastWriteSeq, lastWriteBytes>>

DispatchWrite ==
    /\ Dispatch
    /\ IF chunk[pending.cmd] = NoChunk
       THEN UNCHANGED rpFile
       ELSE HandleWriteBuffCall(pending.cmd)
    /\ UNCHANGED stFile

----------------------------------------------------------------------------
ChannelStep ==
    /\ \/ SeeToken("fg") \/ NotReady("fg") \/ Resend("fg")
       \/ HeaderOut \/ ChecksumOut
       \/ Poll \/ Overrun \/ Publish
    /\ UNCHANGED <<stFile, rpFile>>

WNext ==
    \/ \E n \in Sizes : Fwrite(n)
    \/ SendChunk \/ ChunkAnswered \/ ChunkAbandoned \/ TakeBytes
    \/ DispatchWrite \/ ChannelStep

WSpec == WInit /\ [][WNext]_allVars

(* The ST runs on: nothing is asked of the RP, which may stay silent.      *)
FgStep ==
    \/ ChunkAnswered \/ ChunkAbandoned \/ SendChunk \/ TakeBytes
    \/ /\ SeeToken("fg") \/ NotReady("fg") \/ Resend("fg")
          \/ HeaderOut \/ ChecksumOut
       /\ UNCHANGED <<stFile, rpFile>>

WFairSpec ==
    /\ WSpec
    /\ WF_allVars(FgStep)
    /\ SF_allVars(\/ Resend("fg") /\ UNCHANGED <<stFile, rpFile>>
                  \/ ChunkAbandoned)

----------------------------------------------------------------------------
(* Properties.                                                             *)

\* The refinement mapping is the identity: the file, and what calls return.
Contract == INSTANCE FwriteContract WITH
    file <- file, call <- call, size <- size, result <- result,
    Calls <- Calls, Sizes <- Sizes

\* Until a call has failed, Fwrite keeps its contract: the file receives the
\* caller's bytes in order and once each, and all of them before the call
\* reports them, whatever is lost, resent, executed again or refused by the
\* card (lastWriteSeq in gemdrive.c, write_seq in gemdrive.s).
FwriteKeepsContract == Contract!Spec

\* No block reaches the card twice, also when the program writes on after an
\* error: a duplicate always meets the sequence number it carries
\* (CHANGELOG.md, "Retried blocks are now recognised and written once").
BlockWrittenOnce == \A c \in Command : stored[c] <= chunk[c].len

\* A call to Fwrite returns, even when the card is full or the RP falls
\* silent: "0 would loop here for ever" (gemdrive.s).
FwriteReturns ==
    \A k \in 1..Calls : result[k] = "running" ~> result[k] # "running"
====
