---- MODULE GemdriveWrite_proofs ----
(***************************************************************************)
(* Proofs about Fwrite over the command channel, for any number of calls,  *)
(* commands and retries, any chunk size and any room on the card: type     *)
(* correctness, and that no block is written twice.                        *)
(***************************************************************************)
EXTENDS GemdriveWrite, CommandChannel_proofs

\* What the steps of Fwrite are to the channel.
LEMMA WritesAreChannelSteps == [WNext]_allVars => [Next]_vars
<1> SUFFICES ASSUME [WNext]_allVars PROVE [Next]_vars
  OBVIOUS
<1>1. ASSUME NEW n \in Sizes, Fwrite(n) PROVE [Next]_vars
  BY <1>1 DEF Fwrite
<1>2. CASE SendChunk
  BY <1>2 DEF SendChunk, Next, SendSync, Context
<1>3. CASE ChunkAnswered
  BY <1>3 DEF ChunkAnswered, Next, SendSync, Context
<1>4. CASE ChunkAbandoned
  BY <1>4 DEF ChunkAbandoned, Next, SendSync, Context
<1>5. CASE TakeBytes
  BY <1>5 DEF TakeBytes
<1>6. CASE DispatchWrite
  BY <1>6 DEF DispatchWrite, Next, ChandlerLoop
<1>7. CASE ChannelStep
  BY <1>7 DEF ChannelStep, Next, SendSync, ChandlerLoop, Context
<1>8. CASE UNCHANGED allVars
  BY <1>8 DEF allVars
<1>9. QED
  BY <1>1, <1>2, <1>3, <1>4, <1>5, <1>6, <1>7, <1>8 DEF WNext

----------------------------------------------------------------------------
(* Type correctness.                                                       *)

Chunks == [call : Nat, from : Nat, len : 0..ChunkSize]

WTyped ==
    /\ WTypeOK
    /\ chunk \in [Command -> Chunks]
    /\ file \in Seq(Nat \X Nat)
    /\ callPc = "next" => done < size

LEMMA Constants ==
    /\ ChunkSize \in Nat /\ ChunkSize > 0 /\ Capacity \in Nat /\ Calls \in Nat
    /\ MaxCmds \in Nat
BY SizesAssumption, MaxCmdsAssumption

LEMMA InitWTyped == WInit => WTyped
<1> SUFFICES ASSUME WInit PROVE WTyped
  OBVIOUS
<1>1. TypeOK
  BY InitTypeOK DEF WInit
<1>2. chunk \in [Command -> Chunks] /\ \A c \in Command : chunk[c] = NoChunk
  BY Constants DEF WInit, NoChunk, Chunks
<1>3. file \in Seq(Nat \X Nat) /\ Len(file) <= Capacity
  BY Constants DEF WInit
<1>4. /\ 0 \in 0..Calls /\ 0 \in 0..MaxCmds /\ 0 \in 0..ChunkSize
      /\ stored \in [Command -> Nat]
      /\ result \in [1..Calls -> {"none", "running", "whole", "failed"}]
  BY Constants DEF WInit
<1>5. WTypeOK
  BY <1>1, <1>2, <1>3, <1>4 DEF WInit, WTypeOK
<1>6. QED BY <1>2, <1>3, <1>5 DEF WInit, WTyped

\* What a chunk that is stored does to file and count.
LEMMA StoredTypes ==
    ASSUME WTyped, NEW c \in Command, NEW n \in 0..Room(c), StoreChunk(c, n)
    PROVE  /\ file' \in Seq(Nat \X Nat) /\ Len(file') <= Capacity
           /\ stored' \in [Command -> Nat]
           /\ Len(file') = Len(file) + n
<1>1. /\ Len(file) \in Nat /\ file \in Seq(Nat \X Nat) /\ Len(file) <= Capacity
      /\ chunk[c] \in Chunks /\ chunk[c].call \in Nat /\ chunk[c].from \in Nat
      /\ chunk[c].len \in 0..ChunkSize
  BY DEF WTyped, WTypeOK, Chunks
<1>2. Room(c) \in Nat /\ Room(c) <= chunk[c].len /\ Room(c) <= Capacity - Len(file)
  BY <1>1, Constants DEF Room, Smaller
<1>3. n \in Nat /\ n <= Capacity - Len(file)
  BY <1>1, <1>2, Constants
<1> DEFINE more == [i \in 1..n |-> <<chunk[c].call, chunk[c].from + i>>]
<1>4. more \in Seq(Nat \X Nat) /\ Len(more) = n
  BY <1>1, <1>3
<1> HIDE DEF more
<1>5. file \o more \in Seq(Nat \X Nat) /\ Len(file \o more) = Len(file) + n
  BY <1>1, <1>4, ConcatProperties
<1>6. file' = file \o more
  BY DEF StoreChunk, more
<1>7. stored' \in [Command -> Nat]
  BY <1>3 DEF StoreChunk, WTyped, WTypeOK
<1>8. QED BY <1>1, <1>3, <1>5, <1>6, <1>7, Constants

LEMMA RoomBounds ==
    ASSUME WTyped, NEW c \in Command
    PROVE  Room(c) \in 0..ChunkSize /\ Room(c) <= chunk[c].len
<1>1. /\ Len(file) \in Nat /\ Len(file) <= Capacity /\ chunk[c].len \in 0..ChunkSize
  BY DEF WTyped, WTypeOK, Chunks
<1>2. QED BY <1>1, Constants DEF Room, Smaller

LEMMA NextWTyped == WTyped /\ [WNext]_allVars => WTyped'
<1> SUFFICES ASSUME WTyped, [WNext]_allVars PROVE WTyped'
  OBVIOUS
<1>0. TypeOK' /\ TypeOK
  BY NextTypeOK, WritesAreChannelSteps DEF WTyped, WTypeOK
<1> USE DEF stFile, rpFile
<1>1. ASSUME NEW n \in Sizes, Fwrite(n) PROVE WTyped'
  <2>1. call + 1 \in 1..Calls /\ n \in Nat \ {0}
    BY <1>1, SizesAssumption DEF Fwrite, WTyped, WTypeOK
  <2>2. result' \in [1..Calls -> {"none", "running", "whole", "failed"}]
    BY <1>1, <2>1 DEF Fwrite, WTyped, WTypeOK
  <2>3. QED BY <1>0, <1>1, <2>1, <2>2 DEF Fwrite, WTyped, WTypeOK
<1>2. CASE SendChunk
  <2>1. size - done \in Nat \ {0} /\ done \in Nat /\ call \in Nat
    BY <1>2, SizesAssumption DEF SendChunk, WTyped, WTypeOK
  <2>2. Smaller(size - done, ChunkSize) \in 1..ChunkSize
    BY <2>1, Constants DEF Smaller
  <2> DEFINE r == [call |-> call, from |-> done, len |-> Smaller(size - done, ChunkSize)]
  <2>3. r \in Chunks /\ r.len \in 1..ChunkSize
    BY <2>1, <2>2 DEF Chunks
  <2>4. issued + 1 \in Command
    BY <1>0, <1>2, Constants DEF SendChunk, Begin, TypeOK, Command
  <2>7. chunk' = [chunk EXCEPT ![issued + 1] = r]
    BY <1>2 DEF SendChunk
  <2> HIDE DEF r
  <2>5. chunk' \in [Command -> Chunks]
        /\ \A c \in Command : chunk'[c] = NoChunk \/ chunk'[c].len \in 1..ChunkSize
    BY <2>3, <2>4, <2>7 DEF WTyped, WTypeOK
  <2>6. QED BY <1>0, <1>2, <2>5 DEF SendChunk, WTyped, WTypeOK
<1>3. CASE ChunkAnswered
  BY <1>0, <1>3 DEF ChunkAnswered, WTyped, WTypeOK
<1>4. CASE ChunkAbandoned
  BY <1>0, <1>4 DEF ChunkAbandoned, Return, WTyped, WTypeOK
<1>5. CASE TakeBytes
  <2>1. done' \in Nat /\ (callPc' = "next" => done' < size) /\ size' = size
    BY <1>5, SizesAssumption, Constants DEF TakeBytes, Return, WTyped, WTypeOK
  <2>2. /\ callPc' \in {"idle", "next"}
        /\ result' \in [1..Calls -> {"none", "running", "whole", "failed"}]
    BY <1>5 DEF TakeBytes, Return, WTyped, WTypeOK
  <2>3. QED BY <1>0, <1>5, <2>1, <2>2 DEF TakeBytes, WTyped, WTypeOK
<1>6. CASE DispatchWrite
  <2>1. CASE UNCHANGED rpFile
    BY <1>0, <1>6, <2>1 DEF DispatchWrite, WTyped, WTypeOK
  <2>2. CASE HandleWriteBuffCall(pending.cmd)
    <3> DEFINE c == pending.cmd
    <3>1. c \in Command
      BY <1>6 DEF DispatchWrite, Dispatch, WTyped, WTypeOK, TypeOK, Frame
    <3>2. Room(c) \in 0..ChunkSize /\ Room(c) \in 0..Room(c)
      BY <3>1, RoomBounds
    <3>3. /\ file' \in Seq(Nat \X Nat) /\ Len(file') <= Capacity
          /\ stored' \in [Command -> Nat]
      BY <2>2, <3>1, <3>2, StoredTypes DEF HandleWriteBuffCall, WTyped, WTypeOK
    <3>4. c \in 0..MaxCmds /\ 0 \in 0..ChunkSize
      BY <3>1, Constants DEF Command
    <3>6. /\ lastWriteSeq' \in 0..MaxCmds /\ lastWriteBytes' \in 0..ChunkSize
          /\ writeBytes' \in 0..ChunkSize /\ fpError' \in BOOLEAN
      BY <2>2, <3>2, <3>4 DEF HandleWriteBuffCall, WTyped, WTypeOK
    <3>5. QED BY <1>0, <1>6, <3>3, <3>6 DEF DispatchWrite, WTyped, WTypeOK
  <2>3. QED BY <1>6, <2>1, <2>2 DEF DispatchWrite
<1>7. CASE ChannelStep
  BY <1>0, <1>7 DEF ChannelStep, WTyped, WTypeOK
<1>8. CASE UNCHANGED allVars
  BY <1>0, <1>8 DEF allVars, WTyped, WTypeOK
<1>9. QED
  BY <1>1, <1>2, <1>3, <1>4, <1>5, <1>6, <1>7, <1>8 DEF WNext

(* Every variable of Fwrite and of the channel below keeps its type.       *)
THEOREM WriteTypeCorrect == WSpec => []WTypeOK
<1>1. WTyped => WTypeOK
  BY DEF WTyped
<1>2. QED BY <1>1, InitWTyped, NextWTyped, PTL DEF WSpec

----------------------------------------------------------------------------
(* Frames come in the order of their commands: what waits on the cartridge *)
(* is never older than what the RP is handling, nor than what it wrote.    *)

Ordered ==
    /\ pc["isr"] = "idle"
    /\ pc["fg"] # "idle" => cur["fg"] = issued
    /\ \A i \in 1..Len(ring) : /\ ring[i].cmd <= issued /\ lastWriteSeq <= ring[i].cmd
                               /\ \A j \in i..Len(ring) : ring[i].cmd <= ring[j].cmd
    /\ rpc = "pending" =>
          /\ pending.cmd <= issued /\ lastWriteSeq <= pending.cmd
          /\ \A i \in 1..Len(ring) : pending.cmd <= ring[i].cmd
    /\ lastWriteSeq <= issued

\* What was stored of a command was stored of its chunk, and before anything
\* newer was, as long as the file can be written to.
WrittenOnce ==
    /\ BlockWrittenOnce
    /\ \A c \in Command : stored[c] > 0 => c <= issued /\ (~fpError => c <= lastWriteSeq)

OrderTypes ==
    /\ issued \in Nat /\ lastWriteSeq \in Nat
    /\ ring \in Seq(Frame) /\ Len(ring) \in Nat
    /\ \A i \in 1..Len(ring) : ring[i] \in Frame /\ ring[i].cmd \in Nat

LEMMA TypesOfOrder == WTyped => OrderTypes
<1> SUFFICES ASSUME WTyped PROVE OrderTypes
  OBVIOUS
<1>1. ring \in Seq(Frame) /\ issued \in 0..MaxCmds /\ lastWriteSeq \in 0..MaxCmds
  BY DEF WTyped, WTypeOK, TypeOK
<1>2. \A i \in 1..Len(ring) : ring[i] \in Frame
  BY <1>1, ElementOfSeq
<1>3. QED BY <1>1, <1>2, Constants DEF OrderTypes, Frame, Command

\* Steps that touch neither the ring nor the command being handled.
LEMMA OrderKept ==
    ASSUME OrderTypes, Ordered, pc'["isr"] = "idle",
           pc'["fg"] # "idle" => cur'["fg"] = issued',
           issued' \in Nat, issued' >= issued,
           ring' = ring, lastWriteSeq' = lastWriteSeq,
           rpc' = "pending" => rpc = "pending" /\ pending' = pending,
           pending.cmd \in Int
    PROVE  Ordered'
<1>1. \A i \in 1..Len(ring) : ring[i].cmd <= issued'
  BY DEF Ordered, OrderTypes
<1>2. rpc' = "pending" => pending'.cmd <= issued'
  BY DEF Ordered, OrderTypes
<1>3. lastWriteSeq' <= issued'
  BY DEF Ordered, OrderTypes
<1>4. QED BY <1>1, <1>2, <1>3 DEF Ordered

LEMMA NextOrdered == WTyped /\ Ordered /\ [WNext]_allVars => Ordered'
<1> SUFFICES ASSUME WTyped, Ordered, [WNext]_allVars PROVE Ordered'
  OBVIOUS
<1>00. TypeOK
  BY DEF WTyped, WTypeOK
<1>01. pending.cmd \in Int
  BY <1>00 DEF TypeOK, Frame, NoFrame, Command
<1>02. /\ pc \in [Context -> {"idle", "seeded", "sending", "wait", "check"}]
       /\ cur \in [Context -> 0..MaxCmds]
  BY <1>00 DEF TypeOK
<1>0. /\ OrderTypes /\ pending.cmd \in Int
      /\ pc \in [Context -> {"idle", "seeded", "sending", "wait", "check"}]
      /\ cur \in [Context -> 0..MaxCmds]
  BY <1>01, <1>02, TypesOfOrder
<1> USE DEF vars, stVars, cells, stFile, rpFile
<1>1. ASSUME NEW n \in Sizes, Fwrite(n) PROVE Ordered'
  BY <1>0, <1>1, OrderKept DEF Fwrite, OrderTypes, Ordered
<1>2. CASE SendChunk
  <2>1. /\ pc'["isr"] = "idle" /\ issued' = issued + 1 /\ cur'["fg"] = issued + 1
        /\ UNCHANGED <<ring, lastWriteSeq, rpc, pending>>
    BY <1>0, <1>2 DEF SendChunk, Begin, ReadSeed, Context, Ordered
  <2>2. issued' \in Nat /\ issued' >= issued
    BY <1>0, <2>1 DEF OrderTypes
  <2>3. QED BY <1>0, <2>1, <2>2, OrderKept
<1>3. CASE ChunkAnswered \/ ChunkAbandoned \/ TakeBytes \/ UNCHANGED allVars
  <2>1. /\ pc'["isr"] = "idle" /\ (pc'["fg"] # "idle" => pc["fg"] # "idle")
        /\ UNCHANGED <<issued, cur, ring, lastWriteSeq, rpc, pending>>
    BY <1>0, <1>3 DEF ChunkAnswered, ChunkAbandoned, TakeBytes, Accept, GiveUp, allVars,
                      Context, Ordered
  <2>2. issued' \in Nat /\ issued' >= issued
    BY <1>0, <2>1 DEF OrderTypes
  <2>3. pc'["fg"] # "idle" => cur'["fg"] = issued'
    BY <2>1 DEF Ordered
  <2>4. QED BY <1>0, <2>1, <2>2, <2>3, OrderKept
<1>4. CASE DispatchWrite
  <2>1. /\ rpc = "pending" /\ rpc' = "run"
        /\ UNCHANGED <<pc, issued, cur, ring, pending>>
        /\ lastWriteSeq' \in {lastWriteSeq, pending.cmd}
    BY <1>4 DEF DispatchWrite, Dispatch, HandleWriteBuffCall
  <2>2. QED BY <1>0, <2>1 DEF Ordered, OrderTypes
<1>5. CASE ChannelStep
  <2>1. CASE SeeToken("fg") \/ NotReady("fg") \/ Resend("fg") \/ HeaderOut \/ Publish
    <3>1. /\ pc'["isr"] = "idle" /\ (pc'["fg"] # "idle" => pc["fg"] # "idle")
          /\ UNCHANGED <<issued, cur, ring, lastWriteSeq>>
          /\ rpc' = "pending" => rpc = "pending" /\ pending' = pending
      BY <1>0, <1>5, <2>1 DEF ChannelStep, SeeToken, NotReady, Resend, ReadSeed, HeaderOut,
                              Publish, Context, Ordered
    <3>2. issued' \in Nat /\ issued' >= issued
      BY <1>0, <3>1 DEF OrderTypes
    <3>3. pc'["fg"] # "idle" => cur'["fg"] = issued'
      BY <3>1 DEF Ordered
    <3>4. QED BY <1>0, <3>1, <3>2, <3>3, OrderKept
  <2>2. CASE ChecksumOut
    <3>1. /\ pc'["isr"] = "idle" /\ cur["fg"] = issued /\ cur["fg"] \in Command
          /\ UNCHANGED <<issued, cur, lastWriteSeq, rpc, pending>>
      BY <1>0, <1>5, <2>2 DEF ChannelStep, ChecksumOut, Context, Ordered, WTyped, WTypeOK,
                              TypeOK
    <3>2. CASE ring' = ring
      <4>1. issued' \in Nat /\ issued' >= issued
        BY <1>0, <3>1 DEF OrderTypes
      <4>2. QED BY <1>0, <3>1, <3>2, <4>1, OrderKept
    <3>3. CASE ring' = Append(ring, FrameOf("fg"))
      <4>1. FrameOf("fg") \in Frame /\ FrameOf("fg").cmd = issued
        BY <3>1 DEF FrameOf, Frame, WTyped, WTypeOK, TypeOK, Context
      <4>2. /\ Len(ring') = Len(ring) + 1 /\ ring'[Len(ring) + 1] = FrameOf("fg")
            /\ \A i \in 1..Len(ring) : ring'[i] = ring[i]
        BY <1>0, <3>3, <4>1, AppendProperties DEF OrderTypes
      <4> HIDE DEF Frame
      <4> DEFINE N == Len(ring)
      <4>6. N \in Nat /\ issued \in Nat /\ lastWriteSeq \in Nat /\ lastWriteSeq <= issued
        BY <1>0 DEF OrderTypes, Ordered
      <4>7. \A i \in 1..N : /\ ring[i].cmd \in Nat
                            /\ ring[i].cmd <= issued /\ lastWriteSeq <= ring[i].cmd
                            /\ \A j \in i..N : ring[i].cmd <= ring[j].cmd
        BY <1>0 DEF OrderTypes, Ordered
      <4>8. /\ Len(ring') = N + 1 /\ ring'[N + 1].cmd = issued
            /\ \A i \in 1..N : ring'[i].cmd = ring[i].cmd
        BY <4>1, <4>2
      <4> HIDE DEF N
      <4>3. \A i \in 1..Len(ring') : ring'[i].cmd <= issued /\ lastWriteSeq <= ring'[i].cmd
        <5> SUFFICES ASSUME NEW i \in 1..Len(ring')
                     PROVE  ring'[i].cmd <= issued /\ lastWriteSeq <= ring'[i].cmd
          OBVIOUS
        <5>1. i \in 1..N \/ i = N + 1
          BY <4>6, <4>8
        <5>2. QED BY <4>6, <4>7, <4>8, <5>1
      <4>4. \A i \in 1..Len(ring') : \A j \in i..Len(ring') : ring'[i].cmd <= ring'[j].cmd
        <5> SUFFICES ASSUME NEW i \in 1..Len(ring'), NEW j \in i..Len(ring')
                     PROVE  ring'[i].cmd <= ring'[j].cmd
          OBVIOUS
        <5>1. CASE i = N + 1
          <6>1. j = N + 1
            BY <4>6, <4>8, <5>1
          <6>2. QED BY <4>6, <4>8, <5>1, <6>1
        <5>2. CASE i \in 1..N
          <6>1. CASE j \in i..N
            <7>1. j \in 1..N
              BY <4>6, <5>2, <6>1
            <7>2. QED BY <4>7, <4>8, <5>2, <6>1, <7>1
          <6>2. CASE j = N + 1
            BY <4>7, <4>8, <5>2, <6>2
          <6>3. QED BY <4>6, <4>8, <5>2, <6>1, <6>2
        <5>3. QED BY <4>6, <4>8, <5>1, <5>2
      <4>5. rpc = "pending" => \A i \in 1..Len(ring') : pending.cmd <= ring'[i].cmd
        BY <1>0, <4>1, <4>2, SMTT(30) DEF OrderTypes, Ordered
      <4>9. QED BY <3>1, <4>3, <4>4, <4>5 DEF Ordered
    <3>4. QED BY <2>2, <3>2, <3>3 DEF ChecksumOut
  <2>3. CASE Poll
    <3>1. PICK k \in 1..Len(ring) : ring' = SubSeq(ring, k + 1, Len(ring))
      BY <2>3 DEF Poll
    <3>2. /\ Len(ring') = Len(ring) - k
          /\ \A i \in 1..Len(ring') : ring'[i] = ring[i + k]
      BY <1>0, <3>1 DEF OrderTypes
    <3>3. pending' = ring[1] /\ rpc' = "pending" /\ UNCHANGED <<pc, cur, issued, lastWriteSeq>>
      BY <1>0, <1>5, <2>3 DEF ChannelStep, Poll, OrderTypes
    <3> DEFINE N == Len(ring)
    <3>4. N \in Nat /\ k \in 1..N /\ 1 \in 1..N
      BY <1>0 DEF OrderTypes
    <3>5. \A i \in 1..N : /\ ring[i].cmd \in Nat
                          /\ ring[i].cmd <= issued /\ lastWriteSeq <= ring[i].cmd
                          /\ \A j \in i..N : ring[i].cmd <= ring[j].cmd
      BY <1>0 DEF OrderTypes, Ordered
    <3>6. Len(ring') = N - k /\ \A i \in 1..Len(ring') : ring'[i] = ring[i + k]
      BY <3>2
    <3> HIDE DEF N
    <3>7. \A i \in 1..Len(ring') : i + k \in 1..N
      BY <3>4, <3>6
    <3>8. \A i \in 1..Len(ring') : \A j \in i..Len(ring') : ring'[i].cmd <= ring'[j].cmd
      <4> SUFFICES ASSUME NEW i \in 1..Len(ring'), NEW j \in i..Len(ring')
                   PROVE  ring'[i].cmd <= ring'[j].cmd
        OBVIOUS
      <4>1. j \in 1..Len(ring') /\ i + k \in 1..N /\ j + k \in (i + k)..N
        BY <3>4, <3>6
      <4>2. QED BY <3>5, <3>6, <4>1
    <3>9. /\ \A i \in 1..Len(ring') : ring'[i].cmd <= issued /\ lastWriteSeq <= ring'[i].cmd
          /\ \A i \in 1..Len(ring') : ring[1].cmd <= ring'[i].cmd
      <4>1. \A i \in 1..Len(ring') : i + k \in 1..N
        BY <3>7
      <4>2. \A i \in 1..N : ring[1].cmd <= ring[i].cmd
        BY <3>4, <3>5
      <4>3. QED BY <3>5, <3>6, <4>1, <4>2
    <3>10. QED BY <3>3, <3>4, <3>5, <3>8, <3>9 DEF Ordered
  <2>4. CASE Overrun
    BY <1>5, <2>4 DEF ChannelStep, Overrun, Ordered
  <2>5. QED BY <1>5, <2>1, <2>2, <2>3, <2>4 DEF ChannelStep
<1>6. QED BY <1>1, <1>2, <1>3, <1>4, <1>5 DEF WNext

LEMMA NextWrittenOnce ==
    WTyped /\ Ordered /\ WrittenOnce /\ [WNext]_allVars => WrittenOnce'
<1> SUFFICES ASSUME WTyped, Ordered, WrittenOnce, [WNext]_allVars PROVE WrittenOnce'
  OBVIOUS
<1>0. /\ OrderTypes /\ stored \in [Command -> Nat]
      /\ chunk \in [Command -> Chunks] /\ Command \subseteq Nat
  BY TypesOfOrder DEF WTyped, WTypeOK, Command
<1> USE DEF vars, stVars, cells, stFile, rpFile
<1>1. CASE SendChunk
  <2>1. /\ issued' = issued + 1 /\ UNCHANGED <<stored, lastWriteSeq, fpError>>
        /\ \A c \in Command : c # issued + 1 => chunk'[c] = chunk[c]
    BY <1>0, <1>1 DEF SendChunk, Begin
  <2>2. WTyped'
    BY NextWTyped
  <2>3. \A c \in Command : chunk'[c].len \in Nat
    BY <2>2, Constants DEF WTyped, Chunks
  <2>4. \A c \in Command : c = issued + 1 => stored[c] = 0
    BY <1>0 DEF WrittenOnce, OrderTypes
  <2>5. \A c \in Command : stored'[c] <= chunk'[c].len
    BY <2>1, <2>3, <2>4 DEF WrittenOnce, BlockWrittenOnce
  <2>6. \A c \in Command : stored'[c] > 0 => c <= issued'
    BY <1>0, <2>1 DEF WrittenOnce, OrderTypes
  <2>7. QED BY <2>1, <2>5, <2>6 DEF WrittenOnce, BlockWrittenOnce
<1>2. CASE DispatchWrite
  <2> DEFINE c == pending.cmd
  <2>1. /\ c \in Command /\ c <= issued /\ lastWriteSeq <= c /\ UNCHANGED <<issued, chunk>>
    BY <1>2 DEF DispatchWrite, Dispatch, Ordered, WTyped, WTypeOK, TypeOK, Frame
  <2>2. CASE UNCHANGED <<stored, lastWriteSeq>> /\ (fpError => fpError')
    BY <2>1, <2>2 DEF WrittenOnce, BlockWrittenOnce
  <2>3. CASE /\ c # lastWriteSeq /\ ~fpError
             /\ (lastWriteSeq' = c /\ fpError' = fpError) \/ fpError' = TRUE
             /\ \E n \in 0..Room(c) : StoreChunk(c, n)
    <3>0. c \in Nat /\ lastWriteSeq \in Nat /\ stored[c] \in Nat
      BY <1>0, <2>1 DEF OrderTypes
    <3>1. stored[c] = 0
      <4>1. stored[c] > 0 => c <= lastWriteSeq
        BY <2>1, <2>3 DEF WrittenOnce
      <4>2. QED BY <2>1, <2>3, <3>0, <4>1
    <3>2. PICK n \in 0..Room(c) : stored' = [stored EXCEPT ![c] = @ + n]
      BY <2>3 DEF StoreChunk
    <3>3. Room(c) \in 0..ChunkSize /\ Room(c) <= chunk[c].len /\ chunk[c].len \in Nat
      <4>1. Room(c) \in 0..ChunkSize /\ Room(c) <= chunk[c].len
        BY <2>1, RoomBounds
      <4>2. chunk[c].len \in Nat
        <5>1. chunk[c] \in [call : Nat, from : Nat, len : 0..ChunkSize]
          BY <1>0, <2>1 DEF Chunks
        <5>2. QED BY <5>1, Constants
      <4>3. QED BY <4>1, <4>2
    <3>4. n \in Nat /\ n <= chunk[c].len
      BY <3>3, Constants
    <3>5. stored'[c] = n /\ \A d \in Command \ {c} : stored'[d] = stored[d]
      BY <1>0, <2>1, <3>1, <3>2, <3>4
    <3>6. BlockWrittenOnce'
      BY <2>1, <3>4, <3>5 DEF WrittenOnce, BlockWrittenOnce
    <3>7. \A d \in Command : stored'[d] > 0 =>
              d <= issued' /\ (~fpError' => d <= lastWriteSeq')
      <4>1. ASSUME NEW d \in Command \ {c}, stored'[d] > 0
            PROVE  d <= issued' /\ (~fpError' => d <= lastWriteSeq')
        <5>1. d <= issued /\ d <= lastWriteSeq
          BY <2>3, <3>5, <4>1 DEF WrittenOnce
        <5>2. d <= c
          <6>1. d \in Nat /\ lastWriteSeq \in Nat /\ c \in Nat
            BY <1>0, <3>0, <4>1
          <6>2. QED BY <2>1, <5>1, <6>1
        <5>3. d <= issued'
          BY <2>1, <5>1
        <5>4. ~fpError' => d <= lastWriteSeq'
          BY <2>3, <5>2
        <5>5. QED BY <5>3, <5>4
      <4>2. c <= issued' /\ (~fpError' => c <= lastWriteSeq')
        <5>1. c <= c
          BY <3>0
        <5>2. QED BY <2>1, <2>3, <5>1
      <4>3. QED BY <4>1, <4>2
    <3>8. QED BY <3>6, <3>7 DEF WrittenOnce
  <2>4. CASE fpError /\ fpError' = TRUE /\ UNCHANGED <<stored, lastWriteSeq>>
    BY <2>1, <2>4 DEF WrittenOnce, BlockWrittenOnce
  <2>5. Room(c) \in 0..Room(c)
    BY <2>1, RoomBounds
  <2>6. QED BY <1>2, <2>2, <2>3, <2>4, <2>5 DEF DispatchWrite, HandleWriteBuffCall
<1>3. ASSUME UNCHANGED <<issued, chunk, stored, lastWriteSeq, fpError>> PROVE WrittenOnce'
  BY <1>3 DEF WrittenOnce, BlockWrittenOnce
<1>4. QED
  BY <1>1, <1>2, <1>3
  DEF WNext, Fwrite, ChunkAnswered, ChunkAbandoned, TakeBytes, Accept, GiveUp, allVars,
      ChannelStep, SeeToken, NotReady, Resend, HeaderOut, ChecksumOut, Poll, Overrun, Publish

\* Nothing has been stored at first.
LEMMA InitOrdered == WInit => Ordered /\ WrittenOnce
<1> SUFFICES ASSUME WInit PROVE Ordered /\ WrittenOnce
  OBVIOUS
<1>1. Ordered
  BY DEF WInit, Init, Ordered, Context
<1>2. WrittenOnce
  BY DEF WInit, Init, WrittenOnce, BlockWrittenOnce, NoChunk
<1>3. QED BY <1>1, <1>2

(* For any number of calls, commands and retries: no block of an Fwrite is  *)
(* stored twice, also when the program writes on after an error.            *)
THEOREM BlocksWrittenOnce == WSpec => []BlockWrittenOnce
<1>1. WInit => Ordered /\ WrittenOnce
  BY InitOrdered
<1>2. WrittenOnce => BlockWrittenOnce
  BY DEF WrittenOnce
<1>3. QED
  BY <1>1, <1>2, InitWTyped, NextWTyped, NextOrdered, NextWrittenOnce, PTL DEF WSpec

----------------------------------------------------------------------------
(* Fwrite keeps its contract.                                              *)

\* The last command carries a chunk of the current call.
Current == issued > 0 /\ chunk[issued].call = call

\* Where the program is in a call, and what the channel knows of it.  As long
\* as no call has failed no command was given up.
CallSound ==
    /\ \A c \in Command : chunk[c].call <= call
    /\ file # <<>> => file[Len(file)][1] <= call
    /\ callPc = "sent" <=> pc["fg"] # "idle"
    /\ callPc # "idle" => call > 0 /\ result[call] = "running"
    /\ callPc = "idle" /\ call > 0 => result[call] \in {"whole", "failed"}
    /\ callPc # "next" /\ call > 0 => Current
    /\ (\A k \in 1..call : result[k] # "failed") => \A c \in Command : outcome[c] # "gaveUp"

\* The last command has been stored, was refused by the card, or has not run.
LastStored ==
    /\ lastWriteSeq = issued /\ ~fpError
    /\ stored[issued] = lastWriteBytes /\ writeBytes = lastWriteBytes
LastRefused ==
    lastWriteSeq = issued - 1 /\ fpError /\ executed[issued] > 0 /\ writeBytes = 0
LastNotRun ==
    lastWriteSeq = issued - 1 /\ ~fpError /\ executed[issued] = 0 /\ stored[issued] = 0

\* The file ends with what was stored of the last chunk, which starts where the
\* bytes that were reported before it end.
LastInFile ==
    /\ Contract!Written = chunk[issued].from + stored[issued]
    /\ chunk[issued].from + chunk[issued].len <= size
    /\ LastStored \/ LastRefused \/ LastNotRun

\* Everything the RP was sent is in the file or reported as failed.
Settled == callPc = "next" \/ (callPc = "idle" /\ (call = 0 \/ result[call] = "whole"))

Delivered ==
    Contract!Clean =>
        /\ Settled => lastWriteSeq = issued /\ ~fpError
        /\ callPc = "next" => Contract!Written = done
        /\ callPc \in {"sent", "answered"} => chunk[issued].from = done
        /\ callPc = "answered" => executed[issued] > 0
        /\ callPc # "next" /\ call > 0 => LastInFile

\* What the proofs of the channel say of the channel below.
ChannelSound == Provenance /\ Freshness /\ InTurn

FwriteInv ==
    WTyped /\ Ordered /\ WrittenOnce /\ ChannelSound /\ CallSound /\ Delivered

\* Fwrite takes only steps that keep what was proved of the channel.
LEMMA ChannelStaysSound ==
    WTyped /\ WTyped' /\ ChannelSound /\ [WNext]_allVars => ChannelSound'
<1> SUFFICES ASSUME WTyped, WTyped', ChannelSound, [WNext]_allVars PROVE ChannelSound'
  OBVIOUS
<1>1. TypeOK /\ TypeOK' /\ [Next]_vars
  BY WritesAreChannelSteps DEF WTyped, WTypeOK
<1>2. HookInstalled = FALSE
  BY PlainChannelAssumption, HookInstalledAssumption
<1>3. Provenance' /\ Freshness' /\ InTurn'
  BY <1>1, <1>2, NextProvenance, NextFreshness, NextInTurn DEF ChannelSound
<1>4. QED BY <1>3 DEF ChannelSound

\* The numbers and records that the argument is about.
FwriteTypes ==
    /\ boots = 0 /\ issued \in Nat /\ lastWriteSeq \in Nat /\ call \in Nat /\ call <= Calls
    /\ size \in Nat /\ done \in Nat /\ lastWriteBytes \in Nat /\ writeBytes \in Nat
    /\ fpError \in BOOLEAN
    /\ callPc \in {"idle", "next", "sent", "answered"}
    /\ \A c \in Command :
          /\ c \in Nat /\ stored[c] \in Nat /\ executed[c] \in Nat
          /\ chunk[c].call \in Nat /\ chunk[c].from \in Nat /\ chunk[c].len \in Nat
    /\ issued > 0 => issued \in Command
    /\ file \in Seq(Nat \X Nat)
    /\ result \in [1..Calls -> {"none", "running", "whole", "failed"}]

\* They have the types that were proved.
LEMMA TypesOfFwrite == WTyped => FwriteTypes
<1> SUFFICES ASSUME WTyped PROVE FwriteTypes
  OBVIOUS
<1>1. boots = 0
  BY PlainChannelAssumption DEF WTyped, WTypeOK, TypeOK
<1>2. issued \in 0..MaxCmds /\ lastWriteSeq \in 0..MaxCmds /\ call \in 0..Calls
  BY DEF WTyped, WTypeOK, TypeOK
<1>3. lastWriteBytes \in 0..ChunkSize /\ writeBytes \in 0..ChunkSize
  BY DEF WTyped, WTypeOK
<1>4. lastWriteBytes \in Nat /\ writeBytes \in Nat
  BY <1>3, Constants
<1>5. /\ stored \in [Command -> Nat] /\ executed \in [Command -> Nat]
      /\ chunk \in [Command -> Chunks]
  BY DEF WTyped, WTypeOK, TypeOK
<1>6. ASSUME NEW c \in Command
      PROVE  /\ c \in Nat /\ stored[c] \in Nat /\ executed[c] \in Nat
             /\ chunk[c].call \in Nat /\ chunk[c].from \in Nat /\ chunk[c].len \in Nat
  <2>1. chunk[c] \in Chunks
    BY <1>5
  <2>2. chunk[c].call \in Nat /\ chunk[c].from \in Nat /\ chunk[c].len \in 0..ChunkSize
    BY <2>1 DEF Chunks
  <2>3. chunk[c].len \in Nat
    BY <2>2, Constants
  <2>4. c \in Nat
    BY Constants DEF Command
  <2>5. QED BY <1>5, <2>2, <2>3, <2>4
<1>7. size \in Nat
  BY SizesAssumption DEF WTyped, WTypeOK
<1>8. issued \in Nat /\ lastWriteSeq \in Nat /\ call \in Nat /\ call <= Calls
  BY <1>2, Constants
<1>9. issued > 0 => issued \in Command
  BY <1>2, Constants DEF Command
<1>10. QED BY <1>1, <1>4, <1>6, <1>7, <1>8, <1>9 DEF FwriteTypes, WTyped, WTypeOK

\* What a stored chunk appends to the file.
LEMMA Appended ==
    ASSUME WTyped, NEW c \in Command, NEW n \in 0..Room(c), StoreChunk(c, n)
    PROVE  /\ n = 0 => file' = file
           /\ n > 0 => /\ file' # <<>>
                       /\ file'[Len(file')] = <<chunk[c].call, chunk[c].from + n>>
           /\ Len(file') >= Len(file) /\ SubSeq(file', 1, Len(file)) = file
           /\ n \in Nat /\ n <= chunk[c].len
<1>1. Room(c) \in 0..ChunkSize /\ Room(c) <= chunk[c].len /\ FwriteTypes
  BY RoomBounds, TypesOfFwrite
<1>2. n \in Nat /\ n <= Room(c)
  BY <1>1, Constants
<1>3. n <= chunk[c].len
  BY <1>1, <1>2, Constants DEF FwriteTypes
<1> DEFINE more == [i \in 1..n |-> <<chunk[c].call, chunk[c].from + i>>]
<1>4. chunk[c].call \in Nat /\ chunk[c].from \in Nat /\ file \in Seq(Nat \X Nat)
  BY <1>1 DEF FwriteTypes
<1>5. more \in Seq(Nat \X Nat) /\ Len(more) = n
  BY <1>2, <1>4
<1>6. n > 0 => more[n] = <<chunk[c].call, chunk[c].from + n>>
  BY <1>2
<1>7. n = 0 => more = <<>>
  BY <1>5
<1>8. file' = file \o more
  BY DEF StoreChunk
<1> HIDE DEF more
<1>9. n = 0 => file' = file
  BY <1>4, <1>7, <1>8
<1> DEFINE N == Len(file)
<1>10. /\ N \in Nat /\ Len(file') = N + n
       /\ \A i \in 1..N : file'[i] = file[i]
       /\ \A i \in 1..n : file'[N + i] = more[i]
       /\ file' \in Seq(Nat \X Nat)
  <2>1. /\ file \o more \in Seq(Nat \X Nat) /\ Len(file \o more) = Len(file) + Len(more)
        /\ \A i \in 1..(Len(file) + Len(more)) :
              (file \o more)[i] = IF i <= Len(file) THEN file[i] ELSE more[i - Len(file)]
    BY <1>4, <1>5, ConcatProperties
  <2>2. N \in Nat
    BY <1>4
  <2>3. \A i \in 1..N : i \in 1..(N + n) /\ i <= N
    BY <1>2, <2>2
  <2>4. \A i \in 1..n : N + i \in 1..(N + n) /\ ~(N + i <= N) /\ (N + i) - N = i
    BY <1>2, <2>2
  <2> HIDE DEF N
  <2>5. \A i \in 1..(N + n) : file'[i] = IF i <= N THEN file[i] ELSE more[i - N]
    BY <1>5, <1>8, <2>1 DEF N
  <2>6. /\ \A i \in 1..N : file'[i] = file[i]
        /\ \A i \in 1..n : file'[N + i] = more[i]
    BY <2>3, <2>4, <2>5
  <2>7. Len(file') = N + n /\ file' \in Seq(Nat \X Nat)
    BY <1>5, <1>8, <2>1 DEF N
  <2>8. QED BY <2>2, <2>6, <2>7
<1>11. SubSeq(file', 1, N) = file
  BY <1>2, <1>4, <1>10
<1> HIDE DEF N
<1>12. n > 0 => file' # <<>> /\ file'[Len(file')] = <<chunk[c].call, chunk[c].from + n>>
  <2> SUFFICES ASSUME n > 0
               PROVE  file' # <<>> /\ file'[Len(file')] = <<chunk[c].call, chunk[c].from + n>>
    OBVIOUS
  <2>1. Len(file') = N + n /\ N + n > 0 /\ n \in 1..n
    BY <1>2, <1>10
  <2>2. file' # <<>>
    BY <1>10, <2>1
  <2>3. file'[N + n] = more[n]
    BY <1>10, <2>1
  <2>4. QED BY <1>6, <2>1, <2>2, <2>3
<1>13. N >= 0 /\ Len(file') >= N
  BY <1>2, <1>10
<1>14. QED BY <1>2, <1>3, <1>9, <1>11, <1>12, <1>13 DEF N

\* The command that runs is one of the last two that can, and the last of them
\* if a newer one has run.
LEMMA RunsInTurn ==
    ASSUME FwriteInv, DispatchWrite
    PROVE  LET c == pending.cmd IN
           /\ c \in Command /\ c <= issued /\ lastWriteSeq <= c
           /\ \A d \in Command : executed[d] > 0 => d <= c
           /\ executed' = [executed EXCEPT ![c] = @ + 1]
           /\ UNCHANGED <<call, size, callPc, done, result, chunk, issued, pc, outcome>>
<1>1. pending.cmd \in Command
  BY DEF DispatchWrite, Dispatch, FwriteInv, WTyped, WTypeOK, TypeOK, Frame
<1>2. /\ pending.cmd <= issued /\ lastWriteSeq <= pending.cmd
      /\ \A d \in Command : executed[d] > 0 => d <= pending.cmd
  BY DEF DispatchWrite, Dispatch, FwriteInv, Ordered, ChannelSound, InTurn
<1>3. QED BY <1>1, <1>2 DEF DispatchWrite, Dispatch, stFile, stVars

\* As long as no call has failed, what send_sync accepts has run.
LEMMA AcceptedRan ==
    ASSUME FwriteInv, Accept("fg"), \A k \in 1..call : result[k] # "failed"
    PROVE  issued \in Command /\ executed[issued] > 0
<1>1. FwriteTypes
  BY TypesOfFwrite DEF FwriteInv
<1>2. /\ pc["fg"] = "check" /\ cur["fg"] = issued /\ "fg" \in Context
      /\ cur["fg"] \in Command /\ want["fg"] \in toks[issued] /\ Carried(want["fg"])
  BY DEF Accept, FwriteInv, ChannelSound, InTurn, Provenance, WTyped, WTypeOK, TypeOK, Context
<1>3. PICK d \in Command : want["fg"] \in toks[d] /\ executed[d] > 0
  BY <1>2 DEF Carried
<1>4. d <= issued
  BY <1>3 DEF FwriteInv, ChannelSound, InTurn
<1>5. outcome[d] # "gaveUp"
  BY DEF FwriteInv, CallSound
<1>6. d = issued
  <2>1. TokenReuseNeedsGiveUp
    BY <1>1 DEF FwriteInv, ChannelSound, Freshness, FwriteTypes
  <2>2. ~(d < issued)
    BY <1>1, <1>2, <1>3, <1>5, <2>1 DEF TokenReuseNeedsGiveUp, ShareToken, FwriteTypes
  <2>3. QED BY <1>1, <1>4, <2>2 DEF FwriteTypes
<1>7. QED BY <1>2, <1>3, <1>6

----------------------------------------------------------------------------
(* The steps keep CallSound.                                               *)

\* Fwrite is called.
LEMMA FwriteSound ==
    ASSUME FwriteInv, NEW n \in Sizes, Fwrite(n)
    PROVE  CallSound'
<1>1. FwriteTypes
  BY TypesOfFwrite DEF FwriteInv
<1>2. /\ call' = call + 1 /\ callPc = "idle" /\ callPc' = "next" /\ call < Calls
      /\ result' = [result EXCEPT ![call + 1] = "running"]
      /\ UNCHANGED <<chunk, file, pc, outcome, issued>>
  BY DEF Fwrite, vars, stVars, rpFile
<1>3. call + 1 \in 1..Calls /\ \A k \in 1..call : k \in 1..Calls /\ k # call + 1
  BY <1>1, <1>2, Constants DEF FwriteTypes
<1>4. result'[call + 1] = "running" /\ \A k \in 1..call : result'[k] = result[k]
  BY <1>1, <1>2, <1>3 DEF FwriteTypes
<1>5. \A c \in Command : chunk'[c].call <= call'
  <2> SUFFICES ASSUME NEW c \in Command PROVE chunk[c].call <= call + 1
    BY <1>2
  <2>1. chunk[c].call \in Nat /\ chunk[c].call <= call /\ call \in Nat
    BY <1>1 DEF FwriteInv, CallSound, FwriteTypes
  <2>2. QED BY <2>1
<1>6. file' # <<>> => file'[Len(file')][1] <= call'
  <2> SUFFICES ASSUME file # <<>> PROVE file[Len(file)][1] <= call + 1
    BY <1>2
  <2>1. file[Len(file)] \in Nat \X Nat /\ file[Len(file)][1] <= call /\ call \in Nat
    BY <1>1 DEF FwriteInv, CallSound, FwriteTypes
  <2>2. file[Len(file)][1] \in Nat
    BY <2>1
  <2>3. QED BY <2>1, <2>2
<1>7. (\A k \in 1..call' : result'[k] # "failed") => \A c \in Command : outcome'[c] # "gaveUp"
  <2>1. 1..call \subseteq 1..call'
    BY <1>1, <1>2 DEF FwriteTypes
  <2>2. QED BY <1>2, <1>4, <2>1 DEF FwriteInv, CallSound
<1>8. call' > 0
  BY <1>1, <1>2 DEF FwriteTypes
<1>9. callPc' # "sent" /\ pc'["fg"] = "idle"
  BY <1>2 DEF FwriteInv, CallSound
<1>10. QED BY <1>2, <1>4, <1>5, <1>6, <1>7, <1>8, <1>9 DEF CallSound

\* A chunk is sent.
LEMMA SendSound ==
    ASSUME FwriteInv, SendChunk
    PROVE  CallSound'
<1>1. FwriteTypes
  BY TypesOfFwrite DEF FwriteInv
<1>2. /\ issued' = issued + 1 /\ issued + 1 \in Command
      /\ outcome' = [outcome EXCEPT ![issued + 1] = "open"]
      /\ chunk' = [chunk EXCEPT ![issued + 1] =
            [call |-> call, from |-> done, len |-> Smaller(size - done, ChunkSize)]]
      /\ callPc = "next" /\ callPc' = "sent" /\ UNCHANGED <<call, result, file>>
  BY <1>1, Constants DEF SendChunk, Begin, rpFile, FwriteTypes, Command
<1>3. pc'["fg"] # "idle"
  BY DEF SendChunk, Begin, ReadSeed, FwriteInv, WTyped, WTypeOK, TypeOK, Context
<1>4. chunk'[issued + 1].call = call /\ \A c \in Command \ {issued + 1} : chunk'[c] = chunk[c]
  BY <1>2 DEF FwriteInv, WTyped
<1>5. \A c \in Command : outcome'[c] = outcome[c] \/ outcome'[c] = "open"
  BY <1>2 DEF FwriteInv, WTyped, WTypeOK, TypeOK
<1>6. \A c \in Command : chunk'[c].call <= call'
  BY <1>1, <1>2, <1>4 DEF FwriteInv, CallSound, FwriteTypes
<1>7. Current'
  BY <1>1, <1>2, <1>4 DEF Current, FwriteTypes
<1>8. (\A k \in 1..call' : result'[k] # "failed") => \A c \in Command : outcome'[c] # "gaveUp"
  BY <1>2, <1>5 DEF FwriteInv, CallSound
<1>9. (file' # <<>> => file'[Len(file')][1] <= call') /\ call' > 0 /\ result'[call'] = "running"
  BY <1>2 DEF FwriteInv, CallSound
<1>10. QED BY <1>2, <1>3, <1>6, <1>7, <1>8, <1>9 DEF CallSound

\* The answer to a chunk is accepted, or the chunk is given up.
LEMMA EndOfChunkSound ==
    ASSUME FwriteInv, ChunkAnswered \/ ChunkAbandoned
    PROVE  CallSound'
<1>1. FwriteTypes
  BY TypesOfFwrite DEF FwriteInv
<1>2. /\ pc["fg"] # "idle" /\ pc'["fg"] = "idle"
      /\ UNCHANGED <<issued, chunk, file, call>>
  BY DEF ChunkAnswered, ChunkAbandoned, Accept, GiveUp, rpFile, FwriteInv, WTyped, WTypeOK,
         TypeOK, Context
<1>3. /\ callPc = "sent" /\ call > 0 /\ result[call] = "running" /\ Current /\ Current'
      /\ \A c \in Command : chunk'[c].call <= call'
      /\ file' # <<>> => file'[Len(file')][1] <= call'
  BY <1>2 DEF FwriteInv, CallSound, Current
<1>4. CASE ChunkAnswered
  <2>1. /\ callPc' = "answered" /\ result' = result
        /\ outcome' = [outcome EXCEPT ![cur["fg"]] = "ok"]
    BY <1>4 DEF ChunkAnswered, Accept
  <2>2. \A c \in Command : outcome'[c] = outcome[c] \/ outcome'[c] = "ok"
    BY <2>1 DEF FwriteInv, WTyped, WTypeOK, TypeOK
  <2>3. (\A k \in 1..call' : result'[k] # "failed") => \A c \in Command : outcome'[c] # "gaveUp"
    BY <1>2, <2>1, <2>2 DEF FwriteInv, CallSound
  <2>4. QED BY <1>2, <1>3, <2>1, <2>3 DEF CallSound
<1>5. CASE ChunkAbandoned
  <2>1. callPc' = "idle" /\ result' = [result EXCEPT ![call] = "failed"]
    BY <1>5 DEF ChunkAbandoned, Return
  <2>2. call \in 1..Calls /\ call \in 1..call
    BY <1>1, <1>3, Constants DEF FwriteTypes
  <2>3. result'[call] = "failed"
    BY <1>1, <2>1, <2>2 DEF FwriteTypes
  <2>4. QED BY <1>2, <1>3, <2>1, <2>2, <2>3 DEF CallSound
<1>6. QED BY <1>4, <1>5

\* The program looks at the number of bytes that were written.
LEMMA TakeSound ==
    ASSUME FwriteInv, TakeBytes
    PROVE  CallSound'
<1>1. FwriteTypes
  BY TypesOfFwrite DEF FwriteInv
<1>2. /\ callPc = "answered" /\ UNCHANGED <<issued, chunk, file, call, pc, outcome>>
      /\ call > 0 /\ result[call] = "running" /\ Current
      /\ pc["fg"] = "idle"
  BY DEF TakeBytes, FwriteInv, CallSound, rpFile, vars, stVars
<1>3. \/ callPc' = "next" /\ result' = result
      \/ \E r \in {"whole", "failed"} :
            callPc' = "idle" /\ result' = [result EXCEPT ![call] = r]
  BY DEF TakeBytes, Return
<1>4. call \in 1..Calls /\ \A k \in 1..call : k \in 1..Calls
  BY <1>1, <1>2, Constants DEF FwriteTypes
<1>5. /\ callPc' \in {"next", "idle"}
      /\ callPc' = "next" => result'[call] = "running"
      /\ callPc' = "idle" => result'[call] \in {"whole", "failed"}
      /\ \A k \in 1..call : result[k] = "failed" => result'[k] = "failed"
  BY <1>1, <1>2, <1>3, <1>4 DEF FwriteTypes
<1>6. (\A k \in 1..call' : result'[k] # "failed") => \A c \in Command : outcome'[c] # "gaveUp"
  BY <1>2, <1>5 DEF FwriteInv, CallSound
<1>7. /\ \A c \in Command : chunk'[c].call <= call'
      /\ file' # <<>> => file'[Len(file')][1] <= call'
      /\ Current'
  BY <1>2 DEF FwriteInv, CallSound, Current
<1>8. QED BY <1>2, <1>5, <1>6, <1>7 DEF CallSound

\* The RP handles a command.
LEMMA DispatchSound ==
    ASSUME FwriteInv, DispatchWrite
    PROVE  CallSound'
<1>1. FwriteTypes
  BY TypesOfFwrite DEF FwriteInv
<1> DEFINE c == pending.cmd
<1>2. /\ c \in Command
      /\ UNCHANGED <<call, size, callPc, done, result, chunk, issued, pc, outcome>>
  BY RunsInTurn
<1>3. file' = file \/ \E n \in 0..Room(c) : StoreChunk(c, n)
  <2>1. Room(c) \in 0..Room(c)
    BY <1>2, RoomBounds DEF FwriteInv
  <2>2. QED BY <2>1 DEF DispatchWrite, HandleWriteBuffCall, rpFile
<1> HIDE DEF c
<1>4. file' # <<>> => file'[Len(file')][1] <= call
  <2>1. CASE file' = file
    BY <2>1 DEF FwriteInv, CallSound
  <2>2. CASE \E n \in 0..Room(c) : StoreChunk(c, n)
    <3>1. PICK n \in 0..Room(c) : StoreChunk(c, n)
      BY <2>2
    <3>2. /\ n = 0 => file' = file
          /\ n > 0 => file'[Len(file')] = <<chunk[c].call, chunk[c].from + n>>
          /\ n \in Nat
      BY <1>2, <3>1, Appended DEF FwriteInv
    <3>3. chunk[c].call <= call
      BY <1>2 DEF FwriteInv, CallSound
    <3>4. CASE n = 0
      BY <2>1, <3>2, <3>4
    <3>5. CASE n > 0
      BY <3>2, <3>3, <3>5
    <3>6. QED BY <3>2, <3>4, <3>5
  <2>3. QED BY <1>3, <2>1, <2>2
<1>5. QED BY <1>2, <1>4 DEF FwriteInv, CallSound, Current

\* The rest of the channel.
LEMMA ChannelStepSound ==
    ASSUME FwriteInv, ChannelStep \/ UNCHANGED allVars
    PROVE  CallSound'
<1>1. /\ UNCHANGED <<call, callPc, result, chunk, issued, outcome, file>>
      /\ pc'["fg"] # "idle" <=> pc["fg"] # "idle"
  BY DEF ChannelStep, SeeToken, NotReady, Resend, ReadSeed, HeaderOut, ChecksumOut, Poll,
         Overrun, Publish, allVars, vars, stVars, stFile, rpFile, FwriteInv, WTyped, WTypeOK,
         TypeOK, Context
<1>2. QED BY <1>1 DEF FwriteInv, CallSound, Current

----------------------------------------------------------------------------
(* The steps keep Delivered.                                               *)

\* The file alone says how much of a call is written.
LEMMA WrittenKept ==
    ASSUME UNCHANGED <<file, call>>
    PROVE  Contract!Written' = Contract!Written
BY DEF Contract!Written

\* A new call: all that was sent before is settled.
LEMMA FwriteDelivers ==
    ASSUME FwriteInv, NEW n \in Sizes, Fwrite(n)
    PROVE  Delivered'
<1> SUFFICES ASSUME Contract!Clean' PROVE Delivered'
  BY DEF Delivered
<1>1. FwriteTypes
  BY TypesOfFwrite DEF FwriteInv
<1>2. /\ call' = call + 1 /\ callPc = "idle" /\ callPc' = "next" /\ done' = 0
      /\ result' = [result EXCEPT ![call + 1] = "running"] /\ call < Calls
      /\ UNCHANGED <<file, issued, lastWriteSeq, fpError>>
  BY DEF Fwrite, vars, stVars, rpFile
<1>3. \A k \in 1..call : result[k] # "failed"
  <2>1. \A k \in 1..call : k \in 1..(call' - 1) /\ result'[k] = result[k]
    BY <1>1, <1>2, Constants DEF FwriteTypes
  <2>2. QED BY <2>1 DEF Contract!Clean
<1>4. Contract!Clean /\ (call = 0 \/ result[call] = "whole")
  BY <1>1, <1>2, <1>3 DEF Contract!Clean, FwriteTypes, FwriteInv, CallSound
<1>5. lastWriteSeq = issued /\ ~fpError
  BY <1>2, <1>4 DEF FwriteInv, Delivered, Settled
<1>6. Contract!Written' = 0
  <2>1. CASE file = <<>>
    BY <1>2, <2>1 DEF Contract!Written
  <2>2. CASE file # <<>>
    <3>1. file[Len(file)] \in Nat \X Nat /\ file[Len(file)][1] <= call /\ call \in Nat
      BY <1>1, <2>2 DEF FwriteInv, CallSound, FwriteTypes
    <3>2. file[Len(file)][1] # call + 1
      BY <3>1
    <3>3. QED BY <1>2, <3>2 DEF Contract!Written
  <2>3. QED BY <2>1, <2>2
<1>7. QED BY <1>2, <1>5, <1>6 DEF Delivered

\* The next chunk follows what is written.
LEMMA SendDelivers ==
    ASSUME FwriteInv, SendChunk
    PROVE  Delivered'
<1> SUFFICES ASSUME Contract!Clean' PROVE Delivered'
  BY DEF Delivered
<1>1. FwriteTypes
  BY TypesOfFwrite DEF FwriteInv
<1> DEFINE r == [call |-> call, from |-> done, len |-> Smaller(size - done, ChunkSize)]
<1>2. /\ issued' = issued + 1 /\ issued + 1 \in Command
      /\ chunk' = [chunk EXCEPT ![issued + 1] = r]
      /\ callPc = "next" /\ callPc' = "sent"
      /\ UNCHANGED <<call, result, file, done, size, stored, executed, lastWriteSeq,
                     fpError, writeBytes>>
  BY <1>1, Constants DEF SendChunk, Begin, rpFile, FwriteTypes, Command
<1>3. Contract!Clean
  BY <1>2 DEF Contract!Clean
<1>4. lastWriteSeq = issued /\ ~fpError /\ Contract!Written = done
  BY <1>2, <1>3 DEF FwriteInv, Delivered, Settled
<1>5. chunk'[issued + 1] = r
  BY <1>2 DEF FwriteInv, WTyped
<1>6. chunk'[issued'].from = done /\ done + chunk'[issued'].len <= size
  <2>1. r.from = done /\ r.len = Smaller(size - done, ChunkSize)
    OBVIOUS
  <2>2. done + Smaller(size - done, ChunkSize) <= size
    BY <1>1, Constants DEF Smaller, FwriteTypes
  <2>3. QED BY <1>2, <1>5, <2>1, <2>2
<1> HIDE DEF r
<1>7. stored[issued + 1] = 0
  <2>1. ~(stored[issued + 1] > 0)
    BY <1>1, <1>2 DEF FwriteInv, WrittenOnce, FwriteTypes
  <2>2. QED BY <1>1, <1>2, <2>1 DEF FwriteTypes
<1>8. executed[issued + 1] = 0
  <2>1. ~(executed[issued + 1] > 0)
    BY <1>1, <1>2 DEF FwriteInv, ChannelSound, InTurn, FwriteTypes
  <2>2. QED BY <1>1, <1>2, <2>1 DEF FwriteTypes
<1>9. Contract!Written' = done
  BY <1>2, <1>4, WrittenKept
<1>10. LastInFile'
  <2>1. lastWriteSeq' = issued' - 1
    BY <1>1, <1>2, <1>4 DEF FwriteTypes
  <2>2. LastNotRun'
    BY <1>2, <1>4, <1>7, <1>8, <2>1 DEF LastNotRun
  <2>3. Contract!Written' = chunk'[issued'].from + stored'[issued']
    BY <1>1, <1>2, <1>6, <1>7, <1>9 DEF FwriteTypes
  <2>4. chunk'[issued'].from + chunk'[issued'].len <= size'
    BY <1>2, <1>6
  <2>5. QED BY <2>2, <2>3, <2>4 DEF LastInFile
<1>11. QED BY <1>2, <1>6, <1>10 DEF Delivered, Settled

\* Steps that touch nothing that Delivered is about.
LEMMA LastKept ==
    ASSUME UNCHANGED <<file, call, chunk, issued, stored, executed, size, lastWriteSeq,
                       lastWriteBytes, fpError, writeBytes>>
    PROVE  (LastInFile <=> LastInFile') /\ Contract!Written' = Contract!Written
<1>1. Contract!Written' = Contract!Written
  BY WrittenKept
<1>2. QED BY <1>1 DEF LastInFile, LastStored, LastRefused, LastNotRun

\* A chunk is answered only if it has run, unless a call has failed.
LEMMA EndOfChunkDelivers ==
    ASSUME FwriteInv, ChunkAnswered \/ ChunkAbandoned
    PROVE  Delivered'
<1> SUFFICES ASSUME Contract!Clean' PROVE Delivered'
  BY DEF Delivered
<1>1. FwriteTypes
  BY TypesOfFwrite DEF FwriteInv
<1>2. /\ pc["fg"] # "idle"
      /\ UNCHANGED <<file, call, chunk, issued, stored, executed, size, done, lastWriteSeq,
                     lastWriteBytes, fpError, writeBytes>>
  BY DEF ChunkAnswered, ChunkAbandoned, Accept, GiveUp, rpFile
<1>3. callPc = "sent" /\ call > 0 /\ result[call] = "running"
  BY <1>2 DEF FwriteInv, CallSound
<1>4. LastInFile <=> LastInFile'
  BY <1>2, LastKept
<1>5. call \in 1..Calls /\ \A k \in 1..(call - 1) : k \in 1..Calls /\ k # call
  BY <1>1, <1>3, Constants DEF FwriteTypes
<1>6. CASE ChunkAnswered
  <2>1. callPc' = "answered" /\ result' = result /\ Accept("fg")
    BY <1>6 DEF ChunkAnswered
  <2>2. Contract!Clean
    BY <1>2, <2>1 DEF Contract!Clean
  <2>3. \A k \in 1..call : result[k] # "failed"
    <3>1. \A k \in 1..call : k \in 1..(call - 1) \/ k = call
      BY <1>1 DEF FwriteTypes
    <3>2. QED BY <1>3, <2>2, <3>1 DEF Contract!Clean
  <2>4. executed[issued] > 0
    BY <2>1, <2>3, AcceptedRan
  <2>5. chunk[issued].from = done /\ LastInFile
    BY <1>3, <2>2 DEF FwriteInv, Delivered
  <2>6. QED BY <1>2, <1>4, <2>1, <2>4, <2>5 DEF Delivered, Settled
<1>7. CASE ChunkAbandoned
  <2>1. callPc' = "idle" /\ result' = [result EXCEPT ![call] = "failed"]
    BY <1>7 DEF ChunkAbandoned, Return
  <2>2. result'[call] = "failed" /\ \A k \in 1..(call - 1) : result'[k] = result[k]
    BY <1>1, <1>5, <2>1 DEF FwriteTypes
  <2>3. Contract!Clean
    BY <1>2, <2>2 DEF Contract!Clean
  <2>4. LastInFile
    BY <1>3, <2>3 DEF FwriteInv, Delivered
  <2>5. call' > 0 /\ result'[call'] = "failed"
    BY <1>2, <1>3, <2>2
  <2>6. QED BY <1>4, <2>1, <2>4, <2>5 DEF Delivered, Settled
<1>8. QED BY <1>6, <1>7

\* What the program reads is what was stored of its last chunk, or zero if the
\* card refused it.
LEMMA CountIsTrue ==
    ASSUME FwriteInv, TakeBytes, Contract!Clean
    PROVE  /\ call > 0 /\ result[call] = "running" /\ LastInFile
           /\ chunk[issued].from = done /\ issued \in Command
           /\ \/ LastStored /\ Contract!Written = done + writeBytes
              \/ LastRefused /\ writeBytes = 0
<1>1. FwriteTypes
  BY TypesOfFwrite DEF FwriteInv
<1>2. callPc = "answered"
  BY DEF TakeBytes
<1>3. call > 0 /\ result[call] = "running" /\ Current
  BY <1>2 DEF FwriteInv, CallSound
<1>4. LastInFile /\ chunk[issued].from = done /\ executed[issued] > 0
  BY <1>2, <1>3 DEF FwriteInv, Delivered
<1>5. issued \in Command
  BY <1>1, <1>3 DEF Current, FwriteTypes
<1>6. executed[issued] # 0
  BY <1>1, <1>4, <1>5 DEF FwriteTypes
<1>7. ~LastNotRun
  BY <1>6 DEF LastNotRun
<1>8. LastStored => Contract!Written = done + writeBytes
  BY <1>4 DEF LastInFile, LastStored
<1>9. QED BY <1>3, <1>4, <1>5, <1>7, <1>8 DEF LastInFile, LastRefused

\* The program goes on behind what is written, or returns.
LEMMA TakeDelivers ==
    ASSUME FwriteInv, TakeBytes
    PROVE  Delivered'
<1> SUFFICES ASSUME Contract!Clean' PROVE Delivered'
  BY DEF Delivered
<1>1. FwriteTypes
  BY TypesOfFwrite DEF FwriteInv
<1>2. /\ callPc = "answered"
      /\ UNCHANGED <<file, call, chunk, issued, stored, executed, size, lastWriteSeq,
                     lastWriteBytes, fpError, writeBytes>>
  BY DEF TakeBytes, rpFile, vars, stVars
<1>3. call > 0
  BY <1>2 DEF FwriteInv, CallSound
<1>4. call \in 1..Calls /\ \A k \in 1..(call - 1) : k \in 1..Calls /\ k # call
  BY <1>1, <1>3, Constants DEF FwriteTypes
<1>5. \/ callPc' = "next" /\ result' = result
      \/ \E r \in {"whole", "failed"} :
            callPc' = "idle" /\ result' = [result EXCEPT ![call] = r]
  BY DEF TakeBytes, Return
<1>6. \A k \in 1..(call - 1) : result'[k] = result[k]
  BY <1>1, <1>4, <1>5 DEF FwriteTypes
<1>7. Contract!Clean
  BY <1>2, <1>6 DEF Contract!Clean
<1>8. /\ LastInFile /\ chunk[issued].from = done /\ issued \in Command
      /\ \/ LastStored /\ Contract!Written = done + writeBytes
         \/ LastRefused /\ writeBytes = 0
  BY <1>7, CountIsTrue
<1>9. LastInFile' /\ Contract!Written' = Contract!Written
  BY <1>2, <1>8, LastKept
<1>10. CASE writeBytes <= 0
  <2>1. callPc' = "idle" /\ result' = [result EXCEPT ![call] = "failed"]
    BY <1>10 DEF TakeBytes, Return
  <2>2. result'[call] = "failed"
    BY <1>1, <1>4, <2>1 DEF FwriteTypes
  <2>3. call' > 0 /\ result'[call'] = "failed"
    BY <1>2, <1>3, <2>2
  <2>4. QED BY <1>9, <2>1, <2>3 DEF Delivered, Settled
<1>11. CASE ~(writeBytes <= 0)
  <2>1. writeBytes # 0
    BY <1>1, <1>11 DEF FwriteTypes
  <2>2. LastStored /\ Contract!Written = done + writeBytes
    BY <1>8, <2>1
  <2>3. done' = done + writeBytes /\ callPc' \in {"next", "idle"}
    BY <1>11 DEF TakeBytes, Return
  <2>4. lastWriteSeq' = issued' /\ ~fpError'
    BY <1>2, <2>2 DEF LastStored
  <2>5. Contract!Written' = done'
    BY <1>9, <2>2, <2>3
  <2>6. QED BY <1>9, <2>3, <2>4, <2>5 DEF Delivered
<1>12. QED BY <1>10, <1>11

\* The RP stores the last chunk once, and answers a duplicate as before.
LEMMA DispatchDelivers ==
    ASSUME FwriteInv, DispatchWrite
    PROVE  Delivered'
<1> SUFFICES ASSUME Contract!Clean' PROVE Delivered'
  BY DEF Delivered
<1>1. FwriteTypes
  BY TypesOfFwrite DEF FwriteInv
<1> DEFINE c == pending.cmd
<1>2. /\ c \in Command /\ c <= issued /\ lastWriteSeq <= c
      /\ \A d \in Command : executed[d] > 0 => d <= c
      /\ executed' = [executed EXCEPT ![c] = @ + 1]
      /\ UNCHANGED <<call, size, callPc, done, result, chunk, issued, pc, outcome>>
  BY RunsInTurn
<1>3. Contract!Clean
  BY <1>2 DEF Contract!Clean
<1>4. chunk[c] = NoChunk => UNCHANGED rpFile
  BY DEF DispatchWrite
<1>5. chunk[c] # NoChunk => HandleWriteBuffCall(c)
  BY DEF DispatchWrite
<1> HIDE DEF c
<1>6. /\ c \in Nat /\ issued \in Nat /\ lastWriteSeq \in Nat /\ issued \in Command
      /\ executed'[c] = executed[c] + 1
      /\ \A d \in Command \ {c} : executed'[d] = executed[d]
      /\ \A d \in Command : executed[d] \in Nat
  <2>1. c \in Nat /\ issued \in Nat /\ lastWriteSeq \in Nat /\ c > 0
    BY <1>1, <1>2, Constants DEF FwriteTypes, Command
  <2>2. issued \in Command
    BY <1>1, <1>2, <2>1 DEF FwriteTypes
  <2>3. executed \in [Command -> Nat]
    BY DEF FwriteInv, WTyped, WTypeOK, TypeOK
  <2>4. QED BY <1>2, <2>1, <2>2, <2>3
<1>7. executed[issued] > 0 => executed'[issued] > 0
  BY <1>6
<1>8. ASSUME c = lastWriteSeq
      PROVE  /\ UNCHANGED <<file, stored, lastWriteSeq, lastWriteBytes, fpError>>
             /\ writeBytes' \in {writeBytes, lastWriteBytes}
  BY <1>4, <1>5, <1>8 DEF HandleWriteBuffCall, rpFile
<1>9. CASE Settled
  <2>1. lastWriteSeq = issued /\ ~fpError
    BY <1>3, <1>9 DEF FwriteInv, Delivered
  <2>2. c = lastWriteSeq
    BY <1>2, <1>6, <2>1
  <2>3. Contract!Written' = Contract!Written
    BY <1>2, <1>8, <2>2, WrittenKept
  <2>4. callPc # "next" /\ call > 0 => LastInFile'
    <3> SUFFICES ASSUME callPc # "next", call > 0 PROVE LastInFile'
      OBVIOUS
    <3>1. LastInFile
      BY <1>3 DEF FwriteInv, Delivered
    <3>2. LastStored
      BY <1>6, <2>1, <3>1 DEF LastInFile, LastRefused, LastNotRun
    <3>3. LastStored'
      BY <1>2, <1>8, <2>2, <3>2 DEF LastStored
    <3>4. QED BY <1>2, <1>8, <2>2, <2>3, <3>1, <3>3 DEF LastInFile
  <2>5. callPc = "next" => Contract!Written = done
    BY <1>3 DEF FwriteInv, Delivered
  <2>6. callPc \notin {"sent", "answered"}
    BY <1>9 DEF Settled
  <2>7. QED BY <1>2, <1>8, <2>1, <2>2, <2>3, <2>4, <2>5, <2>6 DEF Delivered
<1>10. CASE ~Settled
  <2>1. callPc # "next" /\ call > 0 /\ ~Settled'
    <3>1. callPc # "idle" => call > 0
      BY DEF FwriteInv, CallSound
    <3>2. callPc # "next" /\ (callPc = "idle" => call # 0)
      BY <1>10 DEF Settled
    <3>3. call > 0
      BY <1>1, <3>1, <3>2 DEF FwriteTypes
    <3>4. Settled' <=> Settled
      BY <1>2 DEF Settled
    <3>5. QED BY <1>10, <3>2, <3>3, <3>4
  <2>2. /\ LastInFile /\ (callPc \in {"sent", "answered"} => chunk[issued].from = done)
        /\ callPc = "answered" => executed[issued] > 0
    BY <1>3, <2>1 DEF FwriteInv, Delivered
  <2>3. Current /\ chunk[issued] # NoChunk
    <3>1. Current
      BY <2>1 DEF FwriteInv, CallSound
    <3>2. QED BY <2>1, <3>1 DEF Current, NoChunk
  <2>4. CASE LastStored
    <3>1. c = lastWriteSeq
      BY <1>2, <1>6, <2>4 DEF LastStored
    <3>2. Contract!Written' = Contract!Written
      BY <1>2, <1>8, <3>1, WrittenKept
    <3>3. LastStored'
      BY <1>2, <1>8, <2>4, <3>1 DEF LastStored
    <3>4. LastInFile'
      BY <1>2, <1>8, <2>2, <3>1, <3>2, <3>3 DEF LastInFile
    <3>5. QED BY <1>2, <1>7, <2>1, <2>2, <3>4 DEF Delivered
  <2>5. CASE LastRefused
    <3>1. c = issued /\ c # lastWriteSeq /\ fpError
      BY <1>2, <1>6, <2>5 DEF LastRefused
    <3>2. /\ UNCHANGED <<file, stored, lastWriteSeq, lastWriteBytes>>
          /\ fpError' /\ writeBytes' = 0
      BY <1>5, <2>3, <3>1 DEF HandleWriteBuffCall
    <3>3. Contract!Written' = Contract!Written
      BY <1>2, <3>2, WrittenKept
    <3>4. LastRefused'
      BY <1>2, <1>7, <2>5, <3>2 DEF LastRefused
    <3>5. LastInFile'
      BY <1>2, <2>2, <3>2, <3>3, <3>4 DEF LastInFile
    <3>6. QED BY <1>2, <1>7, <2>1, <2>2, <3>5 DEF Delivered
  <2>6. CASE LastNotRun /\ c = lastWriteSeq
    <3>1. Contract!Written' = Contract!Written
      BY <1>2, <1>8, <2>6, WrittenKept
    <3>2. c # issued
      BY <1>6, <2>6 DEF LastNotRun
    <3>3. LastNotRun'
      BY <1>2, <1>6, <1>8, <2>6, <3>2 DEF LastNotRun
    <3>4. LastInFile'
      BY <1>2, <1>8, <2>2, <2>6, <3>1, <3>3 DEF LastInFile
    <3>5. QED BY <1>2, <1>7, <2>1, <2>2, <3>4 DEF Delivered
  <2>7. CASE LastNotRun /\ c # lastWriteSeq
    <3>1. c = issued
      BY <1>2, <1>6, <2>7 DEF LastNotRun
    <3>2. PICK n \in 0..Room(c) :
             /\ StoreChunk(c, n)
             /\ \/ /\ lastWriteSeq' = c /\ lastWriteBytes' = n /\ writeBytes' = n
                   /\ fpError' = fpError
                \/ fpError' = TRUE /\ writeBytes' = 0 /\ UNCHANGED lastWriteSeq
      <4>1. Room(c) \in 0..Room(c)
        BY <1>2, RoomBounds DEF FwriteInv
      <4>2. QED BY <1>5, <2>3, <2>7, <3>1, <4>1 DEF HandleWriteBuffCall, LastNotRun
    <3>3. /\ n = 0 => file' = file
          /\ n > 0 => /\ file' # <<>>
                      /\ file'[Len(file')] = <<chunk[c].call, chunk[c].from + n>>
          /\ n \in Nat
      BY <1>2, <3>2, Appended DEF FwriteInv
    <3>4. stored'[issued] = n
      <4>1. stored \in [Command -> Nat] /\ stored[issued] = 0
        BY <2>7 DEF FwriteInv, WTyped, WTypeOK, LastNotRun
      <4>2. QED BY <1>2, <3>1, <3>2, <3>3, <4>1 DEF StoreChunk
    <3>5. Contract!Written' = chunk[issued].from + n
      <4>1. CASE n = 0
        <5>1. Contract!Written' = Contract!Written
          BY <1>2, <3>3, <4>1, WrittenKept
        <5>2. stored[issued] = n
          BY <2>7, <4>1 DEF LastNotRun
        <5>3. QED BY <2>2, <5>1, <5>2 DEF LastInFile
      <4>2. CASE n > 0
        BY <1>2, <2>3, <3>1, <3>3, <4>2 DEF Contract!Written, Current
      <4>3. QED BY <3>3, <4>1, <4>2
    <3>6. executed'[issued] > 0
      BY <1>6, <3>1
    <3>7. LastStored' \/ LastRefused'
      BY <1>2, <2>7, <3>1, <3>2, <3>4, <3>6 DEF LastStored, LastRefused, LastNotRun
    <3>8. LastInFile'
      BY <1>2, <2>2, <3>4, <3>5, <3>7 DEF LastInFile
    <3>9. QED BY <1>2, <2>1, <2>2, <3>6, <3>8 DEF Delivered
  <2>8. QED BY <2>2, <2>4, <2>5, <2>6, <2>7 DEF LastInFile
<1>11. QED BY <1>9, <1>10

\* The rest of the channel.
LEMMA ChannelStepDelivers ==
    ASSUME FwriteInv, ChannelStep \/ UNCHANGED allVars
    PROVE  Delivered'
<1>1. UNCHANGED <<file, call, chunk, issued, stored, executed, size, lastWriteSeq,
                  lastWriteBytes, fpError, writeBytes, callPc, done, result>>
  BY DEF ChannelStep, SeeToken, NotReady, Resend, ReadSeed, HeaderOut, ChecksumOut, Poll,
         Overrun, Publish, allVars, vars, stVars, stFile, rpFile
<1>2. (LastInFile <=> LastInFile') /\ Contract!Written' = Contract!Written
  BY <1>1, LastKept
<1>3. Contract!Clean' <=> Contract!Clean
  BY <1>1 DEF Contract!Clean
<1>4. QED BY <1>1, <1>2, <1>3 DEF FwriteInv, Delivered, Settled

----------------------------------------------------------------------------
(* The invariant, and what each step is to the contract.                   *)

\* Nothing is written at first.
LEMMA InitFwriteInv == WInit => FwriteInv
<1> SUFFICES ASSUME WInit PROVE FwriteInv
  OBVIOUS
<1>1. WTyped /\ Ordered /\ WrittenOnce
  BY InitWTyped, InitOrdered
<1>2. ChannelSound
  BY InitProvenance, InitFreshness, InitInTurn DEF WInit, ChannelSound
<1>3. CallSound
  BY DEF WInit, Init, CallSound, NoChunk, Context
<1>4. Delivered
  BY DEF WInit, Init, Delivered, Settled
<1>5. QED BY <1>1, <1>2, <1>3, <1>4 DEF FwriteInv

\* Every step keeps all parts.
LEMMA NextFwriteInv == FwriteInv /\ [WNext]_allVars => FwriteInv'
<1> SUFFICES ASSUME FwriteInv, [WNext]_allVars PROVE FwriteInv'
  OBVIOUS
<1>1. WTyped' /\ Ordered' /\ WrittenOnce'
  BY NextWTyped, NextOrdered, NextWrittenOnce DEF FwriteInv
<1>2. ChannelSound'
  BY <1>1, ChannelStaysSound DEF FwriteInv
<1>3. CallSound' /\ Delivered'
  BY FwriteSound, SendSound, EndOfChunkSound, TakeSound, DispatchSound, ChannelStepSound,
     FwriteDelivers, SendDelivers, EndOfChunkDelivers, TakeDelivers, DispatchDelivers,
     ChannelStepDelivers
  DEF WNext
<1>4. QED BY <1>1, <1>2, <1>3 DEF FwriteInv

\* A command the RP handles writes the next bytes, or nothing.
LEMMA DispatchIsContract ==
    ASSUME FwriteInv, DispatchWrite
    PROVE  [Contract!Next]_Contract!vars
<1>1. FwriteTypes
  BY TypesOfFwrite DEF FwriteInv
<1> DEFINE c == pending.cmd
<1>2. /\ c \in Command /\ c <= issued /\ lastWriteSeq <= c
      /\ UNCHANGED <<call, size, callPc, done, result, chunk, issued, pc, outcome>>
  BY RunsInTurn
<1>3. \/ file' = file
      \/ c # lastWriteSeq /\ ~fpError /\ \E n \in 0..Room(c) : StoreChunk(c, n)
  <2>1. Room(c) \in 0..Room(c)
    BY <1>2, RoomBounds DEF FwriteInv
  <2>2. QED BY <2>1 DEF DispatchWrite, HandleWriteBuffCall, rpFile
<1> HIDE DEF c
<1>4. CASE file' = file
  BY <1>2, <1>4 DEF Contract!vars
<1>5. CASE c # lastWriteSeq /\ ~fpError /\ \E n \in 0..Room(c) : StoreChunk(c, n)
  <2>1. PICK n \in 0..Room(c) : StoreChunk(c, n)
    BY <1>5
  <2>2. /\ n = 0 => file' = file
        /\ Len(file') >= Len(file) /\ SubSeq(file', 1, Len(file)) = file
        /\ n \in Nat /\ n <= chunk[c].len
    BY <1>2, <2>1, Appended DEF FwriteInv
  <2>3. CASE ~Contract!Clean
    <3>1. Contract!AppendAfterError
      BY <1>2, <2>2, <2>3 DEF Contract!AppendAfterError
    <3>2. QED BY <3>1 DEF Contract!Next
  <2>4. CASE n = 0
    BY <1>2, <2>2, <2>4 DEF Contract!vars
  <2>5. CASE Contract!Clean /\ n # 0
    <3>1. ~Settled
      <4>1. Settled => lastWriteSeq = issued
        BY <2>5 DEF FwriteInv, Delivered
      <4>2. QED BY <1>1, <1>2, <1>5, <4>1 DEF FwriteTypes
    <3>2. callPc # "next" /\ call > 0
      <4>1. callPc # "idle" => call > 0
        BY DEF FwriteInv, CallSound
      <4>2. callPc # "next" /\ (callPc = "idle" => call # 0)
        BY <3>1 DEF Settled
      <4>3. QED BY <1>1, <4>1, <4>2 DEF FwriteTypes
    <3>3. LastInFile /\ Current
      BY <2>5, <3>2 DEF FwriteInv, Delivered, CallSound
    <3>4. c = issued /\ LastNotRun
      <4>1. c \in Nat /\ issued \in Nat /\ lastWriteSeq \in Nat
        BY <1>1, <1>2 DEF FwriteTypes
      <4>2. LastNotRun
        BY <1>2, <1>5, <3>3, <4>1 DEF LastInFile, LastStored, LastRefused
      <4>3. QED BY <1>2, <1>5, <4>1, <4>2 DEF LastNotRun
    <3>5. Contract!Written = chunk[c].from /\ chunk[c].call = call
      BY <1>1, <1>2, <3>3, <3>4 DEF LastInFile, LastNotRun, Current, FwriteTypes
    <3>6. Contract!Written + n <= size /\ n \in 1..size /\ size > 0
      <4>1. chunk[c].from + chunk[c].len <= size
        BY <3>3, <3>4 DEF LastInFile
      <4>2. chunk[c].from \in Nat /\ chunk[c].len \in Nat /\ size \in Nat
        BY <1>1, <1>2 DEF FwriteTypes
      <4>3. chunk[c].from + n <= size /\ n \in 1..size /\ size > 0
        BY <2>2, <2>5, <4>1, <4>2
      <4>4. QED BY <3>5, <4>3
    <3>7. file' = file \o [i \in 1..n |-> <<call, Contract!Written + i>>]
      BY <2>1, <3>5 DEF StoreChunk
    <3>8. CASE Contract!Running
      <4>1. Contract!Write(n)
        BY <1>2, <2>5, <3>6, <3>7, <3>8 DEF Contract!Write
      <4>2. QED BY <3>6, <4>1 DEF Contract!Next
    <3>9. CASE ~Contract!Running
      <4>1. result[call] = "failed"
        BY <3>1, <3>2, <3>9 DEF FwriteInv, CallSound, Contract!Running, Settled
      <4>2. Contract!WriteLate(n)
        BY <1>2, <2>5, <3>2, <3>6, <3>7, <3>9, <4>1 DEF Contract!WriteLate
      <4>3. QED BY <3>6, <4>2 DEF Contract!Next
    <3>10. QED BY <3>8, <3>9
  <2>6. QED BY <2>3, <2>4, <2>5
<1>6. QED BY <1>3, <1>4, <1>5

\* A call returns its count only when all its bytes are written.
LEMMA TakeIsContract ==
    ASSUME FwriteInv, TakeBytes
    PROVE  [Contract!Next]_Contract!vars
<1>1. FwriteTypes
  BY TypesOfFwrite DEF FwriteInv
<1>2. callPc = "answered" /\ UNCHANGED <<file, call, size>>
  BY DEF TakeBytes, rpFile
<1>3. Contract!Running
  BY <1>2 DEF FwriteInv, CallSound, Contract!Running
<1>4. CASE result' = result
  BY <1>2, <1>4 DEF Contract!vars
<1>5. CASE result' = [result EXCEPT ![call] = "failed"]
  BY <1>2, <1>3, <1>5 DEF Contract!ReturnError, Contract!Next
<1>6. CASE /\ ~(writeBytes <= 0) /\ size - (done + writeBytes) <= 0
           /\ result' = [result EXCEPT ![call] = "whole"]
  <2>1. Contract!Clean => Contract!Written = size
    <3> SUFFICES ASSUME Contract!Clean PROVE Contract!Written = size
      OBVIOUS
    <3>1. /\ LastInFile /\ issued \in Command
          /\ \/ LastStored /\ Contract!Written = done + writeBytes
             \/ LastRefused /\ writeBytes = 0
      BY CountIsTrue
    <3>2. Contract!Written = done + writeBytes
      BY <1>6, <3>1
    <3>3. stored[issued] <= chunk[issued].len
      BY <3>1 DEF FwriteInv, WrittenOnce, BlockWrittenOnce
    <3>4. Contract!Written <= size
      BY <1>1, <3>1, <3>3 DEF LastInFile, FwriteTypes
    <3>5. QED BY <1>1, <1>6, <3>2, <3>4 DEF FwriteTypes
  <2>2. Contract!ReturnWhole
    BY <1>2, <1>3, <1>6, <2>1 DEF Contract!ReturnWhole
  <2>3. QED BY <2>2 DEF Contract!Next
<1>7. QED BY <1>4, <1>5, <1>6 DEF TakeBytes, Return

\* Every step of Fwrite is a step of its contract, or changes nothing of it.
LEMMA StepIsContract == FwriteInv /\ [WNext]_allVars => [Contract!Next]_Contract!vars
<1> SUFFICES ASSUME FwriteInv, [WNext]_allVars PROVE [Contract!Next]_Contract!vars
  OBVIOUS
<1>1. ASSUME NEW n \in Sizes, Fwrite(n) PROVE [Contract!Next]_Contract!vars
  <2>1. ~Contract!Running
    BY <1>1 DEF Fwrite, FwriteInv, CallSound, Contract!Running
  <2>2. Contract!Start(n)
    BY <1>1, <2>1 DEF Fwrite, rpFile, Contract!Start
  <2>3. QED BY <2>2 DEF Contract!Next
<1>2. CASE SendChunk \/ ChunkAnswered \/ ChannelStep \/ UNCHANGED allVars
  BY <1>2 DEF SendChunk, ChunkAnswered, ChannelStep, allVars, stFile, rpFile, Contract!vars
<1>3. CASE ChunkAbandoned
  <2>1. pc["fg"] # "idle"
    BY <1>3 DEF ChunkAbandoned, GiveUp
  <2>2. Contract!Running
    BY <2>1 DEF FwriteInv, CallSound, Contract!Running
  <2>3. Contract!ReturnError
    BY <1>3, <2>2 DEF ChunkAbandoned, Return, rpFile, Contract!ReturnError
  <2>4. QED BY <2>3 DEF Contract!Next
<1>4. CASE TakeBytes
  BY <1>4, TakeIsContract
<1>5. CASE DispatchWrite
  BY <1>5, DispatchIsContract
<1>6. QED BY <1>1, <1>2, <1>3, <1>4, <1>5 DEF WNext

(* Fwrite over the lossy channel implements its contract, for any number of *)
(* calls, commands and retries, any chunk size and any room on the card:    *)
(* until a call has failed the file receives the caller's bytes in order    *)
(* and once each, and all of them before a call reports them.               *)
THEOREM FwriteContractHolds == WSpec => FwriteKeepsContract
<1>1. WInit => Contract!Init
  BY DEF WInit, Contract!Init
<1>2. QED
  BY <1>1, InitFwriteInv, NextFwriteInv, StepIsContract, PTL
  DEF WSpec, FwriteKeepsContract, Contract!Spec

====
