---- MODULE GemdriveRead_proofs ----
(***************************************************************************)
(* Proofs about Fseek and Fread over the command channel, for files,       *)
(* windows and counts of any size and any number of commands and retries:  *)
(* type correctness, and that the program gets the file in order.          *)
(***************************************************************************)
EXTENDS GemdriveRead, CommandChannel_proofs

\* What the steps of Fseek and Fread are to the channel.
LEMMA ReadsAreChannelSteps == [RNext]_allVars => [Next]_vars
<1> SUFFICES ASSUME [RNext]_allVars PROVE [Next]_vars
  OBVIOUS
<1>1. ASSUME NEW s \in Seeks, CallFseek(s) PROVE [Next]_vars
  BY <1>1 DEF CallFseek, Next, SendSync, Context
<1>2. CASE SeekEnds
  BY <1>2 DEF SeekEnds, Next, SendSync, Context
<1>3. CASE AskForBuffer
  BY <1>3 DEF AskForBuffer, Next, SendSync, Context
<1>4. CASE ReadAnswered
  BY <1>4 DEF ReadAnswered, Next, SendSync, Context
<1>5. CASE ReadAbandoned
  BY <1>5 DEF ReadAbandoned, Next, SendSync, Context
<1>6. CASE TakePosition \/ TakeCount \/ CopyByte \/ EndOfBuffer
  BY <1>6 DEF TakePosition, TakeCount, CopyByte, EndOfBuffer
<1>7. CASE DispatchRead
  BY <1>7 DEF DispatchRead, Next, ChandlerLoop
<1>8. CASE ChannelStep
  BY <1>8 DEF ChannelStep, Next, SendSync, ChandlerLoop, Context
<1>9. CASE UNCHANGED allVars
  BY <1>9 DEF allVars
<1>10. QED
  BY <1>1, <1>2, <1>3, <1>4, <1>5, <1>6, <1>7, <1>8, <1>9 DEF RNext

----------------------------------------------------------------------------
(* What the operators return.                                              *)

\* The constants are numbers, and the calls a program may make are calls.
LEMMA ReadBounds ==
    /\ BufferSize \in Nat /\ BufferSize > 0 /\ FileSize \in Nat /\ MaxCmds \in Nat
    /\ \A w \in Wants : w \in Nat /\ w > 0
    /\ \A p \in Starts : p \in 0..FileSize
    /\ \A s \in Seeks : s # NoSeek /\ s.by \in Int /\ s.mode \in {"set", "cur", "end"}
<1>1. \A s \in Seeks : s # NoSeek /\ s.by \in Int /\ s.mode \in {"set", "cur", "end"}
  BY ReadAssumption DEF NoSeek
<1>2. QED BY <1>1, ReadAssumption, MaxCmdsAssumption

\* A number of a set that none is smaller than is its smallest.
LEMMA SmallestIs ==
    ASSUME NEW S, NEW n \in S, \A m \in S : n <= m
    PROVE  Smallest(S) \in S /\ \A m \in S : Smallest(S) <= m
BY DEF Smallest

\* The smaller of two numbers.
LEMMA SmallestOfTwo ==
    ASSUME NEW a \in Int, NEW b \in Int
    PROVE  /\ Smallest({a, b}) \in {a, b}
           /\ Smallest({a, b}) <= a /\ Smallest({a, b}) <= b
<1>1. CASE a <= b
  BY <1>1, SmallestIs
<1>2. CASE ~(a <= b)
  BY <1>2, SmallestIs
<1>3. QED BY <1>1, <1>2

\* The smallest of three numbers.
LEMMA SmallestOfThree ==
    ASSUME NEW a \in Int, NEW b \in Int, NEW c \in Int
    PROVE  /\ Smallest({a, b, c}) \in {a, b, c}
           /\ Smallest({a, b, c}) <= a /\ Smallest({a, b, c}) <= b /\ Smallest({a, b, c}) <= c
<1>1. CASE a <= b /\ a <= c
  BY <1>1, SmallestIs
<1>2. CASE b <= a /\ b <= c
  BY <1>2, SmallestIs
<1>3. CASE c <= a /\ c <= b
  BY <1>3, SmallestIs
<1>4. QED BY <1>1, <1>2, <1>3

----------------------------------------------------------------------------
(* Type correctness.                                                       *)

\* A call starts with nothing read.
LEMMA InitRTypeOK == RInit => RTypeOK
<1> SUFFICES ASSUME RInit PROVE RTypeOK
  OBVIOUS
<1>1. TypeOK
  BY InitTypeOK DEF RInit
<1>2. /\ wanted \in Wants /\ start \in 0..FileSize /\ filePos \in 0..FileSize
      /\ pendingBytes \in Int
  BY ReadBounds DEF RInit
<1>3. readBuffer \in [1..BufferSize -> 0..FileSize] /\ 0 \in 0..BufferSize /\ 0 \in 0..FileSize
  BY ReadBounds DEF RInit
<1>4. got \in Seq(0..FileSize)
  BY DEF RInit
<1>5. fpError \in BOOLEAN
  BY Zenon DEF RInit
<1>6. /\ callPc = "begin" /\ seek \in Seeks \cup {NoSeek} /\ seekStatus \in -1..FileSize
      /\ chunkBytes \in 0..BufferSize /\ copied \in 0..chunkBytes /\ readBytes \in -1..BufferSize
  BY ReadBounds DEF RInit
<1>7. QED BY <1>1, <1>2, <1>3, <1>4, <1>5, <1>6 DEF RTypeOK

\* Reading or seeking keeps the position in the file.
LEMMA WindowTypes ==
    ASSUME RTypeOK, NEW m \in Nat, m <= FileSize - filePos, m <= BufferSize, FillWindow(m)
    PROVE  /\ filePos' \in 0..FileSize /\ filePos' = filePos + m
           /\ readBuffer' \in [1..BufferSize -> 0..FileSize]
           /\ \A i \in 1..m : readBuffer'[i] = filePos + i
<1>1. filePos \in 0..FileSize /\ readBuffer \in [1..BufferSize -> 0..FileSize]
  BY DEF RTypeOK
<1>2. filePos' = filePos + m /\ filePos' \in 0..FileSize
  BY <1>1, ReadBounds DEF FillWindow
<1>3. \A i \in 1..BufferSize : i <= m => filePos + i \in 0..FileSize
  BY <1>1, ReadBounds
<1>4. readBuffer' \in [1..BufferSize -> 0..FileSize]
  BY <1>1, <1>3 DEF FillWindow
<1>5. \A i \in 1..m : readBuffer'[i] = filePos + i
  BY ReadBounds DEF FillWindow
<1>6. QED BY <1>2, <1>4, <1>5

\* A request is answered with a number of bytes that fits everywhere.
LEMMA AvailableIs ==
    ASSUME RTypeOK, NEW p \in 0..FileSize
    PROVE  /\ Smallest({wanted, BufferSize, FileSize - p}) \in Nat
           /\ Smallest({wanted, BufferSize, FileSize - p})
                 \in {wanted, BufferSize, FileSize - p}
           /\ Smallest({wanted, BufferSize, FileSize - p}) <= wanted
           /\ Smallest({wanted, BufferSize, FileSize - p}) <= BufferSize
           /\ Smallest({wanted, BufferSize, FileSize - p}) <= FileSize - p
<1>1. wanted \in Nat /\ BufferSize \in Nat /\ FileSize - p \in Nat
  BY ReadBounds DEF RTypeOK
<1> DEFINE r == FileSize - p
<1>2. wanted \in Int /\ BufferSize \in Int /\ r \in Int
  BY <1>1
<1> HIDE DEF r
<1>3. /\ Smallest({wanted, BufferSize, r}) \in {wanted, BufferSize, r}
      /\ Smallest({wanted, BufferSize, r}) <= wanted
      /\ Smallest({wanted, BufferSize, r}) <= BufferSize
      /\ Smallest({wanted, BufferSize, r}) <= r
  BY <1>2, SmallestOfThree
<1>4. Smallest({wanted, BufferSize, r}) \in Nat
  BY <1>1, <1>3 DEF r
<1>5. QED BY <1>3, <1>4 DEF r

\* handleReadBuffCall moves the position by what it read.
LEMMA ReadBuffTypes ==
    ASSUME RTypeOK, HandleReadBuffCall
    PROVE  /\ filePos' \in 0..FileSize /\ seekStatus' = seekStatus
           /\ readBuffer' \in [1..BufferSize -> 0..FileSize]
           /\ readBytes' \in -1..BufferSize /\ fpError' \in BOOLEAN
<1> DEFINE n == Smallest({wanted, BufferSize, FileSize - filePos})
<1>1. filePos \in 0..FileSize
  BY DEF RTypeOK
<1>2. n \in Nat /\ n <= BufferSize /\ n <= FileSize - filePos
  BY <1>1, AvailableIs
<1>3. seekStatus' = seekStatus
  BY DEF HandleReadBuffCall
<1>4. \/ ~fpError /\ FillWindow(n) /\ readBytes' = n /\ UNCHANGED fpError
      \/ \E m \in 0..n : FillWindow(m) /\ fpError' = TRUE /\ readBytes' = -1
  BY DEF HandleReadBuffCall
<1> HIDE DEF n
<1>5. CASE ~fpError /\ FillWindow(n) /\ readBytes' = n /\ UNCHANGED fpError
  <2>1. readBytes' \in -1..BufferSize
    BY <1>2, <1>5, ReadBounds
  <2>2. fpError' \in BOOLEAN
    BY <1>5, Zenon DEF RTypeOK
  <2>3. QED BY <1>2, <1>3, <1>5, <2>1, <2>2, WindowTypes
<1>6. ASSUME NEW m \in 0..n, FillWindow(m), fpError' = TRUE, readBytes' = -1
      PROVE  /\ filePos' \in 0..FileSize
             /\ readBuffer' \in [1..BufferSize -> 0..FileSize]
             /\ readBytes' \in -1..BufferSize /\ fpError' \in BOOLEAN
  <2>1. m \in Nat /\ m <= FileSize - filePos /\ m <= BufferSize
    BY <1>1, <1>2, ReadBounds
  <2>2. readBytes' \in -1..BufferSize
    BY <1>6, ReadBounds
  <2>3. fpError' \in BOOLEAN
    BY <1>6, Zenon
  <2>4. QED BY <1>6, <2>1, <2>2, <2>3, WindowTypes
<1>7. QED BY <1>3, <1>4, <1>5, <1>6

\* handleFseekCall leaves a position in the file, and a status.
LEMMA FseekTypes ==
    ASSUME RTypeOK, HandleFseekCall
    PROVE  /\ filePos' \in 0..FileSize /\ seekStatus' \in -1..FileSize
           /\ fpError' \in BOOLEAN /\ UNCHANGED <<readBuffer, readBytes>>
<1>1. filePos \in 0..FileSize /\ seekStatus \in -1..FileSize /\ fpError \in BOOLEAN
  BY DEF RTypeOK
<1>2. SeekTarget \in 0..FileSize
  <2>1. FileSize \in 0..FileSize
    BY ReadBounds
  <2>2. QED BY <2>1, Zenon DEF SeekTarget
<1>3. CASE ~fpError /\ filePos' = SeekTarget /\ seekStatus' = SeekTarget /\ UNCHANGED fpError
  BY <1>1, <1>2, <1>3, ReadBounds DEF HandleFseekCall
<1>4. CASE fpError' = TRUE /\ seekStatus' = -1 /\ UNCHANGED filePos
  <2>1. fpError' \in BOOLEAN
    BY <1>4, Zenon
  <2>2. QED BY <1>1, <1>4, <2>1, ReadBounds DEF HandleFseekCall
<1>5. QED BY <1>3, <1>4 DEF HandleFseekCall

\* Every step keeps the types.
LEMMA NextRTypeOK == RTypeOK /\ [RNext]_allVars => RTypeOK'
<1> SUFFICES ASSUME RTypeOK, [RNext]_allVars PROVE RTypeOK'
  OBVIOUS
<1>0. TypeOK' /\ TypeOK
  BY NextTypeOK, ReadsAreChannelSteps DEF RTypeOK
<1> USE DEF stRead, rpRead
<1>1. ASSUME NEW s \in Seeks, CallFseek(s) PROVE RTypeOK'
  BY <1>0, <1>1 DEF CallFseek, RTypeOK
<1>2. CASE SeekEnds \/ AskForBuffer \/ ReadAnswered \/ ReadAbandoned
  BY <1>0, <1>2 DEF SeekEnds, AskForBuffer, ReadAnswered, ReadAbandoned, RTypeOK
<1>3. CASE TakePosition
  BY <1>0, <1>3, ReadBounds DEF TakePosition, RTypeOK
<1>4. CASE TakeCount
  <2>1. /\ chunkBytes' \in 0..BufferSize /\ copied' \in 0..chunkBytes'
        /\ callPc' \in {"failed", "whole", "copy"}
    <3>1. readBytes \in -1..BufferSize /\ chunkBytes \in 0..BufferSize /\ copied' = 0
      BY <1>4 DEF TakeCount, RTypeOK
    <3>2. \/ callPc' \in {"failed", "whole"} /\ chunkBytes' = chunkBytes
          \/ readBytes > 0 /\ callPc' = "copy" /\ chunkBytes' = readBytes
      <4>1. readBytes < 0 \/ readBytes = 0 \/ readBytes > 0
        BY <3>1, ReadBounds
      <4>2. QED BY <1>4, <4>1 DEF TakeCount
    <3>3. QED BY <3>1, <3>2, ReadBounds
  <2>2. UNCHANGED <<vars, seek, wanted, start, pendingBytes, got, rpRead>>
    BY <1>4 DEF TakeCount
  <2>3. QED BY <1>0, <2>1, <2>2 DEF RTypeOK
<1>5. CASE CopyByte
  <2>1. copied + 1 \in 1..BufferSize /\ copied' \in 0..chunkBytes
    BY <1>5, ReadBounds DEF CopyByte, RTypeOK
  <2>2. readBuffer[copied + 1] \in 0..FileSize
    BY <2>1 DEF RTypeOK
  <2>3. got' \in Seq(0..FileSize)
    BY <1>5, <2>2, AppendProperties DEF CopyByte, RTypeOK
  <2>4. QED BY <1>0, <1>5, <2>1, <2>3 DEF CopyByte, RTypeOK
<1>6. CASE EndOfBuffer
  <2>1. pendingBytes' \in Int /\ callPc' \in {"whole", "next"}
    BY <1>6, ReadBounds DEF EndOfBuffer, RTypeOK
  <2>2. UNCHANGED <<vars, seek, wanted, start, chunkBytes, copied, got, rpRead>>
    BY <1>6 DEF EndOfBuffer
  <2>3. QED BY <1>0, <2>1, <2>2 DEF RTypeOK
<1>7. CASE DispatchRead
  <2>1. /\ filePos' \in 0..FileSize /\ seekStatus' \in -1..FileSize
        /\ readBuffer' \in [1..BufferSize -> 0..FileSize]
        /\ readBytes' \in -1..BufferSize /\ fpError' \in BOOLEAN
    BY <1>7, ReadBuffTypes, FseekTypes DEF DispatchRead, RTypeOK
  <2>2. QED BY <1>0, <1>7, <2>1 DEF DispatchRead, RTypeOK
<1>8. CASE ChannelStep \/ UNCHANGED allVars
  BY <1>0, <1>8 DEF ChannelStep, allVars, RTypeOK
<1>9. QED
  BY <1>1, <1>2, <1>3, <1>4, <1>5, <1>6, <1>7, <1>8 DEF RNext

(* Every variable of Fseek and Fread and of the channel below keeps its    *)
(* type.                                                                   *)
THEOREM ReadTypeCorrect == RSpec => []RTypeOK
<1>1. QED BY InitRTypeOK, NextRTypeOK, PTL DEF RSpec

----------------------------------------------------------------------------
(* What a call has done so far, while nothing was executed twice and no    *)
(* Fseek was given up.                                                     *)

\* what ReadInOrder supposes
Undisturbed ==
    (\A c \in Command : executed[c] <= 1) /\ (seek # NoSeek => outcome[1] # "gaveUp")

\* the bytes the file has for a request made at position p
Available(p) == Smallest({wanted, BufferSize, FileSize - p})

\* the multiples of a window
Whole(n) == \E k \in Nat : n = k * BufferSize

\* Between two windows: g bytes are in the caller's buffer, which are whole
\* windows, and more are wanted.
Between(g) ==
    /\ g \in Nat /\ Whole(g) /\ g < wanted /\ start + g <= FileSize
    /\ pendingBytes = wanted - g

\* The Fseek has been executed.
Sought ==
    \/ fpError /\ seekStatus = -1
    \/ ~fpError /\ seekStatus = filePos

\* The request for the window at position p has been executed.
Filled(p) ==
    \/ fpError /\ readBytes = -1
    \/ /\ ~fpError /\ readBytes = Available(p) /\ filePos = p + readBytes
       /\ \A i \in 1..readBytes : readBuffer[i] = p + i

\* All commands before the n-th have been executed.
AllRunBefore(n) == \A c \in Command : c < n => executed[c] > 0

Asking(p) ==
    /\ AllRunBefore(issued)
    /\ executed[issued] = 0 => ~fpError /\ filePos = p
    /\ executed[issued] > 0 => Filled(p)

Copying(p) ==
    /\ ~fpError /\ chunkBytes > 0 /\ chunkBytes = Available(p)
    /\ filePos = p + chunkBytes
    /\ \A i \in 1..chunkBytes : readBuffer[i] = p + i

\* Where the program is in the call.
Progress ==
    LET g == IF callPc = "copy" THEN Len(got) - copied ELSE Len(got) IN
    /\ callPc \in {"begin", "seeking", "sought"} => Len(got) = 0 /\ pendingBytes = wanted
    /\ callPc \in {"seeking", "sought"} =>
          /\ executed[1] = 0 => ~fpError
          /\ executed[1] > 0 => Sought
    /\ callPc \in {"sought", "next", "answered", "copy", "whole"} => AllRunBefore(issued + 1)
    /\ callPc \in {"begin", "next", "sent", "answered", "copy"} => Between(g)
    /\ callPc \in {"begin", "next"} => ~fpError /\ filePos = start + g
    /\ callPc \in {"sent", "answered"} => Asking(start + g)
    /\ callPc = "copy" => Copying(start + g)
    /\ callPc = "whole" => Len(got) = Delivered

\* What the program knows of its commands.
CallSound ==
    /\ callPc \in {"seeking", "sent"} <=> pc["fg"] # "idle"
    /\ callPc = "begin" => issued = 0 /\ seek = NoSeek
    /\ callPc # "begin" => issued > 0
    /\ callPc \in {"seeking", "sought"} => issued = 1 /\ seek # NoSeek
    /\ callPc = "sent" /\ seek # NoSeek => issued > 1
    /\ callPc # "failed" => \A c \in Command : outcome[c] = "gaveUp" => seek # NoSeek /\ c = 1

\* The caller's buffer is the file so far, and the call is where it should be.
OnCourse == got = FromStart(Len(got)) /\ (callPc # "failed" => Progress)

ReadProgress == Undisturbed => OnCourse

ChannelInv == Provenance /\ Freshness /\ InTurn /\ boots = 0

ReadInv == RTypeOK /\ ChannelInv /\ CallSound /\ ReadProgress

\* Reads take only steps that keep what was proved of the channel.
LEMMA ChannelKept ==
    ASSUME HookInstalled = FALSE
    PROVE  RTypeOK /\ RTypeOK' /\ ChannelInv /\ [RNext]_allVars => ChannelInv'
<1> SUFFICES ASSUME RTypeOK, RTypeOK', ChannelInv, [RNext]_allVars PROVE ChannelInv'
  OBVIOUS
<1>1. TypeOK /\ TypeOK' /\ [Next]_vars
  BY ReadsAreChannelSteps DEF RTypeOK
<1>2. Provenance' /\ Freshness' /\ InTurn'
  BY <1>1, NextProvenance, NextFreshness, NextInTurn DEF ChannelInv
<1>3. boots' = boots
  BY DEF RNext, allVars, vars, CallFseek, SeekEnds, TakePosition, AskForBuffer, ReadAnswered,
    ReadAbandoned, TakeCount, CopyByte, EndOfBuffer, DispatchRead, ChannelStep, Begin, Accept,
    GiveUp, SeeToken, NotReady, Resend, HeaderOut, ChecksumOut, Poll, Overrun, Publish, Dispatch
<1>4. QED BY <1>2, <1>3 DEF ChannelInv

\* A call starts on course.
LEMMA InitReadInv == RInit => ReadInv
<1> SUFFICES ASSUME RInit PROVE ReadInv
  OBVIOUS
<1>1. RTypeOK /\ ChannelInv
  BY InitRTypeOK, InitProvenance, InitFreshness, InitInTurn DEF RInit, Init, ChannelInv
<1>2. CallSound
  BY DEF RInit, Init, CallSound, Context
<1>3. got = FromStart(Len(got)) /\ Len(got) = 0
  BY DEF RInit, FromStart
<1>4. Between(0)
  <2>1. 0 = 0 * BufferSize
    BY ReadBounds
  <2>2. QED BY <1>1, <2>1, ReadBounds DEF RInit, Between, Whole, RTypeOK
<1>5. Progress
  BY <1>1, <1>3, <1>4, ReadBounds DEF RInit, Init, Progress, RTypeOK
<1>6. QED BY <1>1, <1>2, <1>3, <1>5 DEF ReadInv, ReadProgress, OnCourse

----------------------------------------------------------------------------
(* What the steps of the channel are to the reads above it.                *)

ReadTypes ==
    /\ issued \in Nat /\ issued <= MaxCmds /\ (issued > 0 => issued \in Command)
    /\ pc \in [Context -> {"idle", "seeded", "sending", "wait", "check"}]
    /\ outcome \in [Command -> {"unsent", "open", "ok", "gaveUp"}]
    /\ executed \in [Command -> Nat]
    /\ cur \in [Context -> 0..MaxCmds]
    /\ \A c \in Command : c \in Nat /\ c > 0
    /\ wanted \in Nat /\ wanted > 0 /\ start \in Nat /\ start <= FileSize
    /\ pendingBytes \in Int /\ chunkBytes \in Nat /\ chunkBytes <= BufferSize
    /\ copied \in Nat /\ copied <= chunkBytes /\ got \in Seq(0..FileSize) /\ Len(got) \in Nat
    /\ filePos \in Nat /\ filePos <= FileSize /\ seekStatus \in -1..FileSize
    /\ readBytes \in -1..BufferSize /\ readBuffer \in [1..BufferSize -> 0..FileSize]

\* The types, in the form the arithmetic needs them.
LEMMA TypesOfRead == RTypeOK => ReadTypes
<1> SUFFICES ASSUME RTypeOK PROVE ReadTypes
  OBVIOUS
<1>1. issued \in 0..MaxCmds /\ start \in 0..FileSize /\ filePos \in 0..FileSize
  BY DEF RTypeOK, TypeOK
<1>2. issued \in Nat /\ issued <= MaxCmds /\ (issued > 0 => issued \in Command)
  BY <1>1, ReadBounds DEF Command
<1>3. start \in Nat /\ start <= FileSize /\ filePos \in Nat /\ filePos <= FileSize
  BY <1>1, ReadBounds
<1>4. chunkBytes \in Nat /\ chunkBytes <= BufferSize /\ copied \in Nat /\ copied <= chunkBytes
  BY ReadBounds DEF RTypeOK
<1>5. \A c \in Command : c \in Nat /\ c > 0
  BY ReadBounds DEF Command
<1>6. got \in Seq(0..FileSize) /\ Len(got) \in Nat
  BY DEF RTypeOK
<1>7. QED BY <1>2, <1>3, <1>4, <1>5, <1>6, ReadBounds DEF ReadTypes, RTypeOK, TypeOK

\* A command is begun: nothing has run it yet.
LEMMA Begun ==
    ASSUME RTypeOK, ChannelInv, Begin("fg")
    PROVE  /\ pc["fg"] = "idle" /\ pc'["fg"] = "seeded"
           /\ issued' = issued + 1 /\ issued + 1 \in Command /\ executed[issued + 1] = 0
           /\ outcome' = [outcome EXCEPT ![issued + 1] = "open"]
           /\ executed' = executed
<1>1. ReadTypes
  BY TypesOfRead
<1>2. issued + 1 \in Command
  BY <1>1, ReadBounds DEF Begin, Command, ReadTypes
<1>3. executed[issued + 1] = 0
  <2>1. ~(executed[issued + 1] > 0)
    BY <1>1, <1>2 DEF ChannelInv, InTurn, ReadTypes
  <2>2. executed[issued + 1] \in Nat
    BY <1>1, <1>2 DEF ReadTypes
  <2>3. QED BY <2>1, <2>2
<1>4. QED BY <1>1, <1>2, <1>3 DEF Begin, ReadSeed, ReadTypes, Context

\* send_sync returns: its command is the last one, and was open.
LEMMA Returned ==
    ASSUME RTypeOK, ChannelInv, Accept("fg") \/ GiveUp("fg")
    PROVE  /\ pc["fg"] # "idle" /\ pc'["fg"] = "idle"
           /\ issued > 0 /\ issued \in Command /\ outcome[issued] = "open"
           /\ Accept("fg") => outcome' = [outcome EXCEPT ![issued] = "ok"]
           /\ GiveUp("fg") => outcome' = [outcome EXCEPT ![issued] = "gaveUp"]
           /\ UNCHANGED <<issued, executed>>
<1>1. ReadTypes /\ "fg" \in Context
  BY TypesOfRead DEF Context
<1>2. pc["fg"] \in {"wait", "check"} /\ pc' = [pc EXCEPT !["fg"] = "idle"]
      /\ UNCHANGED <<issued, executed>>
  BY DEF Accept, GiveUp
<1>3. cur["fg"] = issued /\ cur["fg"] \in Command /\ outcome[issued] = "open"
  BY <1>1, <1>2 DEF ChannelInv, Freshness, RTypeOK, TypeOK
<1>4. QED BY <1>1, <1>2, <1>3 DEF Accept, GiveUp, ReadTypes

\* The steps of send_sync and of the RP that are not calls or callbacks.
LEMMA ChannelMoved ==
    ASSUME RTypeOK, ChannelInv, ChannelStep \/ UNCHANGED allVars
    PROVE  /\ UNCHANGED <<issued, outcome, executed>> /\ UNCHANGED <<stRead, rpRead>>
           /\ pc'["fg"] = "idle" <=> pc["fg"] = "idle"
<1>1. ReadTypes /\ "fg" \in Context
  BY TypesOfRead DEF Context
<1>2. UNCHANGED <<issued, outcome, executed>> /\ UNCHANGED <<stRead, rpRead>>
  BY DEF ChannelStep, allVars, vars, stVars, SeeToken, NotReady, Resend, HeaderOut,
    ChecksumOut, Poll, Overrun, Publish
<1>3. pc' = pc \/ (pc["fg"] # "idle" /\ \E v \in {"seeded", "sending", "wait", "check"} :
                     pc' = [pc EXCEPT !["fg"] = v])
  BY DEF ChannelStep, allVars, vars, stVars, SeeToken, NotReady, Resend, ReadSeed, HeaderOut,
    ChecksumOut, Poll, Overrun, Publish
<1>4. QED BY <1>1, <1>2, <1>3 DEF ReadTypes

\* A callback runs for a command that was issued.
LEMMA Ran ==
    ASSUME RTypeOK, ChannelInv, DispatchRead
    PROVE  /\ pending.cmd \in Command /\ pending.cmd <= issued
           /\ executed' = [executed EXCEPT ![pending.cmd] = @ + 1]
           /\ UNCHANGED <<issued, outcome, pc>> /\ UNCHANGED stRead
BY DEF DispatchRead, Dispatch, stVars, RTypeOK, TypeOK, Frame, ChannelInv, InTurn

\* Only an Fseek, or the last read, is ever given up.
LEMMA NextCallSound ==
    RTypeOK /\ ChannelInv /\ CallSound /\ [RNext]_allVars => CallSound'
<1> SUFFICES ASSUME RTypeOK, ChannelInv, CallSound, [RNext]_allVars PROVE CallSound'
  OBVIOUS
<1>0. ReadTypes
  BY TypesOfRead
<1> USE DEF stRead, rpRead
<1>1. ASSUME NEW s \in Seeks, CallFseek(s) PROVE CallSound'
  <2>1. callPc = "begin" /\ callPc' = "seeking" /\ seek' = s /\ s # NoSeek
    BY <1>1, ReadBounds DEF CallFseek
  <2>2. /\ pc'["fg"] = "seeded" /\ issued' = issued + 1 /\ issued + 1 \in Command
        /\ outcome' = [outcome EXCEPT ![issued + 1] = "open"] /\ issued = 0
    BY <1>1, <2>1, Begun DEF CallFseek, CallSound
  <2>3. \A c \in Command : outcome'[c] # "gaveUp"
    BY <1>0, <2>1, <2>2 DEF CallSound, ReadTypes
  <2>4. QED BY <2>1, <2>2, <2>3 DEF CallSound
<1>2. CASE SeekEnds
  <2>1. /\ callPc = "seeking" /\ callPc' = "sought" /\ seek' = seek /\ seek # NoSeek
        /\ issued = 1 /\ issued' = 1 /\ pc'["fg"] = "idle"
    BY <1>2, Returned DEF SeekEnds, CallSound
  <2>2. \A c \in Command : outcome'[c] = "gaveUp" => c = 1
    BY <1>0, <1>2, <2>1, Returned DEF SeekEnds, CallSound, ReadTypes
  <2>3. QED BY <2>1, <2>2 DEF CallSound
<1>3. CASE TakePosition
  <2>1. /\ callPc = "sought" /\ callPc' \in {"failed", "next"}
        /\ UNCHANGED <<pc, issued, outcome, seek>>
    BY <1>3 DEF TakePosition, vars, stVars
  <2>2. QED BY <2>1 DEF CallSound
<1>4. CASE AskForBuffer
  <2>1. callPc \in {"begin", "next"} /\ callPc' = "sent" /\ seek' = seek
    BY <1>4 DEF AskForBuffer
  <2>2. /\ pc'["fg"] = "seeded" /\ issued' = issued + 1 /\ issued + 1 \in Command
        /\ outcome' = [outcome EXCEPT ![issued + 1] = "open"]
    BY <1>4, Begun DEF AskForBuffer
  <2>3. \A c \in Command : outcome'[c] = "gaveUp" => outcome[c] = "gaveUp"
    BY <1>0, <2>2 DEF ReadTypes
  <2>4. issued' > 0 /\ (seek # NoSeek => issued' > 1)
    BY <1>0, <2>1, <2>2 DEF CallSound, ReadTypes
  <2>5. QED BY <2>1, <2>2, <2>3, <2>4 DEF CallSound
<1>5. CASE ReadAnswered
  <2>1. /\ callPc = "sent" /\ callPc' = "answered" /\ seek' = seek /\ pc'["fg"] = "idle"
        /\ issued' = issued /\ outcome' = [outcome EXCEPT ![issued] = "ok"]
    BY <1>5, Returned DEF ReadAnswered
  <2>2. \A c \in Command : outcome'[c] = "gaveUp" => outcome[c] = "gaveUp"
    BY <1>0, <2>1 DEF ReadTypes
  <2>3. QED BY <2>1, <2>2 DEF CallSound
<1>6. CASE ReadAbandoned
  <2>1. /\ callPc = "sent" /\ callPc' = "failed" /\ seek' = seek /\ pc'["fg"] = "idle"
        /\ issued' = issued
    BY <1>6, Returned DEF ReadAbandoned
  <2>2. QED BY <2>1 DEF CallSound
<1>7. CASE TakeCount
  <2>1. /\ callPc = "answered" /\ callPc' \in {"failed", "whole", "copy"}
        /\ UNCHANGED <<pc, issued, outcome, seek>>
    <3>1. readBytes < 0 \/ readBytes = 0 \/ readBytes > 0
      BY <1>0, ReadBounds DEF ReadTypes
    <3>2. QED BY <1>7, <3>1 DEF TakeCount, vars, stVars
  <2>2. QED BY <2>1 DEF CallSound
<1>8. CASE CopyByte \/ EndOfBuffer
  <2>1. /\ callPc = "copy" /\ callPc' \in {"copy", "whole", "next"}
        /\ UNCHANGED <<pc, issued, outcome, seek>>
    BY <1>8 DEF CopyByte, EndOfBuffer, vars, stVars
  <2>2. QED BY <2>1 DEF CallSound
<1>9. CASE DispatchRead
  BY <1>9, Ran DEF CallSound
<1>10. CASE ChannelStep \/ UNCHANGED allVars
  BY <1>10, ChannelMoved DEF CallSound
<1>11. QED
  BY <1>1, <1>2, <1>3, <1>4, <1>5, <1>6, <1>7, <1>8, <1>9, <1>10 DEF RNext

----------------------------------------------------------------------------
(* How much of the file a call delivers.                                   *)

\* Two different multiples of a window are at least a window apart.
LEMMA MultiplesApart ==
    ASSUME NEW b \in Nat, b > 0, NEW k \in Nat, NEW q \in Nat, k * b < q * b
    PROVE  k * b + b <= q * b
<1>1. k < q
  BY SMT
<1>2. q = k + 1 + (q - k - 1) /\ q - k - 1 \in Nat
  BY <1>1
<1>3. q * b = (k + 1) * b + (q - k - 1) * b
  BY <1>2, SMT
<1>4. (q - k - 1) * b \in Nat
  BY <1>2, SMT
<1>5. (k + 1) * b = k * b + b
  BY SMT
<1>6. QED BY <1>3, <1>4, <1>5

\* The windows a count takes are its bytes rounded up.
LEMMA RoundedUp ==
    ASSUME NEW w \in Nat, w > 0, NEW b \in Nat, b > 0
    PROVE  LET q == (w + b - 1) \div b IN q \in Nat /\ w <= q * b /\ q * b <= w + b - 1
<1> DEFINE a == w + b - 1
           q == a \div b
<1>1. a \in Nat
  BY SMT
<1> HIDE DEF a
<1>2. q \in Nat /\ b * q <= a /\ a < b * q + b
  BY <1>1, SMT
<1> HIDE DEF q
<1>3. b * q = q * b
  BY <1>2, SMT
<1> DEFINE m == q * b
<1>4. m \in Nat
  BY <1>2, SMT
<1> HIDE DEF m
<1>5. m <= a /\ a < m + b
  BY <1>2, <1>3 DEF m
<1>6. w <= m /\ m <= w + b - 1
  BY <1>4, <1>5 DEF a
<1>7. QED BY <1>2, <1>6 DEF m, q, a

\* What a window holds is a number of bytes, and the smallest of the three.
LEMMA WindowHolds ==
    ASSUME RTypeOK, NEW g, Between(g)
    PROVE  /\ start + g \in 0..FileSize /\ Available(start + g) \in Nat
           /\ Available(start + g) \in {wanted, BufferSize, FileSize - (start + g)}
           /\ Available(start + g) <= wanted /\ Available(start + g) <= BufferSize
           /\ Available(start + g) <= FileSize - (start + g)
<1>1. g \in Nat /\ start + g <= FileSize
  BY DEF Between
<1>2. start \in Nat
  BY TypesOfRead DEF ReadTypes
<1>3. start + g \in 0..FileSize
  BY <1>1, <1>2, ReadBounds
<1>4. QED BY <1>3, AvailableIs DEF Available

\* The last window completes what is delivered: it is short, or nothing more
\* is wanted after it.
LEMMA DeliveredIs ==
    ASSUME RTypeOK, NEW g, Between(g),
           \/ Available(start + g) # BufferSize
           \/ wanted <= g + BufferSize
    PROVE  Delivered = g + Available(start + g)
<1> DEFINE n == Available(start + g)
           rest == FileSize - start
           q == (wanted + BufferSize - 1) \div BufferSize
           m == q * BufferSize
<1>0. /\ wanted \in Nat /\ wanted > 0 /\ start \in Nat /\ start <= FileSize
      /\ g \in Nat /\ g < wanted /\ start + g <= FileSize
  <2>1. wanted \in Nat /\ wanted > 0 /\ start \in Nat /\ start <= FileSize
    BY TypesOfRead DEF ReadTypes
  <2>2. g \in Nat /\ g < wanted /\ start + g <= FileSize
    BY DEF Between
  <2>3. QED BY <2>1, <2>2
<1>1. /\ wanted \in Nat /\ wanted > 0 /\ BufferSize \in Nat /\ BufferSize > 0
      /\ g \in Nat /\ g < wanted /\ rest \in Nat /\ g <= rest
  BY <1>0, ReadBounds
<1>2. /\ n \in Nat /\ n \in {wanted, BufferSize, rest - g}
      /\ n <= wanted /\ n <= BufferSize /\ n <= rest - g
  <2>1. FileSize - (start + g) = rest - g
    BY <1>0, ReadBounds
  <2>2. QED BY <2>1, WindowHolds
<1>3. PICK k \in Nat : g = k * BufferSize
  BY DEF Between, Whole
<1>4. q \in Nat /\ wanted <= m /\ m <= wanted + BufferSize - 1
  BY <1>1, RoundedUp
<1>5. Delivered = Smallest({IF wanted <= BufferSize THEN wanted ELSE m, rest})
  BY DEF Delivered
<1>6. n # BufferSize \/ wanted <= g + BufferSize
  OBVIOUS
<1> HIDE DEF n, rest, q
<1>7. CASE wanted <= BufferSize
  <2>1. g = 0
    <3>1. 0 * BufferSize = 0 /\ 1 * BufferSize = BufferSize
      BY <1>1
    <3>2. SUFFICES ASSUME k > 0 PROVE FALSE
      BY <1>3, <3>1
    <3>3. 0 * BufferSize < k * BufferSize
      BY <3>2, <1>1, SMT
    <3>4. 0 * BufferSize + BufferSize <= k * BufferSize
      BY <3>3, <1>1, MultiplesApart
    <3>5. QED BY <1>1, <1>3, <1>7, <3>1, <3>4
  <2>2. /\ Delivered \in {wanted, rest} /\ Delivered <= wanted /\ Delivered <= rest
    <3>1. Delivered = Smallest({wanted, rest}) /\ wanted \in Int /\ rest \in Int
      BY <1>1, <1>5, <1>7
    <3>2. QED BY <3>1, SmallestOfTwo
  <2>3. QED BY <1>1, <1>2, <1>7, <2>1, <2>2 DEF n
<1>8. CASE ~(wanted <= BufferSize)
  <2>1. m \in Nat
    BY <1>1, <1>4, SMT
  <2>2. Delivered \in {m, rest} /\ Delivered <= m /\ Delivered <= rest
    <3> HIDE DEF m
    <3>1. Delivered = Smallest({m, rest}) /\ m \in Int /\ rest \in Int
      BY <1>1, <1>5, <1>8, <2>1
    <3>2. QED BY <3>1, SmallestOfTwo
  <2>3. g + BufferSize <= m
    <3>1. k * BufferSize < q * BufferSize
      BY <1>1, <1>3, <1>4, <2>1
    <3>2. k * BufferSize + BufferSize <= q * BufferSize
      BY <1>1, <1>4, <3>1, MultiplesApart
    <3>3. QED BY <1>3, <3>2
  <2>4. CASE n = BufferSize
    <3>1. (k + 2) * BufferSize = g + BufferSize + BufferSize /\ k + 2 \in Nat
      BY <1>1, <1>3, SMT
    <3>2. q * BufferSize < (k + 2) * BufferSize
      BY <1>1, <1>4, <1>6, <2>1, <2>4, <3>1
    <3>3. q * BufferSize + BufferSize <= (k + 2) * BufferSize
      BY <1>1, <1>4, <3>1, <3>2, MultiplesApart
    <3>4. m <= g + BufferSize
      BY <1>1, <2>1, <3>1, <3>3
    <3>5. QED
      <4> HIDE DEF m
      <4>1. QED BY <1>1, <1>2, <2>1, <2>2, <2>3, <2>4, <3>4 DEF n
  <2>5. CASE n # BufferSize
    <3> HIDE DEF m
    <3>1. n = rest - g /\ n < BufferSize
      BY <1>1, <1>2, <1>8, <2>5
    <3>2. QED BY <1>1, <2>1, <2>2, <2>3, <3>1 DEF n
  <2>6. QED BY <2>4, <2>5
<1>9. QED BY <1>7, <1>8

----------------------------------------------------------------------------
(* The steps keep ReadProgress.                                            *)

\* Executions are never taken back, and neither is an Fseek given up.
LEMMA UndisturbedBefore ==
    ASSUME RTypeOK, ChannelInv, CallSound, [RNext]_allVars, Undisturbed'
    PROVE  Undisturbed
<1>0. ReadTypes
  BY TypesOfRead
<1>1. \A c \in Command : executed[c] <= executed'[c]
  <2>1. executed' = executed \/ (RTypeOK /\ ChannelInv /\ DispatchRead)
    BY DEF RNext, allVars, vars, CallFseek, SeekEnds, TakePosition, AskForBuffer, ReadAnswered,
      ReadAbandoned, TakeCount, CopyByte, EndOfBuffer, ChannelStep, Begin, Accept,
      GiveUp, SeeToken, NotReady, Resend, HeaderOut, ChecksumOut, Poll, Overrun, Publish
  <2>2. CASE executed' = executed
    BY <1>0, <2>2 DEF ReadTypes
  <2>3. CASE DispatchRead
    <3>1. PICK x : x \in Command /\ executed' = [executed EXCEPT ![x] = @ + 1]
      BY <2>3, Ran
    <3>2. executed \in [Command -> Nat]
      BY <1>0 DEF ReadTypes
    <3>3. QED BY <3>1, <3>2
  <2>4. QED BY <2>1, <2>2, <2>3
<1>2. \A c \in Command : executed[c] <= 1
  <2>1. \A c \in Command : executed'[c] <= 1 /\ executed[c] \in Nat /\ executed'[c] \in Nat
    <3>1. executed' \in [Command -> Nat]
      <4>1. TypeOK'
        BY ReadsAreChannelSteps, NextTypeOK DEF RTypeOK
      <4>2. QED BY <4>1 DEF TypeOK
    <3>2. QED BY <1>0, <3>1 DEF Undisturbed, ReadTypes
  <2>2. QED BY <1>1, <2>1
<1>3. ASSUME seek # NoSeek, outcome[1] = "gaveUp" PROVE FALSE
  <2>1. callPc # "begin" /\ issued > 0 /\ 1 \in Command
    BY <1>3, MaxCmdsAssumption DEF CallSound, Command
  <2>2. seek' = seek
    BY <2>1 DEF RNext, allVars, CallFseek, SeekEnds, TakePosition, AskForBuffer, ReadAnswered,
      ReadAbandoned, TakeCount, CopyByte, EndOfBuffer, DispatchRead, ChannelStep, stRead
  <2>3. outcome' = outcome \/ AskForBuffer \/ SeekEnds \/ ReadAnswered \/ ReadAbandoned
    BY <2>1 DEF RNext, allVars, vars, stVars, CallFseek, TakePosition, TakeCount, CopyByte,
      EndOfBuffer, DispatchRead, Dispatch, ChannelStep, SeeToken, NotReady, Resend, HeaderOut,
      ChecksumOut, Poll, Overrun, Publish
  <2>4. outcome'[1] = "gaveUp"
    <3>1. CASE outcome' = outcome
      BY <1>3, <3>1
    <3>2. CASE AskForBuffer
      <4>1. outcome' = [outcome EXCEPT ![issued + 1] = "open"] /\ issued + 1 # 1
        BY <1>0, <2>1, <3>2, Begun DEF AskForBuffer, ReadTypes
      <4>2. QED BY <1>0, <1>3, <2>1, <4>1 DEF ReadTypes
    <3>3. CASE SeekEnds \/ ReadAnswered \/ ReadAbandoned
      <4>1. /\ issued \in Command /\ outcome[issued] = "open"
            /\ \/ outcome' = [outcome EXCEPT ![issued] = "ok"]
               \/ outcome' = [outcome EXCEPT ![issued] = "gaveUp"]
        BY <3>3, Returned DEF SeekEnds, ReadAnswered, ReadAbandoned
      <4>2. issued # 1
        BY <1>3, <4>1
      <4>3. QED BY <1>0, <1>3, <2>1, <4>1, <4>2 DEF ReadTypes
    <3>4. QED BY <2>3, <3>1, <3>2, <3>3
  <2>5. QED BY <1>3, <2>2, <2>4 DEF Undisturbed
<1>4. QED BY <1>2, <1>3 DEF Undisturbed

\* What send_sync accepts has run, as long as nothing is disturbed.
LEMMA AcceptedReadRan ==
    ASSUME ReadInv, Accept("fg"), callPc # "failed", Undisturbed
    PROVE  issued \in Command /\ executed[issued] > 0
<1>1. ReadTypes
  BY TypesOfRead DEF ReadInv
<1>2. /\ pc["fg"] = "check" /\ cur["fg"] = issued /\ "fg" \in Context
      /\ cur["fg"] \in Command /\ want["fg"] \in toks[issued] /\ Carried(want["fg"])
  BY DEF Accept, ReadInv, ChannelInv, InTurn, Provenance, RTypeOK, TypeOK, Context
<1>3. PICK d \in Command : want["fg"] \in toks[d] /\ executed[d] > 0
  BY <1>2 DEF Carried
<1>4. d <= issued
  BY <1>3 DEF ReadInv, ChannelInv, InTurn
<1>5. outcome[d] # "gaveUp"
  BY DEF ReadInv, CallSound, Undisturbed
<1>6. d = issued
  <2>1. TokenReuseNeedsGiveUp
    BY DEF ReadInv, ChannelInv, Freshness
  <2>2. boots = 0
    BY DEF ReadInv, ChannelInv
  <2>3. ~(d < issued)
    BY <1>2, <1>3, <1>5, <2>1, <2>2 DEF TokenReuseNeedsGiveUp, ShareToken
  <2>4. QED BY <1>1, <1>4, <2>3 DEF ReadTypes
<1>7. QED BY <1>2, <1>3, <1>6

\* What runs has not run before, and every command before it has.
LEMMA RunsNext ==
    ASSUME ReadInv, DispatchRead, Undisturbed', NEW n \in Nat, AllRunBefore(n)
    PROVE  /\ pending.cmd \in Command /\ pending.cmd <= issued /\ n <= pending.cmd
           /\ executed[pending.cmd] = 0 /\ executed'[pending.cmd] = 1
           /\ \A c \in Command : c # pending.cmd => executed'[c] = executed[c]
<1>1. ReadTypes
  BY TypesOfRead DEF ReadInv
<1>2. /\ pending.cmd \in Command /\ pending.cmd <= issued
      /\ executed' = [executed EXCEPT ![pending.cmd] = @ + 1]
  BY Ran DEF ReadInv
<1>3. executed'[pending.cmd] <= 1 /\ executed[pending.cmd] \in Nat
  BY <1>1, <1>2 DEF Undisturbed, ReadTypes
<1>4. executed'[pending.cmd] = executed[pending.cmd] + 1
  BY <1>1, <1>2 DEF ReadTypes
<1>5. executed[pending.cmd] = 0
  BY <1>3, <1>4
<1>6. ~(pending.cmd < n) /\ pending.cmd \in Nat
  BY <1>1, <1>2, <1>5 DEF AllRunBefore, ReadTypes
<1>7. QED BY <1>1, <1>2, <1>4, <1>5, <1>6 DEF ReadTypes

\* The program calls Fseek: nothing has been read yet.
LEMMA SeekingOnCourse ==
    ASSUME ReadInv, OnCourse, NEW s \in Seeks, CallFseek(s)
    PROVE  OnCourse'
<1>1. /\ callPc = "begin" /\ callPc' = "seeking"
      /\ UNCHANGED <<start, wanted, pendingBytes, got, rpRead>>
  BY DEF CallFseek
<1>2. issued = 0 /\ issued' = 1 /\ executed' = executed /\ executed[1] = 0
  <2>1. issued = 0
    BY <1>1 DEF ReadInv, CallSound
  <2>2. issued' = issued + 1 /\ executed[issued + 1] = 0 /\ executed' = executed
    BY Begun DEF CallFseek, ReadInv
  <2>3. QED BY <2>1, <2>2
<1>3. Len(got) = 0 /\ pendingBytes = wanted /\ ~fpError
  BY <1>1 DEF OnCourse, Progress
<1>4. got' = FromStart(Len(got))'
  BY <1>1 DEF OnCourse, FromStart
<1>5. /\ Len(got') = 0 /\ pendingBytes' = wanted' /\ ~fpError'
      /\ executed'[1] = 0 /\ ~(executed'[1] > 0)
  BY <1>1, <1>2, <1>3 DEF rpRead
<1>6. QED BY <1>1, <1>4, <1>5, Zenon DEF OnCourse, Progress

\* .Fseek returns: it was executed, for it was not given up.
LEMMA SeekEndsOnCourse ==
    ASSUME ReadInv, OnCourse, Undisturbed, Undisturbed', SeekEnds
    PROVE  OnCourse'
<1>1. /\ callPc = "seeking" /\ callPc' = "sought"
      /\ UNCHANGED <<seek, start, wanted, pendingBytes, got, rpRead>>
  BY DEF SeekEnds
<1>2. issued = 1 /\ UNCHANGED <<issued, executed>> /\ seek # NoSeek /\ 1 \in Command
  BY <1>1, Returned DEF SeekEnds, ReadInv, CallSound
<1>3. executed[1] > 0
  <2>1. CASE Accept("fg")
    BY <1>1, <1>2, <2>1, AcceptedReadRan
  <2>2. CASE GiveUp("fg")
    <3>1. outcome' = [outcome EXCEPT ![1] = "gaveUp"]
      BY <1>2, <2>2, Returned DEF ReadInv
    <3>2. outcome \in [Command -> {"unsent", "open", "ok", "gaveUp"}]
      BY TypesOfRead DEF ReadInv, ReadTypes
    <3>3. outcome'[1] = "gaveUp"
      BY <1>2, <3>1, <3>2
    <3>4. QED BY <1>1, <1>2, <3>3 DEF Undisturbed
  <2>3. QED BY <2>1, <2>2 DEF SeekEnds
<1>4. Len(got) = 0 /\ pendingBytes = wanted /\ Sought
  BY <1>1, <1>3 DEF OnCourse, Progress
<1>5. AllRunBefore(issued + 1)'
  <2>1. \A c \in Command : c < 2 => c = 1
    BY DEF Command
  <2>2. QED BY <1>2, <1>3, <2>1 DEF AllRunBefore
<1>6. Sought'
  BY <1>1, <1>4 DEF Sought, rpRead
<1>7. got' = FromStart(Len(got))'
  BY <1>1 DEF OnCourse, FromStart
<1>8. executed' = executed /\ executed[1] # 0
  BY <1>2, <1>3
<1>9. QED BY <1>1, <1>4, <1>5, <1>6, <1>7, <1>8, Zenon DEF OnCourse, Progress

\* The program takes the position it was told, or stops at an error.
LEMMA TakePositionOnCourse ==
    ASSUME ReadInv, OnCourse, Undisturbed, Undisturbed', TakePosition
    PROVE  OnCourse'
<1>0. ReadTypes
  BY TypesOfRead DEF ReadInv
<1>1. /\ callPc = "sought" /\ UNCHANGED <<vars, wanted, pendingBytes, got, rpRead>>
  BY DEF TakePosition
<1>2. Len(got) = 0 /\ pendingBytes = wanted /\ AllRunBefore(issued + 1)
  BY <1>1 DEF OnCourse, Progress
<1>3. got' = FromStart(Len(got))'
  <2>1. got = [i \in 1..0 |-> start + i]
    BY <1>2 DEF OnCourse, FromStart
  <2>2. [i \in 1..0 |-> start + i] = [i \in 1..0 |-> start' + i]
    OBVIOUS
  <2>3. QED BY <1>1, <1>2, <2>1, <2>2 DEF FromStart
<1>4. CASE seekStatus < 0
  <2>1. callPc' = "failed"
    BY <1>4 DEF TakePosition
  <2>2. QED BY <1>3, <2>1 DEF OnCourse
<1>5. CASE ~(seekStatus < 0)
  <2>1. callPc' = "next" /\ start' = seekStatus
    BY <1>5 DEF TakePosition
  <2>2. ~fpError /\ seekStatus = filePos
    <3>1. issued = 1 /\ 1 \in Command
      BY <1>0, <1>1 DEF ReadInv, CallSound, ReadTypes
    <3>2. executed[1] > 0
      BY <1>2, <3>1 DEF AllRunBefore
    <3>3. Sought
      BY <1>1, <3>2 DEF OnCourse, Progress
    <3>4. QED BY <1>0, <1>5, <3>3 DEF Sought, ReadTypes
  <2>3. Between(0)'
    <3>1. 0 = 0 * BufferSize
      BY ReadBounds
    <3>2. start' \in Nat /\ start' <= FileSize /\ wanted > 0 /\ wanted \in Nat
      BY <1>0, <2>1, <2>2 DEF ReadTypes
    <3>3. QED BY <1>1, <1>2, <3>1, <3>2 DEF Between, Whole
  <2>4. filePos' = start' + 0 /\ ~fpError'
    BY <1>0, <1>1, <2>1, <2>2 DEF rpRead, ReadTypes
  <2>5. AllRunBefore(issued + 1)' /\ Len(got') = 0
    BY <1>1, <1>2 DEF AllRunBefore, vars, stVars
  <2>6. QED BY <1>3, <2>1, <2>3, <2>4, <2>5, Zenon DEF OnCourse, Progress
<1>6. QED BY <1>4, <1>5

\* A window is asked for: the file position is where the buffer ends.
LEMMA AskOnCourse ==
    ASSUME ReadInv, OnCourse, AskForBuffer
    PROVE  OnCourse'
<1>0. ReadTypes
  BY TypesOfRead DEF ReadInv
<1>1. /\ callPc \in {"begin", "next"} /\ callPc' = "sent"
      /\ UNCHANGED <<start, wanted, pendingBytes, got, rpRead>>
  BY DEF AskForBuffer
<1>2. issued' = issued + 1 /\ executed[issued + 1] = 0 /\ executed' = executed
  BY Begun DEF AskForBuffer, ReadInv
<1>3. Between(Len(got)) /\ ~fpError /\ filePos = start + Len(got)
  BY <1>1 DEF OnCourse, Progress
<1>4. AllRunBefore(issued + 1)
  <2>1. CASE callPc = "begin"
    BY <1>0, <2>1 DEF ReadInv, CallSound, AllRunBefore, ReadTypes
  <2>2. CASE callPc = "next"
    BY <2>2 DEF OnCourse, Progress
  <2>3. QED BY <1>1, <2>1, <2>2
<1>5. AllRunBefore(issued)'
  BY <1>2, <1>4 DEF AllRunBefore
<1>6. executed'[issued'] = 0 /\ ~(executed'[issued'] > 0)
  BY <1>2
<1>7. Asking(start + Len(got))'
  BY <1>1, <1>3, <1>5, <1>6, Zenon DEF Asking, rpRead
<1>8. Between(Len(got))'
  BY <1>1, <1>3 DEF Between
<1>9. got' = FromStart(Len(got))'
  BY <1>1 DEF OnCourse, FromStart
<1>10. QED BY <1>1, <1>7, <1>8, <1>9, Zenon DEF OnCourse, Progress

\* An answered request has been executed.
LEMMA AnsweredOnCourse ==
    ASSUME ReadInv, OnCourse, Undisturbed, ReadAnswered
    PROVE  OnCourse'
<1>1. /\ callPc = "sent" /\ callPc' = "answered"
      /\ UNCHANGED <<start, wanted, pendingBytes, got, rpRead>>
  BY DEF ReadAnswered
<1>2. UNCHANGED <<issued, executed>> /\ issued \in Command /\ executed[issued] > 0
  BY <1>1, Returned, AcceptedReadRan DEF ReadAnswered, ReadInv
<1>3. Between(Len(got)) /\ Asking(start + Len(got))
  BY <1>1 DEF OnCourse, Progress
<1>4. AllRunBefore(issued + 1)'
  <2>1. \A c \in Command : c < issued + 1 => c < issued \/ c = issued
    BY <1>2 DEF Command
  <2>2. QED BY <1>2, <1>3, <2>1 DEF Asking, AllRunBefore
<1>5. Asking(start + Len(got))'
  BY <1>1, <1>2, <1>3 DEF Asking, AllRunBefore, Filled, Available, rpRead
<1>6. Between(Len(got))'
  BY <1>1, <1>3 DEF Between
<1>7. got' = FromStart(Len(got))'
  BY <1>1 DEF OnCourse, FromStart
<1>8. QED BY <1>1, <1>4, <1>5, <1>6, <1>7, Zenon DEF OnCourse, Progress

\* The count read is that of the window asked for.
LEMMA CountOnCourse ==
    ASSUME ReadInv, OnCourse, TakeCount
    PROVE  OnCourse'
<1>0. ReadTypes
  BY TypesOfRead DEF ReadInv
<1>1. /\ callPc = "answered" /\ copied' = 0
      /\ UNCHANGED <<issued, executed, start, wanted, pendingBytes, got, rpRead>>
  BY DEF TakeCount, vars, stVars
<1>2. AllRunBefore(issued + 1) /\ Between(Len(got)) /\ Asking(start + Len(got))
  BY <1>1 DEF OnCourse, Progress
<1> DEFINE p == start + Len(got)
<1>3. Filled(p)
  <2>1. issued > 0 /\ issued \in Command
    BY <1>0, <1>1 DEF ReadInv, CallSound, ReadTypes
  <2>2. executed[issued] > 0
    BY <1>0, <1>2, <2>1 DEF AllRunBefore, ReadTypes
  <2>3. QED BY <1>2, <2>2 DEF Asking
<1>4. got' = FromStart(Len(got))'
  BY <1>1 DEF OnCourse, FromStart
<1>5. /\ p \in 0..FileSize /\ Available(p) \in Nat
      /\ Available(p) \in {wanted, BufferSize, FileSize - p}
  BY <1>2, WindowHolds DEF ReadInv
<1>6. CASE readBytes < 0
  <2>1. readBytes \in Int
    BY <1>0, ReadBounds DEF ReadTypes
  <2>2. ~(readBytes = 0) /\ ~(readBytes > 0)
    BY <1>6, <2>1
  <2>3. callPc' = "failed"
    BY <1>6, <2>2, Zenon DEF TakeCount
  <2>4. QED BY <1>4, <2>3 DEF OnCourse
<1>7. CASE readBytes = 0
  <2>1. callPc' = "whole"
    BY <1>7 DEF TakeCount
  <2>2. Available(p) = 0
    BY <1>3, <1>7 DEF Filled
  <2>3. Delivered = Len(got)
    <3>1. Delivered = Len(got) + Available(p)
      BY <1>2, <2>2, DeliveredIs, ReadBounds DEF ReadInv
    <3>2. QED BY <1>0, <2>2, <3>1 DEF ReadTypes
  <2>4. Len(got') = Delivered' /\ AllRunBefore(issued + 1)'
    BY <1>1, <1>2, <2>3 DEF Delivered, AllRunBefore
  <2>5. QED BY <1>4, <2>1, <2>4, Zenon DEF OnCourse, Progress
<1>8. CASE readBytes > 0
  <2>1. callPc' = "copy" /\ chunkBytes' = readBytes
    BY <1>8 DEF TakeCount
  <2>2. /\ ~fpError /\ readBytes = Available(p) /\ filePos = p + readBytes
        /\ \A i \in 1..readBytes : readBuffer[i] = p + i
    BY <1>3, <1>8 DEF Filled
  <2>3. Len(got') - copied' = Len(got)
    BY <1>0, <1>1 DEF ReadTypes
  <2>4. Copying(start + (Len(got) - copied))'
    <3>1. (start + (Len(got) - copied))' = p
      BY <1>1, <2>3
    <3>2. Available(start + (Len(got) - copied))' = Available(p)
      BY <1>1, <3>1 DEF Available
    <3>3. QED BY <1>1, <1>8, <2>1, <2>2, <3>1, <3>2 DEF Copying, rpRead
  <2>5. Between(Len(got) - copied)'
    BY <1>1, <1>2, <2>3 DEF Between
  <2>6. AllRunBefore(issued + 1)'
    BY <1>1, <1>2 DEF AllRunBefore
  <2>7. QED BY <1>4, <2>1, <2>4, <2>5, <2>6, Zenon DEF OnCourse, Progress
<1>9. readBytes < 0 \/ readBytes = 0 \/ readBytes > 0
  BY <1>0, ReadBounds DEF ReadTypes
<1>10. QED BY <1>6, <1>7, <1>8, <1>9

\* A byte copied is the next byte of the file.
LEMMA CopyOnCourse ==
    ASSUME ReadInv, OnCourse, CopyByte
    PROVE  OnCourse'
<1>0. ReadTypes
  BY TypesOfRead DEF ReadInv
<1>1. /\ callPc = "copy" /\ callPc' = "copy" /\ copied < chunkBytes
      /\ got' = Append(got, readBuffer[copied + 1]) /\ copied' = copied + 1
      /\ UNCHANGED <<issued, executed, start, wanted, pendingBytes, chunkBytes, rpRead>>
  BY DEF CopyByte, vars, stVars
<1> DEFINE g == Len(got) - copied
<1>2. AllRunBefore(issued + 1) /\ Between(g) /\ Copying(start + g)
  BY <1>1 DEF OnCourse, Progress
<1>3. copied \in Nat /\ chunkBytes \in Nat /\ Len(got) \in Nat /\ start \in Nat
      /\ got \in Seq(0..FileSize)
  BY <1>0 DEF ReadTypes
<1>4. readBuffer[copied + 1] = start + (Len(got) + 1)
  <2>1. copied + 1 \in 1..chunkBytes
    BY <1>1, <1>3
  <2>2. readBuffer[copied + 1] = start + g + (copied + 1)
    BY <1>2, <2>1 DEF Copying
  <2>3. QED BY <1>3, <2>2
<1>5. /\ Len(got') = Len(got) + 1 /\ DOMAIN got' = 1..(Len(got) + 1)
      /\ \A i \in 1..Len(got) : got'[i] = got[i]
      /\ got'[Len(got) + 1] = readBuffer[copied + 1]
      /\ got' = [i \in 1..(Len(got) + 1) |-> got'[i]]
  <2>1. readBuffer[copied + 1] \in 0..FileSize
    <3>1. copied + 1 \in 1..BufferSize
      BY <1>0, <1>1, ReadBounds DEF ReadTypes
    <3>2. QED BY <1>0, <3>1 DEF ReadTypes
  <2>2. got' \in Seq(0..FileSize)
    BY <1>1, <1>3, <2>1, AppendProperties
  <2>3. QED BY <1>1, <1>3, <2>1, <2>2, AppendProperties, LenProperties
<1>6. got' = FromStart(Len(got))'
  <2>1. \A i \in 1..Len(got) : got[i] = start + i
    BY DEF OnCourse, FromStart
  <2>2. \A i \in 1..(Len(got) + 1) : got'[i] = start + i
    BY <1>3, <1>4, <1>5, <2>1
  <2>3. got' = [i \in 1..(Len(got) + 1) |-> start + i]
    BY <1>5, <2>2
  <2>4. QED BY <1>1, <1>5, <2>3 DEF FromStart
<1>7. Len(got') - copied' = g
  BY <1>1, <1>3, <1>5
<1>8. Between(Len(got) - copied)'
  BY <1>1, <1>2, <1>7 DEF Between
<1>9. Copying(start + (Len(got) - copied))'
  <2>1. (start + (Len(got) - copied))' = start + g
    BY <1>1, <1>7
  <2>2. Available(start + (Len(got) - copied))' = Available(start + g)
    BY <1>1, <2>1 DEF Available
  <2>3. QED BY <1>1, <1>2, <2>1, <2>2 DEF Copying, rpRead
<1>10. AllRunBefore(issued + 1)'
  BY <1>1, <1>2 DEF AllRunBefore
<1>11. QED BY <1>1, <1>6, <1>8, <1>9, <1>10, Zenon DEF OnCourse, Progress

\* A whole window is copied: the call goes on behind it, or is done.
LEMMA EndOfBufferOnCourse ==
    ASSUME ReadInv, OnCourse, EndOfBuffer
    PROVE  OnCourse'
<1>0. ReadTypes
  BY TypesOfRead DEF ReadInv
<1>1. /\ callPc = "copy" /\ copied = chunkBytes
      /\ UNCHANGED <<issued, executed, start, wanted, chunkBytes, copied, got, rpRead>>
  BY DEF EndOfBuffer, vars, stVars
<1> DEFINE g == Len(got) - copied
<1>2. AllRunBefore(issued + 1) /\ Between(g) /\ Copying(start + g)
  BY <1>1 DEF OnCourse, Progress
<1>3. chunkBytes = Available(start + g) /\ ~fpError /\ filePos = start + g + chunkBytes
  BY <1>2 DEF Copying
<1>4. Len(got) = g + chunkBytes /\ g \in Nat /\ chunkBytes \in Nat
  BY <1>0, <1>1, <1>2 DEF ReadTypes, Between
<1>5. got' = FromStart(Len(got))'
  BY <1>1 DEF OnCourse, FromStart
<1>6. AllRunBefore(issued + 1)'
  BY <1>1, <1>2 DEF AllRunBefore
<1>7. ASSUME chunkBytes # BufferSize \/ wanted <= g + BufferSize, callPc' = "whole"
      PROVE  OnCourse'
  <2>1. Delivered = Len(got)
    BY <1>2, <1>3, <1>4, <1>7, DeliveredIs DEF ReadInv
  <2>2. Len(got') = Delivered'
    BY <1>1, <2>1 DEF Delivered
  <2>3. QED BY <1>5, <1>6, <1>7, <2>2, Zenon DEF OnCourse, Progress
<1>8. CASE chunkBytes # BufferSize
  BY <1>7, <1>8 DEF EndOfBuffer
<1>9. CASE chunkBytes = BufferSize
  <2>1. /\ pendingBytes' = pendingBytes - BufferSize
        /\ callPc' = IF pendingBytes' > 0 THEN "next" ELSE "whole"
    BY <1>9 DEF EndOfBuffer
  <2>2. pendingBytes' = wanted - (g + BufferSize) /\ wanted \in Nat
    <3>1. pendingBytes = wanted - g
      BY <1>2 DEF Between
    <3>2. wanted \in Nat
      BY <1>0 DEF ReadTypes
    <3>3. QED BY <1>4, <2>1, <3>1, <3>2, ReadBounds
  <2>3. CASE pendingBytes' > 0
    <3>1. callPc' = "next"
      BY <2>1, <2>3
    <3>2. Whole(g + BufferSize)
      <4>1. PICK k \in Nat : g = k * BufferSize
        BY <1>2 DEF Between, Whole
      <4>2. (k + 1) * BufferSize = g + BufferSize /\ k + 1 \in Nat
        BY <4>1, ReadBounds, SMT
      <4>3. QED BY <4>2 DEF Whole
    <3>3. start + (g + BufferSize) <= FileSize
      <4>1. Available(start + g) <= FileSize - (start + g)
        BY <1>2, WindowHolds DEF ReadInv
      <4>2. start \in Nat
        BY <1>0 DEF ReadTypes
      <4>3. QED BY <1>3, <1>4, <1>9, <4>1, <4>2, ReadBounds
    <3>4. Len(got') = g + BufferSize
      BY <1>1, <1>4, <1>9
    <3>5. g + BufferSize < wanted
      BY <1>4, <2>2, <2>3, ReadBounds
    <3>6. Between(Len(got))'
      <4> DEFINE h == g + BufferSize
      <4>1. /\ h \in Nat /\ Whole(h) /\ start + h <= FileSize /\ Len(got') = h /\ h < wanted
            /\ pendingBytes' = wanted - h
        BY <1>4, <2>2, <3>2, <3>3, <3>4, <3>5, ReadBounds
      <4>2. start' = start /\ wanted' = wanted
        BY <1>1
      <4> HIDE DEF h
      <4>3. QED BY <4>1, <4>2 DEF Between, Whole
    <3>7. ~fpError' /\ filePos' = start' + Len(got')
      <4>1. start \in Nat
        BY <1>0 DEF ReadTypes
      <4>2. filePos' = filePos /\ fpError' = fpError /\ start' = start
        BY <1>1 DEF rpRead
      <4>3. filePos = start + (g + BufferSize)
        BY <1>3, <1>4, <1>9, <4>1, ReadBounds
      <4>4. QED BY <1>3, <3>4, <4>2, <4>3
    <3>8. QED BY <1>5, <1>6, <3>1, <3>6, <3>7, Zenon DEF OnCourse, Progress
  <2>4. CASE ~(pendingBytes' > 0)
    <3>1. callPc' = "whole"
      BY <2>1, <2>4
    <3>2. wanted <= g + BufferSize
      BY <1>4, <2>2, <2>4, ReadBounds
    <3>3. QED BY <1>7, <3>1, <3>2
  <2>5. QED BY <2>3, <2>4
<1>10. QED BY <1>8, <1>9

\* The request for the window at position p runs.
LEMMA WindowFilled ==
    ASSUME ReadInv, HandleReadBuffCall, NEW p \in 0..FileSize, filePos = p, ~fpError,
           wanted' = wanted
    PROVE  Filled(p)'
<1> DEFINE n == Smallest({wanted, BufferSize, FileSize - filePos})
<1>1. n = Available(p) /\ Available(p)' = Available(p)
  BY DEF Available
<1>2. n \in Nat /\ n <= BufferSize /\ n <= FileSize - filePos
  BY AvailableIs DEF ReadInv
<1>3. \/ FillWindow(n) /\ readBytes' = n /\ UNCHANGED fpError
      \/ fpError' = TRUE /\ readBytes' = -1
  BY DEF HandleReadBuffCall
<1> HIDE DEF n
<1>4. CASE FillWindow(n) /\ readBytes' = n /\ UNCHANGED fpError
  <2>1. filePos' = p + n /\ \A i \in 1..n : readBuffer'[i] = p + i
    BY <1>2, <1>4, WindowTypes DEF ReadInv
  <2>2. QED BY <1>1, <1>4, <2>1, Zenon DEF Filled
<1>5. CASE fpError' = TRUE /\ readBytes' = -1
  BY <1>5, Zenon DEF Filled
<1>6. QED BY <1>3, <1>4, <1>5

\* A callback runs the command the program waits for, for the first time.
LEMMA DispatchOnCourse ==
    ASSUME ReadInv, OnCourse, Undisturbed', DispatchRead
    PROVE  OnCourse'
<1>0. ReadTypes
  BY TypesOfRead DEF ReadInv
<1>1. UNCHANGED <<issued, outcome, pc>> /\ UNCHANGED stRead
  BY Ran DEF ReadInv
<1>2. /\ pending.cmd \in Command /\ pending.cmd <= issued
      /\ executed[pending.cmd] = 0 /\ executed'[pending.cmd] = 1
      /\ \A c \in Command : c # pending.cmd => executed'[c] = executed[c]
  <2>1. AllRunBefore(0)
    BY <1>0 DEF AllRunBefore, ReadTypes
  <2>2. QED BY <2>1, RunsNext
<1>3. pending.cmd \in Nat /\ pending.cmd > 0
  BY <1>0, <1>2 DEF ReadTypes
<1>4. got' = FromStart(Len(got))'
  BY <1>1 DEF OnCourse, FromStart, stRead
<1>5. CASE callPc = "failed"
  BY <1>1, <1>4, <1>5 DEF OnCourse, stRead
<1>6. CASE callPc = "begin"
  BY <1>0, <1>2, <1>3, <1>6 DEF ReadInv, CallSound, ReadTypes
<1>7. CASE callPc \in {"sought", "next", "answered", "copy", "whole"}
  <2>1. AllRunBefore(issued + 1)
    BY <1>7 DEF OnCourse, Progress
  <2>2. issued + 1 <= pending.cmd
    BY <1>0, <2>1, RunsNext DEF ReadTypes
  <2>3. QED BY <1>0, <1>2, <1>3, <2>2 DEF ReadTypes
<1>8. CASE callPc = "seeking"
  <2>1. issued = 1 /\ seek # NoSeek /\ pending.cmd = 1
    BY <1>2, <1>3, <1>8 DEF ReadInv, CallSound
  <2>2. HandleFseekCall
    BY <2>1 DEF DispatchRead
  <2>3. Sought'
    <3>1. CASE ~fpError /\ filePos' = SeekTarget /\ seekStatus' = SeekTarget /\ UNCHANGED fpError
      BY <3>1, Zenon DEF Sought
    <3>2. CASE fpError' = TRUE /\ seekStatus' = -1
      BY <3>2, Zenon DEF Sought
    <3>3. QED BY <2>2, <3>1, <3>2 DEF HandleFseekCall
  <2>4. Len(got') = 0 /\ pendingBytes' = wanted' /\ executed'[1] # 0
    BY <1>1, <1>2, <1>8, <2>1 DEF OnCourse, Progress, stRead
  <2>5. callPc' = "seeking"
    BY <1>1, <1>8 DEF stRead
  <2>6. QED BY <1>4, <2>3, <2>4, <2>5, Zenon DEF OnCourse, Progress
<1>9. CASE callPc = "sent"
  <2> DEFINE p == start + Len(got)
  <2>1. Between(Len(got)) /\ Asking(p)
    BY <1>9 DEF OnCourse, Progress
  <2>2. pending.cmd = issued
    <3>1. issued <= pending.cmd
      BY <1>0, <2>1, RunsNext DEF Asking, ReadTypes
    <3>2. QED BY <1>0, <1>2, <1>3, <3>1 DEF ReadTypes
  <2>3. filePos = p /\ ~fpError /\ AllRunBefore(issued)
    BY <1>2, <2>1, <2>2 DEF Asking
  <2>4. HandleReadBuffCall
    <3>1. ~(seek # NoSeek /\ pending.cmd = 1)
      BY <1>0, <1>9, <2>2 DEF ReadInv, CallSound, ReadTypes
    <3>2. QED BY <3>1 DEF DispatchRead
  <2>5. UNCHANGED <<callPc, start, wanted, pendingBytes, got>>
    BY <1>1 DEF stRead
  <2>6. Asking(start + Len(got))'
    <3>1. p \in 0..FileSize
      BY <2>1, WindowHolds DEF ReadInv
    <3>2. Filled(p)'
      BY <2>3, <2>4, <2>5, <3>1, WindowFilled
    <3>3. Filled(start + Len(got))'
      BY <2>5, <3>2
    <3>4. AllRunBefore(issued)'
      <4>1. \A c \in Command : c < issued => executed'[c] = executed[c]
        BY <1>0, <1>2, <2>2 DEF ReadTypes
      <4>2. QED BY <1>1, <2>3, <4>1 DEF AllRunBefore
    <3>5. executed'[issued'] # 0
      BY <1>1, <1>2, <2>2
    <3>6. QED BY <3>3, <3>4, <3>5, Zenon DEF Asking
  <2>7. Between(Len(got))'
    BY <2>1, <2>5 DEF Between
  <2>8. QED BY <1>4, <1>9, <2>5, <2>6, <2>7, Zenon DEF OnCourse, Progress
<1>10. QED
  BY <1>5, <1>6, <1>7, <1>8, <1>9 DEF ReadInv, RTypeOK

\* Nothing else moves the file, the window or the buffer.
LEMMA ChannelStepOnCourse ==
    ASSUME ReadInv, OnCourse, ChannelStep \/ UNCHANGED allVars
    PROVE  OnCourse'
<1>1. UNCHANGED <<issued, outcome, executed>> /\ UNCHANGED <<stRead, rpRead>>
  BY ChannelMoved DEF ReadInv
<1>2. got' = FromStart(Len(got))'
  BY <1>1 DEF OnCourse, FromStart, stRead
<1>3. callPc # "failed" => Progress'
  BY <1>1 DEF OnCourse, Progress, Between, Asking, Copying, Filled, Sought, AllRunBefore,
    Available, Delivered, stRead, rpRead
<1>4. QED BY <1>1, <1>2, <1>3 DEF OnCourse, stRead

\* Every step keeps what the call has done so far.
LEMMA NextReadProgress == ReadInv /\ [RNext]_allVars => ReadProgress'
<1> SUFFICES ASSUME ReadInv, [RNext]_allVars, Undisturbed' PROVE OnCourse'
  BY DEF ReadProgress
<1>1. Undisturbed /\ OnCourse
  BY UndisturbedBefore DEF ReadInv, ReadProgress
<1>2. CASE \E s \in Seeks : CallFseek(s)
  BY <1>1, <1>2, SeekingOnCourse
<1>3. CASE SeekEnds
  BY <1>1, <1>3, SeekEndsOnCourse
<1>4. CASE TakePosition
  BY <1>1, <1>4, TakePositionOnCourse
<1>5. CASE AskForBuffer
  BY <1>1, <1>5, AskOnCourse
<1>6. CASE ReadAnswered
  BY <1>1, <1>6, AnsweredOnCourse
<1>7. CASE ReadAbandoned
  BY <1>1, <1>7 DEF ReadAbandoned, OnCourse, FromStart
<1>8. CASE TakeCount
  BY <1>1, <1>8, CountOnCourse
<1>9. CASE CopyByte
  BY <1>1, <1>9, CopyOnCourse
<1>10. CASE EndOfBuffer
  BY <1>1, <1>10, EndOfBufferOnCourse
<1>11. CASE DispatchRead
  BY <1>1, <1>11, DispatchOnCourse
<1>12. CASE ChannelStep \/ UNCHANGED allVars
  BY <1>1, <1>12, ChannelStepOnCourse
<1>13. QED
  BY <1>2, <1>3, <1>4, <1>5, <1>6, <1>7, <1>8, <1>9, <1>10, <1>11, <1>12 DEF RNext

(* A gap or a repeated byte needs a command that the RP executed twice, or  *)
(* an Fseek that was given up: otherwise the caller's buffer holds the file *)
(* from the position on that the program had, and a call that ends well     *)
(* delivers whole windows until the count is reached or the file ends.      *)
THEOREM ReadInOrderHolds ==
    ASSUME HookInstalled = FALSE PROVE RSpec => []ReadInOrder
<1>1. RTypeOK /\ RTypeOK' /\ ChannelInv /\ [RNext]_allVars => ChannelInv'
  BY ChannelKept
<1>2. ReadInv /\ [RNext]_allVars => ReadInv'
  BY NextRTypeOK, <1>1, NextCallSound, NextReadProgress DEF ReadInv
<1>3. ReadInv => ReadInOrder
  <2> SUFFICES ASSUME ReadInv, \A c \in Command : executed[c] <= 1,
                      seek # NoSeek => outcome[1] = "ok"
               PROVE  /\ got = FromStart(Len(got))
                      /\ callPc = "whole" => Len(got) = Delivered
    BY DEF ReadInOrder
  <2>1. OnCourse
    BY DEF ReadInv, ReadProgress, Undisturbed
  <2>2. QED BY <2>1 DEF OnCourse, Progress
<1>4. QED BY InitReadInv, <1>2, <1>3, PTL DEF RSpec
====
