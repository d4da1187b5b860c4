---- MODULE CaptureRing ----
(***************************************************************************)
(* The ring of ROM3 samples under the command channel (commemul.c): the    *)
(* DMA writes it without ever waiting, the main loop polls it, drains it   *)
(* into the parser and re-arms the DMA channel before its count runs out.  *)
(* CommandChannel takes this ring at its contract: frames in order, or     *)
(* lost and counted.                                                       *)
(*                                                                         *)
(* A sample is its number in the order of capture.  What arrives during a  *)
(* restart of the channel waits in the FIFO of the PIO.                    *)
(***************************************************************************)
EXTENDS Integers

CONSTANTS
    RingWords,          \* COMM_RING_WORDS
    RearmThreshold,     \* COMM_DMA_REARM_THRESHOLD
    MaxSamples          \* bound: samples captured

ASSUME CaptureAssumption ==
    RingWords \in Nat \ {0} /\ RearmThreshold \in Nat \ {0} /\ MaxSamples \in Nat

VARIABLES
    commRing,           \* commRing: the number of the sample in each word
    transfers,          \* samples since the channel was armed
    commArmIdx, commReadIdx, commLastWritten, commOverruns,
    poll,               \* where commemul_poll is
    writeIdx,           \* its snapshot of the write position
    captured,           \* history: samples captured so far
    expected,           \* history: the sample the parser has to get next
    upTo,               \* history: the first sample after the snapshot
    uncounted,          \* history: samples a re-arm left out of the next count
    slipped             \* history: with those this poll met a full ring

captureVars == <<commRing, transfers, commArmIdx, commReadIdx, commLastWritten, commOverruns,
                 poll, writeIdx, captured, expected, upTo, uncounted, slipped>>

Words == 0..(RingWords - 1)
NextWord == (commArmIdx + transfers) % RingWords
Unread == transfers - commLastWritten

CaptureTypeOK ==
    /\ commRing \in [Words -> 0..MaxSamples]
    /\ captured \in 0..MaxSamples /\ transfers \in 0..captured
    /\ commArmIdx \in Words /\ commReadIdx \in Words /\ writeIdx \in Words
    /\ commLastWritten \in 0..transfers /\ commOverruns \in 0..MaxSamples
    /\ poll \in {"idle", "drain"}
    /\ expected \in 1..(captured + 1) /\ upTo \in 1..(captured + 1)
    /\ uncounted \in 0..MaxSamples /\ slipped \in BOOLEAN

CaptureInit ==
    /\ commRing = [w \in Words |-> 0] /\ captured = 0 /\ transfers = 0
    /\ commArmIdx = 0 /\ commReadIdx = 0 /\ commLastWritten = 0 /\ commOverruns = 0
    /\ poll = "idle" /\ writeIdx = 0
    /\ expected = 1 /\ upTo = 1 /\ uncounted = 0 /\ slipped = FALSE

\* the DMA stores a sample, wherever the reader is
Sample ==
    /\ captured < MaxSamples
    /\ captured' = captured + 1 /\ transfers' = transfers + 1
    /\ commRing' = [commRing EXCEPT ![NextWord] = captured + 1]
    /\ UNCHANGED <<commArmIdx, commReadIdx, commLastWritten, commOverruns, poll, writeIdx,
                   expected, upTo, uncounted, slipped>>

\* the head of commemul_poll: when `Lapped`, count and drop, else start to drain
PollWith(Lapped) ==
    /\ poll = "idle"
    /\ commLastWritten' = transfers
    /\ upTo' = captured + 1 /\ uncounted' = 0
    /\ \/ /\ Lapped
          /\ commOverruns' = commOverruns + 1
          /\ commReadIdx' = NextWord /\ expected' = captured + 1
          /\ UNCHANGED <<poll, writeIdx, slipped>>
       \/ /\ ~Lapped
          /\ poll' = "drain" /\ writeIdx' = NextWord
          /\ slipped' = (Unread < RingWords /\ uncounted + Unread >= RingWords)
          /\ UNCHANGED <<commOverruns, commReadIdx, expected>>
    /\ UNCHANGED <<commRing, captured, transfers, commArmIdx>>

\* Mutant: a ring that is exactly full is not taken for an overrun.
PollStarts_MoreThanFull == PollWith(Unread > RingWords)

PollStarts == PollWith(Unread >= RingWords)

\* the callback gets the sample at commReadIdx
Drain ==
    /\ poll = "drain" /\ commReadIdx # writeIdx
    /\ commReadIdx' = (commReadIdx + 1) % RingWords
    /\ expected' = expected + 1
    /\ UNCHANGED <<commRing, captured, transfers, commArmIdx, commLastWritten,
                   commOverruns, poll, writeIdx, upTo, uncounted, slipped>>

\* the tail of commemul_poll: by the count of the snapshot, abort the channel
\* and start it again at the word it was writing
Drained ==
    /\ poll = "drain" /\ commReadIdx = writeIdx
    /\ poll' = "idle" /\ expected' = upTo /\ slipped' = FALSE
    /\ \/ /\ commLastWritten < RearmThreshold
          /\ UNCHANGED <<commArmIdx, transfers, commLastWritten, uncounted>>
       \/ /\ commLastWritten >= RearmThreshold
          /\ commArmIdx' = NextWord /\ transfers' = 0 /\ commLastWritten' = 0
          /\ uncounted' = Unread
    /\ UNCHANGED <<commRing, captured, commReadIdx, commOverruns, writeIdx, upTo>>

CaptureNext == Sample \/ PollStarts \/ Drain \/ Drained

CaptureSpec == CaptureInit /\ [][CaptureNext]_captureVars

----------------------------------------------------------------------------
Overwritten(n) == captured - n >= RingWords

\* A drain hands the parser exactly the samples captured since the last one,
\* in order, through every wrap of the index and every re-arm: samples are
\* skipped only where an overrun is counted.  Two things escape that count:
\* a sample the DMA overwrites during the drain, and a ring that is full only
\* with the samples a re-arm left out (commemul_poll).
SamplesInOrder ==
    poll = "drain" /\ ~slipped =>
        /\ (writeIdx - commReadIdx) % RingWords = upTo - expected
        /\ \A n \in expected..(upTo - 1) :
              \/ commRing[(commReadIdx + n - expected) % RingWords] = n
              \/ Overwritten(n)
====
