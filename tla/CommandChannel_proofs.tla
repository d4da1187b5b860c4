---- MODULE CommandChannel_proofs ----
(***************************************************************************)
(* Proofs about the command channel, for any number of commands, retries   *)
(* and reboots: type correctness; an answered command has been executed    *)
(* unless its token was shared; and, with the foreground alone: while the  *)
(* RP stays up only a command that was given up shares its token with a    *)
(* later one, commands run in the order of their calls, and, across        *)
(* reboots, an answer is false only after a command was given up.          *)
(***************************************************************************)
EXTENDS CommandChannel, SequenceTheorems, TLAPS

USE MaxCmdsAssumption, RetriesAssumption, MaxRebootsAssumption,
    HookInstalledAssumption

(* What is left of a ring after a drain is a ring of frames.               *)
LEMMA DrainedRing ==
    ASSUME NEW r \in Seq(Frame), NEW k \in 1..Len(r)
    PROVE  /\ SubSeq(r, k + 1, Len(r)) \in Seq(Frame)
           /\ \A i \in 1..Len(SubSeq(r, k + 1, Len(r))) :
                  \E j \in 1..Len(r) : SubSeq(r, k + 1, Len(r))[i] = r[j]
<1>1. SubSeq(r, k + 1, Len(r)) = [i \in 1..(Len(r) - k) |-> r[i + k]]
  OBVIOUS
<1>2. \A i \in 1..(Len(r) - k) : i + k \in 1..Len(r)
  OBVIOUS
<1>3. QED BY <1>1, <1>2

\* The two boot seeds and the empty tables have the types of the model.
LEMMA InitTypeOK == Init => TypeOK
BY DEF Init, TypeOK, Command, Context, Frame, NoFrame, BootToken, BootSeed

\* Every step keeps every type, one case for each action of Next.
LEMMA NextTypeOK == TypeOK /\ [Next]_vars => TypeOK'
<1> SUFFICES ASSUME TypeOK, [Next]_vars PROVE TypeOK'
  OBVIOUS
<1> USE DEF TypeOK, stVars, cells, Context
<1>1. ASSUME NEW x \in Context, Begin(x) PROVE TypeOK'
  <2>1. issued + 1 \in Command
    BY <1>1 DEF Begin, Command
  <2>2. issued' \in 0..MaxCmds /\ cur' \in [Context -> 0..MaxCmds]
    BY <1>1, <2>1 DEF Begin, Command
  <2>3. outcome' \in [Command -> {"unsent", "open", "ok", "gaveUp"}]
    BY <1>1 DEF Begin
  <2>4. toks' \in [Command -> SUBSET Int] /\ want' \in [Context -> Int]
    BY <1>1 DEF Begin, ReadSeed
  <2>5. \A y \in Context : pc'[y] # "idle" => cur'[y] \in Command
    BY <1>1, <2>1 DEF Begin, ReadSeed
  <2>6. pc' \in [Context -> {"idle", "seeded", "sending", "wait", "check"}]
    BY <1>1 DEF Begin, ReadSeed
  <2>7. QED
    BY <1>1, <2>2, <2>3, <2>4, <2>5, <2>6 DEF Begin
<1>2. ASSUME NEW x \in Context, SeeToken(x) PROVE TypeOK'
  BY <1>2 DEF SeeToken
<1>3. ASSUME NEW x \in Context, Accept(x) PROVE TypeOK'
  BY <1>3 DEF Accept
<1>4. ASSUME NEW x \in Context, NotReady(x) PROVE TypeOK'
  BY <1>4 DEF NotReady
<1>5. ASSUME NEW x \in Context, Resend(x) PROVE TypeOK'
  BY <1>5, SMTT(30) DEF Resend, ReadSeed
<1>6. ASSUME NEW x \in Context, GiveUp(x) PROVE TypeOK'
  BY <1>6 DEF GiveUp
<1>7. CASE HeaderOut
  BY <1>7 DEF HeaderOut
<1>8. CASE ChecksumOut
  <2>1. FrameOf("fg") \in Frame
    BY <1>8 DEF ChecksumOut, FrameOf, Frame
  <2>2. ring' \in Seq(Frame)
    <3>1. Append(ring, FrameOf("fg")) \in Seq(Frame)
      BY <2>1, AppendProperties
    <3>2. QED BY <1>8, <3>1 DEF ChecksumOut
  <2>3. QED BY <1>8, <2>2 DEF ChecksumOut
<1>9. CASE HookFrameOut
  <2>1. FrameOf("isr") \in Frame
    BY <1>9 DEF HookFrameOut, FrameOf, Frame
  <2>2. ring' \in Seq(Frame)
    <3>1. Append(ring, FrameOf("isr")) \in Seq(Frame)
      BY <2>1, AppendProperties
    <3>2. QED BY <1>9, <3>1 DEF HookFrameOut
  <2>3. QED BY <1>9, <2>2 DEF HookFrameOut
<1>10. CASE Poll
  <2>1. Head(ring) \in Frame
    BY <1>10 DEF Poll
  <2>2. ring' \in Seq(Frame)
    BY <1>10, DrainedRing DEF Poll
  <2>3. QED BY <1>10, <2>1, <2>2 DEF Poll
<1>11. CASE Overrun
  BY <1>11 DEF Overrun
<1>12. CASE Dispatch
  BY <1>12, SMTT(30) DEF Dispatch, Frame, Command
<1>13. CASE Publish
  BY <1>13 DEF Publish, Frame, NoFrame
<1>14. CASE Reboot
  BY <1>14 DEF Reboot, NoFrame, BootToken, BootSeed
<1>15. CASE UNCHANGED vars
  BY <1>15 DEF vars
<1>16. QED
  BY <1>1, <1>2, <1>3, <1>4, <1>5, <1>6, <1>7, <1>8, <1>9, <1>10, <1>11,
     <1>12, <1>13, <1>14, <1>15 DEF Next, SendSync, ChandlerLoop

(* Every variable of the channel keeps its type, for all constants.        *)
THEOREM TypeCorrect == Spec => []TypeOK
<1>1. QED BY InitTypeOK, NextTypeOK, PTL DEF Spec

----------------------------------------------------------------------------
(* An answered command has been executed: where the tokens come from.      *)

IsSeed(t) == t \in Nat \/ \E b \in Nat : t = BootSeed(b)

\* some command that carried t has been executed
Carried(t) == \E c \in Command : t \in toks[c] /\ executed[c] > 0

Provenance ==
    /\ IsSeed(seedCell)
    /\ \A c \in Command : \A t \in toks[c] : IsSeed(t)
    /\ Carried(tokenCell) \/ \E b \in Nat : tokenCell = BootToken(b)
    /\ \A i \in 1..Len(ring) : ring[i].tok \in toks[ring[i].cmd]
    /\ rpc # "idle" => pending.tok \in toks[pending.cmd]
    /\ rpc = "run" => executed[pending.cmd] > 0
    /\ \A x \in Context : pc[x] # "idle" => want[x] \in toks[cur[x]]
    /\ \A x \in Context : pc[x] = "check" => Carried(want[x])
    /\ AnsweredWasExecuted

\* The random seed and the random token of a boot differ (chandler_init).
LEMMA SeedIsNoBootToken ==
    ASSUME NEW t \in Int, IsSeed(t), NEW b \in Nat
    PROVE  t # BootToken(b)
BY DEF IsSeed, BootToken, BootSeed

\* Nothing a step does takes away a carried token or an executed command.
LEMMA CarriedGrows ==
    ASSUME TypeOK, TypeOK', NEW t,
           \A c \in Command : toks[c] \subseteq toks'[c]
                              /\ executed[c] <= executed'[c],
           Carried(t)
    PROVE  Carried(t)'
<1>1. PICK c \in Command : t \in toks[c] /\ executed[c] > 0
  BY DEF Carried
<1>2. executed[c] \in Nat /\ executed'[c] \in Nat
  BY DEF TypeOK
<1>3. t \in toks'[c] /\ executed'[c] > 0
  BY <1>1, <1>2
<1>4. QED BY <1>1, <1>3 DEF Carried

\* A step that only adds carried tokens and executed commands, and reports no
\* new answer, keeps AnsweredWasExecuted.
LEMMA AnsweredGrows ==
    ASSUME TypeOK, TypeOK',
           \A c \in Command : toks[c] \subseteq toks'[c]
                              /\ executed[c] <= executed'[c],
           AnsweredWasExecuted,
           \A c \in Command : outcome'[c] = "ok" => outcome[c] = "ok"
    PROVE  AnsweredWasExecuted'
<1> SUFFICES ASSUME NEW c \in Command, outcome'[c] = "ok"
             PROVE  executed'[c] > 0
                    \/ \E d \in Command \ {c} : toks'[c] \cap toks'[d] # {}
  BY DEF AnsweredWasExecuted, ShareToken
<1>1. executed[c] \in Nat /\ executed'[c] \in Nat
  BY DEF TypeOK
<1>2. CASE executed[c] > 0
  BY <1>1, <1>2
<1>3. CASE \E d \in Command \ {c} : toks[c] \cap toks[d] # {}
  <2>1. PICK d \in Command \ {c} : toks[c] \cap toks[d] # {}
    BY <1>3
  <2>2. toks[c] \subseteq toks'[c] /\ toks[d] \subseteq toks'[d]
    OBVIOUS
  <2>3. QED BY <2>1, <2>2
<1>4. QED BY <1>2, <1>3 DEF AnsweredWasExecuted, ShareToken

\* Before the first command nothing is in flight, so Provenance holds.
LEMMA InitProvenance == Init => Provenance
BY InitTypeOK DEF Init, Provenance, TypeOK, AnsweredWasExecuted, IsSeed,
   Context, NoFrame

\* The steps that change neither what commands carried nor what ran, and
\* report no new answer, keep the part of the invariant about the past.
LEMMA HistoryKept ==
    ASSUME TypeOK, TypeOK', Provenance,
           UNCHANGED <<toks, executed>>,
           \A c \in Command : outcome'[c] = "ok" => outcome[c] = "ok"
    PROVE  /\ \A c \in Command : \A t \in toks'[c] : IsSeed(t)
           /\ \A t : Carried(t) <=> Carried(t)'
           /\ AnsweredWasExecuted'
<1>1. \A c \in Command : toks[c] \subseteq toks'[c] /\ executed[c] <= executed'[c]
  BY DEF TypeOK
<1>2. AnsweredWasExecuted'
  BY <1>1, AnsweredGrows DEF Provenance
<1>3. QED BY <1>2 DEF Provenance, Carried

\* Every step keeps Provenance: the cases that matter are Dispatch, Publish and
\* Accept.
LEMMA NextProvenance ==
    TypeOK /\ TypeOK' /\ Provenance /\ [Next]_vars => Provenance'
<1> SUFFICES ASSUME TypeOK, TypeOK', Provenance, [Next]_vars
             PROVE  Provenance'
  OBVIOUS
<1> USE DEF stVars, cells
<1>1. ASSUME NEW x \in Context, NEW c \in Command,
             ReadSeed(x, c), cur'[x] = c,
             \A y \in Context \ {x} : cur'[y] = cur[y],
             \A d \in Command : outcome'[d] = "ok" => outcome[d] = "ok",
             UNCHANGED <<executed, lastRun, line, ring, pending, rpc, cells,
                         boots>>
      PROVE  Provenance'
  <2>1. toks' = [toks EXCEPT ![c] = @ \cup {seedCell}]
    BY <1>1 DEF ReadSeed
  <2>2. \A d \in Command : toks[d] \subseteq toks'[d]
                           /\ executed[d] <= executed'[d]
    BY <1>1, <2>1 DEF TypeOK
  <2>3. \A d \in Command : \A t \in toks'[d] : IsSeed(t)
    BY <2>1 DEF Provenance, TypeOK
  <2>4. \A t : Carried(t) => Carried(t)'
    BY <2>2, CarriedGrows
  <2>5. AnsweredWasExecuted'
    BY <1>1, <2>2, AnsweredGrows DEF Provenance
  <2>6. \A i \in 1..Len(ring') : ring'[i].tok \in toks'[ring'[i].cmd]
    <3>1. \A i \in 1..Len(ring) : ring[i].cmd \in Command
      <4>1. \A i \in 1..Len(ring) : ring[i] \in Frame
        BY ElementOfSeq DEF TypeOK
      <4>2. QED BY <4>1 DEF Frame
    <3>2. QED BY <1>1, <2>2, <3>1 DEF Provenance
  <2>7. rpc' # "idle" => pending'.tok \in toks'[pending'.cmd]
    BY <1>1, <2>2 DEF Provenance, TypeOK, Frame
  <2>8. \A y \in Context : pc'[y] # "idle" => want'[y] \in toks'[cur'[y]]
    <3>1. want'[x] \in toks'[cur'[x]]
      BY <1>1, <2>1 DEF ReadSeed, TypeOK
    <3>2. ASSUME NEW y \in Context \ {x}, pc'[y] # "idle"
          PROVE  want'[y] \in toks'[cur'[y]]
      <4>1. pc[y] = pc'[y] /\ want'[y] = want[y] /\ cur'[y] = cur[y]
        BY <1>1 DEF ReadSeed, TypeOK
      <4>2. QED BY <3>2, <4>1, <2>2 DEF Provenance, TypeOK
    <3>3. QED BY <3>1, <3>2
  <2>9. (\A y \in Context : pc[y] = "check" => Carried(want[y]))'
    <3>1. ASSUME NEW y \in Context, pc'[y] = "check"
          PROVE  pc[y] = "check" /\ want'[y] = want[y]
      BY <1>1, <3>1 DEF ReadSeed, TypeOK
    <3>2. QED BY <3>1, <2>4 DEF Provenance, Carried
  <2>10. QED
    BY <1>1, <2>3, <2>4, <2>5, <2>6, <2>7, <2>8, <2>9 DEF Provenance, IsSeed
<1>2. ASSUME NEW x \in Context, Begin(x) PROVE Provenance'
  <2>1. issued + 1 \in Command /\ cur'[x] = issued + 1
    BY <1>2 DEF Begin, TypeOK, Command
  <2>2. QED BY <1>1, <1>2, <2>1 DEF Begin, TypeOK
<1>3. ASSUME NEW x \in Context, Resend(x) PROVE Provenance'
  BY <1>1, <1>3 DEF Resend, TypeOK
<1>4. ASSUME NEW x \in Context, SeeToken(x) PROVE Provenance'
  <2>1. Carried(want[x])
    <3>1. want[x] \in toks[cur[x]] /\ cur[x] \in Command
      BY <1>4 DEF SeeToken, Provenance, TypeOK
    <3>2. IsSeed(tokenCell) /\ tokenCell \in Int
      BY <1>4, <3>1 DEF SeeToken, Provenance, TypeOK
    <3>3. QED BY <1>4, <3>2, SeedIsNoBootToken DEF SeeToken, Provenance
  <2>2. \A y \in Context : pc'[y] = "check" => Carried(want[y])
    BY <1>4, <2>1 DEF SeeToken, Provenance, TypeOK
  <2>3. \A y \in Context : pc'[y] # "idle" => pc[y] # "idle"
    BY <1>4 DEF SeeToken, TypeOK
  <2>4. QED
    BY <1>4, <2>2, <2>3, HistoryKept DEF SeeToken, Provenance, IsSeed
<1>5. ASSUME NEW x \in Context, Accept(x) PROVE Provenance'
  <2>1. cur[x] \in Command /\ want[x] \in toks[cur[x]]
    BY <1>5 DEF Accept, Provenance, TypeOK
  <2>2. PICK d \in Command : want[x] \in toks[d] /\ executed[d] > 0
    BY <1>5 DEF Accept, Provenance, Carried
  <2>3. AnsweredWasExecuted'
    <3> SUFFICES ASSUME NEW c \in Command, outcome'[c] = "ok"
                 PROVE  executed[c] > 0
                        \/ \E e \in Command \ {c} : ShareToken(c, e)
      BY <1>5 DEF Accept, AnsweredWasExecuted, ShareToken
    <3>1. CASE c = cur[x]
      BY <3>1, <2>1, <2>2 DEF ShareToken
    <3>2. CASE c # cur[x]
      BY <3>2, <1>5 DEF Accept, TypeOK, Provenance, AnsweredWasExecuted
    <3>3. QED BY <3>1, <3>2
  <2>4. \A y \in Context : pc'[y] # "idle" => pc'[y] = pc[y]
    BY <1>5 DEF Accept, TypeOK
  <2>5. \A t : Carried(t) <=> Carried(t)'
    BY <1>5 DEF Accept, Carried
  <2>6. QED
    BY <1>5, <2>3, <2>4, <2>5 DEF Accept, Provenance, IsSeed
<1>6. ASSUME NEW x \in Context, NotReady(x) \/ GiveUp(x) PROVE Provenance'
  <2>1. \A y \in Context : /\ pc'[y] # "idle" => pc[y] # "idle"
                           /\ pc'[y] = "check" => pc[y] = "check"
    BY <1>6, SMTT(30) DEF NotReady, GiveUp, TypeOK
  <2>2. \A c \in Command : outcome'[c] = "ok" => outcome[c] = "ok"
    BY <1>6 DEF NotReady, GiveUp, TypeOK
  <2>3. UNCHANGED <<toks, cur, want, executed, ring, pending, rpc, cells>>
    BY <1>6 DEF NotReady, GiveUp
  <2>4. QED BY <2>1, <2>2, <2>3, HistoryKept DEF Provenance, IsSeed
<1>7. CASE HeaderOut
  <2>1. \A y \in Context : /\ pc'[y] # "idle" => pc[y] # "idle"
                           /\ pc'[y] = "check" => pc[y] = "check"
    BY <1>7 DEF HeaderOut, TypeOK
  <2>2. QED BY <1>7, <2>1, HistoryKept DEF HeaderOut, Provenance, IsSeed
<1>8. ASSUME NEW x \in Context, pc[x] # "idle",
             pc' = [pc EXCEPT ![x] = "wait"],
             ring' = Append(ring, FrameOf(x)) \/ ring' = ring,
             UNCHANGED <<issued, outcome, toks, cur, want, left, executed,
                         lastRun, pending, rpc, cells, boots>>
      PROVE  Provenance'
  <2>1. \A y \in Context : /\ pc'[y] # "idle" => pc[y] # "idle"
                           /\ pc'[y] = "check" => pc[y] = "check"
    BY <1>8 DEF TypeOK
  <2>2. FrameOf(x).tok \in toks[FrameOf(x).cmd]
    BY <1>8 DEF FrameOf, Provenance
  <2>3. \A i \in 1..Len(ring') : ring'[i].tok \in toks'[ring'[i].cmd]
    <3>1. CASE ring' = ring
      BY <1>8, <3>1 DEF Provenance
    <3>2. CASE ring' = Append(ring, FrameOf(x))
      <4>1. \A i \in 1..Len(ring') :
               \/ i \in 1..Len(ring) /\ ring'[i] = ring[i]
               \/ ring'[i] = FrameOf(x)
        <5>1. ring \in Seq(Frame) /\ FrameOf(x) \in Frame
          BY <1>8 DEF TypeOK, FrameOf, Frame
        <5>2. QED BY <3>2, <5>1, AppendProperties
      <4>2. QED BY <4>1, <2>2, <1>8 DEF Provenance
    <3>3. QED BY <1>8, <3>1, <3>2
  <2>4. QED BY <1>8, <2>1, <2>3, HistoryKept DEF Provenance, IsSeed
<1>9. CASE ChecksumOut
  BY <1>8, <1>9 DEF ChecksumOut, Context
<1>10. CASE HookFrameOut
  BY <1>8, <1>10 DEF HookFrameOut, Context
<1>11. CASE Poll
  <2>1. pending'.tok \in toks'[pending'.cmd]
    <3>1. Head(ring) = ring[1] /\ 1 \in 1..Len(ring)
      BY <1>11 DEF Poll, TypeOK
    <3>2. QED BY <1>11, <3>1 DEF Poll, Provenance
  <2>2. \A i \in 1..Len(ring') : ring'[i].tok \in toks'[ring'[i].cmd]
    <3>1. \A i \in 1..Len(ring') : \E j \in 1..Len(ring) : ring'[i] = ring[j]
      <4>1. ring \in Seq(Frame)
        BY DEF TypeOK
      <4>2. PICK k \in 1..Len(ring) : ring' = SubSeq(ring, k + 1, Len(ring))
        BY <1>11 DEF Poll
      <4>3. QED BY <4>1, <4>2, DrainedRing
    <3>2. QED BY <1>11, <3>1 DEF Poll, Provenance
  <2>3. QED BY <1>11, <2>1, <2>2, HistoryKept DEF Poll, Provenance, IsSeed
<1>12. CASE Overrun
  BY <1>12, HistoryKept DEF Overrun, Provenance, IsSeed
<1>13. CASE Dispatch
  <2>1. pending.cmd \in Command
    BY <1>13 DEF Dispatch, TypeOK, Frame
  <2>2. executed' = [executed EXCEPT ![pending.cmd] = @ + 1]
    BY <1>13 DEF Dispatch
  <2>3. \A c \in Command : toks[c] \subseteq toks'[c]
                           /\ executed[c] <= executed'[c]
    BY <1>13, <2>2 DEF Dispatch, TypeOK
  <2>4. \A t : Carried(t) => Carried(t)'
    BY <2>3, CarriedGrows
  <2>5. AnsweredWasExecuted'
    BY <1>13, <2>3, AnsweredGrows DEF Dispatch, Provenance
  <2>6. executed'[pending'.cmd] > 0
    BY <1>13, <2>1, <2>2 DEF Dispatch, TypeOK
  <2>7. QED BY <1>13, <2>4, <2>5, <2>6 DEF Dispatch, Provenance, IsSeed
<1>14. CASE Publish
  <2>1. Carried(tokenCell')
    BY <1>14 DEF Publish, Provenance, Carried, TypeOK, Frame
  <2>2. IsSeed(seedCell)'
    BY <1>14 DEF Publish, TypeOK, IsSeed
  <2>3. QED
    BY <1>14, <2>1, <2>2, HistoryKept DEF Publish, Provenance
<1>15. CASE Reboot
  <2>1. boots + 1 \in Nat
    BY DEF TypeOK
  <2>2. \E b \in Nat : tokenCell' = BootToken(b)
    BY <1>15, <2>1 DEF Reboot
  <2>3. IsSeed(seedCell)'
    BY <1>15, <2>1 DEF Reboot, IsSeed
  <2>4. QED
    BY <1>15, <2>2, <2>3, HistoryKept DEF Reboot, Provenance
<1>16. CASE UNCHANGED vars
  BY <1>16, HistoryKept DEF vars, Provenance, IsSeed
<1>17. QED
  BY <1>2, <1>3, <1>4, <1>5, <1>6, <1>7, <1>9, <1>10, <1>11, <1>12, <1>13,
     <1>14, <1>15, <1>16 DEF Next, SendSync, ChandlerLoop

(* Whatever is lost, resent, dropped, preempted or rebooted, a command that *)
(* send_sync reports as answered has been executed, unless another command  *)
(* carried the same token.                                                  *)
THEOREM AnsweredExecuted == Spec => []AnsweredWasExecuted
<1>1. Provenance => AnsweredWasExecuted
  BY DEF Provenance
<1>2. QED
  BY TypeCorrect, InitProvenance, NextProvenance, <1>1, PTL DEF Spec

----------------------------------------------------------------------------
(* With the foreground alone and no reboot, tokens only grow.              *)

Freshness ==
    /\ pc["isr"] = "idle"
    /\ boots = 0 =>
        /\ seedCell <= count
        /\ \A c \in Command : \A t \in toks[c] : t <= seedCell
        /\ \A c \in Command : outcome[c] = "ok" =>
               \A t \in toks[c] : t < seedCell
        /\ \A c \in Command : outcome[c] = "open" =>
               c = cur["fg"] /\ pc["fg"] # "idle"
        /\ \A c \in Command : outcome[c] = "unsent" <=> c > issued
        /\ \A c \in Command : c > issued => toks[c] = {}
        /\ pc["fg"] # "idle" =>
               /\ cur["fg"] = issued /\ outcome[issued] = "open"
               /\ \A t \in toks[issued] : t <= want["fg"]
               /\ want["fg"] <= seedCell
        /\ TokenReuseNeedsGiveUp

\* Before the first command no token has been carried, so Freshness holds.
LEMMA InitFreshness == Init => Freshness
BY DEF Init, Freshness, TokenReuseNeedsGiveUp, ShareToken, Context, Command,
   BootSeed

\* An attempt of the newest command c draws the seed as its token.
LEMMA DrawKeepsReuse ==
    ASSUME TypeOK, Freshness, boots = 0, NEW c \in Command,
           c > issued \/ (c = issued /\ pc["fg"] # "idle"),
           pc["fg"] = "idle" \/ cur["fg"] = c,
           toks' = [toks EXCEPT ![c] = @ \cup {seedCell}],
           \A d \in Command \ {c} : outcome'[d] = outcome[d],
           \A d \in Command : d > c => toks[d] = {}
    PROVE  TokenReuseNeedsGiveUp'
<1> SUFFICES ASSUME NEW a \in Command, NEW b \in Command, a < b,
                    ShareToken(a, b)'
             PROVE  outcome'[a] = "gaveUp"
  BY DEF TokenReuseNeedsGiveUp
<1>1. a \in Int /\ b \in Int /\ c \in Int /\ issued \in Int
  BY DEF Command, TypeOK
<1>2. a # c /\ b <= c
  BY <1>1 DEF ShareToken, TypeOK
<1>3. CASE b # c
  BY <1>2, <1>3 DEF Freshness, TokenReuseNeedsGiveUp, ShareToken, TypeOK
<1>4. CASE b = c
  <2>1. PICK t \in toks[a] : t \in toks[c] \/ t = seedCell
    BY <1>2, <1>4 DEF ShareToken, TypeOK
  <2>2. CASE t \in toks[c]
    BY <1>2, <1>4, <2>1, <2>2
       DEF Freshness, TokenReuseNeedsGiveUp, ShareToken
  <2>3. CASE t = seedCell
    <3>1. seedCell \in Int
      BY DEF TypeOK
    <3>2. outcome[a] # "ok"
      BY <2>1, <2>3, <3>1 DEF Freshness
    <3>3. outcome[a] # "open"
      BY <1>2 DEF Freshness
    <3>4. outcome[a] # "unsent"
      BY <1>1, <2>1 DEF Freshness
    <3>5. outcome[a] = "gaveUp"
      BY <3>2, <3>3, <3>4 DEF TypeOK
    <3>6. QED BY <3>5, <1>2
  <2>4. QED BY <2>1, <2>2, <2>3
<1>5. QED BY <1>3, <1>4

\* Every step keeps Freshness: the cases that matter are the two that draw a
\* token, Publish and Accept.
LEMMA NextFreshness ==
    ASSUME HookInstalled = FALSE
    PROVE  TypeOK /\ TypeOK' /\ Freshness /\ [Next]_vars => Freshness'
<1> SUFFICES ASSUME TypeOK, TypeOK', Freshness, [Next]_vars
             PROVE  Freshness'
  OBVIOUS
<1> USE DEF stVars, cells
<1>0. issued \in Int /\ seedCell \in Int /\ count \in Int /\ "fg" \in Context
      /\ "isr" \in Context /\ \A c \in Command : c \in Int
  BY DEF TypeOK, Context, Command
<1>1. ASSUME NEW x \in Context, Begin(x) PROVE Freshness'
  <2>1. x = "fg" /\ issued + 1 \in Command /\ pc["fg"] = "idle"
    BY <1>1 DEF Begin, Context, Command, TypeOK
  <2>2. pc'["isr"] = "idle"
    BY <1>1, <2>1, <1>0 DEF Begin, ReadSeed, Freshness, TypeOK
  <2>3. CASE boots = 0
    <3>1. \A c \in Command \ {issued + 1} :
             outcome'[c] = outcome[c] /\ toks'[c] = toks[c]
      BY <1>1, <2>1 DEF Begin, ReadSeed, TypeOK
    <3>2. toks[issued + 1] = {} /\ toks'[issued + 1] = {seedCell}
          /\ outcome'[issued + 1] = "open"
      BY <1>0, <1>1, <2>1, <2>3 DEF Begin, ReadSeed, TypeOK, Freshness
    <3>3. \A c \in Command : c > issued + 1 => toks[c] = {}
      BY <1>0, <2>3 DEF Freshness
    <3>4. TokenReuseNeedsGiveUp'
      <4>1. toks' = [toks EXCEPT ![issued + 1] = @ \cup {seedCell}]
        BY <1>1 DEF Begin, ReadSeed
      <4>2. issued + 1 > issued
        BY <1>0
      <4>3. QED
        BY <2>1, <2>3, <3>1, <3>3, <4>1, <4>2, DrawKeepsReuse
    <3>5. /\ cur'["fg"] = issued + 1 /\ want'["fg"] = seedCell
          /\ pc'["fg"] = "seeded" /\ issued' = issued + 1
          /\ UNCHANGED <<seedCell, count, boots>>
      BY <1>0, <1>1, <2>1 DEF Begin, ReadSeed, TypeOK
    <3>6. \A c \in Command : \A t \in toks'[c] : t <= seedCell
      BY <1>0, <2>3, <3>1, <3>2 DEF Freshness
    <3>7. \A c \in Command : outcome'[c] = "ok" =>
             \A t \in toks'[c] : t < seedCell
      BY <2>3, <3>1, <3>2 DEF Freshness
    <3>8. \A c \in Command : outcome'[c] = "open" => c = issued + 1
      BY <2>1, <2>3, <3>1 DEF Freshness
    <3>9. \A c \in Command : /\ outcome'[c] = "unsent" <=> c > issued + 1
                             /\ c > issued + 1 => toks'[c] = {}
      BY <1>0, <2>3, <3>1, <3>2, <3>3 DEF Freshness
    <3>10. QED
      BY <1>0, <2>2, <2>3, <3>2, <3>4, <3>5, <3>6, <3>7, <3>8, <3>9
         DEF Freshness
  <2>4. CASE boots # 0
    BY <1>1, <2>2, <2>4 DEF Begin, Freshness
  <2>5. QED BY <2>3, <2>4
<1>2. ASSUME NEW x \in Context, Resend(x) PROVE Freshness'
  <2>1. x = "fg"
    BY <1>2 DEF Resend, Context, Freshness
  <2>2. pc'["isr"] = "idle"
    BY <1>0, <1>2, <2>1 DEF Resend, ReadSeed, Freshness, TypeOK
  <2>3. CASE boots = 0
    <3>1. cur["fg"] = issued /\ pc["fg"] = "wait" /\ issued \in Command
      BY <1>0, <1>2, <2>1, <2>3 DEF Resend, Freshness, TypeOK
    <3>2. toks' = [toks EXCEPT ![issued] = @ \cup {seedCell}]
      BY <1>2, <2>1, <3>1 DEF Resend, ReadSeed
    <3>3. outcome[issued] = "open"
      BY <2>3, <3>1 DEF Freshness
    <3>4. \A c \in Command \ {issued} : toks'[c] = toks[c]
      BY <3>1, <3>2 DEF TypeOK
    <3>5. /\ want'["fg"] = seedCell /\ pc'["fg"] = "seeded"
          /\ toks'[issued] = toks[issued] \cup {seedCell}
          /\ UNCHANGED <<outcome, issued, cur, seedCell, count, boots>>
      BY <1>0, <1>2, <2>1, <3>1, <3>2 DEF Resend, ReadSeed, TypeOK
    <3>6. TokenReuseNeedsGiveUp'
      <4>1. \A d \in Command : d > issued => toks[d] = {}
        BY <2>3 DEF Freshness
      <4>2. QED
        BY <1>0, <2>3, <3>1, <3>2, <3>5, <4>1, DrawKeepsReuse
    <3>7. \A c \in Command : \A t \in toks'[c] : t <= seedCell
      BY <1>0, <2>3, <3>4, <3>5 DEF Freshness
    <3>8. \A c \in Command : outcome'[c] = "ok" =>
             \A t \in toks'[c] : t < seedCell
      BY <2>3, <3>3, <3>4, <3>5 DEF Freshness
    <3>9. \A c \in Command : c > issued => toks'[c] = {}
      BY <1>0, <2>3, <3>1, <3>4 DEF Freshness
    <3>10. QED
      BY <1>0, <2>2, <2>3, <3>1, <3>3, <3>5, <3>6, <3>7, <3>8, <3>9
         DEF Freshness
  <2>4. CASE boots # 0
    BY <1>2, <2>2, <2>4 DEF Resend, Freshness
  <2>5. QED BY <2>3, <2>4
<1>3. ASSUME NEW x \in Context, Accept(x) PROVE Freshness'
  <2>1. x = "fg"
    BY <1>3 DEF Accept, Context, Freshness
  <2>2. pc'["isr"] = "idle"
    BY <1>0, <1>3, <2>1 DEF Accept, Freshness, TypeOK
  <2>3. CASE boots = 0
    <3>1. cur["fg"] = issued /\ issued \in Command /\ outcome[issued] = "open"
      BY <1>0, <1>3, <2>1, <2>3 DEF Accept, Freshness, TypeOK
    <3>2. outcome' = [outcome EXCEPT ![issued] = "ok"] /\ pc'["fg"] = "idle"
          /\ UNCHANGED <<toks, issued, cur, want, seedCell, count, boots>>
      BY <1>0, <1>3, <2>1, <3>1 DEF Accept, TypeOK
    <3>3. want["fg"] \in Int /\ want["fg"] < seedCell
      BY <1>0, <1>3, <2>1, <2>3 DEF Accept, Freshness, TypeOK
    <3>4. \A t \in toks[issued] : t \in Int /\ t < seedCell
      BY <1>0, <1>3, <2>1, <2>3, <3>1, <3>3 DEF Accept, Freshness, TypeOK
    <3>5. \A c \in Command \ {issued} : outcome'[c] = outcome[c]
      BY <3>1, <3>2 DEF TypeOK
    <3>6. outcome'[issued] = "ok"
      BY <3>1, <3>2 DEF TypeOK
    <3>7. \A c \in Command : outcome'[c] = "ok" =>
             \A t \in toks[c] : t < seedCell
      BY <2>3, <3>4, <3>5 DEF Freshness
    <3>8. \A c \in Command : outcome'[c] # "open"
      BY <2>3, <3>1, <3>5, <3>6 DEF Freshness
    <3>9. \A c \in Command : outcome'[c] = "unsent" <=> c > issued
      BY <1>0, <2>3, <3>1, <3>5, <3>6 DEF Freshness
    <3>10. TokenReuseNeedsGiveUp'
      BY <1>0, <2>3, <3>1, <3>2, <3>5
         DEF Freshness, TokenReuseNeedsGiveUp, ShareToken
    <3>11. QED
      BY <1>0, <2>2, <2>3, <3>2, <3>7, <3>8, <3>9, <3>10 DEF Freshness
  <2>4. CASE boots # 0
    BY <1>3, <2>2, <2>4 DEF Accept, Freshness
  <2>5. QED BY <2>3, <2>4
<1>4. ASSUME NEW x \in Context, GiveUp(x) PROVE Freshness'
  <2>1. x = "fg"
    BY <1>4 DEF GiveUp, Context, Freshness
  <2>2. pc'["isr"] = "idle"
    BY <1>0, <1>4, <2>1 DEF GiveUp, Freshness, TypeOK
  <2>3. CASE boots = 0
    <3>1. cur["fg"] = issued /\ issued \in Command
      BY <1>0, <1>4, <2>1, <2>3 DEF GiveUp, Freshness, TypeOK
    <3>2. /\ \A c \in Command \ {issued} : outcome'[c] = outcome[c]
          /\ outcome'[issued] = "gaveUp"
          /\ pc'["fg"] = "idle"
          /\ UNCHANGED <<toks, issued, cur, want, seedCell, count, boots>>
      BY <1>0, <1>4, <2>1, <3>1 DEF GiveUp, TypeOK
    <3>3. TokenReuseNeedsGiveUp'
      BY <2>3, <3>1, <3>2 DEF Freshness, TokenReuseNeedsGiveUp, ShareToken
    <3>4. \A c \in Command : outcome'[c] # "open"
      BY <2>3, <3>1, <3>2 DEF Freshness
    <3>5. \A c \in Command : outcome'[c] = "unsent" <=> c > issued
      BY <1>0, <2>3, <3>1, <3>2 DEF Freshness
    <3>6. QED
      BY <1>0, <2>2, <2>3, <3>2, <3>3, <3>4, <3>5 DEF Freshness
  <2>4. CASE boots # 0
    BY <1>4, <2>2, <2>4 DEF GiveUp, Freshness
  <2>5. QED BY <2>3, <2>4
<1>5. ASSUME pc'["isr"] = "idle", pc'["fg"] # "idle" <=> pc["fg"] # "idle",
             UNCHANGED <<issued, outcome, toks, cur, want, seedCell, count,
                         boots>>
      PROVE  Freshness'
  BY <1>5 DEF Freshness, TokenReuseNeedsGiveUp, ShareToken
<1>6. ASSUME NEW x \in Context, SeeToken(x) \/ NotReady(x) PROVE Freshness'
  <2>1. x = "fg"
    BY <1>6 DEF SeeToken, NotReady, Context, Freshness
  <2>2. \E to \in {"check", "wait"} : pc' = [pc EXCEPT !["fg"] = to]
    BY <1>6, <2>1 DEF SeeToken, NotReady
  <2>3. pc["fg"] # "idle" /\ pc["isr"] = "idle"
    BY <1>6, <2>1 DEF SeeToken, NotReady, Freshness
  <2>4. pc'["isr"] = "idle" /\ pc'["fg"] # "idle"
    BY <1>0, <2>2, <2>3 DEF TypeOK, Context
  <2>5. UNCHANGED <<issued, outcome, toks, cur, want, seedCell, count, boots>>
    BY <1>6 DEF SeeToken, NotReady, cells
  <2>6. QED BY <1>5, <2>3, <2>4, <2>5
<1>7. CASE HeaderOut \/ ChecksumOut
  <2>1. \E to \in {"sending", "wait"} : pc' = [pc EXCEPT !["fg"] = to]
    BY <1>7 DEF HeaderOut, ChecksumOut
  <2>2. pc["fg"] # "idle" /\ pc["isr"] = "idle"
    BY <1>7 DEF HeaderOut, ChecksumOut, Freshness
  <2>3. pc'["isr"] = "idle" /\ pc'["fg"] # "idle"
    BY <1>0, <2>1, <2>2 DEF TypeOK, Context
  <2>4. UNCHANGED <<issued, outcome, toks, cur, want, seedCell, count, boots>>
    BY <1>7 DEF HeaderOut, ChecksumOut, cells
  <2>5. QED BY <1>5, <2>2, <2>3, <2>4
<1>8. CASE HookFrameOut
  BY <1>8 DEF HookFrameOut, Freshness
<1>9. CASE Poll \/ Overrun \/ Dispatch
  BY <1>5, <1>9 DEF Poll, Overrun, Dispatch, Freshness
<1>10. CASE Publish
  <2>1. CASE boots = 0
    <3>1. \A c \in Command : \A t \in toks[c] : t \in Int /\ t < count + 1
      <4>1. seedCell < count + 1
        BY <1>0, <2>1 DEF Freshness
      <4>2. \A c \in Command : \A t \in toks[c] : t \in Int /\ t <= seedCell
        BY <2>1 DEF Freshness, TypeOK
      <4>3. QED BY <1>0, <4>1, <4>2
    <3>2. pc["fg"] # "idle" => want["fg"] <= count + 1
      <4>1. want["fg"] \in Int
        BY <1>0 DEF TypeOK
      <4>2. pc["fg"] # "idle" => want["fg"] <= seedCell /\ seedCell <= count
        BY <2>1 DEF Freshness
      <4>3. QED BY <1>0, <4>1, <4>2
    <3>3. QED
      BY <1>0, <1>10, <2>1, <3>1, <3>2
         DEF Publish, Freshness, TokenReuseNeedsGiveUp, ShareToken
  <2>2. CASE boots # 0
    BY <1>10, <2>2 DEF Publish, Freshness
  <2>3. QED BY <2>1, <2>2
<1>11. CASE Reboot
  BY <1>11 DEF Reboot, Freshness, TypeOK
<1>12. CASE UNCHANGED vars
  BY <1>5, <1>12 DEF vars, Freshness
<1>13. QED
  BY <1>1, <1>2, <1>3, <1>4, <1>6, <1>7, <1>8, <1>9, <1>10, <1>11, <1>12
     DEF Next, SendSync, ChandlerLoop

(* With the foreground alone, a token serves two commands only if the first *)
(* was given up: an answered command never lends its token to a later one.  *)
THEOREM TokenReuse ==
    ASSUME HookInstalled = FALSE
    PROVE  Spec => []TokenReuseNeedsGiveUp
<1>1. TypeOK /\ Freshness => (boots = 0 => TokenReuseNeedsGiveUp)
  BY DEF Freshness
<1>2. (boots = 0 => TokenReuseNeedsGiveUp) => TokenReuseNeedsGiveUp
  BY DEF TokenReuseNeedsGiveUp
<1>3. QED
  BY TypeCorrect, InitFreshness, NextFreshness, <1>1, <1>2, PTL DEF Spec

----------------------------------------------------------------------------
(* With the foreground alone, commands run in the order of their numbers,  *)
(* however often each of them is sent, and across reboots of the RP.       *)

\* Frames wait in the order of their commands, and none is older than a
\* command that has run.  While the RP is up, the newest that ran ran last.
InTurn ==
    /\ pc["isr"] = "idle"
    /\ pc["fg"] # "idle" => cur["fg"] = issued
    /\ \A i \in 1..Len(ring) :
          /\ ring[i].cmd <= issued
          /\ \A j \in i..Len(ring) : ring[i].cmd <= ring[j].cmd
          /\ \A c \in Command : executed[c] > 0 => c <= ring[i].cmd
    /\ rpc = "pending" =>
          /\ pending.cmd <= issued
          /\ \A i \in 1..Len(ring) : pending.cmd <= ring[i].cmd
          /\ \A c \in Command : executed[c] > 0 => c <= pending.cmd
    /\ \A c \in Command : executed[c] > 0 => c <= issued
    /\ boots = 0 => lastRun <= issued /\ \A c \in Command : executed[c] > 0 => c <= lastRun

TurnTypes ==
    /\ issued \in Nat /\ ring \in Seq(Frame) /\ Len(ring) \in Nat
    /\ \A i \in 1..Len(ring) : ring[i] \in Frame /\ ring[i].cmd \in Command
    /\ pc \in [Context -> {"idle", "seeded", "sending", "wait", "check"}]
    /\ cur \in [Context -> 0..MaxCmds]
    /\ Command \subseteq Nat

\* What the order of commands needs of the types.
LEMMA TypesOfTurn == TypeOK => TurnTypes
<1> SUFFICES ASSUME TypeOK PROVE TurnTypes
  OBVIOUS
<1>1. ring \in Seq(Frame) /\ issued \in 0..MaxCmds
  BY DEF TypeOK
<1>2. \A i \in 1..Len(ring) : ring[i] \in Frame
  BY <1>1, ElementOfSeq
<1>3. /\ pc \in [Context -> {"idle", "seeded", "sending", "wait", "check"}]
      /\ cur \in [Context -> 0..MaxCmds]
  BY DEF TypeOK
<1>4. QED BY <1>1, <1>2, <1>3 DEF TurnTypes, Frame, Command

\* Before the first command nothing waits and nothing has run.
LEMMA InitInTurn == Init => InTurn
BY DEF Init, InTurn, Context, Command

\* Steps of the ST that leave the ring and the RP alone.
LEMMA TurnKept ==
    ASSUME TypeOK, TurnTypes, InTurn, pc'["isr"] = "idle",
           pc'["fg"] # "idle" => cur'["fg"] = issued',
           issued' \in Nat, issued' >= issued,
           UNCHANGED <<ring, executed, lastRun, boots>>,
           rpc' = "pending" => rpc = "pending" /\ pending' = pending
    PROVE  InTurn'
<1>0. pending.cmd \in Int /\ lastRun \in Int
  BY DEF TypeOK, Frame, NoFrame, Command
<1>1. \A i \in 1..Len(ring) : ring[i].cmd <= issued'
  <2> SUFFICES ASSUME NEW i \in 1..Len(ring) PROVE ring[i].cmd <= issued'
    OBVIOUS
  <2>1. ring[i].cmd \in Nat /\ ring[i].cmd <= issued /\ issued \in Nat
    BY DEF InTurn, TurnTypes
  <2>2. QED BY <2>1
<1>2. rpc' = "pending" => pending'.cmd <= issued'
  BY <1>0 DEF InTurn, TurnTypes
<1>3. \A c \in Command : executed[c] > 0 => c <= issued'
  <2> SUFFICES ASSUME NEW c \in Command, executed[c] > 0 PROVE c <= issued'
    OBVIOUS
  <2>1. c \in Nat /\ c <= issued /\ issued \in Nat
    BY DEF InTurn, TurnTypes
  <2>2. QED BY <2>1
<1>4. boots = 0 => lastRun <= issued'
  BY <1>0 DEF InTurn, TurnTypes
<1>5. QED BY <1>1, <1>2, <1>3, <1>4 DEF InTurn

\* A frame of the newest command joins the ring behind all others.
LEMMA TurnAppended ==
    ASSUME TypeOK, TurnTypes, InTurn, NEW f \in Frame, f.cmd = issued,
           ring' = Append(ring, f),
           pc'["isr"] = "idle", pc'["fg"] # "idle" => cur'["fg"] = issued,
           UNCHANGED <<issued, executed, lastRun, boots, rpc, pending>>
    PROVE  InTurn'
<1> DEFINE N == Len(ring)
<1>1. N \in Nat /\ issued \in Nat
  BY DEF TurnTypes
<1>2. /\ Len(ring') = N + 1 /\ ring'[N + 1].cmd = issued
      /\ \A i \in 1..N : ring'[i].cmd = ring[i].cmd
  BY AppendProperties DEF TurnTypes
<1>3. \A i \in 1..N :
         /\ ring[i].cmd \in Nat /\ ring[i].cmd <= issued
         /\ \A j \in i..N : ring[i].cmd <= ring[j].cmd
         /\ \A c \in Command : executed[c] > 0 => c <= ring[i].cmd
  BY DEF TurnTypes, InTurn
<1> HIDE DEF N
<1>4. \A i \in 1..(N + 1) : i \in 1..N \/ i = N + 1
  BY <1>1
<1>5. \A i \in 1..(N + 1) : ring'[i].cmd <= issued
  BY <1>1, <1>2, <1>3, <1>4
<1>6. \A i \in 1..(N + 1) : \A j \in i..(N + 1) : ring'[i].cmd <= ring'[j].cmd
  <2> SUFFICES ASSUME NEW i \in 1..(N + 1), NEW j \in i..(N + 1)
               PROVE  ring'[i].cmd <= ring'[j].cmd
    OBVIOUS
  <2>1. CASE j = N + 1
    BY <1>2, <1>5, <2>1
  <2>2. CASE j # N + 1
    <3>1. i \in 1..N /\ j \in i..N /\ j \in 1..N
      BY <1>1, <2>2
    <3>2. QED BY <1>2, <1>3, <3>1
  <2>3. QED BY <2>1, <2>2
<1>7. \A i \in 1..(N + 1) : \A c \in Command : executed[c] > 0 => c <= ring'[i].cmd
  BY <1>2, <1>3, <1>4 DEF InTurn
<1>8. rpc = "pending" => \A i \in 1..(N + 1) : pending.cmd <= ring'[i].cmd
  <2>1. rpc = "pending" =>
           pending.cmd <= issued /\ \A i \in 1..N : pending.cmd <= ring[i].cmd
    BY DEF InTurn, N
  <2>2. QED BY <1>2, <1>4, <2>1
<1>9. QED BY <1>2, <1>5, <1>6, <1>7, <1>8 DEF InTurn

\* The oldest frame is taken, and a run of frames behind it is dropped.
LEMMA TurnPolled ==
    ASSUME TypeOK, TurnTypes, InTurn, Poll
    PROVE  InTurn'
<1>1. PICK k \in 1..Len(ring) : ring' = SubSeq(ring, k + 1, Len(ring))
  BY DEF Poll
<1>2. /\ pending' = ring[1] /\ rpc' = "pending"
      /\ UNCHANGED <<pc, cur, issued, executed, lastRun, boots>>
  BY DEF Poll, TurnTypes, stVars
<1> DEFINE N == Len(ring)
<1>3. N \in Nat /\ k \in 1..N /\ 1 \in 1..N
  BY DEF TurnTypes
<1>4. Len(ring') = N - k /\ \A i \in 1..Len(ring') : ring'[i] = ring[i + k]
  BY <1>1 DEF TurnTypes
<1>5. \A i \in 1..N :
         /\ ring[i].cmd <= issued
         /\ \A j \in i..N : ring[i].cmd <= ring[j].cmd
         /\ \A c \in Command : executed[c] > 0 => c <= ring[i].cmd
  BY DEF TurnTypes, InTurn
<1> HIDE DEF N
<1>6. \A i \in 1..Len(ring') : i + k \in 1..N
  BY <1>3, <1>4
<1>7. \A i \in 1..Len(ring') : \A j \in i..Len(ring') : ring'[i].cmd <= ring'[j].cmd
  <2> SUFFICES ASSUME NEW i \in 1..Len(ring'), NEW j \in i..Len(ring')
               PROVE  ring'[i].cmd <= ring'[j].cmd
    OBVIOUS
  <2>1. j \in 1..Len(ring') /\ i + k \in 1..N /\ j + k \in (i + k)..N
    BY <1>3, <1>4
  <2>2. QED BY <1>4, <1>5, <2>1
<1>8. \A i \in 1..N : ring[1].cmd <= ring[i].cmd
  BY <1>3, <1>5
<1>9. \A i \in 1..Len(ring') :
         /\ ring'[i].cmd <= issued /\ ring[1].cmd <= ring'[i].cmd
         /\ \A c \in Command : executed[c] > 0 => c <= ring'[i].cmd
  BY <1>4, <1>5, <1>6, <1>8
<1>10. /\ ring[1].cmd <= issued
       /\ \A c \in Command : executed[c] > 0 => c <= ring[1].cmd
  BY <1>3, <1>5
<1>11. QED BY <1>2, <1>7, <1>9, <1>10 DEF InTurn

\* A command runs: none that ran before is newer.
LEMMA TurnRun ==
    ASSUME TypeOK, TurnTypes, InTurn, Dispatch
    PROVE  InTurn'
<1> DEFINE p == pending.cmd
<1>1. p \in Command /\ p \in Nat
  BY DEF Dispatch, TypeOK, Frame, TurnTypes
<1>2. executed \in [Command -> Nat]
  BY DEF TypeOK
<1>3. /\ rpc = "pending" /\ rpc' = "run" /\ lastRun' = p
      /\ executed' = [executed EXCEPT ![p] = @ + 1]
      /\ UNCHANGED <<pc, cur, issued, ring, boots>>
  BY DEF Dispatch, stVars
<1>4. \A c \in Command : executed'[c] > 0 => executed[c] > 0 \/ c = p
  BY <1>1, <1>2, <1>3
<1>5. /\ p <= issued /\ \A i \in 1..Len(ring) : p <= ring[i].cmd
      /\ \A c \in Command : executed[c] > 0 => c <= p
  BY <1>3 DEF InTurn
<1>6. p <= p
  BY <1>1
<1> HIDE DEF p
<1>7. \A c \in Command : executed'[c] > 0 =>
         c <= p /\ c <= issued /\ \A i \in 1..Len(ring) : c <= ring[i].cmd
  BY <1>4, <1>5, <1>6 DEF InTurn
<1>8. QED BY <1>3, <1>5, <1>7 DEF InTurn

\* One case for each step; the hook never takes one.
LEMMA NextInTurn ==
    ASSUME HookInstalled = FALSE
    PROVE  TypeOK /\ TypeOK' /\ InTurn /\ [Next]_vars => InTurn'
<1> SUFFICES ASSUME TypeOK, TypeOK', InTurn, [Next]_vars PROVE InTurn'
  OBVIOUS
<1> USE DEF stVars, cells
<1>0. TurnTypes
  BY TypesOfTurn
<1>1. ASSUME NEW x \in Context, Begin(x) PROVE InTurn'
  <2>1. x = "fg"
    BY <1>1 DEF Begin, Context
  <2>2. /\ pc'["isr"] = "idle" /\ issued' = issued + 1 /\ cur'["fg"] = issued + 1
        /\ UNCHANGED <<ring, executed, lastRun, boots, rpc, pending>>
    BY <1>0, <1>1, <2>1 DEF Begin, ReadSeed, Context, InTurn, TurnTypes
  <2>3. issued' \in Nat /\ issued' >= issued
    BY <1>0, <2>2 DEF TurnTypes
  <2>4. QED BY <1>0, <2>2, <2>3, TurnKept
<1>2. ASSUME pc'["isr"] = "idle", pc'["fg"] # "idle" => pc["fg"] # "idle",
             UNCHANGED <<issued, cur, ring, executed, lastRun, boots>>,
             rpc' = "pending" => rpc = "pending" /\ pending' = pending
      PROVE  InTurn'
  <2>1. issued' \in Nat /\ issued' >= issued /\ (pc'["fg"] # "idle" => cur'["fg"] = issued')
    BY <1>0, <1>2 DEF TurnTypes, InTurn
  <2>2. QED BY <1>0, <1>2, <2>1, TurnKept
<1>3. ASSUME NEW x \in Context,
             SeeToken(x) \/ Accept(x) \/ NotReady(x) \/ Resend(x) \/ GiveUp(x)
      PROVE  InTurn'
  <2>1. pc["isr"] = "idle"
    BY DEF InTurn
  <2>2. x = "fg"
    BY <1>3, <2>1 DEF SeeToken, Accept, NotReady, Resend, GiveUp, Context
  <2>3. pc["fg"] # "idle" /\ pc'["isr"] = "idle"
    BY <1>0, <1>3, <2>1, <2>2
    DEF SeeToken, Accept, NotReady, Resend, GiveUp, ReadSeed, Context, TurnTypes
  <2>4. QED
    BY <1>2, <1>3, <2>3 DEF SeeToken, Accept, NotReady, Resend, GiveUp, ReadSeed
<1>4. CASE HeaderOut \/ Publish \/ UNCHANGED vars
  BY <1>0, <1>2, <1>4 DEF HeaderOut, Publish, vars, InTurn, TurnTypes, Context
<1>5. CASE ChecksumOut
  <2>1. /\ pc["fg"] # "idle" /\ pc'["isr"] = "idle" /\ cur["fg"] = issued
        /\ cur["fg"] \in Command
        /\ UNCHANGED <<issued, cur, executed, lastRun, boots, rpc, pending>>
    BY <1>0, <1>5 DEF ChecksumOut, InTurn, TurnTypes, TypeOK, Context
  <2>2. CASE ring' = ring
    BY <1>2, <2>1, <2>2
  <2>3. CASE ring' = Append(ring, FrameOf("fg"))
    <3>1. FrameOf("fg") \in Frame /\ FrameOf("fg").cmd = issued
      BY <2>1 DEF FrameOf, Frame, TypeOK, Context
    <3>2. QED BY <1>0, <2>1, <2>3, <3>1, TurnAppended
  <2>4. QED BY <1>5, <2>2, <2>3 DEF ChecksumOut
<1>6. CASE HookFrameOut
  BY <1>6 DEF HookFrameOut, InTurn
<1>7. CASE Poll
  BY <1>0, <1>7, TurnPolled
<1>8. CASE Overrun
  <2>1. ring' = <<>> /\ UNCHANGED <<pc, cur, issued, executed, lastRun, boots, rpc, pending>>
    BY <1>8 DEF Overrun
  <2>2. Len(ring') = 0 /\ 1..0 = {}
    BY <2>1
  <2>3. QED BY <2>1, <2>2 DEF InTurn
<1>9. CASE Dispatch
  BY <1>0, <1>9, TurnRun
<1>10. CASE Reboot
  <2>1. /\ ring' = <<>> /\ rpc' = "idle" /\ boots' # 0
        /\ UNCHANGED <<pc, cur, issued, executed>>
    BY <1>10 DEF Reboot, TypeOK
  <2>2. Len(ring') = 0 /\ 1..0 = {}
    BY <2>1
  <2>3. QED BY <2>1, <2>2 DEF InTurn
<1>11. QED
  BY <1>1, <1>3, <1>4, <1>5, <1>6, <1>7, <1>8, <1>9, <1>10
     DEF Next, SendSync, ChandlerLoop

(* With the foreground alone, and for any number of reboots: once a command *)
(* has run no older one runs again, so what calls do to the card is done in *)
(* the order of the calls.                                                  *)
THEOREM NoLateReplayHolds ==
    ASSUME HookInstalled = FALSE
    PROVE  Spec => NoLateReplay
<1>1. TypeOK /\ InTurn /\ [Next]_vars =>
         [\A c, d \in Command : c < d /\ executed[d] > 0 => executed'[c] = executed[c]]_vars
  <2> SUFFICES ASSUME TypeOK, InTurn, Next,
                      NEW c \in Command, NEW d \in Command, c < d, executed[d] > 0
               PROVE  executed'[c] = executed[c]
    BY DEF vars, stVars, cells
  <2>1. CASE Dispatch
    <3>1. d <= pending.cmd /\ pending.cmd \in Command
      BY <2>1 DEF Dispatch, InTurn, TypeOK, Frame
    <3>2. c # pending.cmd
      BY <3>1 DEF Command
    <3>3. QED BY <2>1, <3>2 DEF Dispatch, TypeOK
  <2>2. CASE ~Dispatch
    BY <2>2 DEF Next, SendSync, ChandlerLoop, Begin, SeeToken, Accept, NotReady, Resend, GiveUp,
                HeaderOut, ChecksumOut, HookFrameOut, Poll, Overrun, Publish, Reboot
  <2>3. QED BY <2>1, <2>2
<1>2. QED
  BY TypeCorrect, InitInTurn, NextInTurn, <1>1, PTL DEF Spec, NoLateReplay

(* With the foreground alone: the results that stand in the shared cells    *)
(* when an answer is accepted are those of the command it was accepted for, *)
(* if the RP stayed up and the token was not shared.                        *)
THEOREM AnswerIsMineHolds ==
    ASSUME HookInstalled = FALSE
    PROVE  Spec => AnswerIsMine
<1> DEFINE A ==
      \A c \in Command :
          /\ boots = 0
          /\ outcome[c] = "open" /\ outcome'[c] = "ok"
          /\ \A d \in Command \ {c} : ~ShareToken(c, d)
          => lastRun = c
<1>1. TypeOK /\ InTurn /\ Provenance /\ [Next]_vars => [A]_vars
  <2> SUFFICES ASSUME TypeOK, InTurn, Provenance, Next, NEW c \in Command,
                      boots = 0, outcome[c] = "open", outcome'[c] = "ok",
                      \A d \in Command \ {c} : ~ShareToken(c, d)
               PROVE  lastRun = c
    BY DEF vars, stVars, cells
  <2>1. PICK x \in Context : Accept(x) /\ c = cur[x]
    <3>1. outcome' # outcome
      OBVIOUS
    <3>2. \E x \in Context : Begin(x) \/ Accept(x) \/ GiveUp(x)
      BY <3>1 DEF Next, SendSync, ChandlerLoop, SeeToken, NotReady, Resend,
                  HeaderOut, ChecksumOut, HookFrameOut, Poll, Overrun, Dispatch, Publish, Reboot,
                  stVars
    <3>3. outcome \in [Command -> {"unsent", "open", "ok", "gaveUp"}]
      BY DEF TypeOK
    <3>4. QED BY <3>2, <3>3 DEF Begin, Accept, GiveUp
  <2>2. x = "fg" /\ c = issued
    BY <2>1 DEF Accept, InTurn, Context
  <2>3. Carried(want[x]) /\ want[x] \in toks[c]
    BY <2>1 DEF Accept, Provenance
  <2>4. executed[c] > 0
    <3>1. PICK d \in Command : want[x] \in toks[d] /\ executed[d] > 0
      BY <2>3 DEF Carried
    <3>2. d = c
      BY <2>3, <3>1 DEF ShareToken
    <3>3. QED BY <3>1, <3>2
  <2>5. c <= lastRun /\ lastRun <= c
    BY <2>2, <2>4 DEF InTurn
  <2>6. QED BY <2>5 DEF TypeOK, Command
<1>2. QED
  BY TypeCorrect, InitInTurn, NextInTurn, InitProvenance, NextProvenance, <1>1, PTL
  DEF Spec, AnswerIsMine

----------------------------------------------------------------------------
(* With the foreground alone, and across reboots of the RP: what can make  *)
(* an answer false.  A reboot starts the count again, so a token of an     *)
(* earlier boot comes back; the only frame with such a token that reaches  *)
(* the new boot is that of the attempt the reboot broke into, and it is    *)
(* the first one there.                                                    *)

Busy == pc["fg"] # "idle"

\* the command in progress, or one that was given up
Excused(c) == outcome[c] = "gaveUp" \/ (Busy /\ c = issued)

\* a token that the foreground waits for, or that it may draw in this boot
Wanted(t) == t = seedCell \/ t > count \/ (Busy /\ t = want["fg"])

\* a frame as one whose token was drawn in this boot
Drawn(fr) == fr.tok <= seedCell /\ (Busy /\ fr.cmd = issued => fr.tok <= want["fg"])

\* what FalseAnswerNeedsGiveUp claims of an answered command
Earned(c) ==
    \/ executed[c] > 0
    \/ \E d \in 1..(c - 1) :
           outcome[d] = "gaveUp" /\ executed[d] > 0 /\ ShareToken(c, d)

\* The seed cell counts, from the boot seed on, and the boot seeds go down.
Counted ==
    /\ count = 0 => seedCell = BootSeed(boots) /\ tokenCell = BootToken(boots)
    /\ count > 0 => seedCell = count
    /\ \A c \in Command : \A t \in toks[c] : BootSeed(boots) <= t
    /\ \A c \in Command : c > issued => toks[c] = {}
    /\ Busy => issued \in Command /\ outcome[issued] = "open"

\* Every frame on its way that could be taken for an answer is excused, and all
\* but the first of a boot have tokens of the boot.
RingExcused ==
    \A i \in 1..Len(ring) :
        /\ Wanted(ring[i].tok) => Excused(ring[i].cmd)
        /\ Drawn(ring[i]) \/ (count = 0 /\ rpc = "idle" /\ i = 1)

PendingExcused ==
    rpc # "idle" =>
        /\ Wanted(pending.tok) => Excused(pending.cmd)
        /\ count > 0 => Drawn(pending)

\* A foreground that still waits for a token of an earlier boot has at most one
\* frame on its way, and nothing is on its way when it has seen its token.
StaleAlone ==
    /\ Busy /\ want["fg"] > seedCell =>
          /\ count > 0 => ring = <<>> /\ rpc = "idle"
          /\ Len(ring) <= 1
          /\ rpc # "idle" => ring = <<>>
          /\ pc["fg"] \in {"seeded", "sending"} => count = 0 /\ ring = <<>> /\ rpc = "idle"
    /\ pc["fg"] = "check" /\ count = 0 => ring = <<>> /\ rpc = "idle"

\* So is the command whose token the RP has published.
Published ==
    /\ tokenCell = seedCell \/ (Busy /\ tokenCell = want["fg"]) =>
          \E d \in Command : executed[d] > 0 /\ tokenCell \in toks[d] /\ Excused(d)
    /\ pc["fg"] = "check" /\ tokenCell = seedCell => want["fg"] = seedCell
    /\ pc["fg"] = "check" => Earned(issued)

EpochInv ==
    /\ TypeOK /\ Provenance /\ InTurn
    /\ Counted /\ RingExcused /\ PendingExcused /\ StaleAlone /\ Published
    /\ FalseAnswerNeedsGiveUp

EpochTypes ==
    /\ seedCell \in Int /\ tokenCell \in Int /\ count \in Nat /\ boots \in Nat
    /\ issued \in Nat /\ want["fg"] \in Int /\ Command \subseteq Nat
    /\ ring \in Seq(Frame) /\ Len(ring) \in Nat
    /\ \A i \in 1..Len(ring) : ring[i].cmd \in Command /\ ring[i].tok \in Int
    /\ rpc # "idle" => pending.cmd \in Command /\ pending.tok \in Int
    /\ pc \in [Context -> {"idle", "seeded", "sending", "wait", "check"}]
    /\ want \in [Context -> Int] /\ "fg" \in Context
    /\ outcome \in [Command -> {"unsent", "open", "ok", "gaveUp"}]
    /\ executed \in [Command -> Nat] /\ toks \in [Command -> SUBSET Int]
    /\ Busy => /\ cur["fg"] = issued /\ issued \in Command
               /\ want["fg"] \in toks[issued] /\ BootSeed(boots) <= want["fg"]

\* What the argument needs of the types, and of the token waited for.
LEMMA TypesOfEpoch == EpochInv => EpochTypes
<1> SUFFICES ASSUME EpochInv PROVE EpochTypes
  OBVIOUS
<1>1. ring \in Seq(Frame) /\ \A i \in 1..Len(ring) : ring[i] \in Frame
  BY ElementOfSeq DEF EpochInv, TypeOK
<1>2. "fg" \in Context
  BY DEF Context
<1>3. Busy => /\ cur["fg"] = issued /\ issued \in Command
              /\ want["fg"] \in toks[issued] /\ BootSeed(boots) <= want["fg"]
  BY <1>2 DEF EpochInv, InTurn, Counted, Provenance, Busy
<1>4. rpc # "idle" => pending \in Frame
  BY DEF EpochInv, TypeOK
<1>5. Len(ring) \in Nat
  BY <1>1, LenProperties
<1>6. /\ seedCell \in Int /\ tokenCell \in Int /\ count \in Nat /\ boots \in Nat
      /\ issued \in Nat /\ want["fg"] \in Int /\ Command \subseteq Nat
  BY <1>2 DEF EpochInv, TypeOK, Command
<1>7. QED BY <1>1, <1>2, <1>3, <1>4, <1>5, <1>6 DEF EpochTypes, EpochInv, TypeOK, Frame

\* Only the foreground sends.
LEMMA ForegroundSteps ==
    ASSUME HookInstalled = FALSE, InTurn, [Next]_vars
    PROVE  \/ Begin("fg") \/ SeeToken("fg") \/ Accept("fg") \/ NotReady("fg")
           \/ Resend("fg") \/ GiveUp("fg") \/ HeaderOut \/ ChecksumOut
           \/ Poll \/ Overrun \/ Dispatch \/ Publish \/ Reboot \/ UNCHANGED vars
<1>1. pc["isr"] = "idle"
  BY DEF InTurn
<1>2. ASSUME NEW x \in Context, SendSync(x) PROVE x = "fg"
  BY <1>1, <1>2 DEF SendSync, Begin, SeeToken, Accept, NotReady, Resend, GiveUp, Context
<1>3. ~HookFrameOut
  BY <1>1 DEF HookFrameOut
<1>4. QED BY <1>2, <1>3 DEF Next, SendSync, ChandlerLoop

\* The count, the seed and the tokens go together.
LEMMA NextCounted ==
    ASSUME HookInstalled = FALSE, EpochInv, TypeOK', [Next]_vars
    PROVE  Counted'
<1>0. EpochTypes /\ Counted /\ InTurn
  BY TypesOfEpoch DEF EpochInv
<1>b. BootSeed(boots) <= seedCell
  BY <1>0 DEF Counted, EpochTypes, BootSeed
<1>t. BootToken(boots) \in Int /\ BootSeed(boots) \in Int
  BY <1>0 DEF EpochTypes, BootToken, BootSeed
<1>1. CASE Begin("fg")
  <2>1. /\ issued' = issued + 1 /\ issued + 1 \in Command
        /\ outcome' = [outcome EXCEPT ![issued + 1] = "open"]
        /\ toks' = [toks EXCEPT ![issued + 1] = @ \cup {seedCell}]
        /\ UNCHANGED <<count, seedCell, tokenCell, boots>>
    BY <1>0, <1>1 DEF Begin, ReadSeed, cells, EpochTypes, Command
  <2>2. outcome'[issued'] = "open"
    BY <1>0, <2>1 DEF EpochTypes
  <2>3. \A c \in Command : \A t \in toks'[c] : BootSeed(boots) <= t
    BY <1>0, <1>b, <2>1 DEF EpochTypes, Counted
  <2>4. \A c \in Command : c > issued' => toks'[c] = {}
    BY <1>0, <2>1 DEF EpochTypes, Counted
  <2>5. QED BY <1>0, <2>1, <2>2, <2>3, <2>4 DEF Counted
<1>2. CASE Resend("fg")
  <2>1. /\ toks' = [toks EXCEPT ![issued] = @ \cup {seedCell}] /\ Busy /\ issued \in Command
        /\ UNCHANGED <<count, seedCell, tokenCell, boots, issued, outcome>>
    BY <1>0, <1>2 DEF Resend, ReadSeed, cells, EpochTypes, Busy
  <2>2. \A c \in Command : \A t \in toks'[c] : BootSeed(boots) <= t
    BY <1>0, <1>b, <2>1 DEF EpochTypes, Counted
  <2>3. \A c \in Command : c > issued => toks'[c] = {}
    BY <1>0, <2>1 DEF EpochTypes, Counted
  <2>4. QED BY <1>0, <2>1, <2>2, <2>3 DEF Counted
<1>3. CASE Accept("fg") \/ GiveUp("fg")
  <2>1. ~Busy' /\ UNCHANGED <<count, seedCell, tokenCell, boots, toks, issued>>
    BY <1>0, <1>3 DEF Accept, GiveUp, cells, EpochTypes, Busy
  <2>2. QED BY <1>0, <2>1 DEF Counted
<1>4. CASE SeeToken("fg") \/ NotReady("fg") \/ HeaderOut \/ ChecksumOut
           \/ Poll \/ Overrun \/ Dispatch \/ UNCHANGED vars
  <2>1. UNCHANGED <<count, seedCell, tokenCell, boots, toks, issued, outcome>>
    BY <1>4 DEF SeeToken, NotReady, HeaderOut, ChecksumOut, Poll, Overrun, Dispatch, cells,
      stVars, vars
  <2>2. Busy' => Busy
    BY <1>0, <1>4 DEF SeeToken, NotReady, HeaderOut, ChecksumOut, Poll, Overrun, Dispatch,
      stVars, vars, Busy
  <2>3. QED BY <1>0, <2>1, <2>2 DEF Counted
<1>5. CASE Publish
  <2>1. /\ count' = count + 1 /\ seedCell' = count + 1
        /\ UNCHANGED <<boots, toks, issued, outcome, pc>>
    BY <1>5 DEF Publish, stVars
  <2>2. count' > 0 /\ count' # 0
    BY <1>0, <2>1 DEF EpochTypes
  <2>3. QED BY <1>0, <2>1, <2>2 DEF Counted, Busy
<1>6. CASE Reboot
  <2>1. /\ boots' = boots + 1 /\ count' = 0 /\ seedCell' = BootSeed(boots')
        /\ tokenCell' = BootToken(boots') /\ UNCHANGED <<toks, issued, outcome, pc>>
    BY <1>6 DEF Reboot, stVars
  <2>2. \A c \in Command : \A t \in toks[c] : BootSeed(boots') <= t
    <3>1. BootSeed(boots') <= BootSeed(boots) /\ BootSeed(boots') \in Int
      BY <1>0, <2>1 DEF BootSeed, EpochTypes
    <3>2. \A c \in Command : \A t \in toks[c] : BootSeed(boots) <= t /\ t \in Int
      BY <1>0 DEF Counted, EpochTypes
    <3>3. QED BY <1>t, <3>1, <3>2
  <2>3. QED BY <1>0, <2>1, <2>2 DEF Counted, Busy
<1>7. QED
  BY <1>0, <1>1, <1>2, <1>3, <1>4, <1>5, <1>6, ForegroundSteps

\* Steps of the foreground that neither start nor end an attempt, and those of
\* the RP that publish nothing.
LEMMA EpochQuiet ==
    ASSUME EpochInv,
           \/ SeeToken("fg") \/ NotReady("fg") \/ HeaderOut \/ ChecksumOut
           \/ Poll \/ Overrun \/ Dispatch \/ UNCHANGED vars
    PROVE  /\ Busy' = Busy
           /\ UNCHANGED <<count, seedCell, tokenCell, boots, toks, issued, outcome, want>>
           /\ \A t : Wanted(t)' = Wanted(t)
           /\ \A c : Excused(c)' = Excused(c)
<1>0. EpochTypes
  BY TypesOfEpoch
<1>1. UNCHANGED <<count, seedCell, tokenCell, boots, toks, issued, outcome, want>>
  BY DEF SeeToken, NotReady, HeaderOut, ChecksumOut, Poll, Overrun, Dispatch, cells,
    stVars, vars
<1>2. Busy' = Busy
  <2>1. pc' = pc \/ \E v \in {"check", "wait", "sending"} :
                       pc["fg"] # "idle" /\ pc' = [pc EXCEPT !["fg"] = v]
    BY DEF SeeToken, NotReady, HeaderOut, ChecksumOut, Poll, Overrun, Dispatch, stVars, vars
  <2>2. QED BY <1>0, <2>1 DEF Busy, EpochTypes
<1>3. QED BY <1>1, <1>2 DEF Wanted, Excused

\* What Accept and GiveUp do to the command in progress.
LEMMA EpochReturns ==
    ASSUME EpochInv, Accept("fg") \/ GiveUp("fg")
    PROVE  /\ Busy /\ ~Busy' /\ issued \in Command /\ outcome[issued] = "open"
           /\ UNCHANGED <<issued, toks, want, executed, ring, pending, rpc, tokenCell,
                          seedCell, count, boots>>
           /\ \A c \in Command : c # issued => outcome'[c] = outcome[c]
           /\ Accept("fg") => outcome'[issued] = "ok"
           /\ GiveUp("fg") => outcome'[issued] = "gaveUp"
<1>0. EpochTypes /\ Counted
  BY TypesOfEpoch DEF EpochInv
<1>1. Busy /\ ~Busy' /\ cur["fg"] = issued
  BY <1>0 DEF Accept, GiveUp, Busy, EpochTypes
<1>2. issued \in Command /\ outcome[issued] = "open"
  BY <1>0, <1>1 DEF Counted
<1>3. UNCHANGED <<issued, toks, want, executed, ring, pending, rpc, tokenCell,
                  seedCell, count, boots>>
  BY DEF Accept, GiveUp, cells
<1>4. QED BY <1>0, <1>1, <1>2, <1>3 DEF Accept, GiveUp, EpochTypes

\* An accepted answer leaves no frame of its command with a token still wanted.
LEMMA NothingWanted ==
    ASSUME EpochInv, Accept("fg"), NEW fr, fr.cmd = issued, fr.tok \in Int,
           Drawn(fr), ring # <<>> \/ rpc # "idle"
    PROVE  fr.tok # seedCell /\ ~(fr.tok > count)
<1>0. EpochTypes /\ Counted /\ StaleAlone
  BY TypesOfEpoch DEF EpochInv
<1>1. Busy /\ pc["fg"] = "check" /\ seedCell # want["fg"]
  BY DEF Accept, Busy
<1>2. count > 0
  BY <1>0, <1>1 DEF StaleAlone, EpochTypes
<1>3. seedCell = count /\ ~(want["fg"] > seedCell)
  BY <1>0, <1>1, <1>2 DEF Counted, StaleAlone
<1>4. fr.tok <= want["fg"]
  BY <1>1 DEF Drawn
<1>5. QED BY <1>0, <1>1, <1>3, <1>4 DEF EpochTypes

\* Every step keeps the frames in the ring excused.
LEMMA NextRingExcused ==
    ASSUME HookInstalled = FALSE, EpochInv, [Next]_vars
    PROVE  RingExcused'
<1>0. EpochTypes /\ Counted /\ RingExcused /\ StaleAlone /\ InTurn
  BY TypesOfEpoch DEF EpochInv
<1>1. CASE Begin("fg")
  <2>1. /\ ~Busy /\ issued' = issued + 1 /\ issued + 1 \in Command /\ want'["fg"] = seedCell
        /\ outcome' = [outcome EXCEPT ![issued + 1] = "open"]
        /\ UNCHANGED <<count, seedCell, ring, rpc>>
    BY <1>0, <1>1 DEF Begin, ReadSeed, cells, EpochTypes, Command, Busy
  <2>2. ASSUME NEW i \in 1..Len(ring) PROVE ring[i].cmd # issued' /\ ring[i].cmd <= issued
    <3>1. ring[i].cmd \in Nat /\ ring[i].cmd <= issued /\ issued \in Nat
      BY <1>0 DEF InTurn, EpochTypes
    <3>2. QED BY <2>1, <3>1
  <2>3. \A i \in 1..Len(ring) : outcome'[ring[i].cmd] = outcome[ring[i].cmd]
    BY <1>0, <2>1, <2>2 DEF EpochTypes
  <2>4. QED BY <2>1, <2>2, <2>3, <1>0 DEF RingExcused, Wanted, Excused, Drawn
<1>2. CASE Resend("fg")
  <2>1. /\ want'["fg"] = seedCell /\ Busy /\ Busy'
        /\ UNCHANGED <<count, seedCell, ring, rpc, issued, outcome>>
    BY <1>0, <1>2 DEF Resend, ReadSeed, cells, EpochTypes, Busy
  <2>2. QED BY <2>1, <1>0 DEF RingExcused, Wanted, Excused, Drawn
<1>3. CASE GiveUp("fg")
  <2>1. /\ ~Busy' /\ outcome'[issued] = "gaveUp"
        /\ \A c \in Command : c # issued => outcome'[c] = outcome[c]
        /\ UNCHANGED <<count, seedCell, ring, rpc>>
    BY <1>3, EpochReturns
  <2>2. QED BY <2>1, <1>0 DEF RingExcused, Wanted, Excused, Drawn, EpochTypes
<1>4. CASE Accept("fg")
  <2>1. /\ Busy /\ ~Busy' /\ UNCHANGED <<count, seedCell, ring, rpc>>
        /\ \A c \in Command : c # issued => outcome'[c] = outcome[c]
    BY <1>4, EpochReturns
  <2>2. ASSUME NEW i \in 1..Len(ring)
        PROVE  /\ Wanted(ring[i].tok)' => Excused(ring[i].cmd)'
               /\ Drawn(ring[i])'
    <3>1. ring # <<>> /\ ring[i].cmd \in Command /\ ring[i].tok \in Int
      BY <1>0 DEF EpochTypes
    <3>2. count # 0
      BY <1>0, <1>4, <3>1 DEF StaleAlone, Accept
    <3>3. Drawn(ring[i])
      BY <1>0, <3>2 DEF RingExcused
    <3>4. ring[i].cmd = issued => ring[i].tok # seedCell /\ ~(ring[i].tok > count)
      BY <1>4, <3>1, <3>3, NothingWanted
    <3>5. Wanted(ring[i].tok) => Excused(ring[i].cmd)
      BY <1>0 DEF RingExcused
    <3>6. QED BY <2>1, <3>1, <3>3, <3>4, <3>5 DEF Wanted, Excused, Drawn
  <2>3. QED BY <2>1, <2>2 DEF RingExcused
<1>5. CASE SeeToken("fg") \/ NotReady("fg") \/ HeaderOut \/ Dispatch \/ UNCHANGED vars
  <2>1. ring' = ring /\ (rpc = "idle" => rpc' = "idle")
    BY <1>5 DEF SeeToken, NotReady, HeaderOut, Dispatch, stVars, vars
  <2>2. /\ Busy' = Busy /\ UNCHANGED <<count, seedCell, issued, want>>
        /\ \A t : Wanted(t)' = Wanted(t)
        /\ \A c : Excused(c)' = Excused(c)
    BY <1>5, EpochQuiet
  <2>3. QED BY <2>1, <2>2, <1>0 DEF RingExcused, Wanted, Excused, Drawn
<1>6. CASE ChecksumOut
  <2>1. /\ Busy' = Busy /\ UNCHANGED <<count, seedCell, issued, want>>
        /\ \A t : Wanted(t)' = Wanted(t)
        /\ \A c : Excused(c)' = Excused(c)
    BY <1>6, EpochQuiet
  <2>2. rpc' = rpc /\ Busy /\ pc["fg"] = "sending"
    BY <1>6 DEF ChecksumOut, Busy
  <2>3. CASE ring' = ring
    BY <2>1, <2>2, <2>3, <1>0 DEF RingExcused, Wanted, Excused, Drawn
  <2>4. CASE ring' = Append(ring, FrameOf("fg"))
    <3>0. FrameOf("fg") \in Frame
      BY <1>0, <2>2 DEF FrameOf, EpochTypes, Frame
    <3> PICK fr \in Frame : fr = FrameOf("fg")
      BY <3>0
    <3>1. fr.cmd = issued /\ fr.tok = want["fg"]
      BY <1>0, <2>2 DEF FrameOf, EpochTypes
    <3>2. /\ Len(ring') = Len(ring) + 1 /\ ring'[Len(ring) + 1] = fr
          /\ \A i \in 1..Len(ring) : ring'[i] = ring[i]
      BY <1>0, <2>4, AppendProperties DEF EpochTypes
    <3>3. Excused(fr.cmd)'
      BY <2>1, <2>2, <3>1 DEF Excused
    <3>4. Drawn(fr)' \/ (count' = 0 /\ rpc' = "idle" /\ Len(ring) + 1 = 1)
      <4>1. CASE want["fg"] > seedCell
        <5>1. count = 0 /\ ring = <<>> /\ rpc = "idle"
          BY <1>0, <2>2, <4>1 DEF StaleAlone
        <5>2. Len(ring) = 0
          BY <5>1
        <5>3. QED BY <2>1, <2>2, <5>1, <5>2
      <4>2. CASE ~(want["fg"] > seedCell)
        BY <1>0, <2>1, <3>1, <4>2 DEF Drawn, EpochTypes
      <4>3. QED BY <4>1, <4>2
    <3>5. \A i \in 1..Len(ring') : i \in 1..Len(ring) \/ i = Len(ring) + 1
      BY <1>0, <3>2 DEF EpochTypes
    <3>6. \A i \in 1..Len(ring) :
             /\ Wanted(ring[i].tok)' => Excused(ring[i].cmd)'
             /\ Drawn(ring[i])' \/ (count' = 0 /\ rpc' = "idle" /\ i = 1)
      BY <1>0, <2>1, <2>2, <3>2 DEF RingExcused, Drawn
    <3>7. QED BY <3>2, <3>3, <3>4, <3>5, <3>6 DEF RingExcused
  <2>5. QED BY <1>6, <2>3, <2>4 DEF ChecksumOut
<1>7. CASE Poll
  <2>1. /\ Busy' = Busy /\ UNCHANGED <<count, seedCell, issued, want>>
        /\ \A t : Wanted(t)' = Wanted(t)
        /\ \A c : Excused(c)' = Excused(c)
    BY <1>7, EpochQuiet
  <2>2. PICK k \in 1..Len(ring) : ring' = SubSeq(ring, k + 1, Len(ring))
    BY <1>7 DEF Poll
  <2>3. Len(ring') = Len(ring) - k /\ \A i \in 1..Len(ring') : ring'[i] = ring[i + k]
    BY <1>0, <2>2 DEF EpochTypes
  <2>4. \A i \in 1..Len(ring') : i + k \in 1..Len(ring) /\ i + k # 1
    BY <1>0, <2>3 DEF EpochTypes
  <2>5. QED BY <2>1, <2>3, <2>4, <1>0 DEF RingExcused, Drawn
<1>8. CASE Overrun \/ Reboot
  <2>1. ring' = <<>>
    BY <1>8 DEF Overrun, Reboot
  <2>2. Len(ring') = 0 /\ 1..0 = {}
    BY <2>1
  <2>3. QED BY <2>2 DEF RingExcused
<1>9. CASE Publish
  <2>1. /\ rpc = "run" /\ count' = count + 1 /\ seedCell' = count + 1 /\ Busy' = Busy
        /\ UNCHANGED <<ring, issued, outcome, want>>
    BY <1>9 DEF Publish, stVars, Busy
  <2>2. seedCell <= count
    BY <1>0 DEF Counted, EpochTypes, BootSeed
  <2>3. ASSUME NEW i \in 1..Len(ring)
        PROVE  (Wanted(ring[i].tok)' => Wanted(ring[i].tok)) /\ Drawn(ring[i])'
    <3>1. ring[i].tok \in Int
      BY <1>0 DEF EpochTypes
    <3>2. Drawn(ring[i])
      BY <1>0, <2>1 DEF RingExcused
    <3>3. QED BY <1>0, <2>1, <2>2, <3>1, <3>2 DEF Wanted, Drawn, EpochTypes
  <2>4. QED BY <2>1, <2>3, <1>0 DEF RingExcused, Excused
<1>10. QED
  BY <1>0, <1>1, <1>2, <1>3, <1>4, <1>5, <1>6, <1>7, <1>8, <1>9, ForegroundSteps

\* Every step keeps the frame being handled excused.
LEMMA NextPendingExcused ==
    ASSUME HookInstalled = FALSE, EpochInv, [Next]_vars
    PROVE  PendingExcused'
<1>0. EpochTypes /\ Counted /\ RingExcused /\ PendingExcused /\ StaleAlone /\ InTurn
  BY TypesOfEpoch DEF EpochInv
<1>1. CASE Begin("fg")
  <2>1. /\ ~Busy /\ issued' = issued + 1 /\ issued + 1 \in Command /\ want'["fg"] = seedCell
        /\ outcome' = [outcome EXCEPT ![issued + 1] = "open"]
        /\ UNCHANGED <<count, seedCell, pending, rpc>>
    BY <1>0, <1>1 DEF Begin, ReadSeed, cells, EpochTypes, Command, Busy
  <2>2. ASSUME rpc # "idle" PROVE pending.cmd \in Command /\ pending.cmd # issued'
    <3>1. rpc = "pending" => pending.cmd <= issued
      BY <1>0 DEF InTurn
    <3>2. rpc = "run" => pending.cmd <= issued
      BY <1>0, <2>2 DEF InTurn, EpochInv, Provenance, EpochTypes
    <3>3. pending.cmd \in Command /\ pending.cmd \in Nat /\ issued \in Nat
      BY <1>0, <2>2 DEF EpochTypes
    <3>4. rpc \in {"idle", "pending", "run"}
      BY DEF EpochInv, TypeOK
    <3>5. QED BY <2>1, <2>2, <3>1, <3>2, <3>3, <3>4
  <2>3. rpc # "idle" => outcome'[pending.cmd] = outcome[pending.cmd]
    BY <1>0, <2>1, <2>2 DEF EpochTypes
  <2>4. QED BY <2>1, <2>2, <2>3, <1>0 DEF PendingExcused, Wanted, Excused, Drawn
<1>2. CASE Resend("fg")
  <2>1. /\ want'["fg"] = seedCell /\ Busy /\ Busy'
        /\ UNCHANGED <<count, seedCell, pending, rpc, issued, outcome>>
    BY <1>0, <1>2 DEF Resend, ReadSeed, cells, EpochTypes, Busy
  <2>2. QED BY <2>1, <1>0 DEF PendingExcused, Wanted, Excused, Drawn
<1>3. CASE GiveUp("fg")
  <2>1. /\ ~Busy' /\ outcome'[issued] = "gaveUp"
        /\ \A c \in Command : c # issued => outcome'[c] = outcome[c]
        /\ UNCHANGED <<count, seedCell, pending, rpc>>
    BY <1>3, EpochReturns
  <2>2. QED BY <2>1, <1>0 DEF PendingExcused, Wanted, Excused, Drawn, EpochTypes
<1>4. CASE Accept("fg")
  <2>1. /\ Busy /\ ~Busy' /\ UNCHANGED <<count, seedCell, pending, rpc>>
        /\ \A c \in Command : c # issued => outcome'[c] = outcome[c]
    BY <1>4, EpochReturns
  <2>2. ASSUME rpc # "idle"
        PROVE  /\ Wanted(pending.tok)' => Excused(pending.cmd)'
               /\ Drawn(pending)'
    <3>1. pending.cmd \in Command /\ pending.tok \in Int
      BY <1>0, <2>2 DEF EpochTypes
    <3>2. count > 0
      BY <1>0, <1>4, <2>2 DEF StaleAlone, Accept, EpochTypes
    <3>3. Drawn(pending)
      BY <1>0, <2>2, <3>2 DEF PendingExcused
    <3>4. pending.cmd = issued => pending.tok # seedCell /\ ~(pending.tok > count)
      BY <1>4, <2>2, <3>1, <3>3, NothingWanted
    <3>5. Wanted(pending.tok) => Excused(pending.cmd)
      BY <1>0, <2>2 DEF PendingExcused
    <3>6. QED BY <2>1, <3>1, <3>3, <3>4, <3>5 DEF Wanted, Excused, Drawn
  <2>3. QED BY <2>1, <2>2 DEF PendingExcused
<1>5. CASE SeeToken("fg") \/ NotReady("fg") \/ HeaderOut \/ ChecksumOut \/ Overrun
           \/ Dispatch \/ UNCHANGED vars
  <2>1. pending' = pending /\ (rpc = "idle" => rpc' = "idle")
    BY <1>5 DEF SeeToken, NotReady, HeaderOut, ChecksumOut, Overrun, Dispatch, stVars, vars
  <2>2. /\ Busy' = Busy /\ UNCHANGED <<count, seedCell, issued, want>>
        /\ \A t : Wanted(t)' = Wanted(t)
        /\ \A c : Excused(c)' = Excused(c)
    BY <1>5, EpochQuiet
  <2>3. QED BY <2>1, <2>2, <1>0 DEF PendingExcused, Drawn
<1>6. CASE Poll
  <2>1. /\ Busy' = Busy /\ UNCHANGED <<count, seedCell, issued, want>>
        /\ \A t : Wanted(t)' = Wanted(t)
        /\ \A c : Excused(c)' = Excused(c)
    BY <1>6, EpochQuiet
  <2>2. pending' = ring[1] /\ 1 \in 1..Len(ring)
    BY <1>0, <1>6 DEF Poll, EpochTypes
  <2>3. /\ Wanted(ring[1].tok) => Excused(ring[1].cmd)
        /\ count > 0 => Drawn(ring[1])
    BY <1>0, <2>2 DEF RingExcused
  <2>4. PICK fr : fr = ring[1]
    OBVIOUS
  <2>5. Wanted(fr.tok)' => Excused(fr.cmd)'
    BY <2>1, <2>3, <2>4
  <2>6. count' > 0 => Drawn(fr)'
    BY <2>1, <2>3, <2>4 DEF Drawn
  <2>7. QED BY <2>2, <2>4, <2>5, <2>6 DEF PendingExcused
<1>7. CASE Publish \/ Reboot
  BY <1>7 DEF Publish, Reboot, PendingExcused
<1>8. QED
  BY <1>0, <1>1, <1>2, <1>3, <1>4, <1>5, <1>6, <1>7, ForegroundSteps

\* Every step keeps a token of an earlier boot alone.
LEMMA NextStaleAlone ==
    ASSUME HookInstalled = FALSE, EpochInv, [Next]_vars
    PROVE  StaleAlone'
<1>0. EpochTypes /\ Counted /\ StaleAlone /\ InTurn
  BY TypesOfEpoch DEF EpochInv
<1>1. CASE Begin("fg") \/ Resend("fg")
  <2>1. pc'["fg"] = "seeded" /\ want'["fg"] = seedCell /\ seedCell' = seedCell
    BY <1>0, <1>1 DEF Begin, Resend, ReadSeed, cells, EpochTypes
  <2>2. QED BY <1>0, <2>1 DEF StaleAlone, EpochTypes
<1>2. CASE Accept("fg") \/ GiveUp("fg")
  <2>1. ~Busy'
    BY <1>2, EpochReturns
  <2>2. QED BY <2>1 DEF StaleAlone, Busy
<1>3. CASE SeeToken("fg")
  <2>1. /\ pc["fg"] = "wait" /\ pc'["fg"] = "check" /\ tokenCell = want["fg"]
        /\ UNCHANGED <<want, seedCell, count, ring, rpc>>
    BY <1>0, <1>3 DEF SeeToken, cells, EpochTypes
  <2>2. count # 0
    <3>1. IsSeed(want["fg"]) /\ want["fg"] \in Int
      BY <1>0, <2>1 DEF EpochInv, Provenance, EpochTypes, Busy
    <3>2. QED BY <1>0, <2>1, <3>1, SeedIsNoBootToken DEF Counted, EpochTypes
  <2>3. QED BY <1>0, <2>1, <2>2 DEF StaleAlone, Busy
<1>4. CASE NotReady("fg") \/ HeaderOut \/ UNCHANGED vars
  <2>1. /\ UNCHANGED <<want, seedCell, count, ring, rpc>>
        /\ Busy' = Busy /\ (pc'["fg"] = "check" => pc["fg"] = "check")
        /\ pc'["fg"] \in {"seeded", "sending"} => pc["fg"] \in {"seeded", "sending"}
    BY <1>0, <1>4 DEF NotReady, HeaderOut, vars, stVars, cells, EpochTypes, Busy
  <2>2. QED BY <1>0, <2>1 DEF StaleAlone
<1>5. CASE ChecksumOut
  <2>1. /\ pc["fg"] = "sending" /\ pc'["fg"] = "wait" /\ Busy
        /\ UNCHANGED <<want, seedCell, count, rpc>>
    BY <1>0, <1>5 DEF ChecksumOut, cells, EpochTypes, Busy
  <2>2. CASE want["fg"] > seedCell
    <3>1. count = 0 /\ ring = <<>> /\ rpc = "idle"
      BY <1>0, <2>1, <2>2 DEF StaleAlone
    <3>2. Len(ring') <= 1
      <4>1. ring' = ring \/ ring' = Append(ring, FrameOf("fg"))
        BY <1>5 DEF ChecksumOut
      <4>2. FrameOf("fg") \in Frame
        BY <1>0, <2>1 DEF FrameOf, Frame, EpochTypes
      <4>3. ring \in Seq(Frame) /\ Len(ring) = 0
        BY <1>0, <3>1 DEF EpochTypes
      <4>4. CASE ring' = Append(ring, FrameOf("fg"))
        BY <4>2, <4>3, <4>4, AppendProperties
      <4>5. QED BY <4>1, <4>3, <4>4
    <3>3. QED BY <2>1, <3>1, <3>2 DEF StaleAlone
  <2>3. CASE ~(want["fg"] > seedCell)
    BY <2>1, <2>3 DEF StaleAlone
  <2>4. QED BY <2>2, <2>3
<1>6. CASE Poll
  <2>1. /\ rpc = "idle" /\ ring # <<>> /\ UNCHANGED <<want, seedCell, count, pc>>
        /\ ring' \in Seq(Frame)
    BY <1>0, <1>6, DrainedRing DEF Poll, cells, stVars, EpochTypes
  <2>2. ~(pc["fg"] = "check" /\ count = 0)
    BY <1>0, <2>1 DEF StaleAlone
  <2>3. ASSUME Busy, want["fg"] > seedCell
        PROVE  count = 0 /\ pc["fg"] \notin {"seeded", "sending"} /\ ring' = <<>>
    <3>1. ~(count > 0) /\ pc["fg"] \notin {"seeded", "sending"} /\ Len(ring) <= 1
      BY <1>0, <2>1, <2>3 DEF StaleAlone
    <3>2. PICK k \in 1..Len(ring) : ring' = SubSeq(ring, k + 1, Len(ring))
      BY <1>6 DEF Poll
    <3>3. k = 1 /\ Len(ring) = 1
      <4>1. Len(ring) \in Nat
        BY <1>0 DEF EpochTypes
      <4>2. Len(ring) <= 1 /\ k \in 1..Len(ring)
        BY <3>1
      <4> DEFINE n == Len(ring)
      <4>3. n \in Nat /\ n <= 1 /\ k \in 1..n
        BY <4>1, <4>2
      <4> HIDE DEF n
      <4>4. k = 1 /\ n = 1
        BY <4>3
      <4>5. QED BY <4>4 DEF n
    <3>4. Len(ring') = 0
      BY <1>0, <3>2, <3>3 DEF EpochTypes
    <3>5. QED BY <1>0, <2>1, <3>1, <3>4, EmptySeq DEF EpochTypes
  <2>4. QED BY <1>0, <2>1, <2>2, <2>3 DEF StaleAlone, Busy, EpochTypes
<1>7. CASE Overrun \/ Reboot
  <2>1. ring' = <<>> /\ rpc' = "idle" /\ Len(ring') = 0 /\ pc' = pc
    BY <1>7 DEF Overrun, Reboot, stVars
  <2>2. /\ want' = want
        /\ count' = 0 \/ (count' = count /\ seedCell' = seedCell /\ rpc = "idle" /\ ring # <<>>)
    BY <1>7 DEF Overrun, Reboot, stVars, cells
  <2>3. Busy /\ want["fg"] > seedCell /\ pc["fg"] \in {"seeded", "sending"} => ring = <<>>
    BY <1>0 DEF StaleAlone
  <2>4. QED BY <2>1, <2>2, <2>3 DEF StaleAlone, Busy
<1>8. CASE Dispatch
  <2>1. /\ rpc = "pending" /\ rpc' = "run"
        /\ UNCHANGED <<want, seedCell, count, ring, pc>>
    BY <1>8 DEF Dispatch, cells, stVars
  <2>2. QED BY <1>0, <2>1 DEF StaleAlone, Busy
<1>9. CASE Publish
  <2>1. /\ rpc = "run" /\ rpc' = "idle" /\ count' = count + 1 /\ seedCell' = count + 1
        /\ UNCHANGED <<want, ring, pc>>
    BY <1>9 DEF Publish, stVars
  <2>2. count' # 0 /\ seedCell <= seedCell'
    BY <1>0, <2>1 DEF Counted, EpochTypes, BootSeed
  <2>3. ASSUME Busy, want["fg"] > seedCell'
        PROVE  ring = <<>> /\ pc["fg"] \notin {"seeded", "sending"}
    <3>1. want["fg"] > seedCell
      BY <1>0, <2>1, <2>2, <2>3 DEF EpochTypes
    <3>2. QED BY <1>0, <2>1, <2>3, <3>1 DEF StaleAlone
  <2>4. QED BY <2>1, <2>2, <2>3 DEF StaleAlone, Busy
<1>10. QED
  BY <1>0, <1>1, <1>2, <1>3, <1>4, <1>5, <1>6, <1>7, <1>8, <1>9, ForegroundSteps

\* What a command has earned it keeps.
LEMMA EarnedKept ==
    ASSUME HookInstalled = FALSE, EpochInv, [Next]_vars, NEW c \in Command, Earned(c)
    PROVE  Earned(c)'
<1>0. EpochTypes /\ Counted /\ InTurn
  BY TypesOfEpoch DEF EpochInv
<1>1. /\ \A d \in Command : toks[d] \subseteq toks'[d] /\ executed[d] <= executed'[d]
      /\ \A d \in Command : outcome[d] = "gaveUp" /\ toks[d] # {} => outcome'[d] = "gaveUp"
  <2>1. CASE Begin("fg")
    <3>1. /\ issued + 1 \in Command /\ executed' = executed
          /\ outcome' = [outcome EXCEPT ![issued + 1] = "open"]
          /\ toks' = [toks EXCEPT ![issued + 1] = @ \cup {seedCell}]
      BY <1>0, <2>1 DEF Begin, ReadSeed, EpochTypes, Command
    <3>2. toks[issued + 1] = {}
      <4>1. issued + 1 > issued
        BY <1>0 DEF EpochTypes
      <4>2. \A d \in Command : d > issued => toks[d] = {}
        BY <1>0 DEF Counted
      <4>3. QED BY <3>1, <4>1, <4>2
    <3>3. QED BY <1>0, <3>1, <3>2 DEF EpochTypes
  <2>2. CASE Resend("fg")
    <3>1. /\ executed' = executed /\ outcome' = outcome /\ issued \in Command
          /\ toks' = [toks EXCEPT ![issued] = @ \cup {seedCell}]
      BY <1>0, <2>2 DEF Resend, ReadSeed, EpochTypes, Busy
    <3>2. QED BY <1>0, <3>1 DEF EpochTypes
  <2>3. CASE Accept("fg") \/ GiveUp("fg")
    <3>1. /\ outcome[issued] = "open" /\ toks' = toks /\ executed' = executed
          /\ \A d \in Command : d # issued => outcome'[d] = outcome[d]
      BY <2>3, EpochReturns
    <3>2. \A d \in Command : outcome[d] = "gaveUp" => outcome'[d] = "gaveUp"
      BY <3>1
    <3>3. \A d \in Command : executed[d] <= executed[d]
      BY <1>0 DEF EpochTypes
    <3>4. QED BY <3>1, <3>2, <3>3
  <2>4. CASE Dispatch
    <3>1. /\ outcome' = outcome /\ toks' = toks /\ pending.cmd \in Command
          /\ executed' = [executed EXCEPT ![pending.cmd] = @ + 1]
      BY <1>0, <2>4 DEF Dispatch, stVars, EpochTypes
    <3>2. QED BY <1>0, <3>1 DEF EpochTypes
  <2>5. CASE SeeToken("fg") \/ NotReady("fg") \/ HeaderOut \/ ChecksumOut
             \/ Poll \/ Overrun \/ Publish \/ Reboot \/ UNCHANGED vars
    <3>1. outcome' = outcome /\ toks' = toks /\ executed' = executed
      BY <2>5 DEF SeeToken, NotReady, HeaderOut, ChecksumOut, Poll, Overrun, Publish, Reboot,
        stVars, vars
    <3>2. QED BY <1>0, <3>1 DEF EpochTypes
  <2>6. QED
    BY <1>0, <2>1, <2>2, <2>3, <2>4, <2>5, ForegroundSteps
<1>2. CASE executed[c] > 0
  <2>1. executed'[c] > 0
    <3>1. TypeOK'
      BY NextTypeOK DEF EpochInv
    <3>2. executed[c] \in Nat /\ executed'[c] \in Nat /\ executed[c] <= executed'[c]
      BY <1>0, <1>1, <3>1 DEF EpochTypes, TypeOK
    <3>3. QED BY <1>2, <3>2
  <2>2. QED BY <2>1 DEF Earned
<1>3. ASSUME NEW d \in 1..(c - 1), outcome[d] = "gaveUp", executed[d] > 0, ShareToken(c, d)
      PROVE  Earned(c)'
  <2>1. d \in Command
    BY DEF Command
  <2>2. toks[d] # {} /\ toks'[c] \cap toks'[d] # {}
    BY <1>1, <1>3, <2>1 DEF ShareToken
  <2>3. outcome'[d] = "gaveUp"
    BY <1>1, <1>3, <2>1, <2>2
  <2>4. executed'[d] > 0
    <3>1. TypeOK'
      BY NextTypeOK DEF EpochInv
    <3>2. executed[d] \in Nat /\ executed'[d] \in Nat /\ executed[d] <= executed'[d]
      BY <1>0, <1>1, <2>1, <3>1 DEF EpochTypes, TypeOK
    <3>3. QED BY <1>3, <3>2
  <2>5. QED BY <2>2, <2>3, <2>4 DEF Earned, ShareToken
<1>4. QED BY <1>2, <1>3 DEF Earned

\* What SeeToken takes for an answer is one, or a command given up explains it.
LEMMA SeenIsEarned ==
    ASSUME EpochInv, SeeToken("fg")
    PROVE  Earned(issued)
<1>0. EpochTypes /\ Counted /\ InTurn /\ Published
  BY TypesOfEpoch DEF EpochInv
<1>1. Busy /\ tokenCell = want["fg"]
  BY DEF SeeToken, Busy
<1>2. PICK d \in Command : executed[d] > 0 /\ tokenCell \in toks[d] /\ Excused(d)
  BY <1>0, <1>1 DEF Published
<1>3. CASE d = issued
  BY <1>2, <1>3 DEF Earned
<1>4. CASE d # issued
  <2>1. outcome[d] = "gaveUp"
    BY <1>2, <1>4 DEF Excused
  <2>2. d <= issued /\ d \in Nat /\ issued \in Nat /\ d >= 1
    BY <1>0, <1>2 DEF InTurn, EpochTypes, Command
  <2>3. d \in 1..(issued - 1)
    BY <1>4, <2>2
  <2>4. ShareToken(issued, d)
    BY <1>0, <1>1, <1>2 DEF EpochTypes, ShareToken
  <2>5. QED BY <1>2, <2>1, <2>3, <2>4 DEF Earned
<1>5. QED BY <1>3, <1>4

\* Every step keeps the published token explained.
LEMMA NextPublished ==
    ASSUME HookInstalled = FALSE, EpochInv, TypeOK', [Next]_vars
    PROVE  Published'
<1>0. EpochTypes /\ Counted /\ InTurn /\ Published /\ StaleAlone /\ PendingExcused
  BY TypesOfEpoch DEF EpochInv
<1> DEFINE Bad == tokenCell = seedCell \/ (Busy /\ tokenCell = want["fg"])
           Shown(d) == executed[d] > 0 /\ tokenCell \in toks[d] /\ Excused(d)
<1>1. CASE Begin("fg")
  <2>1. /\ ~Busy /\ issued' = issued + 1 /\ issued + 1 \in Command /\ want'["fg"] = seedCell
        /\ outcome' = [outcome EXCEPT ![issued + 1] = "open"] /\ pc'["fg"] = "seeded"
        /\ toks' = [toks EXCEPT ![issued + 1] = @ \cup {seedCell}]
        /\ UNCHANGED <<tokenCell, seedCell, executed>>
    BY <1>0, <1>1 DEF Begin, ReadSeed, cells, EpochTypes, Command, Busy
  <2>2. ASSUME tokenCell = seedCell
        PROVE  \E d \in Command : executed'[d] > 0 /\ tokenCell \in toks'[d]
                                  /\ outcome'[d] = "gaveUp"
    <3>1. PICK d \in Command : executed[d] > 0 /\ tokenCell \in toks[d] /\ outcome[d] = "gaveUp"
      BY <1>0, <2>1, <2>2 DEF Published, Excused
    <3>2. d # issued + 1
      <4>1. d <= issued /\ d \in Nat /\ issued \in Nat
        BY <1>0, <3>1 DEF InTurn, EpochTypes
      <4>2. QED BY <4>1
    <3>3. QED BY <1>0, <2>1, <3>1, <3>2 DEF EpochTypes
  <2>3. QED BY <2>1, <2>2 DEF Published, Excused
<1>2. CASE Resend("fg")
  <2>1. /\ want'["fg"] = seedCell /\ Busy /\ Busy' /\ pc'["fg"] = "seeded" /\ issued \in Command
        /\ toks' = [toks EXCEPT ![issued] = @ \cup {seedCell}]
        /\ UNCHANGED <<tokenCell, seedCell, executed, issued, outcome>>
    BY <1>0, <1>2 DEF Resend, ReadSeed, cells, EpochTypes, Busy
  <2>2. \A d \in Command : toks[d] \subseteq toks'[d]
    BY <1>0, <2>1 DEF EpochTypes
  <2>3. QED BY <1>0, <2>1, <2>2 DEF Published, Excused
<1>3. CASE GiveUp("fg")
  <2>1. /\ ~Busy' /\ pc'["fg"] = "idle" /\ outcome'[issued] = "gaveUp"
        /\ \A c \in Command : c # issued => outcome'[c] = outcome[c]
        /\ UNCHANGED <<tokenCell, seedCell, executed, toks>>
    BY <1>3, EpochReturns DEF Busy
  <2>2. QED BY <1>0, <2>1 DEF Published, Excused
<1>4. CASE Accept("fg")
  <2>1. ~Busy' /\ pc'["fg"] = "idle" /\ UNCHANGED <<tokenCell, seedCell>>
    BY <1>4, EpochReturns DEF Busy
  <2>2. tokenCell # seedCell
    BY <1>0, <1>4 DEF Published, Accept
  <2>3. QED BY <2>1, <2>2 DEF Published
<1>5. CASE SeeToken("fg")
  <2>1. /\ Busy' = Busy /\ \A c : Excused(c)' = Excused(c)
        /\ UNCHANGED <<tokenCell, seedCell, executed, toks, issued, want>>
        /\ tokenCell = want["fg"]
    BY <1>5, EpochQuiet DEF SeeToken
  <2>2. Earned(issued)'
    BY <1>0, <1>5, SeenIsEarned, EarnedKept DEF EpochTypes, SeeToken, Busy, Next, SendSync, Context
  <2>3. QED BY <1>0, <2>1, <2>2 DEF Published
<1>6. CASE NotReady("fg") \/ HeaderOut \/ ChecksumOut \/ Poll \/ Overrun \/ Dispatch
           \/ UNCHANGED vars
  <2>1. /\ Busy' = Busy /\ \A c : Excused(c)' = Excused(c)
        /\ UNCHANGED <<tokenCell, seedCell, toks, issued, want>>
    BY <1>6, EpochQuiet
  <2>2. pc'["fg"] = "check" => pc["fg"] = "check"
    BY <1>0, <1>6 DEF NotReady, HeaderOut, ChecksumOut, Poll, Overrun, Dispatch, vars, stVars,
      EpochTypes
  <2>3. \A d \in Command : executed[d] > 0 => executed'[d] > 0
    <3>1. CASE Dispatch
      <4>1. pending.cmd \in Command /\ executed' = [executed EXCEPT ![pending.cmd] = @ + 1]
        BY <1>0, <3>1 DEF Dispatch, EpochTypes
      <4>2. QED BY <1>0, <4>1 DEF EpochTypes
    <3>2. CASE executed' = executed
      BY <3>2
    <3>3. QED
      BY <1>6, <3>1, <3>2 DEF NotReady, HeaderOut, ChecksumOut, Poll, Overrun, vars
  <2>4. pc'["fg"] = "check" => Earned(issued)'
    <3>1. ASSUME pc["fg"] = "check" PROVE Earned(issued)' /\ issued' = issued
      <4>1. Earned(issued) /\ issued \in Command
        BY <1>0, <3>1 DEF Published, EpochTypes, Busy
      <4>2. PICK c \in Command : c = issued
        BY <4>1
      <4>3. Earned(c)'
        BY <4>1, <4>2, EarnedKept
      <4>4. QED BY <2>1, <4>2, <4>3
    <3>2. QED BY <2>2, <3>1
  <2>5. QED BY <1>0, <2>1, <2>2, <2>3, <2>4 DEF Published
<1>7. CASE Publish
  <2>1. /\ rpc = "run" /\ count' = count + 1 /\ seedCell' = count + 1 /\ Busy' = Busy
        /\ tokenCell' = pending.tok
        /\ UNCHANGED <<issued, outcome, want, toks, executed, pc>>
    BY <1>7 DEF Publish, stVars, Busy
  <2>2. /\ pending.cmd \in Command /\ pending.tok \in Int
        /\ pending.tok \in toks[pending.cmd] /\ executed[pending.cmd] > 0
    BY <1>0, <2>1 DEF EpochTypes, EpochInv, Provenance
  <2>3. ASSUME pending.tok = count + 1 \/ (Busy /\ pending.tok = want["fg"])
        PROVE  Excused(pending.cmd)
    <3>1. Wanted(pending.tok)
      BY <1>0, <2>2, <2>3 DEF Wanted, EpochTypes
    <3>2. QED BY <1>0, <2>1, <3>1 DEF PendingExcused
  <2>4. \A c : Excused(c)' = Excused(c)
    BY <2>1 DEF Excused
  <2>5. PICK c \in Command : c = pending.cmd
    BY <2>2
  <2>6. tokenCell' = seedCell' \/ (Busy' /\ tokenCell' = want'["fg"]) =>
           \E d \in Command : executed'[d] > 0 /\ tokenCell' \in toks'[d] /\ Excused(d)'
    BY <2>1, <2>2, <2>3, <2>4, <2>5
  <2>7. pc["fg"] = "check" => tokenCell' # seedCell'
    <3>1. SUFFICES ASSUME pc["fg"] = "check" PROVE pending.tok # count + 1
      BY <2>1
    <3>2. count > 0
      BY <1>0, <2>1, <3>1 DEF StaleAlone, EpochTypes
    <3>3. pending.tok <= seedCell /\ seedCell = count
      BY <1>0, <2>1, <3>2 DEF PendingExcused, Drawn, Counted
    <3>4. QED BY <1>0, <2>2, <3>3 DEF EpochTypes
  <2>8. pc["fg"] = "check" => Earned(issued)'
    BY <1>0, <2>1 DEF Published, Earned, ShareToken
  <2>9. QED BY <2>1, <2>6, <2>7, <2>8 DEF Published
<1>8. CASE Reboot
  <2>1. /\ tokenCell' = BootToken(boots + 1) /\ seedCell' = BootSeed(boots + 1) /\ Busy' = Busy
        /\ UNCHANGED <<issued, outcome, want, toks, executed, pc>>
    BY <1>8 DEF Reboot, stVars, Busy
  <2>2. tokenCell' # seedCell'
    BY <1>0, <2>1 DEF BootToken, BootSeed, EpochTypes
  <2>3. Busy => tokenCell' # want["fg"]
    <3>1. Busy => IsSeed(want["fg"])
      BY <1>0 DEF EpochTypes, EpochInv, Provenance
    <3>2. boots + 1 \in Nat /\ want["fg"] \in Int
      BY <1>0 DEF EpochTypes
    <3>3. QED BY <2>1, <3>1, <3>2, SeedIsNoBootToken
  <2>4. pc["fg"] = "check" => Earned(issued)'
    BY <1>0, <2>1 DEF Published, Earned, ShareToken
  <2>5. QED BY <2>1, <2>2, <2>3, <2>4 DEF Published
<1>9. QED
  BY <1>0, <1>1, <1>2, <1>3, <1>4, <1>5, <1>6, <1>7, <1>8, ForegroundSteps

\* Only SeeToken and Accept come near an answer, and what they take is earned.
LEMMA NextFalseAnswer ==
    ASSUME HookInstalled = FALSE, EpochInv, [Next]_vars
    PROVE  FalseAnswerNeedsGiveUp'
<1>0. EpochTypes /\ Counted /\ InTurn /\ Published
  BY TypesOfEpoch DEF EpochInv
<1> SUFFICES ASSUME NEW c \in Command, outcome'[c] = "ok" PROVE Earned(c)'
  BY DEF FalseAnswerNeedsGiveUp, Earned
<1>1. CASE outcome[c] = "ok"
  <2>1. Earned(c)
    BY <1>1 DEF EpochInv, FalseAnswerNeedsGiveUp, Earned
  <2>2. QED BY <2>1, EarnedKept
<1>2. CASE outcome[c] # "ok"
  <2>1. Accept("fg") /\ c = issued
    <3>1. Begin("fg") \/ Accept("fg") \/ GiveUp("fg")
      BY <1>0, <1>2, ForegroundSteps DEF SeeToken, NotReady, Resend, HeaderOut, ChecksumOut,
        Poll, Overrun, Dispatch, Publish, Reboot, stVars, vars
    <3>2. ~Begin("fg")
      BY <1>0, <1>2 DEF Begin, EpochTypes
    <3>3. ~GiveUp("fg")
      BY <1>2, EpochReturns
    <3>4. QED BY <1>2, <3>1, <3>2, <3>3, EpochReturns
  <2>2. Earned(c)
    BY <1>0, <2>1 DEF Accept, Published
  <2>3. QED BY <2>2, EarnedKept
<1>3. QED BY <1>1, <1>2

\* Before the first command nothing is on its way.
LEMMA InitEpochInv == Init => EpochInv
<1> SUFFICES ASSUME Init PROVE EpochInv
  OBVIOUS
<1>1. TypeOK /\ Provenance /\ InTurn
  BY InitTypeOK, InitProvenance, InitInTurn
<1>2. ~Busy /\ "fg" \in Context
  BY DEF Init, Busy, Context
<1>3. Counted
  BY <1>2 DEF Init, Counted, BootSeed
<1>4. RingExcused /\ PendingExcused /\ StaleAlone
  <2>1. Len(ring) = 0 /\ 1..0 = {}
    BY DEF Init
  <2>2. pc["fg"] # "check"
    BY <1>2 DEF Busy
  <2>3. RingExcused
    BY <2>1 DEF RingExcused
  <2>4. QED BY <1>2, <2>2, <2>3 DEF Init, PendingExcused, StaleAlone, Context
<1>5. Published
  BY <1>2 DEF Init, Published, BootToken, BootSeed, Context
<1>6. FalseAnswerNeedsGiveUp
  BY DEF Init, FalseAnswerNeedsGiveUp
<1>7. QED BY <1>1, <1>3, <1>4, <1>5, <1>6 DEF EpochInv

\* One conjunct of the invariant at a time.
LEMMA NextEpochInv ==
    ASSUME HookInstalled = FALSE
    PROVE  EpochInv /\ [Next]_vars => EpochInv'
<1> SUFFICES ASSUME EpochInv, [Next]_vars PROVE EpochInv'
  OBVIOUS
<1>1. TypeOK'
  BY NextTypeOK DEF EpochInv
<1>2. Provenance' /\ InTurn'
  BY <1>1, NextProvenance, NextInTurn DEF EpochInv
<1>3. Counted' /\ RingExcused' /\ PendingExcused' /\ StaleAlone' /\ Published'
  BY <1>1, NextCounted, NextRingExcused, NextPendingExcused, NextStaleAlone, NextPublished
<1>4. QED BY <1>1, <1>2, <1>3, NextFalseAnswer DEF EpochInv

(* With the foreground alone, and for any number of reboots of the RP, an   *)
(* answer that the command did not earn comes only after an earlier command *)
(* that carried the same token was given up and ran after all.              *)
THEOREM FalseAnswer ==
    ASSUME HookInstalled = FALSE
    PROVE  Spec => []FalseAnswerNeedsGiveUp
<1>1. EpochInv => FalseAnswerNeedsGiveUp
  BY DEF EpochInv
<1>2. QED BY InitEpochInv, NextEpochInv, <1>1, PTL DEF Spec

----------------------------------------------------------------------------
(* With the foreground alone the channel implements its contract.          *)

\* While the RP stays up, no token of a command answered or of an earlier one
\* can be drawn again, so whoever shares a token has been given up, and so
\* has every command in between.
Abandonment ==
    boots = 0 =>
        /\ Busy => \A c \in Command : \A t \in toks[c] : t <= want["fg"]
        /\ \A c, d \in Command : d <= c /\ outcome[c] = "ok" =>
               \A t \in toks[d] : t < seedCell
        /\ \A c, d \in Command : c < d /\ ShareToken(c, d) =>
               \A e \in c..(d - 1) : outcome[e] = "gaveUp"

ContractInv == EpochInv /\ Freshness /\ Abandonment

\* Before the first command no token has been carried.
LEMMA InitAbandonment == Init => Abandonment
BY DEF Init, Abandonment, Busy, ShareToken, Context, Command

\* The newest command n draws the seed: whoever holds it already has not been
\* answered, nor has anyone since.
LEMMA DrawAbandons ==
    ASSUME EpochTypes, TypeOK, Freshness, Abandonment, boots = 0, boots' = 0,
           NEW n \in Command, n > issued \/ (n = issued /\ Busy),
           n <= issued + 1, Busy => n = issued,
           toks' = [toks EXCEPT ![n] = @ \cup {seedCell}],
           seedCell' = seedCell, want'["fg"] = seedCell,
           \A e \in Command \ {n} : outcome'[e] = outcome[e],
           outcome'[n] = "open"
    PROVE  Abandonment'
<1>0. /\ n \in Nat /\ issued \in Nat /\ Command \subseteq Nat /\ seedCell \in Int
      /\ toks \in [Command -> SUBSET Int]
  BY DEF EpochTypes
<1>1. \A c \in Command : \A t \in toks[c] : t \in Int /\ t <= seedCell
  BY <1>0 DEF Freshness
<1>2. \A c \in Command : \A t \in toks'[c] : t \in toks[c] \/ (c = n /\ t = seedCell)
  BY <1>0
<1>3. \A c \in Command : \A t \in toks'[c] : t <= want'["fg"]
  BY <1>0, <1>1, <1>2
<1>4. \A e \in Command : e > n => outcome[e] = "unsent" /\ toks[e] = {}
  BY <1>0 DEF Freshness
<1>5. ASSUME NEW c \in Command, NEW d \in Command, d <= c, outcome'[c] = "ok",
             NEW t \in toks'[d]
      PROVE  t < seedCell'
  <2>1. c # n /\ outcome[c] = "ok"
    BY <1>5
  <2>2. c < n
    BY <1>0, <1>4, <2>1
  <2>3. d # n
    BY <1>0, <1>5, <2>2
  <2>4. QED BY <1>2, <1>5, <2>1, <2>3 DEF Abandonment
<1>6. ASSUME NEW c \in Command, NEW d \in Command, c < d, ShareToken(c, d)',
             NEW e \in c..(d - 1)
      PROVE  outcome'[e] = "gaveUp"
  <2>1. PICK t : t \in toks'[c] /\ t \in toks'[d]
    BY <1>6 DEF ShareToken
  <2>2. d <= n
    <3>1. toks'[d] # {}
      BY <2>1
    <3>2. d > n => toks'[d] = {}
      BY <1>0, <1>4
    <3>3. QED BY <1>0, <3>1, <3>2
  <2>3. c # n /\ e \in Command /\ e # n /\ e < d
    BY <1>0, <1>6, <2>2 DEF Command
  <2>4. t \in toks[c]
    BY <1>2, <2>1, <2>3
  <2>5. CASE t \in toks[d]
    BY <1>6, <2>3, <2>4, <2>5 DEF Abandonment, ShareToken
  <2>6. CASE t \notin toks[d]
    <3>1. d = n /\ t = seedCell
      BY <1>2, <2>1, <2>6
    <3>2. c <= e
      BY <1>0, <1>6
    <3>3. outcome[e] # "ok"
      BY <1>0, <2>3, <2>4, <3>1, <3>2 DEF Abandonment
    <3>4. e <= issued
      BY <1>0, <2>3, <3>1
    <3>5. outcome[e] # "unsent"
      BY <1>0, <2>3, <3>4 DEF Freshness
    <3>6. outcome[e] # "open"
      BY <1>0, <2>3, <3>1 DEF Freshness, Busy
    <3>7. outcome[e] = "gaveUp"
      BY <2>3, <3>3, <3>5, <3>6 DEF EpochTypes
    <3>8. QED BY <2>3, <3>7
  <2>7. QED BY <2>5, <2>6
<1>7. QED BY <1>3, <1>5, <1>6 DEF Abandonment

\* Every step keeps Abandonment: a draw, the end of a call and Publish are the
\* steps that touch it.
LEMMA NextAbandonment ==
    ASSUME HookInstalled = FALSE
    PROVE  ContractInv /\ [Next]_vars => Abandonment'
<1> SUFFICES ASSUME ContractInv, [Next]_vars, boots' = 0 PROVE Abandonment'
  BY DEF Abandonment
<1>0. /\ EpochTypes /\ TypeOK /\ InTurn /\ Counted /\ Freshness /\ Abandonment /\ EpochInv
      /\ Command \subseteq Nat
  BY TypesOfEpoch DEF ContractInv, EpochInv, EpochTypes
<1>1. CASE Begin("fg")
  <2>1. /\ boots = 0 /\ ~Busy /\ issued + 1 \in Command /\ seedCell' = seedCell
        /\ toks' = [toks EXCEPT ![issued + 1] = @ \cup {seedCell}]
        /\ outcome' = [outcome EXCEPT ![issued + 1] = "open"]
        /\ want'["fg"] = seedCell
    BY <1>0, <1>1 DEF Begin, ReadSeed, Busy, EpochTypes, Command, cells
  <2>2. /\ issued + 1 > issued /\ issued + 1 <= issued + 1
        /\ \A e \in Command \ {issued + 1} : outcome'[e] = outcome[e]
        /\ outcome'[issued + 1] = "open"
    BY <1>0, <2>1 DEF EpochTypes
  <2>3. QED BY <1>0, <2>1, <2>2, DrawAbandons
<1>2. CASE Resend("fg")
  <2>1. /\ boots = 0 /\ Busy /\ issued \in Command /\ seedCell' = seedCell
        /\ toks' = [toks EXCEPT ![issued] = @ \cup {seedCell}]
        /\ outcome' = outcome /\ outcome[issued] = "open" /\ want'["fg"] = seedCell
    BY <1>0, <1>2 DEF Resend, ReadSeed, Busy, EpochTypes, Counted, cells
  <2>2. issued <= issued + 1
    BY <1>0 DEF EpochTypes
  <2>3. QED BY <1>0, <2>1, <2>2, DrawAbandons
<1>3. CASE Accept("fg") \/ GiveUp("fg")
  <2>1. /\ Busy /\ ~Busy' /\ issued \in Command /\ outcome[issued] = "open"
        /\ UNCHANGED <<toks, seedCell, boots, want>>
        /\ \A c \in Command : c # issued => outcome'[c] = outcome[c]
        /\ GiveUp("fg") => outcome'[issued] = "gaveUp"
    BY <1>0, <1>3, EpochReturns
  <2>2. ASSUME NEW c \in Command, NEW d \in Command, d <= c, outcome'[c] = "ok",
               NEW t \in toks[d]
        PROVE  t < seedCell
    <3>1. CASE c # issued
      BY <1>0, <1>3, <2>1, <2>2, <3>1 DEF Abandonment
    <3>2. CASE c = issued
      <4>1. Accept("fg")
        BY <1>3, <2>1, <2>2, <3>2
      <4>2. want["fg"] <= seedCell /\ want["fg"] # seedCell /\ t <= want["fg"]
        BY <1>0, <2>1, <4>1 DEF Accept, Freshness, Abandonment, Busy
      <4>3. t \in Int /\ want["fg"] \in Int /\ seedCell \in Int
        BY <1>0 DEF EpochTypes
      <4>4. QED BY <4>2, <4>3
    <3>3. QED BY <3>1, <3>2
  <2>3. ASSUME NEW c \in Command, NEW d \in Command, c < d, ShareToken(c, d),
               NEW e \in c..(d - 1)
        PROVE  outcome'[e] = "gaveUp"
    <3>1. e \in Command /\ outcome[e] = "gaveUp"
      BY <1>0, <2>1, <2>3 DEF Abandonment, Command
    <3>2. QED BY <2>1, <3>1
  <2>4. QED BY <2>1, <2>2, <2>3 DEF Abandonment, ShareToken
<1>4. CASE Publish
  <2>1. seedCell' = count + 1 /\ UNCHANGED <<pc, toks, outcome, want, boots>>
    BY <1>4 DEF Publish, stVars
  <2>2. seedCell < count + 1 /\ seedCell \in Int /\ count \in Int
    BY <1>0, <2>1 DEF Freshness, EpochTypes
  <2>3. \A c \in Command : \A t \in toks[c] : t \in Int
    BY <1>0 DEF EpochTypes
  <2>4. \A c, d \in Command : d <= c /\ outcome[c] = "ok" => \A t \in toks[d] : t < count + 1
    BY <1>0, <2>1, <2>2, <2>3 DEF Abandonment
  <2>5. QED BY <1>0, <2>1, <2>4 DEF Abandonment, Busy, ShareToken
<1>5. CASE SeeToken("fg") \/ NotReady("fg") \/ HeaderOut \/ ChecksumOut
  <2>1. Busy /\ UNCHANGED <<toks, outcome, want, boots, seedCell>>
    BY <1>0, <1>5 DEF SeeToken, NotReady, HeaderOut, ChecksumOut, Busy, cells
  <2>2. QED BY <1>0, <2>1 DEF Abandonment, Busy, ShareToken
<1>6. CASE Poll \/ Overrun \/ Dispatch \/ UNCHANGED vars
  <2>1. UNCHANGED <<pc, toks, outcome, want, boots, seedCell>>
    BY <1>6 DEF Poll, Overrun, Dispatch, stVars, cells, vars
  <2>2. QED BY <1>0, <2>1 DEF Abandonment, Busy, ShareToken
<1>7. CASE Reboot
  BY <1>0, <1>7 DEF Reboot, EpochTypes
<1>8. QED
  BY <1>0, <1>1, <1>2, <1>3, <1>4, <1>5, <1>6, <1>7, ForegroundSteps

\* The frames on their way: the one being handled and those in the ring.
LEMMA FlyingIs ==
    ASSUME EpochTypes
    PROVE  /\ Flying \in Seq(Command)
           /\ rpc = "pending" =>
                 /\ Flying # <<>> /\ Head(Flying) = pending.cmd
                 /\ Tail(Flying) = [i \in 1..Len(ring) |-> ring[i].cmd]
           /\ rpc # "pending" => Flying = [i \in 1..Len(ring) |-> ring[i].cmd]
<1> DEFINE R == [i \in 1..Len(ring) |-> ring[i].cmd]
<1>1. R \in Seq(Command) /\ Len(R) = Len(ring)
  BY DEF EpochTypes
<1>2. Flying = Handled \o R
  BY DEF Flying
<1> HIDE DEF R
<1>3. CASE rpc = "pending"
  <2>1. Handled = <<pending.cmd>> /\ pending.cmd \in Command
    BY <1>3 DEF Handled, EpochTypes
  <2>2. QED BY <1>1, <1>2, <1>3, <2>1 DEF R
<1>4. CASE rpc # "pending"
  BY <1>1, <1>2, <1>4 DEF Handled, R
<1>5. QED BY <1>3, <1>4

\* What is on its way follows from the ring, the frame being handled and rpc.
LEMMA FlyingKept ==
    ASSUME ring' = ring, rpc' = "pending" <=> rpc = "pending",
           rpc = "pending" => pending' = pending
    PROVE  Flying' = Flying
BY DEF Flying, Handled

\* The sequence of the first element.
LEMMA FirstOf ==
    ASSUME NEW s \in Seq(Command), Len(s) > 0
    PROVE  SubSeq(s, 1, 1) = <<s[1]>>
<1>1. SubSeq(s, 1, 1) \in Seq(Command) /\ Len(SubSeq(s, 1, 1)) = 1 /\ SubSeq(s, 1, 1)[1] = s[1]
  OBVIOUS
<1>2. <<s[1]>> \in Seq(Command) /\ Len(<<s[1]>>) = 1 /\ <<s[1]>>[1] = s[1]
  OBVIOUS
<1> DEFINE a == SubSeq(s, 1, 1)  b == <<s[1]>>
<1>3. Len(a) = Len(b) /\ \A i \in 1..Len(a) : a[i] = b[i]
  BY <1>1, <1>2
<1>4. a \in Seq(Command) /\ b \in Seq(Command)
  BY <1>1, <1>2
<1> HIDE DEF a, b
<1>5. a = b
  BY <1>3, <1>4, SeqEqual
<1>6. QED BY <1>5 DEF a, b

\* A poll loses the frames it drops: those after the first, up to the k-th.
LEMMA PollLoses ==
    ASSUME EpochTypes, EpochTypes', Poll
    PROVE  \E i \in 0..Len(Flying) : \E j \in i..Len(Flying) :
              Flying' = SubSeq(Flying, 1, i) \o SubSeq(Flying, j + 1, Len(Flying))
<1>1. PICK k \in 1..Len(ring) : ring' = SubSeq(ring, k + 1, Len(ring))
  BY DEF Poll
<1>2. /\ rpc = "idle" /\ rpc' = "pending" /\ pending' = ring[1]
      /\ ring \in Seq(Frame) /\ Len(ring) \in Nat /\ Len(ring) > 0
  BY DEF Poll, EpochTypes
<1> DEFINE F == Flying
           G == SubSeq(F, 1, 1) \o SubSeq(F, k + 1, Len(F))
           R == [i \in 1..Len(ring') |-> ring'[i].cmd]
<1>3. F \in Seq(Command) /\ F = [i \in 1..Len(ring) |-> ring[i].cmd]
  BY <1>2, FlyingIs
<1>4. Len(F) = Len(ring) /\ \A i \in 1..Len(ring) : F[i] = ring[i].cmd
  BY <1>2, <1>3
<1>5. Len(ring') = Len(ring) - k /\ \A i \in 1..(Len(ring) - k) : ring'[i] = ring[i + k]
  BY <1>1, <1>2
<1>6. Flying' = <<ring[1].cmd>> \o R
  BY <1>2 DEF Flying, Handled
<1>7. R = [i \in 1..(Len(ring) - k) |-> ring[i + k].cmd]
  BY <1>5
<1>8. SubSeq(F, k + 1, Len(F)) = [i \in 1..(Len(ring) - k) |-> F[i + k]]
  BY <1>2, <1>3, <1>4
<1>9. \A i \in 1..(Len(ring) - k) : i + k \in 1..Len(ring)
  BY <1>2
<1>10. SubSeq(F, k + 1, Len(F)) = R
  BY <1>4, <1>7, <1>8, <1>9
<1>11. SubSeq(F, 1, 1) = <<ring[1].cmd>>
  <2>1. F[1] = ring[1].cmd /\ Len(F) > 0
    BY <1>2, <1>4
  <2>2. F \in Seq(Command)
    BY <1>3
  <2> HIDE DEF F
  <2>3. QED BY <2>1, <2>2, FirstOf
<1>12. Flying' = G
  BY <1>6, <1>10, <1>11
<1>13. 1 \in 0..Len(Flying) /\ k \in 1..Len(Flying)
  BY <1>2, <1>4
<1> HIDE DEF F
<1>14. QED BY <1>12, <1>13 DEF F

\* An answer accepted shows what the contract says it shows.
LEMMA AnswerShows ==
    ASSUME ContractInv, Accept("fg")
    PROVE  IF boots = 0
           THEN lastRun > 0 /\ Channel!AbandonedFrom(lastRun)
           ELSE \E d \in 1..issued :
                   executed[d] > 0 /\ (d = issued \/ outcome[d] = "gaveUp")
<1>0. /\ EpochTypes /\ TypeOK /\ InTurn /\ Provenance /\ Published /\ Freshness /\ Abandonment
      /\ Command \subseteq Nat /\ "fg" \in Context
  BY TypesOfEpoch DEF ContractInv, EpochInv, EpochTypes
<1>1. Busy /\ cur["fg"] = issued /\ issued \in Command /\ want["fg"] \in toks[issued]
  BY <1>0 DEF Accept, Busy, EpochTypes
<1>2. CASE boots = 0
  <2>1. PICK d \in Command : want["fg"] \in toks[d] /\ executed[d] > 0
    BY <1>0 DEF Accept, Provenance, Carried
  <2>2. d <= lastRun /\ lastRun <= issued /\ lastRun \in Nat /\ d \in Nat /\ d > 0
        /\ issued \in Nat
    BY <1>0, <1>2, <2>1 DEF InTurn, TypeOK, Command
  <2>3. \A e \in d..(issued - 1) : outcome[e] = "gaveUp"
    <3>1. CASE d < issued
      BY <1>0, <1>1, <1>2, <2>1, <3>1 DEF Abandonment, ShareToken
    <3>2. CASE ~(d < issued)
      BY <2>2, <3>2
    <3>3. QED BY <3>1, <3>2
  <2>4. lastRun > 0
    BY <2>2
  <2>5. \A e \in lastRun..(issued - 1) : e \in d..(issued - 1)
    BY <2>2
  <2>6. QED BY <1>2, <2>3, <2>4, <2>5 DEF Channel!AbandonedFrom
<1>3. CASE boots # 0
  <2>1. Earned(issued)
    BY <1>0 DEF Accept, Published
  <2>2. issued \in 1..issued /\ \A d \in 1..(issued - 1) : d \in 1..issued
    BY <1>0, <1>1 DEF Command
  <2>3. QED BY <1>3, <2>1, <2>2 DEF Earned
<1>4. QED BY <1>2, <1>3

\* Every step of the channel is a step of its contract, or changes nothing of it.
LEMMA SendSyncStep ==
    ASSUME HookInstalled = FALSE, ContractInv, EpochTypes', [Next]_vars
    PROVE  [Channel!ContractNext]_(Channel!contractVars)
<1>0. EpochTypes /\ TypeOK /\ InTurn /\ Counted /\ "fg" \in Context
      /\ left \in [Context -> Nat]
  BY TypesOfEpoch DEF ContractInv, EpochInv, EpochTypes, TypeOK
<1>1. CASE Begin("fg")
  <2>1. /\ Phase = "idle" /\ Phase' = "sending" /\ left'["fg"] = Retries
        /\ issued < MaxCmds /\ issued' = issued + 1
        /\ outcome' = [outcome EXCEPT ![issued + 1] = "open"]
        /\ UNCHANGED <<executed, lastRun, boots, ring, rpc, pending>>
    BY <1>0, <1>1 DEF Begin, ReadSeed, Phase, EpochTypes
  <2>2. Flying' = Flying
    BY <2>1, FlyingKept
  <2>3. Channel!Call
    BY <2>1, <2>2 DEF Channel!Call
  <2>4. QED BY <2>3 DEF Channel!ContractNext
<1>2. CASE Resend("fg")
  <2>1. /\ Phase = "waiting" /\ Phase' = "sending" /\ left["fg"] > 0
        /\ left'["fg"] = left["fg"] - 1
        /\ UNCHANGED <<issued, outcome, executed, lastRun, boots, ring, rpc, pending>>
    BY <1>0, <1>2 DEF Resend, ReadSeed, Phase, EpochTypes
  <2>2. Flying' = Flying
    BY <2>1, FlyingKept
  <2>3. Channel!TryAgain
    BY <2>1, <2>2 DEF Channel!TryAgain
  <2>4. QED BY <2>3 DEF Channel!ContractNext
<1>3. CASE Accept("fg") \/ GiveUp("fg")
  <2>1. /\ Phase = "waiting" /\ Phase' = "idle" /\ left' = left /\ cur["fg"] = issued
        /\ UNCHANGED <<issued, executed, lastRun, boots, ring, rpc, pending>>
    BY <1>0, <1>3 DEF Accept, GiveUp, Phase, EpochTypes, Busy
  <2>2. Flying' = Flying
    BY <2>1, FlyingKept
  <2>3. CASE Accept("fg")
    <3>1. Channel!Return("ok")
      BY <2>1, <2>2, <2>3 DEF Accept, Channel!Return
    <3>2. Channel!Answered
      BY <2>3, <3>1, AnswerShows DEF Channel!Answered
    <3>3. QED BY <3>2 DEF Channel!ContractNext
  <2>4. CASE GiveUp("fg")
    <3>1. Channel!Return("gaveUp") /\ left["fg"] = 0
      BY <2>1, <2>2, <2>4 DEF GiveUp, Channel!Return
    <3>2. QED BY <3>1 DEF Channel!GivenUp, Channel!ContractNext
  <2>5. QED BY <1>3, <2>3, <2>4
<1>4. CASE ChecksumOut
  <2>1. /\ Phase = "sending" /\ Phase' = "waiting" /\ cur["fg"] = issued /\ issued \in Command
        /\ UNCHANGED <<issued, outcome, left, executed, lastRun, boots, rpc, pending>>
    BY <1>0, <1>4 DEF ChecksumOut, Phase, EpochTypes, Busy
  <2>2. Flying' \in {Flying, Append(Flying, issued)}
    <3>1. CASE ring' = ring
      BY <2>1, <3>1, FlyingKept
    <3>2. CASE ring' = Append(ring, FrameOf("fg"))
      <4> DEFINE R == [i \in 1..Len(ring) |-> ring[i].cmd]
                 S == [i \in 1..Len(ring') |-> ring'[i].cmd]
      <4>1. ring \in Seq(Frame) /\ FrameOf("fg").cmd = issued
        BY <1>0, <2>1 DEF EpochTypes, FrameOf
      <4>2. Len(ring') = Len(ring) + 1 /\ ring'[Len(ring) + 1].cmd = issued
            /\ \A i \in 1..Len(ring) : ring'[i] = ring[i]
        BY <3>2, <4>1
      <4>3. R \in Seq(Command) /\ Len(R) = Len(ring)
        BY <1>0 DEF EpochTypes
      <4>4. S = Append(R, issued)
        BY <4>1, <4>2, <4>3
      <4>5. Handled' = Handled /\ Handled \in Seq(Command)
        BY <1>0, <2>1 DEF Handled, EpochTypes
      <4>6. Flying = Handled \o R /\ Flying' = Handled' \o S
        BY DEF Flying
      <4> HIDE DEF R, S
      <4>7. Handled \o Append(R, issued) = Append(Handled \o R, issued)
        BY <2>1, <4>3, <4>5
      <4>8. QED BY <4>4, <4>5, <4>6, <4>7
    <3>3. QED BY <1>4, <3>1, <3>2 DEF ChecksumOut
  <2>3. Channel!Sent
    BY <2>1, <2>2 DEF Channel!Sent
  <2>4. QED BY <2>3 DEF Channel!ContractNext
<1>5. CASE SeeToken("fg") \/ NotReady("fg") \/ HeaderOut \/ Publish \/ UNCHANGED vars
  <2>1. /\ Phase' = Phase
        /\ UNCHANGED <<issued, outcome, left, executed, lastRun, boots>>
    BY <1>0, <1>5 DEF SeeToken, NotReady, HeaderOut, Publish, Phase, EpochTypes, stVars, vars
  <2>2. Flying' = Flying
    BY <1>5, FlyingKept DEF SeeToken, NotReady, HeaderOut, Publish, vars
  <2>3. QED BY <2>1, <2>2 DEF Channel!contractVars
<1>6. CASE Poll \/ Overrun
  <2>1. /\ Phase' = Phase
        /\ UNCHANGED <<issued, outcome, left, executed, lastRun, boots>>
    BY <1>6 DEF Poll, Overrun, Phase, stVars
  <2>2. \E i \in 0..Len(Flying) : \E j \in i..Len(Flying) :
           Flying' = SubSeq(Flying, 1, i) \o SubSeq(Flying, j + 1, Len(Flying))
    <3>1. CASE Poll
      BY <1>0, <3>1, PollLoses
    <3>2. CASE Overrun
      <4>1. rpc' = "idle" /\ ring' = <<>>
        BY <3>2 DEF Overrun
      <4>2. Flying' = <<>>
        BY <4>1 DEF Flying, Handled
      <4>3. Flying \in Seq(Command)
        BY <1>0, FlyingIs
      <4>4. /\ SubSeq(Flying, 1, 0) \o SubSeq(Flying, Len(Flying) + 1, Len(Flying)) = <<>>
            /\ Len(Flying) \in Nat
        BY <4>3
      <4>5. 0 \in 0..Len(Flying) /\ Len(Flying) \in 0..Len(Flying)
        BY <4>4
      <4>6. QED BY <4>2, <4>4, <4>5
    <3>3. QED BY <1>6, <3>1, <3>2
  <2>3. Channel!Lost
    BY <2>1, <2>2 DEF Channel!Lost
  <2>4. QED BY <2>3 DEF Channel!ContractNext
<1>7. CASE Dispatch
  <2>1. /\ rpc = "pending" /\ rpc' # "pending" /\ ring' = ring /\ Phase' = Phase
        /\ executed' = [executed EXCEPT ![pending.cmd] = @ + 1] /\ lastRun' = pending.cmd
        /\ UNCHANGED <<issued, outcome, left, boots>>
    BY <1>7 DEF Dispatch, Phase, stVars
  <2>2. Flying # <<>> /\ Head(Flying) = pending.cmd
        /\ Tail(Flying) = [i \in 1..Len(ring) |-> ring[i].cmd]
    BY <1>0, <2>1, FlyingIs
  <2>3. Flying' = [i \in 1..Len(ring) |-> ring[i].cmd]
    <3>1. Handled' = <<>>
      BY <2>1 DEF Handled
    <3>2. [i \in 1..Len(ring) |-> ring[i].cmd] \in Seq(Command)
      BY <1>0 DEF EpochTypes
    <3>3. Flying' = Handled' \o [i \in 1..Len(ring) |-> ring[i].cmd]
      BY <2>1 DEF Flying
    <3>4. QED BY <3>1, <3>2, <3>3
  <2>4. Channel!Run
    BY <2>1, <2>2, <2>3 DEF Channel!Run
  <2>5. QED BY <2>4 DEF Channel!ContractNext
<1>8. CASE Reboot
  <2>1. /\ boots < MaxReboots /\ boots' = boots + 1 /\ lastRun' = 0 /\ Phase' = Phase
        /\ ring' = <<>> /\ rpc' = "idle"
        /\ UNCHANGED <<issued, outcome, left, executed>>
    BY <1>8 DEF Reboot, Phase, stVars
  <2>2. Flying' = <<>>
    BY <2>1 DEF Flying, Handled
  <2>3. Channel!RebootOfRP
    BY <2>1, <2>2 DEF Channel!RebootOfRP
  <2>4. QED BY <2>3 DEF Channel!ContractNext
<1>9. QED
  BY <1>0, <1>1, <1>2, <1>3, <1>4, <1>5, <1>6, <1>7, <1>8, ForegroundSteps

\* The initial states of the channel are initial states of its contract.
LEMMA SendSyncInit == Init => Channel!ContractInit
<1> SUFFICES ASSUME Init PROVE Channel!ContractInit
  OBVIOUS
<1>1. Phase = "idle" /\ left["fg"] = 0
  BY DEF Init, Phase, Context
<1>2. Flying = <<>>
  BY DEF Init, Flying, Handled
<1>3. QED BY <1>1, <1>2 DEF Init, Channel!ContractInit, Channel!Commands, Command

(* With the foreground alone, for any number of commands, retries and       *)
(* reboots, the channel implements its contract: what was sent runs in the  *)
(* order it was sent, at most once for each attempt, and an answer shows    *)
(* that the RP has got as far as the command answered, or as one before it  *)
(* from which on all were given up.                                         *)
THEOREM ContractKept ==
    ASSUME HookInstalled = FALSE
    PROVE  Spec => SendSyncKeepsContract
<1>1. Init => ContractInv
  BY InitEpochInv, InitFreshness, InitAbandonment DEF ContractInv
<1>2. ContractInv /\ [Next]_vars => ContractInv'
  <2> SUFFICES ASSUME ContractInv, [Next]_vars PROVE ContractInv'
    OBVIOUS
  <2>1. EpochInv' /\ TypeOK /\ TypeOK'
    BY NextEpochInv, NextTypeOK DEF ContractInv, EpochInv
  <2>2. Freshness'
    BY <2>1, NextFreshness DEF ContractInv
  <2>3. QED BY <2>1, <2>2, NextAbandonment DEF ContractInv
<1>3. ContractInv => EpochTypes
  BY TypesOfEpoch DEF ContractInv
<1>4. ContractInv /\ EpochTypes' /\ [Next]_vars =>
         [Channel!ContractNext]_(Channel!contractVars)
  BY SendSyncStep
<1>5. QED
  BY SendSyncInit, <1>1, <1>2, <1>3, <1>4, PTL
  DEF Spec, SendSyncKeepsContract, Channel!ContractSpec
====
