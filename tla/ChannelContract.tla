---- MODULE ChannelContract ----
(***************************************************************************)
(* What send_sync promises the handlers of the ST that call it one after   *)
(* another, as long as the interrupt hook sends nothing.  A command is sent *)
(* at most 1 + Retries times; of what was sent anything may be lost, and    *)
(* what is left runs on the RP in the order it was sent.  A call that gives *)
(* up leaves its frames behind it.  A call that is answered shows that the  *)
(* RP has got as far as its command, or as one before it from which on all  *)
(* were given up: the answer to a command given up can come to the next.    *)
(* After a reboot of the RP the answer only shows that the command ran, or  *)
(* some earlier one that was given up.                                      *)
(***************************************************************************)
EXTENDS Integers, Sequences

CONSTANTS
    MaxCmds,        \* bound: commands the ST issues
    Retries,        \* attempts after the first one
    MaxReboots      \* bound: reboots of the RP under a running ST

VARIABLES
    issued,         \* commands issued so far, numbered from 1
    outcome,        \* what the caller of each command was told
    phase,          \* where the newest call is
    left,           \* attempts it has left
    flying,         \* commands of the frames on their way, oldest first
    executed,       \* times each command has run
    lastRun,        \* command whose results the shared cells hold (0: none)
    boots           \* reboots so far

contractVars == <<issued, outcome, phase, left, flying, executed, lastRun, boots>>

Commands == 1..MaxCmds

ContractInit ==
    /\ issued = 0 /\ outcome = [c \in Commands |-> "unsent"]
    /\ phase = "idle" /\ left = 0
    /\ flying = <<>> /\ executed = [c \in Commands |-> 0] /\ lastRun = 0
    /\ boots = 0

Call ==
    /\ phase = "idle" /\ issued < MaxCmds
    /\ issued' = issued + 1
    /\ outcome' = [outcome EXCEPT ![issued + 1] = "open"]
    /\ phase' = "sending" /\ left' = Retries
    /\ UNCHANGED <<flying, executed, lastRun, boots>>

Sent ==
    /\ phase = "sending" /\ phase' = "waiting"
    /\ flying' \in {flying, Append(flying, issued)}
    /\ UNCHANGED <<issued, outcome, left, executed, lastRun, boots>>

TryAgain ==
    /\ phase = "waiting" /\ left > 0
    /\ phase' = "sending" /\ left' = left - 1
    /\ UNCHANGED <<issued, outcome, flying, executed, lastRun, boots>>

Return(how) ==
    /\ phase = "waiting" /\ phase' = "idle"
    /\ outcome' = [outcome EXCEPT ![issued] = how]
    /\ UNCHANGED <<issued, left, flying, executed, lastRun, boots>>

\* every command from d on, up to the newest, was given up
AbandonedFrom(d) == \A e \in d..(issued - 1) : outcome[e] = "gaveUp"

Answered ==
    /\ Return("ok")
    /\ IF boots = 0
       THEN lastRun > 0 /\ AbandonedFrom(lastRun)
       ELSE \E d \in 1..issued :
               executed[d] > 0 /\ (d = issued \/ outcome[d] = "gaveUp")

GivenUp == left = 0 /\ Return("gaveUp")

Run ==
    /\ flying # <<>>
    /\ executed' = [executed EXCEPT ![Head(flying)] = @ + 1]
    /\ lastRun' = Head(flying) /\ flying' = Tail(flying)
    /\ UNCHANGED <<issued, outcome, phase, left, boots>>

\* the frames after the first i and up to the j-th
Lost ==
    /\ \E i \in 0..Len(flying) : \E j \in i..Len(flying) :
          flying' = SubSeq(flying, 1, i) \o SubSeq(flying, j + 1, Len(flying))
    /\ UNCHANGED <<issued, outcome, phase, left, executed, lastRun, boots>>

RebootOfRP ==
    /\ boots < MaxReboots /\ boots' = boots + 1
    /\ flying' = <<>> /\ lastRun' = 0
    /\ UNCHANGED <<issued, outcome, phase, left, executed>>

ContractNext ==
    \/ Call \/ Sent \/ TryAgain \/ Answered \/ GivenUp
    \/ Run \/ Lost \/ RebootOfRP

ContractSpec == ContractInit /\ [][ContractNext]_contractVars
====
