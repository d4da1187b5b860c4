---- MODULE FwriteContract ----
(***************************************************************************)
(* What Fwrite promises a program: the file grows by the bytes of the      *)
(* caller's buffer, in order, each once; a call that returns its count has *)
(* put all of them in the file; a call may also fail, having written some. *)
(* To a program that writes on after a failed call nothing more is promised *)
(* than that the file is appended to: the next chunk can be answered by    *)
(* the late execution of an abandoned one.                                 *)
(***************************************************************************)
EXTENDS Integers, Sequences

CONSTANTS Calls,    \* bound: number of Fwrite calls
          Sizes     \* byte counts a call may ask for

VARIABLES file,     \* the bytes in the file, <<call, index in its buffer>>
          call,     \* calls made so far
          size,     \* bytes the current call was asked to write
          result    \* per call: "none", "running", "whole" or "failed"

vars == <<file, call, size, result>>

Init ==
    /\ file = <<>> /\ call = 0 /\ size = 0
    /\ result = [k \in 1..Calls |-> "none"]

\* no call before the current one has failed
Clean == \A k \in 1..(call - 1) : result[k] # "failed"

Running == call > 0 /\ result[call] = "running"

\* bytes of the current call that are in the file
Written == IF file # <<>> /\ file[Len(file)][1] = call THEN file[Len(file)][2] ELSE 0

Start(n) ==
    /\ ~Running /\ call < Calls
    /\ call' = call + 1 /\ size' = n
    /\ result' = [result EXCEPT ![call + 1] = "running"]
    /\ UNCHANGED file

\* the next k bytes of the buffer reach the file
Write(k) ==
    /\ Clean /\ Running /\ Written + k <= size
    /\ file' = file \o [i \in 1..k |-> <<call, Written + i>>]
    /\ UNCHANGED <<call, size, result>>

ReturnWhole ==
    /\ Running /\ (Clean => Written = size)
    /\ result' = [result EXCEPT ![call] = "whole"]
    /\ UNCHANGED <<file, call, size>>

ReturnError ==
    /\ Running
    /\ result' = [result EXCEPT ![call] = "failed"]
    /\ UNCHANGED <<file, call, size>>

\* a frame of a failed call can still be waiting on the cartridge
WriteLate(k) ==
    /\ Clean /\ ~Running /\ call > 0 /\ result[call] = "failed"
    /\ Written + k <= size
    /\ file' = file \o [i \in 1..k |-> <<call, Written + i>>]
    /\ UNCHANGED <<call, size, result>>

\* what an abandoned call left behind is written during a later one
AppendAfterError ==
    /\ ~Clean
    /\ Len(file') >= Len(file) /\ SubSeq(file', 1, Len(file)) = file
    /\ UNCHANGED <<call, size, result>>

Next ==
    \/ \E n \in Sizes : Start(n)
    \/ size > 0 /\ \E k \in 1..size : Write(k) \/ WriteLate(k)
    \/ ReturnWhole \/ ReturnError \/ AppendAfterError

Spec == Init /\ [][Next]_vars
====
