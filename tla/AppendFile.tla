------------------------------ MODULE AppendFile ------------------------------
(***************************************************************************)
(* What a file of ZenFS promises to the program that writes it: bytes are   *)
(* appended in order, a sync makes all of them safe, and a crash keeps the  *)
(* safe ones and cuts the others off at some point.                         *)
(*                                                                          *)
(* Bytes are numbered in the order in which they are handed over; 0 is the  *)
(* zero byte a device block is padded with.                                 *)
(***************************************************************************)
EXTENDS Integers, Sequences

CONSTANT MaxBytes    \* bound: bytes handed over

VARIABLES
  data,     \* the contents of the file
  safe,     \* how many of them a crash must keep
  sent,     \* bytes handed over so far, lost ones included
  slack     \* how many zero bytes a crash may leave behind the contents

vars == <<data, safe, sent, slack>>

Init == data = <<>> /\ safe = 0 /\ sent = 0 /\ slack \in Nat

Write(n) ==
  /\ sent' = sent + n
  /\ data' = data \o [i \in 1..n |-> sent + i]
  /\ UNCHANGED <<safe, slack>>

Sync == safe' = Len(data) /\ UNCHANGED <<data, sent, slack>>

(* Bytes are cut off behind the safe ones, or none are cut off and the      *)
(* padding of the last block shows up as contents.                          *)
Crash ==
  /\ safe' = Len(data')
  /\ \/ \E m \in safe..Len(data) : data' = SubSeq(data, 1, m)
     \/ \E p \in 1..slack : data' = data \o [i \in 1..p |-> 0]
  /\ UNCHANGED <<sent, slack>>

Next == (\E n \in 1..MaxBytes : Write(n)) \/ Sync \/ Crash

Spec == Init /\ [][Next]_vars
=============================================================================
