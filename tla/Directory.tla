------------------------------- MODULE Directory -------------------------------
(***************************************************************************)
(* What the namespace of ZenFS promises across crashes: the names a mount   *)
(* finds change by one elementary step at a time, and a crash by itself     *)
(* changes nothing.  A name is never given to a second file while it has    *)
(* one; a file appears under a single name.                                 *)
(***************************************************************************)
CONSTANTS Names, Files, NoFile

VARIABLE dir     \* the file of each name, or NoFile

Free(n) == dir[n] = NoFile

Init == dir = [n \in Names |-> NoFile]

Create(n, f) ==
  /\ Free(n) /\ \A m \in Names : dir[m] # f
  /\ dir' = [dir EXCEPT ![n] = f]

Delete(n) ==
  /\ ~Free(n)
  /\ dir' = [dir EXCEPT ![n] = NoFile]

Link(n, new) ==
  /\ ~Free(n) /\ Free(new)
  /\ dir' = [dir EXCEPT ![new] = dir[n]]

Rename(n, new) ==
  /\ ~Free(n) /\ Free(new)
  /\ dir' = [dir EXCEPT ![new] = dir[n], ![n] = NoFile]

Next ==
  \/ \E n \in Names : Delete(n)
  \/ \E n \in Names, f \in Files : Create(n, f)
  \/ \E n, new \in Names : Link(n, new) \/ Rename(n, new)

Spec == Init /\ [][Next]_dir
=============================================================================
