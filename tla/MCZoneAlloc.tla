------------------------------ MODULE MCZoneAlloc ------------------------------
(* Small instances of ZoneAlloc for model checking.                          *)
EXTENDS ZoneAlloc

CONSTANTS w1, w2, w3, w4, del, gc

(* Lifetimes as in Env::WriteLifeTimeHint: SHORT 2, MEDIUM 3, LONG 4.        *)
MCLifetime == [t \in Writers \cup Collectors |->
                 CASE t = w1 -> 2 [] t = w2 -> 3 [] t = gc -> 3 [] OTHER -> 2]
=============================================================================
