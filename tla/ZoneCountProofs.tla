--------------------------- MODULE ZoneCountProofs ---------------------------
(***************************************************************************)
(* What the counters of the allocator count: the open and the active zones, *)
(* and the blocks of a zone that files and migrations refer to.             *)
(***************************************************************************)
EXTENDS ZoneUsedProofs, FiniteSetTheorems

(* The cardinality of a finite set with an element added or removed.        *)
LEMMA CardAdd ==
  ASSUME NEW S, IsFiniteSet(S), NEW x
  PROVE  /\ IsFiniteSet(S \cup {x})
         /\ Cardinality(S) \in Nat /\ Cardinality(S \cup {x}) \in Nat
         /\ Cardinality(S \cup {x}) <= Cardinality(S) + 1
<1>1. Cardinality(S) \in Nat
  BY FS_CardinalityType, Zenon
<1>2. IsFiniteSet(S \cup {x})
      /\ Cardinality(S \cup {x}) = IF x \in S THEN Cardinality(S) ELSE Cardinality(S) + 1
  BY FS_AddElement, Zenon
<1> QED
  BY <1>1, <1>2

LEMMA CardRemove ==
  ASSUME NEW S, IsFiniteSet(S), NEW x
  PROVE  /\ IsFiniteSet(S \ {x})
         /\ Cardinality(S) \in Nat /\ Cardinality(S \ {x}) \in Nat
         /\ Cardinality(S \ {x}) <= Cardinality(S)
         /\ x \in S => Cardinality(S \ {x}) = Cardinality(S) - 1
<1>1. Cardinality(S) \in Nat
  BY FS_CardinalityType, Zenon
<1>2. IsFiniteSet(S \ {x})
      /\ Cardinality(S \ {x}) = IF x \in S THEN Cardinality(S) - 1 ELSE Cardinality(S)
  BY FS_RemoveElement, Zenon
<1>3. Cardinality(S \ {x}) \in Nat
  BY <1>2, FS_CardinalityType, Zenon
<1> QED
  BY <1>1, <1>2, <1>3

LEMMA LimitFacts ==
  /\ max_nr_open_io_zones_ \in Nat /\ max_nr_open_io_zones_ < UintSize
  /\ max_nr_active_io_zones_ \in Nat
BY LimitsAssumption, ZonesAssumption DEF max_nr_open_io_zones_, max_nr_active_io_zones_,
   IOLimit, USub, ZENFS_META_ZONES

-----------------------------------------------------------------------------
(* The writers that have an open token and those about to evaluate the      *)
(* predicate of the wait, and how a step can change them, the sleepers, the *)
(* pending notifications and the counter.                                   *)
OpenHolders == {t \in Writers : pc[t] \in OpenLabels}
Waiting == {t \in Writers : pc[t] = "wait"}

OpenSame ==
  /\ open_io_zones_' = open_io_zones_ /\ OpenHolders' = OpenHolders
  /\ Waiting \subseteq Waiting' /\ Asleep' \subseteq Asleep /\ due \subseteq due'
OpenTaken(t) ==
  /\ open_io_zones_ < OpenLimit(t) /\ open_io_zones_' = open_io_zones_ + 1
  /\ t \notin OpenHolders /\ OpenHolders' = OpenHolders \cup {t}
  /\ t \in Waiting /\ Waiting' = Waiting \ {t} /\ Asleep' = Asleep /\ due' = due
OpenAwaited(t) ==         \* t finds no token and goes to sleep
  /\ open_io_zones_ >= OpenLimit(t) /\ open_io_zones_' = open_io_zones_
  /\ t \notin OpenHolders /\ OpenHolders' = OpenHolders
  /\ Waiting' = Waiting \ {t} /\ Asleep' = Asleep \cup {t} /\ due' = due
OpenPut(t) ==
  /\ t \in OpenHolders /\ OpenHolders' = OpenHolders \ {t}
  /\ open_io_zones_' = open_io_zones_ - 1
  /\ Waiting' = Waiting /\ Asleep' = Asleep /\ t \notin due /\ due' = due \cup {t}
OpenLost(t) ==            \* closing the zone failed
  /\ "close" \in Faults
  /\ t \in OpenHolders /\ OpenHolders' = OpenHolders \ {t}
  /\ open_io_zones_' = open_io_zones_
OpenNotified(t) ==        \* notify_one finds nobody asleep
  /\ open_io_zones_' = open_io_zones_ /\ OpenHolders' = OpenHolders
  /\ Asleep = {} /\ Asleep' = {}
OpenWoken(t, w) ==
  /\ open_io_zones_' = open_io_zones_ /\ OpenHolders' = OpenHolders
  /\ Waiting' = Waiting \cup {w} /\ w \notin Waiting /\ Asleep' = Asleep \ {w}
  /\ t \in due /\ due' = due \ {t}
OpenEffect ==
  \/ OpenSame
  \/ \E t \in Writers : OpenTaken(t) \/ OpenAwaited(t) \/ OpenPut(t) \/ OpenLost(t)
  \/ \E t \in Threads : OpenNotified(t)
  \/ \E t \in Threads, w \in Writers : OpenWoken(t, w)

OpenInv ==
  /\ Cardinality(OpenHolders) <= open_io_zones_
  /\ open_io_zones_ <= max_nr_open_io_zones_
  /\ Cardinality(OpenHolders \ Wal) < max_nr_open_io_zones_

LEMMA OpenEffects ==
  ASSUME TypeOK, LocalsFit, [Next]_vars
  PROVE  OpenEffect
<1>0. ZoneTypes /\ FlagTypes /\ CountTypes /\ LocalTypes /\ PcTypes
  BY Zenon DEF TypeOK
<1> USE <1>0
<1> USE ThreadsAssumption
<1> USE DEF zoneVars, tokenVars, fileVars, devVars, At, Goto, Threads
<1>1. ASSUME NEW t \in Threads, NEW from \in LoopLabels,
             SkipBusy(t, from)
      PROVE  OpenSame
  BY <1>1, Zenon DEF OpenSame, OpenHolders, Waiting, Asleep, OpenLabels, PcTypes, CountTypes,
     SkipBusy, LoopLabels
<1>2. ASSUME NEW t \in Threads, NEW from \in LoopLabels, NEW to \in HoldLabels,
             LoopPair(t, from, to), Acquire(t, from, to)
      PROVE  OpenSame
  BY <1>2, Zenon DEF OpenSame, OpenHolders, Waiting, Asleep, OpenLabels, PcTypes, CountTypes,
     Acquire, LoopPair
<1>3. ASSUME NEW t \in Threads, NEW from \in LoopLabels, NEW to \in {"idle", "wait"},
             LeavePair(t, from, to), Leave(t, from, to)
      PROVE  OpenSame
  BY <1>3, Zenon DEF OpenSame, OpenHolders, Waiting, Asleep, OpenLabels, PcTypes, CountTypes,
     Leave, LeavePair, LoopDone, Loop
<1>4. ASSUME NEW t \in Threads, NEW from \in PutLabels, NEW to \in {"idle", "thr", "spin", "rst"},
             PutPair(t, from, to), PutActive(t, from, to)
      PROVE  OpenSame
  BY <1>4, Zenon DEF OpenSame, OpenHolders, Waiting, Asleep, OpenLabels, PcTypes, CountTypes,
     PutActive, PutPair, PutActiveIOZoneToken
<1>5. ASSUME NEW t \in Writers \cup Collectors, NEW held \in {"bestHold", "matchHold"}, NEW back \in {"best", "match"}, NEW n \in Nat,
             BestPair(t, held, back, n), BestInspect(t, held, back, n)
      PROVE  OpenSame
  BY <1>5, Zenon DEF OpenSame, OpenHolders, Waiting, Asleep, OpenLabels, PcTypes, CountTypes,
     BestInspect, BestPair, Pass, Prefer
<1>6. ASSUME NEW t \in Writers, AllocateStart(t) PROVE OpenSame
  BY <1>6 DEF OpenSame, OpenHolders, Waiting, Asleep, OpenLabels, PcTypes,
     CountTypes, AllocateStart, Loop
<1>7. ASSUME NEW t \in Writers, ThresholdInspect(t) PROVE OpenSame
  BY <1>7, Zenon DEF OpenSame, OpenHolders, Waiting, Asleep, OpenLabels, PcTypes, CountTypes,
     ThresholdInspect, Pass, Quit, Loop, FinishZone
<1>8. ASSUME NEW t \in Writers, TakeOpenToken(t) PROVE OpenEffect
  <2>1. OpenTaken(t)
    BY <1>8, Zenon DEF OpenTaken, OpenHolders, Waiting, Asleep, OpenLabels, PcTypes, CountTypes,
       TakeOpenToken, Loop
  <2> QED
    BY <2>1, Zenon DEF OpenEffect
<1>9. ASSUME NEW t \in Writers, WaitOpenToken(t) PROVE OpenEffect
  <2>1. OpenAwaited(t)
    BY <1>9, Zenon DEF OpenAwaited, OpenHolders, Waiting, Asleep, OpenLabels, PcTypes, CountTypes,
       WaitOpenToken
  <2> QED
    BY <2>1, Zenon DEF OpenEffect
<1>10. ASSUME NEW t \in Writers, BestDone(t) PROVE OpenSame
  BY <1>10, Zenon DEF OpenSame, OpenHolders, Waiting, Asleep, OpenLabels, PcTypes, CountTypes,
     BestDone, LoopDone, Loop
<1>11. ASSUME NEW t \in Writers, TryActive(t) PROVE OpenSame
  BY <1>11, Zenon DEF OpenSame, OpenHolders, Waiting, Asleep, OpenLabels, PcTypes, CountTypes,
     TryActive, TakeActiveToken, NoActiveToken, DropCand, Loop
<1>12. ASSUME NEW t \in Writers, Spin(t) PROVE OpenSame
  BY <1>12, Zenon DEF OpenSame, OpenHolders, Waiting, Asleep, OpenLabels, PcTypes, CountTypes,
     Spin, TakeActiveToken, NoActiveToken, Loop
<1>13. ASSUME NEW t \in Writers, CheapestInspect(t) PROVE OpenSame
  BY <1>13, Zenon DEF OpenSame, OpenHolders, Waiting, Asleep, OpenLabels, PcTypes, CountTypes,
     CheapestInspect, Pass, Prefer
<1>14. ASSUME NEW t \in Writers, CheapestFinish(t) PROVE OpenSame
  BY <1>14, Zenon DEF OpenSame, OpenHolders, Waiting, Asleep, OpenLabels, PcTypes, CountTypes,
     CheapestFinish, LoopDone, Loop, DropCand, FinishZone
<1>15. ASSUME NEW t \in Writers, EmptyInspect(t) PROVE OpenSame
  BY <1>15, Zenon DEF OpenSame, OpenHolders, Waiting, Asleep, OpenLabels, PcTypes, CountTypes,
     EmptyInspect, Pass, Loop
<1>16. ASSUME NEW t \in Writers, EmptyNone(t) PROVE OpenSame
  BY <1>16, Zenon DEF OpenSame, OpenHolders, Waiting, Asleep, OpenLabels, PcTypes, CountTypes,
     EmptyNone, LoopDone, Loop, PutActiveIOZoneToken
<1>17. ASSUME NEW t \in Writers, ReturnOpenToken(t) PROVE OpenEffect
  <2>1. OpenPut(t)
    BY <1>17, Zenon DEF OpenPut, OpenHolders, Waiting, Asleep, OpenLabels, PcTypes, CountTypes,
       ReturnOpenToken, PutOpenIOZoneToken
  <2> QED
    BY <2>1, Zenon DEF OpenEffect
<1>18. ASSUME NEW t \in Writers, Append(t) PROVE OpenSame
  BY <1>18, Zenon DEF OpenSame, OpenHolders, Waiting, Asleep, OpenLabels, PcTypes, CountTypes,
     Append
<1>19. ASSUME NEW t \in Writers, PushExtent(t) PROVE OpenSame
  BY <1>19, Zenon DEF OpenSame, OpenHolders, Waiting, Asleep, OpenLabels, PcTypes, CountTypes,
     PushExtent
<1>20. ASSUME NEW t \in Writers, CloseActiveZone(t) PROVE OpenEffect
  <2>1. CASE "closeFailed" = pc'[t]
    BY <1>20, <2>1, Zenon DEF OpenEffect, OpenLost, OpenHolders, Waiting, Asleep, OpenLabels,
       PcTypes, CountTypes, CloseActiveZone, DropCand
  <2>2. CASE "closeFailed" # pc'[t]
    BY <1>20, <2>2, Zenon DEF OpenEffect, OpenSame, OpenHolders, Waiting, Asleep, OpenLabels,
       PcTypes, CountTypes, CloseActiveZone, DropCand
  <2> QED
    BY <2>1, <2>2, Zenon
<1>21. ASSUME NEW t \in Writers, ClosePutOpen(t) PROVE OpenEffect
  <2>1. OpenPut(t)
    BY <1>21, Zenon DEF OpenPut, OpenHolders, Waiting, Asleep, OpenLabels, PcTypes, CountTypes,
       ClosePutOpen, PutOpenIOZoneToken
  <2> QED
    BY <2>1, Zenon DEF OpenEffect
<1>22. ASSUME NEW t \in Writers, CloseError(t) PROVE OpenSame
  BY <1>22, Zenon DEF OpenSame, OpenHolders, Waiting, Asleep, OpenLabels, PcTypes, CountTypes,
     CloseError, SetZoneDeferredStatus
<1>23. ASSUME NEW t \in Writers, SpuriousWakeup(t) PROVE OpenSame
  BY <1>23, Zenon DEF OpenSame, OpenHolders, Waiting, Asleep, OpenLabels, PcTypes, CountTypes,
     SpuriousWakeup
<1>24. ASSUME NEW c \in Cleaners, NEW z \in Zones,
             DeleteExtents(c, z)
      PROVE  OpenSame
  BY <1>24, Zenon DEF OpenSame, OpenHolders, Waiting, Asleep, OpenLabels, PcTypes, CountTypes,
     DeleteExtents, Loop
<1>25. ASSUME NEW c \in Cleaners, LogStart(c) PROVE OpenSame
  BY <1>25, Zenon DEF OpenSame, OpenHolders, Waiting, Asleep, OpenLabels, PcTypes, CountTypes,
     LogStart, Loop
<1>26. ASSUME NEW c \in Cleaners, LogInspect(c) PROVE OpenSame
  BY <1>26, Zenon DEF OpenSame, OpenHolders, Waiting, Asleep, OpenLabels, PcTypes, CountTypes,
     LogInspect, Pass
<1>27. ASSUME NEW c \in Cleaners \cup Collectors,
             ResetInspect(c)
      PROVE  OpenSame
  BY <1>27, Zenon DEF OpenSame, OpenHolders, Waiting, Asleep, OpenLabels, PcTypes, CountTypes,
     ResetInspect, Pass, Quit, Loop
<1>28. ASSUME NEW g \in Collectors, NEW z \in Zones,
             MigrateStart(g, z)
      PROVE  OpenSame
  BY <1>28, Zenon DEF OpenSame, OpenHolders, Waiting, Asleep, OpenLabels, PcTypes, CountTypes,
     MigrateStart
<1>29. ASSUME NEW g \in Collectors, TakeMigrateZone(g) PROVE OpenSame
  BY <1>29, Zenon DEF OpenSame, OpenHolders, Waiting, Asleep, OpenLabels, PcTypes, CountTypes,
     TakeMigrateZone, Loop
<1>30. ASSUME NEW g \in Collectors, MigrateData(g) PROVE OpenSame
  BY <1>30, Zenon DEF OpenSame, OpenHolders, Waiting, Asleep, OpenLabels, PcTypes, CountTypes,
     MigrateData, LoopDone, Loop
<1>31. ASSUME NEW g \in Collectors, ReleaseMigrateZone(g) PROVE OpenSame
  BY <1>31, Zenon DEF OpenSame, OpenHolders, Waiting, Asleep, OpenLabels, PcTypes, CountTypes,
     ReleaseMigrateZone
<1>32. ASSUME NEW g \in Collectors, SyncFileExtents(g) PROVE OpenSame
  BY <1>32, Zenon DEF OpenSame, OpenHolders, Waiting, Asleep, OpenLabels, PcTypes, CountTypes,
     SyncFileExtents, Loop
<1>33. ASSUME NEW t \in Threads, NotifyOne(t) PROVE OpenEffect
  <2>1. CASE Asleep = {}
    <3>1. OpenNotified(t)
      BY <1>33, <2>1, Zenon DEF OpenNotified, OpenHolders, Waiting, Asleep, NotifyOne
    <3> QED
      BY <3>1, Zenon DEF OpenEffect
  <2>2. CASE Asleep # {}
    <3>1. PICK w \in Asleep : pc' = [pc EXCEPT ![w] = "wait"]
      BY <1>33, <2>2, Zenon DEF NotifyOne
    <3>2. OpenWoken(t, w)
      BY <1>33, <3>1 DEF OpenWoken, OpenHolders, OpenLabels, Waiting, Asleep,
         NotifyOne, PcTypes
    <3> QED
      BY <3>2, Zenon DEF OpenEffect, Asleep
  <2> QED
    BY <2>1, <2>2, Zenon
<1>34. CASE UNCHANGED vars
  BY <1>34, Zenon DEF vars, OpenEffect, OpenSame, OpenHolders, Waiting, Asleep
<1> HIDE DEF zoneVars, tokenVars, fileVars, devVars, At, Goto, Threads
<1>35. OpenEffect \/ OpenSame
  BY NextCases, <1>1, <1>2, <1>3, <1>4, <1>5, <1>6, <1>7, <1>8, <1>9, <1>10,
     <1>11, <1>12, <1>13, <1>14, <1>15, <1>16, <1>17, <1>18, <1>19, <1>20,
     <1>21, <1>22, <1>23, <1>24, <1>25, <1>26, <1>27, <1>28, <1>29, <1>30,
     <1>31, <1>32, <1>33, <1>34, ZenonT(60) DEF AnyStep
<1> QED
  BY <1>35, Zenon DEF OpenEffect

LEMMA HoldersFinite ==
  /\ IsFiniteSet(OpenHolders) /\ Cardinality(OpenHolders) \in Nat
  /\ IsFiniteSet(OpenHolders \ Wal) /\ Cardinality(OpenHolders \ Wal) \in Nat
  /\ Cardinality(OpenHolders \ Wal) <= Cardinality(OpenHolders)
<1>1. IsFiniteSet(OpenHolders)
  BY ThreadsAssumption, FS_Subset, Zenon DEF OpenHolders
<1>2. IsFiniteSet(OpenHolders \ Wal) /\ Cardinality(OpenHolders \ Wal) <= Cardinality(OpenHolders)
  BY <1>1, FS_Subset, Zenon
<1> QED
  BY <1>1, <1>2, FS_CardinalityType, Zenon

LEMMA LimitUnchanged == UNCHANGED max_nr_open_io_zones_
BY Zenon DEF max_nr_open_io_zones_, IOLimit, USub, ZENFS_META_ZONES

LEMMA OpenStep ==
  ASSUME TypeOK, LocalsFit, [Next]_vars, OpenInv
  PROVE  OpenInv'
<1> DEFINE H == OpenHolders
           N == OpenHolders \ Wal
<1>1. /\ IsFiniteSet(H) /\ Cardinality(H) \in Nat
      /\ IsFiniteSet(N) /\ Cardinality(N) \in Nat /\ Cardinality(N) <= Cardinality(H)
  BY HoldersFinite, Zenon
<1>2. open_io_zones_ \in Int
  BY Zenon DEF TypeOK, CountTypes
<1>3. UNCHANGED max_nr_open_io_zones_
  BY LimitUnchanged, Zenon
<1>4. ASSUME open_io_zones_' = open_io_zones_, OpenHolders' = OpenHolders PROVE OpenInv'
  BY <1>3, <1>4, Zenon DEF OpenInv
<1>5. ASSUME NEW t \in Writers, OpenTaken(t) PROVE OpenInv'
  <2>1. Cardinality(H \cup {t}) \in Nat /\ Cardinality(H \cup {t}) <= Cardinality(H) + 1
    BY <1>1, CardAdd, Zenon
  <2>2. CASE t \in Wal
    <3>1. OpenHolders' \ Wal = N /\ OpenHolders' = H \cup {t}
      BY <1>5, <2>2, Zenon DEF OpenTaken
    <3>2. open_io_zones_' <= max_nr_open_io_zones_
      BY <1>2, <1>5, <2>2, LimitFacts DEF OpenTaken, OpenLimit
    <3> QED
      BY <1>1, <1>2, <1>3, <1>5, <2>1, <3>1, <3>2, LimitFacts
         DEF OpenTaken, OpenInv
  <2>3. CASE t \notin Wal
    <3>1. OpenHolders' \ Wal = N \cup {t} /\ OpenHolders' = H \cup {t}
      BY <1>5, <2>3, Zenon DEF OpenTaken
    <3>2. open_io_zones_ < max_nr_open_io_zones_ - 1
      BY <1>1, <1>2, <1>5, <2>3, LimitFacts DEF OpenTaken, OpenLimit, USub, OpenInv
    <3>3. Cardinality(N \cup {t}) \in Nat /\ Cardinality(N \cup {t}) <= Cardinality(N) + 1
      BY <1>1, CardAdd, Zenon
    <3> QED
      BY <1>1, <1>2, <1>3, <1>5, <2>1, <3>1, <3>2, <3>3, LimitFacts
         DEF OpenTaken, OpenInv
  <2> QED
    BY <2>2, <2>3, Zenon
<1>6. ASSUME NEW t \in OpenHolders, OpenHolders' = OpenHolders \ {t},
             open_io_zones_' \in {open_io_zones_, open_io_zones_ - 1}
      PROVE  OpenInv'
  <2>1. Cardinality(H \ {t}) = Cardinality(H) - 1
    BY <1>1, CardRemove, Zenon
  <2>2. OpenHolders' \ Wal = N \ {t}
    BY <1>6, Zenon
  <2>3. Cardinality(N \ {t}) <= Cardinality(N) /\ Cardinality(N \ {t}) \in Nat
    BY <1>1, CardRemove, Zenon
  <2> QED
    BY <1>1, <1>2, <1>3, <1>6, <2>1, <2>2, <2>3, LimitFacts DEF OpenInv
<1>7. ASSUME NEW t \in Writers, OpenPut(t) \/ OpenLost(t) PROVE OpenInv'
  BY <1>6, <1>7, Zenon DEF OpenPut, OpenLost
<1> QED
  BY <1>4, <1>5, <1>7, OpenEffects, Zenon
     DEF OpenEffect, OpenSame, OpenAwaited, OpenNotified, OpenWoken

LEMMA OpenInit ==
  ASSUME max_nr_open_io_zones_ >= 1, Init
  PROVE  OpenInv /\ open_io_zones_ = 0 /\ OpenHolders = {} /\ Asleep = {}
<1>1. OpenHolders = {} /\ Asleep = {}
  BY Zenon DEF Init, OpenHolders, OpenLabels, Asleep, Threads
<1> QED
  BY <1>1, LimitFacts, FS_EmptySet DEF Init, OpenInv

(* On a device that leaves at least one open zone for IO, the files being   *)
(* written never keep more zones open than that, and files other than WALs  *)
(* always leave one of them free.                                           *)
THEOREM OpenZonesBoundedCorrect ==
  ASSUME max_nr_open_io_zones_ >= 1
  PROVE  Spec => []OpenZonesBounded
<1>1. Init => TypeOK /\ LocalsFit /\ OpenInv
  BY TypeInit, OpenInit, Zenon
<1>2. TypeOK /\ LocalsFit /\ OpenInv /\ [Next]_vars => TypeOK' /\ LocalsFit' /\ OpenInv'
  BY TypeStep, OpenStep, Zenon
<1>3. OpenInv /\ TypeOK => OpenZonesBounded
  <2> SUFFICES ASSUME OpenInv, TypeOK PROVE OpenZonesBounded
    BY Zenon
  <2> DEFINE W == {t \in Writers : pc[t] = "writing"}
  <2>1. W \subseteq OpenHolders /\ W \ Wal \subseteq OpenHolders \ Wal
    BY Zenon DEF OpenHolders, OpenLabels
  <2>2. /\ Cardinality(W) <= Cardinality(OpenHolders) /\ Cardinality(W) \in Nat
        /\ Cardinality(W \ Wal) <= Cardinality(OpenHolders \ Wal)
        /\ Cardinality(W \ Wal) \in Nat
    BY <2>1, HoldersFinite, FS_Subset, FS_CardinalityType, Zenon
  <2> QED
    BY <2>2, HoldersFinite, LimitFacts DEF OpenInv, OpenZonesBounded, TypeOK, CountTypes
<1> QED
  BY <1>1, <1>2, <1>3, PTL DEF Spec

-----------------------------------------------------------------------------
(* Every open token is held.  The token of a zone whose close fails is the  *)
(* one the code loses, hence the assumption.                                *)
HoldersCounted == open_io_zones_ = Cardinality(OpenHolders)

LEMMA CountStep ==
  ASSUME "close" \notin Faults, TypeOK, LocalsFit, [Next]_vars, HoldersCounted
  PROVE  HoldersCounted'
<1>1. open_io_zones_ \in Int
  BY Zenon DEF TypeOK, CountTypes
<1>2. ASSUME NEW t \in Writers, OpenTaken(t) PROVE HoldersCounted'
  BY <1>1, <1>2, HoldersFinite, FS_AddElement, Zenon DEF OpenTaken, HoldersCounted
<1>3. ASSUME NEW t \in Writers, OpenPut(t) PROVE HoldersCounted'
  BY <1>1, <1>3, HoldersFinite, CardRemove, Zenon DEF OpenPut, HoldersCounted
<1>4. ASSUME open_io_zones_' = open_io_zones_, OpenHolders' = OpenHolders
      PROVE  HoldersCounted'
  BY <1>4, Zenon DEF HoldersCounted
<1> QED
  BY <1>2, <1>3, <1>4, OpenEffects, Zenon
     DEF OpenEffect, OpenSame, OpenAwaited, OpenLost, OpenNotified, OpenWoken

(* As long as zones can be closed, open_io_zones_ is exactly the number of  *)
(* writers between WaitForOpenIOZoneToken and PutOpenIOZoneToken, on every  *)
(* path of AllocateIOZone and CloseActiveZone, the failing ones included.   *)
THEOREM OpenTokensConservedCorrect ==
  ASSUME "close" \notin Faults
  PROVE  Spec => []OpenTokensConserved
<1>1. Init => TypeOK /\ LocalsFit /\ HoldersCounted
  <2> SUFFICES ASSUME Init PROVE HoldersCounted
    BY TypeInit, Zenon
  <2>1. OpenHolders = {}
    BY Zenon DEF Init, OpenHolders, OpenLabels, Threads
  <2> QED
    BY <2>1, FS_EmptySet, Zenon DEF Init, HoldersCounted
<1>2. TypeOK /\ LocalsFit /\ HoldersCounted /\ [Next]_vars
        => TypeOK' /\ LocalsFit' /\ HoldersCounted'
  BY TypeStep, CountStep, Zenon
<1>3. HoldersCounted => OpenTokensConserved
  BY Zenon DEF HoldersCounted, OpenTokensConserved, OpenHolders
<1> QED
  BY <1>1, <1>2, <1>3, PTL DEF Spec

-----------------------------------------------------------------------------
(* No lost wake-up.  While somebody sleeps, the tokens free for writers of  *)
(* other files than the WAL are matched by notifications yet to be sent and *)
(* by writers about to look at the counter.  The only WAL writer does not   *)
(* sleep: without it the holders leave one token free.                      *)
WakeInv ==
  /\ Asleep \cap Wal = {}
  /\ Asleep # {} => (max_nr_open_io_zones_ - 1) - open_io_zones_
                      <= Cardinality(due) + Cardinality(Waiting)

LEMMA SomeThreads ==
  ASSUME NEW S \in SUBSET Threads
  PROVE  IsFiniteSet(S) /\ Cardinality(S) \in Nat
<1>1. IsFiniteSet(Threads)
  BY ThreadsAssumption, FS_Union, Zenon DEF Threads
<1> QED
  BY <1>1, FS_Subset, FS_CardinalityType, Zenon

LEMMA WakeStep ==
  ASSUME "close" \notin Faults, \A t, u \in Wal : t = u, max_nr_open_io_zones_ >= 1,
         TypeOK, TypeOK', LocalsFit, [Next]_vars, OpenInv, HoldersCounted, WakeInv
  PROVE  WakeInv'
<1> DEFINE D == Cardinality(due)
           W == Cardinality(Waiting)
<1>1. /\ open_io_zones_ \in Int /\ max_nr_open_io_zones_ \in Nat
      /\ UNCHANGED max_nr_open_io_zones_
  BY LimitUnchanged, LimitFacts, Zenon DEF TypeOK, CountTypes
<1>2. /\ IsFiniteSet(due) /\ D \in Nat /\ IsFiniteSet(Waiting) /\ W \in Nat
      /\ IsFiniteSet(due') /\ D' \in Nat /\ IsFiniteSet(Waiting') /\ W' \in Nat
  <2>1. /\ due \in SUBSET Threads /\ due' \in SUBSET Threads
        /\ Waiting \in SUBSET Threads /\ Waiting' \in SUBSET Threads
    BY Zenon DEF TypeOK, CountTypes, Waiting, Threads
  <2> QED
    BY <2>1, SomeThreads, Zenon
<1>3. CASE OpenSame
  <2>1. D <= D' /\ W <= W'
    BY <1>2, <1>3, FS_Subset, Zenon DEF OpenSame
  <2> QED
    BY <1>1, <1>2, <1>3, <2>1 DEF OpenSame, WakeInv
<1>4. ASSUME NEW t \in Writers, OpenTaken(t) PROVE WakeInv'
  <2>1. W' = W - 1
    BY <1>2, <1>4, CardRemove, Zenon DEF OpenTaken
  <2> QED
    BY <1>1, <1>2, <1>4, <2>1 DEF OpenTaken, WakeInv
<1>5. ASSUME NEW t \in Writers, OpenAwaited(t) PROVE WakeInv'
  <2>1. t \notin Wal
    <3> SUFFICES ASSUME t \in Wal PROVE FALSE
      BY Zenon
    <3>1. OpenHolders \ Wal = OpenHolders
      BY <1>5, Zenon DEF OpenAwaited
    <3> QED
      BY <1>1, <1>5, <3>1, HoldersFinite DEF OpenAwaited, OpenLimit, OpenInv, HoldersCounted
  <2>2. open_io_zones_ >= max_nr_open_io_zones_ - 1
    BY <1>1, <1>5, <2>1, Zenon DEF OpenAwaited, OpenLimit, USub
  <2> QED
    BY <1>1, <1>2, <1>5, <2>1, <2>2 DEF OpenAwaited, WakeInv
<1>6. ASSUME NEW t \in Writers, OpenPut(t) PROVE WakeInv'
  <2>1. D' = D + 1
    BY <1>2, <1>6, FS_AddElement, Zenon DEF OpenPut
  <2> QED
    BY <1>1, <1>2, <1>6, <2>1 DEF OpenPut, WakeInv
<1>7. ASSUME NEW t \in Threads, OpenNotified(t) PROVE WakeInv'
  BY <1>7, Zenon DEF OpenNotified, WakeInv
<1>8. ASSUME NEW t \in Threads, NEW w \in Writers, OpenWoken(t, w) PROVE WakeInv'
  <2>1. D' = D - 1
    BY <1>2, <1>8, CardRemove, Zenon DEF OpenWoken
  <2>2. W' = W + 1
    BY <1>2, <1>8, FS_AddElement, Zenon DEF OpenWoken
  <2> QED
    BY <1>1, <1>2, <1>8, <2>1, <2>2 DEF OpenWoken, WakeInv
<1> QED
  BY <1>3, <1>4, <1>5, <1>6, <1>7, <1>8, OpenEffects, Zenon DEF OpenEffect, OpenLost

(* With zones that can be closed and one WAL writer at most, a writer never *)
(* sleeps on while a token it may take is free, nobody is about to notify   *)
(* and nobody notified is about to run: one notify_one for each token put   *)
(* back is enough, for any number of writers and any limit.                 *)
THEOREM NoLostWakeupCorrect ==
  ASSUME "close" \notin Faults, \A t, u \in Wal : t = u, max_nr_open_io_zones_ >= 1
  PROVE  Spec => []NoLostWakeup
<1> DEFINE Inv == TypeOK /\ LocalsFit /\ OpenInv /\ HoldersCounted /\ WakeInv
<1>1. Init => Inv
  <2> SUFFICES ASSUME Init PROVE OpenInv /\ HoldersCounted /\ WakeInv
    BY TypeInit, Zenon
  <2> QED
    BY OpenInit, FS_EmptySet, Zenon DEF HoldersCounted, WakeInv
<1>2. Inv /\ [Next]_vars => Inv'
  BY TypeStep, OpenStep, CountStep, WakeStep, Zenon
<1>3. Inv => NoLostWakeup
  <2> SUFFICES ASSUME TypeOK, WakeInv, NEW t \in Asleep, open_io_zones_ < OpenLimit(t)
               PROVE  due # {} \/ Waiting # {}
    BY Zenon DEF NoLostWakeup, Waiting
  <2>1. t \notin Wal
    BY Zenon DEF WakeInv
  <2>2. open_io_zones_ < max_nr_open_io_zones_ - 1 /\ open_io_zones_ \in Int
    BY <2>1, LimitFacts, Zenon DEF OpenLimit, USub, TypeOK, CountTypes
  <2>3. Cardinality(due) \in Nat /\ Cardinality(Waiting) \in Nat
    BY SomeThreads, Zenon DEF TypeOK, CountTypes, Waiting, Threads
  <2>4. 0 < Cardinality(due) + Cardinality(Waiting)
    BY <2>2, <2>3, LimitFacts DEF WakeInv
  <2> QED
    BY <2>4, FS_EmptySet
<1> QED
  BY <1>1, <1>2, <1>3, PTL DEF Spec

-----------------------------------------------------------------------------
(* Sums over finite sets.  A sum of natural numbers is the size of a set    *)
(* that has f[x] elements for every x; the fold the model uses computes it. *)
BlocksOf(f, R) == UNION {{x} \X (1..f[x]) : x \in R}
SumOf(f, R) == Cardinality(BlocksOf(f, R))

LEMMA LeastNatural ==
  ASSUME NEW T \in SUBSET Nat, T # {}
  PROVE  \E n \in T : \A m \in T : n <= m
<1>1. PICK n \in T : \A m \in T : ~(<<m, n>> \in OpToRel(<, Nat))
  BY NatLessThanWellFounded, WFMin, Zenon
<1>2. \A i, j \in Nat : i < j => <<i, j>> \in OpToRel(<, Nat)
  BY Zenon DEF OpToRel
<1>3. ASSUME NEW m \in T PROVE n <= m
  <2>1. m \in Nat /\ n \in Nat
    BY Zenon
  <2>2. ~(m < n)
    BY <1>1, <1>2, <2>1, Zenon
  <2> QED
    BY <2>1, <2>2
<1> QED
  BY <1>3, Zenon

LEMMA RowSize ==
  ASSUME NEW x, NEW n \in Nat
  PROVE  IsFiniteSet({x} \X (1..n)) /\ Cardinality({x} \X (1..n)) = n
<1>1. IsFiniteSet({x}) /\ Cardinality({x}) = 1
  BY FS_Singleton, Zenon
<1>2. IsFiniteSet(1..n) /\ Cardinality(1..n) = n
  BY FS_Interval
<1>3. /\ IsFiniteSet({x} \X (1..n))
      /\ Cardinality({x} \X (1..n)) = Cardinality({x}) * Cardinality(1..n)
  BY <1>1, <1>2, FS_Product, Zenon
<1> QED
  BY <1>1, <1>2, <1>3

LEMMA BlocksFinite ==
  ASSUME NEW R, IsFiniteSet(R), NEW f, \A x \in R : f[x] \in Nat
  PROVE  IsFiniteSet(BlocksOf(f, R)) /\ SumOf(f, R) \in Nat
<1> DEFINE Rows == {{x} \X (1..f[x]) : x \in R}
           row == [x \in R |-> {x} \X (1..f[x])]
<1>1. row \in Surjection(R, Rows)
  BY Zenon DEF Surjection
<1>2. IsFiniteSet(Rows)
  <2> HIDE DEF Rows, row
  <2> QED
    BY <1>1, FS_Surjection, Zenon
<1>3. \A T \in Rows : IsFiniteSet(T)
  <2>1. \A x \in R : IsFiniteSet({x} \X (1..f[x]))
    BY RowSize, Zenon
  <2> QED
    BY <2>1, Zenon
<1>4. IsFiniteSet(UNION Rows)
  <2> HIDE DEF Rows
  <2> QED
    BY <1>2, <1>3, FS_UNION, Zenon
<1> QED
  BY <1>4, FS_CardinalityType, Zenon DEF BlocksOf, SumOf

LEMMA SumEmpty ==
  ASSUME NEW f
  PROVE  SumOf(f, {}) = 0
BY FS_EmptySet, Zenon DEF SumOf, BlocksOf

LEMMA SumRemove ==
  ASSUME NEW R, IsFiniteSet(R), NEW f, \A x \in R : f[x] \in Nat, NEW x \in R
  PROVE  SumOf(f, R) = f[x] + SumOf(f, R \ {x})
<1> DEFINE S == R \ {x}
           row == {x} \X (1..f[x])
<1>1. IsFiniteSet(S) /\ \A y \in S : f[y] \in Nat
  BY FS_Subset, Zenon
<1>2. IsFiniteSet(BlocksOf(f, S)) /\ SumOf(f, S) \in Nat
  BY <1>1, BlocksFinite, Zenon
<1>3. IsFiniteSet(row) /\ Cardinality(row) = f[x]
  BY RowSize, Zenon
<1>4. BlocksOf(f, R) = BlocksOf(f, S) \cup row
  BY Zenon DEF BlocksOf
<1>5. BlocksOf(f, S) \cap row = {}
  BY DEF BlocksOf
<1>6. Cardinality(BlocksOf(f, S) \cup row)
        = Cardinality(BlocksOf(f, S)) + Cardinality(row) - Cardinality(BlocksOf(f, S) \cap row)
  <2> HIDE DEF row, S
  <2> QED
    BY <1>2, <1>3, FS_Union, Zenon
<1>7. Cardinality(BlocksOf(f, S) \cap row) = 0
  BY <1>5, FS_EmptySet, Zenon
<1>8. SumOf(f, R) = SumOf(f, S) + Cardinality(row) - 0
  BY <1>4, <1>6, <1>7, Zenon DEF SumOf
<1> QED
  BY <1>2, <1>3, <1>8

LEMMA SumMonotone ==
  ASSUME NEW R, IsFiniteSet(R), NEW f, NEW g,
         \A x \in R : f[x] \in Nat /\ g[x] \in Nat /\ f[x] <= g[x]
  PROVE  SumOf(f, R) <= SumOf(g, R)
<1>1. BlocksOf(f, R) \subseteq BlocksOf(g, R)
  <2> SUFFICES ASSUME NEW x \in R, NEW i \in 1..f[x] PROVE i \in 1..g[x]
    BY DEF BlocksOf
  <2> QED
    OBVIOUS
<1>2. IsFiniteSet(BlocksOf(g, R))
  BY BlocksFinite, Zenon
<1> QED
  BY <1>1, <1>2, FS_Subset, Zenon DEF SumOf

LEMMA SumUpdate ==
  ASSUME NEW R, IsFiniteSet(R), NEW f, NEW g,
         \A x \in R : f[x] \in Nat /\ g[x] \in Nat,
         NEW t \in R, \A x \in R \ {t} : g[x] = f[x]
  PROVE  SumOf(g, R) = (SumOf(f, R) - f[t]) + g[t]
<1>1. BlocksOf(f, R \ {t}) = BlocksOf(g, R \ {t})
  BY Zenon DEF BlocksOf
<1>2. IsFiniteSet(R \ {t}) /\ \A x \in R \ {t} : f[x] \in Nat
  BY FS_Subset, Zenon
<1>3. SumOf(f, R \ {t}) \in Nat
  BY <1>2, BlocksFinite, Zenon
<1> QED
  BY <1>1, <1>3, SumRemove DEF SumOf

(* The recursion of the fold over the subsets of S.                         *)
FoldOf(h, f, S) ==
  h = [s \in SUBSET S |-> IF s = {} THEN 0
                          ELSE f[CHOOSE x \in s : TRUE] + h[s \ {CHOOSE x \in s : TRUE}]]

LEMMA FoldExists ==
  ASSUME NEW S, IsFiniteSet(S), NEW f, \A x \in S : f[x] \in Nat
  PROVE  FoldOf([s \in SUBSET S |-> SumOf(f, s)], f, S)
<1> DEFINE h == [s \in SUBSET S |-> SumOf(f, s)]
           first(s) == CHOOSE x \in s : TRUE
<1>1. ASSUME NEW s \in SUBSET S
      PROVE  h[s] = IF s = {} THEN 0 ELSE f[first(s)] + h[s \ {first(s)}]
  <2>1. CASE s = {}
    BY <2>1, SumEmpty, Zenon
  <2>2. CASE s # {}
    <3>1. first(s) \in s
      BY <2>2, Zenon
    <3>2. IsFiniteSet(s)
      BY FS_Subset, Zenon
    <3> HIDE DEF first
    <3>3. SumOf(f, s) = f[first(s)] + SumOf(f, s \ {first(s)})
      BY <3>1, <3>2, SumRemove, Zenon
    <3> QED
      BY <2>2, <3>3, Zenon
  <2> QED
    BY <2>1, <2>2, Zenon
<1> QED
  BY <1>1, Zenon DEF FoldOf

LEMMA FoldUnique ==
  ASSUME NEW S, IsFiniteSet(S), NEW f, \A x \in S : f[x] \in Nat,
         NEW h, FoldOf(h, f, S)
  PROVE  h[S] = SumOf(f, S)
<1> DEFINE T == {Cardinality(s) : s \in {r \in SUBSET S : h[r] # SumOf(f, r)}}
           first(s) == CHOOSE x \in s : TRUE
<1>1. \A s \in SUBSET S : IsFiniteSet(s) /\ Cardinality(s) \in Nat
  BY FS_Subset, FS_CardinalityType, Zenon
<1>2. T \in SUBSET Nat
  BY <1>1, Zenon
<1>3. ASSUME T # {} PROVE FALSE
  <2>1. PICK n \in T : \A m \in T : n <= m
    <3> HIDE DEF T
    <3> QED
      BY <1>2, <1>3, LeastNatural, Zenon
  <2>2. PICK s \in SUBSET S : h[s] # SumOf(f, s) /\ Cardinality(s) = n
    BY <2>1, Zenon
  <2>3. h[s] = IF s = {} THEN 0 ELSE f[first(s)] + h[s \ {first(s)}]
    BY Zenon DEF FoldOf
  <2>4. s # {}
    BY <2>2, <2>3, SumEmpty, Zenon
  <2>5. first(s) \in s
    BY <2>4, Zenon
  <2> HIDE DEF first
  <2>6. SumOf(f, s) = f[first(s)] + SumOf(f, s \ {first(s)})
    BY <1>1, <2>5, SumRemove, Zenon
  <2>7. Cardinality(s \ {first(s)}) = n - 1 /\ n \in Nat
    BY <1>1, <2>2, <2>5, FS_RemoveElement, Zenon
  <2>8. h[s \ {first(s)}] # SumOf(f, s \ {first(s)})
    BY <2>2, <2>3, <2>4, <2>6, Zenon
  <2>9. n - 1 \in T
    BY <2>7, <2>8, Zenon
  <2> QED
    BY <2>1, <2>7, <2>9
<1> QED
  BY <1>3, Zenon

LEMMA SumZero ==
  ASSUME NEW R, NEW f, \A x \in R : f[x] = 0
  PROVE  SumOf(f, R) = 0
<1>1. BlocksOf(f, R) = {}
  BY DEF BlocksOf
<1> QED
  BY <1>1, FS_EmptySet, Zenon DEF SumOf

-----------------------------------------------------------------------------
(* The two sums of the model.                                               *)
PinnedFn(z) == [t \in Threads |-> PinnedBy(t, z)]
UnpushedFn(z) == [t \in Writers |-> UnpushedBy(t, z)]

LEMMA PinnedSum ==
  ASSUME NEW z, \A t \in Threads : PinnedBy(t, z) \in Nat, IsFiniteSet(Threads)
  PROVE  Pinned(z) = SumOf(PinnedFn(z), Threads)
<1> DEFINE f == PinnedFn(z)
           P(h) == h = [s \in SUBSET Threads |->
                          IF s = {} THEN 0
                          ELSE PinnedBy(CHOOSE x \in s : TRUE, z)
                               + h[s \ {CHOOSE x \in s : TRUE}]]
<1>1. \A s \in SUBSET Threads : s # {} => (CHOOSE x \in s : TRUE) \in Threads
  BY Zenon
<1>2. ASSUME NEW h PROVE P(h) <=> FoldOf(h, f, Threads)
  <2>1. \A s \in SUBSET Threads : s # {} =>
          PinnedBy(CHOOSE x \in s : TRUE, z) = f[CHOOSE x \in s : TRUE]
    <3>1. \A t \in Threads : f[t] = PinnedBy(t, z)
      BY Zenon DEF PinnedFn
    <3> QED
      BY <1>1, <3>1, Zenon
  <2> QED
    BY <2>1, Zenon DEF FoldOf
<1>3. \A x \in Threads : f[x] \in Nat
  BY Zenon DEF PinnedFn
<1>4. \E h : P(h)
  BY <1>2, <1>3, FoldExists, Zenon
<1>5. P(CHOOSE h : P(h))
  BY <1>4, Zenon
<1>6. Pinned(z) = (CHOOSE h : P(h))[Threads]
  BY Zenon DEF Pinned, MapThenSumSet, MapThenFoldSet
<1> HIDE DEF P
<1> QED
  BY <1>2, <1>3, <1>5, <1>6, FoldUnique, Zenon

LEMMA UnpushedSum ==
  ASSUME NEW z, \A t \in Writers : UnpushedBy(t, z) \in Nat, IsFiniteSet(Writers)
  PROVE  Unpushed(z) = SumOf(UnpushedFn(z), Writers)
<1> DEFINE f == UnpushedFn(z)
           P(h) == h = [s \in SUBSET Writers |->
                          IF s = {} THEN 0
                          ELSE UnpushedBy(CHOOSE x \in s : TRUE, z)
                               + h[s \ {CHOOSE x \in s : TRUE}]]
<1>1. \A s \in SUBSET Writers : s # {} => (CHOOSE x \in s : TRUE) \in Writers
  BY Zenon
<1>2. ASSUME NEW h PROVE P(h) <=> FoldOf(h, f, Writers)
  <2>1. \A s \in SUBSET Writers : s # {} =>
          UnpushedBy(CHOOSE x \in s : TRUE, z) = f[CHOOSE x \in s : TRUE]
    <3>1. \A t \in Writers : f[t] = UnpushedBy(t, z)
      BY Zenon DEF UnpushedFn
    <3> QED
      BY <1>1, <3>1, Zenon
  <2> QED
    BY <2>1, Zenon DEF FoldOf
<1>3. \A x \in Writers : f[x] \in Nat
  BY Zenon DEF UnpushedFn
<1>4. \E h : P(h)
  BY <1>2, <1>3, FoldExists, Zenon
<1>5. P(CHOOSE h : P(h))
  BY <1>4, Zenon
<1>6. Unpushed(z) = (CHOOSE h : P(h))[Writers]
  BY Zenon DEF Unpushed, MapThenSumSet, MapThenFoldSet
<1> HIDE DEF P
<1> QED
  BY <1>2, <1>3, <1>5, <1>6, FoldUnique, Zenon

SumForm ==
  \A z \in Zones :
    /\ Pinned(z) = SumOf(PinnedFn(z), Threads)
    /\ Unpushed(z) = SumOf(UnpushedFn(z), Writers)
    /\ \A t \in Threads : PinnedFn(z)[t] = PinnedBy(t, z) /\ PinnedBy(t, z) \in Nat
    /\ \A t \in Writers : UnpushedFn(z)[t] = UnpushedBy(t, z) /\ UnpushedBy(t, z) \in Nat

LEMMA ThreadsFinite == IsFiniteSet(Threads) /\ IsFiniteSet(Writers)
BY ThreadsAssumption, FS_Union, Zenon DEF Threads

LEMMA SumFacts == TypeOK => SumForm
<1> SUFFICES ASSUME TypeOK, NEW z \in Zones
             PROVE  /\ Pinned(z) = SumOf(PinnedFn(z), Threads)
                    /\ Unpushed(z) = SumOf(UnpushedFn(z), Writers)
                    /\ \A t \in Threads : PinnedFn(z)[t] = PinnedBy(t, z) /\ PinnedBy(t, z) \in Nat
                    /\ \A t \in Writers : UnpushedFn(z)[t] = UnpushedBy(t, z) /\ UnpushedBy(t, z) \in Nat
  BY Zenon DEF SumForm
<1>1. \A t \in Threads : PinnedBy(t, z) \in Nat
  BY DEF PinnedBy, TypeOK, CountTypes
<1>2. \A t \in Writers : UnpushedBy(t, z) \in Nat
  BY Zenon DEF UnpushedBy, TypeOK, CountTypes, Threads
<1>3. \A t \in Threads : PinnedFn(z)[t] = PinnedBy(t, z)
  BY Zenon DEF PinnedFn
<1>4. \A t \in Writers : UnpushedFn(z)[t] = UnpushedBy(t, z)
  BY Zenon DEF UnpushedFn
<1>5. Pinned(z) = SumOf(PinnedFn(z), Threads)
  BY <1>1, ThreadsFinite, PinnedSum, Zenon
<1>6. Unpushed(z) = SumOf(UnpushedFn(z), Writers)
  BY <1>2, ThreadsFinite, UnpushedSum, Zenon
<1> QED
  BY <1>1, <1>2, <1>3, <1>4, <1>5, <1>6, Zenon

LEMMA SumFactsNext == TypeOK' => SumForm'
BY SumFacts, PTL

LEMMA SumsMoved ==
  ASSUME TypeOK, TypeOK', NEW t \in Threads, OthersSame(t), NEW z \in Zones
  PROVE  /\ Pinned(z) \in Nat /\ PinnedBy(t, z) \in Nat /\ PinnedBy(t, z)' \in Nat
         /\ Pinned(z)' = (Pinned(z) - PinnedBy(t, z)) + PinnedBy(t, z)'
         /\ Unpushed(z) \in Nat
         /\ t \notin Writers => Unpushed(z)' = Unpushed(z)
         /\ t \in Writers =>
              /\ UnpushedBy(t, z) \in Nat /\ UnpushedBy(t, z)' \in Nat
              /\ Unpushed(z)' = (Unpushed(z) - UnpushedBy(t, z)) + UnpushedBy(t, z)'
<1> DEFINE f == PinnedFn(z)
           g == PinnedFn(z)'
           p == UnpushedFn(z)
           q == UnpushedFn(z)'
<1>1. /\ Pinned(z) = SumOf(f, Threads) /\ Unpushed(z) = SumOf(p, Writers)
      /\ \A u \in Threads : f[u] = PinnedBy(u, z) /\ f[u] \in Nat
      /\ \A u \in Writers : p[u] = UnpushedBy(u, z) /\ p[u] \in Nat
  BY SumFacts, Zenon DEF SumForm
<1>2. /\ Pinned(z)' = SumOf(g, Threads) /\ Unpushed(z)' = SumOf(q, Writers)
      /\ \A u \in Threads : g[u] = PinnedBy(u, z)' /\ g[u] \in Nat
      /\ \A u \in Writers : q[u] = UnpushedBy(u, z)' /\ q[u] \in Nat
  BY SumFactsNext, Zenon DEF SumForm
<1>3. \A u \in Threads \ {t} : g[u] = f[u]
  BY <1>1, <1>2, Zenon DEF OthersSame
<1>4. \A u \in Writers \ {t} : q[u] = p[u]
  BY <1>1, <1>2, Zenon DEF OthersSame
<1>5. SumOf(f, Threads) \in Nat /\ SumOf(p, Writers) \in Nat
  BY <1>1, ThreadsFinite, BlocksFinite, Zenon
<1> HIDE DEF f, g, p, q
<1>6. SumOf(g, Threads) = (SumOf(f, Threads) - f[t]) + g[t]
  BY <1>1, <1>2, <1>3, ThreadsFinite, SumUpdate
<1>7. t \in Writers => SumOf(q, Writers) = (SumOf(p, Writers) - p[t]) + q[t]
  BY <1>1, <1>2, <1>4, ThreadsFinite, SumUpdate
<1>8. ASSUME t \notin Writers PROVE SumOf(q, Writers) = SumOf(p, Writers)
  <2>1. \A u \in Writers : q[u] <= p[u] /\ p[u] <= q[u]
    BY <1>1, <1>2, <1>4, <1>8
  <2>2. SumOf(q, Writers) <= SumOf(p, Writers) /\ SumOf(p, Writers) <= SumOf(q, Writers)
    BY <1>1, <1>2, <2>1, ThreadsFinite, SumMonotone, Zenon
  <2>3. SumOf(q, Writers) \in Nat
    BY <1>2, ThreadsFinite, BlocksFinite, Zenon
  <2> QED
    BY <1>5, <2>2, <2>3
<1> QED
  BY <1>1, <1>2, <1>5, <1>6, <1>7, <1>8, Zenon

LEMMA CoveredStep ==
  ASSUME TypeOK, TypeOK', UsedCapacityExact, NEW t \in Threads, OthersSame(t), Covered(t)
  PROVE  UsedCapacityExact'
<1> SUFFICES ASSUME NEW z \in Zones
             PROVE  /\ Pinned(z)' <= used'[z]
                    /\ used'[z] + Unpushed(z)' <= wp'[z]
  BY Zenon DEF UsedCapacityExact
<1>1. /\ used[z] \in Int /\ wp[z] \in Int /\ used'[z] \in Int /\ wp'[z] \in Int
      /\ Pinned(z) <= used[z] /\ used[z] + Unpushed(z) <= wp[z]
  BY DEF UsedCapacityExact, TypeOK, ZoneTypes
<1> QED
  BY <1>1, SumsMoved, SMTT(60) DEF Covered

(* Deleting blocks nobody pins, resetting a zone without live blocks and    *)
(* pinning blocks nobody pins keep the counts, too.                         *)
LEMMA DeletedStep ==
  ASSUME TypeOK, TypeOK', UsedCapacityExact, NEW t \in Threads, OthersSame(t), Deleted(t)
  PROVE  UsedCapacityExact'
<1> SUFFICES ASSUME NEW z \in Zones
             PROVE  /\ Pinned(z)' <= used'[z]
                    /\ used'[z] + Unpushed(z)' <= wp'[z]
  BY Zenon DEF UsedCapacityExact
<1>1. /\ used[z] \in Int /\ wp[z] \in Int
      /\ Pinned(z) <= used[z] /\ used[z] + Unpushed(z) <= wp[z]
  BY DEF UsedCapacityExact, TypeOK, ZoneTypes
<1>2. Pinned(z) \in Nat /\ Pinned(z)' = Pinned(z) /\ Unpushed(z) \in Nat /\ Unpushed(z)' = Unpushed(z)
  BY SumsMoved DEF Deleted
<1>3. Pinned(z) <= used'[z] /\ used'[z] <= used[z] /\ used'[z] \in Int
  BY <1>1, <1>2 DEF Deleted, TypeOK, ZoneTypes
<1> QED
  BY <1>1, <1>2, <1>3 DEF Deleted

LEMMA ErasedStep ==
  ASSUME TypeOK, TypeOK', UsedCapacityExact, NEW t \in Threads, OthersSame(t), Erased(t)
  PROVE  UsedCapacityExact'
<1> SUFFICES ASSUME NEW z \in Zones
             PROVE  /\ Pinned(z)' <= used'[z]
                    /\ used'[z] + Unpushed(z)' <= wp'[z]
  BY Zenon DEF UsedCapacityExact
<1>1. /\ used[z] \in Int /\ wp[z] \in Int
      /\ Pinned(z) <= used[z] /\ used[z] + Unpushed(z) <= wp[z]
  BY DEF UsedCapacityExact, TypeOK, ZoneTypes
<1>2. Pinned(z) \in Nat /\ Pinned(z)' = Pinned(z) /\ Unpushed(z) \in Nat /\ Unpushed(z)' = Unpushed(z)
  BY SumsMoved, SMTT(60) DEF Erased
<1>3. CASE wp'[z] # wp[z]
  <2>1. \A u \in Writers : UnpushedFn(z)[u] = 0
    BY <1>3, SumFacts, Zenon DEF Erased, SumForm
  <2>2. Unpushed(z) = 0
    BY <2>1, SumZero, SumFacts, Zenon DEF SumForm
  <2> QED
    BY <1>1, <1>2, <1>3, <2>2, SMTT(60) DEF Erased
<1>4. CASE wp'[z] = wp[z]
  BY <1>1, <1>2, <1>4, Zenon DEF Erased
<1> QED
  BY <1>3, <1>4, Zenon

LEMMA ReservedStep ==
  ASSUME TypeOK, TypeOK', UsedCapacityExact, NEW t \in Threads, OthersSame(t), Reserved(t)
  PROVE  UsedCapacityExact'
<1> SUFFICES ASSUME NEW z \in Zones
             PROVE  /\ Pinned(z)' <= used'[z]
                    /\ used'[z] + Unpushed(z)' <= wp'[z]
  BY Zenon DEF UsedCapacityExact
<1>1. /\ used[z] \in Int /\ wp[z] \in Int
      /\ Pinned(z) <= used[z] /\ used[z] + Unpushed(z) <= wp[z]
  BY DEF UsedCapacityExact, TypeOK, ZoneTypes
<1>2. /\ Pinned(z) \in Nat /\ PinnedBy(t, z) \in Nat
      /\ Pinned(z)' = (Pinned(z) - PinnedBy(t, z)) + PinnedBy(t, z)'
      /\ Unpushed(z) \in Nat /\ Unpushed(z)' = Unpushed(z)
  BY SumsMoved, Zenon DEF Reserved
<1>3. PICK y \in Zones : \E n \in 1..used[y] :
        /\ n <= used[y] - Pinned(y)
        /\ \A x \in Zones : PinnedBy(t, x)' = IF x = y THEN n ELSE 0
  BY Zenon DEF Reserved
<1>4. Pinned(z)' <= used[z]
  BY <1>1, <1>2, <1>3, SMTT(60)
<1> QED
  BY <1>1, <1>2, <1>4, Zenon DEF Reserved

UsedInv == UsedCapacityExact /\ BlockFit

LEMMA UsedInit ==
  ASSUME Init
  PROVE  UsedInv
<1>1. TypeOK
  BY TypeInit, Zenon
<1>2. BlockFit
  BY ZonesAssumption, SMTT(60) DEF Init, BlockFit, RoomFit, OwnFit, MatchLabels,
     Threads
<1>3. ASSUME NEW z \in Zones PROVE Pinned(z) = 0 /\ Unpushed(z) = 0
  <2>1. \A t \in Threads : PinnedFn(z)[t] = 0
    BY SMTT(60) DEF Init, PinnedFn, PinnedBy, Threads
  <2>2. \A t \in Writers : UnpushedFn(z)[t] = 0
    BY Zenon DEF Init, UnpushedFn, UnpushedBy, Threads
  <2> QED
    BY <1>1, <2>1, <2>2, SumZero, SumFacts, Zenon DEF SumForm
<1>4. \A z \in Zones : used[z] \in Nat /\ wp[z] \in Nat /\ used[z] <= wp[z]
  BY ZonesAssumption DEF Init
<1> QED
  BY <1>2, <1>3, <1>4, SMTT(60) DEF UsedInv, UsedCapacityExact

LEMMA UsedStep ==
  ASSUME FitInv, FitInv', UsedInv, [Next]_vars
  PROVE  UsedInv'
<1>1. CASE UNCHANGED vars
  <2>1. BlockFit'
    BY <1>1, Zenon DEF vars, UsedInv, BlockFit, RoomFit, OwnFit
  <2>2. ASSUME NEW z \in Zones
        PROVE  Pinned(z)' = Pinned(z) /\ Unpushed(z)' = Unpushed(z)
    <3>1. PinnedFn(z)' = PinnedFn(z) /\ UnpushedFn(z)' = UnpushedFn(z)
      BY <1>1, Zenon DEF vars, PinnedFn, UnpushedFn, PinnedBy, UnpushedBy
    <3> QED
      BY <3>1, SumFacts, SumFactsNext, Zenon DEF FitInv, SumForm
  <2> QED
    BY <1>1, <2>1, <2>2, Zenon DEF UsedInv, UsedCapacityExact, vars
<1>2. CASE BlockEffect
  <2>1. PICK t \in Threads :
          OthersSame(t) /\ (Covered(t) \/ Deleted(t) \/ Erased(t) \/ Reserved(t))
    BY <1>2, Zenon DEF BlockEffect
  <2>2. UsedCapacityExact'
    BY <2>1, CoveredStep, DeletedStep, ErasedStep, ReservedStep, Zenon DEF FitInv, UsedInv
  <2> QED
    BY <1>2, <2>2, Zenon DEF BlockEffect, UsedInv
<1> QED
  BY <1>1, <1>2, BlockEffects, Zenon DEF FitInv, UsedInv

(* used_capacity_ of every zone covers what open files and a running        *)
(* migration refer to, and with the blocks in no extent yet stays within    *)
(* what was written, for any number of zones and threads.                   *)
THEOREM UsedCapacityCorrect == Spec => []UsedCapacityExact
<1>1. Init => FitInv /\ UsedInv
  BY FitInit, UsedInit, Zenon
<1>2. FitInv /\ UsedInv /\ [Next]_vars => FitInv' /\ UsedInv'
  BY FitStep, UsedStep, Zenon
<1>3. UsedInv => UsedCapacityExact
  BY Zenon DEF UsedInv
<1> QED
  BY <1>1, <1>2, <1>3, PTL DEF Spec

(* A token covers every active zone and every debt, and the counter never   *)
(* passes the limit.  (It may exceed what it covers: tokens get lost.)      *)
ActiveInv ==
  /\ Cardinality(ActiveZones) + Cardinality(Owers) <= active_io_zones_
  /\ active_io_zones_ <= max_nr_active_io_zones_

LEMMA ActiveFinite ==
  /\ IsFiniteSet(ActiveZones) /\ Cardinality(ActiveZones) \in Nat
  /\ IsFiniteSet(Owers) /\ Cardinality(Owers) \in Nat
<1>1. NrZones \in Int /\ 1 \in Int
  BY ZonesAssumption
<1>2. IsFiniteSet(Zones)
  BY <1>1, FS_Interval, Zenon DEF Zones
<1>3. IsFiniteSet(Threads)
  BY ThreadsAssumption, FS_Union, Zenon DEF Threads
<1>4. ActiveZones \subseteq Zones /\ Owers \subseteq Threads
  BY Zenon DEF ActiveZones, Owers
<1> QED
  BY <1>2, <1>3, <1>4, FS_Subset, FS_CardinalityType, Zenon

LEMMA ActiveStep ==
  ASSUME TypeOK, ActiveEffect, ActiveInv
  PROVE  ActiveInv'
<1> DEFINE A == ActiveZones
           O == Owers
<1>1. IsFiniteSet(A) /\ Cardinality(A) \in Nat
  BY ActiveFinite, Zenon
<1>2. IsFiniteSet(O) /\ Cardinality(O) \in Nat
  BY ActiveFinite, Zenon
<1>3. active_io_zones_ \in Int /\ max_nr_active_io_zones_ \in Nat
  BY LimitFacts, Zenon DEF TypeOK, CountTypes
<1>4. UNCHANGED max_nr_active_io_zones_
  BY Zenon DEF max_nr_active_io_zones_, IOLimit, USub, ZENFS_META_ZONES
<1>5. CASE ActiveSame
  BY <1>4, <1>5, Zenon DEF ActiveSame, ActiveInv
<1>6. ASSUME NEW t \in Threads, TokenTaken(t) PROVE ActiveInv'
  <2>1. Cardinality(O \cup {t}) \in Nat /\ Cardinality(O \cup {t}) <= Cardinality(O) + 1
    BY <1>2, CardAdd, Zenon
  <2> QED
    BY <1>1, <1>2, <1>3, <1>4, <1>6, <2>1, SMTT(30) DEF TokenTaken, ActiveInv
<1>7. ASSUME NEW t \in Threads, TokenPut(t) \/ TokenLost(t) PROVE ActiveInv'
  <2>1. t \in O
    BY <1>7, Zenon DEF TokenPut, TokenLost
  <2>2. Cardinality(O \ {t}) = Cardinality(O) - 1
    BY <1>2, <2>1, CardRemove, Zenon
  <2>3. CASE TokenPut(t)
    BY <1>1, <1>2, <1>3, <1>4, <2>2, <2>3 DEF TokenPut, ActiveInv
  <2>4. CASE TokenLost(t)
    BY <1>1, <1>2, <1>3, <1>4, <2>2, <2>4, SMTT(60) DEF TokenLost, ActiveInv
  <2> QED
    BY <1>7, <2>3, <2>4, Zenon
<1>8. ASSUME NEW t \in Threads, NEW z \in Zones, ZoneRetired(t, z) PROVE ActiveInv'
  <2>1. Cardinality(O \cup {t}) \in Nat /\ Cardinality(O \cup {t}) <= Cardinality(O) + 1
    BY <1>2, CardAdd, Zenon
  <2>2. Cardinality(A \ {z}) = Cardinality(A) - 1
    BY <1>1, <1>8, CardRemove, Zenon DEF ZoneRetired
  <2> QED
    BY <1>1, <1>2, <1>3, <1>4, <1>8, <2>1, <2>2 DEF ZoneRetired, ActiveInv
<1>9. ASSUME NEW t \in Threads, NEW z \in Zones, ZoneStarted(t, z) PROVE ActiveInv'
  <2>1. Cardinality(A \cup {z}) \in Nat /\ Cardinality(A \cup {z}) <= Cardinality(A) + 1
    BY <1>1, CardAdd, Zenon
  <2>2. Cardinality(O \ {t}) = Cardinality(O) - 1
    BY <1>2, <1>9, CardRemove, Zenon DEF ZoneStarted
  <2> QED
    BY <1>1, <1>2, <1>3, <1>4, <1>9, <2>1, <2>2 DEF ZoneStarted, ActiveInv
<1>10. ASSUME NEW z \in Zones, ZoneFilled(z) PROVE ActiveInv'
  <2>1. Cardinality(A \ {z}) = Cardinality(A) - 1
    BY <1>1, <1>10, CardRemove, Zenon DEF ZoneFilled
  <2> QED
    BY <1>1, <1>2, <1>3, <1>4, <1>10, <2>1 DEF ZoneFilled, ActiveInv
<1> QED
  BY <1>5, <1>6, <1>7, <1>8, <1>9, <1>10, Zenon DEF ActiveEffect

LEMMA NoneOwed == Init => Owers = {}
BY Zenon DEF Init, Owers, OwesActive, Threads

(* The zones that are neither empty nor full never exceed the active zone   *)
(* resources left for IO, for any number of zones and threads and with      *)
(* failing device operations.                                               *)
THEOREM ActiveZonesBoundedCorrect == Spec => []ActiveZonesBounded
<1>1. Init => FitInv /\ ActiveInv
  BY FitInit, NoneOwed, ActiveFinite, FS_EmptySet, LimitFacts, SMTT(60) DEF
     Init, ActiveInv
<1>2. FitInv /\ ActiveInv /\ [Next]_vars => FitInv' /\ ActiveInv'
  BY FitStep, ActiveEffects, ActiveStep, Zenon DEF FitInv
<1>3. FitInv /\ ActiveInv => ActiveZonesBounded
  BY ActiveFinite, LimitFacts DEF FitInv, TypeOK, CountTypes, ActiveInv,
     ActiveZonesBounded
<1> QED
  BY <1>1, <1>2, <1>3, PTL DEF Spec

(* A writer with blocks in an extent has written the zone it holds.         *)
LEMMA PinnedWritten ==
  ASSUME TypeOK, UsedCapacityExact, NEW t \in Writers, pc[t] = "writing",
         cand[t] \in Zones, pin[t] > 0
  PROVE  ~IsEmpty(cand[t])
<1> DEFINE z == cand[t]
           f == PinnedFn(z)
<1>1. /\ used[z] \in Int /\ wp[z] \in Int /\ pin[t] \in Nat
      /\ Pinned(z) <= used[z] /\ used[z] + Unpushed(z) <= wp[z]
  BY SMTT(60) DEF UsedCapacityExact, TypeOK, ZoneTypes, CountTypes, Threads
<1>2. /\ Pinned(z) = SumOf(f, Threads) /\ \A u \in Threads : f[u] \in Nat
      /\ Unpushed(z) \in Nat /\ f[t] = pin[t]
  <2>1. /\ Unpushed(z) = SumOf(UnpushedFn(z), Writers)
        /\ \A u \in Writers : UnpushedFn(z)[u] \in Nat
        /\ Pinned(z) = SumOf(f, Threads)
        /\ \A u \in Threads : f[u] = PinnedBy(u, z) /\ f[u] \in Nat
    BY SumFacts, Zenon DEF SumForm
  <2>2. Unpushed(z) \in Nat
    BY <2>1, ThreadsFinite, BlocksFinite, Zenon
  <2>3. PinnedBy(t, z) = pin[t] /\ t \in Threads
    BY Zenon DEF PinnedBy, Threads
  <2> QED
    BY <2>1, <2>2, <2>3, Zenon
<1> HIDE DEF f, z
<1>3. f[t] <= SumOf(f, Threads) /\ SumOf(f, Threads) \in Nat
  <2>1. t \in Threads
    BY Zenon DEF Threads
  <2>2. IsFiniteSet(Threads \ {t})
    BY ThreadsFinite, FS_Subset, Zenon
  <2>3. SumOf(f, Threads \ {t}) \in Nat
    BY <1>2, <2>2, BlocksFinite, Zenon
  <2>4. SumOf(f, Threads) = f[t] + SumOf(f, Threads \ {t})
    BY <1>2, <2>1, ThreadsFinite, SumRemove, Zenon
  <2> QED
    BY <1>2, <2>1, <2>3, <2>4, SMTT(60)
<1>4. wp[z] > 0
  BY <1>1, <1>2, <1>3, SMTT(60)
<1> QED
  BY <1>4, SMTT(60) DEF IsEmpty, z

OwersCounted ==
  active_io_zones_ = Cardinality(ActiveZones) + Cardinality(Owers)

LEMMA OwersStep ==
  ASSUME Buffered = {}, Collectors = {}, "write" \notin Faults,
         FitInv, UsedInv, ActiveEffect, OwersCounted
  PROVE  OwersCounted'
<1> DEFINE A == ActiveZones
           O == Owers
<1>1. IsFiniteSet(A) /\ Cardinality(A) \in Nat /\ IsFiniteSet(O) /\ Cardinality(O) \in Nat
  BY ActiveFinite, Zenon
<1>2. active_io_zones_ = Cardinality(A) + Cardinality(O)
  BY Zenon DEF OwersCounted
<1>3. CASE ActiveSame
  BY <1>3, Zenon DEF ActiveSame, OwersCounted
<1>4. ASSUME NEW t \in Threads, TokenTaken(t) PROVE OwersCounted'
  <2>1. Cardinality(O \cup {t}) = Cardinality(O) + 1
    BY <1>1, <1>4, FS_AddElement, Zenon DEF TokenTaken
  <2> QED
    BY <1>1, <1>2, <1>4, <2>1 DEF TokenTaken, OwersCounted
<1>5. ASSUME NEW t \in Threads, TokenPut(t) PROVE OwersCounted'
  <2>1. Cardinality(O \ {t}) = Cardinality(O) - 1
    BY <1>1, <1>5, CardRemove, Zenon DEF TokenPut
  <2> QED
    BY <1>1, <1>2, <1>5, <2>1 DEF TokenPut, OwersCounted
<1>6. ASSUME NEW t \in Threads, TokenLost(t) PROVE FALSE
  <2>1. t \in Writers /\ pc[t] = "writing" /\ IsEmpty(cand[t])
        /\ (pin[t] > 0 \/ eager[t])
    BY <1>6, Zenon DEF TokenLost
  <2>2. ~eager[t]
    BY Zenon DEF UsedInv, BlockFit, OwnFit
  <2>3. cand[t] \in Zones
    BY <2>1, Zenon DEF FitInv, LocalsFit, TypeOK, LocalTypes, Threads
  <2> QED
    BY <2>1, <2>2, <2>3, PinnedWritten, Zenon DEF FitInv, UsedInv
<1>7. ASSUME NEW t \in Threads, NEW z \in Zones, ZoneRetired(t, z) PROVE OwersCounted'
  <2>1. Cardinality(O \cup {t}) = Cardinality(O) + 1
    BY <1>1, <1>7, FS_AddElement, Zenon DEF ZoneRetired
  <2>2. Cardinality(A \ {z}) = Cardinality(A) - 1
    BY <1>1, <1>7, CardRemove, Zenon DEF ZoneRetired
  <2> QED
    BY <1>1, <1>2, <1>7, <2>1, <2>2 DEF ZoneRetired, OwersCounted
<1>8. ASSUME NEW t \in Threads, NEW z \in Zones, ZoneStarted(t, z) PROVE OwersCounted'
  <2>1. Cardinality(A \cup {z}) = Cardinality(A) + 1
    BY <1>1, <1>8, FS_AddElement, Zenon DEF ZoneStarted
  <2>2. Cardinality(O \ {t}) = Cardinality(O) - 1
    BY <1>1, <1>8, CardRemove, Zenon DEF ZoneStarted
  <2> QED
    BY <1>1, <1>2, <1>8, <2>1, <2>2 DEF ZoneStarted, OwersCounted
<1> QED
  BY <1>3, <1>4, <1>5, <1>6, <1>7, <1>8, Zenon DEF ActiveEffect, ZoneFilled

(* Without buffered files, a collector and failing writes, active_io_zones_ *)
(* is exactly the number of active zones and of threads between taking a    *)
(* token and writing, or between retiring a zone and PutActiveIOZoneToken.  *)
THEOREM ActiveTokensConservedCorrect ==
  ASSUME Buffered = {}, Collectors = {}, "write" \notin Faults
  PROVE  Spec => []ActiveTokensConserved
<1>1. Init => FitInv /\ UsedInv /\ OwersCounted
  <2> SUFFICES ASSUME Init PROVE OwersCounted
    BY FitInit, UsedInit, Zenon
  <2>1. active_io_zones_ = Cardinality(ActiveZones)
    BY Zenon DEF Init
  <2>2. Cardinality(Owers) = 0
    BY NoneOwed, FS_EmptySet, Zenon
  <2> QED
    BY <2>1, <2>2, ActiveFinite DEF OwersCounted
<1>2. FitInv /\ UsedInv /\ OwersCounted /\ [Next]_vars
        => FitInv' /\ UsedInv' /\ OwersCounted'
  <2> SUFFICES ASSUME FitInv, UsedInv, OwersCounted, [Next]_vars
               PROVE  FitInv' /\ UsedInv' /\ OwersCounted'
    BY Zenon
  <2>1. FitInv' /\ UsedInv'
    BY FitStep, UsedStep, Zenon
  <2>2. ActiveEffect
    BY ActiveEffects, Zenon DEF FitInv
  <2> QED
    BY <2>1, <2>2, OwersStep, Zenon
<1>3. OwersCounted => ActiveTokensConserved
  BY Zenon DEF OwersCounted, ActiveTokensConserved, Owers
<1> QED
  BY <1>1, <1>2, <1>3, PTL DEF Spec
=============================================================================
