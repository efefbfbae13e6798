--------------------------- MODULE ZoneFitProofs ----------------------------
(***************************************************************************)
(* What ownership is for: no reset takes away live blocks, and the contents *)
(* of zones fit the threads that hold them.  Then how a step changes the    *)
(* active zones, the threads that owe a token for one, and the counter.     *)
(***************************************************************************)
EXTENDS ZoneOwnerProofs

(* What LiveDataKept says of one step.                                      *)
ResetsOnlyUnused ==
  \A z \in Zones : wp[z] > 0 /\ wp'[z] = 0 =>
     /\ ~IsUsed(z) /\ ~IsUsed(z)'
     /\ \A t \in Writers : pc[t] = "writing" => cand[t] # z

LEMMA KeepsWp ==
  ASSUME UNCHANGED wp
  PROVE  ResetsOnlyUnused
BY DEF ResetsOnlyUnused

LEMMA WritesOn ==
  ASSUME \A z \in Zones : wp[z] > 0 => wp'[z] # 0
  PROVE  ResetsOnlyUnused
BY Zenon DEF ResetsOnlyUnused

LEMMA ResetStepsOnlyUnused ==
  ASSUME TypeOK, LocalsFit, ZoneOwnership, [Next]_vars
  PROVE  ResetsOnlyUnused
<1> USE DEF zoneVars, At
<1>1. ASSUME NEW t \in Threads, NEW from \in LoopLabels,
             SkipBusy(t, from)
      PROVE  ResetsOnlyUnused
  BY <1>1, KeepsWp, Zenon DEF SkipBusy
<1>2. ASSUME NEW t \in Threads, NEW from \in LoopLabels, NEW to \in HoldLabels,
             LoopPair(t, from, to), Acquire(t, from, to)
      PROVE  ResetsOnlyUnused
  BY <1>2, KeepsWp, Zenon DEF Acquire
<1>3. ASSUME NEW t \in Threads, NEW from \in LoopLabels, NEW to \in {"idle", "wait"},
             LeavePair(t, from, to), Leave(t, from, to)
      PROVE  ResetsOnlyUnused
  BY <1>3, KeepsWp, Zenon DEF Leave
<1>4. ASSUME NEW t \in Threads, NEW from \in PutLabels, NEW to \in {"idle", "thr", "spin", "rst"},
             PutPair(t, from, to), PutActive(t, from, to)
      PROVE  ResetsOnlyUnused
  BY <1>4, KeepsWp, Zenon DEF PutActive
<1>5. ASSUME NEW t \in Writers \cup Collectors, NEW held \in {"bestHold", "matchHold"}, NEW back \in {"best", "match"}, NEW n \in Nat,
             BestPair(t, held, back, n), BestInspect(t, held, back, n)
      PROVE  ResetsOnlyUnused
  BY <1>5, KeepsWp, Zenon DEF BestInspect
<1>6. ASSUME NEW t \in Writers, AllocateStart(t) PROVE ResetsOnlyUnused
  BY <1>6, KeepsWp, Zenon DEF AllocateStart
<1>7. ASSUME NEW t \in Writers, ThresholdInspect(t) PROVE ResetsOnlyUnused
  <2>1. CASE FinishZone(scan[t])
    BY <2>1, WritesOn, ZonesAssumption DEF FinishZone, TypeOK, ZoneTypes
  <2>2. CASE UNCHANGED wp
    BY <2>2, KeepsWp, Zenon
  <2> QED
    BY <1>7, <2>1, <2>2, Zenon DEF ThresholdInspect
<1>8. ASSUME NEW t \in Writers, TakeOpenToken(t) PROVE ResetsOnlyUnused
  BY <1>8, KeepsWp, Zenon DEF TakeOpenToken
<1>9. ASSUME NEW t \in Writers, WaitOpenToken(t) PROVE ResetsOnlyUnused
  BY <1>9, KeepsWp, Zenon DEF WaitOpenToken
<1>10. ASSUME NEW t \in Writers, BestDone(t) PROVE ResetsOnlyUnused
  BY <1>10, KeepsWp, Zenon DEF BestDone
<1>11. ASSUME NEW t \in Writers, TryActive(t) PROVE ResetsOnlyUnused
  BY <1>11, KeepsWp, Zenon DEF TryActive
<1>12. ASSUME NEW t \in Writers, Spin(t) PROVE ResetsOnlyUnused
  BY <1>12, KeepsWp, Zenon DEF Spin
<1>13. ASSUME NEW t \in Writers, CheapestInspect(t) PROVE ResetsOnlyUnused
  BY <1>13, KeepsWp, Zenon DEF CheapestInspect
<1>14. ASSUME NEW t \in Writers, CheapestFinish(t) PROVE ResetsOnlyUnused
  <2>1. CASE FinishZone(cand[t])
    BY <2>1, WritesOn, ZonesAssumption DEF FinishZone, TypeOK, ZoneTypes
  <2>2. CASE UNCHANGED wp
    BY <2>2, KeepsWp, Zenon
  <2> QED
    BY <1>14, <2>1, <2>2, Zenon DEF CheapestFinish
<1>15. ASSUME NEW t \in Writers, EmptyInspect(t) PROVE ResetsOnlyUnused
  BY <1>15, KeepsWp, Zenon DEF EmptyInspect
<1>16. ASSUME NEW t \in Writers, EmptyNone(t) PROVE ResetsOnlyUnused
  BY <1>16, KeepsWp, Zenon DEF EmptyNone
<1>17. ASSUME NEW t \in Writers, ReturnOpenToken(t) PROVE ResetsOnlyUnused
  BY <1>17, KeepsWp, Zenon DEF ReturnOpenToken
<1>18. ASSUME NEW t \in Writers, Append(t) PROVE ResetsOnlyUnused
  <2>1. wp' = [wp EXCEPT ![cand[t]] = wp[cand[t]] + 1]
    BY <1>18, Zenon DEF Append
  <2>2. cand[t] \in Zones
    BY <1>18, Zenon DEF Append, LocalsFit, TypeOK, LocalTypes, Threads
  <2>3. \A z \in Zones : wp[z] > 0 => wp'[z] # 0
    BY <2>1, <2>2, SMTT(30) DEF TypeOK, ZoneTypes
  <2> QED
    BY <2>3, WritesOn, Zenon
<1>19. ASSUME NEW t \in Writers, PushExtent(t) PROVE ResetsOnlyUnused
  BY <1>19, KeepsWp, ZenonT(60) DEF PushExtent
<1>20. ASSUME NEW t \in Writers, CloseActiveZone(t) PROVE ResetsOnlyUnused
  BY <1>20, KeepsWp, Zenon DEF CloseActiveZone
<1>21. ASSUME NEW t \in Writers, ClosePutOpen(t) PROVE ResetsOnlyUnused
  BY <1>21, KeepsWp, Zenon DEF ClosePutOpen
<1>22. ASSUME NEW t \in Writers, CloseError(t) PROVE ResetsOnlyUnused
  BY <1>22, KeepsWp, Zenon DEF CloseError
<1>23. ASSUME NEW t \in Writers, SpuriousWakeup(t) PROVE ResetsOnlyUnused
  BY <1>23, KeepsWp, Zenon DEF SpuriousWakeup
<1>24. ASSUME NEW c \in Cleaners, NEW z \in Zones,
             DeleteExtents(c, z)
      PROVE  ResetsOnlyUnused
  BY <1>24, KeepsWp, Zenon DEF DeleteExtents
<1>25. ASSUME NEW c \in Cleaners, LogStart(c) PROVE ResetsOnlyUnused
  BY <1>25, KeepsWp, Zenon DEF LogStart
<1>26. ASSUME NEW c \in Cleaners, LogInspect(c) PROVE ResetsOnlyUnused
  BY <1>26, KeepsWp, Zenon DEF LogInspect
<1>27. ASSUME NEW c \in Cleaners \cup Collectors,
             ResetInspect(c)
      PROVE  ResetsOnlyUnused
  <2>1. scan[c] \in Zones /\ scan[c] \in Held(c) /\ c \in Threads
    BY <1>27, ZenonT(60) DEF ResetInspect, Held, HeldScan, HoldLabels, LocalsFit, Threads
  <2>2. ASSUME NEW t \in Writers, pc[t] = "writing" PROVE cand[t] # scan[c]
    <3>1. cand[t] \in Held(t) /\ t \in Threads
      BY <2>2, Zenon DEF Threads, Held, HeldCand, LocalsFit, TypeOK, LocalTypes
    <3>2. t # c
      BY <1>27, <2>2, ThreadsAssumption, Zenon
    <3> QED
      BY <2>1, <3>1, <3>2, Zenon DEF ZoneOwnership
  <2>3. \/ UNCHANGED wp
        \/ wp' = [wp EXCEPT ![scan[c]] = 0] /\ ~IsUsed(scan[c]) /\ UNCHANGED used
    BY <1>27, Zenon DEF ResetInspect
  <2>4. CASE UNCHANGED wp
    BY <2>4, KeepsWp, Zenon
  <2>5. CASE wp' = [wp EXCEPT ![scan[c]] = 0] /\ ~IsUsed(scan[c]) /\ UNCHANGED used
    <3>1. ASSUME NEW z \in Zones, wp[z] > 0, wp'[z] = 0 PROVE z = scan[c]
      BY <2>1, <2>5, <3>1, SMTT(30) DEF TypeOK, ZoneTypes
    <3>2. ASSUME NEW z \in Zones, z = scan[c] PROVE ~IsUsed(z) /\ ~IsUsed(z)'
      BY <2>5, <3>2, Zenon DEF IsUsed
    <3> QED
      BY <2>2, <3>1, <3>2, Zenon DEF ResetsOnlyUnused
  <2> QED
    BY <2>3, <2>4, <2>5, Zenon
<1>28. ASSUME NEW g \in Collectors, NEW z \in Zones,
             MigrateStart(g, z)
      PROVE  ResetsOnlyUnused
  BY <1>28, KeepsWp, Zenon DEF MigrateStart
<1>29. ASSUME NEW g \in Collectors, TakeMigrateZone(g) PROVE ResetsOnlyUnused
  BY <1>29, KeepsWp, Zenon DEF TakeMigrateZone
<1>30. ASSUME NEW g \in Collectors, MigrateData(g) PROVE ResetsOnlyUnused
  <2>1. CASE UNCHANGED wp
    BY <2>1, KeepsWp, Zenon
  <2>2. CASE wp' = [wp EXCEPT ![cand[g]] = @ + pin[g]]
    <3>1. pin[g] \in Nat
      BY Zenon DEF TypeOK, CountTypes, Threads
    <3>2. \A z \in Zones : wp[z] > 0 => wp'[z] # 0
      BY <2>2, <3>1, SMTT(30) DEF TypeOK, ZoneTypes
    <3> QED
      BY <3>2, WritesOn, Zenon
  <2> QED
    BY <1>30, <2>1, <2>2, Zenon DEF MigrateData
<1>31. ASSUME NEW g \in Collectors, ReleaseMigrateZone(g) PROVE ResetsOnlyUnused
  BY <1>31, KeepsWp, Zenon DEF ReleaseMigrateZone
<1>32. ASSUME NEW g \in Collectors, SyncFileExtents(g) PROVE ResetsOnlyUnused
  BY <1>32, KeepsWp, Zenon DEF SyncFileExtents
<1>33. ASSUME NEW t \in Threads, NotifyOne(t) PROVE ResetsOnlyUnused
  BY <1>33, KeepsWp, Zenon DEF NotifyOne
<1>34. CASE UNCHANGED vars
  BY <1>34, KeepsWp, Zenon DEF vars
<1> HIDE DEF zoneVars, At
<1> QED
  BY NextCases, <1>1, <1>2, <1>3, <1>4, <1>5, <1>6, <1>7, <1>8, <1>9, <1>10,
     <1>11, <1>12, <1>13, <1>14, <1>15, <1>16, <1>17, <1>18, <1>19, <1>20,
     <1>21, <1>22, <1>23, <1>24, <1>25, <1>26, <1>27, <1>28, <1>29, <1>30,
     <1>31, <1>32, <1>33, <1>34, ZenonT(60) DEF AnyStep

(* A reset never takes away a block that a file refers to or that a writer  *)
(* has written without having recorded its extent, whatever the others do.  *)
THEOREM LiveDataKeptCorrect == Spec => LiveDataKept
<1>1. TypeOK /\ LocalsFit /\ ZoneOwnership /\ [Next]_vars => [ResetsOnlyUnused]_vars
  BY ResetStepsOnlyUnused, Zenon
<1> QED
  BY OwnershipInit, OwnershipInvariant, <1>1, PTL DEF Spec, LiveDataKept, ResetsOnlyUnused

-----------------------------------------------------------------------------
(* What is written where: a zone with live or unpushed blocks is not empty, *)
(* and a zone kept as a match or as a victim to finish stays active.        *)
KeepLabels == {"best", "bestHold", "tryActive", "fin", "finHold", "match", "matchHold"}

ZonesFit ==
  /\ \A z \in Zones : used[z] > 0 => wp[z] > 0
  /\ \A t \in Writers : unpushed[t] > 0 => pc[t] = "writing" /\ wp[cand[t]] > 0
  /\ \A t \in Threads : pc[t] \in KeepLabels /\ cand[t] # NoZone => cand[t] \in ActiveZones

(* A step of t writes, finishes and resets only zones that t holds.         *)
OnlyOwn(t) ==
  \A z \in Zones : z \notin Held(t) => wp'[z] = wp[z] /\ capacity'[z] = capacity[z]

LEMMA OthersKeep ==
  ASSUME TypeOK, LocalsFit, ZoneOwnership, NEW t \in Threads, OnlyOwn(t),
         NEW u \in Threads \ {t}, cand[u] # NoZone, pc[u] # "swapped"
  PROVE  /\ wp'[cand[u]] = wp[cand[u]] /\ capacity'[cand[u]] = capacity[cand[u]]
         /\ cand[u] \in Zones /\ cand[u] \notin Held(t)
<1>1. cand[u] \in Zones /\ cand[u] \in Held(u)
  BY Zenon DEF TypeOK, LocalTypes, Held, HeldCand
<1>2. cand[u] \notin Held(t)
  BY <1>1, Zenon DEF ZoneOwnership
<1> QED
  BY <1>1, <1>2, Zenon DEF OnlyOwn

LEMMA FitScan ==
  ASSUME TypeOK, LocalsFit, ZoneOwnership, ZonesFit, ScanStep
  PROVE  ZonesFit'
<1>0. ZoneTypes /\ FlagTypes /\ CountTypes /\ LocalTypes /\ PcTypes
  BY Zenon DEF TypeOK
<1> USE <1>0
<1> USE ThreadsAssumption, ZonesAssumption
<1> USE DEF zoneVars, tokenVars, fileVars, devVars, At, Goto, Threads
<1>1. ASSUME NEW t \in Threads, NEW from \in LoopLabels,
             SkipBusy(t, from)
      PROVE  ZonesFit'
  BY <1>1, PositionFacts, Zenon DEF ZonesFit, KeepLabels, ActiveZones, IsEmpty, IsFull, ZoneTypes,
     CountTypes, LocalTypes, PcTypes, LocalsFit, CandLabels, SkipBusy, LoopLabels
<1>2. ASSUME NEW t \in Threads, NEW from \in LoopLabels, NEW to \in HoldLabels,
             LoopPair(t, from, to), Acquire(t, from, to)
      PROVE  ZonesFit'
  BY <1>2, PositionFacts, SMTT(60) DEF ZonesFit, KeepLabels, ActiveZones,
     IsEmpty, IsFull, ZoneTypes, CountTypes, LocalTypes, PcTypes, LocalsFit,
     CandLabels, Acquire, LoopPair
<1>3. ASSUME NEW t \in Threads, NEW from \in LoopLabels, NEW to \in {"idle", "wait"},
             LeavePair(t, from, to), Leave(t, from, to)
      PROVE  ZonesFit'
  BY <1>3, PositionFacts, Zenon DEF ZonesFit, KeepLabels, ActiveZones, IsEmpty, IsFull, ZoneTypes,
     CountTypes, LocalTypes, PcTypes, LocalsFit, CandLabels, Leave, LeavePair, LoopDone, Loop
<1>4. ASSUME NEW t \in Threads, NEW from \in PutLabels, NEW to \in {"idle", "thr", "spin", "rst"},
             PutPair(t, from, to), PutActive(t, from, to)
      PROVE  ZonesFit'
  BY <1>4, PositionFacts, Zenon DEF ZonesFit, KeepLabels, ActiveZones, IsEmpty, IsFull, ZoneTypes,
     CountTypes, LocalTypes, PcTypes, LocalsFit, CandLabels, PutActive, PutPair, PutActiveIOZoneToken
<1>5. ASSUME NEW t \in Writers \cup Collectors, NEW held \in {"bestHold", "matchHold"}, NEW back \in {"best", "match"}, NEW n \in Nat,
             BestPair(t, held, back, n), BestInspect(t, held, back, n)
      PROVE  ZonesFit'
  BY <1>5, PositionFacts, SMTT(60) DEF ZonesFit, KeepLabels, ActiveZones,
     IsEmpty, IsFull, ZoneTypes, CountTypes, LocalTypes, PcTypes, IsUsed,
     LocalsFit, HoldLabels, BestInspect, BestPair, Pass, Prefer
<1> HIDE DEF zoneVars, tokenVars, fileVars, devVars, At, Goto, Threads
<1> QED
  BY <1>1, <1>2, <1>3, <1>4, <1>5, ZenonT(60) DEF ScanStep

LEMMA FitAlloc ==
  ASSUME TypeOK, LocalsFit, ZoneOwnership, ZonesFit, AllocStep
  PROVE  ZonesFit'
<1>0. ZoneTypes /\ FlagTypes /\ CountTypes /\ LocalTypes /\ PcTypes
  BY Zenon DEF TypeOK
<1> USE <1>0
<1> USE ThreadsAssumption, ZonesAssumption
<1> USE DEF zoneVars, tokenVars, fileVars, devVars, At, Goto, Threads
<1>1. ASSUME NEW t \in Writers, AllocateStart(t) PROVE ZonesFit'
  BY <1>1, PositionFacts DEF ZonesFit, KeepLabels, ActiveZones, IsEmpty,
     IsFull, ZoneTypes, CountTypes, LocalTypes, PcTypes, LocalsFit,
     CandLabels, AllocateStart, Loop
<1>2. ASSUME NEW t \in Writers, ThresholdInspect(t) PROVE ZonesFit'
  <2>0. t \in Threads
    BY Zenon
  <2>1. OnlyOwn(t)
    BY <1>2, Zenon DEF OnlyOwn, Held, HeldCand, HeldScan, HoldLabels, LocalsFit, ZoneTypes,
       LocalTypes, PcTypes, ThresholdInspect, Pass, Quit, Loop, FinishZone
  <2>2. \A z \in Zones : used'[z] > 0 => wp'[z] > 0
    BY <1>2, SMTT(60) DEF ZonesFit, ZoneTypes, CountTypes, LocalTypes,
       LocalsFit, HoldLabels, IsEmpty, IsFull, IsUsed, ThresholdInspect, Pass,
       Quit, Loop, FinishZone
  <2>3. \A u \in Writers : unpushed'[u] > 0 => pc'[u] = "writing" /\ wp'[cand'[u]] > 0
    <3> TAKE u \in Writers
    <3>1. CASE u = t
      BY <1>2, <3>1, Zenon DEF ZonesFit, ZoneTypes, CountTypes, LocalTypes, PcTypes, LocalsFit,
         ThresholdInspect, Pass, Quit, Loop, FinishZone
    <3>2. CASE u # t
      <4>1. unpushed'[u] = unpushed[u] /\ pc'[u] = pc[u] /\ cand'[u] = cand[u]
        BY <1>2, <3>2, Zenon DEF CountTypes, LocalTypes, PcTypes, ThresholdInspect, Pass, Quit,
           Loop, FinishZone
      <4>2. u \in Threads \ {t}
        BY <3>2, Zenon
      <4> QED
        BY <2>0, <2>1, <3>2, <4>1, <4>2, OthersKeep, SMTT(60) DEF ZonesFit,
           LocalsFit
    <3> QED
      BY <3>1, <3>2, Zenon
  <2>4. \A u \in Threads : pc'[u] \in KeepLabels /\ cand'[u] # NoZone
                             => cand'[u] \in ActiveZones'
    <3> TAKE u \in Threads
    <3>1. CASE u = t
      BY <1>2, <3>1, Zenon DEF KeepLabels, PcTypes, LocalTypes, LocalsFit, CandLabels,
         ThresholdInspect, Pass, Quit, Loop, FinishZone
    <3>2. CASE u # t
      <4>1. pc'[u] = pc[u] /\ cand'[u] = cand[u]
        BY <1>2, <3>2, Zenon DEF LocalTypes, PcTypes, ThresholdInspect, Pass, Quit, Loop,
           FinishZone
      <4>2. u \in Threads \ {t}
        BY <3>2, Zenon
      <4> QED
        BY <2>0, <2>1, <3>2, <4>1, <4>2, OthersKeep, SMTT(30) DEF ZonesFit, KeepLabels, ActiveZones, IsEmpty, IsFull
    <3> QED
      BY <3>1, <3>2, Zenon
  <2> QED
    BY <2>2, <2>3, <2>4, Zenon DEF ZonesFit
<1>3. ASSUME NEW t \in Writers, TakeOpenToken(t) PROVE ZonesFit'
  BY <1>3, PositionFacts, Zenon DEF ZonesFit, KeepLabels, ActiveZones, IsEmpty, IsFull, ZoneTypes,
     CountTypes, LocalTypes, PcTypes, LocalsFit, CandLabels, TakeOpenToken, Loop
<1>4. ASSUME NEW t \in Writers, WaitOpenToken(t) PROVE ZonesFit'
  BY <1>4, PositionFacts, Zenon DEF ZonesFit, KeepLabels, ActiveZones, IsEmpty, IsFull, ZoneTypes,
     CountTypes, LocalTypes, PcTypes, LocalsFit, CandLabels, WaitOpenToken
<1>5. ASSUME NEW t \in Writers, BestDone(t) PROVE ZonesFit'
  BY <1>5, PositionFacts, ZenonT(60) DEF ZonesFit, KeepLabels, ActiveZones, IsEmpty,
     IsFull, ZoneTypes, CountTypes, LocalTypes, PcTypes, LocalsFit,
     CandLabels, BestDone, LoopDone, Loop, COULD_BE_WORSE
<1>6. ASSUME NEW t \in Writers, TryActive(t) PROVE ZonesFit'
  BY <1>6, PositionFacts, SMTT(60) DEF ZonesFit, KeepLabels, ActiveZones,
     IsEmpty, IsFull, ZoneTypes, CountTypes, LocalTypes, PcTypes, LocalsFit,
     CandLabels, TryActive, TakeActiveToken, NoActiveToken, DropCand, Loop
<1>7. ASSUME NEW t \in Writers, Spin(t) PROVE ZonesFit'
  BY <1>7, PositionFacts, ZenonT(60) DEF ZonesFit, KeepLabels, ActiveZones, IsEmpty,
     IsFull, ZoneTypes, CountTypes, LocalTypes, PcTypes, LocalsFit,
     CandLabels, Spin, TakeActiveToken, NoActiveToken, Loop
<1>8. ASSUME NEW t \in Writers, CheapestInspect(t) PROVE ZonesFit'
  BY <1>8, PositionFacts, ZenonT(60) DEF ZonesFit, KeepLabels, ActiveZones, IsEmpty,
     IsFull, ZoneTypes, CountTypes, LocalTypes, PcTypes, IsUsed,
     LocalsFit, HoldLabels, CheapestInspect, Pass, Prefer
<1>9. ASSUME NEW t \in Writers, CheapestFinish(t) PROVE ZonesFit'
  <2>0. t \in Threads
    BY Zenon
  <2>1. OnlyOwn(t)
    BY <1>9, SMTT(60) DEF OnlyOwn, Held, HeldCand, HeldScan, HoldLabels,
       LocalsFit, ZoneTypes, LocalTypes, PcTypes, CheapestFinish, LoopDone, Loop,
       DropCand, FinishZone
  <2>2. \A z \in Zones : used'[z] > 0 => wp'[z] > 0
    BY <1>9, SMTT(60) DEF ZonesFit, ZoneTypes, CountTypes, LocalTypes,
       LocalsFit, HoldLabels, IsEmpty, IsFull, IsUsed, CheapestFinish, LoopDone,
       Loop, DropCand, FinishZone
  <2>3. \A u \in Writers : unpushed'[u] > 0 => pc'[u] = "writing" /\ wp'[cand'[u]] > 0
    <3> TAKE u \in Writers
    <3>1. CASE u = t
      BY <1>9, <3>1, ZenonT(60) DEF ZonesFit, ZoneTypes, CountTypes, LocalTypes,
         PcTypes, LocalsFit, CheapestFinish, LoopDone, Loop, DropCand,
         FinishZone
    <3>2. CASE u # t
      <4>1. unpushed'[u] = unpushed[u] /\ pc'[u] = pc[u] /\ cand'[u] = cand[u]
        BY <1>9, <3>2, ZenonT(60) DEF CountTypes, LocalTypes, PcTypes,
           CheapestFinish, LoopDone, Loop, DropCand, FinishZone
      <4>2. u \in Threads \ {t}
        BY <3>2, Zenon
      <4> QED
        BY <2>0, <2>1, <3>2, <4>1, <4>2, OthersKeep, SMTT(60) DEF ZonesFit,
           LocalsFit
    <3> QED
      BY <3>1, <3>2, Zenon
  <2>4. \A u \in Threads : pc'[u] \in KeepLabels /\ cand'[u] # NoZone
                             => cand'[u] \in ActiveZones'
    <3> TAKE u \in Threads
    <3>1. CASE u = t
      BY <1>9, <3>1, ZenonT(60) DEF KeepLabels, PcTypes, LocalTypes, LocalsFit,
         CandLabels, CheapestFinish, LoopDone, Loop, DropCand, FinishZone
    <3>2. CASE u # t
      <4>1. pc'[u] = pc[u] /\ cand'[u] = cand[u]
        BY <1>9, <3>2, ZenonT(60) DEF LocalTypes, PcTypes, CheapestFinish,
           LoopDone, Loop, DropCand, FinishZone
      <4>2. u \in Threads \ {t}
        BY <3>2, Zenon
      <4> QED
        BY <2>0, <2>1, <3>2, <4>1, <4>2, OthersKeep DEF ZonesFit, KeepLabels, ActiveZones, IsEmpty, IsFull
    <3> QED
      BY <3>1, <3>2, Zenon
  <2> QED
    BY <2>2, <2>3, <2>4, Zenon DEF ZonesFit
<1>10. ASSUME NEW t \in Writers, EmptyInspect(t) PROVE ZonesFit'
  BY <1>10, PositionFacts, SMTT(60) DEF ZonesFit, KeepLabels, ActiveZones,
     IsEmpty, IsFull, ZoneTypes, CountTypes, LocalTypes, PcTypes, LocalsFit,
     CandLabels, EmptyInspect, Pass, Loop
<1>11. ASSUME NEW t \in Writers, EmptyNone(t) PROVE ZonesFit'
  BY <1>11, PositionFacts, Zenon DEF ZonesFit, KeepLabels, ActiveZones, IsEmpty, IsFull,
     ZoneTypes, CountTypes, LocalTypes, PcTypes, LocalsFit, CandLabels, EmptyNone, LoopDone, Loop,
     PutActiveIOZoneToken
<1> HIDE DEF zoneVars, tokenVars, fileVars, devVars, At, Goto, Threads
<1> QED
  BY <1>1, <1>2, <1>3, <1>4, <1>5, <1>6, <1>7, <1>8, <1>9, <1>10, <1>11, ZenonT(60) DEF AllocStep

LEMMA FitFile ==
  ASSUME TypeOK, LocalsFit, ZoneOwnership, ZonesFit, FileStep
  PROVE  ZonesFit'
<1>0. ZoneTypes /\ FlagTypes /\ CountTypes /\ LocalTypes /\ PcTypes
  BY Zenon DEF TypeOK
<1> USE <1>0
<1> USE ThreadsAssumption, ZonesAssumption
<1> USE DEF zoneVars, tokenVars, fileVars, devVars, At, Goto, Threads
<1>1. ASSUME NEW t \in Writers, ReturnOpenToken(t) PROVE ZonesFit'
  BY <1>1, PositionFacts, Zenon DEF ZonesFit, KeepLabels, ActiveZones, IsEmpty, IsFull, ZoneTypes,
     CountTypes, LocalTypes, PcTypes, LocalsFit, CandLabels, ReturnOpenToken, PutOpenIOZoneToken
<1>2. ASSUME NEW t \in Writers, Append(t) PROVE ZonesFit'
  <2>0. t \in Threads
    BY Zenon
  <2>1. OnlyOwn(t)
    BY <1>2, Zenon DEF OnlyOwn, Held, HeldCand, HeldScan, HoldLabels, LocalsFit, ZoneTypes,
       LocalTypes, PcTypes, Append
  <2>2. \A z \in Zones : used'[z] > 0 => wp'[z] > 0
    BY <1>2, SMTT(60) DEF ZonesFit, ZoneTypes, CountTypes, LocalTypes,
       LocalsFit, HoldLabels, IsEmpty, IsFull, IsUsed, Append
  <2>3. \A u \in Writers : unpushed'[u] > 0 => pc'[u] = "writing" /\ wp'[cand'[u]] > 0
    <3> TAKE u \in Writers
    <3>1. CASE u = t
      BY <1>2, <3>1, SMTT(60) DEF ZonesFit, ZoneTypes, CountTypes, LocalTypes,
         PcTypes, LocalsFit, Append
    <3>2. CASE u # t
      <4>1. unpushed'[u] = unpushed[u] /\ pc'[u] = pc[u] /\ cand'[u] = cand[u]
        BY <1>2, <3>2, Zenon DEF CountTypes, LocalTypes, PcTypes, Append
      <4>2. u \in Threads \ {t}
        BY <3>2, Zenon
      <4> QED
        BY <2>0, <2>1, <3>2, <4>1, <4>2, OthersKeep, SMTT(60) DEF ZonesFit,
           LocalsFit
    <3> QED
      BY <3>1, <3>2, Zenon
  <2>4. \A u \in Threads : pc'[u] \in KeepLabels /\ cand'[u] # NoZone
                             => cand'[u] \in ActiveZones'
    <3> TAKE u \in Threads
    <3>1. CASE u = t
      BY <1>2, <3>1, Zenon DEF KeepLabels, PcTypes, LocalTypes, LocalsFit, CandLabels, Append
    <3>2. CASE u # t
      <4>1. pc'[u] = pc[u] /\ cand'[u] = cand[u]
        BY <1>2, <3>2, Zenon DEF LocalTypes, PcTypes, Append
      <4>2. u \in Threads \ {t}
        BY <3>2, Zenon
      <4> QED
        BY <2>0, <2>1, <3>2, <4>1, <4>2, OthersKeep DEF ZonesFit, KeepLabels, ActiveZones, IsEmpty, IsFull
    <3> QED
      BY <3>1, <3>2, Zenon
  <2> QED
    BY <2>2, <2>3, <2>4, Zenon DEF ZonesFit
<1>3. ASSUME NEW t \in Writers, PushExtent(t) PROVE ZonesFit'
  BY <1>3, PositionFacts, Zenon DEF ZonesFit, KeepLabels, ActiveZones, IsEmpty, IsFull, ZoneTypes,
     CountTypes, LocalTypes, PcTypes, IsUsed, LocalsFit, HoldLabels, PushExtent
<1>4. ASSUME NEW t \in Writers, CloseActiveZone(t) PROVE ZonesFit'
  BY <1>4, PositionFacts, SMTT(60) DEF ZonesFit, KeepLabels, ActiveZones,
     IsEmpty, IsFull, ZoneTypes, CountTypes, LocalTypes, PcTypes, LocalsFit,
     CandLabels, CloseActiveZone, DropCand
<1>5. ASSUME NEW t \in Writers, ClosePutOpen(t) PROVE ZonesFit'
  BY <1>5, PositionFacts, Zenon DEF ZonesFit, KeepLabels, ActiveZones, IsEmpty, IsFull, ZoneTypes,
     CountTypes, LocalTypes, PcTypes, LocalsFit, CandLabels, ClosePutOpen, PutOpenIOZoneToken
<1>6. ASSUME NEW t \in Writers, CloseError(t) PROVE ZonesFit'
  BY <1>6, PositionFacts, Zenon DEF ZonesFit, KeepLabels, ActiveZones, IsEmpty, IsFull, ZoneTypes,
     CountTypes, LocalTypes, PcTypes, LocalsFit, CandLabels, CloseError, SetZoneDeferredStatus
<1>7. ASSUME NEW t \in Writers, SpuriousWakeup(t) PROVE ZonesFit'
  BY <1>7, PositionFacts, Zenon DEF ZonesFit, KeepLabels, ActiveZones, IsEmpty, IsFull, ZoneTypes,
     CountTypes, LocalTypes, PcTypes, LocalsFit, CandLabels, SpuriousWakeup
<1> HIDE DEF zoneVars, tokenVars, fileVars, devVars, At, Goto, Threads
<1> QED
  BY <1>1, <1>2, <1>3, <1>4, <1>5, <1>6, <1>7, ZenonT(60) DEF FileStep

LEMMA FitReclaim ==
  ASSUME TypeOK, LocalsFit, ZoneOwnership, ZonesFit, ReclaimStep
  PROVE  ZonesFit'
<1>0. ZoneTypes /\ FlagTypes /\ CountTypes /\ LocalTypes /\ PcTypes
  BY Zenon DEF TypeOK
<1> USE <1>0
<1> USE ThreadsAssumption, ZonesAssumption
<1> USE DEF zoneVars, tokenVars, fileVars, devVars, At, Goto, Threads
<1>1. ASSUME NEW c \in Cleaners, NEW z \in Zones,
             DeleteExtents(c, z)
      PROVE  ZonesFit'
  BY <1>1, PositionFacts, SMTT(60) DEF ZonesFit, KeepLabels, ActiveZones,
     IsEmpty, IsFull, ZoneTypes, CountTypes, LocalTypes, PcTypes, IsUsed,
     LocalsFit, HoldLabels, DeleteExtents, Loop
<1>2. ASSUME NEW c \in Cleaners, LogStart(c) PROVE ZonesFit'
  BY <1>2, PositionFacts, Zenon DEF ZonesFit, KeepLabels, ActiveZones, IsEmpty, IsFull, ZoneTypes,
     CountTypes, LocalTypes, PcTypes, LocalsFit, CandLabels, LogStart, Loop
<1>3. ASSUME NEW c \in Cleaners, LogInspect(c) PROVE ZonesFit'
  BY <1>3, PositionFacts, Zenon DEF ZonesFit, KeepLabels, ActiveZones, IsEmpty, IsFull, ZoneTypes,
     CountTypes, LocalTypes, PcTypes, LocalsFit, CandLabels, LogInspect, Pass
<1>4. ASSUME NEW c \in Cleaners \cup Collectors,
             ResetInspect(c)
      PROVE  ZonesFit'
  <2>0. c \in Threads
    BY Zenon
  <2>1. OnlyOwn(c)
    <3>1. scan[c] \in Held(c)
      BY <1>4, Zenon DEF Held, HeldCand, HeldScan, HoldLabels, ResetInspect
    <3>2. \A z \in Zones : z # scan[c] => wp'[z] = wp[z] /\ capacity'[z] = capacity[z]
      BY <1>4, ZenonT(60) DEF ZoneTypes, ResetInspect, Pass, Quit, Loop
    <3> QED
      BY <3>1, <3>2, Zenon DEF OnlyOwn
  <2>2. \A z \in Zones : used'[z] > 0 => wp'[z] > 0
    BY <1>4, Zenon DEF ZonesFit, ZoneTypes, CountTypes, LocalTypes, LocalsFit, HoldLabels,
       IsEmpty, IsFull, IsUsed, ResetInspect, Pass, Quit, Loop
  <2>3. \A u \in Writers : unpushed'[u] > 0 => pc'[u] = "writing" /\ wp'[cand'[u]] > 0
    <3> TAKE u \in Writers
    <3>1. CASE u = c
      BY <1>4, <3>1, ZenonT(60) DEF ZonesFit, ZoneTypes, CountTypes, LocalTypes,
         PcTypes, LocalsFit, ResetInspect, Pass, Quit, Loop
    <3>2. CASE u # c
      <4>1. unpushed'[u] = unpushed[u] /\ pc'[u] = pc[u] /\ cand'[u] = cand[u]
        BY <1>4, <3>2, Zenon DEF CountTypes, LocalTypes, PcTypes, ResetInspect, Pass, Quit, Loop
      <4>2. u \in Threads \ {c}
        BY <3>2, Zenon
      <4> QED
        BY <2>0, <2>1, <3>2, <4>1, <4>2, OthersKeep, ZenonT(60) DEF ZonesFit, LocalsFit
    <3> QED
      BY <3>1, <3>2, Zenon
  <2>4. \A u \in Threads : pc'[u] \in KeepLabels /\ cand'[u] # NoZone
                             => cand'[u] \in ActiveZones'
    <3> TAKE u \in Threads
    <3>1. CASE u = c
      BY <1>4, <3>1, Zenon DEF KeepLabels, PcTypes, LocalTypes, LocalsFit, CandLabels,
         ResetInspect, Pass, Quit, Loop
    <3>2. CASE u # c
      <4>1. pc'[u] = pc[u] /\ cand'[u] = cand[u]
        BY <1>4, <3>2, Zenon DEF LocalTypes, PcTypes, ResetInspect, Pass, Quit, Loop
      <4>2. u \in Threads \ {c}
        BY <3>2, Zenon
      <4> QED
        BY <2>0, <2>1, <3>2, <4>1, <4>2, OthersKeep, ZenonT(60) DEF ZonesFit, KeepLabels, ActiveZones, IsEmpty, IsFull
    <3> QED
      BY <3>1, <3>2, Zenon
  <2> QED
    BY <2>2, <2>3, <2>4, Zenon DEF ZonesFit
<1> HIDE DEF zoneVars, tokenVars, fileVars, devVars, At, Goto, Threads
<1> QED
  BY <1>1, <1>2, <1>3, <1>4, ZenonT(60) DEF ReclaimStep

LEMMA FitCollect ==
  ASSUME TypeOK, LocalsFit, ZoneOwnership, ZonesFit, CollectStep
  PROVE  ZonesFit'
<1>0. ZoneTypes /\ FlagTypes /\ CountTypes /\ LocalTypes /\ PcTypes
  BY Zenon DEF TypeOK
<1> USE <1>0
<1> USE ThreadsAssumption, ZonesAssumption
<1> USE DEF zoneVars, tokenVars, fileVars, devVars, At, Goto, Threads
<1>1. ASSUME NEW g \in Collectors, NEW z \in Zones,
             MigrateStart(g, z)
      PROVE  ZonesFit'
  BY <1>1, PositionFacts, ZenonT(60) DEF ZonesFit, KeepLabels, ActiveZones, IsEmpty,
     IsFull, ZoneTypes, CountTypes, LocalTypes, PcTypes, LocalsFit,
     CandLabels, MigrateStart
<1>2. ASSUME NEW g \in Collectors, TakeMigrateZone(g) PROVE ZonesFit'
  BY <1>2, PositionFacts, ZenonT(60) DEF ZonesFit, KeepLabels, ActiveZones, IsEmpty,
     IsFull, ZoneTypes, CountTypes, LocalTypes, PcTypes, LocalsFit,
     CandLabels, TakeMigrateZone, Loop
<1>3. ASSUME NEW g \in Collectors, MigrateData(g) PROVE ZonesFit'
  <2>0. g \in Threads
    BY Zenon
  <2>1. OnlyOwn(g)
    BY <1>3, ZenonT(60) DEF OnlyOwn, Held, HeldCand, HeldScan, HoldLabels, LocalsFit,
       ZoneTypes, LocalTypes, PcTypes, MigrateData, LoopDone, Loop
  <2>2. \A z \in Zones : used'[z] > 0 => wp'[z] > 0
    BY <1>3, SMTT(60) DEF ZonesFit, ZoneTypes, CountTypes, LocalTypes,
       LocalsFit, HoldLabels, IsEmpty, IsFull, IsUsed, MigrateData, LoopDone, Loop
  <2>3. \A u \in Writers : unpushed'[u] > 0 => pc'[u] = "writing" /\ wp'[cand'[u]] > 0
    <3> TAKE u \in Writers
    <3>1. CASE u = g
      BY <1>3, <3>1, ZenonT(60) DEF ZonesFit, ZoneTypes, CountTypes, LocalTypes,
         PcTypes, LocalsFit, MigrateData, LoopDone, Loop
    <3>2. CASE u # g
      <4>1. unpushed'[u] = unpushed[u] /\ pc'[u] = pc[u] /\ cand'[u] = cand[u]
        BY <1>3, <3>2, Zenon DEF CountTypes, LocalTypes, PcTypes, MigrateData, LoopDone, Loop
      <4>2. u \in Threads \ {g}
        BY <3>2, Zenon
      <4> QED
        BY <2>0, <2>1, <3>2, <4>1, <4>2, OthersKeep, ZenonT(60) DEF ZonesFit, LocalsFit
    <3> QED
      BY <3>1, <3>2, Zenon
  <2>4. \A u \in Threads : pc'[u] \in KeepLabels /\ cand'[u] # NoZone
                             => cand'[u] \in ActiveZones'
    <3> TAKE u \in Threads
    <3>1. CASE u = g
      BY <1>3, <3>1, ZenonT(60) DEF KeepLabels, PcTypes, LocalTypes, LocalsFit,
         CandLabels, MigrateData, LoopDone, Loop
    <3>2. CASE u # g
      <4>1. pc'[u] = pc[u] /\ cand'[u] = cand[u]
        BY <1>3, <3>2, Zenon DEF LocalTypes, PcTypes, MigrateData, LoopDone, Loop
      <4>2. u \in Threads \ {g}
        BY <3>2, ZenonT(60)
      <4> QED
        BY <2>0, <2>1, <3>2, <4>1, <4>2, OthersKeep, ZenonT(60) DEF ZonesFit, KeepLabels, ActiveZones, IsEmpty, IsFull
    <3> QED
      BY <3>1, <3>2, Zenon
  <2> QED
    BY <2>2, <2>3, <2>4, Zenon DEF ZonesFit
<1>4. ASSUME NEW g \in Collectors, ReleaseMigrateZone(g) PROVE ZonesFit'
  BY <1>4, PositionFacts, Zenon DEF ZonesFit, KeepLabels, ActiveZones, IsEmpty, IsFull, ZoneTypes,
     CountTypes, LocalTypes, PcTypes, LocalsFit, CandLabels, ReleaseMigrateZone
<1>5. ASSUME NEW g \in Collectors, SyncFileExtents(g) PROVE ZonesFit'
  <2>1. \A z \in Zones : used'[z] > 0 => wp'[z] > 0
    BY <1>5, SMTT(60) DEF ZonesFit, SyncFileExtents, ZoneTypes, CountTypes,
       LocalTypes
  <2>2. wp' = wp /\ capacity' = capacity /\ unpushed' = unpushed
    BY <1>5, ZenonT(60) DEF SyncFileExtents
  <2>3. \A u \in Writers : pc'[u] = pc[u] /\ cand'[u] = cand[u]
    BY <1>5, Zenon DEF SyncFileExtents, Loop, PcTypes, LocalTypes
  <2>4. \A u \in Threads : pc'[u] \in KeepLabels => pc'[u] = pc[u] /\ cand'[u] = cand[u]
    BY <1>5, Zenon DEF SyncFileExtents, Loop, PcTypes, LocalTypes, KeepLabels
  <2> QED
    BY <2>1, <2>2, <2>3, <2>4, ZenonT(60) DEF ZonesFit, ActiveZones, IsEmpty, IsFull
<1>6. ASSUME NEW t \in Threads, NotifyOne(t) PROVE ZonesFit'
  BY <1>6, PositionFacts, Zenon DEF ZonesFit, KeepLabels, ActiveZones, IsEmpty, IsFull, ZoneTypes,
     CountTypes, LocalTypes, PcTypes, LocalsFit, CandLabels, NotifyOne, Asleep
<1> HIDE DEF zoneVars, tokenVars, fileVars, devVars, At, Goto, Threads
<1> QED
  BY <1>1, <1>2, <1>3, <1>4, <1>5, <1>6, ZenonT(60) DEF CollectStep

LEMMA ZonesFitStep ==
  ASSUME TypeOK, LocalsFit, ZoneOwnership, ZonesFit, [Next]_vars
  PROVE  ZonesFit'
<1>1. CASE UNCHANGED vars
  BY <1>1, Zenon DEF vars, zoneVars, tokenVars, fileVars, devVars, ZonesFit, ActiveZones, IsEmpty, IsFull
<1> QED
  BY <1>1, StepKinds, FitScan, FitAlloc, FitFile, FitReclaim, FitCollect, Zenon

(* The invariant so far.                                                    *)
FitInv == TypeOK /\ LocalsFit /\ ZoneOwnership /\ ZonesFit

LEMMA FitInit == Init => FitInv
<1> SUFFICES ASSUME Init PROVE FitInv
  BY Zenon
<1>1. TypeOK /\ LocalsFit /\ ZoneOwnership
  BY OwnershipInit, Zenon
<1>2. ZonesFit
  BY <1>1, ZonesAssumption DEF Init, ZonesFit, TypeOK, ZoneTypes, Threads
<1> QED
  BY <1>1, <1>2, Zenon DEF FitInv

LEMMA FitStep == FitInv /\ [Next]_vars => FitInv'
BY TypeStep, OwnershipStep, ZonesFitStep, Zenon DEF FitInv
-----------------------------------------------------------------------------

(* Active zones.  How a step can change the active zones, the threads that  *)
(* have a token for a zone that is not active, and the counter.             *)
Owers == {t \in Threads : OwesActive(t)}

ActiveSame ==
  ActiveZones' = ActiveZones /\ Owers' = Owers /\ active_io_zones_' = active_io_zones_
TokenTaken(t) ==
  /\ ActiveZones' = ActiveZones /\ t \notin Owers /\ Owers' = Owers \cup {t}
  /\ active_io_zones_ < max_nr_active_io_zones_ /\ active_io_zones_' = active_io_zones_ + 1
TokenPut(t) ==
  /\ ActiveZones' = ActiveZones /\ t \in Owers /\ Owers' = Owers \ {t}
  /\ active_io_zones_' = active_io_zones_ - 1
ZoneRetired(t, z) ==      \* finished, filled or reset by t
  /\ z \in ActiveZones /\ ActiveZones' = ActiveZones \ {z}
  /\ t \notin Owers /\ Owers' = Owers \cup {t}
  /\ active_io_zones_' = active_io_zones_
ZoneStarted(t, z) ==      \* t wrote the first block
  /\ z \notin ActiveZones /\ ActiveZones' = ActiveZones \cup {z}
  /\ t \in Owers /\ Owers' = Owers \ {t}
  /\ active_io_zones_' = active_io_zones_
TokenLost(t) ==           \* t closed an empty zone
  /\ t \in Writers /\ pc[t] = "writing" /\ IsEmpty(cand[t])
  /\ pin[t] > 0 \/ eager[t] \/ "write" \in Faults
  /\ ActiveZones' = ActiveZones /\ t \in Owers /\ Owers' = Owers \ {t}
  /\ active_io_zones_' = active_io_zones_
ZoneFilled(z) ==          \* by the collector, which returns no token
  /\ z \in ActiveZones /\ ActiveZones' = ActiveZones \ {z} /\ Owers' = Owers
  /\ Collectors # {}
  /\ active_io_zones_' = active_io_zones_

ActiveEffect ==
  \/ ActiveSame
  \/ \E t \in Threads : TokenTaken(t) \/ TokenPut(t) \/ TokenLost(t)
  \/ \E t \in Threads, z \in Zones : ZoneRetired(t, z) \/ ZoneStarted(t, z)
  \/ \E z \in Zones : ZoneFilled(z)

(* What a thread owes depends on its own place and zone, and on the zone's  *)
(* state, which no other thread changes.                                    *)
LEMMA OthersOwe ==
  ASSUME TypeOK, LocalsFit, ZoneOwnership, NEW t \in Threads, OnlyOwn(t),
         NEW u \in Threads \ {t}, pc'[u] = pc[u], cand'[u] = cand[u]
  PROVE  OwesActive(u)' <=> OwesActive(u)
<1>1. CASE u \in Writers /\ pc[u] = "writing"
  BY <1>1, OthersKeep, Zenon DEF LocalsFit, OwesActive, ActiveZones, IsEmpty, IsFull
<1>2. CASE ~(u \in Writers /\ pc[u] = "writing")
  BY <1>2, Zenon DEF OwesActive
<1> QED
  BY <1>1, <1>2, Zenon

LEMMA ActiveScan ==
  ASSUME TypeOK, LocalsFit, ZoneOwnership, ZonesFit, ScanStep
  PROVE  ActiveEffect
<1>0. ZoneTypes /\ FlagTypes /\ CountTypes /\ LocalTypes /\ PcTypes
  BY Zenon DEF TypeOK
<1> USE <1>0
<1> USE ThreadsAssumption, ZonesAssumption
<1> USE DEF zoneVars, tokenVars, fileVars, devVars, At, Goto, Threads
<1>1. ASSUME NEW t \in Threads, NEW from \in LoopLabels,
             SkipBusy(t, from)
      PROVE  ActiveEffect
  <2>1. ActiveSame
    BY <1>1, Zenon DEF ActiveSame, ActiveZones, IsEmpty, IsFull, Owers, OwesActive, PcTypes,
       LocalTypes, SkipBusy, LoopLabels
  <2> QED
    BY <2>1, Zenon DEF ActiveEffect
<1>2. ASSUME NEW t \in Threads, NEW from \in LoopLabels, NEW to \in HoldLabels,
             LoopPair(t, from, to), Acquire(t, from, to)
      PROVE  ActiveEffect
  <2>1. ActiveSame
    BY <1>2, Zenon DEF ActiveSame, ActiveZones, IsEmpty, IsFull, Owers, OwesActive, PcTypes,
       LocalTypes, Acquire, LoopPair
  <2> QED
    BY <2>1, Zenon DEF ActiveEffect
<1>3. ASSUME NEW t \in Threads, NEW from \in LoopLabels, NEW to \in {"idle", "wait"},
             LeavePair(t, from, to), Leave(t, from, to)
      PROVE  ActiveEffect
  <2>1. ActiveSame
    BY <1>3, Zenon DEF ActiveSame, ActiveZones, IsEmpty, IsFull, Owers, OwesActive, PcTypes,
       LocalTypes, Leave, LeavePair, LoopDone, Loop
  <2> QED
    BY <2>1, Zenon DEF ActiveEffect
<1>4. ASSUME NEW t \in Threads, NEW from \in PutLabels, NEW to \in {"idle", "thr", "spin", "rst"},
             PutPair(t, from, to), PutActive(t, from, to)
      PROVE  ActiveEffect
  <2>1. TokenPut(t)
    BY <1>4, Zenon DEF TokenPut, ActiveZones, IsEmpty, IsFull, Owers, OwesActive, PcTypes,
       LocalTypes, PutActive, PutPair, PutActiveIOZoneToken
  <2> QED
    BY <2>1, Zenon DEF ActiveEffect
<1>5. ASSUME NEW t \in Writers \cup Collectors, NEW held \in {"bestHold", "matchHold"}, NEW back \in {"best", "match"}, NEW n \in Nat,
             BestPair(t, held, back, n), BestInspect(t, held, back, n)
      PROVE  ActiveEffect
  <2>1. ActiveSame
    BY <1>5 DEF ActiveSame, ActiveZones, IsEmpty, IsFull, Owers, OwesActive,
       PcTypes, LocalTypes, BestInspect, BestPair, Pass, Prefer
  <2> QED
    BY <2>1, Zenon DEF ActiveEffect
<1> HIDE DEF zoneVars, tokenVars, fileVars, devVars, At, Goto, Threads
<1> QED
  BY <1>1, <1>2, <1>3, <1>4, <1>5, SMTT(60) DEF ScanStep

LEMMA ActiveAlloc ==
  ASSUME TypeOK, LocalsFit, ZoneOwnership, ZonesFit, AllocStep
  PROVE  ActiveEffect
<1>0. ZoneTypes /\ FlagTypes /\ CountTypes /\ LocalTypes /\ PcTypes
  BY Zenon DEF TypeOK
<1> USE <1>0
<1> USE ThreadsAssumption, ZonesAssumption
<1> USE DEF zoneVars, tokenVars, fileVars, devVars, At, Goto, Threads
<1>1. ASSUME NEW t \in Writers, AllocateStart(t) PROVE ActiveEffect
  <2>1. ActiveSame
    BY <1>1 DEF ActiveSame, ActiveZones, IsEmpty, IsFull, Owers, OwesActive,
       PcTypes, LocalTypes, AllocateStart, Loop
  <2> QED
    BY <2>1, Zenon DEF ActiveEffect
<1>2. ASSUME NEW t \in Writers, ThresholdInspect(t) PROVE ActiveEffect
  <2>0. t \in Threads
    BY Zenon
  <2>1. \A u \in Threads \ {t} : pc'[u] = pc[u] /\ cand'[u] = cand[u]
    BY <1>2, Zenon DEF PcTypes, LocalTypes, ThresholdInspect, Pass, Quit, Loop, FinishZone
  <2>3. ActiveEffect
    <3>0. scan[t] \in Zones /\ scan[t] \in Held(t)
      BY <1>2, Zenon DEF Held, HeldScan, HoldLabels, LocalsFit, ThresholdInspect
    <3>1. OnlyOwn(t)
      <4>1. \A y \in Zones : y # scan[t] => wp'[y] = wp[y] /\ capacity'[y] = capacity[y]
        BY <1>2, Zenon DEF ZoneTypes, ThresholdInspect, Pass, Quit, Loop, FinishZone
      <4> QED
        BY <3>0, <4>1, Zenon DEF OnlyOwn
    <3>2. \A u \in Threads \ {t} : OwesActive(u)' <=> OwesActive(u)
      BY <2>0, <2>1, <3>1, OthersOwe, Zenon
    <3>3. CASE pc'[t] = "thrPut"
      <4>1. scan[t] \in ActiveZones /\ ActiveZones' = ActiveZones \ {scan[t]}
        BY <1>2, <3>0, <3>3, Zenon DEF ActiveZones, IsEmpty, IsFull, IsUsed, ZoneTypes, PcTypes,
           ThresholdInspect, Pass, Quit, Loop, FinishZone
      <4>2. OwesActive(t)' /\ ~OwesActive(t)
        BY <1>2, <3>3, Zenon DEF OwesActive, ThresholdInspect
      <4>3. ZoneRetired(t, scan[t])
        BY <1>2, <3>2, <4>1, <4>2, Zenon DEF ZoneRetired, Owers, ThresholdInspect
      <4> QED
        BY <2>0, <3>0, <4>3, Zenon DEF ActiveEffect
    <3>4. CASE pc'[t] # "thrPut"
      <4>1. ActiveZones' = ActiveZones
        BY <1>2, <3>0, <3>4, Zenon DEF ActiveZones, IsEmpty, IsFull, IsUsed, ZoneTypes, PcTypes,
           ThresholdInspect, Pass, Quit, Loop, FinishZone
      <4>2. OwesActive(t)' <=> OwesActive(t)
        BY <1>2, <3>4, Zenon DEF OwesActive, PcTypes, ThresholdInspect, Pass, Quit, Loop,
           FinishZone
      <4>3. ActiveSame
        BY <1>2, <3>2, <4>1, <4>2, Zenon DEF ActiveSame, Owers, ThresholdInspect
      <4> QED
        BY <4>3, Zenon DEF ActiveEffect
    <3> QED
      BY <3>3, <3>4, Zenon
  <2> QED
    BY <2>3, Zenon
<1>3. ASSUME NEW t \in Writers, TakeOpenToken(t) PROVE ActiveEffect
  <2>1. ActiveSame
    BY <1>3, Zenon DEF ActiveSame, ActiveZones, IsEmpty, IsFull, Owers, OwesActive, PcTypes,
       LocalTypes, TakeOpenToken, Loop
  <2> QED
    BY <2>1, Zenon DEF ActiveEffect
<1>4. ASSUME NEW t \in Writers, WaitOpenToken(t) PROVE ActiveEffect
  <2>1. ActiveSame
    BY <1>4, Zenon DEF ActiveSame, ActiveZones, IsEmpty, IsFull, Owers, OwesActive, PcTypes,
       LocalTypes, WaitOpenToken
  <2> QED
    BY <2>1, Zenon DEF ActiveEffect
<1>5. ASSUME NEW t \in Writers, BestDone(t) PROVE ActiveEffect
  <2>1. ActiveSame
    BY <1>5 DEF ActiveSame, ActiveZones, IsEmpty, IsFull, Owers, OwesActive,
       PcTypes, LocalTypes, ZonesFit, KeepLabels, LocalsFit,
       CandLabels, NOT_GOOD, BestDone, LoopDone, Loop, COULD_BE_WORSE
  <2> QED
    BY <2>1, Zenon DEF ActiveEffect
<1>6. ASSUME NEW t \in Writers, TryActive(t) PROVE ActiveEffect
  <2>1. ActiveSame \/ TokenTaken(t)
    BY <1>6, SMTT(60) DEF ActiveSame, TokenTaken, ZonesFit, KeepLabels,
       ActiveZones, IsEmpty, IsFull, Owers, OwesActive, PcTypes, LocalTypes,
       CountTypes, TryActive, TakeActiveToken, NoActiveToken, DropCand, Loop
  <2> QED
    BY <2>1, ZenonT(60) DEF ActiveEffect
<1>7. ASSUME NEW t \in Writers, Spin(t) PROVE ActiveEffect
  <2>1. ActiveSame \/ TokenTaken(t)
    BY <1>7, SMTT(60) DEF ActiveSame, TokenTaken, ZonesFit, KeepLabels,
       ActiveZones, IsEmpty, IsFull, Owers, OwesActive, PcTypes, LocalTypes,
       CountTypes, Spin, TakeActiveToken, NoActiveToken, Loop
  <2> QED
    BY <2>1, Zenon DEF ActiveEffect
<1>8. ASSUME NEW t \in Writers, CheapestInspect(t) PROVE ActiveEffect
  <2>1. ActiveSame
    BY <1>8, SMTT(60) DEF ActiveSame, ActiveZones, IsEmpty, IsFull, Owers,
       OwesActive, PcTypes, LocalTypes, CheapestInspect, Pass, Prefer
  <2> QED
    BY <2>1, Zenon DEF ActiveEffect
<1>9. ASSUME NEW t \in Writers, CheapestFinish(t) PROVE ActiveEffect
  <2>0. t \in Threads
    BY Zenon
  <2>1. \A u \in Threads \ {t} : pc'[u] = pc[u] /\ cand'[u] = cand[u]
    BY <1>9, Zenon DEF PcTypes, LocalTypes, CheapestFinish, LoopDone, Loop, DropCand, FinishZone
  <2>2. CASE cand[t] = NoZone
    <3>1. ActiveSame
      BY <1>9, <2>2 DEF ActiveSame, ActiveZones, IsEmpty, IsFull, Owers,
         OwesActive, PcTypes, LocalTypes, CheapestFinish, LoopDone,
         Loop, DropCand, FinishZone
    <3> QED
      BY <3>1, Zenon DEF ActiveEffect
  <2>3. CASE cand[t] # NoZone
    <3>0. cand[t] \in Zones /\ cand[t] \in Held(t) /\ cand[t] \in ActiveZones
      BY <1>9, <2>3, Zenon DEF Held, HeldCand, ZonesFit, KeepLabels, LocalTypes, LoopDone,
         CheapestFinish
    <3>1. OnlyOwn(t)
      <4>1. \A y \in Zones : y # cand[t] => wp'[y] = wp[y] /\ capacity'[y] = capacity[y]
        BY <1>9, Zenon DEF ZoneTypes, CheapestFinish, LoopDone, Loop, DropCand, FinishZone
      <4> QED
        BY <3>0, <4>1, Zenon DEF OnlyOwn
    <3>2. \A u \in Threads \ {t} : OwesActive(u)' <=> OwesActive(u)
      BY <2>0, <2>1, <3>1, OthersOwe, Zenon
    <3>3. CASE pc'[t] = "finPut"
      <4>1. cand[t] \in ActiveZones /\ ActiveZones' = ActiveZones \ {cand[t]}
        BY <1>9, <3>0, <3>3, Zenon DEF ActiveZones, IsEmpty, IsFull, IsUsed, ZoneTypes, PcTypes,
           CheapestFinish, LoopDone, Loop, DropCand, FinishZone
      <4>2. OwesActive(t)' /\ ~OwesActive(t)
        BY <1>9, <3>3, Zenon DEF OwesActive, CheapestFinish, LoopDone
      <4>3. ZoneRetired(t, cand[t])
        BY <1>9, <3>2, <4>1, <4>2, Zenon DEF ZoneRetired, Owers, CheapestFinish
      <4> QED
        BY <2>0, <3>0, <4>3, Zenon DEF ActiveEffect
    <3>4. CASE pc'[t] # "finPut"
      <4>1. ActiveZones' = ActiveZones
        BY <1>9, <3>0, <3>4, Zenon DEF ActiveZones, IsEmpty, IsFull, IsUsed, ZoneTypes, PcTypes,
           CheapestFinish, LoopDone, Loop, DropCand, FinishZone
      <4>2. OwesActive(t)' <=> OwesActive(t)
        BY <1>9, <3>4, Zenon DEF OwesActive, PcTypes, CheapestFinish, LoopDone, Loop, DropCand,
           FinishZone
      <4>3. ActiveSame
        BY <1>9, <3>2, <4>1, <4>2, ZenonT(60) DEF ActiveSame, Owers, CheapestFinish
      <4> QED
        BY <4>3, Zenon DEF ActiveEffect
    <3> QED
      BY <3>3, <3>4, Zenon
  <2> QED
    BY <2>2, <2>3, Zenon
<1>10. ASSUME NEW t \in Writers, EmptyInspect(t) PROVE ActiveEffect
  <2>1. ActiveSame
    BY <1>10, SMTT(60) DEF ActiveSame, ActiveZones, IsEmpty, IsFull, Owers,
       OwesActive, PcTypes, LocalTypes, ZonesFit, KeepLabels, LocalsFit,
       HoldLabels, EmptyInspect, Pass, Loop
  <2> QED
    BY <2>1, Zenon DEF ActiveEffect
<1>11. ASSUME NEW t \in Writers, EmptyNone(t) PROVE ActiveEffect
  <2>1. TokenPut(t)
    BY <1>11, Zenon DEF TokenPut, ActiveZones, IsEmpty, IsFull, Owers, OwesActive, PcTypes,
       LocalTypes, EmptyNone, LoopDone, Loop, PutActiveIOZoneToken
  <2> QED
    BY <2>1, Zenon DEF ActiveEffect
<1> HIDE DEF zoneVars, tokenVars, fileVars, devVars, At, Goto, Threads
<1> QED
  BY <1>1, <1>2, <1>3, <1>4, <1>5, <1>6, <1>7, <1>8, <1>9, <1>10, <1>11, ZenonT(60) DEF AllocStep

LEMMA ActiveFile ==
  ASSUME TypeOK, LocalsFit, ZoneOwnership, ZonesFit, FileStep
  PROVE  ActiveEffect
<1>0. ZoneTypes /\ FlagTypes /\ CountTypes /\ LocalTypes /\ PcTypes
  BY Zenon DEF TypeOK
<1> USE <1>0
<1> USE ThreadsAssumption, ZonesAssumption
<1> USE DEF zoneVars, tokenVars, fileVars, devVars, At, Goto, Threads
<1>1. ASSUME NEW t \in Writers, ReturnOpenToken(t) PROVE ActiveEffect
  <2>1. ActiveSame
    BY <1>1, Zenon DEF ActiveSame, ActiveZones, IsEmpty, IsFull, Owers, OwesActive, PcTypes,
       LocalTypes, ReturnOpenToken, PutOpenIOZoneToken
  <2> QED
    BY <2>1, Zenon DEF ActiveEffect
<1>2. ASSUME NEW t \in Writers, Append(t) PROVE ActiveEffect
  <2>0. t \in Threads
    BY Zenon
  <2>1. \A u \in Threads \ {t} : pc'[u] = pc[u] /\ cand'[u] = cand[u]
    BY <1>2, ZenonT(60) DEF PcTypes, LocalTypes, Append
  <2>2. /\ cand[t] \in Zones /\ cand[t] \in Held(t) /\ cand'[t] = cand[t]
        /\ pc'[t] = "writing" /\ pc[t] = "writing"
    BY <1>2, Zenon DEF Append, LocalsFit, Held, HeldCand, LocalTypes
  <2>3. /\ wp' = [wp EXCEPT ![cand[t]] = wp[cand[t]] + 1] /\ capacity[cand[t]] > 0
        /\ capacity' = [capacity EXCEPT ![cand[t]] = capacity[cand[t]] - 1]
    BY <1>2, Zenon DEF Append
  <2>4. OnlyOwn(t)
    BY <2>2, <2>3, Zenon DEF OnlyOwn, ZoneTypes
  <2>5. \A u \in Threads \ {t} : OwesActive(u)' <=> OwesActive(u)
    BY <2>0, <2>1, <2>4, OthersOwe, Zenon
  <2>6. /\ OwesActive(t) <=> cand[t] \notin ActiveZones
        /\ OwesActive(t)' <=> cand[t] \notin ActiveZones'
    BY <2>2, Zenon DEF OwesActive
  <2>7. /\ cand[t] \in ActiveZones <=> wp[cand[t]] # 0
        /\ cand[t] \in ActiveZones' <=> capacity[cand[t]] # 1
        /\ \A y \in Zones : y # cand[t] => (y \in ActiveZones' <=> y \in ActiveZones)
    BY <2>2, <2>3, SMTT(30) DEF ActiveZones, IsEmpty, IsFull, ZoneTypes
  <2>8. active_io_zones_' = active_io_zones_
    BY <1>2, Zenon DEF Append
  <2>9. ActiveZones \subseteq Zones /\ ActiveZones' \subseteq Zones
    BY Zenon DEF ActiveZones
  <2> HIDE DEF Threads
  <2>10. CASE cand[t] \in ActiveZones /\ cand[t] \in ActiveZones'
    <3>1. ActiveZones' = ActiveZones
      BY <2>7, <2>9, <2>10
    <3>2. Owers' = Owers
      BY <2>5, <2>6, <2>10, Zenon DEF Owers
    <3>3. ActiveSame
      BY <2>8, <3>1, <3>2, Zenon DEF ActiveSame
    <3> QED
      BY <3>3, Zenon DEF ActiveEffect
  <2>11. CASE cand[t] \in ActiveZones /\ cand[t] \notin ActiveZones'
    <3>1. ZoneRetired(t, cand[t])
      BY <2>0, <2>5, <2>6, <2>7, <2>8, <2>9, <2>11, Zenon DEF ZoneRetired, Owers
    <3> QED
      BY <2>0, <2>2, <3>1, Zenon DEF ActiveEffect
  <2>12. CASE cand[t] \notin ActiveZones /\ cand[t] \in ActiveZones'
    <3>1. ZoneStarted(t, cand[t])
      BY <2>0, <2>2, <2>5, <2>6, <2>7, <2>8, <2>9, <2>12, ZenonT(60) DEF ZoneStarted, Owers
    <3> QED
      BY <2>0, <2>2, <3>1, ZenonT(60) DEF ActiveEffect
  <2>13. CASE cand[t] \notin ActiveZones /\ cand[t] \notin ActiveZones'
    <3>1. ActiveZones' = ActiveZones
      BY <2>7, <2>9, <2>13
    <3>2. Owers' = Owers
      BY <2>5, <2>6, <2>13, Zenon DEF Owers
    <3>3. ActiveSame
      BY <2>8, <3>1, <3>2, Zenon DEF ActiveSame
    <3> QED
      BY <3>3, Zenon DEF ActiveEffect
  <2> QED
    BY <2>10, <2>11, <2>12, <2>13, Zenon
<1>3. ASSUME NEW t \in Writers, PushExtent(t) PROVE ActiveEffect
  <2>1. ActiveSame
    BY <1>3, Zenon DEF ActiveSame, ActiveZones, IsEmpty, IsFull, Owers, OwesActive, PcTypes,
       LocalTypes, PushExtent
  <2> QED
    BY <2>1, Zenon DEF ActiveEffect
<1>4. ASSUME NEW t \in Writers, CloseActiveZone(t) PROVE ActiveEffect
  <2>1. ActiveZones' = ActiveZones /\ active_io_zones_' = active_io_zones_
    BY <1>4, Zenon DEF ActiveZones, IsEmpty, IsFull, CloseActiveZone
  <2>2. \A u \in Threads \ {t} : pc'[u] = pc[u] /\ cand'[u] = cand[u]
    BY <1>4, Zenon DEF PcTypes, LocalTypes, CloseActiveZone, DropCand
  <2>3. \A u \in Threads \ {t} : OwesActive(u)' <=> OwesActive(u)
    BY <2>1, <2>2, Zenon DEF OwesActive
  <2>4. OwesActive(t)' => OwesActive(t)
    <3>1. pc[t] = "writing" /\ pc'[t] \in {"putOpenFull", "putOpen", "closeFailed"}
      BY <1>4, Zenon DEF PcTypes, CloseActiveZone
    <3>2. pc'[t] = "putOpenFull" => IsFull(cand[t])
      BY <1>4, Zenon DEF PcTypes, CloseActiveZone
    <3>3. IsFull(cand[t]) => cand[t] \notin ActiveZones
      BY Zenon DEF ActiveZones
    <3> QED
      BY <3>1, <3>2, <3>3, ZenonT(60) DEF OwesActive
  <2>5. CASE OwesActive(t)' <=> OwesActive(t)
    BY <2>1, <2>3, <2>5, Zenon DEF ActiveEffect, ActiveSame, Owers
  <2>6. CASE OwesActive(t) /\ ~OwesActive(t)'
    <3>1. pc[t] = "writing" /\ cand[t] \in Zones /\ cand[t] \notin ActiveZones
      BY <1>4, <2>6, Zenon DEF OwesActive, CloseActiveZone, LocalsFit, LocalTypes
    <3>2. ~IsFull(cand[t])
      BY <1>4, <2>6, Zenon DEF OwesActive, CloseActiveZone, PcTypes
    <3>3. pin[t] > 0 \/ eager[t] \/ "write" \in Faults
      BY <1>4, <3>2, Zenon DEF CloseActiveZone
    <3>4. IsEmpty(cand[t])
      BY <3>1, <3>2, Zenon DEF ActiveZones
    <3>5. TokenLost(t)
      BY <1>4, <2>1, <2>3, <2>6, <3>1, <3>3, <3>4, Zenon DEF TokenLost, Owers
    <3> QED
      BY <3>5, Zenon DEF ActiveEffect
  <2> QED
    BY <2>4, <2>5, <2>6, Zenon
<1>5. ASSUME NEW t \in Writers, ClosePutOpen(t) PROVE ActiveEffect
  <2>1. ActiveSame
    BY <1>5, ZenonT(60) DEF ActiveSame, ActiveZones, IsEmpty, IsFull, Owers, OwesActive,
       PcTypes, LocalTypes, ClosePutOpen, PutOpenIOZoneToken
  <2> QED
    BY <2>1, Zenon DEF ActiveEffect
<1>6. ASSUME NEW t \in Writers, CloseError(t) PROVE ActiveEffect
  <2>1. ActiveSame
    BY <1>6, ZenonT(60) DEF ActiveSame, ActiveZones, IsEmpty, IsFull, Owers, OwesActive,
       PcTypes, LocalTypes, CloseError, SetZoneDeferredStatus
  <2> QED
    BY <2>1, Zenon DEF ActiveEffect
<1>7. ASSUME NEW t \in Writers, SpuriousWakeup(t) PROVE ActiveEffect
  <2>1. ActiveSame
    BY <1>7, Zenon DEF ActiveSame, ActiveZones, IsEmpty, IsFull, Owers, OwesActive, PcTypes,
       LocalTypes, SpuriousWakeup
  <2> QED
    BY <2>1, Zenon DEF ActiveEffect
<1> HIDE DEF zoneVars, tokenVars, fileVars, devVars, At, Goto, Threads
<1> QED
  BY <1>1, <1>2, <1>3, <1>4, <1>5, <1>6, <1>7, ZenonT(60) DEF FileStep

LEMMA ActiveReclaim ==
  ASSUME TypeOK, LocalsFit, ZoneOwnership, ZonesFit, ReclaimStep
  PROVE  ActiveEffect
<1>0. ZoneTypes /\ FlagTypes /\ CountTypes /\ LocalTypes /\ PcTypes
  BY Zenon DEF TypeOK
<1> USE <1>0
<1> USE ThreadsAssumption, ZonesAssumption
<1> USE DEF zoneVars, tokenVars, fileVars, devVars, At, Goto, Threads
<1>1. ASSUME NEW c \in Cleaners, NEW z \in Zones,
             DeleteExtents(c, z)
      PROVE  ActiveEffect
  <2>1. ActiveSame
    BY <1>1, Zenon DEF ActiveSame, ActiveZones, IsEmpty, IsFull, Owers, OwesActive, PcTypes,
       LocalTypes, DeleteExtents, Loop
  <2> QED
    BY <2>1, ZenonT(60) DEF ActiveEffect
<1>2. ASSUME NEW c \in Cleaners, LogStart(c) PROVE ActiveEffect
  <2>1. ActiveSame
    BY <1>2, ZenonT(60) DEF ActiveSame, ActiveZones, IsEmpty, IsFull, Owers, OwesActive,
       PcTypes, LocalTypes, LogStart, Loop
  <2> QED
    BY <2>1, Zenon DEF ActiveEffect
<1>3. ASSUME NEW c \in Cleaners, LogInspect(c) PROVE ActiveEffect
  <2>1. ActiveSame
    BY <1>3, Zenon DEF ActiveSame, ActiveZones, IsEmpty, IsFull, Owers, OwesActive, PcTypes,
       LocalTypes, LogInspect, Pass
  <2> QED
    BY <2>1, Zenon DEF ActiveEffect
<1>4. ASSUME NEW c \in Cleaners \cup Collectors,
             ResetInspect(c)
      PROVE  ActiveEffect
  <2>0. c \in Threads
    BY Zenon
  <2>1. \A u \in Threads \ {c} : pc'[u] = pc[u] /\ cand'[u] = cand[u]
    BY <1>4, Zenon DEF PcTypes, LocalTypes, ResetInspect, Pass, Quit, Loop
  <2>3. ActiveEffect
    <3>0. scan[c] \in Zones /\ scan[c] \in Held(c)
      BY <1>4, Zenon DEF Held, HeldScan, HoldLabels, LocalsFit, ResetInspect
    <3>1. OnlyOwn(c)
      <4>1. \A y \in Zones : y # scan[c] => wp'[y] = wp[y] /\ capacity'[y] = capacity[y]
        BY <1>4, Zenon DEF ZoneTypes, ResetInspect, Pass, Quit, Loop
      <4> QED
        BY <3>0, <4>1, Zenon DEF OnlyOwn
    <3>2. \A u \in Threads \ {c} : OwesActive(u)' <=> OwesActive(u)
      BY <2>0, <2>1, <3>1, OthersOwe, Zenon
    <3>3. CASE pc'[c] = "rstPut"
      <4>1. scan[c] \in ActiveZones /\ ActiveZones' = ActiveZones \ {scan[c]}
        BY <1>4, <3>0, <3>3, ZenonT(60) DEF ActiveZones, IsEmpty, IsFull, IsUsed,
           ZoneTypes, PcTypes, ResetInspect, Pass, Quit, Loop
      <4>2. OwesActive(c)' /\ ~OwesActive(c)
        BY <1>4, <3>3, Zenon DEF OwesActive, ResetInspect
      <4>3. ZoneRetired(c, scan[c])
        BY <1>4, <3>2, <4>1, <4>2, Zenon DEF ZoneRetired, Owers, ResetInspect
      <4> QED
        BY <2>0, <3>0, <4>3, ZenonT(60) DEF ActiveEffect
    <3>4. CASE pc'[c] # "rstPut"
      <4>1. ActiveZones' = ActiveZones
        BY <1>4, <3>0, <3>4, ZenonT(60) DEF ActiveZones, IsEmpty, IsFull, IsUsed,
           ZoneTypes, PcTypes, ResetInspect, Pass, Quit, Loop
      <4>2. OwesActive(c)' <=> OwesActive(c)
        BY <1>4, <3>4, ZenonT(60) DEF OwesActive, PcTypes, ResetInspect, Pass,
           Quit, Loop
      <4>3. ActiveSame
        BY <1>4, <3>2, <4>1, <4>2, ZenonT(60) DEF ActiveSame, Owers, ResetInspect
      <4> QED
        BY <4>3, ZenonT(60) DEF ActiveEffect
    <3> QED
      BY <3>3, <3>4, ZenonT(60)
  <2> QED
    BY <2>3, Zenon
<1> HIDE DEF zoneVars, tokenVars, fileVars, devVars, At, Goto, Threads
<1> QED
  BY <1>1, <1>2, <1>3, <1>4, ZenonT(60) DEF ReclaimStep

LEMMA ActiveCollect ==
  ASSUME TypeOK, LocalsFit, ZoneOwnership, ZonesFit, CollectStep
  PROVE  ActiveEffect
<1>0. ZoneTypes /\ FlagTypes /\ CountTypes /\ LocalTypes /\ PcTypes
  BY Zenon DEF TypeOK
<1> USE <1>0
<1> USE ThreadsAssumption, ZonesAssumption
<1> USE DEF zoneVars, tokenVars, fileVars, devVars, At, Goto, Threads
<1>1. ASSUME NEW g \in Collectors, NEW z \in Zones,
             MigrateStart(g, z)
      PROVE  ActiveEffect
  <2>1. ActiveSame
    BY <1>1, Zenon DEF ActiveSame, ActiveZones, IsEmpty, IsFull, Owers, OwesActive,
       PcTypes, LocalTypes, MigrateStart
  <2> QED
    BY <2>1, Zenon DEF ActiveEffect
<1>2. ASSUME NEW g \in Collectors, TakeMigrateZone(g) PROVE ActiveEffect
  <2>1. ActiveSame
    BY <1>2, Zenon DEF ActiveSame, ActiveZones, IsEmpty, IsFull, Owers, OwesActive, PcTypes,
       LocalTypes, TakeMigrateZone, Loop
  <2> QED
    BY <2>1, ZenonT(60) DEF ActiveEffect
<1>3. ASSUME NEW g \in Collectors, MigrateData(g) PROVE ActiveEffect
  <2>1. CASE cand[g] = NoZone
    <3>1. wp' = wp /\ capacity' = capacity /\ cand' = cand /\ active_io_zones_' = active_io_zones_
      BY <1>3, <2>1, Zenon DEF MigrateData
    <3>2. pc[g] = "match" /\ pc' = [pc EXCEPT ![g] = "rst"]
      BY <1>3, <2>1, Zenon DEF MigrateData, LoopDone, Loop
    <3>3. \A u \in Threads : OwesActive(u)' <=> OwesActive(u)
      BY <3>1, <3>2, Zenon DEF OwesActive, PcTypes, ActiveZones, IsEmpty, IsFull
    <3>4. ActiveSame
      BY <3>1, <3>3, Zenon DEF ActiveSame, Owers, ActiveZones, IsEmpty, IsFull
    <3> QED
      BY <3>4, Zenon DEF ActiveEffect
  <2>2. CASE cand[g] # NoZone
    <3>0. g \in Threads
      BY Zenon
    <3>1. cand[g] \in Zones /\ cand[g] \in Held(g) /\ cand[g] \in ActiveZones
      BY <1>3, <2>2, ZenonT(60) DEF Held, HeldCand, ZonesFit, KeepLabels, LocalTypes,
         LoopDone, MigrateData
    <3>2. /\ wp' = [wp EXCEPT ![cand[g]] = wp[cand[g]] + pin[g]]
          /\ capacity' = [capacity EXCEPT ![cand[g]] = capacity[cand[g]] - pin[g]]
          /\ active_io_zones_' = active_io_zones_ /\ pin[g] \in Nat
      BY <1>3, <2>2, Zenon DEF MigrateData, CountTypes
    <3>3. OnlyOwn(g)
      BY <3>1, <3>2, Zenon DEF OnlyOwn, ZoneTypes
    <3>4. \A u \in Threads \ {g} : pc'[u] = pc[u] /\ cand'[u] = cand[u]
      BY <1>3, Zenon DEF MigrateData, Loop, PcTypes, LocalTypes
    <3>5. \A u \in Threads \ {g} : OwesActive(u)' <=> OwesActive(u)
      BY <3>0, <3>3, <3>4, OthersOwe, ZenonT(60)
    <3>6. ~OwesActive(g) /\ ~OwesActive(g)'
      BY <1>3, <2>2, Zenon DEF OwesActive, MigrateData, LoopDone, Loop, PcTypes
    <3>7. Owers' = Owers
      BY <3>5, <3>6, ZenonT(60) DEF Owers
    <3>8. \A y \in Zones : y # cand[g] => (y \in ActiveZones' <=> y \in ActiveZones)
      BY <3>1, <3>2, Zenon DEF ActiveZones, IsEmpty, IsFull, ZoneTypes
    <3>9. ActiveSame \/ ZoneFilled(cand[g])
      BY <3>1, <3>2, <3>7, <3>8, ZenonT(60) DEF ActiveSame, ZoneFilled, ActiveZones
    <3> QED
      BY <3>1, <3>9, Zenon DEF ActiveEffect
  <2> QED
    BY <2>1, <2>2, ZenonT(60)
<1>4. ASSUME NEW g \in Collectors, ReleaseMigrateZone(g) PROVE ActiveEffect
  <2>1. ActiveSame
    BY <1>4, ZenonT(60) DEF ActiveSame, ActiveZones, IsEmpty, IsFull, Owers, OwesActive,
       PcTypes, LocalTypes, ReleaseMigrateZone
  <2> QED
    BY <2>1, Zenon DEF ActiveEffect
<1>5. ASSUME NEW g \in Collectors, SyncFileExtents(g) PROVE ActiveEffect
  <2>1. ActiveSame
    BY <1>5, Zenon DEF ActiveSame, ActiveZones, IsEmpty, IsFull, Owers, OwesActive, PcTypes,
       LocalTypes, SyncFileExtents, Loop
  <2> QED
    BY <2>1, Zenon DEF ActiveEffect
<1>6. ASSUME NEW t \in Threads, NotifyOne(t) PROVE ActiveEffect
  <2>1. ActiveSame
    BY <1>6, ZenonT(60) DEF ActiveSame, ActiveZones, IsEmpty, IsFull, Owers, OwesActive,
       PcTypes, LocalTypes, NotifyOne, Asleep
  <2> QED
    BY <2>1, Zenon DEF ActiveEffect
<1> HIDE DEF zoneVars, tokenVars, fileVars, devVars, At, Goto, Threads
<1> QED
  BY <1>1, <1>2, <1>3, <1>4, <1>5, <1>6, ZenonT(60) DEF CollectStep

LEMMA ActiveEffects ==
  ASSUME TypeOK, LocalsFit, ZoneOwnership, ZonesFit, [Next]_vars
  PROVE  ActiveEffect
<1>1. CASE UNCHANGED vars
  BY <1>1, Zenon DEF vars, zoneVars, tokenVars, fileVars, devVars, ActiveEffect, ActiveSame, ActiveZones, IsEmpty, IsFull, Owers, OwesActive
<1> QED
  BY <1>1, StepKinds, ActiveScan, ActiveAlloc, ActiveFile, ActiveReclaim, ActiveCollect, Zenon
=============================================================================
