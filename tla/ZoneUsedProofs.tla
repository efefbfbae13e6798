---------------------------- MODULE ZoneUsedProofs ---------------------------
(***************************************************************************)
(* How a step changes the blocks of the zones: what was written, what       *)
(* used_capacity_ counts and what files and migrations refer to.            *)
(***************************************************************************)
EXTENDS ZoneFitProofs

(* Where a collector looks for room for the extent it moves, and where it   *)
(* has copied it.                                                           *)
MatchLabels == {"match", "matchHold"}
CopyLabels == {"migrated", "swapped"}

(* Finish never moves a write pointer back, a writer has blocks in an       *)
(* extent only of the zone it writes, and the zone kept for a migration has *)
(* room for the extent.                                                     *)
RoomFit ==
  \A z \in Zones :
    /\ capacity[z] >= 0 /\ wp[z] <= ZoneSize
    /\ capacity[z] = 0 \/ wp[z] + capacity[z] = MaxCapacity
OwnFit(t) ==
  /\ t \in Writers /\ pc[t] # "writing" => pin[t] = 0
  /\ eager[t] => t \in Buffered
  /\ t \in Collectors /\ pc[t] \in MatchLabels /\ cand[t] # NoZone
       => capacity[cand[t]] >= pin[t]
BlockFit == RoomFit /\ \A t \in Threads : OwnFit(t)

(* What a step of t may do to the blocks: count in used what it pins and    *)
(* write what it counts or leaves for an extent, delete blocks nobody pins, *)
(* reset zones without live blocks, pin blocks that nobody else pins.       *)
OthersSame(t) ==
  /\ \A u \in Threads \ {t}, z \in Zones : PinnedBy(u, z)' = PinnedBy(u, z)
  /\ \A u \in Writers \ {t}, z \in Zones : UnpushedBy(u, z)' = UnpushedBy(u, z)
Covered(t) ==
  \A z \in Zones :
    /\ used[z] + PinnedBy(t, z)' <= used'[z] + PinnedBy(t, z)
    /\ t \in Writers => used'[z] + UnpushedBy(t, z)' + wp[z]
                          <= used[z] + UnpushedBy(t, z) + wp'[z]
    /\ t \notin Writers => used'[z] + wp[z] <= used[z] + wp'[z]
Deleted(t) ==
  /\ t \notin Writers /\ wp' = wp
  /\ \A z \in Zones : PinnedBy(t, z)' = PinnedBy(t, z)
  /\ \E z \in Zones : \E n \in 1..used[z] :
       n <= used[z] - Pinned(z) /\ used' = [used EXCEPT ![z] = @ - n]
Erased(t) ==
  /\ t \notin Writers /\ used' = used
  /\ \A z \in Zones :
       /\ PinnedBy(t, z)' = PinnedBy(t, z)
       /\ wp'[z] # wp[z] => /\ wp'[z] = 0 /\ used[z] <= 0
                            /\ \A u \in Writers : UnpushedBy(u, z) = 0
Reserved(t) ==
  /\ t \notin Writers /\ wp' = wp /\ used' = used
  /\ \E z \in Zones : \E n \in 1..used[z] :
       /\ n <= used[z] - Pinned(z)
       /\ \A y \in Zones : PinnedBy(t, y)' = IF y = z THEN n ELSE 0
BlockEffect ==
  /\ BlockFit'
  /\ \E t \in Threads :
       OthersSame(t) /\ (Covered(t) \/ Deleted(t) \/ Erased(t) \/ Reserved(t))

LEMMA PinnedNat ==
  ASSUME CountTypes
  PROVE  /\ \A t \in Threads, z \in Zones : PinnedBy(t, z) \in Nat
         /\ \A t \in Writers, z \in Zones : UnpushedBy(t, z) \in Nat
BY DEF PinnedBy, UnpushedBy, CountTypes, Threads

(* Most steps move no blocks.                                               *)
BlocksSame ==
  /\ wp' = wp /\ capacity' = capacity /\ used' = used
  /\ pin' = pin /\ unpushed' = unpushed /\ src' = src
  /\ \A t \in Threads : eager'[t] => eager[t]
  /\ \A t \in Writers : pc[t] = "writing" => pc'[t] = "writing" /\ cand'[t] = cand[t]
  /\ \A g \in Collectors :
       /\ pc[g] \in CopyLabels => cand'[g] = cand[g]
       /\ pc'[g] \in CopyLabels <=> pc[g] \in CopyLabels
       /\ pc'[g] \in MatchLabels /\ cand'[g] # NoZone => capacity[cand'[g]] >= pin[g]

LEMMA BlocksSameStep ==
  ASSUME TypeOK, ZonesFit, BlockFit, NEW a \in Threads, BlocksSame
  PROVE  BlockEffect
<1>1. BlockFit'
  BY Zenon DEF BlockFit, RoomFit, OwnFit, BlocksSame, Threads
<1>2. \A z \in Zones, t \in Threads : PinnedBy(t, z)' = PinnedBy(t, z)
  BY ThreadsAssumption, Zenon DEF BlockFit, OwnFit, BlocksSame, PinnedBy, Threads, CopyLabels
<1>3. \A z \in Zones, t \in Writers : UnpushedBy(t, z)' = UnpushedBy(t, z)
  <2> TAKE z \in Zones, t \in Writers
  <2>1. unpushed[t] \in Nat /\ unpushed'[t] = unpushed[t]
    BY Zenon DEF TypeOK, CountTypes, Threads, BlocksSame
  <2>2. pc[t] # "writing" => unpushed[t] = 0
    BY <2>1 DEF ZonesFit
  <2> QED
    BY <2>1, <2>2, Zenon DEF BlocksSame, UnpushedBy
<1>4. OthersSame(a)
  BY <1>2, <1>3, Zenon DEF OthersSame
<1>5. Covered(a)
  BY <1>2, <1>3, PinnedNat DEF Covered, BlocksSame, TypeOK, ZoneTypes
<1> QED
  BY <1>1, <1>4, <1>5, Zenon DEF BlockEffect

(* A step of t that moves blocks leaves the locals of the others alone.     *)
Mine(t) ==
  \A u \in Threads \ {t} :
    /\ pc'[u] = pc[u] /\ cand'[u] = cand[u] /\ src'[u] = src[u]
    /\ pin'[u] = pin[u] /\ unpushed'[u] = unpushed[u] /\ eager'[u] = eager[u]

LEMMA ActorStep ==
  ASSUME TypeOK, LocalsFit, ZoneOwnership, BlockFit, NEW t \in Threads,
         Mine(t), OnlyOwn(t), OwnFit(t)', RoomFit',
         Covered(t) \/ Deleted(t) \/ Erased(t) \/ Reserved(t)
  PROVE  BlockEffect
<1>1. OthersSame(t)
  BY Zenon DEF OthersSame, Mine, PinnedBy, UnpushedBy, Threads
<1>2. ASSUME NEW u \in Threads \ {t} PROVE OwnFit(u)'
  <2>1. cand[u] # NoZone /\ pc[u] \in MatchLabels => capacity'[cand[u]] = capacity[cand[u]]
    BY OthersKeep, Zenon DEF MatchLabels
  <2> QED
    BY <2>1, Zenon DEF Mine, OwnFit, BlockFit
<1> QED
  BY <1>1, <1>2, Zenon DEF BlockEffect, BlockFit

(* A zone in the hands of a thread that resets has no unpushed blocks.      *)
LEMMA NoneUnpushed ==
  ASSUME TypeOK, LocalsFit, ZoneOwnership, ZonesFit,
         NEW c \in Threads \ Writers, NEW z \in Zones, z \in Held(c)
  PROVE  \A u \in Writers : UnpushedBy(u, z) = 0
<1> TAKE u \in Writers
<1>1. CASE unpushed[u] > 0
  <2>1. pc[u] = "writing" /\ cand[u] # NoZone
    BY <1>1, Zenon DEF ZonesFit, LocalsFit, Threads
  <2>2. cand[u] \in Held(u)
    BY <2>1, Zenon DEF Held, HeldCand
  <2> QED
    BY <2>2, Zenon DEF ZoneOwnership, UnpushedBy, Threads
<1>2. CASE unpushed[u] = 0
  BY <1>2, Zenon DEF UnpushedBy
<1> QED
  BY <1>1, <1>2 DEF TypeOK, CountTypes, Threads

LEMMA BlocksScan ==
  ASSUME TypeOK, LocalsFit, ZoneOwnership, ZonesFit, BlockFit, ScanStep
  PROVE  BlockEffect
<1>0. ZoneTypes /\ FlagTypes /\ CountTypes /\ LocalTypes /\ PcTypes
  BY Zenon DEF TypeOK
<1> USE <1>0
<1> USE DEF zoneVars, tokenVars, fileVars, devVars, At, Goto, Threads
<1>1. ASSUME NEW t \in Threads, NEW from \in LoopLabels,
             SkipBusy(t, from)
      PROVE  BlocksSame
  BY <1>1, PositionFacts, ThreadsAssumption, Zenon DEF BlocksSame, MatchLabels, CopyLabels,
     BlockFit, OwnFit, CountTypes, LocalTypes, PcTypes, FlagTypes, LocalsFit, WriterLabels,
     CleanerLabels, CollectorLabels, ResetLabels, OpenLabels, SkipBusy
<1>2. ASSUME NEW t \in Threads, NEW from \in LoopLabels, NEW to \in HoldLabels,
             LoopPair(t, from, to), Acquire(t, from, to)
      PROVE  BlocksSame
  BY <1>2, PositionFacts, ThreadsAssumption, Zenon DEF BlocksSame, MatchLabels, CopyLabels,
     BlockFit, OwnFit, CountTypes, LocalTypes, PcTypes, FlagTypes, LocalsFit, WriterLabels,
     CleanerLabels, CollectorLabels, ResetLabels, OpenLabels, Acquire, LoopPair
<1>3. ASSUME NEW t \in Threads, NEW from \in LoopLabels, NEW to \in {"idle", "wait"},
             LeavePair(t, from, to), Leave(t, from, to)
      PROVE  BlocksSame
  BY <1>3, PositionFacts, ThreadsAssumption, Zenon DEF BlocksSame, MatchLabels, CopyLabels,
     BlockFit, OwnFit, CountTypes, LocalTypes, PcTypes, FlagTypes, LocalsFit, WriterLabels,
     CleanerLabels, CollectorLabels, ResetLabels, OpenLabels, Leave, LeavePair, LoopDone, Loop
<1>4. ASSUME NEW t \in Threads, NEW from \in PutLabels, NEW to \in {"idle", "thr", "spin", "rst"},
             PutPair(t, from, to), PutActive(t, from, to)
      PROVE  BlocksSame
  BY <1>4, PositionFacts, ThreadsAssumption, Zenon DEF BlocksSame, MatchLabels, CopyLabels,
     BlockFit, OwnFit, CountTypes, LocalTypes, PcTypes, FlagTypes, LocalsFit, WriterLabels,
     CleanerLabels, CollectorLabels, ResetLabels, OpenLabels, PutActive, PutPair,
     PutActiveIOZoneToken
<1>5. ASSUME NEW t \in Writers \cup Collectors, NEW held \in {"bestHold", "matchHold"},
             NEW back \in {"best", "match"}, NEW n \in Nat,
             BestPair(t, held, back, n), BestInspect(t, held, back, n)
      PROVE  BlocksSame
  BY <1>5, PositionFacts, ThreadsAssumption, SMTT(60) DEF BlocksSame,
     MatchLabels, CopyLabels, BlockFit, OwnFit, CountTypes, LocalTypes, PcTypes,
     FlagTypes, LocalsFit, WriterLabels, CleanerLabels, CollectorLabels,
     ResetLabels, OpenLabels, BestInspect, BestPair, Pass, Prefer
<1> HIDE DEF zoneVars, tokenVars, fileVars, devVars, At, Goto, Threads
<1>6. BlocksSame /\ Threads # {}
  BY <1>1, <1>2, <1>3, <1>4, <1>5, ZenonT(60) DEF ScanStep, Threads
<1> QED
  BY <1>6, BlocksSameStep, Zenon

LEMMA BlocksAlloc ==
  ASSUME TypeOK, LocalsFit, ZoneOwnership, ZonesFit, BlockFit, AllocStep
  PROVE  BlockEffect
<1>0. ZoneTypes /\ FlagTypes /\ CountTypes /\ LocalTypes /\ PcTypes
  BY Zenon DEF TypeOK
<1> USE <1>0
<1> USE DEF zoneVars, tokenVars, fileVars, devVars, At, Goto, Threads
<1>1. ASSUME NEW t \in Writers, AllocateStart(t) PROVE BlocksSame
  BY <1>1, PositionFacts, ThreadsAssumption DEF BlocksSame, MatchLabels,
     CopyLabels, BlockFit, OwnFit, CountTypes, LocalTypes, PcTypes, FlagTypes,
     LocalsFit, WriterLabels, CleanerLabels, CollectorLabels, ResetLabels,
     OpenLabels, AllocateStart, Loop
<1>2. ASSUME NEW t \in Writers, ThresholdInspect(t) PROVE BlockEffect
  <2>1. Mine(t) /\ OnlyOwn(t)
    <3>1. Mine(t)
      BY <1>2, Zenon DEF Mine, CountTypes, LocalTypes, PcTypes, FlagTypes, ThresholdInspect, Pass,
         Quit, Loop, FinishZone
    <3>2. OnlyOwn(t)
      BY <1>2, Zenon DEF OnlyOwn, Held, HeldCand, HeldScan, HoldLabels, LocalsFit, ZoneTypes,
         LocalTypes, PcTypes, ThresholdInspect, Pass, Quit, Loop, FinishZone
    <3> QED
      BY <3>1, <3>2, Zenon
  <2>2. OwnFit(t)'
    BY <1>2, ThreadsAssumption, SMTT(60) DEF BlockFit, OwnFit, MatchLabels,
       CountTypes, LocalTypes, PcTypes, FlagTypes, LocalsFit, WriterLabels,
       OpenLabels, ThresholdInspect, Pass, Quit, Loop, FinishZone
  <2>3. RoomFit'
    BY <1>2, ZonesAssumption, ThreadsAssumption, SMTT(60) DEF BlockFit, RoomFit,
       OwnFit, MatchLabels, ZoneTypes, CountTypes, LocalTypes, LocalsFit,
       HoldLabels, IsEmpty, IsFull, IsUsed, ThresholdInspect, Pass, Quit, Loop,
       FinishZone
  <2>4. Covered(t)
    <3>1. pin[t] = 0 /\ pin'[t] = 0 /\ unpushed[t] = 0 /\ unpushed'[t] = 0
      BY <1>2 DEF BlockFit, OwnFit, ZonesFit, CountTypes, ThresholdInspect
    <3>2. \A z \in Zones : /\ PinnedBy(t, z) = 0 /\ PinnedBy(t, z)' = 0
                          /\ UnpushedBy(t, z) = 0 /\ UnpushedBy(t, z)' = 0
      BY <1>2, <3>1, Zenon DEF PinnedBy, UnpushedBy
    <3>3. \A z \in Zones : /\ wp[z] <= wp'[z] /\ used'[z] = used[z]
                          /\ used[z] \in Int /\ wp[z] \in Int /\ wp'[z] \in Int
      BY <1>2, ZonesAssumption DEF BlockFit, RoomFit, ZoneTypes, LocalTypes,
         LocalsFit, HoldLabels, ThresholdInspect, Pass, Quit, Loop, FinishZone
    <3> QED
      BY <1>2, <3>2, <3>3 DEF Covered
  <2> QED
    BY <1>2, <2>1, <2>2, <2>3, <2>4, ActorStep, Zenon DEF Threads
<1>3. ASSUME NEW t \in Writers, TakeOpenToken(t) PROVE BlocksSame
  BY <1>3, PositionFacts, ThreadsAssumption, Zenon DEF BlocksSame, MatchLabels, CopyLabels,
     BlockFit, OwnFit, CountTypes, LocalTypes, PcTypes, FlagTypes, LocalsFit, WriterLabels,
     CleanerLabels, CollectorLabels, ResetLabels, OpenLabels, TakeOpenToken, Loop
<1>4. ASSUME NEW t \in Writers, WaitOpenToken(t) PROVE BlocksSame
  BY <1>4, PositionFacts, ThreadsAssumption, Zenon DEF BlocksSame, MatchLabels, CopyLabels,
     BlockFit, OwnFit, CountTypes, LocalTypes, PcTypes, FlagTypes, LocalsFit, WriterLabels,
     CleanerLabels, CollectorLabels, ResetLabels, OpenLabels, WaitOpenToken
<1>5. ASSUME NEW t \in Writers, BestDone(t) PROVE BlocksSame
  BY <1>5, PositionFacts, ThreadsAssumption DEF BlocksSame, MatchLabels,
     CopyLabels, BlockFit, OwnFit, CountTypes, LocalTypes, PcTypes, FlagTypes,
     LocalsFit, WriterLabels, CleanerLabels, CollectorLabels, ResetLabels,
     OpenLabels, BestDone, LoopDone, Loop
<1>6. ASSUME NEW t \in Writers, TryActive(t) PROVE BlocksSame
  BY <1>6, PositionFacts, ThreadsAssumption, SMTT(60) DEF BlocksSame,
     MatchLabels, CopyLabels, BlockFit, OwnFit, CountTypes, LocalTypes, PcTypes,
     FlagTypes, LocalsFit, WriterLabels, CleanerLabels, CollectorLabels,
     ResetLabels, OpenLabels, TryActive, TakeActiveToken, NoActiveToken, DropCand,
     Loop
<1>7. ASSUME NEW t \in Writers, Spin(t) PROVE BlocksSame
  BY <1>7, PositionFacts, ThreadsAssumption DEF BlocksSame, MatchLabels,
     CopyLabels, BlockFit, OwnFit, CountTypes, LocalTypes, PcTypes, FlagTypes,
     LocalsFit, WriterLabels, CleanerLabels, CollectorLabels, ResetLabels,
     OpenLabels, Spin, TakeActiveToken, NoActiveToken, Loop
<1>8. ASSUME NEW t \in Writers, CheapestInspect(t) PROVE BlocksSame
  BY <1>8, PositionFacts, ThreadsAssumption, SMTT(60) DEF BlocksSame,
     MatchLabels, CopyLabels, BlockFit, OwnFit, CountTypes, LocalTypes, PcTypes,
     FlagTypes, LocalsFit, WriterLabels, CleanerLabels, CollectorLabels,
     ResetLabels, OpenLabels, CheapestInspect, Pass, Prefer
<1>9. ASSUME NEW t \in Writers, CheapestFinish(t) PROVE BlockEffect
  <2>1. Mine(t) /\ OnlyOwn(t)
    <3>1. Mine(t)
      BY <1>9, Zenon DEF Mine, CountTypes, LocalTypes, PcTypes, FlagTypes, CheapestFinish,
         LoopDone, Loop, DropCand, FinishZone
    <3>2. OnlyOwn(t)
      BY <1>9, Zenon DEF OnlyOwn, Held, HeldCand, HeldScan, HoldLabels, LocalsFit, ZoneTypes,
         LocalTypes, PcTypes, CheapestFinish, LoopDone, Loop, DropCand, FinishZone
    <3> QED
      BY <3>1, <3>2, Zenon
  <2>2. OwnFit(t)'
    BY <1>9, ThreadsAssumption, Zenon DEF BlockFit, OwnFit, MatchLabels, CountTypes, LocalTypes,
       PcTypes, FlagTypes, LocalsFit, WriterLabels, OpenLabels, CheapestFinish, LoopDone, Loop,
       DropCand, FinishZone
  <2>3. RoomFit'
    BY <1>9, ZonesAssumption, ThreadsAssumption, SMTT(60) DEF BlockFit, RoomFit,
       OwnFit, MatchLabels, ZoneTypes, CountTypes, LocalTypes, LocalsFit,
       HoldLabels, IsEmpty, IsFull, IsUsed, CheapestFinish, LoopDone, Loop,
       DropCand, FinishZone
  <2>4. Covered(t)
    <3>1. pin[t] = 0 /\ pin'[t] = 0 /\ unpushed[t] = 0 /\ unpushed'[t] = 0
      BY <1>9, SMTT(60) DEF BlockFit, OwnFit, ZonesFit, CountTypes,
         CheapestFinish, LoopDone
    <3>2. \A z \in Zones : /\ PinnedBy(t, z) = 0 /\ PinnedBy(t, z)' = 0
                          /\ UnpushedBy(t, z) = 0 /\ UnpushedBy(t, z)' = 0
      BY <1>9, <3>1, Zenon DEF PinnedBy, UnpushedBy
    <3>3. \A z \in Zones : /\ wp[z] <= wp'[z] /\ used'[z] = used[z]
                          /\ used[z] \in Int /\ wp[z] \in Int /\ wp'[z] \in Int
      BY <1>9, ZonesAssumption DEF BlockFit, RoomFit, ZoneTypes, LocalTypes,
         LocalsFit, HoldLabels, CheapestFinish, LoopDone, Loop, DropCand,
         FinishZone
    <3> QED
      BY <1>9, <3>2, <3>3 DEF Covered
  <2> QED
    BY <1>9, <2>1, <2>2, <2>3, <2>4, ActorStep, Zenon DEF Threads
<1>10. ASSUME NEW t \in Writers, EmptyInspect(t) PROVE BlocksSame
  BY <1>10, PositionFacts, ThreadsAssumption, SMTT(60) DEF BlocksSame,
     MatchLabels, CopyLabels, BlockFit, OwnFit, CountTypes, LocalTypes, PcTypes,
     FlagTypes, LocalsFit, WriterLabels, CleanerLabels, CollectorLabels,
     ResetLabels, OpenLabels, EmptyInspect, Pass, Loop
<1>11. ASSUME NEW t \in Writers, EmptyNone(t) PROVE BlocksSame
  BY <1>11, PositionFacts, ThreadsAssumption, Zenon DEF BlocksSame, MatchLabels, CopyLabels,
     BlockFit, OwnFit, CountTypes, LocalTypes, PcTypes, FlagTypes, LocalsFit, WriterLabels,
     CleanerLabels, CollectorLabels, ResetLabels, OpenLabels, EmptyNone, LoopDone, Loop,
     PutActiveIOZoneToken
<1> HIDE DEF zoneVars, tokenVars, fileVars, devVars, At, Goto, Threads
<1>12. BlockEffect \/ (BlocksSame /\ Threads # {})
  BY <1>1, <1>2, <1>3, <1>4, <1>5, <1>6, <1>7, <1>8, <1>9, <1>10, <1>11,
     ZenonT(60) DEF AllocStep, Threads
<1> QED
  BY <1>12, BlocksSameStep, Zenon

LEMMA BlocksFile ==
  ASSUME TypeOK, LocalsFit, ZoneOwnership, ZonesFit, BlockFit, FileStep
  PROVE  BlockEffect
<1>0. ZoneTypes /\ FlagTypes /\ CountTypes /\ LocalTypes /\ PcTypes
  BY Zenon DEF TypeOK
<1> USE <1>0
<1> USE DEF zoneVars, tokenVars, fileVars, devVars, At, Goto, Threads
<1>1. ASSUME NEW t \in Writers, ReturnOpenToken(t) PROVE BlocksSame
  BY <1>1, PositionFacts, ThreadsAssumption, Zenon DEF BlocksSame, MatchLabels, CopyLabels,
     BlockFit, OwnFit, CountTypes, LocalTypes, PcTypes, FlagTypes, LocalsFit, WriterLabels,
     CleanerLabels, CollectorLabels, ResetLabels, OpenLabels, ReturnOpenToken, PutOpenIOZoneToken
<1>2. ASSUME NEW t \in Writers, Append(t) PROVE BlockEffect
  <2>1. Mine(t) /\ OnlyOwn(t)
    <3>1. Mine(t)
      BY <1>2, Zenon DEF Mine, CountTypes, LocalTypes, PcTypes, FlagTypes, Append
    <3>2. OnlyOwn(t)
      BY <1>2, Zenon DEF OnlyOwn, Held, HeldCand, HeldScan, HoldLabels, LocalsFit, ZoneTypes,
         LocalTypes, PcTypes, Append
    <3> QED
      BY <3>1, <3>2, Zenon
  <2>2. OwnFit(t)'
    BY <1>2, ThreadsAssumption, Zenon DEF BlockFit, OwnFit, MatchLabels, CountTypes, LocalTypes,
       PcTypes, FlagTypes, LocalsFit, WriterLabels, OpenLabels, Append
  <2>3. RoomFit'
    BY <1>2, ZonesAssumption, ThreadsAssumption, SMTT(60) DEF BlockFit, RoomFit,
       OwnFit, MatchLabels, ZoneTypes, CountTypes, LocalTypes, LocalsFit,
       HoldLabels, IsEmpty, IsFull, IsUsed, Append
  <2>4. Covered(t)
    BY <1>2, ThreadsAssumption, SMTT(60) DEF BlockFit, RoomFit, OwnFit, Covered,
       PinnedBy, UnpushedBy, CopyLabels, MatchLabels, ZonesFit, LocalsFit,
       HoldLabels, WriterLabels, CollectorLabels, ResetLabels, ZoneTypes,
       CountTypes, LocalTypes, PcTypes, Append
  <2> QED
    BY <1>2, <2>1, <2>2, <2>3, <2>4, ActorStep, Zenon DEF Threads
<1>3. ASSUME NEW t \in Writers, PushExtent(t) PROVE BlockEffect
  <2>1. Mine(t) /\ OnlyOwn(t)
    <3>1. Mine(t)
      BY <1>3, Zenon DEF Mine, CountTypes, LocalTypes, PcTypes, FlagTypes, PushExtent
    <3>2. OnlyOwn(t)
      BY <1>3, Zenon DEF OnlyOwn, Held, HeldCand, HeldScan, HoldLabels, LocalsFit, ZoneTypes,
         LocalTypes, PcTypes, PushExtent
    <3> QED
      BY <3>1, <3>2, Zenon
  <2>2. OwnFit(t)'
    BY <1>3, ThreadsAssumption, Zenon DEF BlockFit, OwnFit, MatchLabels, CountTypes, LocalTypes,
       PcTypes, FlagTypes, LocalsFit, WriterLabels, OpenLabels, PushExtent
  <2>3. RoomFit'
    BY <1>3, ZonesAssumption, ThreadsAssumption, Zenon DEF BlockFit, RoomFit, OwnFit, MatchLabels,
       ZoneTypes, CountTypes, LocalTypes, LocalsFit, HoldLabels, IsEmpty, IsFull, IsUsed, PushExtent
  <2>4. Covered(t)
    BY <1>3, ThreadsAssumption, SMTT(60) DEF BlockFit, RoomFit, OwnFit, Covered,
       PinnedBy, UnpushedBy, CopyLabels, MatchLabels, ZonesFit, LocalsFit,
       HoldLabels, WriterLabels, CollectorLabels, ResetLabels, ZoneTypes,
       CountTypes, LocalTypes, PcTypes, PushExtent
  <2> QED
    BY <1>3, <2>1, <2>2, <2>3, <2>4, ActorStep, Zenon DEF Threads
<1>4. ASSUME NEW t \in Writers, CloseActiveZone(t) PROVE BlockEffect
  <2>1. Mine(t) /\ OnlyOwn(t)
    <3>1. Mine(t)
      BY <1>4, Zenon DEF Mine, CountTypes, LocalTypes, PcTypes, FlagTypes, CloseActiveZone,
         DropCand, IsFull
    <3>2. OnlyOwn(t)
      BY <1>4, Zenon DEF OnlyOwn, Held, HeldCand, HeldScan, HoldLabels, LocalsFit, ZoneTypes,
         LocalTypes, PcTypes, CloseActiveZone, DropCand, IsFull
    <3> QED
      BY <3>1, <3>2, Zenon
  <2>2. OwnFit(t)'
    BY <1>4, ThreadsAssumption DEF BlockFit, OwnFit, MatchLabels, CountTypes,
       LocalTypes, PcTypes, FlagTypes, LocalsFit, WriterLabels, OpenLabels,
       CloseActiveZone, DropCand, IsFull
  <2>3. RoomFit'
    BY <1>4, ZonesAssumption, ThreadsAssumption, Zenon DEF BlockFit, RoomFit, OwnFit, MatchLabels,
       ZoneTypes, CountTypes, LocalTypes, LocalsFit, HoldLabels, IsEmpty, IsFull, IsUsed,
       CloseActiveZone, DropCand, IsFull
  <2>4. Covered(t)
    BY <1>4, ThreadsAssumption, SMTT(60) DEF BlockFit, RoomFit, OwnFit, Covered,
       PinnedBy, UnpushedBy, CopyLabels, MatchLabels, ZonesFit, LocalsFit,
       HoldLabels, WriterLabels, CollectorLabels, ResetLabels, ZoneTypes,
       CountTypes, LocalTypes, PcTypes, CloseActiveZone, DropCand, IsFull
  <2> QED
    BY <1>4, <2>1, <2>2, <2>3, <2>4, ActorStep, Zenon DEF Threads
<1>5. ASSUME NEW t \in Writers, ClosePutOpen(t) PROVE BlocksSame
  BY <1>5, PositionFacts, ThreadsAssumption, Zenon DEF BlocksSame, MatchLabels, CopyLabels,
     BlockFit, OwnFit, CountTypes, LocalTypes, PcTypes, FlagTypes, LocalsFit, WriterLabels,
     CleanerLabels, CollectorLabels, ResetLabels, OpenLabels, ClosePutOpen, PutOpenIOZoneToken
<1>6. ASSUME NEW t \in Writers, CloseError(t) PROVE BlocksSame
  BY <1>6, PositionFacts, ThreadsAssumption, Zenon DEF BlocksSame, MatchLabels, CopyLabels,
     BlockFit, OwnFit, CountTypes, LocalTypes, PcTypes, FlagTypes, LocalsFit, WriterLabels,
     CleanerLabels, CollectorLabels, ResetLabels, OpenLabels, CloseError, SetZoneDeferredStatus
<1>7. ASSUME NEW t \in Writers, SpuriousWakeup(t) PROVE BlocksSame
  BY <1>7, PositionFacts, ThreadsAssumption, Zenon DEF BlocksSame, MatchLabels, CopyLabels,
     BlockFit, OwnFit, CountTypes, LocalTypes, PcTypes, FlagTypes, LocalsFit, WriterLabels,
     CleanerLabels, CollectorLabels, ResetLabels, OpenLabels, SpuriousWakeup
<1> HIDE DEF zoneVars, tokenVars, fileVars, devVars, At, Goto, Threads
<1>8. BlockEffect \/ (BlocksSame /\ Threads # {})
  BY <1>1, <1>2, <1>3, <1>4, <1>5, <1>6, <1>7, ZenonT(60) DEF FileStep,
     Threads
<1> QED
  BY <1>8, BlocksSameStep, Zenon

LEMMA BlocksReclaim ==
  ASSUME TypeOK, LocalsFit, ZoneOwnership, ZonesFit, BlockFit, ReclaimStep
  PROVE  BlockEffect
<1>0. ZoneTypes /\ FlagTypes /\ CountTypes /\ LocalTypes /\ PcTypes
  BY Zenon DEF TypeOK
<1> USE <1>0
<1> USE DEF zoneVars, tokenVars, fileVars, devVars, At, Goto, Threads
<1>1. ASSUME NEW c \in Cleaners, NEW z \in Zones,
             DeleteExtents(c, z)
      PROVE  BlockEffect
  <2>1. Mine(c) /\ OnlyOwn(c)
    <3>1. Mine(c)
      BY <1>1, Zenon DEF Mine, CountTypes, LocalTypes, PcTypes, FlagTypes, DeleteExtents, Loop
    <3>2. OnlyOwn(c)
      BY <1>1, Zenon DEF OnlyOwn, Held, HeldCand, HeldScan, HoldLabels, LocalsFit, ZoneTypes,
         LocalTypes, PcTypes, DeleteExtents, Loop
    <3> QED
      BY <3>1, <3>2, Zenon
  <2>2. OwnFit(c)'
    BY <1>1, ThreadsAssumption, Zenon DEF BlockFit, OwnFit, MatchLabels, CountTypes, LocalTypes,
       PcTypes, FlagTypes, LocalsFit, WriterLabels, OpenLabels, DeleteExtents, Loop
  <2>3. RoomFit'
    BY <1>1, ZonesAssumption, ThreadsAssumption, Zenon DEF BlockFit, RoomFit, OwnFit, MatchLabels,
       ZoneTypes, CountTypes, LocalTypes, LocalsFit, HoldLabels, IsEmpty, IsFull, IsUsed,
       DeleteExtents, Loop
  <2>4. Deleted(c)
    BY <1>1, ThreadsAssumption, Zenon DEF Deleted, DeleteExtents, PinnedBy
  <2> QED
    BY <1>1, <2>1, <2>2, <2>3, <2>4, ActorStep, Zenon DEF Threads
<1>2. ASSUME NEW c \in Cleaners, LogStart(c) PROVE BlocksSame
  BY <1>2, PositionFacts, ThreadsAssumption, Zenon DEF BlocksSame, MatchLabels, CopyLabels,
     BlockFit, OwnFit, CountTypes, LocalTypes, PcTypes, FlagTypes, LocalsFit, WriterLabels,
     CleanerLabels, CollectorLabels, ResetLabels, OpenLabels, LogStart, Loop
<1>3. ASSUME NEW c \in Cleaners, LogInspect(c) PROVE BlocksSame
  BY <1>3, PositionFacts, ThreadsAssumption, Zenon DEF BlocksSame, MatchLabels, CopyLabels,
     BlockFit, OwnFit, CountTypes, LocalTypes, PcTypes, FlagTypes, LocalsFit, WriterLabels,
     CleanerLabels, CollectorLabels, ResetLabels, OpenLabels, LogInspect, Pass
<1>4. ASSUME NEW c \in Cleaners \cup Collectors, ResetInspect(c) PROVE BlockEffect
  <2>1. Mine(c) /\ OnlyOwn(c)
    <3>1. Mine(c)
      BY <1>4, Zenon DEF Mine, CountTypes, LocalTypes, PcTypes, FlagTypes, ResetInspect, Pass,
         Quit, Loop
    <3>2. OnlyOwn(c)
      BY <1>4, Zenon DEF OnlyOwn, Held, HeldCand, HeldScan, HoldLabels, LocalsFit, ZoneTypes,
         LocalTypes, PcTypes, ResetInspect, Pass, Quit, Loop
    <3> QED
      BY <3>1, <3>2, Zenon
  <2>2. OwnFit(c)'
    BY <1>4, ThreadsAssumption DEF BlockFit, OwnFit, MatchLabels, CountTypes,
       LocalTypes, PcTypes, FlagTypes, LocalsFit, WriterLabels, OpenLabels,
       ResetInspect, Pass, Quit, Loop
  <2>3. RoomFit'
    BY <1>4, ZonesAssumption, ThreadsAssumption, SMTT(60) DEF BlockFit, RoomFit,
       OwnFit, MatchLabels, ZoneTypes, CountTypes, LocalTypes, LocalsFit,
       HoldLabels, IsEmpty, IsFull, IsUsed, ResetInspect, Pass, Quit, Loop
  <2>4. Erased(c)
    <3>1. c \notin Writers /\ used' = used /\ c \in Threads
      BY <1>4, ThreadsAssumption, Zenon DEF ResetInspect
    <3>2. ASSUME NEW z \in Zones PROVE PinnedBy(c, z)' = PinnedBy(c, z)
      BY <1>4, ThreadsAssumption, Zenon DEF PinnedBy, ResetInspect, Pass, Quit, Loop, PcTypes
    <3>3. ASSUME NEW z \in Zones, wp'[z] # wp[z]
          PROVE  wp'[z] = 0 /\ used[z] <= 0 /\ z \in Held(c)
      BY <1>4, <3>3, SMTT(60) DEF ResetInspect, ZoneTypes, LocalTypes, IsUsed,
         Pass, Quit, Loop, Held, HeldScan, HoldLabels
    <3> QED
      BY <3>1, <3>2, <3>3, NoneUnpushed, Zenon DEF Erased
  <2> QED
    BY <1>4, <2>1, <2>2, <2>3, <2>4, ActorStep, Zenon DEF Threads
<1> HIDE DEF zoneVars, tokenVars, fileVars, devVars, At, Goto, Threads
<1>5. BlockEffect \/ (BlocksSame /\ Threads # {})
  BY <1>1, <1>2, <1>3, <1>4, ZenonT(60) DEF ReclaimStep, Threads
<1> QED
  BY <1>5, BlocksSameStep, Zenon

LEMMA BlocksCollect ==
  ASSUME TypeOK, LocalsFit, ZoneOwnership, ZonesFit, BlockFit, CollectStep
  PROVE  BlockEffect
<1>0. ZoneTypes /\ FlagTypes /\ CountTypes /\ LocalTypes /\ PcTypes
  BY Zenon DEF TypeOK
<1> USE <1>0
<1> USE DEF zoneVars, tokenVars, fileVars, devVars, At, Goto, Threads
<1>1. ASSUME NEW g \in Collectors, NEW z \in Zones,
             MigrateStart(g, z)
      PROVE  BlockEffect
  <2>1. Mine(g) /\ OnlyOwn(g)
    <3>1. Mine(g)
      BY <1>1, Zenon DEF Mine, CountTypes, LocalTypes, PcTypes, FlagTypes, MigrateStart
    <3>2. OnlyOwn(g)
      BY <1>1, Zenon DEF OnlyOwn, Held, HeldCand, HeldScan, HoldLabels, LocalsFit, ZoneTypes,
         LocalTypes, PcTypes, MigrateStart
    <3> QED
      BY <3>1, <3>2, Zenon
  <2>2. OwnFit(g)'
    BY <1>1, ThreadsAssumption, Zenon DEF BlockFit, OwnFit, MatchLabels, CountTypes, LocalTypes,
       PcTypes, FlagTypes, LocalsFit, WriterLabels, OpenLabels, MigrateStart
  <2>3. RoomFit'
    BY <1>1, ZonesAssumption, ThreadsAssumption, Zenon DEF BlockFit, RoomFit, OwnFit, MatchLabels,
       ZoneTypes, CountTypes, LocalTypes, LocalsFit, HoldLabels, IsEmpty, IsFull, IsUsed,
       MigrateStart
  <2>4. Reserved(g)
    <3>1. PICK n \in 1..used[z] :
             n <= used[z] - Pinned(z) /\ pin' = [pin EXCEPT ![g] = n]
      BY <1>1, Zenon DEF MigrateStart
    <3>2. \A y \in Zones : PinnedBy(g, y)' = IF y = z THEN n ELSE 0
      BY <1>1, <3>1, ThreadsAssumption, SMTT(60) DEF MigrateStart, PinnedBy,
         PcTypes, CountTypes, LocalTypes
    <3>3. g \notin Writers /\ wp' = wp /\ used' = used
      BY <1>1, ThreadsAssumption, Zenon DEF MigrateStart
    <3> QED
      BY <3>1, <3>2, <3>3, Zenon DEF Reserved
  <2> QED
    BY <1>1, <2>1, <2>2, <2>3, <2>4, ActorStep, Zenon DEF Threads
<1>2. ASSUME NEW g \in Collectors, TakeMigrateZone(g) PROVE BlocksSame
  BY <1>2, PositionFacts, ThreadsAssumption, Zenon DEF BlocksSame, MatchLabels, CopyLabels,
     BlockFit, OwnFit, CountTypes, LocalTypes, PcTypes, FlagTypes, LocalsFit, WriterLabels,
     CleanerLabels, CollectorLabels, ResetLabels, OpenLabels, TakeMigrateZone, Loop, CandLabels
<1>3. ASSUME NEW g \in Collectors, MigrateData(g) PROVE BlockEffect
  <2>1. Mine(g) /\ OnlyOwn(g)
    <3>1. Mine(g)
      BY <1>3, Zenon DEF Mine, CountTypes, LocalTypes, PcTypes, FlagTypes, MigrateData, LoopDone,
         Loop
    <3>2. OnlyOwn(g)
      BY <1>3, Zenon DEF OnlyOwn, Held, HeldCand, HeldScan, HoldLabels, LocalsFit, ZoneTypes,
         LocalTypes, PcTypes, MigrateData, LoopDone, Loop
    <3> QED
      BY <3>1, <3>2, Zenon
  <2>2. OwnFit(g)'
    BY <1>3, ThreadsAssumption, Zenon DEF BlockFit, OwnFit, MatchLabels, CountTypes, LocalTypes,
       PcTypes, FlagTypes, LocalsFit, WriterLabels, OpenLabels, MigrateData, LoopDone, Loop
  <2>3. RoomFit'
    BY <1>3, ZonesAssumption, ThreadsAssumption, SMTT(60) DEF BlockFit, RoomFit,
       OwnFit, MatchLabels, ZoneTypes, CountTypes, LocalTypes, LocalsFit,
       HoldLabels, IsEmpty, IsFull, IsUsed, MigrateData, LoopDone, Loop
  <2>4. Covered(g)
    <3> SUFFICES ASSUME NEW y \in Zones
                 PROVE  /\ used[y] + PinnedBy(g, y)' <= used'[y] + PinnedBy(g, y)
                        /\ used'[y] + wp[y] <= used[y] + wp'[y]
      BY <1>3, ThreadsAssumption, Zenon DEF Covered
    <3>1. /\ g \notin Writers /\ pc[g] = "match" /\ pin[g] \in Nat
          /\ used[y] \in Int /\ wp[y] \in Int
      BY <1>3, ThreadsAssumption, SMTT(60) DEF MigrateData, LoopDone,
         CountTypes, ZoneTypes
    <3>2. CASE cand[g] = NoZone
      <4>1. PinnedBy(g, y)' = 0
        BY <1>3, <3>1, <3>2, ThreadsAssumption, SMTT(60) DEF MigrateData, Loop,
           PinnedBy, LocalTypes, PcTypes, CountTypes
      <4>2. used' = used /\ wp' = wp
        BY <1>3, <3>1, <3>2, Zenon DEF MigrateData
      <4>3. PinnedBy(g, y) \in Nat
        BY PinnedNat, Zenon
      <4> QED
        BY <3>1, <4>1, <4>2, <4>3, SMTT(60)
    <3>3. CASE cand[g] # NoZone
      <4>1. pin' = pin /\ src' = src /\ cand' = cand /\ pc'[g] = "migrated"
        BY <1>3, <3>3, Zenon DEF MigrateData, Loop, PcTypes
      <4>2. PinnedBy(g, y)' = PinnedBy(g, y) + (IF cand[g] = y THEN pin[g] ELSE 0)
        BY <1>3, <3>1, <4>1 DEF PinnedBy
      <4>3. /\ used'[y] = used[y] + (IF cand[g] = y THEN pin[g] ELSE 0)
            /\ wp'[y] = wp[y] + (IF cand[g] = y THEN pin[g] ELSE 0)
        BY <1>3, <3>1, <3>3, SMTT(60) DEF MigrateData, ZoneTypes
      <4>4. PinnedBy(g, y) \in Nat
        BY PinnedNat, Zenon
      <4> QED
        BY <3>1, <4>2, <4>3, <4>4, SMTT(60)
    <3> QED
      BY <3>2, <3>3, Zenon
  <2> QED
    BY <1>3, <2>1, <2>2, <2>3, <2>4, ActorStep, Zenon DEF Threads
<1>4. ASSUME NEW g \in Collectors, ReleaseMigrateZone(g) PROVE BlocksSame
  BY <1>4, PositionFacts, ThreadsAssumption, Zenon DEF BlocksSame, MatchLabels, CopyLabels,
     BlockFit, OwnFit, CountTypes, LocalTypes, PcTypes, FlagTypes, LocalsFit, WriterLabels,
     CleanerLabels, CollectorLabels, ResetLabels, OpenLabels, ReleaseMigrateZone
<1>5. ASSUME NEW g \in Collectors, SyncFileExtents(g) PROVE BlockEffect
  <2>1. Mine(g) /\ OnlyOwn(g)
    <3>1. Mine(g)
      BY <1>5, Zenon DEF Mine, CountTypes, LocalTypes, PcTypes, FlagTypes, SyncFileExtents, Loop
    <3>2. OnlyOwn(g)
      BY <1>5, Zenon DEF OnlyOwn, Held, HeldCand, HeldScan, HoldLabels, LocalsFit, ZoneTypes,
         LocalTypes, PcTypes, SyncFileExtents, Loop
    <3> QED
      BY <3>1, <3>2, Zenon
  <2>2. OwnFit(g)'
    BY <1>5, ThreadsAssumption, Zenon DEF BlockFit, OwnFit, MatchLabels, CountTypes, LocalTypes,
       PcTypes, FlagTypes, LocalsFit, WriterLabels, OpenLabels, SyncFileExtents, Loop
  <2>3. RoomFit'
    BY <1>5, ZonesAssumption, ThreadsAssumption, Zenon DEF BlockFit, RoomFit, OwnFit, MatchLabels,
       ZoneTypes, CountTypes, LocalTypes, LocalsFit, HoldLabels, IsEmpty, IsFull, IsUsed,
       SyncFileExtents, Loop
  <2>4. Covered(g)
    <3> SUFFICES ASSUME NEW y \in Zones
                 PROVE  /\ used[y] + PinnedBy(g, y)' <= used'[y] + PinnedBy(g, y)
                        /\ used'[y] + wp[y] <= used[y] + wp'[y]
      BY <1>5, ThreadsAssumption, Zenon DEF Covered
    <3>1. /\ g \notin Writers /\ pin[g] \in Nat /\ wp' = wp
          /\ used[y] \in Int /\ wp[y] \in Int
      BY <1>5, ThreadsAssumption, SMTT(60) DEF SyncFileExtents, CountTypes,
         ZoneTypes
    <3>2. PinnedBy(g, y)' = 0
      BY <1>5, <3>1, SMTT(60) DEF SyncFileExtents, Loop, PinnedBy, LocalTypes,
         PcTypes, CountTypes
    <3>3. PinnedBy(g, y) >= (IF src[g] = y THEN pin[g] ELSE 0) /\ PinnedBy(g, y) \in Nat
      BY <1>5, <3>1 DEF PinnedBy
    <3>4. used'[y] = used[y] - (IF src[g] = y THEN pin[g] ELSE 0)
      BY <1>5, <3>1 DEF SyncFileExtents, ZoneTypes
    <3> QED
      BY <3>1, <3>2, <3>3, <3>4
  <2> QED
    BY <1>5, <2>1, <2>2, <2>3, <2>4, ActorStep, Zenon DEF Threads
<1>6. ASSUME NEW t \in Threads, NotifyOne(t) PROVE BlocksSame
  BY <1>6, PositionFacts, ThreadsAssumption, SMTT(60) DEF BlocksSame,
     MatchLabels, CopyLabels, BlockFit, OwnFit, CountTypes, LocalTypes, PcTypes,
     FlagTypes, LocalsFit, WriterLabels, CleanerLabels, CollectorLabels,
     ResetLabels, OpenLabels, NotifyOne, Asleep
<1> HIDE DEF zoneVars, tokenVars, fileVars, devVars, At, Goto, Threads
<1>7. BlockEffect \/ (BlocksSame /\ Threads # {})
  BY <1>1, <1>2, <1>3, <1>4, <1>5, <1>6, ZenonT(60) DEF CollectStep, Threads
<1> QED
  BY <1>7, BlocksSameStep, Zenon

LEMMA BlockEffects ==
  ASSUME TypeOK, LocalsFit, ZoneOwnership, ZonesFit, BlockFit, [Next]_vars
  PROVE  BlockEffect \/ UNCHANGED vars
BY StepKinds, BlocksScan, BlocksAlloc, BlocksFile, BlocksReclaim, BlocksCollect, Zenon
=============================================================================
