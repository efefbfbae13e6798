-------------------------- MODULE ZoneOwnerProofs ---------------------------
(***************************************************************************)
(* Proofs about the IO zone allocator for any number of zones and threads,  *)
(* any capacities and any limits.  Here: the cases of a step, the type      *)
(* invariant, and on top of it: every zone has at most one owner.           *)
(***************************************************************************)
EXTENDS ZoneAlloc, TLAPS

(* Where a thread may have a zone in cand.                                  *)
CandLabels == {"best", "bestHold", "tryActive", "fin", "finHold", "writing",
               "match", "matchHold", "migrated", "swapped"}

(* How the locals of a thread fit the place it has reached: a zone that is  *)
(* looked at is a zone of the vector, a candidate exists exactly where the  *)
(* code has one, and a good lifetime match always comes with its zone.      *)
LocalsFit ==
  \A t \in Threads :
    /\ pc[t] \in HoldLabels => scan[t] \in Zones
    /\ pc[t] \in {"writing", "migrated", "swapped"} => cand[t] # NoZone
    /\ pc[t] \notin CandLabels => cand[t] = NoZone
    /\ pc[t] \in {"take", "match", "matchHold", "migrated", "swapped"} => src[t] # NoZone
    /\ pc[t] \in {"best", "bestHold"} /\ cand[t] = NoZone => best[t] = NOT_GOOD

LEMMA LifeTimeDiffRange ==
  ASSUME NEW a \in 0..5, NEW b \in 0..5
  PROVE  GetLifeTimeDiff(a, b) \in Diffs
BY DEF GetLifeTimeDiff, Diffs, NOT_GOOD, COULD_BE_WORSE

LEMMA PositionFacts ==
  /\ 1 \in Positions
  /\ \A z \in Zones : z \in Int /\ z \in Positions /\ z + 1 \in Positions /\ z # NoZone
  /\ NOT_GOOD \in Diffs
BY ZonesAssumption DEF Positions, Zones, NoZone, Diffs, NOT_GOOD

(* The steps of Next, with the loops over io_zones and the returns of       *)
(* active tokens that several operations share taken together.              *)
LoopLabels == {"thr", "best", "fin", "empty", "rst", "log", "match"}
PutLabels == {"thrPut", "finPut", "putActive", "rstPut"}

LoopPair(t, from, to) ==
  \/ t \in Writers /\ from = "thr" /\ to = "thrHold"
  \/ t \in Writers /\ from = "best" /\ to = "bestHold"
  \/ t \in Writers /\ from = "fin" /\ to = "finHold"
  \/ t \in Writers /\ from = "empty" /\ to = "emptyHold"
  \/ t \in Cleaners \cup Collectors /\ from = "rst" /\ to = "rstHold"
  \/ t \in Cleaners /\ from = "log" /\ to = "logHold"
  \/ t \in Collectors /\ from = "match" /\ to = "matchHold"

LeavePair(t, from, to) ==
  \/ t \in Writers /\ from = "thr" /\ to = "wait"
  \/ t \in Cleaners \cup Collectors /\ from = "rst" /\ to = "idle"
  \/ t \in Cleaners /\ from = "log" /\ to = "idle"

PutPair(t, from, to) ==
  \/ t \in Writers /\ from = "thrPut" /\ to = "thr"
  \/ t \in Writers /\ from = "finPut" /\ to = "spin"
  \/ t \in Writers /\ from = "putActive" /\ to = "idle"
  \/ t \in Cleaners \cup Collectors /\ from = "rstPut" /\ to = "rst"

BestPair(t, held, back, n) ==
  \/ t \in Writers /\ held = "bestHold" /\ back = "best" /\ n = 0
  \/ t \in Collectors /\ held = "matchHold" /\ back = "match" /\ n = pin[t]

AnyStep ==
  \/ \E t \in Threads, from \in LoopLabels : SkipBusy(t, from)
  \/ \E t \in Threads, from \in LoopLabels, to \in HoldLabels
       : LoopPair(t, from, to) /\ Acquire(t, from, to)
  \/ \E t \in Threads, from \in LoopLabels, to \in {"idle", "wait"}
       : LeavePair(t, from, to) /\ Leave(t, from, to)
  \/ \E t \in Threads, from \in PutLabels, to \in {"idle", "thr", "spin", "rst"}
       : PutPair(t, from, to) /\ PutActive(t, from, to)
  \/ \E t \in Writers \cup Collectors,
       held \in {"bestHold", "matchHold"}, back \in {"best", "match"}, n \in Nat
       : BestPair(t, held, back, n) /\ BestInspect(t, held, back, n)
  \/ \E t \in Writers : AllocateStart(t)
  \/ \E t \in Writers : ThresholdInspect(t)
  \/ \E t \in Writers : TakeOpenToken(t)
  \/ \E t \in Writers : WaitOpenToken(t)
  \/ \E t \in Writers : BestDone(t)
  \/ \E t \in Writers : TryActive(t)
  \/ \E t \in Writers : Spin(t)
  \/ \E t \in Writers : CheapestInspect(t)
  \/ \E t \in Writers : CheapestFinish(t)
  \/ \E t \in Writers : EmptyInspect(t)
  \/ \E t \in Writers : EmptyNone(t)
  \/ \E t \in Writers : ReturnOpenToken(t)
  \/ \E t \in Writers : Append(t)
  \/ \E t \in Writers : PushExtent(t)
  \/ \E t \in Writers : CloseActiveZone(t)
  \/ \E t \in Writers : ClosePutOpen(t)
  \/ \E t \in Writers : CloseError(t)
  \/ \E t \in Writers : SpuriousWakeup(t)
  \/ \E c \in Cleaners, z \in Zones : DeleteExtents(c, z)
  \/ \E c \in Cleaners : LogStart(c)
  \/ \E c \in Cleaners : LogInspect(c)
  \/ \E c \in Cleaners \cup Collectors : ResetInspect(c)
  \/ \E g \in Collectors, z \in Zones : MigrateStart(g, z)
  \/ \E g \in Collectors : TakeMigrateZone(g)
  \/ \E g \in Collectors : MigrateData(g)
  \/ \E g \in Collectors : ReleaseMigrateZone(g)
  \/ \E g \in Collectors : SyncFileExtents(g)
  \/ \E t \in Threads : NotifyOne(t)

(* One look at a zone in a loop, or the end of a loop.                      *)
ScanStep ==
  \/ \E t \in Threads, from \in LoopLabels : SkipBusy(t, from)
  \/ \E t \in Threads, from \in LoopLabels, to \in HoldLabels
       : LoopPair(t, from, to) /\ Acquire(t, from, to)
  \/ \E t \in Threads, from \in LoopLabels, to \in {"idle", "wait"}
       : LeavePair(t, from, to) /\ Leave(t, from, to)
  \/ \E t \in Threads, from \in PutLabels, to \in {"idle", "thr", "spin", "rst"}
       : PutPair(t, from, to) /\ PutActive(t, from, to)
  \/ \E t \in Writers \cup Collectors,
       held \in {"bestHold", "matchHold"}, back \in {"best", "match"}, n \in Nat
       : BestPair(t, held, back, n) /\ BestInspect(t, held, back, n)

(* The steps of AllocateIOZone outside its loops.                           *)
AllocStep ==
  \/ \E t \in Writers : AllocateStart(t)
  \/ \E t \in Writers : ThresholdInspect(t)
  \/ \E t \in Writers : TakeOpenToken(t)
  \/ \E t \in Writers : WaitOpenToken(t)
  \/ \E t \in Writers : BestDone(t)
  \/ \E t \in Writers : TryActive(t)
  \/ \E t \in Writers : Spin(t)
  \/ \E t \in Writers : CheapestInspect(t)
  \/ \E t \in Writers : CheapestFinish(t)
  \/ \E t \in Writers : EmptyInspect(t)
  \/ \E t \in Writers : EmptyNone(t)

(* A writer with a zone: write, extent, close.                              *)
FileStep ==
  \/ \E t \in Writers : ReturnOpenToken(t)
  \/ \E t \in Writers : Append(t)
  \/ \E t \in Writers : PushExtent(t)
  \/ \E t \in Writers : CloseActiveZone(t)
  \/ \E t \in Writers : ClosePutOpen(t)
  \/ \E t \in Writers : CloseError(t)
  \/ \E t \in Writers : SpuriousWakeup(t)

(* Deletion, statistics, resets.                                            *)
ReclaimStep ==
  \/ \E c \in Cleaners, z \in Zones : DeleteExtents(c, z)
  \/ \E c \in Cleaners : LogStart(c)
  \/ \E c \in Cleaners : LogInspect(c)
  \/ \E c \in Cleaners \cup Collectors : ResetInspect(c)

(* The collector, and a wake-up.                                            *)
CollectStep ==
  \/ \E g \in Collectors, z \in Zones : MigrateStart(g, z)
  \/ \E g \in Collectors : TakeMigrateZone(g)
  \/ \E g \in Collectors : MigrateData(g)
  \/ \E g \in Collectors : ReleaseMigrateZone(g)
  \/ \E g \in Collectors : SyncFileExtents(g)
  \/ \E t \in Threads : NotifyOne(t)

LEMMA NextCases ==
  ASSUME TypeOK, [Next]_vars
  PROVE  AnyStep \/ UNCHANGED vars
<1> SUFFICES ASSUME Next PROVE AnyStep
  BY Zenon
<1> USE DEF Threads
<1>1. ASSUME NEW t \in Writers, WriterStep(t) PROVE AnyStep
  <2>1. ASSUME NEW from \in {"thr", "best", "fin", "empty"}, SkipBusy(t, from)
        PROVE  AnyStep
    BY <2>1, Zenon DEF AnyStep, LoopLabels
  <2>2. ASSUME NEW from \in LoopLabels, NEW to \in HoldLabels,
               LoopPair(t, from, to), Acquire(t, from, to)
        PROVE  AnyStep
    BY <2>2, Zenon DEF AnyStep
  <2>3. ASSUME NEW from \in PutLabels, NEW to \in {"idle", "thr", "spin", "rst"},
               PutPair(t, from, to), PutActive(t, from, to)
        PROVE  AnyStep
    BY <2>3, Zenon DEF AnyStep
  <2>4. Leave(t, "thr", "wait") => AnyStep
    BY Zenon DEF AnyStep, LoopLabels, LeavePair
  <2>5. BestInspect(t, "bestHold", "best", 0) => AnyStep
    <3>1. 0 \in Nat
      BY Zenon
    <3> QED
      BY <3>1, Zenon DEF AnyStep, BestPair
  <2>6. Acquire(t, "thr", "thrHold") \/ Acquire(t, "best", "bestHold")
        \/ Acquire(t, "fin", "finHold") \/ Acquire(t, "empty", "emptyHold") => AnyStep
    BY <2>2, Zenon DEF LoopLabels, HoldLabels, LoopPair
  <2>7. PutActive(t, "thrPut", "thr") \/ PutActive(t, "finPut", "spin")
        \/ PutActive(t, "putActive", "idle") => AnyStep
    BY <2>3, Zenon DEF PutLabels, PutPair
  <2>8. SkipBusy(t, "thr") \/ SkipBusy(t, "best") \/ SkipBusy(t, "fin")
        \/ SkipBusy(t, "empty") => AnyStep
    BY <2>1, Zenon
  <2>9. \/ AllocateStart(t) \/ ThresholdInspect(t) \/ TakeOpenToken(t)
        \/ WaitOpenToken(t) \/ BestDone(t) \/ TryActive(t) \/ Spin(t)
        \/ CheapestInspect(t) \/ CheapestFinish(t) \/ EmptyInspect(t)
        \/ EmptyNone(t) \/ ReturnOpenToken(t) \/ Append(t) \/ PushExtent(t)
        \/ CloseActiveZone(t) \/ ClosePutOpen(t) \/ CloseError(t)
        => AnyStep
    BY Zenon DEF AnyStep
  <2> QED
    BY <1>1, <2>4, <2>5, <2>6, <2>7, <2>8, <2>9, Zenon DEF WriterStep
<1>2. ASSUME NEW t \in Writers, SpuriousWakeup(t) PROVE AnyStep
  BY <1>2, Zenon DEF AnyStep
<1>3. ASSUME NEW c \in Cleaners, NEW z \in Zones, DeleteExtents(c, z) PROVE AnyStep
  BY <1>3, Zenon DEF AnyStep
<1>4. ASSUME NEW c \in Cleaners, LogStart(c) PROVE AnyStep
  BY <1>4, Zenon DEF AnyStep
<1>5. ASSUME NEW c \in Cleaners, LogStep(c) PROVE AnyStep
  <2>1. SkipBusy(c, "log") => AnyStep
    BY Zenon DEF AnyStep, LoopLabels
  <2>2. Acquire(c, "log", "logHold") => AnyStep
    BY Zenon DEF AnyStep, LoopLabels, HoldLabels, LoopPair
  <2>3. LogInspect(c) => AnyStep
    BY Zenon DEF AnyStep
  <2>4. Leave(c, "log", "idle") => AnyStep
    BY Zenon DEF AnyStep, LoopLabels, LeavePair
  <2> QED
    BY <1>5, <2>1, <2>2, <2>3, <2>4, Zenon DEF LogStep
<1>6. ASSUME NEW c \in Cleaners \cup Collectors, ResetStep(c) PROVE AnyStep
  <2>1. SkipBusy(c, "rst") => AnyStep
    BY Zenon DEF AnyStep, LoopLabels
  <2>2. Acquire(c, "rst", "rstHold") => AnyStep
    BY Zenon DEF AnyStep, LoopLabels, HoldLabels, LoopPair
  <2>3. ResetInspect(c) => AnyStep
    BY Zenon DEF AnyStep
  <2>4. PutActive(c, "rstPut", "rst") => AnyStep
    BY Zenon DEF AnyStep, PutLabels, PutPair
  <2>5. Leave(c, "rst", "idle") => AnyStep
    BY Zenon DEF AnyStep, LoopLabels, LeavePair
  <2> QED
    BY <1>6, <2>1, <2>2, <2>3, <2>4, <2>5, Zenon DEF ResetStep
<1>7. ASSUME NEW g \in Collectors, NEW z \in Zones, MigrateStart(g, z) PROVE AnyStep
  BY <1>7, Zenon DEF AnyStep
<1>8. ASSUME NEW g \in Collectors, CollectorStep(g) PROVE AnyStep
  <2>1. SkipBusy(g, "match") => AnyStep
    BY Zenon DEF AnyStep, LoopLabels
  <2>2. Acquire(g, "match", "matchHold") => AnyStep
    BY Zenon DEF AnyStep, LoopLabels, HoldLabels, LoopPair
  <2>3. BestInspect(g, "matchHold", "match", pin[g]) => AnyStep
    <3>1. pin[g] \in Nat
      BY Zenon DEF TypeOK, CountTypes
    <3> QED
      BY <3>1, Zenon DEF AnyStep, BestPair
  <2>4. TakeMigrateZone(g) \/ MigrateData(g) \/ ReleaseMigrateZone(g)
        \/ SyncFileExtents(g) => AnyStep
    BY Zenon DEF AnyStep
  <2> QED
    BY <1>8, <2>1, <2>2, <2>3, <2>4, Zenon DEF CollectorStep
<1>9. ASSUME NEW t \in Threads, NotifyOne(t) PROVE AnyStep
  BY <1>9, Zenon DEF AnyStep
<1> QED
  BY <1>1, <1>2, <1>3, <1>4, <1>5, <1>6, <1>7, <1>8, <1>9, Zenon DEF Next

LEMMA StepKinds ==
  ASSUME TypeOK, [Next]_vars
  PROVE  \/ ScanStep \/ AllocStep \/ FileStep \/ ReclaimStep \/ CollectStep
         \/ UNCHANGED vars
<1>1. AnyStep => ScanStep \/ AllocStep \/ FileStep \/ ReclaimStep \/ CollectStep
  BY Zenon DEF AnyStep, ScanStep, AllocStep, FileStep, ReclaimStep, CollectStep
<1> QED
  BY <1>1, NextCases, Zenon

LEMMA TypeScan ==
  ASSUME TypeOK, LocalsFit, ScanStep
  PROVE  TypeOK' /\ LocalsFit'
<1> USE ZonesAssumption, ThreadsAssumption
<1> USE DEF zoneVars, tokenVars, fileVars, devVars, At, Goto, Threads, TypeOK
<1>1. ASSUME NEW t \in Threads, NEW from \in LoopLabels,
             SkipBusy(t, from)
      PROVE  TypeOK' /\ LocalsFit'
  <2>1. LocalTypes'
    BY <1>1, PositionFacts, LifeTimeDiffRange, Zenon DEF LocalTypes, LocalsFit, HoldLabels,
       ZoneTypes, SkipBusy, LoopLabels
  <2>2. LocalsFit'
    BY <1>1, PositionFacts, Zenon DEF PcTypes, LocalTypes, LocalsFit, HoldLabels, OpenLabels,
       WriterLabels, ResetLabels, CleanerLabels, CollectorLabels, CandLabels, NOT_GOOD, SkipBusy,
       LoopLabels
  <2>3. ZoneTypes' /\ FlagTypes' /\ CountTypes' /\ PcTypes'
    BY <1>1, Zenon DEF ZoneTypes, FlagTypes, CountTypes, PcTypes, SkipBusy, LoopLabels
  <2> QED
    BY <2>1, <2>2, <2>3, Zenon
<1>2. ASSUME NEW t \in Threads, NEW from \in LoopLabels, NEW to \in HoldLabels,
             LoopPair(t, from, to), Acquire(t, from, to)
      PROVE  TypeOK' /\ LocalsFit'
  <2>1. FlagTypes'
    BY <1>2, Zenon DEF FlagTypes, Acquire, LoopPair
  <2>2. PcTypes'
    BY <1>2 DEF PcTypes, HoldLabels, OpenLabels, WriterLabels, ResetLabels,
       CleanerLabels, CollectorLabels, Acquire, LoopPair
  <2>3. LocalsFit'
    BY <1>2, PositionFacts DEF PcTypes, LocalTypes, LocalsFit, HoldLabels,
       OpenLabels, WriterLabels, ResetLabels, CleanerLabels, CollectorLabels,
       CandLabels, NOT_GOOD, Acquire, LoopPair
  <2>4. ZoneTypes' /\ CountTypes' /\ LocalTypes'
    BY <1>2, Zenon DEF ZoneTypes, CountTypes, LocalTypes, Acquire, LoopPair
  <2> QED
    BY <2>1, <2>2, <2>3, <2>4, Zenon
<1>3. ASSUME NEW t \in Threads, NEW from \in LoopLabels, NEW to \in {"idle", "wait"},
             LeavePair(t, from, to), Leave(t, from, to)
      PROVE  TypeOK' /\ LocalsFit'
  <2>1. LocalTypes'
    BY <1>3, PositionFacts, LifeTimeDiffRange, Zenon DEF LocalTypes, LocalsFit, HoldLabels,
       ZoneTypes, Leave, LeavePair, LoopDone, Loop
  <2>2. PcTypes'
    BY <1>3, Zenon DEF PcTypes, HoldLabels, OpenLabels, WriterLabels, ResetLabels, CleanerLabels,
       CollectorLabels, Leave, LeavePair, LoopDone, Loop
  <2>3. LocalsFit'
    BY <1>3, PositionFacts DEF PcTypes, LocalTypes, LocalsFit, HoldLabels,
       OpenLabels, WriterLabels, ResetLabels, CleanerLabels, CollectorLabels,
       CandLabels, NOT_GOOD, Leave, LeavePair, LoopDone, Loop
  <2>4. ZoneTypes' /\ FlagTypes' /\ CountTypes'
    BY <1>3, Zenon DEF ZoneTypes, FlagTypes, CountTypes, Leave, LeavePair, LoopDone, Loop
  <2> QED
    BY <2>1, <2>2, <2>3, <2>4, Zenon
<1>4. ASSUME NEW t \in Threads, NEW from \in PutLabels, NEW to \in {"idle", "thr", "spin", "rst"},
             PutPair(t, from, to), PutActive(t, from, to)
      PROVE  TypeOK' /\ LocalsFit'
  <2>1. CountTypes'
    BY <1>4 DEF CountTypes, PutActive, PutPair, PutActiveIOZoneToken
  <2>2. PcTypes'
    BY <1>4, Zenon DEF PcTypes, HoldLabels, OpenLabels, WriterLabels, ResetLabels, CleanerLabels,
       CollectorLabels, PutActive, PutPair, PutActiveIOZoneToken
  <2>3. LocalsFit'
    BY <1>4, PositionFacts DEF PcTypes, LocalTypes, LocalsFit, HoldLabels,
       OpenLabels, WriterLabels, ResetLabels, CleanerLabels, CollectorLabels,
       CandLabels, NOT_GOOD, PutActive, PutPair, PutActiveIOZoneToken
  <2>4. ZoneTypes' /\ FlagTypes' /\ LocalTypes'
    BY <1>4, Zenon DEF ZoneTypes, FlagTypes, LocalTypes, PutActive, PutPair, PutActiveIOZoneToken
  <2> QED
    BY <2>1, <2>2, <2>3, <2>4, Zenon
<1>5. ASSUME NEW t \in Writers \cup Collectors, NEW held \in {"bestHold", "matchHold"}, NEW back \in {"best", "match"}, NEW n \in Nat,
             BestPair(t, held, back, n), BestInspect(t, held, back, n)
      PROVE  TypeOK' /\ LocalsFit'
  <2>1. FlagTypes'
    BY <1>5, Zenon DEF FlagTypes, BestInspect, BestPair, Pass, Prefer
  <2>2. LocalTypes'
    BY <1>5, PositionFacts, LifeTimeDiffRange, SMTT(30) DEF LocalTypes, LocalsFit,
       HoldLabels, ZoneTypes, BestInspect, BestPair, Pass, Prefer
  <2>3. PcTypes'
    BY <1>5, SMTT(30) DEF PcTypes, HoldLabels, OpenLabels, WriterLabels, ResetLabels,
       CleanerLabels, CollectorLabels, BestInspect, BestPair, Pass, Prefer
  <2>4. LocalsFit'
    BY <1>5, PositionFacts, SMTT(30) DEF PcTypes, LocalTypes, LocalsFit, HoldLabels,
       OpenLabels, WriterLabels, ResetLabels, CleanerLabels, CollectorLabels,
       CandLabels, NOT_GOOD, BestInspect, BestPair, Pass, Prefer
  <2>5. ZoneTypes' /\ CountTypes'
    BY <1>5, Zenon DEF ZoneTypes, CountTypes, BestInspect, BestPair, Pass, Prefer
  <2> QED
    BY <2>1, <2>2, <2>3, <2>4, <2>5, Zenon
<1> HIDE DEF zoneVars, tokenVars, fileVars, devVars, At, Goto, Threads, TypeOK
<1> QED
  BY <1>1, <1>2, <1>3, <1>4, <1>5, ZenonT(60) DEF ScanStep

LEMMA TypeAlloc ==
  ASSUME TypeOK, LocalsFit, AllocStep
  PROVE  TypeOK' /\ LocalsFit'
<1> USE ZonesAssumption, ThreadsAssumption
<1> USE DEF zoneVars, tokenVars, fileVars, devVars, At, Goto, Threads, TypeOK
<1>1. ASSUME NEW t \in Writers, AllocateStart(t) PROVE TypeOK' /\ LocalsFit'
  <2>1. LocalTypes'
    BY <1>1, PositionFacts, LifeTimeDiffRange, Zenon DEF LocalTypes, LocalsFit, HoldLabels,
       ZoneTypes, AllocateStart, Loop
  <2>2. PcTypes'
    BY <1>1 DEF PcTypes, HoldLabels, OpenLabels, WriterLabels, ResetLabels,
       CleanerLabels, CollectorLabels, AllocateStart, Loop
  <2>3. LocalsFit'
    BY <1>1, PositionFacts DEF PcTypes, LocalTypes, LocalsFit, HoldLabels,
       OpenLabels, WriterLabels, ResetLabels, CleanerLabels, CollectorLabels,
       CandLabels, NOT_GOOD, AllocateStart, Loop
  <2>4. ZoneTypes' /\ FlagTypes' /\ CountTypes'
    BY <1>1, Zenon DEF ZoneTypes, FlagTypes, CountTypes, AllocateStart, Loop
  <2> QED
    BY <2>1, <2>2, <2>3, <2>4, Zenon
<1>2. ASSUME NEW t \in Writers, ThresholdInspect(t) PROVE TypeOK' /\ LocalsFit'
  <2>1. ZoneTypes'
    BY <1>2, PositionFacts, SMTT(60) DEF ZoneTypes, CountTypes, LocalTypes,
       LocalsFit, NOT_SET, ThresholdInspect, Pass, Quit, Loop, FinishZone
  <2>2. FlagTypes'
    BY <1>2, Zenon DEF FlagTypes, ThresholdInspect, Pass, Quit, Loop,
       FinishZone
  <2>3. LocalTypes'
    BY <1>2, PositionFacts, LifeTimeDiffRange, SMTT(30) DEF LocalTypes, LocalsFit,
       HoldLabels, ZoneTypes, ThresholdInspect, Pass, Quit, Loop, FinishZone
  <2>4. PcTypes'
    BY <1>2, SMTT(30) DEF PcTypes, HoldLabels, OpenLabels, WriterLabels, ResetLabels,
       CleanerLabels, CollectorLabels, ThresholdInspect, Pass, Quit, Loop,
       FinishZone
  <2>5. LocalsFit'
    BY <1>2, PositionFacts, SMTT(30) DEF PcTypes, LocalTypes, LocalsFit, HoldLabels,
       OpenLabels, WriterLabels, ResetLabels, CleanerLabels, CollectorLabels,
       CandLabels, NOT_GOOD, ThresholdInspect, Pass, Quit, Loop, FinishZone
  <2>6. CountTypes'
    BY <1>2, Zenon DEF CountTypes, ThresholdInspect, Pass, Quit, Loop, FinishZone
  <2> QED
    BY <2>1, <2>2, <2>3, <2>4, <2>5, <2>6, Zenon
<1>3. ASSUME NEW t \in Writers, TakeOpenToken(t) PROVE TypeOK' /\ LocalsFit'
  <2>1. CountTypes'
    BY <1>3 DEF CountTypes, TakeOpenToken, Loop
  <2>2. LocalTypes'
    BY <1>3, PositionFacts, LifeTimeDiffRange, Zenon DEF LocalTypes, LocalsFit, HoldLabels,
       ZoneTypes, TakeOpenToken, Loop
  <2>3. PcTypes'
    BY <1>3, Zenon DEF PcTypes, HoldLabels, OpenLabels, WriterLabels, ResetLabels, CleanerLabels,
       CollectorLabels, TakeOpenToken, Loop
  <2>4. LocalsFit'
    BY <1>3, PositionFacts DEF PcTypes, LocalTypes, LocalsFit, HoldLabels,
       OpenLabels, WriterLabels, ResetLabels, CleanerLabels, CollectorLabels,
       CandLabels, NOT_GOOD, TakeOpenToken, Loop
  <2>5. ZoneTypes' /\ FlagTypes'
    BY <1>3, Zenon DEF ZoneTypes, FlagTypes, TakeOpenToken, Loop
  <2> QED
    BY <2>1, <2>2, <2>3, <2>4, <2>5, Zenon
<1>4. ASSUME NEW t \in Writers, WaitOpenToken(t) PROVE TypeOK' /\ LocalsFit'
  <2>1. PcTypes'
    BY <1>4, Zenon DEF PcTypes, HoldLabels, OpenLabels, WriterLabels, ResetLabels, CleanerLabels,
       CollectorLabels, WaitOpenToken
  <2>2. LocalsFit'
    BY <1>4, PositionFacts DEF PcTypes, LocalTypes, LocalsFit, HoldLabels,
       OpenLabels, WriterLabels, ResetLabels, CleanerLabels, CollectorLabels,
       CandLabels, NOT_GOOD, WaitOpenToken
  <2>3. ZoneTypes' /\ FlagTypes' /\ CountTypes' /\ LocalTypes'
    BY <1>4, Zenon DEF ZoneTypes, FlagTypes, CountTypes, LocalTypes, WaitOpenToken
  <2> QED
    BY <2>1, <2>2, <2>3, Zenon
<1>5. ASSUME NEW t \in Writers, BestDone(t) PROVE TypeOK' /\ LocalsFit'
  <2>1. LocalTypes'
    BY <1>5, PositionFacts, LifeTimeDiffRange DEF LocalTypes, LocalsFit,
       HoldLabels, ZoneTypes, BestDone, LoopDone, Loop, COULD_BE_WORSE
  <2>2. PcTypes'
    BY <1>5, SMTT(30) DEF PcTypes, HoldLabels, OpenLabels, WriterLabels, ResetLabels,
       CleanerLabels, CollectorLabels, BestDone, LoopDone, Loop,
       COULD_BE_WORSE
  <2>3. LocalsFit'
    BY <1>5, PositionFacts DEF PcTypes, LocalTypes, LocalsFit, HoldLabels,
       OpenLabels, WriterLabels, ResetLabels, CleanerLabels, CollectorLabels,
       CandLabels, NOT_GOOD, BestDone, LoopDone, Loop, COULD_BE_WORSE
  <2>4. ZoneTypes' /\ FlagTypes' /\ CountTypes'
    BY <1>5, Zenon DEF ZoneTypes, FlagTypes, CountTypes, BestDone, LoopDone, Loop, COULD_BE_WORSE
  <2> QED
    BY <2>1, <2>2, <2>3, <2>4, Zenon
<1>6. ASSUME NEW t \in Writers, TryActive(t) PROVE TypeOK' /\ LocalsFit'
  <2>1. FlagTypes'
    BY <1>6, Zenon DEF FlagTypes, TryActive, TakeActiveToken, NoActiveToken,
       DropCand, Loop
  <2>2. CountTypes'
    BY <1>6, SMTT(30) DEF CountTypes, TryActive, TakeActiveToken, NoActiveToken,
       DropCand, Loop
  <2>3. LocalTypes'
    BY <1>6, PositionFacts, LifeTimeDiffRange, Zenon DEF LocalTypes, LocalsFit, HoldLabels,
       ZoneTypes, TryActive, TakeActiveToken, NoActiveToken, DropCand, Loop
  <2>4. PcTypes'
    BY <1>6, SMTT(30) DEF PcTypes, HoldLabels, OpenLabels, WriterLabels, ResetLabels,
       CleanerLabels, CollectorLabels, TryActive, TakeActiveToken,
       NoActiveToken, DropCand, Loop
  <2>5. LocalsFit'
    BY <1>6, PositionFacts, SMTT(30) DEF PcTypes, LocalTypes, LocalsFit, HoldLabels,
       OpenLabels, WriterLabels, ResetLabels, CleanerLabels, CollectorLabels,
       CandLabels, NOT_GOOD, TryActive, TakeActiveToken, NoActiveToken,
       DropCand, Loop
  <2>6. ZoneTypes'
    BY <1>6, Zenon DEF ZoneTypes, TryActive, TakeActiveToken, NoActiveToken, DropCand, Loop
  <2> QED
    BY <2>1, <2>2, <2>3, <2>4, <2>5, <2>6, Zenon
<1>7. ASSUME NEW t \in Writers, Spin(t) PROVE TypeOK' /\ LocalsFit'
  <2>1. CountTypes'
    BY <1>7 DEF CountTypes, Spin, TakeActiveToken, NoActiveToken, Loop
  <2>2. LocalTypes'
    BY <1>7, PositionFacts, LifeTimeDiffRange, Zenon DEF LocalTypes, LocalsFit, HoldLabels,
       ZoneTypes, Spin, TakeActiveToken, NoActiveToken, Loop
  <2>3. PcTypes'
    BY <1>7, SMTT(30) DEF PcTypes, HoldLabels, OpenLabels, WriterLabels, ResetLabels,
       CleanerLabels, CollectorLabels, Spin, TakeActiveToken, NoActiveToken,
       Loop
  <2>4. LocalsFit'
    BY <1>7, PositionFacts DEF PcTypes, LocalTypes, LocalsFit, HoldLabels,
       OpenLabels, WriterLabels, ResetLabels, CleanerLabels, CollectorLabels,
       CandLabels, NOT_GOOD, Spin, TakeActiveToken, NoActiveToken, Loop
  <2>5. ZoneTypes' /\ FlagTypes'
    BY <1>7, Zenon DEF ZoneTypes, FlagTypes, Spin, TakeActiveToken, NoActiveToken, Loop
  <2> QED
    BY <2>1, <2>2, <2>3, <2>4, <2>5, Zenon
<1>8. ASSUME NEW t \in Writers, CheapestInspect(t) PROVE TypeOK' /\ LocalsFit'
  <2>1. FlagTypes'
    BY <1>8, Zenon DEF FlagTypes, CheapestInspect, Pass, Prefer
  <2>2. LocalTypes'
    BY <1>8, PositionFacts, LifeTimeDiffRange, SMTT(30) DEF LocalTypes, LocalsFit,
       HoldLabels, ZoneTypes, CheapestInspect, Pass, Prefer
  <2>3. PcTypes'
    BY <1>8, SMTT(30) DEF PcTypes, HoldLabels, OpenLabels, WriterLabels, ResetLabels,
       CleanerLabels, CollectorLabels, CheapestInspect, Pass, Prefer
  <2>4. LocalsFit'
    BY <1>8, PositionFacts, SMTT(60) DEF PcTypes, LocalTypes, LocalsFit,
       HoldLabels, OpenLabels, WriterLabels, ResetLabels, CleanerLabels,
       CollectorLabels, CandLabels, NOT_GOOD, CheapestInspect, Pass, Prefer
  <2>5. ZoneTypes' /\ CountTypes'
    BY <1>8, Zenon DEF ZoneTypes, CountTypes, CheapestInspect, Pass, Prefer
  <2> QED
    BY <2>1, <2>2, <2>3, <2>4, <2>5, Zenon
<1>9. ASSUME NEW t \in Writers, CheapestFinish(t) PROVE TypeOK' /\ LocalsFit'
  <2>1. ZoneTypes'
    BY <1>9, PositionFacts, SMTT(60) DEF ZoneTypes, CountTypes, LocalTypes,
       LocalsFit, NOT_SET, CheapestFinish, LoopDone, Loop, DropCand, FinishZone
  <2>2. FlagTypes'
    BY <1>9, Zenon DEF FlagTypes, CheapestFinish, LoopDone, Loop, DropCand,
       FinishZone
  <2>3. LocalTypes'
    BY <1>9, PositionFacts, LifeTimeDiffRange, Zenon DEF LocalTypes, LocalsFit, HoldLabels,
       ZoneTypes, CheapestFinish, LoopDone, Loop, DropCand, FinishZone
  <2>4. PcTypes'
    BY <1>9, SMTT(30) DEF PcTypes, HoldLabels, OpenLabels, WriterLabels, ResetLabels,
       CleanerLabels, CollectorLabels, CheapestFinish, LoopDone, Loop,
       DropCand, FinishZone
  <2>5. LocalsFit'
    BY <1>9, PositionFacts, SMTT(60) DEF PcTypes, LocalTypes, LocalsFit,
       HoldLabels, OpenLabels, WriterLabels, ResetLabels, CleanerLabels,
       CollectorLabels, CandLabels, NOT_GOOD, CheapestFinish, LoopDone, Loop,
       DropCand, FinishZone
  <2>6. CountTypes'
    BY <1>9, Zenon DEF CountTypes, CheapestFinish, LoopDone, Loop, DropCand, FinishZone
  <2> QED
    BY <2>1, <2>2, <2>3, <2>4, <2>5, <2>6, Zenon
<1>10. ASSUME NEW t \in Writers, EmptyInspect(t) PROVE TypeOK' /\ LocalsFit'
  <2>1. ZoneTypes'
    BY <1>10, PositionFacts DEF ZoneTypes, CountTypes, LocalTypes, LocalsFit,
       NOT_SET, EmptyInspect, Pass, Loop
  <2>2. FlagTypes'
    BY <1>10, Zenon DEF FlagTypes, EmptyInspect, Pass, Loop
  <2>3. LocalTypes'
    BY <1>10, PositionFacts, LifeTimeDiffRange, SMTT(30) DEF LocalTypes, LocalsFit,
       HoldLabels, ZoneTypes, EmptyInspect, Pass, Loop
  <2>4. PcTypes'
    BY <1>10, SMTT(30) DEF PcTypes, HoldLabels, OpenLabels, WriterLabels, ResetLabels,
       CleanerLabels, CollectorLabels, EmptyInspect, Pass, Loop
  <2>5. LocalsFit'
    BY <1>10, PositionFacts, SMTT(60) DEF PcTypes, LocalTypes, LocalsFit,
       HoldLabels, OpenLabels, WriterLabels, ResetLabels, CleanerLabels,
       CollectorLabels, CandLabels, NOT_GOOD, EmptyInspect, Pass, Loop
  <2>6. CountTypes'
    BY <1>10, Zenon DEF CountTypes, EmptyInspect, Pass, Loop
  <2> QED
    BY <2>1, <2>2, <2>3, <2>4, <2>5, <2>6, Zenon
<1>11. ASSUME NEW t \in Writers, EmptyNone(t) PROVE TypeOK' /\ LocalsFit'
  <2>1. CountTypes'
    BY <1>11 DEF CountTypes, EmptyNone, LoopDone, Loop, PutActiveIOZoneToken
  <2>2. LocalTypes'
    BY <1>11, PositionFacts, LifeTimeDiffRange, Zenon DEF LocalTypes, LocalsFit, HoldLabels,
       ZoneTypes, EmptyNone, LoopDone, Loop, PutActiveIOZoneToken
  <2>3. PcTypes'
    BY <1>11, Zenon DEF PcTypes, HoldLabels, OpenLabels, WriterLabels, ResetLabels, CleanerLabels,
       CollectorLabels, EmptyNone, LoopDone, Loop, PutActiveIOZoneToken
  <2>4. LocalsFit'
    BY <1>11, PositionFacts DEF PcTypes, LocalTypes, LocalsFit, HoldLabels,
       OpenLabels, WriterLabels, ResetLabels, CleanerLabels, CollectorLabels,
       CandLabels, NOT_GOOD, EmptyNone, LoopDone, Loop, PutActiveIOZoneToken
  <2>5. ZoneTypes' /\ FlagTypes'
    BY <1>11, Zenon DEF ZoneTypes, FlagTypes, EmptyNone, LoopDone, Loop, PutActiveIOZoneToken
  <2> QED
    BY <2>1, <2>2, <2>3, <2>4, <2>5, Zenon
<1> HIDE DEF zoneVars, tokenVars, fileVars, devVars, At, Goto, Threads, TypeOK
<1> QED
  BY <1>1, <1>2, <1>3, <1>4, <1>5, <1>6, <1>7, <1>8, <1>9, <1>10, <1>11, ZenonT(60) DEF AllocStep

LEMMA TypeCollect ==
  ASSUME TypeOK, LocalsFit, CollectStep
  PROVE  TypeOK' /\ LocalsFit'
<1> USE ZonesAssumption, ThreadsAssumption
<1> USE DEF zoneVars, tokenVars, fileVars, devVars, At, Goto, Threads, TypeOK
<1>1. ASSUME NEW g \in Collectors, NEW z \in Zones,
             MigrateStart(g, z)
      PROVE  TypeOK' /\ LocalsFit'
  <2>1. CountTypes'
    BY <1>1, SMTT(30) DEF CountTypes, MigrateStart
  <2>2. LocalTypes'
    BY <1>1, PositionFacts, LifeTimeDiffRange, Zenon DEF LocalTypes, LocalsFit, HoldLabels,
       ZoneTypes, MigrateStart
  <2>3. PcTypes'
    BY <1>1, SMTT(30) DEF PcTypes, HoldLabels, OpenLabels, WriterLabels, ResetLabels,
       CleanerLabels, CollectorLabels, MigrateStart
  <2>4. LocalsFit'
    BY <1>1, PositionFacts, SMTT(30) DEF PcTypes, LocalTypes, LocalsFit, HoldLabels,
       OpenLabels, WriterLabels, ResetLabels, CleanerLabels, CollectorLabels,
       CandLabels, NOT_GOOD, MigrateStart
  <2>5. ZoneTypes' /\ FlagTypes'
    BY <1>1, Zenon DEF ZoneTypes, FlagTypes, MigrateStart
  <2> QED
    BY <2>1, <2>2, <2>3, <2>4, <2>5, Zenon
<1>2. ASSUME NEW g \in Collectors,
             TakeMigrateZone(g)
      PROVE  TypeOK' /\ LocalsFit'
  <2>1. FlagTypes'
    BY <1>2, Zenon DEF FlagTypes, TakeMigrateZone, Loop
  <2>2. LocalTypes'
    BY <1>2, PositionFacts, LifeTimeDiffRange, Zenon DEF LocalTypes, LocalsFit, HoldLabels,
       ZoneTypes, TakeMigrateZone, Loop
  <2>3. PcTypes'
    BY <1>2, Zenon DEF PcTypes, HoldLabels, OpenLabels, WriterLabels, ResetLabels, CleanerLabels,
       CollectorLabels, TakeMigrateZone, Loop
  <2>4. LocalsFit'
    BY <1>2, PositionFacts, SMTT(30) DEF PcTypes, LocalTypes, LocalsFit, HoldLabels,
       OpenLabels, WriterLabels, ResetLabels, CleanerLabels, CollectorLabels,
       CandLabels, NOT_GOOD, TakeMigrateZone, Loop
  <2>5. ZoneTypes' /\ CountTypes'
    BY <1>2, Zenon DEF ZoneTypes, CountTypes, TakeMigrateZone, Loop
  <2> QED
    BY <2>1, <2>2, <2>3, <2>4, <2>5, Zenon
<1>3. ASSUME NEW g \in Collectors, MigrateData(g) PROVE TypeOK' /\ LocalsFit'
  <2>1. ZoneTypes'
    BY <1>3, PositionFacts, SMTT(60) DEF ZoneTypes, CountTypes, LocalTypes,
       LocalsFit, NOT_SET, MigrateData, LoopDone, Loop
  <2>2. FlagTypes'
    BY <1>3, Zenon DEF FlagTypes, MigrateData, LoopDone, Loop
  <2>3. CountTypes'
    BY <1>3, SMTT(60) DEF CountTypes, MigrateData, LoopDone, Loop
  <2>4. LocalTypes'
    BY <1>3, PositionFacts, LifeTimeDiffRange, ZenonT(60) DEF LocalTypes, LocalsFit,
       HoldLabels, ZoneTypes, MigrateData, LoopDone, Loop
  <2>5. PcTypes'
    BY <1>3, SMTT(60) DEF PcTypes, HoldLabels, OpenLabels, WriterLabels,
       ResetLabels, CleanerLabels, CollectorLabels, MigrateData, LoopDone, Loop
  <2>6. LocalsFit'
    BY <1>3, PositionFacts, SMTT(60) DEF PcTypes, LocalTypes, LocalsFit,
       HoldLabels, OpenLabels, WriterLabels, ResetLabels, CleanerLabels,
       CollectorLabels, CandLabels, NOT_GOOD, MigrateData, LoopDone, Loop
  <2> QED
    BY <2>1, <2>2, <2>3, <2>4, <2>5, <2>6, Zenon
<1>4. ASSUME NEW g \in Collectors,
             ReleaseMigrateZone(g)
      PROVE  TypeOK' /\ LocalsFit'
  <2>1. FlagTypes'
    BY <1>4, Zenon DEF FlagTypes, ReleaseMigrateZone
  <2>2. PcTypes'
    BY <1>4, Zenon DEF PcTypes, HoldLabels, OpenLabels, WriterLabels, ResetLabels, CleanerLabels,
       CollectorLabels, ReleaseMigrateZone
  <2>3. LocalsFit'
    BY <1>4, PositionFacts, SMTT(30) DEF PcTypes, LocalTypes, LocalsFit, HoldLabels,
       OpenLabels, WriterLabels, ResetLabels, CleanerLabels, CollectorLabels,
       CandLabels, NOT_GOOD, ReleaseMigrateZone
  <2>4. ZoneTypes' /\ CountTypes' /\ LocalTypes'
    BY <1>4, Zenon DEF ZoneTypes, CountTypes, LocalTypes, ReleaseMigrateZone
  <2> QED
    BY <2>1, <2>2, <2>3, <2>4, Zenon
<1>5. ASSUME NEW g \in Collectors,
             SyncFileExtents(g)
      PROVE  TypeOK' /\ LocalsFit'
  <2>1. ZoneTypes'
    BY <1>5, PositionFacts, SMTT(60) DEF ZoneTypes, CountTypes, LocalTypes,
       LocalsFit, NOT_SET, SyncFileExtents, Loop
  <2>2. CountTypes'
    BY <1>5, Zenon DEF CountTypes, SyncFileExtents, Loop
  <2>3. LocalTypes'
    BY <1>5, PositionFacts, LifeTimeDiffRange, Zenon DEF LocalTypes, LocalsFit, HoldLabels,
       ZoneTypes, SyncFileExtents, Loop
  <2>4. PcTypes'
    BY <1>5, Zenon DEF PcTypes, HoldLabels, OpenLabels, WriterLabels, ResetLabels, CleanerLabels,
       CollectorLabels, SyncFileExtents, Loop
  <2>5. LocalsFit'
    BY <1>5, PositionFacts, Zenon DEF PcTypes, LocalTypes, LocalsFit, HoldLabels, OpenLabels,
       WriterLabels, ResetLabels, CleanerLabels, CollectorLabels, CandLabels, NOT_GOOD,
       SyncFileExtents, Loop
  <2>6. FlagTypes'
    BY <1>5, Zenon DEF FlagTypes, SyncFileExtents, Loop
  <2> QED
    BY <2>1, <2>2, <2>3, <2>4, <2>5, <2>6, Zenon
<1>6. ASSUME NEW t \in Threads, NotifyOne(t) PROVE TypeOK' /\ LocalsFit'
  <2>1. CountTypes'
    BY <1>6, Zenon DEF CountTypes, NotifyOne, Asleep
  <2>2. PcTypes'
    BY <1>6, SMTT(30) DEF PcTypes, HoldLabels, OpenLabels, WriterLabels, ResetLabels,
       CleanerLabels, CollectorLabels, NotifyOne, Asleep
  <2>3. LocalsFit'
    BY <1>6, PositionFacts, SMTT(60) DEF PcTypes, LocalTypes, LocalsFit,
       HoldLabels, OpenLabels, WriterLabels, ResetLabels, CleanerLabels,
       CollectorLabels, CandLabels, NOT_GOOD, NotifyOne, Asleep
  <2>4. ZoneTypes' /\ FlagTypes' /\ LocalTypes'
    BY <1>6, Zenon DEF ZoneTypes, FlagTypes, LocalTypes, NotifyOne, Asleep
  <2> QED
    BY <2>1, <2>2, <2>3, <2>4, Zenon
<1> HIDE DEF zoneVars, tokenVars, fileVars, devVars, At, Goto, Threads, TypeOK
<1> QED
  BY <1>1, <1>2, <1>3, <1>4, <1>5, <1>6, ZenonT(60) DEF CollectStep
-----------------------------------------------------------------------------

LEMMA TypeInit == Init => TypeOK /\ LocalsFit
<1> USE ZonesAssumption, ThreadsAssumption
<1> SUFFICES ASSUME Init PROVE TypeOK /\ LocalsFit
  BY Zenon
<1>1. active_io_zones_ \in Int
  BY DEF Init
<1>2. ZoneTypes
  BY DEF Init, ZoneTypes, NOT_SET
<1>3. FlagTypes
  BY Zenon DEF Init, FlagTypes
<1>4. CountTypes
  BY <1>1 DEF Init, CountTypes
<1>5. LocalTypes
  BY PositionFacts, Zenon DEF Init, LocalTypes
<1>6. PcTypes
  BY Zenon DEF Init, PcTypes, WriterLabels, OpenLabels, ResetLabels, CleanerLabels,
     CollectorLabels, Threads
<1>7. LocalsFit
  BY Zenon DEF Init, LocalsFit, HoldLabels, CandLabels
<1> QED
  BY <1>2, <1>3, <1>4, <1>5, <1>6, <1>7, Zenon DEF TypeOK

LEMMA TypeFile ==
  ASSUME TypeOK, LocalsFit, FileStep
  PROVE  TypeOK' /\ LocalsFit'
<1> USE ZonesAssumption, ThreadsAssumption
<1> USE DEF zoneVars, tokenVars, fileVars, devVars, At, Goto, Threads, TypeOK
<1>1. ASSUME NEW t \in Writers, ReturnOpenToken(t) PROVE TypeOK' /\ LocalsFit'
  <2>1. FlagTypes'
    BY <1>1, Zenon DEF FlagTypes, ReturnOpenToken, PutOpenIOZoneToken
  <2>2. CountTypes'
    BY <1>1 DEF CountTypes, ReturnOpenToken, PutOpenIOZoneToken
  <2>3. PcTypes'
    BY <1>1, Zenon DEF PcTypes, HoldLabels, OpenLabels, WriterLabels, ResetLabels, CleanerLabels,
       CollectorLabels, ReturnOpenToken, PutOpenIOZoneToken
  <2>4. LocalsFit'
    BY <1>1, PositionFacts, Zenon DEF PcTypes, LocalTypes, LocalsFit, HoldLabels, OpenLabels,
       WriterLabels, ResetLabels, CleanerLabels, CollectorLabels, CandLabels, NOT_GOOD,
       ReturnOpenToken, PutOpenIOZoneToken
  <2>5. ZoneTypes' /\ LocalTypes'
    BY <1>1, Zenon DEF ZoneTypes, LocalTypes, ReturnOpenToken, PutOpenIOZoneToken
  <2> QED
    BY <2>1, <2>2, <2>3, <2>4, <2>5, Zenon
<1>2. ASSUME NEW t \in Writers, Append(t) PROVE TypeOK' /\ LocalsFit'
  <2>1. ZoneTypes'
    BY <1>2, PositionFacts DEF ZoneTypes, CountTypes, LocalTypes, LocalsFit,
       NOT_SET, Append
  <2>2. FlagTypes'
    BY <1>2, Zenon DEF FlagTypes, Append
  <2>3. CountTypes'
    BY <1>2, SMTT(30) DEF CountTypes, Append
  <2>4. LocalTypes' /\ PcTypes' /\ LocalsFit'
    BY <1>2, Zenon DEF LocalTypes, PcTypes, LocalsFit, Append
  <2> QED
    BY <2>1, <2>2, <2>3, <2>4, Zenon
<1>3. ASSUME NEW t \in Writers, PushExtent(t) PROVE TypeOK' /\ LocalsFit'
  <2>1. ZoneTypes'
    BY <1>3, PositionFacts, SMTT(30) DEF ZoneTypes, CountTypes, LocalTypes, LocalsFit,
       NOT_SET, PushExtent
  <2>2. CountTypes'
    <3>1. pin[t] + unpushed[t] \in Nat /\ 0 \in Nat
      BY <1>3, SMTT(30) DEF CountTypes
    <3>2. pin' \in [Threads -> Nat] /\ unpushed' \in [Threads -> Nat]
      BY <1>3, <3>1, Zenon DEF CountTypes, PushExtent
    <3> QED
      BY <1>3, <3>2, Zenon DEF CountTypes, PushExtent
  <2>3. FlagTypes' /\ LocalTypes' /\ PcTypes' /\ LocalsFit'
    BY <1>3, Zenon DEF FlagTypes, LocalTypes, PcTypes, LocalsFit, PushExtent
  <2> QED
    BY <2>1, <2>2, <2>3, Zenon
<1>4. ASSUME NEW t \in Writers, CloseActiveZone(t) PROVE TypeOK' /\ LocalsFit'
  <2>1. FlagTypes'
    BY <1>4, Zenon DEF FlagTypes, CloseActiveZone, DropCand
  <2>2. CountTypes'
    BY <1>4, Zenon DEF CountTypes, CloseActiveZone, DropCand
  <2>3. LocalTypes'
    BY <1>4, PositionFacts, LifeTimeDiffRange, Zenon DEF LocalTypes, LocalsFit, HoldLabels,
       ZoneTypes, CloseActiveZone, DropCand
  <2>4. PcTypes'
    BY <1>4, SMTT(30) DEF PcTypes, HoldLabels, OpenLabels, WriterLabels, ResetLabels,
       CleanerLabels, CollectorLabels, CloseActiveZone, DropCand
  <2>5. LocalsFit'
    BY <1>4, PositionFacts, SMTT(30) DEF PcTypes, LocalTypes, LocalsFit, HoldLabels,
       OpenLabels, WriterLabels, ResetLabels, CleanerLabels, CollectorLabels,
       CandLabels, NOT_GOOD, CloseActiveZone, DropCand
  <2>6. ZoneTypes'
    BY <1>4, Zenon DEF ZoneTypes, CloseActiveZone, DropCand
  <2> QED
    BY <2>1, <2>2, <2>3, <2>4, <2>5, <2>6, Zenon
<1>5. ASSUME NEW t \in Writers, ClosePutOpen(t) PROVE TypeOK' /\ LocalsFit'
  <2>1. CountTypes'
    BY <1>5, SMTT(30) DEF CountTypes, ClosePutOpen, PutOpenIOZoneToken
  <2>2. PcTypes'
    BY <1>5, Zenon DEF PcTypes, HoldLabels, OpenLabels, WriterLabels, ResetLabels, CleanerLabels,
       CollectorLabels, ClosePutOpen, PutOpenIOZoneToken
  <2>3. LocalsFit'
    BY <1>5, PositionFacts, SMTT(30) DEF PcTypes, LocalTypes, LocalsFit, HoldLabels,
       OpenLabels, WriterLabels, ResetLabels, CleanerLabels, CollectorLabels,
       CandLabels, NOT_GOOD, ClosePutOpen, PutOpenIOZoneToken
  <2>4. ZoneTypes' /\ FlagTypes' /\ LocalTypes'
    BY <1>5, Zenon DEF ZoneTypes, FlagTypes, LocalTypes, ClosePutOpen, PutOpenIOZoneToken
  <2> QED
    BY <2>1, <2>2, <2>3, <2>4, Zenon
<1>6. ASSUME NEW t \in Writers, CloseError(t) PROVE TypeOK' /\ LocalsFit'
  <2>1. FlagTypes'
    BY <1>6, Zenon DEF FlagTypes, CloseError, SetZoneDeferredStatus
  <2>2. PcTypes'
    BY <1>6, Zenon DEF PcTypes, HoldLabels, OpenLabels, WriterLabels, ResetLabels, CleanerLabels,
       CollectorLabels, CloseError, SetZoneDeferredStatus
  <2>3. LocalsFit'
    BY <1>6, PositionFacts, Zenon DEF PcTypes, LocalTypes, LocalsFit, HoldLabels, OpenLabels,
       WriterLabels, ResetLabels, CleanerLabels, CollectorLabels, CandLabels, NOT_GOOD, CloseError,
       SetZoneDeferredStatus
  <2>4. ZoneTypes' /\ CountTypes' /\ LocalTypes'
    BY <1>6, Zenon DEF ZoneTypes, CountTypes, LocalTypes, CloseError, SetZoneDeferredStatus
  <2> QED
    BY <2>1, <2>2, <2>3, <2>4, Zenon
<1>7. ASSUME NEW t \in Writers, SpuriousWakeup(t) PROVE TypeOK' /\ LocalsFit'
  <2>1. PcTypes'
    BY <1>7, Zenon DEF PcTypes, HoldLabels, OpenLabels, WriterLabels, ResetLabels, CleanerLabels,
       CollectorLabels, SpuriousWakeup
  <2>2. LocalsFit'
    BY <1>7, PositionFacts, SMTT(30) DEF PcTypes, LocalTypes, LocalsFit, HoldLabels,
       OpenLabels, WriterLabels, ResetLabels, CleanerLabels, CollectorLabels,
       CandLabels, NOT_GOOD, SpuriousWakeup
  <2>3. ZoneTypes' /\ FlagTypes' /\ CountTypes' /\ LocalTypes'
    BY <1>7, Zenon DEF ZoneTypes, FlagTypes, CountTypes, LocalTypes, SpuriousWakeup
  <2> QED
    BY <2>1, <2>2, <2>3, Zenon
<1> HIDE DEF zoneVars, tokenVars, fileVars, devVars, At, Goto, Threads, TypeOK
<1> QED
  BY <1>1, <1>2, <1>3, <1>4, <1>5, <1>6, <1>7, ZenonT(60) DEF FileStep

LEMMA TypeReclaim ==
  ASSUME TypeOK, LocalsFit, ReclaimStep
  PROVE  TypeOK' /\ LocalsFit'
<1> USE ZonesAssumption, ThreadsAssumption
<1> USE DEF zoneVars, tokenVars, fileVars, devVars, At, Goto, Threads, TypeOK
<1>1. ASSUME NEW c \in Cleaners, NEW z \in Zones,
             DeleteExtents(c, z)
      PROVE  TypeOK' /\ LocalsFit'
  <2>1. ZoneTypes'
    BY <1>1, PositionFacts, SMTT(30) DEF ZoneTypes, CountTypes, LocalTypes, LocalsFit,
       NOT_SET, DeleteExtents, Loop
  <2>2. LocalTypes'
    BY <1>1, PositionFacts, LifeTimeDiffRange, Zenon DEF LocalTypes, LocalsFit, HoldLabels,
       ZoneTypes, DeleteExtents, Loop
  <2>3. PcTypes'
    BY <1>1, SMTT(30) DEF PcTypes, HoldLabels, OpenLabels, WriterLabels, ResetLabels,
       CleanerLabels, CollectorLabels, DeleteExtents, Loop
  <2>4. LocalsFit'
    BY <1>1, PositionFacts, SMTT(30) DEF PcTypes, LocalTypes, LocalsFit, HoldLabels,
       OpenLabels, WriterLabels, ResetLabels, CleanerLabels, CollectorLabels,
       CandLabels, NOT_GOOD, DeleteExtents, Loop
  <2>5. FlagTypes' /\ CountTypes'
    BY <1>1, Zenon DEF FlagTypes, CountTypes, DeleteExtents, Loop
  <2> QED
    BY <2>1, <2>2, <2>3, <2>4, <2>5, Zenon
<1>2. ASSUME NEW c \in Cleaners, LogStart(c) PROVE TypeOK' /\ LocalsFit'
  <2>1. LocalTypes'
    BY <1>2, PositionFacts, LifeTimeDiffRange, Zenon DEF LocalTypes, LocalsFit, HoldLabels,
       ZoneTypes, LogStart, Loop
  <2>2. PcTypes'
    BY <1>2, SMTT(30) DEF PcTypes, HoldLabels, OpenLabels, WriterLabels, ResetLabels,
       CleanerLabels, CollectorLabels, LogStart, Loop
  <2>3. LocalsFit'
    BY <1>2, PositionFacts, SMTT(30) DEF PcTypes, LocalTypes, LocalsFit, HoldLabels,
       OpenLabels, WriterLabels, ResetLabels, CleanerLabels, CollectorLabels,
       CandLabels, NOT_GOOD, LogStart, Loop
  <2>4. ZoneTypes' /\ FlagTypes' /\ CountTypes'
    BY <1>2, Zenon DEF ZoneTypes, FlagTypes, CountTypes, LogStart, Loop
  <2> QED
    BY <2>1, <2>2, <2>3, <2>4, Zenon
<1>3. ASSUME NEW c \in Cleaners, LogInspect(c) PROVE TypeOK' /\ LocalsFit'
  <2>1. FlagTypes'
    BY <1>3, Zenon DEF FlagTypes, LogInspect, Pass
  <2>2. LocalTypes'
    BY <1>3, PositionFacts, LifeTimeDiffRange, Zenon DEF LocalTypes, LocalsFit, HoldLabels,
       ZoneTypes, LogInspect, Pass
  <2>3. PcTypes'
    BY <1>3, Zenon DEF PcTypes, HoldLabels, OpenLabels, WriterLabels, ResetLabels, CleanerLabels,
       CollectorLabels, LogInspect, Pass
  <2>4. LocalsFit'
    BY <1>3, PositionFacts, SMTT(30) DEF PcTypes, LocalTypes, LocalsFit, HoldLabels,
       OpenLabels, WriterLabels, ResetLabels, CleanerLabels, CollectorLabels,
       CandLabels, NOT_GOOD, LogInspect, Pass
  <2>5. ZoneTypes' /\ CountTypes'
    BY <1>3, Zenon DEF ZoneTypes, CountTypes, LogInspect, Pass
  <2> QED
    BY <2>1, <2>2, <2>3, <2>4, <2>5, Zenon
<1>4. ASSUME NEW c \in Cleaners \cup Collectors,
             ResetInspect(c)
      PROVE  TypeOK' /\ LocalsFit'
  <2>1. ZoneTypes'
    BY <1>4, PositionFacts DEF ZoneTypes, CountTypes, LocalTypes, LocalsFit,
       NOT_SET, ResetInspect, Pass, Quit, Loop
  <2>2. FlagTypes'
    BY <1>4, Zenon DEF FlagTypes, ResetInspect, Pass, Quit, Loop
  <2>3. LocalTypes'
    BY <1>4, PositionFacts, LifeTimeDiffRange, SMTT(30) DEF LocalTypes, LocalsFit,
       HoldLabels, ZoneTypes, ResetInspect, Pass, Quit, Loop
  <2>4. PcTypes'
    BY <1>4, SMTT(30) DEF PcTypes, HoldLabels, OpenLabels, WriterLabels, ResetLabels,
       CleanerLabels, CollectorLabels, ResetInspect, Pass, Quit, Loop
  <2>5. LocalsFit'
    BY <1>4, PositionFacts, SMTT(30) DEF PcTypes, LocalTypes, LocalsFit, HoldLabels,
       OpenLabels, WriterLabels, ResetLabels, CleanerLabels, CollectorLabels,
       CandLabels, NOT_GOOD, ResetInspect, Pass, Quit, Loop
  <2>6. CountTypes'
    BY <1>4, Zenon DEF CountTypes, ResetInspect, Pass, Quit, Loop
  <2> QED
    BY <2>1, <2>2, <2>3, <2>4, <2>5, <2>6, Zenon
<1> HIDE DEF zoneVars, tokenVars, fileVars, devVars, At, Goto, Threads, TypeOK
<1> QED
  BY <1>1, <1>2, <1>3, <1>4, ZenonT(60) DEF ReclaimStep

LEMMA TypeStep ==
  ASSUME TypeOK, LocalsFit, [Next]_vars
  PROVE  TypeOK' /\ LocalsFit'
<1>1. CASE UNCHANGED vars
  BY <1>1, Zenon DEF vars, zoneVars, tokenVars, fileVars, devVars, TypeOK, ZoneTypes, FlagTypes,
     CountTypes, LocalTypes, PcTypes, LocalsFit
<1> QED
  BY <1>1, StepKinds, TypeScan, TypeAlloc, TypeFile, TypeReclaim, TypeCollect, Zenon

(* Every variable keeps its type and the locals of every thread fit the     *)
(* place it has reached, whatever the interleaving.                         *)
THEOREM TypeCorrect == Spec => []TypeOK
<1>1. Init => TypeOK /\ LocalsFit
  BY TypeInit, Zenon
<1>2. TypeOK /\ LocalsFit /\ [Next]_vars => TypeOK' /\ LocalsFit'
  BY TypeStep, Zenon
<1> QED
  BY <1>1, <1>2, PTL DEF Spec

-----------------------------------------------------------------------------
(* Ownership.  A step that takes or releases zones for one thread only,     *)
(* takes none that is busy and releases none but its own keeps the zones    *)
(* apart.                                                                   *)
OwnsAlone(t) ==
  /\ \A u \in Threads \ {t} : HeldCand(u)' = HeldCand(u) /\ HeldScan(u)' = HeldScan(u)
  /\ HeldCand(t)' \cap HeldScan(t)' = {}
  /\ \A z \in Held(t)' : z \in Held(t) \/ ~busy_[z]
  /\ \A z \in Zones : busy_'[z] <=> z \in Held(t)' \/ (busy_[z] /\ z \notin Held(t))

LEMMA OwnsAloneSuffices ==
  ASSUME TypeOK, LocalsFit, TypeOK', LocalsFit', ZoneOwnership,
         NEW t \in Threads, OwnsAlone(t)
  PROVE  ZoneOwnership'
<1>1. \A u \in Threads : Held(u) \subseteq Zones /\ Held(u)' \subseteq Zones
  BY Zenon DEF TypeOK, LocalTypes, LocalsFit, Held, HeldCand, HeldScan
<1>2. \A u \in Threads \ {t} : Held(u)' = Held(u)
  BY Zenon DEF OwnsAlone, Held
<1>3. \A u \in Threads \ {t} : Held(u)' \cap Held(t)' = {}
  BY <1>1, <1>2 DEF OwnsAlone, ZoneOwnership
<1>4. \A u, v \in Threads : u # v => Held(u)' \cap Held(v)' = {}
  BY <1>2, <1>3, Zenon DEF ZoneOwnership
<1>5. \A u \in Threads : HeldCand(u)' \cap HeldScan(u)' = {}
  BY Zenon DEF OwnsAlone, ZoneOwnership
<1>6. \A z \in Zones : busy_'[z] <=> \E u \in Threads : z \in Held(u)'
  BY <1>2 DEF OwnsAlone, ZoneOwnership
<1> QED
  BY <1>4, <1>5, <1>6, Zenon DEF ZoneOwnership

(* Nobody takes or releases a zone.                                         *)
Quiet ==
  /\ busy_' = busy_
  /\ \A u \in Threads : HeldCand(u)' = HeldCand(u) /\ HeldScan(u)' = HeldScan(u)

LEMMA QuietSuffices ==
  ASSUME ZoneOwnership, Quiet
  PROVE  ZoneOwnership'
BY Zenon DEF Quiet, ZoneOwnership, Held

(* The thread releases the zone it looks at.                                *)
LEMMA ReleaseScan ==
  ASSUME TypeOK, LocalsFit, TypeOK', LocalsFit', ZoneOwnership,
         NEW t \in Threads, NEW l, pc[t] \in HoldLabels,
         l \notin HoldLabels, l # "swapped",
         Pass(t, l) \/ (Quit(t) /\ l = "idle"), cand' = cand
  PROVE  ZoneOwnership'
<1>1. scan[t] \in Zones /\ pc[t] # "swapped" /\ busy_' = [busy_ EXCEPT ![scan[t]] = FALSE]
  BY Zenon DEF LocalsFit, HoldLabels, Pass, Quit
<1>2. HeldScan(t) = {scan[t]} /\ HeldScan(t)' = {} /\ HeldCand(t)' = HeldCand(t)
  BY <1>1, Zenon DEF HeldScan, HeldCand, TypeOK, PcTypes, Pass, Quit, Loop
<1>3. \A u \in Threads \ {t} : HeldCand(u)' = HeldCand(u) /\ HeldScan(u)' = HeldScan(u)
  BY Zenon DEF HeldScan, HeldCand, TypeOK, PcTypes, LocalTypes, Pass, Quit, Loop
<1>4. OwnsAlone(t)
  BY <1>1, <1>2, <1>3, SMTT(60) DEF OwnsAlone, Held, ZoneOwnership, TypeOK,
     FlagTypes
<1> QED
  BY <1>4, OwnsAloneSuffices, Zenon

(* The zone looked at becomes the candidate and the old one is released.    *)
LEMMA PreferKeepsApart ==
  ASSUME TypeOK, LocalsFit, TypeOK', LocalsFit', ZoneOwnership,
         NEW t \in Threads, NEW l, pc[t] \in HoldLabels,
         l \notin HoldLabels, l # "swapped", Prefer(t, l)
  PROVE  ZoneOwnership'
<1>1. scan[t] \in Zones /\ scan[t] # NoZone /\ pc[t] # "swapped"
  BY PositionFacts, Zenon DEF LocalsFit, HoldLabels
<1>2. HeldScan(t) = {scan[t]} /\ HeldScan(t)' = {} /\ HeldCand(t)' = {scan[t]}
  BY <1>1, Zenon DEF HeldScan, HeldCand, TypeOK, PcTypes, LocalTypes, Prefer
<1>3. \A u \in Threads \ {t} : HeldCand(u)' = HeldCand(u) /\ HeldScan(u)' = HeldScan(u)
  BY Zenon DEF HeldScan, HeldCand, TypeOK, PcTypes, LocalTypes, Prefer
<1>4. busy_[scan[t]] /\ scan[t] \notin HeldCand(t)
  BY <1>1, <1>2, Zenon DEF ZoneOwnership, Held
<1>5. \A z \in Zones : busy_'[z] <=> z = scan[t] \/ (busy_[z] /\ z \notin Held(t))
  <2>1. CASE cand[t] = NoZone
    BY <1>1, <1>2, <1>4, <2>1, Zenon DEF Held, HeldCand, Prefer
  <2>2. CASE cand[t] # NoZone
    BY <1>1, <1>2, <1>4, <2>2, Zenon DEF Held, HeldCand, Prefer, TypeOK, FlagTypes, LocalTypes
  <2> QED
    BY <2>1, <2>2, Zenon
<1>6. OwnsAlone(t)
  BY <1>2, <1>3, <1>5, Zenon DEF OwnsAlone, Held
<1> QED
  BY <1>6, OwnsAloneSuffices, Zenon

(* The thread releases its candidate, if it has one.                        *)
LEMMA DropCandKeepsApart ==
  ASSUME TypeOK, LocalsFit, TypeOK', LocalsFit', ZoneOwnership,
         NEW t \in Threads, pc[t] \notin HoldLabels, pc[t] # "swapped",
         NEW l, pc' = [pc EXCEPT ![t] = l], l \notin HoldLabels,
         NEW n, scan' = [scan EXCEPT ![t] = n], DropCand(t)
  PROVE  ZoneOwnership'
<1>1. HeldScan(t) = {} /\ HeldScan(t)' = {} /\ HeldCand(t)' = {}
  BY Zenon DEF HeldScan, HeldCand, TypeOK, PcTypes, LocalTypes, DropCand
<1>2. \A u \in Threads \ {t} : HeldCand(u)' = HeldCand(u) /\ HeldScan(u)' = HeldScan(u)
  BY Zenon DEF HeldScan, HeldCand, TypeOK, PcTypes, LocalTypes, DropCand
<1>3. \A z \in Zones : busy_'[z] <=> busy_[z] /\ z \notin Held(t)
  BY <1>1, Zenon DEF Held, HeldCand, DropCand, TypeOK, FlagTypes, LocalTypes
<1>4. OwnsAlone(t)
  BY <1>1, <1>2, <1>3, Zenon DEF OwnsAlone, Held
<1> QED
  BY <1>4, OwnsAloneSuffices, Zenon

LEMMA OwnershipStep ==
  ASSUME TypeOK, LocalsFit, TypeOK', LocalsFit', ZoneOwnership, [Next]_vars
  PROVE  ZoneOwnership'
<1>0. ZoneTypes /\ FlagTypes /\ CountTypes /\ LocalTypes /\ PcTypes
  BY Zenon DEF TypeOK
<1> USE <1>0
<1> USE DEF zoneVars, tokenVars, fileVars, devVars, At, Goto, Threads
<1>1. ASSUME NEW t \in Threads, NEW from \in LoopLabels,
             SkipBusy(t, from)
      PROVE  ZoneOwnership'
  <2>1. Quiet
    BY <1>1, Zenon DEF Quiet, HeldCand, HeldScan, LocalTypes, PcTypes, LocalsFit, HoldLabels,
       CandLabels, SkipBusy, LoopLabels
  <2> QED
    BY <2>1, QuietSuffices, Zenon
<1>2. ASSUME NEW t \in Threads, NEW from \in LoopLabels, NEW to \in HoldLabels,
             LoopPair(t, from, to), Acquire(t, from, to)
      PROVE  ZoneOwnership'
  <2>1. scan[t] \in Zones /\ ~busy_[scan[t]] /\ busy_' = [busy_ EXCEPT ![scan[t]] = TRUE]
    BY <1>2, Zenon DEF Acquire
  <2>2. HeldScan(t) = {} /\ HeldScan(t)' = {scan[t]} /\ HeldCand(t)' = HeldCand(t)
    BY <1>2, Zenon DEF HeldScan, HeldCand, HoldLabels, PcTypes, Acquire, LoopPair
  <2>3. \A u \in Threads \ {t} : HeldCand(u)' = HeldCand(u) /\ HeldScan(u)' = HeldScan(u)
    BY <1>2, Zenon DEF HeldScan, HeldCand, PcTypes, Acquire
  <2>4. \A z \in HeldCand(t) : busy_[z]
    BY DEF ZoneOwnership, Held, HeldCand, LocalTypes
  <2>5. OwnsAlone(t)
    BY <2>1, <2>2, <2>3, <2>4 DEF OwnsAlone, Held, FlagTypes
  <2> QED
    BY <2>5, OwnsAloneSuffices, Zenon
<1>3. ASSUME NEW t \in Threads, NEW from \in LoopLabels, NEW to \in {"idle", "wait"},
             LeavePair(t, from, to), Leave(t, from, to)
      PROVE  ZoneOwnership'
  <2>1. Quiet
    BY <1>3, Zenon DEF Quiet, HeldCand, HeldScan, LocalTypes, PcTypes,
       LocalsFit, HoldLabels, CandLabels, Leave, LeavePair, LoopDone, Loop
  <2> QED
    BY <2>1, QuietSuffices, Zenon
<1>4. ASSUME NEW t \in Threads, NEW from \in PutLabels, NEW to \in {"idle", "thr", "spin", "rst"},
             PutPair(t, from, to), PutActive(t, from, to)
      PROVE  ZoneOwnership'
  <2>1. Quiet
    BY <1>4, Zenon DEF Quiet, HeldCand, HeldScan, LocalTypes, PcTypes, LocalsFit, HoldLabels,
       CandLabels, PutActive, PutPair, PutActiveIOZoneToken
  <2> QED
    BY <2>1, QuietSuffices, Zenon
<1>5. ASSUME NEW t \in Writers \cup Collectors, NEW held \in {"bestHold", "matchHold"}, NEW back \in {"best", "match"}, NEW n \in Nat,
             BestPair(t, held, back, n), BestInspect(t, held, back, n)
      PROVE  ZoneOwnership'
  <2>1. pc[t] \in HoldLabels /\ back \notin HoldLabels /\ back # "swapped"
    BY <1>5, Zenon DEF BestInspect, HoldLabels
  <2>2. CASE Prefer(t, back)
    BY <2>1, <2>2, PreferKeepsApart, Zenon
  <2>3. CASE Pass(t, back) /\ UNCHANGED <<cand, best>>
    BY <2>1, <2>3, ReleaseScan, Zenon
  <2> QED
    BY <1>5, <2>2, <2>3, Zenon DEF BestInspect
<1>6. ASSUME NEW t \in Writers, AllocateStart(t) PROVE ZoneOwnership'
  <2>1. Quiet
    BY <1>6, ZenonT(60) DEF Quiet, HeldCand, HeldScan, LocalTypes, PcTypes,
       LocalsFit, HoldLabels, CandLabels, AllocateStart, Loop
  <2> QED
    BY <2>1, QuietSuffices, Zenon
<1>7. ASSUME NEW t \in Writers, ThresholdInspect(t) PROVE ZoneOwnership'
  <2>1. pc[t] \in HoldLabels /\ cand' = cand
    BY <1>7, Zenon DEF ThresholdInspect, HoldLabels
  <2>2. CASE Pass(t, "thr")
    BY <2>1, <2>2, ReleaseScan DEF HoldLabels
  <2>3. CASE Pass(t, "thrPut")
    BY <2>1, <2>3, ReleaseScan DEF HoldLabels
  <2>4. CASE Quit(t)
    BY <2>1, <2>4, ReleaseScan DEF HoldLabels
  <2> QED
    BY <1>7, <2>2, <2>3, <2>4, Zenon DEF ThresholdInspect
<1>8. ASSUME NEW t \in Writers, TakeOpenToken(t) PROVE ZoneOwnership'
  <2>1. Quiet
    BY <1>8, Zenon DEF Quiet, HeldCand, HeldScan, LocalTypes, PcTypes,
       LocalsFit, HoldLabels, CandLabels, TakeOpenToken, Loop
  <2> QED
    BY <2>1, QuietSuffices, Zenon
<1>9. ASSUME NEW t \in Writers, WaitOpenToken(t) PROVE ZoneOwnership'
  <2>1. Quiet
    BY <1>9, Zenon DEF Quiet, HeldCand, HeldScan, LocalTypes, PcTypes, LocalsFit, HoldLabels,
       CandLabels, WaitOpenToken
  <2> QED
    BY <2>1, QuietSuffices, Zenon
<1>10. ASSUME NEW t \in Writers, BestDone(t) PROVE ZoneOwnership'
  <2>1. Quiet
    BY <1>10, ZenonT(60) DEF Quiet, HeldCand, HeldScan, LocalTypes, PcTypes,
       LocalsFit, HoldLabels, CandLabels, BestDone, LoopDone, Loop,
       COULD_BE_WORSE
  <2> QED
    BY <2>1, QuietSuffices, Zenon
<1>11. ASSUME NEW t \in Writers, TryActive(t) PROVE ZoneOwnership'
  <2>1. CASE DropCand(t) /\ Loop(t, "empty")
    BY <1>11, <2>1, DropCandKeepsApart, Zenon DEF TryActive, Loop, HoldLabels
  <2>2. CASE DropCand(t) /\ Goto(t, "spin") /\ UNCHANGED scan
    <3>1. scan' = [scan EXCEPT ![t] = scan[t]]
      BY <2>2, Zenon DEF LocalTypes
    <3> QED
      BY <1>11, <2>2, <3>1, DropCandKeepsApart, ZenonT(60) DEF TryActive, HoldLabels
  <2>3. CASE Goto(t, "writing") /\ UNCHANGED <<busy_, cand, scan>>
    <3>1. Quiet
      BY <1>11, <2>3, Zenon DEF Quiet, TryActive, HeldCand, HeldScan, PcTypes, HoldLabels
    <3> QED
      BY <3>1, QuietSuffices, Zenon
  <2> QED
    BY <1>11, <2>1, <2>2, <2>3, Zenon DEF TryActive
<1>12. ASSUME NEW t \in Writers, Spin(t) PROVE ZoneOwnership'
  <2>1. Quiet
    BY <1>12, ZenonT(60) DEF Quiet, HeldCand, HeldScan, LocalTypes, PcTypes,
       LocalsFit, HoldLabels, CandLabels, Spin, TakeActiveToken,
       NoActiveToken, Loop
  <2> QED
    BY <2>1, QuietSuffices, Zenon
<1>13. ASSUME NEW t \in Writers, CheapestInspect(t) PROVE ZoneOwnership'
  <2>1. pc[t] \in HoldLabels
    BY <1>13, Zenon DEF CheapestInspect, HoldLabels
  <2>2. CASE Prefer(t, "fin")
    BY <2>1, <2>2, PreferKeepsApart DEF HoldLabels
  <2>3. CASE Pass(t, "fin") /\ UNCHANGED cand
    BY <2>1, <2>3, ReleaseScan DEF HoldLabels
  <2> QED
    BY <1>13, <2>2, <2>3, Zenon DEF CheapestInspect
<1>14. ASSUME NEW t \in Writers, CheapestFinish(t) PROVE ZoneOwnership'
  <2>1. pc[t] \notin HoldLabels /\ pc[t] # "swapped"
    BY <1>14, Zenon DEF CheapestFinish, LoopDone, HoldLabels
  <2>2. CASE DropCand(t) /\ Loop(t, "finPut")
    BY <2>1, <2>2, DropCandKeepsApart, Zenon DEF Loop, HoldLabels
  <2>3. CASE DropCand(t) /\ Loop(t, "putOpen")
    BY <2>1, <2>3, DropCandKeepsApart, Zenon DEF Loop, HoldLabels
  <2>4. CASE Loop(t, "spin") /\ UNCHANGED <<busy_, cand>>
    <3>1. Quiet
      BY <2>1, <2>4, Zenon DEF Quiet, Loop, HeldCand, HeldScan, PcTypes, LocalTypes, HoldLabels
    <3> QED
      BY <3>1, QuietSuffices, Zenon
  <2> QED
    BY <1>14, <2>2, <2>3, <2>4, Zenon DEF CheapestFinish
<1>15. ASSUME NEW t \in Writers, EmptyInspect(t) PROVE ZoneOwnership'
  <2>1. pc[t] \in HoldLabels /\ pc[t] = "emptyHold"
    BY <1>15, Zenon DEF EmptyInspect, HoldLabels
  <2>2. CASE Pass(t, "empty") /\ UNCHANGED cand
    BY <2>1, <2>2, ReleaseScan DEF HoldLabels
  <2>3. CASE /\ cand' = [cand EXCEPT ![t] = scan[t]]
             /\ Loop(t, "writing") /\ UNCHANGED busy_
    <3>1. HeldScan(t) = {scan[t]} /\ HeldCand(t) = {} /\ HeldScan(t)' = {}
          /\ HeldCand(t)' = {scan[t]}
      BY <2>1, <2>3, PositionFacts, Zenon DEF HeldScan, HeldCand, Loop, PcTypes, LocalTypes,
         LocalsFit, CandLabels, HoldLabels
    <3>2. \A u \in Threads \ {t} : HeldCand(u)' = HeldCand(u) /\ HeldScan(u)' = HeldScan(u)
      BY <2>3, Zenon DEF HeldScan, HeldCand, Loop, PcTypes, LocalTypes
    <3>3. OwnsAlone(t)
      BY <2>3, <3>1, <3>2, Zenon DEF OwnsAlone, Held, ZoneOwnership
    <3> QED
      BY <3>3, OwnsAloneSuffices, Zenon
  <2> QED
    BY <1>15, <2>2, <2>3, Zenon DEF EmptyInspect
<1>16. ASSUME NEW t \in Writers, EmptyNone(t) PROVE ZoneOwnership'
  <2>1. Quiet
    BY <1>16, ZenonT(60) DEF Quiet, HeldCand, HeldScan, LocalTypes, PcTypes,
       LocalsFit, HoldLabels, CandLabels, EmptyNone, LoopDone, Loop,
       PutActiveIOZoneToken
  <2> QED
    BY <2>1, QuietSuffices, Zenon
<1>17. ASSUME NEW t \in Writers, ReturnOpenToken(t) PROVE ZoneOwnership'
  <2>1. Quiet
    BY <1>17, Zenon DEF Quiet, HeldCand, HeldScan, LocalTypes, PcTypes, LocalsFit, HoldLabels,
       CandLabels, ReturnOpenToken, PutOpenIOZoneToken
  <2> QED
    BY <2>1, QuietSuffices, Zenon
<1>18. ASSUME NEW t \in Writers, Append(t) PROVE ZoneOwnership'
  <2>1. Quiet
    BY <1>18, Zenon DEF Quiet, HeldCand, HeldScan, LocalTypes, PcTypes, LocalsFit, HoldLabels,
       CandLabels, Append
  <2> QED
    BY <2>1, QuietSuffices, Zenon
<1>19. ASSUME NEW t \in Writers, PushExtent(t) PROVE ZoneOwnership'
  <2>1. Quiet
    BY <1>19, Zenon DEF Quiet, HeldCand, HeldScan, LocalTypes, PcTypes, LocalsFit, HoldLabels,
       CandLabels, PushExtent
  <2> QED
    BY <2>1, QuietSuffices, Zenon
<1>20. ASSUME NEW t \in Writers, CloseActiveZone(t) PROVE ZoneOwnership'
  <2>1. scan' = [scan EXCEPT ![t] = scan[t]]
    BY <1>20, Zenon DEF CloseActiveZone, LocalTypes
  <2>2. PICK l : pc' = [pc EXCEPT ![t] = l] /\ l \notin HoldLabels
    BY <1>20, SMTT(60) DEF CloseActiveZone, HoldLabels
  <2> QED
    BY <1>20, <2>1, <2>2, DropCandKeepsApart, Zenon DEF CloseActiveZone, HoldLabels
<1>21. ASSUME NEW t \in Writers, ClosePutOpen(t) PROVE ZoneOwnership'
  <2>1. Quiet
    BY <1>21, Zenon DEF Quiet, HeldCand, HeldScan, LocalTypes, PcTypes, LocalsFit, HoldLabels,
       CandLabels, ClosePutOpen, PutOpenIOZoneToken
  <2> QED
    BY <2>1, QuietSuffices, Zenon
<1>22. ASSUME NEW t \in Writers, CloseError(t) PROVE ZoneOwnership'
  <2>1. Quiet
    BY <1>22, Zenon DEF Quiet, HeldCand, HeldScan, LocalTypes, PcTypes, LocalsFit, HoldLabels,
       CandLabels, CloseError, SetZoneDeferredStatus
  <2> QED
    BY <2>1, QuietSuffices, Zenon
<1>23. ASSUME NEW t \in Writers, SpuriousWakeup(t) PROVE ZoneOwnership'
  <2>1. Quiet
    BY <1>23, Zenon DEF Quiet, HeldCand, HeldScan, LocalTypes, PcTypes, LocalsFit, HoldLabels,
       CandLabels, SpuriousWakeup
  <2> QED
    BY <2>1, QuietSuffices, Zenon
<1>24. ASSUME NEW c \in Cleaners, NEW z \in Zones,
             DeleteExtents(c, z)
      PROVE  ZoneOwnership'
  <2>1. Quiet
    BY <1>24, Zenon DEF Quiet, HeldCand, HeldScan, LocalTypes, PcTypes,
       LocalsFit, HoldLabels, CandLabels, DeleteExtents, Loop
  <2> QED
    BY <2>1, QuietSuffices, Zenon
<1>25. ASSUME NEW c \in Cleaners, LogStart(c) PROVE ZoneOwnership'
  <2>1. Quiet
    BY <1>25, ZenonT(60) DEF Quiet, HeldCand, HeldScan, LocalTypes, PcTypes,
       LocalsFit, HoldLabels, CandLabels, LogStart, Loop
  <2> QED
    BY <2>1, QuietSuffices, Zenon
<1>26. ASSUME NEW c \in Cleaners, LogInspect(c) PROVE ZoneOwnership'
  <2>1. pc[c] \in HoldLabels
    BY <1>26, Zenon DEF LogInspect, HoldLabels
  <2> QED
    BY <1>26, <2>1, ReleaseScan DEF LogInspect, HoldLabels
<1>27. ASSUME NEW c \in Cleaners \cup Collectors,
             ResetInspect(c)
      PROVE  ZoneOwnership'
  <2>1. pc[c] \in HoldLabels /\ cand' = cand
    BY <1>27, Zenon DEF ResetInspect, HoldLabels
  <2>2. CASE Pass(c, "rst")
    BY <2>1, <2>2, ReleaseScan DEF HoldLabels
  <2>3. CASE Pass(c, "rstPut")
    BY <2>1, <2>3, ReleaseScan DEF HoldLabels
  <2>4. CASE Quit(c)
    BY <2>1, <2>4, ReleaseScan, SMTT(30) DEF HoldLabels
  <2> QED
    BY <1>27, <2>2, <2>3, <2>4, Zenon DEF ResetInspect
<1>28. ASSUME NEW g \in Collectors, NEW z \in Zones,
             MigrateStart(g, z)
      PROVE  ZoneOwnership'
  <2>1. Quiet
    BY <1>28, Zenon DEF Quiet, HeldCand, HeldScan, LocalTypes, PcTypes, LocalsFit, HoldLabels,
       CandLabels, MigrateStart
  <2> QED
    BY <2>1, QuietSuffices, Zenon
<1>29. ASSUME NEW g \in Collectors, TakeMigrateZone(g) PROVE ZoneOwnership'
  <2>1. Quiet
    BY <1>29, Zenon DEF Quiet, HeldCand, HeldScan, LocalTypes, PcTypes,
       LocalsFit, HoldLabels, CandLabels, TakeMigrateZone, Loop
  <2> QED
    BY <2>1, QuietSuffices, Zenon
<1>30. ASSUME NEW g \in Collectors, MigrateData(g) PROVE ZoneOwnership'
  <2>1. Quiet
    BY <1>30, ZenonT(60) DEF Quiet, HeldCand, HeldScan, LocalTypes, PcTypes,
       LocalsFit, HoldLabels, CandLabels, MigrateData, LoopDone, Loop
  <2> QED
    BY <2>1, QuietSuffices, Zenon
<1>31. ASSUME NEW g \in Collectors, ReleaseMigrateZone(g) PROVE ZoneOwnership'
  <2>1. cand[g] \in Zones /\ busy_' = [busy_ EXCEPT ![cand[g]] = FALSE]
    BY <1>31, Zenon DEF ReleaseMigrateZone, LocalsFit, LocalTypes
  <2>2. /\ HeldScan(g) = {} /\ HeldCand(g) = {cand[g]}
        /\ HeldScan(g)' = {} /\ HeldCand(g)' = {}
    BY <1>31, <2>1, PositionFacts, Zenon DEF HeldScan, HeldCand, HoldLabels, PcTypes,
       ReleaseMigrateZone
  <2>3. \A u \in Threads \ {g} : HeldCand(u)' = HeldCand(u) /\ HeldScan(u)' = HeldScan(u)
    BY <1>31, Zenon DEF HeldScan, HeldCand, PcTypes, ReleaseMigrateZone
  <2>4. OwnsAlone(g)
    BY <2>1, <2>2, <2>3, Zenon DEF OwnsAlone, Held, FlagTypes
  <2> QED
    BY <2>4, OwnsAloneSuffices, Zenon
<1>32. ASSUME NEW g \in Collectors, SyncFileExtents(g) PROVE ZoneOwnership'
  <2>1. Quiet
    BY <1>32, ZenonT(60) DEF Quiet, HeldCand, HeldScan, LocalTypes, PcTypes,
       LocalsFit, HoldLabels, CandLabels, SyncFileExtents, Loop
  <2> QED
    BY <2>1, QuietSuffices, Zenon
<1>33. ASSUME NEW t \in Threads, NotifyOne(t) PROVE ZoneOwnership'
  <2>1. Quiet
    BY <1>33, Zenon DEF Quiet, HeldCand, HeldScan, LocalTypes, PcTypes, LocalsFit, HoldLabels,
       CandLabels, NotifyOne, Asleep
  <2> QED
    BY <2>1, QuietSuffices, Zenon
<1>34. CASE UNCHANGED vars
  <2>1. Quiet
    BY <1>34, Zenon DEF vars, Quiet, HeldCand, HeldScan
  <2> QED
    BY <2>1, QuietSuffices, Zenon
<1> HIDE DEF zoneVars, tokenVars, fileVars, devVars, At, Goto, Threads
<1> QED
  BY NextCases, <1>1, <1>2, <1>3, <1>4, <1>5, <1>6, <1>7, <1>8, <1>9, <1>10,
     <1>11, <1>12, <1>13, <1>14, <1>15, <1>16, <1>17, <1>18, <1>19, <1>20,
     <1>21, <1>22, <1>23, <1>24, <1>25, <1>26, <1>27, <1>28, <1>29, <1>30,
     <1>31, <1>32, <1>33, <1>34, ZenonT(60) DEF AnyStep

LEMMA OwnershipInit == Init => TypeOK /\ LocalsFit /\ ZoneOwnership
<1> SUFFICES ASSUME Init PROVE TypeOK /\ LocalsFit /\ ZoneOwnership
  BY Zenon
<1>1. \A t \in Threads : HeldCand(t) = {} /\ HeldScan(t) = {}
  BY Zenon DEF Init, HeldCand, HeldScan, HoldLabels
<1>2. ZoneOwnership
  BY <1>1, Zenon DEF Init, ZoneOwnership, Held
<1> QED
  BY <1>2, TypeInit, Zenon

LEMMA OwnershipInvariant ==
  TypeOK /\ LocalsFit /\ ZoneOwnership /\ [Next]_vars => TypeOK' /\ LocalsFit' /\ ZoneOwnership'
BY TypeStep, OwnershipStep, Zenon

(* No zone is ever in the hands of two threads and no zone is busy without  *)
(* an owner, for any number of zones, writers, deleting threads and         *)
(* collectors and with failing device operations.                           *)
THEOREM OwnershipCorrect == Spec => []ZoneOwnership
BY OwnershipInit, OwnershipInvariant, PTL DEF Spec
=============================================================================
