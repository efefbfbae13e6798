------------------------------- MODULE ZoneAlloc -------------------------------
(***************************************************************************)
(* The IO zone allocator of ZenFS: class ZonedBlockDevice and class Zone    *)
(* (zbd_zenfs.cc/.h) as the writers (ZoneFile, io_zenfs.cc), the threads    *)
(* that delete files and the garbage collector (fs_zenfs.cc) use it.        *)
(*                                                                          *)
(* Every thread runs one operation at a time; pc[t] is where it stands.     *)
(* A zone is owned through its atomic busy_ flag only.  The loops over      *)
(* io_zones are steps of one zone each: a thread acquires zone scan[t],     *)
(* then looks at it and keeps or releases it, so that other threads can     *)
(* find the flag taken in between.  Blocks are the unit of all capacities.  *)
(***************************************************************************)
EXTENDS Integers, FiniteSets, FiniteSetsExt

CONSTANTS
  NrZones,          \* io_zones are the zones 1..NrZones, in vector order
  MaxCapacity,      \* max_capacity_ of a zone
  ZoneSize,         \* zone size of the device, at least MaxCapacity
  DevMaxActive,     \* max_nr_active_zones reported by the backend, 0: no limit
  DevMaxOpen,       \* max_nr_open_zones reported by the backend, 0: no limit
  UintSize,         \* unsigned int arithmetic is modulo this, 2^32 in the build
  FinishThreshold,  \* finish_threshold_, a percentage
  Writers,          \* threads, each writing one file after another
  Wal,              \* the writers whose files have io_type kWAL
  Buffered,         \* the writers that use BufferedAppend or SparseAppend
  Cleaners,         \* threads that delete files or log garbage statistics
  Collectors,       \* the garbage collection worker
  Lifetime,         \* write lifetime hint of the file a thread writes or moves
  Faults            \* the device operations that may fail or go offline

ASSUME ZonesAssumption ==
  /\ NrZones \in Nat \ {0}
  /\ MaxCapacity \in Nat \ {0}
  /\ ZoneSize \in Nat /\ ZoneSize >= MaxCapacity
  /\ FinishThreshold \in Nat

ASSUME ThreadsAssumption ==
  /\ IsFiniteSet(Writers) /\ IsFiniteSet(Cleaners) /\ IsFiniteSet(Collectors)
  /\ Wal \subseteq Writers /\ Buffered \subseteq Writers
  /\ Writers \cap (Cleaners \cup Collectors) = {}
  /\ Cleaners \cap Collectors = {}
  /\ Lifetime \in [Writers \cup Collectors -> 0..5]
  /\ Faults \subseteq {"reset", "offline", "finish", "close", "write"}

ASSUME LimitsAssumption ==
  /\ UintSize \in Nat \ {0}
  /\ DevMaxActive \in Nat /\ DevMaxOpen \in Nat
  /\ DevMaxActive < UintSize /\ DevMaxOpen < UintSize /\ NrZones + 3 < UintSize

Threads == Writers \cup Cleaners \cup Collectors
Zones == 1..NrZones
NoZone == 0
Positions == 1..(NrZones + 1)    \* of a loop over io_zones, the end included

(* a - b of two unsigned int values.                                        *)
USub(a, b) == IF a >= b THEN a - b ELSE (a - b) + UintSize

(* Open: two zones are held back, one for metadata and one for migration.   *)
ZENFS_META_ZONES == 3
IOLimit(devmax) ==
  IF devmax = 0 THEN NrZones + ZENFS_META_ZONES ELSE USub(devmax, 2)
max_nr_active_io_zones_ == IOLimit(DevMaxActive)
max_nr_open_io_zones_ == IOLimit(DevMaxOpen)

VARIABLES
  busy_, wp, capacity, used, lifetime,     \* the zones
  open_io_zones_, active_io_zones_,        \* the token counters
  zone_deferred_status_, migrating_,
  pc, scan, cand, best,                    \* the operation a thread runs
  pin,        \* blocks of a writer's file in its active zone, of the extent moved
  unpushed,   \* blocks written directly, in no extent yet
  eager,      \* the writer allocates because it has just filled a zone
  src,        \* the zone the collector moves an extent out of
  due         \* threads that gave a token back and have yet to call notify_one

zoneVars == <<busy_, wp, capacity, used, lifetime>>
tokenVars == <<open_io_zones_, active_io_zones_, due>>
fileVars == <<pin, unpushed, eager, src>>
devVars == <<zone_deferred_status_, migrating_>>
vars == <<busy_, wp, capacity, used, lifetime, open_io_zones_, active_io_zones_,
          zone_deferred_status_, migrating_, pc, scan, cand, best, pin, unpushed,
          eager, src, due>>

IsEmpty(z) == wp[z] = 0
IsFull(z) == capacity[z] = 0
IsUsed(z) == used[z] > 0

NOT_GOOD == 100
COULD_BE_WORSE == 50
NOT_SET == 0
Diffs == 0..NOT_GOOD

(* Mutants, one before each definition they vary: what a slip in the code   *)
(* would look like.  Here, the comparison of the lifetimes is missing.      *)
GetLifeTimeDiffUnordered(zone_lifetime, file_lifetime) ==
  IF file_lifetime \in {0, 1}
  THEN IF file_lifetime = zone_lifetime THEN 0 ELSE NOT_GOOD
  ELSE IF zone_lifetime = file_lifetime THEN COULD_BE_WORSE
  ELSE zone_lifetime - file_lifetime

GetLifeTimeDiff(zone_lifetime, file_lifetime) ==
  IF file_lifetime \in {0, 1}
  THEN IF file_lifetime = zone_lifetime THEN 0 ELSE NOT_GOOD
  ELSE IF zone_lifetime > file_lifetime THEN zone_lifetime - file_lifetime
  ELSE IF zone_lifetime = file_lifetime THEN COULD_BE_WORSE
  ELSE NOT_GOOD

----------------------------------------------------------------------------
(* The device after Open: any mix of empty, open and full zones within the  *)
(* limits; the counter of active zones is taken from the device.            *)

ActiveZones == {z \in Zones : ~IsEmpty(z) /\ ~IsFull(z)}

Init ==
  /\ busy_ = [z \in Zones |-> FALSE]
  /\ wp \in [Zones -> 0..MaxCapacity]
  /\ capacity = [z \in Zones |-> MaxCapacity - wp[z]]
  /\ used \in [Zones -> 0..MaxCapacity]
  /\ \A z \in Zones : used[z] <= wp[z]
  /\ lifetime = [z \in Zones |-> NOT_SET]
  /\ open_io_zones_ = 0
  /\ active_io_zones_ = Cardinality(ActiveZones)
  /\ active_io_zones_ \in 0..max_nr_active_io_zones_
  /\ zone_deferred_status_ = "OK" /\ migrating_ = FALSE
  /\ pc = [t \in Threads |-> "idle"]
  /\ scan = [t \in Threads |-> 1]
  /\ cand = [t \in Threads |-> NoZone]
  /\ best = [t \in Threads |-> NOT_GOOD]
  /\ pin = [t \in Threads |-> 0]
  /\ unpushed = [t \in Threads |-> 0]
  /\ eager = [t \in Threads |-> FALSE]
  /\ src = [t \in Threads |-> NoZone]
  /\ due = {}

----------------------------------------------------------------------------
(* Steps shared by the operations.                                          *)

At(t, label) == pc[t] = label /\ t \notin due
Goto(t, label) == pc' = [pc EXCEPT ![t] = label]

(* A loop over io_zones begins, or ended: its index is at the first zone.   *)
Loop(t, label) ==
  /\ pc' = [pc EXCEPT ![t] = label]
  /\ scan' = [scan EXCEPT ![t] = 1]

(* z->Acquire() failed: the loop goes on with the next zone.                *)
SkipBusy(t, from) ==
  /\ At(t, from) /\ scan[t] \in Zones /\ busy_[scan[t]]
  /\ scan' = [scan EXCEPT ![t] = @ + 1]
  /\ UNCHANGED <<zoneVars, tokenVars, fileVars, devVars, pc, cand, best>>

(* z->Acquire() succeeded: the thread looks at the zone in its next step.   *)
Acquire(t, from, to) ==
  /\ At(t, from) /\ scan[t] \in Zones /\ ~busy_[scan[t]]
  /\ busy_' = [busy_ EXCEPT ![scan[t]] = TRUE]
  /\ Goto(t, to)
  /\ UNCHANGED <<wp, capacity, used, lifetime, tokenVars, fileVars, devVars,
                 scan, cand, best>>

(* Mutant: the zone is not released.                                        *)
PassBusy(t, back) ==
  /\ pc' = [pc EXCEPT ![t] = back]
  /\ scan' = [scan EXCEPT ![t] = @ + 1]
  /\ UNCHANGED busy_

(* The zone is of no interest: z->CheckRelease() and on to the next one.    *)
Pass(t, back) ==
  /\ busy_' = [busy_ EXCEPT ![scan[t]] = FALSE]
  /\ pc' = [pc EXCEPT ![t] = back]
  /\ scan' = [scan EXCEPT ![t] = @ + 1]

(* An error: the zone is released and the operation returns.                *)
Quit(t) ==
  /\ busy_' = [busy_ EXCEPT ![scan[t]] = FALSE]
  /\ Loop(t, "idle")

(* The zone replaces the candidate held so far, which is released.          *)
Prefer(t, back) ==
  /\ busy_' = IF cand[t] = NoZone THEN busy_ ELSE [busy_ EXCEPT ![cand[t]] = FALSE]
  /\ cand' = [cand EXCEPT ![t] = scan[t]]
  /\ pc' = [pc EXCEPT ![t] = back]
  /\ scan' = [scan EXCEPT ![t] = @ + 1]

LoopDone(t, from) == At(t, from) /\ scan[t] \notin Zones

Leave(t, from, to) ==
  /\ LoopDone(t, from)
  /\ Loop(t, to)
  /\ UNCHANGED <<zoneVars, tokenVars, fileVars, devVars, cand, best>>

DropCand(t) ==
  /\ busy_' = IF cand[t] = NoZone THEN busy_ ELSE [busy_ EXCEPT ![cand[t]] = FALSE]
  /\ cand' = [cand EXCEPT ![t] = NoZone]

(* Zone::Finish, on success.                                                *)
FinishZone(z) ==
  /\ capacity' = [capacity EXCEPT ![z] = 0]
  /\ wp' = [wp EXCEPT ![z] = ZoneSize]

(* Mutant: nobody is notified of the open token.                            *)
PutOpenIOZoneTokenQuiet(t) ==
  /\ open_io_zones_' = open_io_zones_ - 1
  /\ UNCHANGED <<active_io_zones_, due>>

(* PutOpenIOZoneToken and PutActiveIOZoneToken: the counter is decremented  *)
(* under the mutex, notify_one is called after the mutex is released.       *)
PutOpenIOZoneToken(t) ==
  /\ open_io_zones_' = open_io_zones_ - 1
  /\ due' = due \cup {t}
  /\ UNCHANGED active_io_zones_

PutActiveIOZoneToken(t) ==
  /\ active_io_zones_' = active_io_zones_ - 1
  /\ due' = due \cup {t}
  /\ UNCHANGED open_io_zones_

PutActive(t, from, to) ==
  /\ At(t, from)
  /\ PutActiveIOZoneToken(t)
  /\ Goto(t, to)
  /\ UNCHANGED <<zoneVars, fileVars, devVars, scan, cand, best>>

(* notify_one wakes some thread that sleeps on zone_resources_, if any.     *)
Asleep == {t \in Writers : pc[t] = "asleep"}

NotifyOne(t) ==
  /\ t \in due
  /\ due' = due \ {t}
  /\ \/ Asleep = {} /\ pc' = pc
     \/ \E w \in Asleep : pc' = [pc EXCEPT ![w] = "wait"]
  /\ UNCHANGED <<zoneVars, open_io_zones_, active_io_zones_, fileVars, devVars,
                 scan, cand, best>>

(* A condition variable may also wake up by itself.                         *)
SpuriousWakeup(t) ==
  /\ At(t, "asleep")
  /\ Goto(t, "wait")
  /\ UNCHANGED <<zoneVars, tokenVars, fileVars, devVars, scan, cand, best>>

----------------------------------------------------------------------------
(* AllocateIOZone.                                                          *)

AllocateStart(t) ==
  /\ t \in Writers /\ At(t, "idle")
  /\ zone_deferred_status_ = "OK"
  /\ IF t \in Wal \/ FinishThreshold = 0 THEN Loop(t, "wait") ELSE Loop(t, "thr")
  /\ UNCHANGED <<zoneVars, tokenVars, fileVars, devVars, cand, best>>

(* ApplyFinishThreshold.                                                    *)
WithinFinishThreshold(z) ==
  capacity[z] < (MaxCapacity * FinishThreshold) \div 100

ThresholdInspect(t) ==
  LET z == scan[t] IN
  /\ At(t, "thrHold")
  /\ \/ /\ IsEmpty(z) \/ IsFull(z) \/ ~WithinFinishThreshold(z)
        /\ Pass(t, "thr")
        /\ UNCHANGED <<wp, capacity, eager>>
     \/ /\ ~IsEmpty(z) /\ ~IsFull(z) /\ WithinFinishThreshold(z)
        /\ FinishZone(z)
        /\ Pass(t, "thrPut")
        /\ UNCHANGED eager
     \/ /\ ~IsEmpty(z) /\ ~IsFull(z) /\ WithinFinishThreshold(z)
        /\ "finish" \in Faults
        /\ Quit(t)
        /\ eager' = [eager EXCEPT ![t] = FALSE]
        /\ UNCHANGED <<wp, capacity>>
  /\ UNCHANGED <<used, lifetime, tokenVars, pin, unpushed, src, devVars, cand, best>>

(* WaitForOpenIOZoneToken: the predicate of the wait takes the token.       *)
OpenLimit(t) ==
  IF t \in Wal THEN max_nr_open_io_zones_ ELSE USub(max_nr_open_io_zones_, 1)

(* Mutant: <= for <.                                                        *)
TakeOpenTokenAtLimit(t) ==
  /\ At(t, "wait")
  /\ open_io_zones_ <= OpenLimit(t)
  /\ open_io_zones_' = open_io_zones_ + 1
  /\ Loop(t, "best")
  /\ best' = [best EXCEPT ![t] = NOT_GOOD]
  /\ UNCHANGED <<zoneVars, active_io_zones_, due, fileVars, devVars, cand>>

TakeOpenToken(t) ==
  /\ At(t, "wait")
  /\ open_io_zones_ < OpenLimit(t)
  /\ open_io_zones_' = open_io_zones_ + 1
  /\ Loop(t, "best")
  /\ best' = [best EXCEPT ![t] = NOT_GOOD]
  /\ UNCHANGED <<zoneVars, active_io_zones_, due, fileVars, devVars, cand>>

WaitOpenToken(t) ==
  /\ At(t, "wait")
  /\ open_io_zones_ >= OpenLimit(t)
  /\ Goto(t, "asleep")
  /\ UNCHANGED <<zoneVars, tokenVars, fileVars, devVars, scan, cand, best>>

(* GetBestOpenZoneMatch, also called by TakeMigrateZone with min_capacity.  *)
BestInspect(t, held, back, min_capacity) ==
  LET z == scan[t]
      diff == GetLifeTimeDiff(lifetime[z], Lifetime[t])
      fits == IsUsed(z) /\ ~IsFull(z) /\ capacity[z] >= min_capacity
  IN
  /\ At(t, held)
  /\ \/ /\ fits /\ diff <= best[t]
        /\ Prefer(t, back)
        /\ best' = [best EXCEPT ![t] = diff]
     \/ /\ ~(fits /\ diff <= best[t])
        /\ Pass(t, back)
        /\ UNCHANGED <<cand, best>>
  /\ UNCHANGED <<wp, capacity, used, lifetime, tokenVars, fileVars, devVars>>

BestDone(t) ==
  /\ LoopDone(t, "best")
  /\ IF best[t] >= COULD_BE_WORSE
     THEN Loop(t, "tryActive") /\ UNCHANGED best
     ELSE Loop(t, "writing") /\ best' = [best EXCEPT ![t] = NOT_GOOD]
  /\ UNCHANGED <<zoneVars, tokenVars, fileVars, devVars, cand>>

(* GetActiveIOZoneTokenIfAvailable, and what becomes of the match found.    *)
TakeActiveToken ==
  /\ active_io_zones_ < max_nr_active_io_zones_
  /\ active_io_zones_' = active_io_zones_ + 1
  /\ UNCHANGED <<open_io_zones_, due>>

NoActiveToken == active_io_zones_ >= max_nr_active_io_zones_ /\ UNCHANGED tokenVars

TryActive(t) ==
  /\ At(t, "tryActive")
  /\ \/ /\ TakeActiveToken
        /\ DropCand(t)
        /\ Loop(t, "empty")
     \/ /\ NoActiveToken
        /\ cand[t] # NoZone /\ best[t] = COULD_BE_WORSE
        /\ Goto(t, "writing")
        /\ UNCHANGED <<busy_, cand, scan>>
     \/ /\ NoActiveToken
        /\ cand[t] = NoZone \/ best[t] # COULD_BE_WORSE
        /\ DropCand(t)
        /\ Goto(t, "spin")
        /\ UNCHANGED scan
  /\ best' = [best EXCEPT ![t] = NOT_GOOD]
  /\ UNCHANGED <<wp, capacity, used, lifetime, fileVars, devVars>>

(* while (!got_token && !GetActiveIOZoneTokenIfAvailable()) FinishCheapest. *)
Spin(t) ==
  /\ At(t, "spin")
  /\ \/ TakeActiveToken /\ Loop(t, "empty")
     \/ NoActiveToken /\ Loop(t, "fin")
  /\ UNCHANGED <<zoneVars, fileVars, devVars, cand, best>>

(* FinishCheapestIOZone.                                                    *)
CheapestInspect(t) ==
  LET z == scan[t] IN
  /\ At(t, "finHold")
  /\ \/ /\ IsEmpty(z) \/ IsFull(z)
        /\ Pass(t, "fin")
        /\ UNCHANGED cand
     \/ /\ ~IsEmpty(z) /\ ~IsFull(z)
        /\ IF cand[t] = NoZone THEN TRUE ELSE capacity[cand[t]] > capacity[z]
        /\ Prefer(t, "fin")
     \/ /\ ~IsEmpty(z) /\ ~IsFull(z)
        /\ IF cand[t] = NoZone THEN FALSE ELSE capacity[cand[t]] <= capacity[z]
        /\ Pass(t, "fin")
        /\ UNCHANGED cand
  /\ UNCHANGED <<wp, capacity, used, lifetime, tokenVars, fileVars, devVars, best>>

CheapestFinish(t) ==
  /\ LoopDone(t, "fin")
  /\ \/ /\ cand[t] = NoZone
        /\ Loop(t, "spin")
        /\ UNCHANGED <<busy_, wp, capacity, cand>>
     \/ /\ cand[t] # NoZone
        /\ FinishZone(cand[t])
        /\ DropCand(t)
        /\ Loop(t, "finPut")
     \/ /\ cand[t] # NoZone /\ "finish" \in Faults
        /\ DropCand(t)
        /\ Loop(t, "putOpen")
        /\ UNCHANGED <<wp, capacity>>
  /\ UNCHANGED <<used, lifetime, tokenVars, fileVars, devVars, best>>

(* AllocateEmptyZone, and the zone it found taken into use.                 *)
EmptyInspect(t) ==
  LET z == scan[t] IN
  /\ At(t, "emptyHold")
  /\ \/ /\ IsEmpty(z)
        /\ cand' = [cand EXCEPT ![t] = z]
        /\ lifetime' = [lifetime EXCEPT ![z] = Lifetime[t]]
        /\ Loop(t, "writing")
        /\ UNCHANGED busy_
     \/ /\ ~IsEmpty(z)
        /\ Pass(t, "empty")
        /\ UNCHANGED <<cand, lifetime>>
  /\ UNCHANGED <<wp, capacity, used, tokenVars, fileVars, devVars, best>>

(* Mutants: only the open, only the active token goes back.                 *)
EmptyNoneKeepsActive(t) ==
  /\ LoopDone(t, "empty")
  /\ Loop(t, "putOpen")
  /\ UNCHANGED <<zoneVars, tokenVars, fileVars, devVars, cand, best>>

EmptyNoneKeepsOpen(t) ==
  /\ LoopDone(t, "empty")
  /\ PutActiveIOZoneToken(t)
  /\ Loop(t, "idle")
  /\ UNCHANGED <<zoneVars, fileVars, devVars, cand, best>>

(* Mutant: the search for an empty zone starts over.                        *)
EmptyNoneRetries(t) ==
  /\ LoopDone(t, "empty")
  /\ Loop(t, "empty")
  /\ UNCHANGED <<zoneVars, tokenVars, fileVars, devVars, cand, best>>

(* No empty zone: both tokens go back and the caller gets no zone.  The     *)
(* open token also goes back when a zone with room left is closed.          *)
EmptyNone(t) ==
  /\ LoopDone(t, "empty")
  /\ PutActiveIOZoneToken(t)
  /\ Loop(t, "putOpen")
  /\ UNCHANGED <<zoneVars, fileVars, devVars, cand, best>>

ReturnOpenToken(t) ==
  /\ At(t, "putOpen")
  /\ PutOpenIOZoneToken(t)
  /\ Goto(t, "idle")
  /\ eager' = [eager EXCEPT ![t] = FALSE]
  /\ UNCHANGED <<zoneVars, pin, unpushed, src, devVars, scan, cand, best>>

----------------------------------------------------------------------------
(* The writer: ZoneFile on its active zone cand[t].                         *)

(* One block through Zone::Append.  Buffered and sparse appends add the     *)
(* extent at once, direct appends leave that to PushExtent.                 *)
Append(t) ==
  LET z == cand[t] IN
  /\ At(t, "writing") /\ capacity[z] > 0
  /\ wp' = [wp EXCEPT ![z] = @ + 1]
  /\ capacity' = [capacity EXCEPT ![z] = @ - 1]
  /\ IF t \in Buffered
     THEN /\ used' = [used EXCEPT ![z] = @ + 1]
          /\ pin' = [pin EXCEPT ![t] = @ + 1]
          /\ UNCHANGED unpushed
     ELSE /\ unpushed' = [unpushed EXCEPT ![t] = @ + 1]
          /\ UNCHANGED <<used, pin>>
  /\ eager' = [eager EXCEPT ![t] = FALSE]
  /\ UNCHANGED <<busy_, lifetime, tokenVars, src, devVars, pc, scan, cand, best>>

PushExtent(t) ==
  /\ At(t, "writing") /\ unpushed[t] > 0
  /\ used' = [used EXCEPT ![cand[t]] = @ + unpushed[t]]
  /\ pin' = [pin EXCEPT ![t] = @ + unpushed[t]]
  /\ unpushed' = [unpushed EXCEPT ![t] = 0]
  /\ UNCHANGED <<busy_, wp, capacity, lifetime, tokenVars, eager, src, devVars,
                 pc, scan, cand, best>>

(* CloseActiveZone, when the file is closed or the zone is full.  A file    *)
(* has something in its zone unless the zone cannot take a block, or was    *)
(* allocated eagerly by the append that filled the zone before, or writing  *)
(* the first block or the metadata of the new zone failed.                  *)
CloseActiveZone(t) ==
  LET z == cand[t] IN
  /\ At(t, "writing") /\ unpushed[t] = 0
  /\ pin[t] > 0 \/ IsFull(z) \/ eager[t] \/ "write" \in Faults
  /\ DropCand(t)
  /\ pin' = [pin EXCEPT ![t] = 0]
  /\ \/ /\ Goto(t, IF IsFull(z) THEN "putOpenFull" ELSE "putOpen")
        /\ eager' = [eager EXCEPT ![t] = t \in Buffered /\ IsFull(z)]
     \/ /\ "close" \in Faults /\ ~IsEmpty(z) /\ ~IsFull(z)
        /\ Goto(t, "closeFailed")
        /\ eager' = [eager EXCEPT ![t] = FALSE]
  /\ UNCHANGED <<wp, capacity, used, lifetime, tokenVars, unpushed, src, devVars,
                 scan, best>>

ClosePutOpen(t) ==
  /\ At(t, "putOpenFull")
  /\ PutOpenIOZoneToken(t)
  /\ Goto(t, "putActive")
  /\ UNCHANGED <<zoneVars, fileVars, devVars, scan, cand, best>>

(* Closing the zone failed and the writable file is destroyed:              *)
(* ~ZonedWritableFile hands the error to SetZoneDeferredStatus.             *)
SetZoneDeferredStatus(status) ==
  zone_deferred_status_' = IF zone_deferred_status_ # "OK" THEN status
                           ELSE zone_deferred_status_

CloseError(t) ==
  /\ At(t, "closeFailed")
  /\ SetZoneDeferredStatus("IOError")
  /\ Goto(t, "idle")
  /\ UNCHANGED <<zoneVars, tokenVars, fileVars, migrating_, scan, cand, best>>

----------------------------------------------------------------------------
(* Threads that delete files: ClearExtents, then ResetUnusedIOZones.        *)

(* Blocks of zone z that belong to files which cannot be freed yet.         *)
PinnedBy(t, z) ==
  IF t \in Writers THEN IF pc[t] = "writing" /\ cand[t] = z THEN pin[t] ELSE 0
  ELSE IF t \in Collectors THEN (IF src[t] = z THEN pin[t] ELSE 0)
                              + (IF pc[t] \in {"migrated", "swapped"} /\ cand[t] = z
                                   THEN pin[t] ELSE 0)
  ELSE 0
Pinned(z) == MapThenSumSet(LAMBDA t : PinnedBy(t, z), Threads)

DeleteExtents(c, z) ==
  /\ c \in Cleaners /\ At(c, "idle")
  /\ \E n \in 1..used[z] :
        /\ n <= used[z] - Pinned(z)
        /\ used' = [used EXCEPT ![z] = @ - n]
  /\ Loop(c, "rst")
  /\ UNCHANGED <<busy_, wp, capacity, lifetime, tokenVars, fileVars, devVars,
                 cand, best>>

(* Mutants: used blocks are not looked at and forgotten; a full zone's      *)
(* token, which went back when it was filled, goes back again.              *)
ResetInspectUsed(c) ==
  LET z == scan[c] IN
  /\ At(c, "rstHold")
  /\ \/ IsEmpty(z) /\ Pass(c, "rst") /\ UNCHANGED <<wp, capacity, used, lifetime>>
     \/ /\ ~IsEmpty(z)
        /\ capacity' = [capacity EXCEPT ![z] = MaxCapacity]
        /\ used' = [used EXCEPT ![z] = 0]
        /\ wp' = [wp EXCEPT ![z] = 0]
        /\ lifetime' = [lifetime EXCEPT ![z] = NOT_SET]
        /\ Pass(c, IF IsFull(z) THEN "rst" ELSE "rstPut")
  /\ UNCHANGED <<tokenVars, fileVars, devVars, cand, best>>

ResetInspectPutsTwice(c) ==
  LET z == scan[c]
      unused == ~IsEmpty(z) /\ ~IsUsed(z)
  IN
  /\ At(c, "rstHold")
  /\ \/ ~unused /\ Pass(c, "rst") /\ UNCHANGED <<wp, capacity, lifetime>>
     \/ /\ unused
        /\ capacity' = [capacity EXCEPT ![z] = MaxCapacity]
        /\ wp' = [wp EXCEPT ![z] = 0]
        /\ lifetime' = [lifetime EXCEPT ![z] = NOT_SET]
        /\ Pass(c, "rstPut")
  /\ UNCHANGED <<used, tokenVars, fileVars, devVars, cand, best>>

ResetInspect(c) ==
  LET z == scan[c]
      unused == ~IsEmpty(z) /\ ~IsUsed(z)
  IN
  /\ At(c, "rstHold")
  /\ \/ /\ ~unused
        /\ Pass(c, "rst")
        /\ UNCHANGED <<wp, capacity, lifetime>>
     \/ /\ unused
        /\ \/ capacity' = [capacity EXCEPT ![z] = MaxCapacity]
           \/ "offline" \in Faults /\ capacity' = [capacity EXCEPT ![z] = 0]
        /\ wp' = [wp EXCEPT ![z] = 0]
        /\ lifetime' = [lifetime EXCEPT ![z] = NOT_SET]
        /\ Pass(c, IF IsFull(z) THEN "rst" ELSE "rstPut")
     \/ /\ unused /\ "reset" \in Faults
        /\ Quit(c)
        /\ UNCHANGED <<wp, capacity, lifetime>>
  /\ UNCHANGED <<used, tokenVars, fileVars, devVars, cand, best>>

(* LogGarbageInfo holds each zone for as long as it looks at it.            *)
LogStart(c) ==
  /\ c \in Cleaners /\ At(c, "idle")
  /\ Loop(c, "log")
  /\ UNCHANGED <<zoneVars, tokenVars, fileVars, devVars, cand, best>>

LogInspect(c) ==
  /\ At(c, "logHold")
  /\ Pass(c, "log")
  /\ UNCHANGED <<wp, capacity, used, lifetime, tokenVars, fileVars, devVars,
                 cand, best>>

----------------------------------------------------------------------------
(* The garbage collector moves an extent of n blocks out of a full zone.    *)

MigrateStart(g, z) ==
  /\ g \in Collectors /\ At(g, "idle")
  /\ IsFull(z)
  /\ \E n \in 1..used[z] :
        /\ n <= used[z] - Pinned(z)
        /\ pin' = [pin EXCEPT ![g] = n]
  /\ src' = [src EXCEPT ![g] = z]
  /\ Goto(g, "take")
  /\ UNCHANGED <<zoneVars, tokenVars, devVars, unpushed, eager, scan, cand, best>>

(* TakeMigrateZone: wait until nobody migrates, then look for a match.      *)
TakeMigrateZone(g) ==
  /\ At(g, "take") /\ ~migrating_
  /\ migrating_' = TRUE
  /\ Loop(g, "match")
  /\ best' = [best EXCEPT ![g] = NOT_GOOD]
  /\ UNCHANGED <<zoneVars, tokenVars, fileVars, zone_deferred_status_, cand>>

(* Mutant: the new extent is not counted in used_capacity_.                 *)
MigrateDataUncounted(g) ==
  LET z == cand[g] IN
  /\ LoopDone(g, "match") /\ z # NoZone
  /\ wp' = [wp EXCEPT ![z] = @ + pin[g]]
  /\ capacity' = [capacity EXCEPT ![z] = @ - pin[g]]
  /\ Loop(g, "migrated")
  /\ best' = [best EXCEPT ![g] = NOT_GOOD]
  /\ UNCHANGED <<busy_, used, lifetime, tokenVars, fileVars, devVars, cand>>

(* The data is copied and the new extent counted in the target zone; without *)
(* a target the extent stays where it is.                                   *)
MigrateData(g) ==
  LET z == cand[g] IN
  /\ LoopDone(g, "match")
  /\ \/ /\ z = NoZone
        /\ migrating_' = FALSE
        /\ pin' = [pin EXCEPT ![g] = 0] /\ src' = [src EXCEPT ![g] = NoZone]
        /\ Loop(g, "rst")
        /\ UNCHANGED <<wp, capacity, used>>
     \/ /\ z # NoZone
        /\ wp' = [wp EXCEPT ![z] = @ + pin[g]]
        /\ capacity' = [capacity EXCEPT ![z] = @ - pin[g]]
        /\ used' = [used EXCEPT ![z] = @ + pin[g]]
        /\ Loop(g, "migrated")
        /\ UNCHANGED <<migrating_, pin, src>>
  /\ best' = [best EXCEPT ![g] = NOT_GOOD]
  /\ UNCHANGED <<busy_, lifetime, tokenVars, unpushed, eager,
                 zone_deferred_status_, cand>>

ReleaseMigrateZone(g) ==
  /\ At(g, "migrated")
  /\ busy_' = [busy_ EXCEPT ![cand[g]] = FALSE]
  /\ migrating_' = FALSE
  /\ Goto(g, "swapped")
  /\ UNCHANGED <<wp, capacity, used, lifetime, tokenVars, fileVars,
                 zone_deferred_status_, scan, cand, best>>

(* SyncFileExtents gives the old place of the extent up.                    *)
SyncFileExtents(g) ==
  /\ At(g, "swapped")
  /\ used' = [used EXCEPT ![src[g]] = @ - pin[g]]
  /\ pin' = [pin EXCEPT ![g] = 0]
  /\ src' = [src EXCEPT ![g] = NoZone]
  /\ cand' = [cand EXCEPT ![g] = NoZone]
  /\ Loop(g, "rst")
  /\ UNCHANGED <<busy_, wp, capacity, lifetime, tokenVars, unpushed, eager,
                 devVars, best>>

----------------------------------------------------------------------------
WriterStep(t) ==
  \/ AllocateStart(t) \/ SkipBusy(t, "thr") \/ Acquire(t, "thr", "thrHold")
  \/ ThresholdInspect(t) \/ PutActive(t, "thrPut", "thr") \/ Leave(t, "thr", "wait")
  \/ TakeOpenToken(t) \/ WaitOpenToken(t)
  \/ SkipBusy(t, "best") \/ Acquire(t, "best", "bestHold")
  \/ BestInspect(t, "bestHold", "best", 0) \/ BestDone(t)
  \/ TryActive(t) \/ Spin(t)
  \/ SkipBusy(t, "fin") \/ Acquire(t, "fin", "finHold")
  \/ CheapestInspect(t) \/ CheapestFinish(t) \/ PutActive(t, "finPut", "spin")
  \/ SkipBusy(t, "empty") \/ Acquire(t, "empty", "emptyHold")
  \/ EmptyInspect(t) \/ EmptyNone(t) \/ ReturnOpenToken(t)
  \/ Append(t) \/ PushExtent(t) \/ CloseActiveZone(t)
  \/ ClosePutOpen(t) \/ PutActive(t, "putActive", "idle") \/ CloseError(t)

ResetStep(c) ==
  \/ SkipBusy(c, "rst") \/ Acquire(c, "rst", "rstHold")
  \/ ResetInspect(c) \/ PutActive(c, "rstPut", "rst") \/ Leave(c, "rst", "idle")

LogStep(c) ==
  \/ SkipBusy(c, "log") \/ Acquire(c, "log", "logHold")
  \/ LogInspect(c) \/ Leave(c, "log", "idle")

CollectorStep(g) ==
  \/ TakeMigrateZone(g)
  \/ SkipBusy(g, "match") \/ Acquire(g, "match", "matchHold")
  \/ BestInspect(g, "matchHold", "match", pin[g])
  \/ MigrateData(g) \/ ReleaseMigrateZone(g) \/ SyncFileExtents(g)

Next ==
  \/ \E t \in Writers : WriterStep(t) \/ SpuriousWakeup(t)
  \/ \E c \in Cleaners, z \in Zones : DeleteExtents(c, z)
  \/ \E c \in Cleaners : LogStart(c) \/ LogStep(c)
  \/ \E c \in Cleaners \cup Collectors : ResetStep(c)
  \/ \E g \in Collectors, z \in Zones : MigrateStart(g, z)
  \/ \E g \in Collectors : CollectorStep(g)
  \/ \E t \in Threads : NotifyOne(t)

Spec == Init /\ [][Next]_vars

(* Every thread inside an operation is scheduled again and a file that is   *)
(* being written is closed some day; nothing forces a new operation, and    *)
(* nobody may count on spurious wakeups.                                    *)
Fairness ==
  /\ \A t \in Writers : WF_vars(WriterStep(t) /\ pc[t] # "idle")
  /\ \A c \in Cleaners : WF_vars(ResetStep(c) \/ LogStep(c))
  /\ \A g \in Collectors : WF_vars(ResetStep(g) \/ CollectorStep(g))
  /\ \A t \in Threads : WF_vars(NotifyOne(t))

FairSpec == Spec /\ Fairness

----------------------------------------------------------------------------
HoldLabels == {"thrHold", "bestHold", "finHold", "emptyHold", "rstHold",
               "logHold", "matchHold"}
OpenLabels == {"best", "bestHold", "tryActive", "spin", "fin", "finHold", "finPut",
               "empty", "emptyHold", "putOpen", "writing", "putOpenFull"}
WriterLabels == OpenLabels \cup {"idle", "thr", "thrHold", "thrPut", "wait",
                                 "asleep", "putActive", "closeFailed"}
ResetLabels == {"idle", "rst", "rstHold", "rstPut"}
CleanerLabels == ResetLabels \cup {"log", "logHold"}
CollectorLabels == ResetLabels \cup {"take", "match", "matchHold", "migrated", "swapped"}

(* The variables have the types of the members and locals they model.       *)
ZoneTypes ==
  /\ wp \in [Zones -> Nat] /\ capacity \in [Zones -> Int]
  /\ used \in [Zones -> Int] /\ lifetime \in [Zones -> 0..5]
FlagTypes ==
  /\ busy_ \in [Zones -> BOOLEAN] /\ eager \in [Threads -> BOOLEAN]
  /\ migrating_ \in BOOLEAN /\ zone_deferred_status_ \in {"OK", "IOError"}
CountTypes ==
  /\ open_io_zones_ \in Int /\ active_io_zones_ \in Int /\ due \subseteq Threads
  /\ pin \in [Threads -> Nat] /\ unpushed \in [Threads -> Nat]
LocalTypes ==
  /\ scan \in [Threads -> Positions] /\ best \in [Threads -> Diffs]
  /\ cand \in [Threads -> Zones \cup {NoZone}] /\ src \in [Threads -> Zones \cup {NoZone}]
PcTypes ==
  /\ pc \in [Threads -> WriterLabels \cup CleanerLabels \cup CollectorLabels]
  /\ \A t \in Writers : pc[t] \in WriterLabels
  /\ \A t \in Cleaners : pc[t] \in CleanerLabels
  /\ \A t \in Collectors : pc[t] \in CollectorLabels
TypeOK == ZoneTypes /\ FlagTypes /\ CountTypes /\ LocalTypes /\ PcTypes

(* The zones a thread has acquired and not released.                        *)
HeldCand(t) == IF cand[t] = NoZone \/ pc[t] = "swapped" THEN {} ELSE {cand[t]}
HeldScan(t) == IF pc[t] \in HoldLabels THEN {scan[t]} ELSE {}
Held(t) == HeldCand(t) \cup HeldScan(t)

(* A zone is never in the hands of two threads, and busy_ is set exactly    *)
(* while a thread holds the zone: CheckRelease never finds it clear (the    *)
(* assert of Zone::CheckRelease) and no path forgets to release a zone.     *)
ZoneOwnership ==
  /\ \A t, u \in Threads : t # u => Held(t) \cap Held(u) = {}
  /\ \A t \in Threads : HeldCand(t) \cap HeldScan(t) = {}
  /\ \A z \in Zones : busy_[z] <=> \E t \in Threads : z \in Held(t)

(* The write resources of the device: the files being written never keep    *)
(* more zones open than WaitForOpenIOZoneToken grants, and all but the      *)
(* prioritized (WAL) ones leave one of them free.                           *)
OpenZonesBounded ==
  LET open == {t \in Writers : pc[t] = "writing"} IN
  /\ Cardinality(open) <= max_nr_open_io_zones_
  /\ Cardinality(open \ Wal) < max_nr_open_io_zones_

(* The zones that are neither empty nor full never exceed the active zone   *)
(* resources left for IO, whatever writers, deletions and migration do.     *)
ActiveZonesBounded == Cardinality(ActiveZones) <= max_nr_active_io_zones_

(* Threads with an active token for a zone that is not active (yet, or any  *)
(* more).                                                                   *)
OwesActive(t) ==
  \/ pc[t] \in {"empty", "emptyHold", "thrPut", "finPut", "rstPut",
                "putOpenFull", "putActive"}
  \/ t \in Writers /\ pc[t] = "writing" /\ cand[t] \notin ActiveZones

(* Each token is accounted for: "the callee is responsible for calling a    *)
(* PutActiveIOZoneToken to return the resource" (and PutOpenIOZoneToken).   *)
ActiveTokensConserved ==
  active_io_zones_ = Cardinality(ActiveZones)
                     + Cardinality({t \in Threads : OwesActive(t)})
OpenTokensConserved ==
  open_io_zones_ = Cardinality({t \in Writers : pc[t] \in OpenLabels})

(* Blocks of zone z that were written and are in no extent yet.             *)
UnpushedBy(t, z) == IF cand[t] = z THEN unpushed[t] ELSE 0
Unpushed(z) == MapThenSumSet(LAMBDA t : UnpushedBy(t, z), Writers)

(* used_capacity_ covers what open files and the collector still refer to   *)
(* and never exceeds what was written: the decrement of ClearExtents and    *)
(* SyncFileExtents cannot wrap around.                                      *)
UsedCapacityExact ==
  \A z \in Zones :
    /\ Pinned(z) <= used[z]
    /\ used[z] + Unpushed(z) <= wp[z]

(* Reset never takes away a block that a file refers to, not even one that  *)
(* was written and is in no extent yet.                                     *)
LiveDataKept ==
  [][\A z \in Zones : wp[z] > 0 /\ wp'[z] = 0 =>
        /\ ~IsUsed(z) /\ ~IsUsed(z)'
        /\ \A t \in Writers : pc[t] = "writing" => cand[t] # z]_vars

(* A writer does not sleep on while a token it may take is free, nobody is  *)
(* about to notify and nobody notified is about to run: "avoid              *)
(* non-priortized allocators from starving prioritized ones".               *)
NoLostWakeup ==
  \A t \in Asleep : open_io_zones_ < OpenLimit(t) =>
                     due # {} \/ \E u \in Writers : pc[u] = "wait"

(* Once nobody asks for a zone any more, every allocation under way ends    *)
(* and every writer is done: no spin in FinishCheapestIOZone for tokens     *)
(* that never come back, no sleeper left behind.                            *)
WritersDrain ==
  (<>[][\A t \in Writers : ~AllocateStart(t)]_vars)
     => <>[](\A t \in Writers : pc[t] = "idle")
=============================================================================
