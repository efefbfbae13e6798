------------------------------- MODULE ZoneFile -------------------------------
(***************************************************************************)
(* One file of ZenFS (io_zenfs.cc): its three append paths, sync and close, *)
(* the recovery of what was written behind the last metadata record, reads, *)
(* and the migration of its extents, down to single bytes of the zones.     *)
(*                                                                          *)
(* A file is written "direct" (whole blocks), "buffered" (blocks are padded *)
(* and the extent knows how many bytes count) or "sparse" (as buffered, and *)
(* every write starts with a header that has its length: WAL files).  The   *)
(* writer is one thread.  Beside it the collector migrates the closed file, *)
(* other files write to and reset the zones this one does not hold, and     *)
(* other threads roll the metadata log, which stores this file as it is.    *)
(* That a stored record is what a mount finds is the subject of MetaLog.    *)
(***************************************************************************)
EXTENDS Integers, Sequences, SequencesExt, FiniteSetsExt

CONSTANTS
  Zones,        \* the IO zones
  NoZone,
  ZoneSize,     \* bytes of a zone
  BlockSize,    \* bytes of a device block
  BufferSize,   \* bytes of the write buffer, header included
  Kinds,        \* the kinds of file considered
  Chunks,       \* sizes of the client's appends
  MaxBytes,     \* bound: bytes handed over
  MaxCrashes,   \* bound: crashes
  MaxMoves,     \* bound: migrations
  MaxOthers     \* bound: writes and resets of other files

ASSUME FileAssumption ==
  /\ NoZone \notin Zones /\ BlockSize \in Nat \ {0, 1}
  /\ ZoneSize \in Nat /\ ZoneSize % BlockSize = 0
  /\ BufferSize \in Nat \ {0} /\ BufferSize % BlockSize = 0
  /\ Kinds \subseteq {"direct", "buffered", "sparse"}
  /\ Chunks \subseteq Nat \ {0}
  /\ \A b \in {MaxBytes, MaxCrashes, MaxMoves, MaxOthers} : b \in Nat

NO_EXTENT == <<NoZone, 0>>

(* One byte of a zone: a numbered byte of the file, a zero byte, the header *)
(* of a sparse write (one byte here) or a byte of another file.             *)
Zero == 0
Header(length) == -length
Other == MaxBytes + 1
SPARSE_HEADER_SIZE == 1

VARIABLES
  kind,
  zone,            \* the bytes of each zone up to its write pointer
  extents_, active_zone_, extent_start_, extent_filepos_, file_size_,
  buffer,          \* the bytes in the write buffer, buffer_pos of them
  sent,            \* bytes taken over from the client
  left,            \* bytes of the client's append still to be taken
  pc, op,
  stored,          \* the file as the metadata log has it
  synced,          \* bytes the client was told are safe
  new_extent_list, todo, old_extents,   \* the migration
  crashes, moves, others

fileVars == <<extents_, active_zone_, extent_start_, extent_filepos_, file_size_>>
gcVars == <<new_extent_list, todo, old_extents>>
bounds == <<crashes, moves, others>>
vars == <<kind, zone, extents_, active_zone_, extent_start_, extent_filepos_, file_size_,
          buffer, sent, left, pc, op, stored, synced, new_extent_list, todo, old_extents,
          crashes, moves, others>>

----------------------------------------------------------------------------
wp(z) == Len(zone[z])
Capacity(z) == ZoneSize - wp(z)
RoundUp(n) == ((n + BlockSize - 1) \div BlockSize) * BlockSize
Zeros(n) == [i \in 1..n |-> Zero]
buffer_sz == IF kind = "sparse" THEN BufferSize - SPARSE_HEADER_SIZE ELSE BufferSize
HeaderSize == IF kind = "sparse" THEN SPARSE_HEADER_SIZE ELSE 0
ToZone(z, bytes) == zone' = [zone EXCEPT ![z] = @ \o bytes]

(* A read at the device ends at the write pointer.                          *)
Read(z, start, size) == SubSeq(zone[z], start + 1, Min({start + size, wp(z)}))

Extent(z, start, length) == [zone |-> z, start |-> start, length |-> length]
Bytes(e) == Read(e.zone, e.start, e.length)
Contents(exts) == FlattenSeq([i \in DOMAIN exts |-> Bytes(exts[i])])
Length(exts) == FoldLeft(LAMBDA sum, e : sum + e.length, 0, exts)

(* The record of the file in the metadata log: ZoneFile::EncodeTo.          *)
Record == [extents |-> extents_, start |-> extent_start_, size |-> file_size_]
PersistMetadata == stored' = Record

----------------------------------------------------------------------------
(* Recover: what a mount makes of a record and of the write pointers.       *)

(* The length in the header of a sparse write; a byte that is no header     *)
(* stands for a length no recovery accepts.                                 *)
DecodeLength(byte) == IF byte < 0 THEN -byte ELSE 0

(* Mutant: the next header is looked for behind the data, not behind the    *)
(* block the data ends in.                                                  *)
RecoverSparseExtentsUnaligned(z, start) ==
  LET walk[o \in 0..(2 * ZoneSize)] ==
        IF o >= wp(z) THEN <<>>
        ELSE LET length == DecodeLength(zone[z][o + 1])
             IN  <<Extent(z, o + SPARSE_HEADER_SIZE, length)>>
                 \o (IF length = 0 THEN <<>> ELSE walk[o + SPARSE_HEADER_SIZE + length])
  IN  walk[start]

RecoverSparseExtents(z, start) ==
  LET walk[o \in 0..(2 * ZoneSize)] ==
        IF o >= wp(z) THEN <<>>
        ELSE LET length == DecodeLength(zone[z][o + 1])
             IN  <<Extent(z, o + SPARSE_HEADER_SIZE, length)>>
                 \o (IF length = 0 THEN <<>> ELSE walk[o + RoundUp(SPARSE_HEADER_SIZE + length)])
  IN  walk[start]

(* Everything behind the active extent start belongs to the file.  An       *)
(* extent of length zero, or a write pointer before the start, makes the    *)
(* recovery fail.                                                           *)
Recover ==
  LET z == stored.start[1]
      start == stored.start[2]
      found == IF stored.start = NO_EXTENT \/ wp(z) <= start THEN <<>>
               ELSE IF kind = "sparse" THEN RecoverSparseExtents(z, start)
               ELSE <<Extent(z, start, wp(z) - start)>>
      exts == stored.extents \o found
  IN  [ok |-> /\ stored.start # NO_EXTENT => wp(z) >= start
              /\ \A i \in DOMAIN found : found[i].length > 0,
       extents |-> exts,
       size |-> IF found = <<>> THEN stored.size ELSE Length(exts)]

----------------------------------------------------------------------------
Init ==
  /\ kind \in Kinds
  /\ zone = [z \in Zones |-> <<>>]
  /\ extents_ = <<>> /\ active_zone_ = NoZone /\ extent_start_ = NO_EXTENT
  /\ extent_filepos_ = 0 /\ file_size_ = 0
  /\ buffer = <<>> /\ sent = 0 /\ left = 0
  /\ pc = "idle" /\ op = "none"
  /\ stored = [extents |-> <<>>, start |-> NO_EXTENT, size |-> 0]
  /\ synced = 0
  /\ new_extent_list = <<>> /\ todo = {} /\ old_extents = <<>>
  /\ crashes = 0 /\ moves = 0 /\ others = 0

----------------------------------------------------------------------------
(* Zones.                                                                   *)

(* AllocateNewZone: AllocateIOZone grants a zone that nobody holds and that *)
(* has room; the record that makes the active extent recoverable follows.   *)
AllocateNewZone ==
  /\ pc = "alloc"
  /\ \E z \in Zones :
       /\ Capacity(z) > 0
       /\ active_zone_' = z /\ extent_start_' = <<z, wp(z)>>
  /\ extent_filepos_' = file_size_
  /\ pc' = "allocated"
  /\ UNCHANGED <<kind, zone, extents_, file_size_, buffer, sent, left, op, stored, synced,
                 gcVars, bounds>>

Resume == IF kind = "direct" THEN "direct" ELSE "flush"

PersistNewZone ==
  /\ pc = "allocated"
  /\ PersistMetadata
  /\ pc' = Resume
  /\ UNCHANGED <<kind, zone, fileVars, buffer, sent, left, op, synced, gcVars, bounds>>

(* What the file has written to its zone behind its last extent.            *)
Unpushed == IF active_zone_ = NoZone THEN 0 ELSE file_size_ - extent_filepos_

PushExtent ==
  IF Unpushed = 0
  THEN UNCHANGED <<extents_, extent_start_, extent_filepos_>>
  ELSE /\ extents_' = Append(extents_, Extent(active_zone_, extent_start_[2], Unpushed))
       /\ extent_start_' = <<active_zone_, wp(active_zone_)>>
       /\ extent_filepos_' = file_size_

----------------------------------------------------------------------------
(* Appends.                                                                 *)

AppendStart(n) ==
  /\ pc = "idle" /\ sent + n <= MaxBytes
  /\ kind = "direct" => n % BlockSize = 0
  /\ left' = n /\ op' = "append"
  /\ pc' = IF kind # "direct" THEN "buffer" ELSE IF active_zone_ = NoZone THEN "alloc" ELSE "direct"
  /\ UNCHANGED <<kind, zone, fileVars, buffer, sent, stored, synced, gcVars, bounds>>

Fresh(n) == [i \in 1..n |-> sent + i]

(* ZoneFile::Append writes what fits.                                       *)
DirectWrite ==
  /\ pc = "direct" /\ Capacity(active_zone_) > 0
  /\ LET wr_size == Min({left, Capacity(active_zone_)}) IN
       /\ ToZone(active_zone_, Fresh(wr_size))
       /\ sent' = sent + wr_size
       /\ file_size_' = file_size_ + wr_size
       /\ left' = left - wr_size
       /\ pc' = IF left = wr_size THEN "idle" ELSE "direct"
  /\ UNCHANGED <<kind, extents_, active_zone_, extent_start_, extent_filepos_, buffer, op,
                 stored, synced, gcVars, bounds>>

DirectFull ==
  /\ pc = "direct" /\ Capacity(active_zone_) = 0
  /\ PushExtent
  /\ active_zone_' = NoZone
  /\ pc' = "alloc"
  /\ UNCHANGED <<kind, zone, file_size_, buffer, sent, left, op, stored, synced, gcVars, bounds>>

(* BufferedWrite copies what fits into the buffer and flushes a full one.   *)
BufferedWrite ==
  /\ pc = "buffer" /\ Len(buffer) < buffer_sz
  /\ LET to_buffer == Min({left, buffer_sz - Len(buffer)}) IN
       /\ buffer' = buffer \o Fresh(to_buffer)
       /\ sent' = sent + to_buffer
       /\ left' = left - to_buffer
       /\ pc' = IF left = to_buffer THEN "idle" ELSE "buffer"
  /\ UNCHANGED <<kind, zone, fileVars, op, stored, synced, gcVars, bounds>>

FlushFrom == IF active_zone_ = NoZone THEN "alloc" ELSE "flush"

BufferFull ==
  /\ pc = "buffer" /\ Len(buffer) = buffer_sz
  /\ pc' = FlushFrom
  /\ UNCHANGED <<kind, zone, fileVars, buffer, sent, left, op, stored, synced, gcVars, bounds>>

(* One turn of the loops of BufferedAppend and SparseAppend: a write of     *)
(* header, data and padding, which ends with the zone at the latest ...     *)
Room == ZoneSize - extent_start_[2]

(* Mutant: the write does not end with the zone.                            *)
WriteSizeUnlimited == HeaderSize + Len(buffer)

WriteSize == Min({HeaderSize + Len(buffer), Room})
ExtentLength == WriteSize - HeaderSize

FlushWrite ==
  /\ pc = "flush" /\ buffer # <<>>
  /\ ToZone(active_zone_,
            (IF kind = "sparse" THEN <<Header(ExtentLength)>> ELSE <<>>)
            \o SubSeq(buffer, 1, ExtentLength) \o Zeros(RoundUp(WriteSize) - WriteSize))
  /\ pc' = "written"
  /\ UNCHANGED <<kind, fileVars, buffer, sent, left, op, stored, synced, gcVars, bounds>>

(* ... and its extent.  A full zone is closed and the next one allocated at *)
(* once, whether or not there is data left.                                 *)
FlushAccount ==
  /\ pc = "written"
  /\ extents_' = Append(extents_, Extent(active_zone_, extent_start_[2] + HeaderSize, ExtentLength))
  /\ file_size_' = file_size_ + ExtentLength
  /\ buffer' = SubSeq(buffer, ExtentLength + 1, Len(buffer))
  /\ extent_start_' = <<active_zone_, wp(active_zone_)>>
  /\ active_zone_' = IF Capacity(active_zone_) = 0 THEN NoZone ELSE active_zone_
  /\ pc' = IF Capacity(active_zone_) = 0 THEN "alloc" ELSE "flush"
  /\ UNCHANGED <<kind, zone, extent_filepos_, sent, left, op, stored, synced, gcVars, bounds>>

FlushDone ==
  /\ pc = "flush" /\ buffer = <<>>
  /\ pc' = IF op = "append" THEN "buffer" ELSE "synced"
  /\ UNCHANGED <<kind, zone, fileVars, buffer, sent, left, op, stored, synced, gcVars, bounds>>

----------------------------------------------------------------------------
(* Sync, Fsync and Close.                                                   *)

(* DataSync flushes the buffer or pushes an extent for the direct writes.   *)
SyncStart(kindOfSync) ==
  /\ pc = "idle"
  /\ op' = kindOfSync
  /\ IF kind = "direct"
     THEN PushExtent /\ pc' = "synced"
     ELSE /\ pc' = IF buffer = <<>> THEN "synced" ELSE FlushFrom
          /\ UNCHANGED <<extents_, extent_start_, extent_filepos_>>
  /\ UNCHANGED <<kind, zone, active_zone_, file_size_, buffer, sent, left, stored, synced,
                 gcVars, bounds>>

(* It persists the new extent of a buffered file, whose size the block      *)
(* aligned write pointer does not give away.                                *)
DataSynced ==
  /\ pc = "synced"
  /\ IF kind = "buffered" THEN PersistMetadata ELSE UNCHANGED stored
  /\ pc' = "datasynced"
  /\ UNCHANGED <<kind, zone, fileVars, buffer, sent, left, op, synced, gcVars, bounds>>

(* Sync is done; Fsync persists the record unless DataSync has.             *)
SyncReturn ==
  /\ pc = "datasynced" /\ op \in {"sync", "fsync"}
  /\ IF op = "fsync" /\ kind # "buffered" THEN PersistMetadata ELSE UNCHANGED stored
  /\ synced' = file_size_
  /\ pc' = "idle" /\ op' = "none"
  /\ UNCHANGED <<kind, zone, fileVars, buffer, sent, left, gcVars, bounds>>

(* CloseWR: there is no active extent any more, which is recorded before    *)
(* the zone is given back.                                                  *)
CloseMark ==
  /\ pc = "datasynced" /\ op = "close"
  /\ extent_start_' = NO_EXTENT
  /\ pc' = "closing"
  /\ UNCHANGED <<kind, zone, extents_, active_zone_, extent_filepos_, file_size_, buffer, sent,
                 left, op, stored, synced, gcVars, bounds>>

CloseWR ==
  /\ pc = "closing"
  /\ PersistMetadata
  /\ active_zone_' = NoZone
  /\ synced' = file_size_
  /\ pc' = "closed" /\ op' = "none"
  /\ UNCHANGED <<kind, zone, extents_, extent_start_, extent_filepos_, file_size_, buffer, sent,
                 left, gcVars, bounds>>

(* OpenWritableFile with reopen.                                            *)
Reopen ==
  /\ pc = "closed"
  /\ pc' = "idle"
  /\ UNCHANGED <<kind, zone, fileVars, buffer, sent, left, op, stored, synced, gcVars, bounds>>

----------------------------------------------------------------------------
(* The collector.                                                           *)

(* MigrateFileExtents of a closed file; GCWorker asks for table files only, *)
(* which are never sparse.                                                  *)
MigrateStart(which) ==
  /\ pc = "closed" /\ kind # "sparse" /\ moves < MaxMoves
  /\ which # {} /\ which \subseteq DOMAIN extents_
  /\ new_extent_list' = extents_ /\ todo' = which
  /\ moves' = moves + 1
  /\ pc' = "migrate"
  /\ UNCHANGED <<kind, zone, fileVars, buffer, sent, left, op, stored, synced, old_extents,
                 crashes, others>>

(* TakeMigrateZone finds a zone in use with room for the length, MigrateData*)
(* copies whole blocks.  Without a zone the extent stays where it is.       *)
MigrateExtent ==
  LET i == Min(todo)
      e == extents_[i]
  IN  /\ pc = "migrate" /\ todo # {}
      /\ \/ \E z \in Zones :
              /\ wp(z) > 0 /\ Capacity(z) >= e.length
              /\ ToZone(z, Read(e.zone, e.start, RoundUp(e.length)))
              /\ new_extent_list' = [new_extent_list EXCEPT ![i] = Extent(z, wp(z), e.length)]
         \/ UNCHANGED <<zone, new_extent_list>>
      /\ todo' = todo \ {i}
      /\ UNCHANGED <<kind, fileVars, buffer, sent, left, pc, op, stored, synced, old_extents,
                     bounds>>

(* Mutant: the old extents are given up before the new ones are recorded.   *)
ReplaceExtentListEarly ==
  /\ pc = "migrate" /\ todo = {}
  /\ extents_' = new_extent_list /\ old_extents' = <<>> /\ new_extent_list' = <<>>
  /\ pc' = "replaced"
  /\ UNCHANGED <<kind, zone, active_zone_, extent_start_, extent_filepos_, file_size_, buffer,
                 sent, left, op, stored, synced, todo, bounds>>

ReplaceExtentList ==
  /\ pc = "migrate" /\ todo = {}
  /\ extents_' = new_extent_list /\ old_extents' = extents_ /\ new_extent_list' = <<>>
  /\ pc' = "replaced"
  /\ UNCHANGED <<kind, zone, active_zone_, extent_start_, extent_filepos_, file_size_, buffer,
                 sent, left, op, stored, synced, todo, bounds>>

(* SyncFileExtents persists the new list, then used_capacity_ of the old    *)
(* zones goes down and they may be reset.                                   *)
SyncFileExtents ==
  /\ pc = "replaced"
  /\ PersistMetadata
  /\ old_extents' = <<>>
  /\ pc' = "closed"
  /\ UNCHANGED <<kind, zone, fileVars, buffer, sent, left, op, synced, new_extent_list, todo,
                 bounds>>

----------------------------------------------------------------------------
(* Other files and other threads.                                           *)

Mounted == pc \notin {"down", "mounting"}

Pinned == {e.zone : e \in Range(extents_ \o new_extent_list \o old_extents)} \cup {active_zone_}

OtherAppend(z) ==
  /\ Mounted /\ others < MaxOthers
  /\ z # active_zone_ /\ Capacity(z) > 0
  /\ ToZone(z, [i \in 1..BlockSize |-> Other])
  /\ others' = others + 1
  /\ UNCHANGED <<kind, fileVars, buffer, sent, left, pc, op, stored, synced, gcVars, crashes, moves>>

(* ResetUnusedIOZones of a zone without used capacity: the data of other    *)
(* files in it is deleted, and there is none of this file.                  *)
ResetUnusedIOZone(z) ==
  /\ Mounted /\ others < MaxOthers
  /\ z \notin Pinned /\ wp(z) > 0
  /\ zone' = [zone EXCEPT ![z] = <<>>]
  /\ others' = others + 1
  /\ UNCHANGED <<kind, fileVars, buffer, sent, left, pc, op, stored, synced, gcVars, crashes, moves>>

(* Another thread rolls the metadata log: its snapshot has this file.       *)
WriteSnapshot ==
  /\ Mounted /\ stored # Record
  /\ PersistMetadata
  /\ UNCHANGED <<kind, zone, fileVars, buffer, sent, left, pc, op, synced, gcVars, bounds>>

----------------------------------------------------------------------------
(* Crash and mount.                                                         *)

Crash ==
  /\ pc # "down" /\ crashes < MaxCrashes
  /\ crashes' = crashes + 1
  /\ extents_' = <<>> /\ active_zone_' = NoZone /\ extent_start_' = NO_EXTENT
  /\ extent_filepos_' = 0 /\ file_size_' = 0
  /\ buffer' = <<>> /\ left' = 0 /\ op' = "none" /\ pc' = "down"
  /\ new_extent_list' = <<>> /\ todo' = {} /\ old_extents' = <<>>
  /\ synced' = IF Recover.ok THEN Length(Recover.extents) ELSE 0
  /\ UNCHANGED <<kind, zone, sent, stored, moves, others>>

(* Repair recovers the file, the roll at the end of Mount stores it.        *)
Repair ==
  /\ pc = "down" /\ Recover.ok
  /\ extents_' = Recover.extents /\ file_size_' = Recover.size
  /\ pc' = "mounting"
  /\ UNCHANGED <<kind, zone, active_zone_, extent_start_, extent_filepos_, buffer, sent, left, op,
                 stored, synced, gcVars, bounds>>

MountRoll ==
  /\ pc = "mounting"
  /\ PersistMetadata
  /\ pc' = "closed"
  /\ UNCHANGED <<kind, zone, fileVars, buffer, sent, left, op, synced, gcVars, bounds>>

----------------------------------------------------------------------------
Writer ==
  \/ \E n \in Chunks : AppendStart(n)
  \/ DirectWrite \/ DirectFull
  \/ BufferedWrite \/ BufferFull \/ FlushWrite \/ FlushAccount \/ FlushDone
  \/ AllocateNewZone \/ PersistNewZone
  \/ \E o \in {"sync", "fsync", "close"} : SyncStart(o)
  \/ DataSynced \/ SyncReturn \/ CloseMark \/ CloseWR \/ Reopen

Collector ==
  \/ \E which \in SUBSET DOMAIN extents_ : MigrateStart(which)
  \/ MigrateExtent \/ ReplaceExtentList \/ SyncFileExtents

Others == (\E z \in Zones : OtherAppend(z) \/ ResetUnusedIOZone(z)) \/ WriteSnapshot

Next == Writer \/ Collector \/ Others \/ Crash \/ Repair \/ MountRoll

Spec == Init /\ [][Next]_vars

----------------------------------------------------------------------------
(* Reading.                                                                 *)

(* GetExtent: the extent an offset falls into, and the offset within it.    *)
GetExtent(offset) ==
  LET find[i \in 1..(Len(extents_) + 1)] ==
        IF i = 1 THEN offset ELSE find[i - 1] - extents_[i - 1].length
      hits == {i \in DOMAIN extents_ : find[i] < extents_[i].length}
  IN  IF hits = {} THEN <<0, 0>> ELSE <<Min(hits), find[Min(hits)]>>

(* Mutant: a read goes on behind the end of its first extent.               *)
PositionedReadOver(offset, n) ==
  LET r_sz == IF offset + n > file_size_ THEN file_size_ - offset ELSE n
      at == GetExtent(offset)
  IN  IF at[1] = 0 THEN <<>>
      ELSE Read(extents_[at[1]].zone, extents_[at[1]].start + at[2], r_sz)

(* PositionedRead reads extent by extent, no further than file_size_ and no *)
(* further than there are extents.                                          *)
PositionedRead(offset, n) ==
  LET r_sz == IF offset + n > file_size_ THEN file_size_ - offset ELSE n
      from[read \in 0..r_sz] ==
        LET at == GetExtent(offset + read)
            e == extents_[at[1]]
            pread_sz == Min({r_sz - read, e.length - at[2]})
        IN  IF read = r_sz \/ at[1] = 0 THEN <<>>
            ELSE Read(e.zone, e.start + at[2], pread_sz) \o from[read + pread_sz]
  IN  IF offset >= file_size_ THEN <<>> ELSE from[0]

----------------------------------------------------------------------------
(* Properties.                                                              *)

(* The contents of the file: its extents, the direct writes behind them and *)
(* the write buffer; while the device is not mounted, what Recover finds.   *)
Data ==
  IF pc = "down" THEN IF Recover.ok THEN Contents(Recover.extents) ELSE <<>>
  ELSE Contents(extents_)
       \o (IF kind = "direct" /\ Unpushed > 0
           THEN Bytes(Extent(active_zone_, extent_start_[2], Unpushed)) ELSE <<>>)
       \o buffer

(* The variables have their types.                                          *)
TypeOK ==
  /\ kind \in Kinds
  /\ \A z \in Zones : Range(zone[z]) \subseteq -MaxBytes..Other /\ Len(zone[z]) <= ZoneSize
  /\ active_zone_ \in Zones \cup {NoZone}
  /\ extent_start_ \in (Zones \cup {NoZone}) \X (0..ZoneSize)
  /\ Len(buffer) <= buffer_sz
  /\ sent \in 0..MaxBytes /\ left \in 0..MaxBytes

(* The assertions of PushExtent and MigrateData and the error cases of      *)
(* Recover: extents start at block boundaries and lie before the write      *)
(* pointer, so do the active extent and what is stored of it.               *)
AssertionsHold ==
  /\ file_size_ >= extent_filepos_
  /\ active_zone_ # NoZone /\ kind = "direct" => Unpushed <= wp(active_zone_) - extent_start_[2]
  /\ \A e \in Range(extents_) :
       (e.start - HeaderSize) % BlockSize = 0 /\ e.start + e.length <= wp(e.zone)
  /\ Recover.ok

(* PositionedRead returns the bytes of the file at the offset, for any      *)
(* offset and length, across extents and up to the end of what was synced   *)
(* or flushed.                                                              *)
ReadsTheContents ==
  pc # "down" =>
    \E all \in {Contents(extents_)} :
      \A offset \in 0..file_size_ : \A n \in 1..(file_size_ - offset + 1) :
        PositionedRead(offset, n) = SubSeq(all, offset + 1, Min({offset + n, Len(all)}))

(* The file keeps the promise of AppendFile: whatever the writer, the       *)
(* collector, other files and crashes do, its contents are the bytes        *)
(* appended, in order; a crash cuts off no synced byte, and adds nothing    *)
(* but the padding of the last block of a buffered file.                    *)
Promise == INSTANCE AppendFile WITH
  data <- Data, safe <- synced, sent <- sent,
  slack <- IF kind = "buffered" THEN BlockSize - 1 ELSE 0

KeepsPromise == Promise!Spec
=============================================================================
