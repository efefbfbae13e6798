-------------------------------- MODULE MetaLog --------------------------------
(***************************************************************************)
(* The metadata log of ZenFS (fs_zenfs.cc): records of files appended to a  *)
(* zone, the roll to another metadata zone when the zone is full, and the   *)
(* mount that reads the log back after a crash.                             *)
(*                                                                          *)
(* All operations on metadata hold files_mtx_, so one of them runs at a     *)
(* time: pc is where it stands.  Writers push extents and the garbage       *)
(* collector swaps extent lists without that mutex.  A record occupies one  *)
(* or more blocks; the device writes one block at a time and a crash can    *)
(* come between any two.                                                    *)
(***************************************************************************)
EXTENDS Integers, Sequences, FiniteSets, Functions

CONSTANTS
  NrMetaZones,    \* metadata zones are 1..NrMetaZones, in vector order
  ZoneBlocks,     \* capacity of a metadata zone
  SnapBlocks,     \* blocks of a snapshot record
  UpdateBlocks,   \* blocks of a file update or replace record
  Files,          \* file ids, each used for one file
  InitialFiles,   \* the files on the device at the start, one extent each
  Ops,            \* which operations the clients call
  OneThread,      \* the clients have one thread
  Faults,         \* the device operations that may fail
  MaxExtents,     \* bound: extents ever pushed to a file
  MaxMoves,       \* bound: migrations of a file
  MaxSeq,         \* bound: client operations start while sequence_ is below
  MaxCrashes      \* bound: crashes and failed mounts

ASSUME LogAssumption ==
  /\ NrMetaZones \in Nat \ {0, 1}
  /\ SnapBlocks \in Nat \ {0} /\ UpdateBlocks \in Nat \ {0}
  /\ ZoneBlocks \in Nat /\ ZoneBlocks > 1 + SnapBlocks
  /\ InitialFiles \subseteq Files /\ OneThread \in BOOLEAN
  /\ Ops \subseteq {"create", "sync", "delete", "migrate", "mkfs"}
  /\ Faults \subseteq {"write", "reset", "finish"}
  /\ MaxExtents \in Nat \ {0} /\ MaxMoves \in Nat /\ MaxSeq \in Nat /\ MaxCrashes \in Nat

Zones == 1..NrMetaZones
NoZone == 0
NoFile == "none"

VARIABLES
  log,          \* blocks of each metadata zone, on the device
  finished,     \* zones whose write pointer was moved to their end
  busy_,        \* busy_ of the metadata zones
  files_,       \* files in the table of the file system
  extents_,     \* extents of each file, <<number, location>>, in memory
  nr_synced_extents_,
  wr,           \* who has a file open for writing, and how far migration is
  meta_log_, old_meta_log, sequence_,
  pc, op, file, rec, left,     \* the operation that holds files_mtx_
  crashes,
  born, moved,  \* how many extents a file has got, how often it was moved
  made,         \* files the clients were told exist
  acked,        \* extents the clients were told are stored
  gone          \* files the clients were told are deleted

devVars == <<log, finished>>
memVars == <<files_, extents_, nr_synced_extents_, wr>>
logVars == <<busy_, meta_log_, old_meta_log, sequence_>>
opVars == <<op, file>>
told == <<made, acked, gone>>
bounds == <<crashes, born, moved>>
vars == <<log, finished, busy_, files_, extents_, nr_synced_extents_, wr, meta_log_,
          old_meta_log, sequence_, pc, op, file, rec, left, crashes, born, moved,
          made, acked, gone>>

----------------------------------------------------------------------------
(* Records.                                                                 *)

Cont == [k |-> "cont"]      \* a further block of a record
NoRec == [k |-> "none"]
EndRec == [k |-> "end"]
Size(k) ==
  CASE k = "snap" -> SnapBlocks
    [] k \in {"upd", "rep"} -> UpdateBlocks
    [] OTHER -> 1

Super(seq) == [k |-> "super", seq |-> seq]
EncodeSnapshotTo == [k |-> "snap", table |-> [f \in files_ |-> extents_[f]]]
(* Mutant: the first extent behind the synced ones is left out.             *)
EncodeUpdateToSkips(kind, f) ==
  [k |-> kind, file |-> f,
   exts |-> SubSeq(extents_[f], nr_synced_extents_[f] + 2, Len(extents_[f]))]

EncodeUpdateTo(kind, f) ==
  [k |-> kind, file |-> f,
   exts |-> SubSeq(extents_[f], nr_synced_extents_[f] + 1, Len(extents_[f]))]
EncodeFileDeletionTo(f) == [k |-> "del", file |-> f]

GetCapacityLeft(z) == IF finished[z] THEN 0 ELSE ZoneBlocks - Len(log[z])

----------------------------------------------------------------------------
(* Reading the log back: RecoverFrom and the first half of Mount.           *)

EndAt(l) ==
  LET ends == {i \in DOMAIN l : l[i].k = "end"}
  IN  IF ends = {} THEN Len(l) + 1 ELSE CHOOSE i \in ends : \A j \in ends : i <= j

Body(l) == SubSeq(l, 1, EndAt(l) - 1)

(* A record with missing blocks fails its checksum.  So does what is read   *)
(* behind the last record of a zone that was finished without end record.   *)
Torn(l, i) == \E j \in (i + 1)..(i + Size(l[i].k) - 1) : j > Len(l) \/ l[j].k # "cont"

Unreadable(l, full) ==
  \/ \E i \in DOMAIN Body(l) : l[i].k # "cont" /\ Torn(l, i)
  \/ full /\ EndAt(l) > Len(l)

(* The effect of one record on the table: DecodeSnapshotFrom,               *)
(* DecodeFileUpdateFrom with MergeUpdate, DecodeFileDeletionFrom.           *)
Put(table, f, exts) == [g \in DOMAIN table \cup {f} |-> IF g = f THEN exts ELSE table[g]]

Replay(st, r) ==
  CASE r.k = "snap" -> [st EXCEPT !.found = TRUE, !.table = r.table]
    [] r.k = "upd" -> [st EXCEPT !.table = Put(@, r.file,
                         IF r.file \in DOMAIN @ THEN @[r.file] \o r.exts ELSE r.exts)]
    [] r.k = "rep" -> [st EXCEPT !.table = Put(@, r.file, r.exts)]
    [] r.k = "del" -> IF r.file \in DOMAIN st.table
                      THEN [st EXCEPT !.table = Restrict(@, DOMAIN @ \ {r.file})]
                      ELSE [st EXCEPT !.ok = FALSE]
    [] OTHER -> st

(* The records of a zone, one after the other.                              *)
Replayed(body, start) ==
  LET st[i \in 0..Len(body)] == IF i = 0 THEN start ELSE Replay(st[i - 1], body[i])
  IN  st[Len(body)]

NoTable == [f \in {} |-> <<>>]

(* Corruption wins over a snapshot that was not found: RecoverFrom returns  *)
(* at the first record it cannot use.                                       *)
RecoverFrom(l, full) ==
  LET end == Replayed(Body(l), [ok |-> ~Unreadable(l, full), found |-> FALSE, table |-> NoTable])
  IN  [status |-> IF ~end.ok THEN "Corruption" ELSE IF ~end.found THEN "NotFound" ELSE "OK",
       table |-> end.table]

(* A zone that starts with an unreadable record is passed over; one that    *)
(* starts with another record than a superblock fails the mount.            *)
HasSuperblock(z) == log[z] # <<>> /\ log[z][1].k = "super"
Foreign(z) == log[z] # <<>> /\ ~HasSuperblock(z) /\ ~Torn(log[z], 1)

(* Descending sequence numbers; among equals the later zone comes first.    *)
Newer(y, z) ==
  log[y][1].seq > log[z][1].seq \/ (log[y][1].seq = log[z][1].seq /\ y > z)

(* What Mount finds: the newest zone that has a snapshot, or none.  A zone  *)
(* it cannot read ends the mount.                                           *)
Recovered(z) ==
  LET result == RecoverFrom(log[z], finished[z])
  IN  [ok |-> result.status = "OK", zone |-> z, table |-> result.table]

Recovery ==
  LET found == {z \in Zones :
                  HasSuperblock(z) /\ RecoverFrom(log[z], finished[z]).status # "NotFound"}
  IN  IF found = {} \/ \E z \in Zones : Foreign(z)
      THEN [ok |-> FALSE, zone |-> NoZone, table |-> NoTable]
      ELSE CHOOSE r \in {Recovered(z) : z \in found} :
             \A y \in found \ {r.zone} : Newer(r.zone, y)

----------------------------------------------------------------------------
(* Init: a device that MkFS formatted, or that was mounted, given some      *)
(* files and mounted once more.                                             *)

Formatted ==
  <<Super(IF InitialFiles = {} THEN 1 ELSE 3),
    [k |-> "snap", table |-> [f \in InitialFiles |-> << <<1, 0>> >>]]>>
  \o [i \in 1..(SnapBlocks - 1) |-> Cont]

Init ==
  /\ log = [z \in Zones |-> IF z = 1 THEN Formatted ELSE <<>>]
  /\ finished = [z \in Zones |-> FALSE]
  /\ busy_ = [z \in Zones |-> FALSE]
  /\ files_ = {}
  /\ extents_ = [f \in Files |-> <<>>]
  /\ nr_synced_extents_ = [f \in Files |-> 0]
  /\ wr = [f \in Files |-> "closed"]
  /\ meta_log_ = NoZone /\ old_meta_log = NoZone /\ sequence_ = 0
  /\ pc = "down" /\ op = "none" /\ file = NoFile /\ rec = NoRec /\ left = 0
  /\ crashes = 0
  /\ born = [f \in Files |-> IF f \in InitialFiles THEN 1 ELSE 0]
  /\ moved = [f \in Files |-> 0]
  /\ made = InitialFiles
  /\ acked = [f \in Files |-> IF f \in InitialFiles THEN << <<1, 0>> >> ELSE <<>>]
  /\ gone = {}

----------------------------------------------------------------------------
(* What writers and the collector do without files_mtx_.                    *)

Alone == OneThread => pc = "idle"

(* PushExtent, unless the writer itself waits in PersistMetadata.  Extents  *)
(* of a file that is no longer in the table reach no record.                *)
PushExtent(f) ==
  /\ pc # "down" /\ Alone
  /\ f \in files_ /\ wr[f] = "open" /\ born[f] < MaxExtents
  /\ ~(pc # "idle" /\ op \in {"sync", "close"} /\ file = f)
  /\ extents_' = [extents_ EXCEPT ![f] = Append(@, <<born[f] + 1, 0>>)]
  /\ born' = [born EXCEPT ![f] = @ + 1]
  /\ UNCHANGED <<devVars, files_, nr_synced_extents_, wr, logVars, pc, opVars, rec, left,
                 crashes, moved, told>>

(* MigrateFileExtents: GetFile, TryAcquireWRLock; the data is copied.       *)
MigrateStart(f) ==
  /\ "migrate" \in Ops /\ pc = "idle"
  /\ f \in files_ /\ wr[f] = "closed" /\ extents_[f] # <<>> /\ moved[f] < MaxMoves
  /\ wr' = [wr EXCEPT ![f] = "gc"]
  /\ moved' = [moved EXCEPT ![f] = @ + 1]
  /\ UNCHANGED <<devVars, files_, extents_, nr_synced_extents_, logVars, pc, opVars, rec, left,
                 crashes, born, told>>

(* SyncFileExtents before it takes files_mtx_.                              *)
ReplaceExtentList(f) ==
  /\ pc # "down" /\ wr[f] = "gc"
  /\ wr' = [wr EXCEPT ![f] = "swapped"]
  /\ extents_' = [extents_ EXCEPT ![f] = [i \in DOMAIN @ |-> <<@[i][1], moved[f]>>]]
  /\ UNCHANGED <<devVars, files_, nr_synced_extents_, logVars, pc, opVars, rec, left, bounds, told>>

MetadataUnsynced(f) ==
  /\ pc # "down" /\ wr[f] = "swapped"
  /\ wr' = [wr EXCEPT ![f] = "unsynced"]
  /\ nr_synced_extents_' = [nr_synced_extents_ EXCEPT ![f] = 0]
  /\ UNCHANGED <<devVars, files_, extents_, logVars, pc, opVars, rec, left, bounds, told>>

----------------------------------------------------------------------------
(* Operations that take files_mtx_ and persist a record.                    *)

Begin(kind, f, r) ==
  /\ pc' = "add" /\ op' = kind /\ file' = f
  /\ rec' = r /\ left' = Size(r.k)

Idle == pc = "idle" /\ sequence_ < MaxSeq

(* OpenWritableFile: the creation is persisted, then the file is inserted.  *)
CreateStart(f) ==
  /\ "create" \in Ops /\ Idle
  /\ f \notin files_ \cup made \cup gone /\ wr[f] = "closed"
  /\ Begin("create", f, EncodeUpdateTo("upd", f))
  /\ UNCHANGED <<devVars, memVars, logVars, bounds, told>>

(* OpenWritableFile with reopen: AcquireWRLock waits, under files_mtx_, for *)
(* the collector to let go of the file.  Clients open a file once.          *)
Reopen(f) ==
  /\ "sync" \in Ops /\ pc = "idle"
  /\ f \in files_ /\ wr[f] # "open"
  /\ pc' = "reopen" /\ op' = "reopen" /\ file' = f
  /\ UNCHANGED <<devVars, memVars, logVars, rec, left, bounds, told>>

AcquireWRLock ==
  /\ pc = "reopen" /\ wr[file] = "closed"
  /\ wr' = [wr EXCEPT ![file] = "open"]
  /\ pc' = "idle" /\ op' = "none" /\ file' = NoFile
  /\ UNCHANGED <<devVars, files_, extents_, nr_synced_extents_, logVars, rec, left, bounds, told>>

(* Fsync and Close: PersistMetadata of a file that is not deleted.          *)
SyncStart(f, kind) ==
  /\ "sync" \in Ops /\ Idle
  /\ f \in files_ /\ wr[f] = "open"
  /\ Begin(kind, f, EncodeUpdateTo("upd", f))
  /\ UNCHANGED <<devVars, memVars, logVars, bounds, told>>

(* SyncFileMetadata(replace) of the collector; a deleted file is skipped.   *)
ReplaceStart(f) ==
  /\ pc = "idle" /\ wr[f] = "unsynced"
  /\ IF f \in files_
     THEN Begin("replace", f, EncodeUpdateTo("rep", f)) /\ UNCHANGED wr
     ELSE wr' = [wr EXCEPT ![f] = "closed"] /\ UNCHANGED <<pc, opVars, rec, left>>
  /\ UNCHANGED <<devVars, files_, extents_, nr_synced_extents_, logVars, bounds, told>>

(* Mutant: the file leaves the table only when the record is stored.        *)
DeleteStartKeeps(f) ==
  /\ "delete" \in Ops /\ Idle
  /\ f \in files_ \ gone
  /\ made' = made \ {f}
  /\ Begin("delete", f, EncodeFileDeletionTo(f))
  /\ UNCHANGED <<devVars, memVars, logVars, bounds, acked, gone>>

(* DeleteFileNoLock: the file leaves the table first.                       *)
DeleteStart(f) ==
  /\ "delete" \in Ops /\ Idle
  /\ f \in files_
  /\ files_' = files_ \ {f}
  /\ made' = made \ {f}
  /\ Begin("delete", f, EncodeFileDeletionTo(f))
  /\ UNCHANGED <<devVars, extents_, nr_synced_extents_, wr, logVars, bounds, acked, gone>>

----------------------------------------------------------------------------
(* AddRecord, to the zone the operation writes to.                          *)

Target == IF pc = "end" THEN old_meta_log ELSE meta_log_
Writing == pc \in {"add", "end", "super", "snap"}

(* Mutant: the last record may run over the end of the zone.                *)
NoSpaceOffByOne == left = Size(rec.k) /\ GetCapacityLeft(Target) < Size(rec.k) - 1

NoSpace == left = Size(rec.k) /\ GetCapacityLeft(Target) < Size(rec.k)

After(label) ==
  CASE label = "add" -> "ack"
    [] label = "end" -> "finish"
    [] label = "super" -> "encode"
    [] label = "snap" -> "synced"

WriteBlock ==
  /\ Writing /\ ~NoSpace
  /\ log' = [log EXCEPT ![Target] = Append(@, IF left = Size(rec.k) THEN rec ELSE Cont)]
  /\ left' = left - 1
  /\ pc' = IF left = 1 THEN After(pc) ELSE pc
  /\ UNCHANGED <<finished, memVars, logVars, opVars, rec, bounds, told>>

(* PersistRecord rolls when its record does not fit; inside the roll an     *)
(* error ends the operation.                                                *)
RecordNoSpace ==
  /\ Writing /\ NoSpace
  /\ pc' = IF pc = "add" THEN "roll" ELSE "fail"
  /\ UNCHANGED <<devVars, memVars, logVars, opVars, rec, left, bounds, told>>

(* A write error; RollMetaZoneLocked ignores it for the end record.         *)
WriteError ==
  /\ "write" \in Faults /\ Writing /\ ~NoSpace
  /\ pc' = IF pc = "end" THEN "finish" ELSE "fail"
  /\ UNCHANGED <<devVars, memVars, logVars, opVars, rec, left, bounds, told>>

----------------------------------------------------------------------------
(* RollMetaZoneLocked.                                                      *)

Free == {z \in Zones : ~busy_[z]}
ReleaseOld ==
  /\ busy_' = [z \in Zones |-> busy_[z] /\ z # old_meta_log]
  /\ old_meta_log' = NoZone
MayFailReset(z) == log[z] # <<>> /\ "reset" \in Faults

(* Mutant: the old zone gets no end record.                                 *)
AllocateMetaZoneNoEnd ==
  /\ pc = "roll"
  /\ \E z \in Free :
       /\ \A y \in Free : y < z => MayFailReset(y)
       /\ log' = [log EXCEPT ![z] = <<>>]
       /\ finished' = [finished EXCEPT ![z] = FALSE]
       /\ busy_' = [busy_ EXCEPT ![z] = TRUE]
       /\ meta_log_' = z /\ old_meta_log' = meta_log_
  /\ pc' = "finish" /\ rec' = EndRec /\ left' = 1
  /\ UNCHANGED <<memVars, sequence_, opVars, bounds, told>>

(* AllocateMetaZone takes the first free zone that is empty or can be       *)
(* reset; the logs are swapped; the old zone gets an end record if it has   *)
(* room for one.                                                            *)
AllocateMetaZone ==
  /\ pc = "roll"
  /\ \E z \in Free :
       /\ \A y \in Free : y < z => MayFailReset(y)
       /\ log' = [log EXCEPT ![z] = <<>>]
       /\ finished' = [finished EXCEPT ![z] = FALSE]
       /\ busy_' = [busy_ EXCEPT ![z] = TRUE]
       /\ meta_log_' = z /\ old_meta_log' = meta_log_
  /\ pc' = IF GetCapacityLeft(meta_log_) > 0 THEN "end" ELSE "finish"
  /\ rec' = EndRec /\ left' = 1
  /\ UNCHANGED <<memVars, sequence_, opVars, bounds, told>>

OutOfMetaZones ==
  /\ pc = "roll"
  /\ \A y \in Free : MayFailReset(y)
  /\ pc' = "fail"
  /\ UNCHANGED <<devVars, memVars, logVars, opVars, rec, left, bounds, told>>

(* The old zone is finished if it still has room, an error is ignored.      *)
(* Superblock::EncodeTo counts sequence_ up.                                *)
FinishOld ==
  /\ pc = "finish"
  /\ \/ /\ GetCapacityLeft(old_meta_log) > 0
        /\ finished' = [finished EXCEPT ![old_meta_log] = TRUE]
     \/ /\ GetCapacityLeft(old_meta_log) = 0 \/ "finish" \in Faults
        /\ UNCHANGED finished
  /\ sequence_' = sequence_ + 1
  /\ rec' = Super(sequence_ + 1) /\ left' = 1
  /\ pc' = "super"
  /\ UNCHANGED <<log, memVars, busy_, meta_log_, old_meta_log, opVars, bounds, told>>

(* Mutant: the old zone is reset before the snapshot is written.            *)
EncodeSnapshotResets ==
  /\ pc = "encode"
  /\ rec' = EncodeSnapshotTo /\ left' = SnapBlocks
  /\ pc' = "snap"
  /\ log' = [log EXCEPT ![old_meta_log] = <<>>]
  /\ finished' = [finished EXCEPT ![old_meta_log] = FALSE]
  /\ UNCHANGED <<memVars, logVars, opVars, bounds, told>>

EncodeSnapshot ==
  /\ pc = "encode"
  /\ rec' = EncodeSnapshotTo /\ left' = SnapBlocks
  /\ pc' = "snap"
  /\ UNCHANGED <<devVars, memVars, logVars, opVars, bounds, told>>

(* MetadataSynced of every file, then the old zone is reset and released.   *)
(* MkFS writes its snapshot to a first zone and has no old one.             *)
SnapshotSynced ==
  /\ pc = "synced"
  /\ nr_synced_extents_' = [f \in Files |-> IF f \in files_ THEN Len(extents_[f])
                                            ELSE nr_synced_extents_[f]]
  /\ \/ /\ log' = [z \in Zones |-> IF z = old_meta_log THEN <<>> ELSE log[z]]
        /\ finished' = [z \in Zones |-> finished[z] /\ z # old_meta_log]
     \/ "reset" \in Faults /\ UNCHANGED devVars
  /\ ReleaseOld
  /\ pc' = "ack"
  /\ UNCHANGED <<files_, extents_, wr, meta_log_, sequence_, opVars, rec, left, bounds, told>>

----------------------------------------------------------------------------
(* The operation returns.                                                   *)

Done == pc' = "idle" /\ op' = "none" /\ file' = NoFile /\ rec' = NoRec /\ left' = 0

(* Mutant: nr_synced_extents_ is left alone.                                *)
AckUnsynced ==
  /\ pc = "ack" /\ op # "mkfs" /\ Done
  /\ files_' = IF op = "create" THEN files_ \cup {file} ELSE files_
  /\ UNCHANGED nr_synced_extents_
  /\ wr' = CASE op = "create" -> [wr EXCEPT ![file] = "open"]
             [] op \in {"close", "replace"} -> [wr EXCEPT ![file] = "closed"]
             [] OTHER -> wr
  /\ made' = IF op = "create" THEN made \cup {file} ELSE made
  /\ acked' = IF op \in {"sync", "close", "replace"} THEN [acked EXCEPT ![file] = extents_[file]]
              ELSE acked
  /\ gone' = IF op = "delete" THEN gone \cup {file} ELSE gone
  /\ UNCHANGED <<devVars, extents_, logVars, bounds>>

(* SyncFileMetadataNoLock ends with MetadataSynced; the callers go on.      *)
Ack ==
  /\ pc = "ack" /\ op # "mkfs" /\ Done
  /\ files_' = IF op = "create" THEN files_ \cup {file} ELSE files_
  /\ nr_synced_extents_' =
       IF op \in {"create", "sync", "close", "replace"}
       THEN [nr_synced_extents_ EXCEPT ![file] = Len(extents_[file])]
       ELSE nr_synced_extents_
  /\ wr' = CASE op = "create" -> [wr EXCEPT ![file] = "open"]
             [] op \in {"close", "replace"} -> [wr EXCEPT ![file] = "closed"]
             [] OTHER -> wr
  /\ made' = IF op = "create" THEN made \cup {file} ELSE made
  /\ acked' = IF op \in {"sync", "close", "replace"} THEN [acked EXCEPT ![file] = extents_[file]]
              ELSE acked
  /\ gone' = IF op = "delete" THEN gone \cup {file} ELSE gone
  /\ UNCHANGED <<devVars, extents_, logVars, bounds>>

(* The volatile state is lost.                                              *)
Leave ==
  /\ pc' = "down" /\ op' = "none" /\ file' = NoFile /\ rec' = NoRec /\ left' = 0
  /\ busy_' = [z \in Zones |-> FALSE]
  /\ meta_log_' = NoZone /\ old_meta_log' = NoZone /\ sequence_' = 0
  /\ files_' = {}
  /\ extents_' = [f \in Files |-> <<>>]
  /\ nr_synced_extents_' = [f \in Files |-> 0]
  /\ wr' = [f \in Files |-> "closed"]
  /\ UNCHANGED <<devVars, born, moved>>

PowerOff == crashes < MaxCrashes /\ crashes' = crashes + 1 /\ Leave /\ UNCHANGED told

(* An error: the old log releases its zone, a deletion is taken back, the   *)
(* collector gives up the file, a mount gives up altogether.                *)
Fail ==
  /\ pc = "fail"
  /\ \/ /\ op \notin {"mount", "mkfs"} /\ Done
        /\ files_' = IF op = "delete" THEN files_ \cup {file} ELSE files_
        /\ made' = IF op = "delete" THEN made \cup {file} ELSE made
        /\ wr' = CASE op = "replace" -> [wr EXCEPT ![file] = "closed"]
                   [] op = "create" -> [wr EXCEPT ![file] = "spent"]
                   [] OTHER -> wr
        /\ ReleaseOld
        /\ UNCHANGED <<devVars, extents_, nr_synced_extents_, meta_log_, sequence_, bounds,
                       acked, gone>>
     \/ op \in {"mount", "mkfs"} /\ PowerOff

Crash == pc # "down" /\ PowerOff

----------------------------------------------------------------------------
(* Mount and MkFS.                                                          *)

(* Mutant: the logs of the other zones are kept.                            *)
MountHoldsAll ==
  /\ pc = "down"
  /\ \E found \in {Recovery} :
         /\ found.ok
         /\ meta_log_' = found.zone
         /\ sequence_' = log[found.zone][1].seq
         /\ busy_' = [z \in Zones |-> TRUE]
         /\ files_' = DOMAIN found.table
         /\ extents_' = [f \in Files |-> IF f \in DOMAIN found.table THEN found.table[f] ELSE <<>>]
  /\ nr_synced_extents_' = [f \in Files |-> Len(extents_'[f])]
  /\ pc' = "roll" /\ op' = "mount"
  /\ UNCHANGED <<devVars, wr, old_meta_log, file, rec, left, bounds, told>>

(* Mount keeps the zone it recovered from, releases the others, and rolls.  *)
(* Repair, which recovers extents behind the last record of open files from *)
(* the write pointers of their zones, adds to what is recovered here.       *)
Mount ==
  /\ pc = "down"
  /\ \E found \in {Recovery} :
         /\ found.ok
         /\ meta_log_' = found.zone
         /\ sequence_' = log[found.zone][1].seq
         /\ busy_' = [z \in Zones |-> z = found.zone]
         /\ files_' = DOMAIN found.table
         /\ extents_' = [f \in Files |-> IF f \in DOMAIN found.table THEN found.table[f] ELSE <<>>]
  /\ nr_synced_extents_' = [f \in Files |-> Len(extents_'[f])]
  /\ pc' = "roll" /\ op' = "mount"
  /\ UNCHANGED <<devVars, wr, old_meta_log, file, rec, left, bounds, told>>

(* Mutant: MkFS resets the zone it writes to and leaves the others.         *)
MkFSStartFirstOnly ==
  /\ "mkfs" \in Ops /\ pc = "down" /\ gone # Files
  /\ meta_log_' = 1
  /\ log' = [log EXCEPT ![1] = <<>>]
  /\ finished' = [finished EXCEPT ![1] = FALSE]
  /\ busy_' = [z \in Zones |-> z = meta_log_']
  /\ sequence_' = 1 /\ rec' = Super(1) /\ left' = 1
  /\ pc' = "super" /\ op' = "mkfs"
  /\ made' = {} /\ acked' = [f \in Files |-> <<>>]
  /\ UNCHANGED <<memVars, old_meta_log, file, bounds, gone>>

(* MkFS resets the metadata zones, passes over failures, and starts to      *)
(* write a superblock and a snapshot to the first zone that was reset.      *)
MkFSStart ==
  /\ "mkfs" \in Ops /\ pc = "down" /\ gone # Files
  /\ \E failed \in SUBSET {z \in Zones : MayFailReset(z)} :
       /\ failed # Zones
       /\ meta_log_' = CHOOSE z \in Zones \ failed : \A y \in Zones \ failed : z <= y
       /\ log' = [z \in Zones |-> IF z \in failed THEN log[z] ELSE <<>>]
       /\ finished' = [z \in Zones |-> z \in failed /\ finished[z]]
  /\ busy_' = [z \in Zones |-> z = meta_log_']
  /\ sequence_' = 1 /\ rec' = Super(1) /\ left' = 1
  /\ pc' = "super" /\ op' = "mkfs"
  /\ made' = {} /\ acked' = [f \in Files |-> <<>>]
  /\ UNCHANGED <<memVars, old_meta_log, file, bounds, gone>>

(* MkFS returns: there is an empty file system.                             *)
MkFSDone ==
  /\ pc = "ack" /\ op = "mkfs" /\ Leave
  /\ gone' = Files
  /\ UNCHANGED <<crashes, made, acked>>

----------------------------------------------------------------------------
Client ==
  \E f \in Files :
    \/ PushExtent(f) \/ Reopen(f) \/ CreateStart(f) \/ DeleteStart(f)
    \/ SyncStart(f, "sync") \/ SyncStart(f, "close")
    \/ MigrateStart(f)

Collector == \E f \in Files : ReplaceExtentList(f) \/ MetadataUnsynced(f) \/ ReplaceStart(f)

Operation ==
  \/ AcquireWRLock
  \/ WriteBlock \/ RecordNoSpace \/ WriteError
  \/ AllocateMetaZone \/ OutOfMetaZones \/ FinishOld \/ EncodeSnapshot \/ SnapshotSynced
  \/ Ack \/ Fail \/ MkFSDone

Next == Client \/ Collector \/ Operation \/ Crash \/ Mount \/ MkFSStart

Spec == Init /\ [][Next]_vars

(* The thread that holds files_mtx_ and the collector are scheduled, and    *)
(* somebody mounts a device that was left behind.                           *)
FairSpec == Spec /\ WF_vars(Operation) /\ WF_vars(Collector) /\ WF_vars(Mount)

----------------------------------------------------------------------------
(* Properties.                                                              *)

Extent == (1..MaxExtents) \X (0..MaxMoves)

(* The variables have their types: extents are numbered and located, the    *)
(* log in use is a metadata zone, and no zone holds more than its capacity. *)
TypeOK ==
  /\ \A z \in Zones : Len(log[z]) <= ZoneBlocks
  /\ finished \in [Zones -> BOOLEAN] /\ busy_ \in [Zones -> BOOLEAN]
  /\ files_ \subseteq Files
  /\ \A f \in Files : Range(extents_[f]) \subseteq Extent /\ Range(acked[f]) \subseteq Extent
  /\ \A f \in Files : nr_synced_extents_[f] \in 0..Len(extents_[f])
  /\ wr \in [Files -> {"closed", "open", "gc", "swapped", "unsynced", "spent"}]
  /\ meta_log_ \in Zones \cup {NoZone} /\ old_meta_log \in Zones \cup {NoZone}
  /\ pc \in {"down", "idle", "add", "end", "super", "snap", "roll", "finish", "encode",
             "synced", "ack", "fail", "reopen"}
  /\ (pc = "down") = (meta_log_ = NoZone)

(* If the power fails now, Mount finds a zone it can recover from: a crash  *)
(* at any point of a record, of a roll or of another mount leaves a log     *)
(* that RecoverFrom accepts.                                                *)
MountSucceeds == Recovery.ok

(* Every extent that Fsync, Close or the migration of a file reported as    *)
(* stored is found by a mount, where it was stored or where it was moved.   *)
SyncedExtentsSurvive ==
  LET found == Recovery
  IN  found.ok =>
        \A f \in made : \A i \in DOMAIN acked[f] :
          /\ f \in DOMAIN found.table
          /\ \E e \in Range(found.table[f]) : e[1] = acked[f][i][1] /\ e[2] >= acked[f][i][2]

(* A file that was deleted, or that was there before MkFS, does not come    *)
(* back, whichever metadata zone a mount reads.                             *)
DeletedStayDeleted == LET found == Recovery IN found.ok => gone \cap DOMAIN found.table = {}

(* No extent is found twice: snapshots and the updates after them, which    *)
(* carry the extents behind nr_synced_extents_ only, fit together.          *)
NoExtentTwice ==
  LET table == Recovery.table
  IN  \A f \in DOMAIN table : \A i, j \in DOMAIN table[f] :
        table[f][i][1] = table[f][j][1] => i = j

(* A device that was left behind comes up again, also if the mount itself   *)
(* is interrupted.                                                          *)
MountComesUp == pc = "down" ~> pc = "idle"

(* A reopen waits while the collector has the file and then returns, unless *)
(* the power fails.                                                         *)
ReopenReturns == pc = "reopen" ~> pc \in {"idle", "down"}
=============================================================================
