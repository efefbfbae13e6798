------------------------------- MODULE Namespace -------------------------------
(***************************************************************************)
(* The names of ZenFS (fs_zenfs.cc): the table files_ in memory, the link   *)
(* names of each file, and what a mount makes of the records that create,   *)
(* delete, rename and link write to the metadata log.                       *)
(*                                                                          *)
(* Every operation holds files_mtx_ from its first look at the table to its *)
(* last record.  Memory is lost in a crash, so a change in memory and the   *)
(* record that persists it are one step; an operation that persists two     *)
(* records takes two, and a crash can come between them.                    *)
(*                                                                          *)
(* A record is persisted in one of three ways: it is appended to the log,   *)
(* or the log rolls and a snapshot of the table takes its place, or it      *)
(* fails.  How the log stores records is the subject of MetaLog.            *)
(***************************************************************************)
EXTENDS Integers, FiniteSets

CONSTANTS
  Names,          \* paths, after FormatPathLexically
  NoName,
  MaxFiles,       \* bound: file ids are 1..MaxFiles
  MaxCrashes,     \* bound: crashes
  WriteErrors,    \* records may fail to be persisted
  RollAtCreate    \* the record of a creation may be the one that rolls the log

ASSUME NamespaceAssumption ==
  /\ NoName \notin Names
  /\ MaxFiles \in Nat /\ MaxCrashes \in Nat
  /\ WriteErrors \in BOOLEAN /\ RollAtCreate \in BOOLEAN

Files == 1..MaxFiles
NoFile == 0

VARIABLES
  files_,          \* name -> file, or NoFile
  linkfiles_,      \* file -> its names, in no order
  next_file_id_,
  ok,              \* a mount can replay the log
  rfiles, rlinks, rnext,   \* files_, linkfiles_, next_file_id_ after that
  pc, name, dest, file,    \* the operation between its two records
  s,               \* the status that the last operation returned
  crashes

memVars == <<files_, linkfiles_, next_file_id_>>
logVars == <<ok, rfiles, rlinks, rnext>>
opVars == <<pc, name, dest, file>>
vars == <<files_, linkfiles_, next_file_id_, ok, rfiles, rlinks, rnext, pc, name, dest, file,
          s, crashes>>

Empty == [n \in Names |-> NoFile]
NoLinks == [f \in Files |-> {}]

Live(files) == {files[n] : n \in Names} \ {NoFile}

Init ==
  /\ files_ = Empty /\ linkfiles_ = NoLinks /\ next_file_id_ = 1
  /\ ok = TRUE /\ rfiles = Empty /\ rlinks = NoLinks /\ rnext = 1
  /\ pc = "idle" /\ name = NoName /\ dest = NoName /\ file = NoFile
  /\ s = "ok" /\ crashes = 0

----------------------------------------------------------------------------
(* Records and what a mount makes of them.                                  *)

(* Mutant: the next id is counted, not derived from the ids.                *)
NextIdCounted(files) == Cardinality(Live(files))

(* next_file_id_ after files with these ids were decoded.                   *)
NextId(files) ==
  CHOOSE k \in 1..(MaxFiles + 1) :
    /\ \A f \in Live(files) : f < k
    /\ k = 1 \/ k - 1 \in Live(files)

(* EncodeSnapshotTo writes the files of the table with all of their link    *)
(* names, DecodeSnapshotFrom enters each file under these names.            *)
SnapshotFiles(files, links) ==
  [n \in Names |-> IF \E f \in Live(files) : n \in links[f]
                   THEN CHOOSE f \in Live(files) : n \in links[f] ELSE NoFile]

Snapshot(files, links) ==
  /\ ok' = TRUE
  /\ rfiles' = SnapshotFiles(files, links)
  /\ rlinks' = [f \in Files |-> IF f \in Live(files) THEN links[f] ELSE {}]
  /\ rnext' = NextId(files)

Corrupt == ok' = FALSE /\ UNCHANGED <<rfiles, rlinks, rnext>>

(* DecodeFileUpdateFrom: a known file loses its old names, which must be in *)
(* the table, and gets the new ones; a new file is entered under the first  *)
(* of its names, any of them here.  A name that is taken is left alone.     *)
Replay(f, names) ==
  LET known == \E n \in Names : rfiles[n] = f
      rest == [n \in Names |-> IF n \in rlinks[f] THEN NoFile ELSE rfiles[n]]
  IN  \/ /\ known /\ \E n \in rlinks[f] : rfiles[n] = NoFile
         /\ Corrupt
      \/ /\ known /\ \A n \in rlinks[f] : rfiles[n] # NoFile
         /\ rfiles' = [n \in Names |-> IF n \in names /\ rest[n] = NoFile THEN f ELSE rest[n]]
         /\ rlinks' = [rlinks EXCEPT ![f] = names]
         /\ rnext' = IF f >= rnext THEN f + 1 ELSE rnext
         /\ UNCHANGED ok
      \/ /\ ~known
         /\ \E n \in names :
              rfiles' = IF rfiles[n] = NoFile THEN [rfiles EXCEPT ![n] = f] ELSE rfiles
         /\ rlinks' = [rlinks EXCEPT ![f] = names]
         /\ rnext' = IF f >= rnext THEN f + 1 ELSE rnext
         /\ UNCHANGED ok

(* DecodeFileDeletionFrom: the name must be there and belong to the file.   *)
ReplayDeletion(f, n) ==
  IF rfiles[n] = f /\ n \in rlinks[f]
  THEN /\ rfiles' = [rfiles EXCEPT ![n] = NoFile]
       /\ rlinks' = [rlinks EXCEPT ![f] = @ \ {n}]
       /\ UNCHANGED <<ok, rnext>>
  ELSE Corrupt

----------------------------------------------------------------------------
(* DeleteFileNoLock.                                                        *)

Without(n) == [files_ EXCEPT ![n] = NoFile]
Unlinked(n) == [linkfiles_ EXCEPT ![files_[n]] = @ \ {n}]

(* Mutant: the name leaves the table and stays a link name of the file.     *)
DeleteFileKeepsLink(n) ==
  /\ files_' = Without(n) /\ UNCHANGED linkfiles_
  /\ ReplayDeletion(files_[n], n)

(* Mutant: the file goes with all of its names.                             *)
DeleteFileAllNames(n) ==
  /\ files_' = [m \in Names |-> IF files_[m] = files_[n] THEN NoFile ELSE files_[m]]
  /\ linkfiles_' = [linkfiles_ EXCEPT ![files_[n]] = {}]
  /\ Snapshot(files_', linkfiles_')

DeleteFileNoLock(n) ==
  /\ files_' = Without(n) /\ linkfiles_' = Unlinked(n)
  /\ ReplayDeletion(files_[n], n) \/ Snapshot(Without(n), Unlinked(n))

(* The deletion cannot be persisted: table and links return to what they    *)
(* were, and the caller gets the error.                                     *)
Unpersisted == WriteErrors /\ UNCHANGED <<files_, linkfiles_, logVars>>

Exists(n) == files_[n] # NoFile

Return(status) ==
  /\ s' = status
  /\ pc' = "idle" /\ name' = NoName /\ dest' = NoName /\ file' = NoFile

DeleteFile(n) ==
  /\ pc = "idle" /\ Exists(n)
  /\ \/ DeleteFileNoLock(n) /\ Return("ok")
     \/ Unpersisted /\ Return("error")
  /\ UNCHANGED <<next_file_id_, crashes>>

(* The first half of an operation that puts a file under the name n, and    *)
(* that deletes the file it finds there with a record of its own.           *)
Vacate(n) == IF Exists(n) THEN DeleteFileNoLock(n) ELSE UNCHANGED <<files_, linkfiles_, logVars>>

----------------------------------------------------------------------------
(* OpenWritableFile.                                                        *)

CreateStart(n) ==
  /\ pc = "idle" /\ next_file_id_ <= MaxFiles
  /\ \/ Vacate(n) /\ pc' = "create" /\ name' = n /\ UNCHANGED <<dest, file, s>>
     \/ Exists(n) /\ Unpersisted /\ Return("error")
  /\ UNCHANGED <<next_file_id_, crashes>>

(* The creation is persisted, and then the file enters the table: if the    *)
(* log rolls, the snapshot does not have it.                                *)
CreatePersist ==
  /\ pc = "create"
  /\ \/ /\ Replay(next_file_id_, {name}) \/ (RollAtCreate /\ Snapshot(files_, linkfiles_))
        /\ files_' = [files_ EXCEPT ![name] = next_file_id_]
        /\ linkfiles_' = [linkfiles_ EXCEPT ![next_file_id_] = {name}]
        /\ Return("ok")
     \/ Unpersisted /\ Return("error")
  /\ next_file_id_' = next_file_id_ + 1
  /\ UNCHANGED crashes

----------------------------------------------------------------------------
(* RenameFileNoLock and LinkFile.                                           *)

RenameStart(n, new) ==
  /\ pc = "idle" /\ Exists(n)
  /\ \/ /\ Vacate(new) /\ pc' = "rename"
        /\ name' = n /\ dest' = new /\ file' = files_[n] /\ UNCHANGED s
     \/ Exists(new) /\ Unpersisted /\ Return("error")
  /\ UNCHANGED <<next_file_id_, crashes>>

Renamed == [files_ EXCEPT ![name] = NoFile, ![dest] = file]
Relinked == [linkfiles_ EXCEPT ![file] = (@ \ {name}) \cup {dest}]

(* Mutant: a rename that cannot be persisted is not rolled back.            *)
RenamePersistKeeps ==
  /\ pc = "rename" /\ name \in linkfiles_[file]
  /\ files_' = Renamed /\ linkfiles_' = Relinked
  /\ Replay(file, Relinked[file]) \/ (WriteErrors /\ UNCHANGED logVars)
  /\ Return("ok")
  /\ UNCHANGED <<next_file_id_, crashes>>

(* RenameLink fails if the name is no longer a name of the file, which      *)
(* happens when a file is renamed to itself.  A rename that cannot be       *)
(* persisted is rolled back; what the caller gets is the status of the      *)
(* second RenameLink.                                                       *)
RenamePersist ==
  /\ pc = "rename"
  /\ \/ /\ name \notin linkfiles_[file]
        /\ UNCHANGED <<files_, linkfiles_, logVars>> /\ Return("error")
     \/ /\ name \in linkfiles_[file]
        /\ files_' = Renamed /\ linkfiles_' = Relinked
        /\ Replay(file, Relinked[file]) \/ Snapshot(Renamed, Relinked)
        /\ Return("ok")
     \/ name \in linkfiles_[file] /\ Unpersisted /\ Return("ok")
  /\ UNCHANGED <<next_file_id_, crashes>>

WithLink(n, new) == [files_ EXCEPT ![new] = files_[n]]
Linked(n, new) == [linkfiles_ EXCEPT ![files_[n]] = @ \cup {new}]

(* A link that cannot be persisted is taken back; again the caller gets the *)
(* status of RemoveLinkName.                                                *)
LinkFile(n, new) ==
  /\ pc = "idle" /\ Exists(n) /\ ~Exists(new)
  /\ \/ /\ files_' = WithLink(n, new) /\ linkfiles_' = Linked(n, new)
        /\ \/ Replay(files_[n], linkfiles_[files_[n]] \cup {new})
           \/ Snapshot(WithLink(n, new), Linked(n, new))
     \/ Unpersisted
  /\ Return("ok")
  /\ UNCHANGED <<next_file_id_, crashes>>

----------------------------------------------------------------------------
(* SyncFileMetadata of a file with names; a deleted file is skipped.  The   *)
(* snapshot also stands for a roll on behalf of any other record.           *)
SyncFileMetadata(f) ==
  /\ pc = "idle" /\ linkfiles_[f] # {}
  /\ Replay(f, linkfiles_[f]) \/ Snapshot(files_, linkfiles_)
  /\ UNCHANGED <<memVars, opVars, s, crashes>>

----------------------------------------------------------------------------
Crash ==
  /\ pc # "down" /\ crashes < MaxCrashes
  /\ crashes' = crashes + 1
  /\ files_' = Empty /\ linkfiles_' = NoLinks /\ next_file_id_' = 1
  /\ pc' = "down" /\ name' = NoName /\ dest' = NoName /\ file' = NoFile /\ s' = "ok"
  /\ UNCHANGED logVars

(* RecoverFrom replays the log, the roll at the end of Mount writes a       *)
(* snapshot of what was found.                                              *)
Mount ==
  /\ pc = "down" /\ ok
  /\ files_' = rfiles /\ linkfiles_' = rlinks /\ next_file_id_' = rnext
  /\ Snapshot(rfiles, rlinks)
  /\ pc' = "idle"
  /\ UNCHANGED <<name, dest, file, s, crashes>>

----------------------------------------------------------------------------
Next ==
  \/ \E n \in Names : DeleteFile(n) \/ CreateStart(n)
  \/ \E n, new \in Names : RenameStart(n, new) \/ LinkFile(n, new)
  \/ CreatePersist \/ RenamePersist
  \/ \E f \in Files : SyncFileMetadata(f)
  \/ Crash \/ Mount

Spec == Init /\ [][Next]_vars

----------------------------------------------------------------------------
(* Properties.                                                              *)

TableType == [Names -> Files \cup {NoFile}]
LinksType == [Files -> SUBSET Names]

(* The variables have their types.                                          *)
TypeOK ==
  /\ files_ \in TableType /\ rfiles \in TableType
  /\ linkfiles_ \in LinksType /\ rlinks \in LinksType
  /\ next_file_id_ \in 1..(MaxFiles + 1) /\ rnext \in 1..(MaxFiles + 1)
  /\ ok \in BOOLEAN
  /\ pc \in {"idle", "create", "rename", "down"}
  /\ name \in Names \cup {NoName} /\ dest \in Names \cup {NoName}
  /\ file \in Files \cup {NoFile}
  /\ s \in {"ok", "error"} /\ crashes \in Nat

(* The table and the link names of the files say the same: RenameLink and   *)
(* RemoveLinkName never fail for a name that was found in files_, and a     *)
(* file is marked as deleted exactly when its last name is gone.            *)
LinksMatch ==
  \A n \in Names, f \in Files : files_[n] = f <=> n \in linkfiles_[f]

(* A mount at this moment succeeds: no record that was written contradicts  *)
(* the ones before it.                                                      *)
Mountable == ok

(* A mount at this moment finds the names as they are now: what create,     *)
(* delete, rename and link have done survives a crash, and what they had to *)
(* take back after an error does not come back.                             *)
MountFindsNames == pc # "down" => ok /\ rfiles = files_

(* A rename that returns OK has moved the file: its caller finds it under   *)
(* the destination.  The callers of RenameFile rely on it.                  *)
RenameMoves ==
  [][pc = "rename" /\ pc' = "idle" /\ s' = "ok" => files_'[dest] = file]_vars

(* The namespace that a mount finds keeps the promise of Directory.         *)
Promise == INSTANCE Directory WITH dir <- rfiles

ImplementsDirectory == Promise!Spec
=============================================================================
