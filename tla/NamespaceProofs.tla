--------------------------- MODULE NamespaceProofs ---------------------------
(***************************************************************************)
(* The namespace on the device is the namespace in memory, for any number   *)
(* of names and files, if no record of a creation is the one that rolls     *)
(* the log.                                                                 *)
(***************************************************************************)
EXTENDS Namespace, TLAPS, WellFoundedInduction

(* A table and the link names of its files say the same.                    *)
Consistent(files, links) ==
  \A n \in Names, f \in Files : files[n] = f <=> n \in links[f]

Below(files, next) == \A n \in Names : files[n] < next

(* The step leaves a log from which a mount recovers this table.            *)
Stores(files, links) ==
  /\ ok' = TRUE /\ rfiles' = files /\ rlinks' = links
  /\ rnext' \in 1..(MaxFiles + 1) /\ Below(files, rnext')

----------------------------------------------------------------------------
(* What the operators on tables do.                                         *)

(* NextId is defined: a set of ids has a largest one.                       *)
LEMMA NextIdFacts ==
  ASSUME NEW files \in TableType
  PROVE  NextId(files) \in 1..(MaxFiles + 1) /\ Below(files, NextId(files))
<1> DEFINE T == {k \in 1..(MaxFiles + 1) : \A f \in Live(files) : f < k}
           P(k) == (\A f \in Live(files) : f < k) /\ (k = 1 \/ k - 1 \in Live(files))
<1>1. Live(files) \subseteq Files
  BY DEF Live, TableType
<1>2. MaxFiles + 1 \in T
  BY <1>1, NamespaceAssumption DEF Files
<1>3. PICK k \in T : \A j \in T : ~(<<j, k>> \in OpToRel(<, Nat))
  <2>1. T \subseteq Nat /\ T # {}
    BY <1>2
  <2> HIDE DEF T
  <2> QED
    BY <2>1, NatLessThanWellFounded, WFMin
<1>4. \A j \in T : ~(j < k)
  <2>1. \A i, j \in Nat : i < j => <<i, j>> \in OpToRel(<, Nat)
    BY DEF OpToRel
  <2>2. T \subseteq Nat
    OBVIOUS
  <2> HIDE DEF T
  <2> QED
    BY <1>3, <2>1, <2>2
<1>5. P(k)
  <2>1. CASE k = 1
    BY <2>1
  <2>2. CASE k # 1
    <3>1. k - 1 \in 1..(MaxFiles + 1) /\ k - 1 < k
      BY <2>2, NamespaceAssumption
    <3>2. PICK f \in Live(files) : ~(f < k - 1)
      BY <1>4, <3>1
    <3>3. f = k - 1
      BY <1>1, <3>2, NamespaceAssumption DEF Files
    <3> QED
      BY <3>3
  <2> QED
    BY <2>1, <2>2
<1>6. NextId(files) \in 1..(MaxFiles + 1) /\ P(NextId(files))
  BY <1>5 DEF NextId
<1>7. \A n \in Names : files[n] = NoFile \/ files[n] \in Live(files)
  BY DEF Live
<1> QED
  BY <1>6, <1>7 DEF Below, NoFile

(* A snapshot recovers the table it was made of.                            *)
LEMMA SnapshotStores ==
  ASSUME NEW files \in TableType, NEW links \in LinksType,
         Consistent(files, links), Snapshot(files, links)
  PROVE  Stores(files, links)
<1>1. \A f \in Live(files) : f \in Files
  BY DEF Live, TableType
<1>2. \A n \in Names : SnapshotFiles(files, links)[n] = files[n]
  <2> TAKE n \in Names
  <2>1. CASE \E f \in Live(files) : n \in links[f]
    BY <1>1, <2>1 DEF SnapshotFiles, Consistent
  <2>2. CASE ~\E f \in Live(files) : n \in links[f]
    <3>1. files[n] \notin Files
      <4> SUFFICES ASSUME files[n] \in Files PROVE FALSE
        OBVIOUS
      <4>1. files[n] \in Live(files)
        BY DEF Live, Files, NoFile
      <4> QED
        BY <2>2, <4>1 DEF Consistent
    <3> QED
      BY <2>2, <3>1 DEF SnapshotFiles, TableType
  <2> QED
    BY <2>1, <2>2
<1>3. rfiles' = files
  BY <1>2 DEF Snapshot, SnapshotFiles, TableType
<1>4. \A f \in Files : f \notin Live(files) => links[f] = {}
  BY DEF Live, Consistent, LinksType, Files, NoFile
<1>5. rlinks' = links
  BY <1>4 DEF Snapshot, LinksType
<1> QED
  BY <1>3, <1>5, NextIdFacts DEF Stores, Snapshot

(* A table determines the link names.                                       *)
LEMMA ConsistentLinks ==
  ASSUME NEW files \in TableType, NEW l1 \in LinksType, NEW l2 \in LinksType,
         Consistent(files, l1), Consistent(files, l2)
  PROVE  l1 = l2
<1>1. \A f \in Files : l1[f] = l2[f]
  BY DEF Consistent, LinksType
<1> QED
  BY <1>1 DEF LinksType

(* The table after a file has exactly these names.                          *)
Named(files, f, names) ==
  [n \in Names |-> IF n \in names THEN f ELSE IF files[n] = f THEN NoFile ELSE files[n]]

LEMMA NamedConsistent ==
  ASSUME NEW files \in TableType, NEW links \in LinksType, Consistent(files, links),
         NEW f \in Files, NEW names \in SUBSET Names,
         \A n \in names : files[n] \in {NoFile, f}
  PROVE  /\ Named(files, f, names) \in TableType
         /\ [links EXCEPT ![f] = names] \in LinksType
         /\ Consistent(Named(files, f, names), [links EXCEPT ![f] = names])
BY DEF Named, Consistent, TableType, LinksType, Files, NoFile

(* The recovered table, as every operation finds it.                        *)
Recoverable ==
  /\ ok = TRUE
  /\ rfiles \in TableType /\ rlinks \in LinksType /\ Consistent(rfiles, rlinks)
  /\ rnext \in 1..(MaxFiles + 1) /\ Below(rfiles, rnext)

(* The update of a file gives it the names of the record.                   *)
LEMMA ReplayStores ==
  ASSUME Recoverable, NEW f \in Files, NEW names \in SUBSET Names,
         \A n \in names : rfiles[n] \in {NoFile, f},
         (\E n \in Names : rfiles[n] = f) \/ \E n \in Names : names = {n},
         Replay(f, names)
  PROVE  Stores(Named(rfiles, f, names), [rlinks EXCEPT ![f] = names])
<1>1. \A n \in rlinks[f] : n \in Names /\ rfiles[n] = f
  BY DEF Recoverable, Consistent, LinksType
<1>2. \A n \in rlinks[f] : rfiles[n] # NoFile
  BY <1>1 DEF Files, NoFile
<1>3. ok' = TRUE /\ rlinks' = [rlinks EXCEPT ![f] = names]
      /\ rnext' = IF f >= rnext THEN f + 1 ELSE rnext
  BY <1>2 DEF Replay, Recoverable
<1>4. rfiles' = Named(rfiles, f, names)
  <2>1. CASE \E n \in Names : rfiles[n] = f
    <3>1. rfiles' = [n \in Names |->
            IF n \in names /\ (IF n \in rlinks[f] THEN NoFile ELSE rfiles[n]) = NoFile
            THEN f ELSE IF n \in rlinks[f] THEN NoFile ELSE rfiles[n]]
      BY <1>2, <2>1 DEF Replay
    <3>2. \A n \in Names : n \in rlinks[f] <=> rfiles[n] = f
      BY DEF Recoverable, Consistent
    <3> QED
      BY <3>1, <3>2 DEF Named
  <2>2. CASE ~\E n \in Names : rfiles[n] = f
    <3>1. PICK n \in Names : names = {n}
      BY <2>2
    <3>2. rfiles[n] = NoFile
      BY <2>2, <3>1
    <3>3. rfiles' = [rfiles EXCEPT ![n] = f]
      BY <2>2, <3>1, <3>2 DEF Replay
    <3> QED
      BY <2>2, <3>1, <3>3 DEF Named, Recoverable, TableType
  <2> QED
    BY <2>1, <2>2
<1>5. rnext' \in 1..(MaxFiles + 1) /\ rnext <= rnext' /\ f < rnext'
  BY <1>3, NamespaceAssumption DEF Recoverable, Files
<1>6. Below(Named(rfiles, f, names), rnext')
  BY <1>5, NamespaceAssumption DEF Below, Named, Recoverable, TableType, Files, NoFile
<1> QED
  BY <1>3, <1>4, <1>5, <1>6 DEF Stores

----------------------------------------------------------------------------
(* The inductive invariant.                                                 *)

(* Between its two records an operation has made room for what comes.       *)
RoomMade ==
  /\ pc = "create" => name \in Names /\ files_[name] = NoFile /\ next_file_id_ \in Files
  /\ pc = "rename" => /\ name \in Names /\ dest \in Names /\ file \in Files
                      /\ files_[dest] = NoFile
                      /\ name # dest => files_[name] = file

IInv ==
  /\ TypeOK /\ LinksMatch /\ MountFindsNames
  /\ Recoverable
  /\ Below(files_, next_file_id_)
  /\ RoomMade

(* In a mounted file system the log has the table in memory.                *)
LEMMA MountedIsStored ==
  ASSUME IInv, pc # "down"
  PROVE  rfiles = files_ /\ rlinks = linkfiles_ /\ Consistent(files_, linkfiles_)
<1>1. rfiles = files_ /\ Consistent(files_, linkfiles_) /\ Consistent(rfiles, rlinks)
  BY DEF IInv, MountFindsNames, LinksMatch, Consistent, Recoverable
<1> QED
  BY <1>1, ConsistentLinks DEF IInv, TypeOK

(* A step that stores the table it leaves in memory keeps the invariant.    *)
LEMMA StoringStep ==
  ASSUME NEW files \in TableType, NEW links \in LinksType, Consistent(files, links),
         Stores(files, links), files_' = files, linkfiles_' = links
  PROVE  LinksMatch' /\ MountFindsNames' /\ Recoverable'
BY DEF Stores, LinksMatch, MountFindsNames, Recoverable, Consistent, Below

(* What DeleteFileNoLock does to a table.                                   *)
LEMMA DeleteStores ==
  ASSUME IInv, pc # "down", NEW n \in Names, Exists(n), DeleteFileNoLock(n)
  PROVE  /\ files_' = Without(n) /\ linkfiles_' = Unlinked(n)
         /\ Without(n) \in TableType /\ Unlinked(n) \in LinksType
         /\ Consistent(Without(n), Unlinked(n)) /\ Stores(Without(n), Unlinked(n))
<1>1. rfiles = files_ /\ rlinks = linkfiles_ /\ Consistent(files_, linkfiles_)
  BY MountedIsStored
<1>2. files_[n] \in Files /\ n \in linkfiles_[files_[n]]
  BY <1>1 DEF Exists, IInv, TypeOK, TableType, Consistent
<1>3. Without(n) \in TableType /\ Unlinked(n) \in LinksType
  BY <1>2 DEF Without, Unlinked, IInv, TypeOK, TableType, LinksType
<1>4. Consistent(Without(n), Unlinked(n))
  BY <1>1, <1>2 DEF Without, Unlinked, IInv, TypeOK, TableType, LinksType, Consistent, Files, NoFile
<1>5. ReplayDeletion(files_[n], n) => Stores(Without(n), Unlinked(n))
  <2> HAVE ReplayDeletion(files_[n], n)
  <2>1. rfiles' = Without(n) /\ rlinks' = Unlinked(n) /\ ok' = TRUE /\ rnext' = rnext
    BY <1>1, <1>2 DEF ReplayDeletion, Without, Unlinked, IInv, Recoverable
  <2>2. Below(Without(n), rnext)
    BY <1>1, NamespaceAssumption DEF Below, Without, IInv, Recoverable, TableType, NoFile
  <2> QED
    BY <2>1, <2>2 DEF Stores, IInv, Recoverable
<1>6. Snapshot(Without(n), Unlinked(n)) => Stores(Without(n), Unlinked(n))
  BY <1>3, <1>4, SnapshotStores
<1> QED
  BY <1>3, <1>4, <1>5, <1>6 DEF DeleteFileNoLock

(* The rest of the state has its type.                                      *)
OpTypes ==
  /\ next_file_id_ \in 1..(MaxFiles + 1)
  /\ pc \in {"idle", "create", "rename", "down"}
  /\ name \in Names \cup {NoName} /\ dest \in Names \cup {NoName}
  /\ file \in Files \cup {NoFile}
  /\ s \in {"ok", "error"} /\ crashes \in Nat

LEMMA TableStep ==
  ASSUME NEW files \in TableType, NEW links \in LinksType, Consistent(files, links),
         Stores(files, links), files_' = files, linkfiles_' = links,
         OpTypes', RoomMade', Below(files, next_file_id_')
  PROVE  IInv'
<1>1. LinksMatch' /\ MountFindsNames' /\ Recoverable'
  BY StoringStep
<1>2. TypeOK'
  BY DEF Stores, OpTypes, TypeOK
<1> QED
  BY <1>1, <1>2 DEF IInv, Below

(* Nothing is stored and nothing changes in memory.                         *)
LEMMA QuietStep ==
  ASSUME IInv, pc # "down", UNCHANGED <<files_, linkfiles_, logVars>>,
         OpTypes', RoomMade', next_file_id_' >= next_file_id_
  PROVE  IInv' /\ rfiles' = rfiles
<1>1. LinksMatch' /\ MountFindsNames' /\ Recoverable'
  BY DEF IInv, LinksMatch, MountFindsNames, Recoverable, Consistent, Below, logVars
<1>2. TypeOK'
  BY DEF IInv, TypeOK, OpTypes, logVars
<1>3. Below(files_, next_file_id_)'
  BY NamespaceAssumption DEF IInv, TypeOK, TableType, Below, OpTypes, Files, NoFile
<1> QED
  BY <1>1, <1>2, <1>3 DEF IInv, logVars

LEMMA ReturnTypes ==
  ASSUME IInv, NEW status \in {"ok", "error"}, Return(status), crashes' = crashes,
         next_file_id_' \in 1..(MaxFiles + 1)
  PROVE  OpTypes' /\ RoomMade'
BY DEF IInv, TypeOK, Return, OpTypes, RoomMade

LEMMA WithoutBelow ==
  ASSUME IInv, NEW n \in Names
  PROVE  Below(Without(n), next_file_id_)
BY NamespaceAssumption DEF IInv, TypeOK, TableType, Below, Without, NoFile

LEMMA DeleteFileStep ==
  ASSUME IInv, NEW n \in Names, DeleteFile(n)
  PROVE  IInv' /\ [Promise!Next]_rfiles
<1>1. pc # "down" /\ Exists(n) /\ next_file_id_' = next_file_id_ /\ crashes' = crashes
  BY DEF DeleteFile
<1>2. OpTypes' /\ RoomMade'
  BY <1>1, ReturnTypes DEF DeleteFile, IInv, TypeOK
<1>3. CASE Unpersisted
  BY <1>1, <1>2, <1>3, QuietStep DEF Unpersisted, IInv, TypeOK
<1>4. CASE DeleteFileNoLock(n)
  <2>1. IInv'
    BY <1>1, <1>2, <1>4, DeleteStores, TableStep, WithoutBelow
  <2>2. rfiles' = Without(n) /\ rfiles = files_
    BY <1>1, <1>4, DeleteStores, MountedIsStored DEF Stores
  <2>3. Promise!Delete(n)
    BY <1>1, <2>2 DEF Promise!Delete, Promise!Free, Exists, Without
  <2> QED
    BY <2>1, <2>3 DEF Promise!Next
<1> QED
  BY <1>3, <1>4 DEF DeleteFile

(* The first half of a creation or a rename.                                *)
LEMMA VacateStep ==
  ASSUME IInv, pc # "down", NEW n \in Names, Vacate(n), OpTypes', RoomMade',
         next_file_id_' = next_file_id_
  PROVE  IInv' /\ [Promise!Next]_rfiles
<1>1. CASE ~Exists(n)
  BY <1>1, QuietStep DEF Vacate, IInv, TypeOK
<1>2. CASE Exists(n)
  <2>1. DeleteFileNoLock(n)
    BY <1>2 DEF Vacate
  <2>2. IInv'
    BY <1>2, <2>1, DeleteStores, TableStep, WithoutBelow
  <2>3. rfiles' = Without(n) /\ rfiles = files_
    BY <1>2, <2>1, DeleteStores, MountedIsStored DEF Stores
  <2>4. Promise!Delete(n)
    BY <1>2, <2>3 DEF Promise!Delete, Promise!Free, Exists, Without
  <2> QED
    BY <2>2, <2>4 DEF Promise!Next
<1> QED
  BY <1>1, <1>2

LEMMA VacateTable ==
  ASSUME IInv, NEW n \in Names, Vacate(n)
  PROVE  files_' = Without(n)
BY DEF Vacate, Exists, DeleteFileNoLock, Without, IInv, TypeOK, TableType

LEMMA CreateStartStep ==
  ASSUME IInv, NEW n \in Names, CreateStart(n)
  PROVE  IInv' /\ [Promise!Next]_rfiles
<1>1. pc # "down" /\ next_file_id_' = next_file_id_ /\ crashes' = crashes
  BY DEF CreateStart
<1>2. CASE Unpersisted /\ Return("error")
  <2>1. OpTypes' /\ RoomMade'
    BY <1>1, <1>2, ReturnTypes DEF IInv, TypeOK
  <2> QED
    BY <1>1, <1>2, <2>1, QuietStep DEF Unpersisted, IInv, TypeOK
<1>3. CASE Vacate(n) /\ pc' = "create" /\ name' = n /\ UNCHANGED <<dest, file, s>>
  <2>1. OpTypes'
    BY <1>1, <1>3 DEF OpTypes, IInv, TypeOK
  <2>2. RoomMade'
    <3>1. next_file_id_ \in Files
      BY NamespaceAssumption DEF CreateStart, IInv, TypeOK, Files
    <3>2. files_'[n] = NoFile
      BY <1>3, VacateTable DEF Without, IInv, TypeOK, TableType
    <3> QED
      BY <1>1, <1>3, <3>1, <3>2 DEF RoomMade
  <2> QED
    BY <1>1, <1>3, <2>1, <2>2, VacateStep
<1> QED
  BY <1>2, <1>3 DEF CreateStart

LEMMA RenameStartStep ==
  ASSUME IInv, NEW n \in Names, NEW new \in Names, RenameStart(n, new)
  PROVE  IInv' /\ [Promise!Next]_rfiles
<1>1. pc # "down" /\ next_file_id_' = next_file_id_ /\ crashes' = crashes /\ Exists(n)
  BY DEF RenameStart
<1>2. CASE Unpersisted /\ Return("error")
  <2>1. OpTypes' /\ RoomMade'
    BY <1>1, <1>2, ReturnTypes DEF IInv, TypeOK
  <2> QED
    BY <1>1, <1>2, <2>1, QuietStep DEF Unpersisted, IInv, TypeOK
<1>3. CASE /\ Vacate(new) /\ pc' = "rename"
           /\ name' = n /\ dest' = new /\ file' = files_[n] /\ UNCHANGED s
  <2>1. files_[n] \in Files
    BY <1>1 DEF Exists, IInv, TypeOK, TableType
  <2>2. OpTypes'
    BY <1>1, <1>3, <2>1 DEF OpTypes, IInv, TypeOK
  <2>3. files_'[new] = NoFile /\ (n # new => files_'[n] = files_[n])
    BY <1>3, VacateTable DEF Without, IInv, TypeOK, TableType
  <2>4. RoomMade'
    BY <1>3, <2>1, <2>3 DEF RoomMade
  <2> QED
    BY <1>1, <1>3, <2>2, <2>4, VacateStep
<1> QED
  BY <1>2, <1>3 DEF RenameStart

LEMMA CreatePersistStep ==
  ASSUME IInv, ~RollAtCreate, CreatePersist
  PROVE  IInv' /\ [Promise!Next]_rfiles
<1> DEFINE id == next_file_id_
           files == [files_ EXCEPT ![name] = id]
           links == [linkfiles_ EXCEPT ![id] = {name}]
<1>1. /\ pc # "down" /\ name \in Names /\ files_[name] = NoFile /\ id \in Files
      /\ next_file_id_' = id + 1 /\ crashes' = crashes
  BY DEF CreatePersist, IInv, RoomMade
<1>2. next_file_id_' \in 1..(MaxFiles + 1)
  BY <1>1, NamespaceAssumption DEF Files
<1>3. CASE Unpersisted /\ Return("error")
  <2>1. OpTypes' /\ RoomMade'
    BY <1>1, <1>2, <1>3, ReturnTypes
  <2> QED
    BY <1>1, <1>3, <2>1, QuietStep DEF Unpersisted, Files
<1>4. CASE Replay(id, {name}) /\ files_' = files /\ linkfiles_' = links /\ Return("ok")
  <2>1. OpTypes' /\ RoomMade'
    BY <1>1, <1>2, <1>4, ReturnTypes
  <2>2. rfiles = files_ /\ rlinks = linkfiles_ /\ Consistent(files_, linkfiles_)
    BY <1>1, MountedIsStored
  <2>3. \A n \in Names : rfiles[n] < id /\ rfiles[n] # id
    BY <1>1, <2>2, NamespaceAssumption DEF IInv, TypeOK, TableType, Below, Files, NoFile
  <2>4. files = Named(rfiles, id, {name}) /\ links = [rlinks EXCEPT ![id] = {name}]
    BY <2>2, <2>3 DEF Named, IInv, TypeOK, TableType
  <2>5. files \in TableType /\ links \in LinksType /\ Consistent(files, links)
    BY <1>1, <2>2, <2>4, NamedConsistent DEF IInv, TypeOK
  <2>6. Stores(files, links)
    <3>1. Recoverable /\ {name} \in SUBSET Names
      BY <1>1 DEF IInv
    <3>2. \A n \in {name} : rfiles[n] \in {NoFile, id}
      BY <1>1, <2>2
    <3>3. \E n \in Names : {name} = {n}
      BY <1>1
    <3>4. Stores(Named(rfiles, id, {name}), [rlinks EXCEPT ![id] = {name}])
      BY <1>1, <1>4, <3>1, <3>2, <3>3, ReplayStores
    <3> QED
      BY <2>4, <3>4
  <2>7. Below(files, next_file_id_')
    BY <1>1, <2>2, <2>3 DEF Below, IInv, TypeOK, TableType, Files, NoFile
  <2>8. IInv'
    BY <1>4, <2>1, <2>5, <2>6, <2>7, TableStep
  <2>9. Promise!Create(name, id)
    BY <1>1, <2>2, <2>3, <2>6 DEF Promise!Create, Promise!Free, Stores
  <2> QED
    BY <1>1, <2>8, <2>9 DEF Promise!Next
<1> QED
  BY <1>3, <1>4 DEF CreatePersist

LEMMA RenamePersistStep ==
  ASSUME IInv, RenamePersist
  PROVE  IInv' /\ [Promise!Next]_rfiles
<1>1. /\ pc # "down" /\ name \in Names /\ dest \in Names /\ file \in Files
      /\ files_[dest] = NoFile /\ (name # dest => files_[name] = file)
      /\ next_file_id_' = next_file_id_ /\ crashes' = crashes
  BY DEF RenamePersist, IInv, RoomMade
<1>2. OpTypes' /\ RoomMade'
  BY <1>1, ReturnTypes DEF RenamePersist, IInv, TypeOK
<1>3. CASE UNCHANGED <<files_, linkfiles_, logVars>>
  BY <1>1, <1>2, <1>3, QuietStep DEF IInv, TypeOK
<1>4. CASE /\ name \in linkfiles_[file]
           /\ files_' = Renamed /\ linkfiles_' = Relinked
           /\ Replay(file, Relinked[file]) \/ Snapshot(Renamed, Relinked)
  <2> DEFINE names == (linkfiles_[file] \ {name}) \cup {dest}
  <2>1. rfiles = files_ /\ rlinks = linkfiles_ /\ Consistent(files_, linkfiles_)
    BY <1>1, MountedIsStored
  <2>2. files_[name] = file /\ name # dest
    BY <1>1, <1>4, <2>1 DEF Consistent, Files, NoFile
  <2>3. names \in SUBSET Names /\ \A n \in names : rfiles[n] \in {NoFile, file}
    BY <1>1, <2>1 DEF Consistent, IInv, TypeOK, LinksType
  <2>4. Relinked = [rlinks EXCEPT ![file] = names] /\ Relinked[file] = names
    BY <1>1, <2>1 DEF Relinked, IInv, TypeOK, LinksType
  <2>5. Renamed = Named(rfiles, file, names)
    <3>1. \A n \in Names : files_[n] = file <=> n \in linkfiles_[file]
      BY <1>1, <2>1 DEF Consistent
    <3> QED
      BY <1>1, <2>1, <2>2, <3>1 DEF Renamed, Named, IInv, TypeOK, TableType
  <2>6. Renamed \in TableType /\ Relinked \in LinksType /\ Consistent(Renamed, Relinked)
    BY <1>1, <2>1, <2>3, <2>4, <2>5, NamedConsistent DEF IInv, TypeOK
  <2>7. Stores(Renamed, Relinked)
    <3>1. CASE Replay(file, names)
      <4>1. \E n \in Names : rfiles[n] = file
        BY <1>1, <2>1, <2>2
      <4> QED
        BY <1>1, <2>3, <2>4, <2>5, <3>1, <4>1, ReplayStores DEF IInv
    <3>2. CASE Snapshot(Renamed, Relinked)
      BY <2>6, <3>2, SnapshotStores
    <3> QED
      BY <1>4, <2>4, <3>1, <3>2
  <2>8. Below(Renamed, next_file_id_)
    BY <1>1, <2>2, NamespaceAssumption DEF Below, Renamed, IInv, TypeOK, TableType, Files, NoFile
  <2>9. IInv'
    BY <1>1, <1>2, <1>4, <2>6, <2>7, <2>8, TableStep
  <2>10. Promise!Rename(name, dest)
    <3>1. rfiles' = [rfiles EXCEPT ![dest] = rfiles[name], ![name] = NoFile]
      BY <1>1, <2>1, <2>2, <2>7 DEF Stores, Renamed, IInv, TypeOK, TableType
    <3>2. rfiles[name] # NoFile /\ rfiles[dest] = NoFile
      BY <1>1, <2>1, <2>2 DEF Files, NoFile
    <3> QED
      BY <3>1, <3>2 DEF Promise!Rename, Promise!Free
  <2> QED
    BY <1>1, <2>9, <2>10 DEF Promise!Next
<1> QED
  BY <1>3, <1>4 DEF RenamePersist, Unpersisted

LEMMA LinkFileStep ==
  ASSUME IInv, NEW n \in Names, NEW new \in Names, LinkFile(n, new)
  PROVE  IInv' /\ [Promise!Next]_rfiles
<1> DEFINE f == files_[n]
           names == linkfiles_[f] \cup {new}
<1>1. /\ pc # "down" /\ f \in Files /\ files_[new] = NoFile
      /\ next_file_id_' = next_file_id_ /\ crashes' = crashes
  BY DEF LinkFile, Exists, IInv, TypeOK, TableType
<1>2. OpTypes' /\ RoomMade'
  BY <1>1, ReturnTypes DEF LinkFile, IInv, TypeOK
<1>3. CASE Unpersisted
  BY <1>1, <1>2, <1>3, QuietStep DEF Unpersisted, IInv, TypeOK
<1>4. CASE /\ files_' = WithLink(n, new) /\ linkfiles_' = Linked(n, new)
           /\ Replay(f, names) \/ Snapshot(WithLink(n, new), Linked(n, new))
  <2>1. rfiles = files_ /\ rlinks = linkfiles_ /\ Consistent(files_, linkfiles_)
    BY <1>1, MountedIsStored
  <2>2. names \in SUBSET Names /\ \A m \in names : rfiles[m] \in {NoFile, f}
    BY <1>1, <2>1 DEF Consistent, IInv, TypeOK, LinksType
  <2>3. Linked(n, new) = [rlinks EXCEPT ![f] = names]
    BY <1>1, <2>1 DEF Linked, IInv, TypeOK, LinksType
  <2>4. WithLink(n, new) = Named(rfiles, f, names)
    <3>1. \A m \in Names : files_[m] = f <=> m \in linkfiles_[f]
      BY <1>1, <2>1 DEF Consistent
    <3> QED
      BY <1>1, <2>1, <3>1 DEF WithLink, Named, IInv, TypeOK, TableType
  <2>5. /\ WithLink(n, new) \in TableType /\ Linked(n, new) \in LinksType
        /\ Consistent(WithLink(n, new), Linked(n, new))
    <3>1. rfiles \in TableType /\ rlinks \in LinksType /\ Consistent(rfiles, rlinks)
      BY <2>1 DEF IInv, TypeOK
    <3>2. f \in Files
      BY <1>1
    <3> HIDE DEF f, names
    <3>3. /\ Named(rfiles, f, names) \in TableType
          /\ [rlinks EXCEPT ![f] = names] \in LinksType
          /\ Consistent(Named(rfiles, f, names), [rlinks EXCEPT ![f] = names])
      BY <2>2, <3>1, <3>2, NamedConsistent
    <3> QED
      BY <2>3, <2>4, <3>3
  <2>6. Stores(WithLink(n, new), Linked(n, new))
    <3>1. CASE Replay(f, names)
      <4>1. \E m \in Names : rfiles[m] = f
        BY <2>1
      <4>2. f \in Files /\ Recoverable
        BY <1>1 DEF IInv
      <4> HIDE DEF f, names
      <4>3. Stores(Named(rfiles, f, names), [rlinks EXCEPT ![f] = names])
        BY <2>2, <3>1, <4>1, <4>2, ReplayStores
      <4> QED
        BY <2>3, <2>4, <4>3
    <3>2. CASE Snapshot(WithLink(n, new), Linked(n, new))
      BY <2>5, <3>2, SnapshotStores
    <3> QED
      BY <1>4, <3>1, <3>2
  <2>7. Below(WithLink(n, new), next_file_id_)
    BY NamespaceAssumption DEF Below, WithLink, IInv, TypeOK, TableType
  <2>8. IInv'
    BY <1>1, <1>2, <1>4, <2>5, <2>6, <2>7, TableStep
  <2>9. Promise!Link(n, new)
    BY <1>1, <2>1, <2>6 DEF Promise!Link, Promise!Free, Stores, WithLink, Files, NoFile
  <2> QED
    BY <2>8, <2>9 DEF Promise!Next
<1> QED
  BY <1>3, <1>4 DEF LinkFile

LEMMA SyncStep ==
  ASSUME IInv, NEW f \in Files, SyncFileMetadata(f)
  PROVE  IInv' /\ rfiles' = rfiles
<1>1. /\ pc # "down" /\ linkfiles_[f] # {} /\ UNCHANGED <<memVars, opVars, s, crashes>>
  BY DEF SyncFileMetadata
<1>2. rfiles = files_ /\ rlinks = linkfiles_ /\ Consistent(files_, linkfiles_)
  BY <1>1, MountedIsStored
<1>3. OpTypes' /\ RoomMade'
  BY <1>1 DEF OpTypes, RoomMade, IInv, TypeOK, memVars, opVars
<1>4. linkfiles_[f] \in SUBSET Names /\ \A n \in Names : files_[n] = f <=> n \in linkfiles_[f]
  BY <1>2 DEF Consistent, IInv, TypeOK, LinksType
<1>5. /\ Named(rfiles, f, linkfiles_[f]) = files_
      /\ [rlinks EXCEPT ![f] = linkfiles_[f]] = linkfiles_
  BY <1>2, <1>4 DEF Named, IInv, TypeOK, TableType, LinksType
<1>6. Stores(files_, linkfiles_)
  <2>1. CASE Replay(f, linkfiles_[f])
    <3>1. \E n \in Names : rfiles[n] = f
      BY <1>1, <1>2, <1>4
    <3>2. \A n \in linkfiles_[f] : rfiles[n] \in {NoFile, f}
      BY <1>2, <1>4
    <3> QED
      BY <1>4, <1>5, <2>1, <3>1, <3>2, ReplayStores DEF IInv
  <2>2. CASE Snapshot(files_, linkfiles_)
    BY <1>2, <2>2, SnapshotStores DEF IInv, TypeOK
  <2> QED
    BY <2>1, <2>2 DEF SyncFileMetadata
<1>7. IInv'
  BY <1>1, <1>2, <1>3, <1>6, TableStep DEF IInv, TypeOK, memVars
<1> QED
  BY <1>2, <1>6, <1>7 DEF Stores

LEMMA CrashStep ==
  ASSUME IInv, Crash
  PROVE  IInv' /\ rfiles' = rfiles
<1>1. Recoverable' /\ rfiles' = rfiles
  BY DEF Crash, IInv, Recoverable, Consistent, Below, logVars
<1>2. TypeOK' /\ MountFindsNames' /\ RoomMade'
  BY NamespaceAssumption
     DEF Crash, IInv, TypeOK, MountFindsNames, RoomMade, Empty, NoLinks, TableType, LinksType, logVars
<1>3. LinksMatch' /\ Below(files_, next_file_id_)'
  BY DEF Crash, LinksMatch, Below, Empty, NoLinks, Files, NoFile
<1> QED
  BY <1>1, <1>2, <1>3 DEF IInv

LEMMA MountStep ==
  ASSUME IInv, Mount
  PROVE  IInv' /\ rfiles' = rfiles
<1>1. Stores(rfiles, rlinks)
  BY SnapshotStores DEF Mount, IInv, Recoverable
<1>2. OpTypes' /\ RoomMade'
  BY DEF Mount, OpTypes, RoomMade, IInv, TypeOK, Recoverable
<1>3. IInv'
  BY <1>1, <1>2, TableStep DEF Mount, IInv, Recoverable
<1> QED
  BY <1>1, <1>3 DEF Stores

----------------------------------------------------------------------------
LEMMA InitIInv ==
  ASSUME Init
  PROVE  IInv /\ Promise!Init
<1>1. TypeOK
  BY NamespaceAssumption
     DEF Init, TypeOK, TableType, LinksType, Empty, NoLinks
<1>2. LinksMatch /\ MountFindsNames /\ RoomMade
  BY DEF Init, LinksMatch, MountFindsNames, RoomMade, Empty, NoLinks, Files, NoFile
<1>3. Recoverable /\ Below(files_, next_file_id_)
  BY <1>1 DEF Init, TypeOK, Recoverable, Consistent, Below, Empty, NoLinks, Files, NoFile
<1> QED
  BY <1>1, <1>2, <1>3 DEF IInv, Init, Promise!Init, Empty

LEMMA NextIInv ==
  ASSUME ~RollAtCreate, IInv, [Next]_vars
  PROVE  IInv' /\ [Promise!Next]_rfiles
<1>1. CASE UNCHANGED vars
  BY <1>1 DEF vars, IInv, TypeOK, LinksMatch, MountFindsNames, Recoverable, Consistent, Below, RoomMade
<1>2. CASE Next
  BY <1>2, DeleteFileStep, CreateStartStep, RenameStartStep, LinkFileStep, CreatePersistStep,
     RenamePersistStep, SyncStep, CrashStep, MountStep DEF Next
<1> QED
  BY <1>1, <1>2

(* As long as no creation falls together with a roll of the log, every      *)
(* mount finds the names that create, delete, rename and link left, with    *)
(* failing writes and with crashes between the two records of an operation. *)
THEOREM MountFindsNamesCorrect ==
  ASSUME ~RollAtCreate
  PROVE  Spec => []MountFindsNames
<1>1. Init => IInv
  BY InitIInv
<1>2. IInv /\ [Next]_vars => IInv'
  BY NextIInv
<1>3. IInv => MountFindsNames
  BY DEF IInv
<1> QED
  BY <1>1, <1>2, <1>3, PTL DEF Spec

(* The table and the link names agree, so that RenameLink and               *)
(* RemoveLinkName find the names they are called with.                      *)
THEOREM LinksMatchCorrect ==
  ASSUME ~RollAtCreate
  PROVE  Spec => []LinksMatch
<1>1. Init => IInv
  BY InitIInv
<1>2. IInv /\ [Next]_vars => IInv'
  BY NextIInv
<1>3. IInv => LinksMatch
  BY DEF IInv
<1> QED
  BY <1>1, <1>2, <1>3, PTL DEF Spec

(* Every table, link set, file number and thread position stays in its      *)
(* range, across replays, torn records and restarts.                        *)
THEOREM NamespaceTypeCorrect ==
  ASSUME ~RollAtCreate
  PROVE  Spec => []TypeOK
<1>1. Init => IInv
  BY InitIInv
<1>2. IInv /\ [Next]_vars => IInv'
  BY NextIInv
<1>3. IInv => TypeOK
  BY DEF IInv
<1> QED
  BY <1>1, <1>2, <1>3, PTL DEF Spec

(* The namespace on the device implements Directory.                        *)
THEOREM DirectoryCorrect ==
  ASSUME ~RollAtCreate
  PROVE  Spec => ImplementsDirectory
<1>1. Init => IInv /\ Promise!Init
  BY InitIInv
<1>2. IInv /\ [Next]_vars => IInv' /\ [Promise!Next]_rfiles
  BY NextIInv
<1> QED
  BY <1>1, <1>2, PTL DEF Spec, ImplementsDirectory, Promise!Spec
=============================================================================
