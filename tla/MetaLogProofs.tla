--------------------------- MODULE MetaLogProofs ----------------------------
(***************************************************************************)
(* Crash consistency of the metadata log for records of one block: a mount  *)
(* finds a zone to recover from, and no file that was deleted comes back.   *)
(***************************************************************************)
EXTENDS MetaTypeProofs

(* The solver for the leaves that do not name Zenon.                         *)
USE SMTT(60)

(* Crash consistency.                                                       *)
RollLabels == {"end", "finish", "super", "encode", "snap", "synced"}
LiveZone == IF pc \in RollLabels \ {"synced"} THEN old_meta_log ELSE meta_log_

(* The zone a mount takes, and the others.                                  *)
Newest(z) ==
  /\ HasSuperblock(z) /\ At(z).ok /\ At(z).found
  /\ \A y \in Zones \ {z} :
       HasSuperblock(y) /\ (At(y).found \/ ~At(y).ok) => log[y][1].seq < log[z][1].seq

(* How far a roll is.                                                       *)
RollFit ==
  /\ \A z \in Zones : log[z] = <<>> \/ HasSuperblock(z)
  /\ IF pc \in RollLabels THEN old_meta_log \in Zones \ {meta_log_} ELSE old_meta_log = NoZone
  /\ pc # "down" =>
       /\ busy_[meta_log_]
       /\ (op = "mount" /\ pc \in {"roll", "fail"})
            \/ (~finished[meta_log_] /\ ~HasEnd(log[meta_log_]))
       /\ sequence_ = log[LiveZone][1].seq
                      + (IF pc \in {"super", "encode", "snap"} THEN 1 ELSE 0)
  /\ pc \in {"end", "finish", "super"} => log[meta_log_] = <<>>
  /\ pc \in {"encode", "snap"} => log[meta_log_] = <<Super(sequence_)>>
  /\ pc = "end" => rec = EndRec /\ GetCapacityLeft(old_meta_log) > 0
  /\ pc = "finish" => GetCapacityLeft(old_meta_log) = 0 \/ HasEnd(log[old_meta_log])
  /\ pc = "super" => rec = Super(sequence_)
  /\ pc = "snap" => rec.k = "snap" /\ DOMAIN rec.table = files_

(* The file of the operation and its record.                                *)
Before == pc \notin {"down", "idle", "reopen", "ack", "synced"}
OpFit ==
  /\ pc \in {"idle", "down"} => op = "none"
  /\ pc = "reopen" => op = "reopen"
  /\ op # "mkfs" /\ (op = "delete" => "delete" \in Ops) /\ (op = "create" => "create" \in Ops)
  /\ op \in {"sync", "close", "replace", "reopen"} => file \in files_
  /\ op \in {"create", "delete"} => file \notin files_ \cup gone
  /\ pc = "add" => /\ rec.file = file /\ op # "reopen"
                   /\ rec.k = IF op = "delete" THEN "del"
                              ELSE IF op = "replace" THEN "rep" ELSE "upd"

(* The files a mount would find.                                            *)
Listed(z) ==
  LET found == DOMAIN At(z).table
  IN  /\ gone \cap (found \cup files_) = {}
      /\ pc = "down" \/
           IF op = "delete" /\ Before THEN found = files_ \cup {file}
           ELSE IF op = "create" /\ pc = "ack" THEN found \subseteq files_ \cup {file}
           ELSE found \subseteq files_ /\ ("delete" \in Ops => found = files_)

Live(z) == Newest(z) /\ (pc # "down" => z = LiveZone)
LogInv == RollFit /\ OpFit /\ \E z \in Zones : Live(z) /\ Listed(z)

-----------------------------------------------------------------------------
(* Reading a zone whose records have one block.                             *)
OneBlock == SnapBlocks = 1 /\ UpdateBlocks = 1

(* A record of one block is never torn: only the missing end record of a    *)
(* full zone cannot be read.                                                *)
LEMMA OneBlockRead ==
  ASSUME OneBlock, NEW l, NEW full
  PROVE  Unreadable(l, full) <=> full /\ EndAt(l) > Len(l)
<1>1. \A k : Size(k) = 1
  BY Zenon DEF Size, OneBlock
<1>2. ASSUME NEW i \in DOMAIN Body(l) PROVE ~Torn(l, i)
  <2>1. i \in Int
    BY DEF Body
  <2> QED
    BY <1>1, <2>1 DEF Torn
<1> QED
  BY <1>2, Zenon DEF Unreadable

(* So reading begins without an error.                                      *)
LEMMA StartIs ==
  ASSUME OneBlock, NEW l \in Seq(Record), NEW full \in BOOLEAN, ~full \/ HasEnd(l)
  PROVE  Start(l, full) = [ok |-> TRUE, found |-> FALSE, table |-> NoTable]
<1>1. Unreadable(l, full) <=> full /\ EndAt(l) > Len(l)
  BY OneBlockRead, Zenon
<1>2. EndAt(l) \in Nat /\ Len(l) \in Nat /\ (EndAt(l) <= Len(l) <=> HasEnd(l))
  BY EndFacts
<1>3. ~Unreadable(l, full)
  BY <1>1, <1>2
<1>4. (~Unreadable(l, full)) = TRUE
  BY <1>3, Zenon
<1> QED
  BY <1>4, Zenon DEF Start

(* A zone ends when its end record is appended.                             *)
LEMMA HasEndAppend ==
  ASSUME NEW l \in Seq(Record), NEW r \in Record
  PROVE  HasEnd(Append(l, r)) <=> HasEnd(l) \/ r.k = "end"
<1>1. /\ Len(Append(l, r)) = Len(l) + 1 /\ Append(l, r)[Len(l) + 1] = r
      /\ \A i \in 1..Len(l) : Append(l, r)[i] = l[i]
  OBVIOUS
<1> QED
  BY <1>1 DEF HasEnd

(* A record appended to a zone that was not ended is replayed last.         *)
LEMMA StateAppend ==
  ASSUME OneBlock, NEW l \in Seq(Record), NEW r \in Record, ~HasEnd(l), r.k # "end"
  PROVE  State(Append(l, r), FALSE) = Replay(State(l, FALSE), r)
<1> DEFINE m == Append(l, r)
<1>1. m \in Seq(Record) /\ ~HasEnd(m)
  BY HasEndAppend
<1> HIDE DEF m
<1>2. Body(m) = m /\ Body(l) = l
  BY <1>1, BodyFacts, Zenon
<1>3. Start(m, FALSE) = Start(l, FALSE)
  BY <1>1, StartIs, Zenon
<1>4. Replayed(m, Start(l, FALSE)) = Replay(Replayed(l, Start(l, FALSE)), r)
  BY ReplayedAppend, Zenon DEF m
<1> QED
  BY <1>2, <1>3, <1>4, Zenon DEF State, m

(* An end record hides nothing, neither the first one nor a further one.    *)
LEMMA StateEnd ==
  ASSUME OneBlock, NEW l \in Seq(Record), NEW full \in BOOLEAN
  PROVE  State(Append(l, EndRec), full) = State(l, FALSE)
<1> DEFINE m == Append(l, EndRec)
<1>1. /\ m \in Seq(Record) /\ Len(m) = Len(l) + 1 /\ m[Len(l) + 1] = EndRec
      /\ \A i \in 1..Len(l) : m[i] = l[i]
  BY RecordForms
<1>2. HasEnd(m)
  BY HasEndAppend, RecordForms, Zenon DEF EndRec
<1> HIDE DEF m
<1>3. Start(m, full) = Start(l, FALSE)
  BY <1>1, <1>2, StartIs, Zenon
<1>4. EndAt(m) = EndAt(l)
  <2>1. /\ EndAt(l) \in 1..(Len(l) + 1) /\ EndAt(m) \in 1..(Len(m) + 1)
        /\ EndAt(m) <= Len(m) /\ m[EndAt(m)].k = "end"
        /\ \A i \in 1..(EndAt(m) - 1) : m[i].k # "end"
        /\ \A i \in 1..(EndAt(l) - 1) : l[i].k # "end"
        /\ EndAt(l) <= Len(l) => l[EndAt(l)].k = "end"
    BY <1>1, <1>2, EndFacts, Zenon
  <2>2. m[EndAt(l)].k = "end"
    BY <1>1, <2>1 DEF EndRec
  <2>3. ~(EndAt(l) < EndAt(m))
    BY <2>1, <2>2
  <2>4. ~(EndAt(m) < EndAt(l))
    BY <1>1, <2>1
  <2> QED
    BY <2>1, <2>3, <2>4
<1>5. Body(m) = Body(l)
  <2>1. EndAt(l) \in 1..(Len(l) + 1)
    BY EndFacts, Zenon
  <2> QED
    BY <1>1, <1>4, <2>1 DEF Body
<1> QED
  BY <1>3, <1>5, Zenon DEF State, m

(* Finishing a zone that has its end record loses nothing.                  *)
LEMMA StateFinished ==
  ASSUME OneBlock, NEW l \in Seq(Record), HasEnd(l)
  PROVE  State(l, TRUE) = State(l, FALSE)
BY StartIs, Zenon DEF State

(* The two records a roll writes.                                           *)
LEMMA StateSuper ==
  ASSUME OneBlock, NEW n \in Nat
  PROVE  /\ State(<<Super(n)>>, FALSE) = [ok |-> TRUE, found |-> FALSE, table |-> NoTable]
         /\ ~HasEnd(<<Super(n)>>)
<1> DEFINE e == <<>>
<1>1. e \in Seq(Record) /\ Append(e, Super(n)) = <<Super(n)>> /\ ~HasEnd(e) /\ Super(n) \in Record
      /\ Super(n).k = "super"
  BY RecordForms DEF HasEnd, Super
<1>2. State(e, FALSE) = [ok |-> TRUE, found |-> FALSE, table |-> NoTable]
  <2>1. Start(e, FALSE) = [ok |-> TRUE, found |-> FALSE, table |-> NoTable]
    BY <1>1, StartIs, Zenon
  <2>2. Body(e) = e
    BY <1>1, BodyFacts, Zenon
  <2> QED
    BY <2>1, <2>2, ReplayedEmpty, Zenon DEF State
<1>3. State(Append(e, Super(n)), FALSE) = Replay(State(e, FALSE), Super(n))
  BY <1>1, StateAppend, Zenon
<1>4. Replay(State(e, FALSE), Super(n)) = State(e, FALSE)
  BY <1>1, Zenon DEF Replay
<1>5. ~HasEnd(Append(e, Super(n)))
  BY <1>1, HasEndAppend, Zenon
<1> QED
  BY <1>1, <1>2, <1>3, <1>4, <1>5, Zenon

(* A superblock and a snapshot recover the table of the snapshot.           *)
LEMMA StateSnap ==
  ASSUME OneBlock, NEW n \in Nat, NEW r \in Record, r.k = "snap"
  PROVE  /\ State(Append(<<Super(n)>>, r), FALSE).ok /\ State(Append(<<Super(n)>>, r), FALSE).found
         /\ State(Append(<<Super(n)>>, r), FALSE).table = r.table
         /\ ~HasEnd(Append(<<Super(n)>>, r))
<1> DEFINE l == <<Super(n)>>
<1>1. l \in Seq(Record)
  BY RecordForms
<1>2. State(l, FALSE) = [ok |-> TRUE, found |-> FALSE, table |-> NoTable] /\ ~HasEnd(l)
  BY StateSuper, Zenon
<1> HIDE DEF l
<1>3. State(Append(l, r), FALSE) = Replay(State(l, FALSE), r)
  BY <1>1, <1>2, StateAppend, Zenon
<1>4. /\ Replay(State(l, FALSE), r).ok /\ Replay(State(l, FALSE), r).found
      /\ Replay(State(l, FALSE), r).table = r.table
  <2> DEFINE st == [ok |-> TRUE, found |-> FALSE, table |-> NoTable]
  <2>1. Replay(st, r) = [st EXCEPT !.found = TRUE, !.table = r.table]
    <3> HIDE DEF st
    <3> QED
      BY Zenon DEF Replay
  <2> QED
    BY <1>2, <2>1, Zenon
<1>5. ~HasEnd(Append(l, r))
  BY <1>1, <1>2, HasEndAppend, Zenon
<1> QED
  BY <1>3, <1>4, <1>5, Zenon DEF l

(* A mount takes the newest zone.                                           *)
LEMMA RecoveryIs ==
  ASSUME LogTypes, NEW z \in Zones, Newest(z), \A y \in Zones : log[y] = <<>> \/ HasSuperblock(y)
  PROVE  Recovery.ok /\ Recovery.zone = z /\ Recovery.table = At(z).table
<1>1. \A y \in Zones : ~Foreign(y)
  BY Zenon DEF Foreign
<1>2. \A y \in Zones : At(y).ok \in BOOLEAN /\ At(y).found \in BOOLEAN
  BY AtTyped, Zenon DEF StateType
<1>3. \A y \in Zones : y \in Found <=> HasSuperblock(y) /\ (At(y).found \/ ~At(y).ok)
  BY <1>2, RecoverIs, Zenon DEF Found
<1>4. z \in Found
  BY <1>3, Zenon DEF Newest
<1>5. PICK y \in Found : (\A x \in Found \ {y} : Newer(y, x)) /\ Recovery = Recovered(y)
  BY <1>1, <1>4, RecoveryForm, Zenon
<1>6. y = z
  <2> SUFFICES ASSUME y # z PROVE FALSE
    BY Zenon
  <2>1. Newer(y, z) /\ y \in Zones
    BY <1>4, <1>5, Zenon DEF Found
  <2>2. log[y][1].seq < log[z][1].seq
    BY <1>3, <1>5, <2>1, Zenon DEF Newest
  <2>3. log[y][1].seq \in Nat /\ log[z][1].seq \in Nat
    BY <1>3, <1>4, <1>5, <2>1, FoundNumbered, Zenon DEF Newest
  <2> QED
    BY <2>1, <2>2, <2>3 DEF Newer
<1>7. RecoverFrom(log[z], finished[z]).status = "OK"
  BY RecoverIs, Zenon DEF Newest
<1> QED
  BY <1>5, <1>6, <1>7, RecoverIs, Zenon DEF Recovered

-----------------------------------------------------------------------------
(* Crash consistency: every step keeps a newest zone.                       *)
Limits ==
  /\ OneBlock /\ "write" \notin Faults
  /\ "mkfs" \notin Ops /\ ("create" \notin Ops \/ "delete" \notin Ops)

(* Steps that leave the zones alone leave what is read from them.           *)
LEMMA ZonesSame ==
  ASSUME UNCHANGED devVars, NEW z \in Zones
  PROVE  /\ At(z)' = At(z) /\ HasSuperblock(z)' = HasSuperblock(z)
         /\ Newest(z) => Newest(z)'
<1>1. log' = log /\ finished' = finished
  BY Zenon DEF devVars
<1>2. \A y \in Zones : At(y)' = At(y) /\ HasSuperblock(y)' = HasSuperblock(y)
  BY <1>1, Zenon DEF At, HasSuperblock
<1> QED
  BY <1>1, <1>2, Zenon DEF Newest

(* A step that changes one zone only, and not the live one.                 *)
LEMMA OtherZone ==
  ASSUME LogTypes, NEW z \in Zones, Newest(z), NEW x \in Zones \ {z},
         \A y \in Zones \ {x} : log'[y] = log[y] /\ finished'[y] = finished[y],
         ~(HasSuperblock(x)' /\ (At(x)'.found \/ ~At(x)'.ok))
  PROVE  Newest(z)' /\ At(z)' = At(z)
<1>1. \A y \in Zones \ {x} : At(y)' = At(y) /\ HasSuperblock(y)' = HasSuperblock(y)
  BY Zenon DEF At, HasSuperblock
<1> QED
  BY <1>1, Zenon DEF Newest

(* A step that changes the live zone only.                                  *)
LEMMA SameZone ==
  ASSUME NEW z \in Zones, Newest(z),
         \A y \in Zones \ {z} : log'[y] = log[y] /\ finished'[y] = finished[y],
         HasSuperblock(z)', log'[z][1] = log[z][1], At(z)'.ok, At(z)'.found
  PROVE  Newest(z)'
<1>1. \A y \in Zones \ {z} : At(y)' = At(y) /\ HasSuperblock(y)' = HasSuperblock(y)
  BY Zenon DEF At, HasSuperblock
<1> QED
  BY <1>1, Zenon DEF Newest

(* And the invariant, when they leave the log and the operation alone.      *)
LEMMA LogSame ==
  ASSUME RollFit, OpFit, NEW z \in Zones, Live(z), Listed(z),
         UNCHANGED <<devVars, files_, logVars, pc, op, file, rec, gone>>
  PROVE  RollFit' /\ OpFit' /\ Live(z)' /\ Listed(z)' /\ At(z)' = At(z)
<1>1. /\ log' = log /\ finished' = finished /\ busy_' = busy_ /\ files_' = files_
      /\ meta_log_' = meta_log_ /\ old_meta_log' = old_meta_log /\ sequence_' = sequence_
      /\ pc' = pc /\ op' = op /\ file' = file /\ rec' = rec /\ gone' = gone
  BY Zenon DEF devVars, logVars
<1>2. At(z)' = At(z) /\ (Newest(z) => Newest(z)')
  BY ZonesSame, Zenon
<1>3. RollFit'
  BY <1>1, Zenon DEF RollFit, LiveZone, HasSuperblock, HasEnd, GetCapacityLeft
<1>4. OpFit'
  BY <1>1, Zenon DEF OpFit
<1>5. Live(z)' /\ Listed(z)'
  BY <1>1, <1>2, Zenon DEF Live, LiveZone, Listed, Before
<1> QED
  BY <1>2, <1>3, <1>4, <1>5, Zenon

(* A step before, after or outside a roll that leaves the zones alone.       *)
LEMMA NoRoll ==
  ASSUME RollFit, NEW z \in Zones, Live(z), UNCHANGED <<devVars, logVars>>,
         pc \notin RollLabels \cup {"down"}, pc' \notin RollLabels \cup {"down"},
         op = "mount" /\ pc \in {"roll", "fail"} => op' = "mount" /\ pc' \in {"roll", "fail"}
  PROVE  RollFit' /\ Live(z)' /\ At(z)' = At(z)
<1>1. /\ log' = log /\ finished' = finished /\ busy_' = busy_
      /\ meta_log_' = meta_log_ /\ old_meta_log' = old_meta_log /\ sequence_' = sequence_
  BY Zenon DEF devVars, logVars
<1>2. At(z)' = At(z) /\ (Newest(z) => Newest(z)')
  BY ZonesSame, Zenon
<1>3. LiveZone = meta_log_ /\ LiveZone' = meta_log_
  BY <1>1, Zenon DEF LiveZone
<1>4. RollFit'
  BY <1>1, <1>3, Zenon DEF RollFit, RollLabels, HasSuperblock
<1> QED
  BY <1>1, <1>2, <1>3, <1>4, Zenon DEF Live

(* What writing the one block of a record does.                             *)
LEMMA OneWrite ==
  ASSUME Limits, TypeInv, RollFit, WriteBlock
  PROVE  /\ Target \in Zones /\ rec \in Record
         /\ log'[Target] = Append(log[Target], rec) /\ log[Target] \in Seq(Record)
         /\ \A y \in Zones \ {Target} : log'[y] = log[y]
         /\ pc \in {"add", "end", "super", "snap"} /\ pc' = After(pc) /\ finished' = finished
         /\ UNCHANGED <<files_, logVars, op, file, rec, gone>>
<1>1. left = 1 /\ Size(rec.k) = 1
  BY DEF TypeInv, OpTypes, RoomFit, WriteBlock, Limits, OneBlock, Size
<1>2. Target \in Zones
  BY ZoneFacts, Zenon DEF TypeInv, LogTypes, RoomFit, WriteBlock, Writing, Target
<1>3. log' = [log EXCEPT ![Target] = Append(log[Target], rec)] /\ pc' = After(pc)
  BY <1>1, Zenon DEF WriteBlock
<1>4. log'[Target] = Append(log[Target], rec) /\ \A y \in Zones \ {Target} : log'[y] = log[y]
  BY <1>2, <1>3, Zenon DEF TypeInv, LogTypes
<1> QED
  BY <1>2, <1>3, <1>4, Zenon DEF TypeInv, LogTypes, OpTypes, WriteBlock, Writing, memVars, opVars,
     told

(* A record of a file, behind the others in the live zone.                  *)
LEMMA WriteAddLog ==
  ASSUME Limits, TypeInv, RollFit, OpFit, NEW z \in Zones, Live(z), Listed(z), WriteBlock,
         pc = "add"
  PROVE  /\ RollFit' /\ OpFit' /\ Live(z)' /\ Listed(z)'
         /\ pc' = "ack" /\ At(z)' = Replay(At(z), rec)
<1>1. /\ z = meta_log_ /\ Target = z /\ pc' = "ack" /\ LiveZone = z /\ LiveZone' = z
      /\ ~finished[z] /\ ~HasEnd(log[z])
  BY OneWrite, Zenon DEF Live, LiveZone, RollLabels, Target, After, RollFit, logVars
<1>2. /\ rec \in Record /\ log[z] \in Seq(Record) /\ log'[z] = Append(log[z], rec)
      /\ \A y \in Zones \ {z} : log'[y] = log[y]
      /\ finished' = finished /\ finished[z] = FALSE
  BY <1>1, OneWrite, Zenon DEF TypeInv, LogTypes
<1>3. /\ files_' = files_ /\ op' = op /\ file' = file /\ rec' = rec /\ gone' = gone
      /\ busy_' = busy_ /\ meta_log_' = z /\ old_meta_log' = old_meta_log /\ sequence_' = sequence_
  BY <1>1, OneWrite, Zenon DEF logVars
<1>4. /\ rec.file = file /\ op \in {"create", "sync", "close", "replace", "delete"}
      /\ file \in Files
      /\ rec.k = IF op = "delete" THEN "del" ELSE IF op = "replace" THEN "rep" ELSE "upd"
  BY Zenon DEF OpFit, TypeInv, OpTypes, FileOps
<1>5. At(z)' = Replay(At(z), rec)
  <2>1. State(Append(log[z], rec), FALSE) = Replay(State(log[z], FALSE), rec)
    BY <1>1, <1>2, <1>4, StateAppend, Zenon DEF Limits
  <2> QED
    BY <1>2, <2>1, Zenon DEF At
<1>6. At(z).ok = TRUE /\ At(z).found = TRUE /\ At(z) \in StateType
  BY AtTyped, Zenon DEF TypeInv, Live, Newest, StateType
<1>7. /\ At(z)'.ok = TRUE /\ At(z)'.found = TRUE
      /\ DOMAIN At(z)'.table = IF op = "delete" THEN DOMAIN At(z).table \ {file}
                               ELSE DOMAIN At(z).table \cup {file}
  <2>1. CASE op = "delete"
    <3>1. file \in DOMAIN At(z).table
      BY <2>1, Zenon DEF Listed, Before
    <3> QED
      BY <1>4, <1>5, <1>6, <2>1, <3>1 DEF Replay, Restrict, StateType
  <2>2. CASE op = "replace"
    BY <1>4, <1>5, <1>6, <2>2 DEF Replay, Put, StateType
  <2>3. CASE op \in {"create", "sync", "close"}
    BY <1>4, <1>5, <1>6, <2>3 DEF Replay, Put, StateType
  <2> QED
    BY <1>4, <2>1, <2>2, <2>3, Zenon
<1>8. HasSuperblock(z)' /\ log'[z][1] = log[z][1] /\ log[z] # <<>>
  <2>1. log[z] # <<>> /\ log[z][1].k = "super"
    BY Zenon DEF Live, Newest, HasSuperblock
  <2>2. Append(log[z], rec) # <<>> /\ Append(log[z], rec)[1] = log[z][1]
    BY <1>2, <2>1
  <2> QED
    BY <1>2, <2>1, <2>2, Zenon DEF HasSuperblock
<1>9. Live(z)'
  <2>1. Newest(z)'
    BY <1>2, <1>7, <1>8, SameZone, Zenon DEF Live
  <2> QED
    BY <1>1, <2>1, Zenon DEF Live
<1>10. RollFit'
  <2>1. \A y \in Zones : log'[y] = <<>> \/ HasSuperblock(y)'
    BY <1>2, <1>8, Zenon DEF RollFit, HasSuperblock
  <2>2. ~HasEnd(log'[z])
    BY <1>1, <1>2, <1>4, HasEndAppend
  <2> QED
    BY <1>1, <1>2, <1>3, <1>8, <2>1, <2>2, Zenon DEF RollFit, RollLabels
<1>11. OpFit'
  BY <1>1, <1>3, Zenon DEF OpFit
<1>12. Listed(z)'
  <2> DEFINE D == DOMAIN At(z).table
             E == DOMAIN At(z)'.table
  <2>1. gone \cap (D \cup files_) = {}
    BY Zenon DEF Listed
  <2>2. CASE op = "delete"
    <3>1. D = files_ \cup {file} /\ E = D \ {file} /\ file \notin files_
      BY <1>7, <2>2, Zenon DEF Listed, Before, OpFit
    <3> QED
      BY <1>1, <1>3, <2>1, <2>2, <3>1, Zenon DEF Listed, Before
  <2>3. CASE op = "create"
    <3>1. D \subseteq files_ /\ E = D \cup {file} /\ file \notin gone
      BY <1>7, <2>3, Zenon DEF Listed, OpFit
    <3> QED
      BY <1>1, <1>3, <2>1, <2>3, <3>1, Zenon DEF Listed, Before
  <2>4. CASE op \notin {"delete", "create"}
    <3>1. /\ D \subseteq files_ /\ ("delete" \in Ops => D = files_) /\ E = D \cup {file}
          /\ file \in files_
      BY <1>4, <1>7, <2>4, Zenon DEF Listed, OpFit
    <3> QED
      BY <1>1, <1>3, <2>1, <2>4, <3>1, Zenon DEF Listed, Before
  <2> QED
    BY <2>2, <2>3, <2>4, Zenon
<1> QED
  BY <1>1, <1>5, <1>9, <1>10, <1>11, <1>12, Zenon

(* The snapshot makes the new zone the live one.                            *)
LEMMA WriteSnapLog ==
  ASSUME Limits, TypeInv, RollFit, OpFit, NEW z \in Zones, Live(z), Listed(z), WriteBlock,
         pc = "snap", NEW x, x = meta_log_
  PROVE  /\ RollFit' /\ OpFit' /\ x \in Zones /\ Live(x)' /\ Listed(x)'
         /\ pc' = "synced" /\ At(x)'.table = rec.table
<1>1. /\ z = old_meta_log /\ Target = x /\ pc' = "synced" /\ LiveZone = z /\ LiveZone' = x
      /\ rec.k = "snap" /\ x \in Zones \ {z} /\ ~finished[x] /\ log[x] = <<Super(sequence_)>>
      /\ sequence_ \in Nat /\ sequence_ = log[z][1].seq + 1 /\ DOMAIN rec.table = files_
  BY OneWrite, ZoneFacts, Zenon DEF Live, LiveZone, RollLabels, Target, After, RollFit, logVars,
     TypeInv, LogTypes, RoomFit
<1>2. /\ rec \in Record /\ log'[x] = Append(<<Super(sequence_)>>, rec)
      /\ \A y \in Zones \ {x} : log'[y] = log[y]
      /\ finished' = finished /\ finished[x] = FALSE
  BY <1>1, OneWrite, Zenon DEF TypeInv, LogTypes
<1>3. /\ files_' = files_ /\ op' = op /\ file' = file /\ rec' = rec /\ gone' = gone
      /\ busy_' = busy_ /\ meta_log_' = meta_log_ /\ old_meta_log' = old_meta_log
      /\ sequence_' = sequence_
  BY <1>1, OneWrite, Zenon DEF logVars
<1>4. At(x)'.ok /\ At(x)'.found /\ At(x)'.table = rec.table /\ ~HasEnd(log'[x])
  <2> DEFINE l == Append(<<Super(sequence_)>>, rec)
  <2>1. /\ State(l, FALSE).ok /\ State(l, FALSE).found
        /\ State(l, FALSE).table = rec.table /\ ~HasEnd(l)
    <3>1. OneBlock /\ rec \in Record /\ rec.k = "snap" /\ sequence_ \in Nat
      BY <1>1, <1>2, Zenon DEF Limits
    <3> QED
      BY <3>1, StateSnap, Zenon
  <2> HIDE DEF l
  <2>2. log'[x] = l /\ finished'[x] = FALSE
    BY <1>2, Zenon DEF l
  <2> QED
    BY <2>1, <2>2, Zenon DEF At
<1>5. /\ log'[x] # <<>> /\ log'[x][1] = Super(sequence_) /\ log'[x][1].seq = sequence_
      /\ HasSuperblock(x)'
  <2>1. /\ Append(<<Super(sequence_)>>, rec) # <<>>
        /\ Append(<<Super(sequence_)>>, rec)[1] = Super(sequence_)
    OBVIOUS
  <2> QED
    BY <1>2, <2>1 DEF Super, HasSuperblock
<1>6. Newest(x)'
  <2>1. ASSUME NEW y \in Zones \ {x}, HasSuperblock(y)', At(y)'.found \/ ~At(y)'.ok
        PROVE  log'[y][1].seq < log'[x][1].seq
    <3>1. log'[y] = log[y] /\ At(y)' = At(y) /\ HasSuperblock(y)
      BY <1>2, <2>1, Zenon DEF At, HasSuperblock
    <3>2. log[y][1].seq \in Nat /\ log[z][1].seq \in Nat
      BY <3>1, FoundNumbered, Zenon DEF TypeInv, Live, Newest
    <3>3. y = z \/ log[y][1].seq < log[z][1].seq
      BY <2>1, <3>1, Zenon DEF Live, Newest
    <3> QED
      BY <1>1, <1>5, <3>1, <3>2, <3>3
  <2> QED
    BY <1>4, <1>5, <2>1, Zenon DEF Newest
<1>7. Live(x)'
  BY <1>1, <1>6, Zenon DEF Live
<1>8. RollFit'
  <2>1. \A y \in Zones : log'[y] = <<>> \/ HasSuperblock(y)'
    BY <1>2, <1>5, Zenon DEF RollFit, HasSuperblock
  <2>2. old_meta_log' \in Zones \ {meta_log_'} /\ busy_'[meta_log_']
    BY <1>1, <1>3, Zenon DEF RollFit
  <2>3. ~finished'[meta_log_'] /\ ~HasEnd(log'[meta_log_'])
    BY <1>2, <1>3, <1>4, Zenon
  <2>4. sequence_' = log'[LiveZone'][1].seq + 0
    BY <1>1, <1>3, <1>5
  <2> QED
    BY <1>1, <2>1, <2>2, <2>3, <2>4, Zenon DEF RollFit, RollLabels
<1>9. OpFit'
  BY <1>1, <1>3, Zenon DEF OpFit
<1>10. Listed(x)'
  <2>1. gone \cap files_ = {}
    BY Zenon DEF Listed
  <2> QED
    BY <1>1, <1>3, <1>4, <2>1, Zenon DEF Listed, Before
<1> QED
  BY <1>1, <1>4, <1>7, <1>8, <1>9, <1>10, Zenon

(* Every step keeps what a mount finds, up to the record it writes.         *)
Keeps(z) == RollFit' /\ OpFit' /\ Live(z)' /\ Listed(z)' /\ At(z)' = At(z)

(* Every other step leaves what a mount takes from z, or is made before z   *)
(* is the newest zone again.                                                *)
LEMMA LogEffect ==
  ASSUME Limits, TypeInv, RollFit, OpFit, NEW z \in Zones, Live(z), Listed(z), [Next]_vars,
         ~(WriteBlock /\ pc \in {"add", "snap"})
  PROVE  Keeps(z)
<1> USE DEF Keeps
<1>PowerOff. ASSUME PowerOff
             PROVE  Keeps(z)
  <2> USE <1>PowerOff
  <2>1. At(z)' = At(z) /\ Newest(z)' /\ log' = log /\ finished' = finished
    BY ZonesSame, Zenon DEF PowerOff, Leave, devVars, Live
  <2>2. RollFit' /\ OpFit'
    BY <2>1, Zenon DEF RollFit, RollLabels, HasSuperblock, OpFit, PowerOff, Leave
  <2>3. Live(z)' /\ Listed(z)'
    BY <2>1, Zenon DEF Live, Listed, PowerOff, Leave, told
  <2> QED
    BY <2>1, <2>2, <2>3, Zenon
<1>ReplaceStart. ASSUME NEW f \in Files, ReplaceStart(f)
                 PROVE  Keeps(z)
  <2> USE <1>ReplaceStart
  <2>1. CASE f \notin files_
    BY <2>1, LogSame, Zenon DEF ReplaceStart, opVars, told
  <2>2. CASE f \in files_
    <3>1. RollFit' /\ Live(z)' /\ At(z)' = At(z)
      BY <2>2, NoRoll, Zenon DEF ReplaceStart, Begin, RollLabels
    <3>2. OpFit'
      BY <2>2 DEF OpFit, ReplaceStart, Begin, EncodeUpdateTo, told
    <3>3. Listed(z)'
      BY <2>2, <3>1, Zenon DEF Listed, Before, OpFit, ReplaceStart, Begin, told
    <3> QED
      BY <3>1, <3>2, <3>3, Zenon
  <2> QED
    BY <2>1, <2>2, Zenon
<1>Reopen. ASSUME NEW f \in Files, Reopen(f)
           PROVE  Keeps(z)
  <2> USE <1>Reopen
  <2>1. RollFit' /\ Live(z)' /\ At(z)' = At(z)
    BY NoRoll, Zenon DEF Reopen, RollLabels
  <2>2. OpFit'
    BY Zenon DEF OpFit, Reopen, opVars, memVars, told
  <2>3. Listed(z)'
    BY <2>1, Zenon DEF Listed, Before, OpFit, Reopen, opVars, memVars, told
  <2> QED
    BY <2>1, <2>2, <2>3, Zenon
<1>AcquireWRLock. ASSUME AcquireWRLock
                  PROVE  Keeps(z)
  <2> USE <1>AcquireWRLock
  <2>1. RollFit' /\ Live(z)' /\ At(z)' = At(z)
    BY NoRoll, Zenon DEF AcquireWRLock, RollLabels, opVars
  <2>2. OpFit'
    BY Zenon DEF OpFit, AcquireWRLock, opVars, memVars, told
  <2>3. Listed(z)'
    BY <2>1, Zenon DEF Listed, Before, OpFit, AcquireWRLock, opVars, memVars, told
  <2> QED
    BY <2>1, <2>2, <2>3, Zenon
<1>CreateStart. ASSUME NEW f \in Files, CreateStart(f)
                PROVE  Keeps(z)
  <2> USE <1>CreateStart
  <2>1. RollFit' /\ Live(z)' /\ At(z)' = At(z)
    BY NoRoll, Zenon DEF CreateStart, Begin, Idle, RollLabels
  <2>2. OpFit'
    BY Zenon DEF OpFit, CreateStart, Begin, Idle, EncodeUpdateTo, Limits, memVars, told
  <2>3. Listed(z)'
    BY <2>1, Zenon DEF Listed, Before, OpFit, CreateStart, Begin, Idle, Limits, memVars, told
  <2> QED
    BY <2>1, <2>2, <2>3, Zenon
<1>SyncStart. ASSUME NEW f \in Files, NEW kind \in {"sync", "close"}, SyncStart(f, kind)
              PROVE  Keeps(z)
  <2> USE <1>SyncStart
  <2>1. RollFit' /\ Live(z)' /\ At(z)' = At(z)
    BY NoRoll, Zenon DEF SyncStart, Begin, Idle, RollLabels
  <2>2. OpFit'
    BY Zenon DEF OpFit, SyncStart, Begin, Idle, EncodeUpdateTo, memVars, told
  <2>3. Listed(z)'
    BY <2>1, Zenon DEF Listed, Before, OpFit, SyncStart, Begin, Idle, memVars, told
  <2> QED
    BY <2>1, <2>2, <2>3, Zenon
<1>DeleteStart. ASSUME NEW f \in Files, DeleteStart(f)
                PROVE  Keeps(z)
  <2> USE <1>DeleteStart
  <2>1. RollFit' /\ Live(z)' /\ At(z)' = At(z)
    BY NoRoll, Zenon DEF DeleteStart, Begin, Idle, RollLabels
  <2>2. OpFit'
    BY Zenon DEF OpFit, DeleteStart, Begin, Idle, EncodeFileDeletionTo, Listed
  <2>3. Listed(z)'
    BY <2>1, Zenon DEF Listed, Before, OpFit, DeleteStart, Begin, Idle
  <2> QED
    BY <2>1, <2>2, <2>3, Zenon
<1>RecordNoSpace. ASSUME RecordNoSpace
                  PROVE  Keeps(z)
  <2> USE <1>RecordNoSpace
  <2>2. pc = "add"
    <3> SUFFICES ASSUME pc \in {"end", "super", "snap"} PROVE FALSE
      BY Zenon DEF RecordNoSpace, Writing
    <3>1. Size(rec.k) = 1 /\ ZoneBlocks \in Nat /\ ZoneBlocks > 2
      BY LogAssumption DEF Size, Limits, OneBlock
    <3>2. CASE pc = "end"
      <4>1. GetCapacityLeft(old_meta_log) > 0 /\ Target = old_meta_log /\ old_meta_log \in Zones
        BY <3>2, Zenon DEF RollFit, RollLabels, Target
      <4>2. GetCapacityLeft(old_meta_log) \in Int
        BY <3>1, <4>1 DEF GetCapacityLeft, TypeInv, LogTypes
      <4> QED
        BY <3>1, <4>1, <4>2 DEF RecordNoSpace, NoSpace
    <3>3. CASE pc \in {"super", "snap"}
      <4>1. ~finished[meta_log_] /\ Target = meta_log_
        BY <3>3, Zenon DEF RollFit, Target
      <4>2. Len(log[meta_log_]) <= 1 /\ Len(log[meta_log_]) \in Nat
        <5>1. log[meta_log_] = <<>> \/ log[meta_log_] = <<Super(sequence_)>>
          BY <3>3, Zenon DEF RollFit
        <5>2. CASE log[meta_log_] = <<>>
          BY <5>2
        <5>3. CASE log[meta_log_] = <<Super(sequence_)>>
          <6> QED
            BY <5>3
        <5> QED
          BY <5>1, <5>2, <5>3, Zenon
      <4> QED
        BY <3>1, <4>1, <4>2 DEF RecordNoSpace, NoSpace, GetCapacityLeft
    <3> QED
      BY <3>2, <3>3, Zenon
  <2>3. pc' = "roll"
    BY <2>2, Zenon DEF RecordNoSpace
  <2>4. RollFit' /\ Live(z)' /\ At(z)' = At(z)
    BY <2>2, <2>3, NoRoll, Zenon DEF RecordNoSpace, RollLabels
  <2>5. OpFit'
    BY <2>2, <2>3, Zenon DEF OpFit, RecordNoSpace, opVars, memVars, told
  <2>6. Listed(z)'
    BY <2>2, <2>3, <2>4, Zenon DEF Listed, Before, RecordNoSpace, opVars, memVars, told
  <2> QED
    BY <2>4, <2>5, <2>6, Zenon
<1>OutOfMetaZones. ASSUME OutOfMetaZones
                   PROVE  Keeps(z)
  <2> USE <1>OutOfMetaZones
  <2>1. RollFit' /\ Live(z)' /\ At(z)' = At(z)
    BY NoRoll, Zenon DEF OutOfMetaZones, RollLabels, opVars
  <2>2. OpFit'
    BY Zenon DEF OpFit, OutOfMetaZones, opVars, memVars, told
  <2>3. Listed(z)'
    BY <2>1, Zenon DEF Listed, Before, OpFit, OutOfMetaZones, opVars, memVars, told
  <2> QED
    BY <2>1, <2>2, <2>3, Zenon
<1>EncodeSnapshot. ASSUME EncodeSnapshot
                   PROVE  Keeps(z)
  <2> USE <1>EncodeSnapshot
  <2>1. At(z)' = At(z) /\ Newest(z)' /\ log' = log /\ finished' = finished
    BY ZonesSame, Zenon DEF EncodeSnapshot, devVars, Live
  <2>6. rec'.k = "snap" /\ DOMAIN rec'.table = files_' /\ pc = "encode" /\ pc' = "snap"
    BY Zenon DEF EncodeSnapshot, EncodeSnapshotTo, memVars
  <2>2. RollFit'
    BY <2>1, <2>6, Zenon DEF RollFit, LiveZone, RollLabels, HasSuperblock, HasEnd,
       GetCapacityLeft, EncodeSnapshot, logVars, opVars
  <2>3. OpFit'
    BY <2>1, Zenon DEF OpFit, EncodeSnapshot, opVars, memVars, told
  <2>4. Live(z)'
    BY <2>1, Zenon DEF Live, LiveZone, RollLabels, EncodeSnapshot, logVars
  <2>5. Listed(z)'
    BY <2>1, Zenon DEF Listed, Before, OpFit, EncodeSnapshot, opVars, memVars, told
  <2> QED
    BY <2>1, <2>2, <2>3, <2>4, <2>5, Zenon
<1>Ack. ASSUME Ack
        PROVE  Keeps(z)
  <2> USE <1>Ack
  <2>1. RollFit' /\ Live(z)' /\ At(z)' = At(z)
    BY NoRoll, Zenon DEF Ack, Done, RollLabels
  <2>2. OpFit'
    BY Zenon DEF OpFit, Ack, Done
  <2>3. Listed(z)'
    <3>1. At(z).table = At(z).table' /\ pc = "ack" /\ pc' = "idle" /\ op' = "none"
      BY <2>1, Zenon DEF Ack, Done
    <3>2. CASE op = "create"
      BY <3>1, <3>2, Zenon DEF Listed, Before, OpFit, Limits, Ack
    <3>3. CASE op = "delete"
      BY <3>1, <3>3, Zenon DEF Listed, Before, OpFit, Limits, Ack
    <3>4. CASE op \notin {"create", "delete"}
      BY <3>1, <3>4, Zenon DEF Listed, Before, Ack
    <3> QED
      BY <3>2, <3>3, <3>4, Zenon
  <2> QED
    BY <2>1, <2>2, <2>3, Zenon
<1>Fail. ASSUME Fail
         PROVE  Keeps(z)
  <2> USE <1>Fail
  <2>1. CASE PowerOff
    BY <2>1, <1>PowerOff, Zenon
  <2>2. CASE ~PowerOff
    <3>1. At(z)' = At(z) /\ Newest(z)' /\ log' = log /\ finished' = finished
      BY <2>2, ZonesSame, Zenon DEF Fail, devVars, Live
    <3>2. /\ pc = "fail" /\ op \notin {"mount", "mkfs"} /\ Done /\ ReleaseOld
          /\ old_meta_log = NoZone /\ meta_log_ \in Zones /\ busy_[meta_log_]
      BY <2>2, Zenon DEF Fail, RollFit, RollLabels, TypeInv, LogTypes, RoomFit
    <3>3. busy_'[meta_log_]
      BY <3>2, ZoneFacts, Zenon DEF ReleaseOld
    <3>4. RollFit'
      BY <2>2, <3>1, <3>2, <3>3 DEF RollFit, LiveZone, RollLabels, HasSuperblock, HasEnd,
         Fail, Done,
         ReleaseOld
    <3>5. OpFit'
      BY <3>2, Zenon DEF OpFit, Done
    <3>6. Live(z)'
      BY <2>2, <3>1, <3>2, Zenon DEF Live, LiveZone, RollLabels, Fail, Done
    <3>7. Listed(z)'
      BY <2>2, <3>1, <3>2, Zenon DEF Listed, Before, OpFit, Fail, Done
    <3> QED
      BY <3>1, <3>4, <3>5, <3>6, <3>7, Zenon
  <2> QED
    BY <2>1, <2>2, Zenon
<1>Mount. ASSUME Mount
          PROVE  Keeps(z)
  <2> USE <1>Mount
  <2>1. At(z)' = At(z) /\ Newest(z)' /\ log' = log /\ finished' = finished
    BY ZonesSame, Zenon DEF Mount, devVars, Live
  <2>2. Recovery.zone = z /\ Recovery.table = At(z).table
    BY RecoveryIs, Zenon DEF TypeInv, Live, RollFit
  <2>3. /\ pc = "down" /\ pc' = "roll" /\ op' = "mount" /\ meta_log_' = z
        /\ files_' = DOMAIN At(z).table
        /\ sequence_' = log[z][1].seq /\ busy_' = [y \in Zones |-> y = z]
        /\ old_meta_log' = old_meta_log /\ gone' = gone
    BY <2>2 DEF Mount, told
  <2>4. old_meta_log = NoZone
    BY <2>3, Zenon DEF RollFit, RollLabels
  <2>5. RollFit'
    <3>1. LiveZone' = z /\ log[z][1].seq \in Nat
      BY <2>3, FoundNumbered, Zenon DEF LiveZone, RollLabels, TypeInv, Live, Newest
    <3>2. log'[z][1].seq + 0 = log[z][1].seq
      BY <2>1, <3>1
    <3>3. busy_'[z]
      BY <2>3, Zenon
    <3> QED
      BY <2>1, <2>3, <2>4, <3>1, <3>2, <3>3, Zenon DEF RollFit, RollLabels, HasSuperblock
  <2>6. OpFit'
    BY <2>3, Zenon DEF OpFit
  <2>7. Live(z)' /\ Listed(z)'
    BY <2>1, <2>3, Zenon DEF Live, LiveZone, RollLabels, Listed, Before
  <2> QED
    BY <2>1, <2>5, <2>6, <2>7, Zenon
<1>AllocateMetaZone. ASSUME AllocateMetaZone
                     PROVE  Keeps(z)
  <2> USE <1>AllocateMetaZone
  <2>1. PICK x \in Free : /\ log' = [log EXCEPT ![x] = <<>>]
                          /\ finished' = [finished EXCEPT ![x] = FALSE]
                          /\ busy_' = [busy_ EXCEPT ![x] = TRUE]
                          /\ meta_log_' = x /\ old_meta_log' = meta_log_
    BY Zenon DEF AllocateMetaZone
  <2>2. pc = "roll" /\ z = meta_log_ /\ x \in Zones \ {z} /\ old_meta_log' = z
    BY <2>1, Zenon DEF AllocateMetaZone, Live, LiveZone, RollLabels, RollFit, Free
  <2>3. /\ log'[x] = <<>> /\ ~finished'[x] /\ busy_'[x]
        /\ \A y \in Zones \ {x} : log'[y] = log[y] /\ finished'[y] = finished[y]
    BY <2>1, <2>2, Zenon DEF TypeInv, LogTypes
  <2>4. ~HasSuperblock(x)'
    BY <2>3, Zenon DEF HasSuperblock
  <2>5. Newest(z)' /\ At(z)' = At(z)
    BY <2>2, <2>3, <2>4, OtherZone, Zenon DEF TypeInv, Live
  <2>6. pc' \in {"end", "finish"} /\ LiveZone' = z /\ Live(z)'
    BY <2>2, <2>5, Zenon DEF AllocateMetaZone, Live, LiveZone, RollLabels
  <2>7. /\ pc' = "end" => GetCapacityLeft(z)' > 0
        /\ pc' = "finish" => GetCapacityLeft(z)' = 0
    <3>1. GetCapacityLeft(z)' = GetCapacityLeft(z)
      BY <2>2, <2>3, Zenon DEF GetCapacityLeft
    <3>2. GetCapacityLeft(z) \in Nat
      BY LogAssumption DEF GetCapacityLeft, TypeInv, LogTypes
    <3> QED
      BY <2>2, <3>1, <3>2 DEF AllocateMetaZone
  <2>8. RollFit'
    <3>1. \A y \in Zones : log'[y] = <<>> \/ HasSuperblock(y)'
      BY <2>3, Zenon DEF RollFit, HasSuperblock
    <3>2. ~HasEnd(log'[x])
      BY <2>3 DEF HasEnd
    <3>4. log[z][1].seq \in Nat /\ log'[z] = log[z]
      BY <2>2, <2>3, FoundNumbered, Zenon DEF TypeInv, Live, Newest
    <3>3. sequence_' = log'[z][1].seq
      BY <2>2, <3>4 DEF RollFit, LiveZone, RollLabels, AllocateMetaZone
    <3>5. rec' = EndRec
      BY Zenon DEF AllocateMetaZone
    <3>6. /\ old_meta_log' \in Zones \ {meta_log_'} /\ busy_'[meta_log_'] /\ ~finished'[meta_log_']
          /\ ~HasEnd(log'[meta_log_']) /\ log'[meta_log_'] = <<>>
      BY <2>1, <2>2, <2>3, <3>2, Zenon
    <3>7. sequence_' = log'[LiveZone'][1].seq + 0
      BY <2>6, <3>3, <3>4
    <3>8. /\ pc' = "end" => GetCapacityLeft(old_meta_log)' > 0
          /\ pc' = "finish" => GetCapacityLeft(old_meta_log)' = 0
      BY <2>2, <2>7, Zenon DEF GetCapacityLeft
    <3> QED
      BY <2>6, <3>1, <3>5, <3>6, <3>7, <3>8, Zenon DEF RollFit, RollLabels
  <2>9. OpFit'
    BY <2>2, <2>6, Zenon DEF OpFit, AllocateMetaZone, opVars, memVars, told
  <2>10. Listed(z)'
    BY <2>2, <2>5, <2>6, Zenon DEF Listed, Before, AllocateMetaZone, opVars, memVars, told
  <2> QED
    BY <2>5, <2>6, <2>8, <2>9, <2>10, Zenon
<1>FinishOld. ASSUME FinishOld
              PROVE  Keeps(z)
  <2> USE <1>FinishOld
  <2>1. /\ pc = "finish" /\ pc' = "super" /\ z = old_meta_log /\ z # meta_log_
        /\ meta_log_ \in Zones
        /\ meta_log_' = meta_log_ /\ old_meta_log' = old_meta_log /\ log' = log
        /\ sequence_' = sequence_ + 1 /\ rec' = Super(sequence_') /\ busy_' = busy_
        /\ sequence_ \in Nat
    BY Zenon DEF FinishOld, Live, LiveZone, RollLabels, RollFit, TypeInv, LogTypes, RoomFit
  <2>2. /\ \A y \in Zones \ {z} : finished'[y] = finished[y]
        /\ finished'[z] = finished[z] \/ (HasEnd(log[z]) /\ finished'[z] = TRUE)
    BY <2>1 DEF FinishOld, RollFit, TypeInv, LogTypes
  <2>3. At(z)' = At(z)
    <3>1. CASE finished'[z] = finished[z]
      BY <2>1, <3>1, Zenon DEF At
    <3>2. CASE HasEnd(log[z]) /\ finished'[z] = TRUE
      <4>1. State(log[z], TRUE) = State(log[z], FALSE) /\ finished[z] \in BOOLEAN
        BY <3>2, StateFinished, Zenon DEF Limits, TypeInv, LogTypes
      <4> QED
        BY <2>1, <3>2, <4>1, Zenon DEF At
    <3> QED
      BY <2>2, <3>1, <3>2, Zenon
  <2>4. Newest(z)'
    <3>1. HasSuperblock(z)' /\ At(z)'.ok /\ At(z)'.found
      BY <2>1, <2>3, Zenon DEF Live, Newest, HasSuperblock
    <3> QED
      BY <2>1, <2>2, <3>1, SameZone, Zenon DEF Live
  <2>5. Live(z)'
    BY <2>1, <2>4, Zenon DEF Live, LiveZone, RollLabels
  <2>6. RollFit'
    <3>1. sequence_ = log[z][1].seq
      <4>1. log[z][1].seq \in Nat
        BY FoundNumbered, Zenon DEF TypeInv, Live, Newest
      <4>2. sequence_ = log[z][1].seq + 0
        BY <2>1, Zenon DEF RollFit, LiveZone, RollLabels
      <4> QED
        BY <4>1, <4>2
    <3>2. LiveZone' = z
      BY <2>1, Zenon DEF LiveZone, RollLabels
    <3>3. finished'[meta_log_] = finished[meta_log_]
      BY <2>1, <2>2, Zenon
    <3> QED
      BY <2>1, <3>1, <3>2, <3>3, Zenon DEF RollFit, RollLabels, HasSuperblock, HasEnd
  <2>7. OpFit'
    BY <2>1, Zenon DEF OpFit, FinishOld, opVars, memVars, told
  <2>8. Listed(z)'
    BY <2>1, <2>3, Zenon DEF Listed, Before, FinishOld, opVars, memVars, told
  <2> QED
    BY <2>3, <2>5, <2>6, <2>7, <2>8, Zenon
<1>SnapshotSynced. ASSUME SnapshotSynced
                   PROVE  Keeps(z)
  <2> USE <1>SnapshotSynced
  <2> PICK x : x = old_meta_log
    BY Zenon
  <2>1. /\ pc = "synced" /\ pc' = "ack" /\ z = meta_log_ /\ x \in Zones \ {z}
        /\ meta_log_' = meta_log_ /\ old_meta_log' = NoZone /\ sequence_' = sequence_
    BY Zenon DEF SnapshotSynced, ReleaseOld, Live, LiveZone, RollLabels, RollFit
  <2>2. busy_'[z] /\ op' = op /\ file' = file /\ files_' = files_ /\ gone' = gone /\ rec' = rec
    BY <2>1, Zenon DEF SnapshotSynced, ReleaseOld, RollFit, opVars, told
  <2>3. /\ \A y \in Zones \ {x} : log'[y] = log[y] /\ finished'[y] = finished[y]
        /\ UNCHANGED devVars \/ log'[x] = <<>>
    <3>1. CASE UNCHANGED devVars
      BY <3>1, Zenon DEF devVars
    <3>2. CASE ~UNCHANGED devVars
      <4>1. /\ log' = [y \in Zones |-> IF y = x THEN <<>> ELSE log[y]]
            /\ finished' = [y \in Zones |-> finished[y] /\ y # x]
        BY <3>2, Zenon DEF SnapshotSynced
      <4>2. \A y \in Zones \ {x} : finished'[y] = finished[y]
        BY <4>1, Zenon DEF TypeInv, LogTypes
      <4> QED
        BY <2>1, <4>1, <4>2, Zenon
    <3> QED
      BY <3>1, <3>2, Zenon
  <2>4. Newest(z)' /\ At(z)' = At(z)
    <3>1. CASE UNCHANGED devVars
      BY <3>1, ZonesSame, Zenon DEF Live
    <3>2. CASE log'[x] = <<>>
      <4>1. ~HasSuperblock(x)'
        BY <3>2, Zenon DEF HasSuperblock
      <4> QED
        BY <2>1, <2>3, <4>1, OtherZone, Zenon DEF TypeInv, Live
    <3> QED
      BY <2>3, <3>1, <3>2, Zenon
  <2>5. Live(z)'
    BY <2>1, <2>4, Zenon DEF Live, LiveZone, RollLabels
  <2>6. RollFit'
    <3>1. \A y \in Zones : log'[y] = <<>> \/ HasSuperblock(y)'
      BY <2>3, Zenon DEF RollFit, HasSuperblock, devVars
    <3>2. log'[z] = log[z] /\ finished'[z] = finished[z]
      BY <2>1, <2>3, Zenon
    <3>3. LiveZone' = z /\ LiveZone = z
      BY <2>1, Zenon DEF LiveZone, RollLabels
    <3> QED
      BY <2>1, <2>2, <3>1, <3>2, <3>3, Zenon DEF RollFit, RollLabels, HasEnd
  <2>7. OpFit'
    BY <2>1, <2>2, Zenon DEF OpFit
  <2>8. Listed(z)'
    BY <2>1, <2>2, <2>4, Zenon DEF Listed, Before
  <2> QED
    BY <2>4, <2>5, <2>6, <2>7, <2>8, Zenon
(* The end record of the old zone, which is still the live one.             *)
<1>WriteEnd. ASSUME WriteBlock, pc = "end"
             PROVE  Keeps(z)
  <2> USE <1>WriteEnd
  <2>1. /\ z = old_meta_log /\ Target = z /\ pc' = "finish" /\ LiveZone = z /\ LiveZone' = z
        /\ rec = EndRec /\ meta_log_ \in Zones \ {z} /\ ~finished[z]
    BY OneWrite, ZoneFacts DEF Live, LiveZone, RollLabels, Target, After, RollFit, logVars,
       GetCapacityLeft, TypeInv, LogTypes, RoomFit
  <2>2. /\ rec \in Record /\ log[z] \in Seq(Record) /\ log'[z] = Append(log[z], EndRec)
        /\ \A y \in Zones \ {z} : log'[y] = log[y]
        /\ finished' = finished /\ finished[z] = FALSE
    BY <2>1, OneWrite, Zenon DEF TypeInv, LogTypes
  <2>3. /\ files_' = files_ /\ op' = op /\ file' = file /\ rec' = rec /\ gone' = gone
        /\ busy_' = busy_ /\ meta_log_' = meta_log_ /\ old_meta_log' = old_meta_log
        /\ sequence_' = sequence_
    BY <2>1, OneWrite, Zenon DEF logVars
  <2>4. At(z)' = At(z)
    <3>1. State(Append(log[z], EndRec), FALSE) = State(log[z], FALSE)
      BY <2>2, StateEnd, Zenon DEF Limits
    <3> QED
      BY <2>2, <3>1, Zenon DEF At
  <2>5. HasSuperblock(z)' /\ log'[z][1] = log[z][1] /\ HasEnd(log'[z])
    <3>1. log[z] # <<>> /\ log[z][1].k = "super"
      BY Zenon DEF Live, Newest, HasSuperblock
    <3>2. Append(log[z], EndRec) # <<>> /\ Append(log[z], EndRec)[1] = log[z][1]
      BY <2>1, <2>2, <3>1
    <3>3. HasEnd(Append(log[z], EndRec))
      BY <2>1, <2>2, HasEndAppend, Zenon DEF EndRec
    <3> QED
      BY <2>2, <3>1, <3>2, <3>3, Zenon DEF HasSuperblock
  <2>6. Live(z)'
    <3>1. At(z)'.ok /\ At(z)'.found
      BY <2>4, Zenon DEF Live, Newest
    <3>2. Newest(z)'
      BY <2>2, <2>5, <3>1, SameZone, Zenon DEF Live
    <3> QED
      BY <2>1, <3>2, Zenon DEF Live
  <2>7. RollFit'
    <3>1. \A y \in Zones : log'[y] = <<>> \/ HasSuperblock(y)'
      BY <2>2, <2>5, Zenon DEF RollFit, HasSuperblock
    <3>2. log'[meta_log_] = log[meta_log_]
      BY <2>1, <2>2, Zenon
    <3> QED
      BY <2>1, <2>2, <2>3, <2>5, <3>1, <3>2, Zenon DEF RollFit, RollLabels
  <2>8. OpFit'
    BY <2>1, <2>3, Zenon DEF OpFit
  <2>9. Listed(z)'
    BY <2>1, <2>3, <2>4, Zenon DEF Listed, Before
  <2> QED
    BY <2>4, <2>6, <2>7, <2>8, <2>9, Zenon
(* The superblock of the new zone, which a mount passes over without a      *)
(* snapshot.                                                                *)
<1>WriteSuper. ASSUME WriteBlock, pc = "super"
               PROVE  Keeps(z)
  <2> USE <1>WriteSuper
  <2> PICK x : x = meta_log_
    BY Zenon
  <2>1. /\ z = old_meta_log /\ Target = x /\ pc' = "encode" /\ LiveZone = z /\ LiveZone' = z
        /\ rec = Super(sequence_) /\ x \in Zones \ {z} /\ ~finished[x] /\ log[x] = <<>>
        /\ sequence_ \in Nat
    BY OneWrite, ZoneFacts, Zenon DEF Live, LiveZone, RollLabels, Target, After, RollFit, logVars,
       TypeInv, LogTypes, RoomFit
  <2>2. /\ log'[x] = <<Super(sequence_)>> /\ \A y \in Zones \ {x} : log'[y] = log[y]
        /\ finished' = finished /\ finished[x] = FALSE
    <3>1. Append(<<>>, rec) = <<rec>>
      OBVIOUS
    <3> QED
      BY <2>1, <3>1, OneWrite, Zenon DEF TypeInv, LogTypes
  <2>3. /\ files_' = files_ /\ op' = op /\ file' = file /\ rec' = rec /\ gone' = gone
        /\ busy_' = busy_ /\ meta_log_' = meta_log_ /\ old_meta_log' = old_meta_log
        /\ sequence_' = sequence_
    BY <2>1, OneWrite, Zenon DEF logVars
  <2>4. At(x)' = [ok |-> TRUE, found |-> FALSE, table |-> NoTable] /\ ~HasEnd(log'[x])
    <3>1. /\ State(<<Super(sequence_)>>, FALSE) = [ok |-> TRUE, found |-> FALSE, table |-> NoTable]
          /\ ~HasEnd(<<Super(sequence_)>>)
      BY <2>1, StateSuper, Zenon DEF Limits
    <3> QED
      BY <2>2, <3>1, Zenon DEF At
  <2>5. Newest(z)' /\ At(z)' = At(z)
    <3>1. ~(At(x)'.found \/ ~At(x)'.ok)
      BY <2>4
    <3> QED
      BY <2>1, <2>2, <3>1, OtherZone, Zenon DEF TypeInv, Live
  <2>6. Live(z)'
    BY <2>1, <2>5, Zenon DEF Live
  <2>7. RollFit'
    <3>1. ASSUME NEW y \in Zones PROVE log'[y] = <<>> \/ HasSuperblock(y)'
      <4>1. CASE y = x
        <5>1. <<Super(sequence_)>> # <<>> /\ <<Super(sequence_)>>[1].k = "super"
          BY Zenon DEF Super
        <5> QED
          BY <2>2, <4>1, <5>1, Zenon DEF HasSuperblock
      <4>2. CASE y # x
        BY <2>2, <4>2, Zenon DEF RollFit, HasSuperblock
      <4> QED
        BY <4>1, <4>2, Zenon
    <3>2. log'[z] = log[z]
      BY <2>1, <2>2, Zenon
    <3> QED
      BY <2>1, <2>2, <2>3, <2>4, <3>1, <3>2, Zenon DEF RollFit, RollLabels
  <2>8. OpFit'
    BY <2>1, <2>3, Zenon DEF OpFit
  <2>9. Listed(z)'
    BY <2>1, <2>3, <2>5, Zenon DEF Listed, Before
  <2> QED
    BY <2>5, <2>6, <2>7, <2>8, <2>9, Zenon
<1>1. CASE Client
  <2>1. PICK f \in Files :
          \/ PushExtent(f) \/ Reopen(f) \/ CreateStart(f) \/ DeleteStart(f)
          \/ SyncStart(f, "sync") \/ SyncStart(f, "close") \/ MigrateStart(f)
    BY <1>1, Zenon DEF Client
  <2>2. CASE PushExtent(f) \/ MigrateStart(f)
    BY <2>2, LogSame, Zenon DEF PushExtent, MigrateStart, opVars, told
  <2>3. CASE Reopen(f)
    BY <2>3, <1>Reopen, Zenon
  <2>4. CASE CreateStart(f)
    BY <2>4, <1>CreateStart, Zenon
  <2>5. CASE DeleteStart(f)
    BY <2>5, <1>DeleteStart, Zenon
  <2>6. CASE SyncStart(f, "sync") \/ SyncStart(f, "close")
    BY <2>6, <1>SyncStart, Zenon
  <2> QED
    BY <2>1, <2>2, <2>3, <2>4, <2>5, <2>6, Zenon
<1>2. CASE Collector
  <2>1. PICK f \in Files : ReplaceExtentList(f) \/ MetadataUnsynced(f) \/ ReplaceStart(f)
    BY <1>2, Zenon DEF Collector
  <2>2. CASE ReplaceExtentList(f) \/ MetadataUnsynced(f)
    BY <2>2, LogSame, Zenon DEF ReplaceExtentList, MetadataUnsynced, opVars, told
  <2>3. CASE ReplaceStart(f)
    BY <2>3, <1>ReplaceStart, Zenon
  <2> QED
    BY <2>1, <2>2, <2>3, Zenon
<1>3. CASE Operation
  <2>1. CASE AcquireWRLock
    BY <2>1, <1>AcquireWRLock, Zenon
  <2>2. CASE WriteBlock
    <3>1. pc = "end" \/ pc = "super"
      BY <2>2, Zenon DEF WriteBlock, Writing
    <3> QED
      BY <2>2, <3>1, <1>WriteEnd, <1>WriteSuper, Zenon
  <2>3. CASE RecordNoSpace
    BY <2>3, <1>RecordNoSpace, Zenon
  <2>4. CASE WriteError
    BY <2>4, Zenon DEF WriteError, Limits
  <2>5. CASE AllocateMetaZone
    BY <2>5, <1>AllocateMetaZone, Zenon
  <2>6. CASE OutOfMetaZones
    BY <2>6, <1>OutOfMetaZones, Zenon
  <2>7. CASE FinishOld
    BY <2>7, <1>FinishOld, Zenon
  <2>8. CASE EncodeSnapshot
    BY <2>8, <1>EncodeSnapshot, Zenon
  <2>9. CASE SnapshotSynced
    BY <2>9, <1>SnapshotSynced, Zenon
  <2>10. CASE Ack
    BY <2>10, <1>Ack, Zenon
  <2>11. CASE Fail
    BY <2>11, <1>Fail, Zenon
  <2>12. CASE MkFSDone
    BY <2>12, Zenon DEF MkFSDone, OpFit
  <2> QED
    BY <1>3, <2>1, <2>2, <2>3, <2>4, <2>5, <2>6, <2>7, <2>8, <2>9, <2>10, <2>11, <2>12, Zenon DEF
       Operation
<1>4. CASE Crash
  BY <1>4, <1>PowerOff, Zenon DEF Crash
<1>5. CASE Mount
  BY <1>5, <1>Mount, Zenon
<1>6. CASE MkFSStart
  BY <1>6, Zenon DEF MkFSStart, Limits
<1>7. CASE UNCHANGED vars
  BY <1>7, LogSame, Zenon DEF vars, devVars, logVars
<1> QED
  BY <1>1, <1>2, <1>3, <1>4, <1>5, <1>6, <1>7, Zenon DEF Next

(* A formatted device is mounted from its first zone.                       *)
LEMMA LogInit ==
  ASSUME Limits, Init
  PROVE  /\ RollFit /\ OpFit /\ Live(1) /\ Listed(1)
         /\ At(1).table = [f \in InitialFiles |-> << <<1, 0>> >>]
<1> DEFINE n == IF InitialFiles = {} THEN 1 ELSE 3
           r == [k |-> "snap", table |-> [f \in InitialFiles |-> << <<1, 0>> >>]]
           l == Append(<<Super(n)>>, r)
<1>1. Formatted = l /\ r \in Record /\ n \in Nat
  <2>1. /\ Formatted \in Seq(Record) /\ Len(Formatted) = 2 /\ Formatted[1] = Super(n)
        /\ Formatted[2] = r
    BY FormattedFacts DEF Limits, OneBlock
  <2>0. n \in Nat
    BY Zenon
  <2>2. r \in Record /\ n \in Nat /\ Super(n) \in Record
    <3> HIDE DEF r, n
    <3> QED
      BY <2>0, <2>1, RecordForms
  <2> HIDE DEF r, n
  <2>3. l \in Seq(Record) /\ Len(l) = 2 /\ l[1] = Super(n) /\ l[2] = r
    BY <2>2
  <2>4. Formatted = l
    <3> HIDE DEF l
    <3> QED
      BY <2>1, <2>3
  <2> QED
    BY <2>2, <2>4, Zenon
<1>2. r.k = "snap" /\ r.table = [f \in InitialFiles |-> << <<1, 0>> >>]
  BY Zenon
<1>3. l # <<>> /\ l[1] = Super(n)
  OBVIOUS
<1> HIDE DEF r, n
<1>4. State(l, FALSE).ok /\ State(l, FALSE).found /\ State(l, FALSE).table = r.table
  BY <1>1, <1>2, StateSnap, Zenon DEF Limits
<1> HIDE DEF l
<1>5. log[1] = l /\ finished[1] = FALSE /\ \A y \in Zones \ {1} : log[y] = <<>>
  BY <1>1, ZoneFacts, Zenon DEF Init
<1>6. At(1).ok /\ At(1).found /\ At(1).table = r.table
  BY <1>4, <1>5, Zenon DEF At
<1>7. HasSuperblock(1) /\ \A y \in Zones \ {1} : ~HasSuperblock(y)
  BY <1>3, <1>5 DEF HasSuperblock, Super
<1>8. Live(1)
  BY <1>6, <1>7, Zenon DEF Live, Newest, Init
<1>9. RollFit /\ OpFit
  BY <1>5, <1>7, Zenon DEF RollFit, RollLabels, OpFit, Init
<1>10. Listed(1)
  BY Zenon DEF Listed, Init
<1> QED
  BY <1>2, <1>6, <1>8, <1>9, <1>10, Zenon

(* The log invariant is inductive.                                          *)
LEMMA LogStep ==
  ASSUME Limits
  PROVE  TypeInv /\ LogInv /\ [Next]_vars => LogInv'
<1> SUFFICES ASSUME TypeInv, LogInv, [Next]_vars PROVE LogInv'
  BY Zenon
<1>1. PICK z \in Zones : Live(z) /\ Listed(z)
  BY Zenon DEF LogInv
<1>2. RollFit /\ OpFit
  BY Zenon DEF LogInv
<1>3. CASE WriteBlock /\ pc = "add"
  BY <1>1, <1>2, <1>3, WriteAddLog, Zenon DEF LogInv
<1>4. CASE WriteBlock /\ pc = "snap"
  BY <1>1, <1>2, <1>4, WriteSnapLog, Zenon DEF LogInv
<1>5. CASE ~(WriteBlock /\ pc \in {"add", "snap"})
  BY <1>1, <1>2, <1>5, LogEffect, Zenon DEF LogInv, Keeps
<1> QED
  BY <1>3, <1>4, <1>5, Zenon

(* What it says about a mount.                                              *)
LEMMA LogMounts ==
  ASSUME TypeInv, LogInv
  PROVE  MountSucceeds /\ DeletedStayDeleted
<1>1. PICK z \in Zones : Live(z) /\ Listed(z)
  BY Zenon DEF LogInv
<1>2. Recovery.ok /\ Recovery.table = At(z).table
  BY <1>1, RecoveryIs, Zenon DEF TypeInv, LogInv, RollFit, Live
<1> QED
  BY <1>1, <1>2, Zenon DEF MountSucceeds, DeletedStayDeleted, Listed

(* Wherever the power fails, in a record, in a roll of the log or in        *)
(* another mount, and although resets and finishes of zones fail, a mount   *)
(* finds a zone to recover from, if every record has one block, no write    *)
(* fails, the device is not formatted again and clients do not both create  *)
(* and delete files.                                                        *)
THEOREM MountSucceedsCorrect ==
  ASSUME SnapBlocks = 1, UpdateBlocks = 1, "write" \notin Faults, "mkfs" \notin Ops,
         "create" \notin Ops \/ "delete" \notin Ops
  PROVE  Spec => []MountSucceeds
<1>1. Limits
  BY Zenon DEF Limits, OneBlock
<1>2. Init => LogInv
  BY <1>1, LogInit, ZoneFacts, Zenon DEF LogInv
<1>3. TypeInv /\ LogInv /\ [Next]_vars => LogInv'
  BY <1>1, LogStep, Zenon
<1>4. TypeInv /\ LogInv => MountSucceeds
  BY LogMounts, Zenon
<1> QED
  BY <1>2, <1>3, <1>4, InitType, TypeStep, PTL DEF Spec

(* Under the same conditions a file whose deletion was reported is in no    *)
(* table that a later mount recovers: the zone that still has its snapshot  *)
(* is never again the newest one.                                           *)
THEOREM DeletedStayDeletedCorrect ==
  ASSUME SnapBlocks = 1, UpdateBlocks = 1, "write" \notin Faults, "mkfs" \notin Ops,
         "create" \notin Ops \/ "delete" \notin Ops
  PROVE  Spec => []DeletedStayDeleted
<1>1. Limits
  BY Zenon DEF Limits, OneBlock
<1>2. Init => LogInv
  BY <1>1, LogInit, ZoneFacts, Zenon DEF LogInv
<1>3. TypeInv /\ LogInv /\ [Next]_vars => LogInv'
  BY <1>1, LogStep, Zenon
<1>4. TypeInv /\ LogInv => DeletedStayDeleted
  BY LogMounts, Zenon
<1> QED
  BY <1>2, <1>3, <1>4, InitType, TypeStep, PTL DEF Spec

=============================================================================
