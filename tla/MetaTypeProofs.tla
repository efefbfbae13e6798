--------------------------- MODULE MetaTypeProofs ---------------------------
(***************************************************************************)
(* Proofs about the metadata log for any number of zones and files and any  *)
(* record sizes.  Here: how replaying a log unfolds, one record at a time,  *)
(* what recovery returns, and that every variable keeps its type.           *)
(***************************************************************************)
EXTENDS MetaLog, WellFoundedInduction, TLAPS

(* The solver for the leaves that do not name Zenon.                         *)
USE SMTT(60)

(* What RecoverFrom has read when it gets to the end of a zone.             *)
Start(l, full) == [ok |-> ~Unreadable(l, full), found |-> FALSE, table |-> NoTable]
State(l, full) == Replayed(Body(l), Start(l, full))
At(z) == State(log[z], finished[z])
HasEnd(l) == \E i \in 1..Len(l) : l[i].k = "end"

Table == UNION {[S -> Seq(Extent)] : S \in SUBSET Files}
Record ==
  [k : {"cont", "none", "end"}] \cup [k : {"super"}, seq : Nat]
    \cup [k : {"snap"}, table : Table]
    \cup [k : {"upd", "rep"}, file : Files, exts : Seq(Extent)]
    \cup [k : {"del"}, file : Files]

FileOps == {"create", "sync", "close", "replace", "delete", "reopen"}

(* The types of all variables, where operations have a file and a zone, and *)
(* room for the blocks of a record that was begun.                          *)
LogTypes ==
  /\ log \in [Zones -> Seq(Record)] /\ \A z \in Zones : Len(log[z]) <= ZoneBlocks
  /\ finished \in [Zones -> BOOLEAN] /\ busy_ \in [Zones -> BOOLEAN]
  /\ meta_log_ \in Zones \cup {NoZone} /\ old_meta_log \in Zones \cup {NoZone}
  /\ sequence_ \in Nat
FileTypes ==
  /\ files_ \subseteq Files /\ extents_ \in [Files -> Seq(Extent)]
  /\ nr_synced_extents_ \in [Files -> Nat]
  /\ \A f \in Files : nr_synced_extents_[f] <= Len(extents_[f])
  /\ wr \in [Files -> {"closed", "open", "gc", "swapped", "unsynced", "spent"}]
  /\ born \in [Files -> 0..MaxExtents] /\ moved \in [Files -> 0..MaxMoves]
  /\ acked \in [Files -> Seq(Extent)] /\ made \subseteq Files
OpTypes ==
  /\ pc \in {"down", "idle", "add", "end", "super", "snap", "roll", "finish", "encode",
             "synced", "ack", "fail", "reopen"}
  /\ op \in FileOps \cup {"none", "mount", "mkfs"}
  /\ op \in FileOps => file \in Files
  /\ pc \in {"add", "reopen"} => op \in FileOps
  /\ rec \in Record /\ left \in Nat
RoomFit ==
  /\ (pc = "down") = (meta_log_ = NoZone)
  /\ pc \in {"end", "finish"} => old_meta_log # NoZone
  /\ Writing => left >= 1 /\ left <= Size(rec.k)
  /\ Writing /\ left < Size(rec.k) => Len(log[Target]) + left <= ZoneBlocks
TypeInv == LogTypes /\ FileTypes /\ OpTypes /\ RoomFit

-----------------------------------------------------------------------------
(* Replaying a log.                                                         *)
LEMMA LeastNatural ==
  ASSUME NEW T \in SUBSET Nat, T # {}
  PROVE  \E n \in T : \A m \in T : n <= m
<1>1. PICK n \in T : \A m \in T : ~(<<m, n>> \in OpToRel(<, Nat))
  BY NatLessThanWellFounded, WFMin, Zenon
<1>2. \A i, j \in Nat : i < j => <<i, j>> \in OpToRel(<, Nat)
  BY Zenon DEF OpToRel
<1>3. ASSUME NEW m \in T PROVE n <= m
  <2>1. m \in Nat /\ n \in Nat
    BY Zenon
  <2>2. ~(m < n)
    BY <1>1, <1>2, <2>1, Zenon
  <2> QED
    BY <2>1, <2>2
<1> QED
  BY <1>3, Zenon

Run(h, n, body, start) ==
  h = [i \in 0..n |-> IF i = 0 THEN start ELSE Replay(h[i - 1], body[i])]

(* Replaying n records is well defined: a function computes the state after *)
(* each of them. By the least n for which there is none.                    *)
LEMMA RunExists ==
  ASSUME NEW n \in Nat, NEW body, NEW start
  PROVE  \E h : Run(h, n, body, start)
<1> DEFINE T == {m \in Nat : ~\E h : Run(h, m, body, start)}
<1>1. 0 \notin T
  <2> DEFINE h == [i \in 0..0 |-> start]
  <2>1. Run(h, 0, body, start)
    BY DEF Run
  <2> QED
    BY <2>1, Zenon
<1>2. ASSUME NEW m \in Nat, m \notin T PROVE m + 1 \notin T
  <2>1. PICK h : Run(h, m, body, start)
    BY <1>2, Zenon
  <2> DEFINE g == [i \in 0..(m + 1) |-> IF i = m + 1 THEN Replay(h[m], body[i]) ELSE h[i]]
             e == [i \in 0..(m + 1) |-> IF i = 0 THEN start ELSE Replay(g[i - 1], body[i])]
  <2>2. ASSUME NEW i \in 0..(m + 1) PROVE g[i] = e[i]
    <3>1. CASE i = m + 1
      <4>1. g[i] = Replay(h[m], body[i]) /\ i # 0 /\ i - 1 = m
        BY <3>1
      <4>2. g[m] = h[m]
        OBVIOUS
      <4>3. e[i] = Replay(g[m], body[i])
        BY <4>1, Zenon
      <4> QED
        BY <4>1, <4>2, <4>3, Zenon
    <3>2. CASE i \in 0..m
      <4>1. g[i] = h[i] /\ h[i] = IF i = 0 THEN start ELSE Replay(h[i - 1], body[i])
        BY <2>1, <3>2 DEF Run
      <4>2. i # 0 => g[i - 1] = h[i - 1]
        BY <3>2
      <4>3. e[i] = IF i = 0 THEN start ELSE Replay(g[i - 1], body[i])
        BY Zenon
      <4> QED
        BY <4>1, <4>2, <4>3, Zenon
    <3> QED
      BY <3>1, <3>2
  <2>3. g = e
    BY <2>2, Zenon
  <2>4. Run(g, m + 1, body, start)
    BY <2>3, Zenon DEF Run
  <2> QED
    BY <2>4, Zenon
<1>3. CASE T # {}
  <2>1. PICK m \in T : \A k \in T : m <= k
    <3>1. T \in SUBSET Nat
      BY Zenon
    <3> HIDE DEF T
    <3> QED
      BY <1>3, <3>1, LeastNatural, Zenon
  <2>2. m \in Nat /\ m # 0
    BY <1>1, <2>1, Zenon
  <2>3. m - 1 \in Nat /\ m - 1 \notin T
    <3> HIDE DEF T
    <3> QED
      BY <2>1, <2>2
  <2>4. (m - 1) + 1 \notin T
    <3> HIDE DEF T
    <3> QED
      BY <1>2, <2>3, Zenon
  <2> QED
    BY <2>1, <2>2, <2>4
<1> QED
  BY <1>3, Zenon

(* Two runs over the same records agree.                                    *)
LEMMA RunsAgree ==
  ASSUME NEW n \in Nat, NEW m \in Nat, n <= m, NEW b, NEW c, NEW start,
         \A i \in 1..n : b[i] = c[i],
         NEW h, Run(h, n, b, start), NEW g, Run(g, m, c, start)
  PROVE  h[n] = g[n]
<1> DEFINE T == {i \in 0..n : h[i] # g[i]}
<1>1. ASSUME NEW i \in 0..n
      PROVE  /\ h[i] = IF i = 0 THEN start ELSE Replay(h[i - 1], b[i])
             /\ g[i] = IF i = 0 THEN start ELSE Replay(g[i - 1], c[i])
  BY DEF Run
<1>2. CASE T # {}
  <2>1. PICK i \in T : \A k \in T : i <= k
    <3>1. T \in SUBSET Nat
      OBVIOUS
    <3> HIDE DEF T
    <3> QED
      BY <1>2, <3>1, LeastNatural, Zenon
  <2>2. i \in 0..n /\ h[i] # g[i]
    BY <2>1, Zenon
  <2>3. i # 0
    BY <1>1, <2>2, Zenon
  <2>4. i - 1 \in 0..n /\ i - 1 \notin T
    <3>1. i - 1 \in 0..n /\ ~(i <= i - 1)
      BY <2>2, <2>3
    <3> QED
      BY <2>1, <3>1, Zenon
  <2>5. h[i - 1] = g[i - 1] /\ b[i] = c[i]
    BY <2>2, <2>3, <2>4
  <2> QED
    BY <1>1, <2>2, <2>3, <2>5, Zenon
<1>3. CASE T = {}
  BY <1>3
<1> QED
  BY <1>2, <1>3, Zenon

(* What Replayed returns is the last value of such a run, whatever run it   *)
(* is.                                                                      *)
LEMMA ReplayedIs ==
  ASSUME NEW S, NEW body \in Seq(S), NEW start
  PROVE  \E h : Run(h, Len(body), body, start) /\ Replayed(body, start) = h[Len(body)]
<1> DEFINE h == CHOOSE f : f = [i \in 0..Len(body) |->
                                 IF i = 0 THEN start ELSE Replay(f[i - 1], body[i])]
<1>1. \E f : Run(f, Len(body), body, start)
  BY RunExists
<1>2. Run(h, Len(body), body, start)
  BY <1>1, Zenon DEF Run
<1>3. Replayed(body, start) = h[Len(body)]
  BY Zenon DEF Replayed
<1> QED
  BY <1>2, <1>3, Zenon

(* A zone without records leaves the recovery where it started.             *)
LEMMA ReplayedEmpty ==
  ASSUME NEW start
  PROVE  Replayed(<<>>, start) = start
<1>0. <<>> \in Seq({})
  OBVIOUS
<1>1. PICK h : Run(h, Len(<<>>), <<>>, start) /\ Replayed(<<>>, start) = h[Len(<<>>)]
  BY <1>0, ReplayedIs, Zenon
<1>2. h[0] = start
  BY <1>1 DEF Run
<1> QED
  BY <1>1, <1>2, Zenon

(* A record appended to the log is replayed last.                           *)
LEMMA ReplayedAppend ==
  ASSUME NEW S, NEW body \in Seq(S), NEW r \in S, NEW start
  PROVE  Replayed(Append(body, r), start) = Replay(Replayed(body, start), r)
<1> DEFINE long == Append(body, r)
           n == Len(body)
<1>1. long \in Seq(S) /\ n \in Nat /\ Len(long) = n + 1 /\ long[n + 1] = r
      /\ \A i \in 1..n : body[i] = long[i]
  OBVIOUS
<1>2. PICK h : Run(h, n, body, start) /\ Replayed(body, start) = h[n]
  BY ReplayedIs, Zenon
<1> HIDE DEF long
<1>3. PICK g : Run(g, Len(long), long, start) /\ Replayed(long, start) = g[Len(long)]
  BY <1>1, ReplayedIs, Zenon
<1> HIDE DEF n
<1>4. h[n] = g[n]
  BY <1>1, <1>2, <1>3, RunsAgree
<1>5. g[n + 1] = Replay(g[n], long[n + 1])
  BY <1>1, <1>3 DEF Run
<1> QED
  BY <1>1, <1>2, <1>3, <1>4, <1>5, Zenon DEF long

(* Records and tables.                                                      *)
Kinds == {"cont", "none", "end", "super", "snap", "upd", "rep", "del"}

(* The fields of a record, by its kind.                                     *)
LEMMA RecordFacts ==
  ASSUME NEW r \in Record
  PROVE  /\ r.k \in Kinds
         /\ r.k = "super" => r.seq \in Nat
         /\ r.k = "snap" => r.table \in Table
         /\ r.k \in {"upd", "rep"} => r.file \in Files /\ r.exts \in Seq(Extent)
         /\ r.k = "del" => r.file \in Files
BY Zenon DEF Record, Kinds

(* The records the code encodes are records.                                *)
LEMMA RecordForms ==
  /\ Cont \in Record /\ NoRec \in Record /\ EndRec \in Record
  /\ \A n \in Nat : Super(n) \in Record
  /\ \A t \in Table : [k |-> "snap", table |-> t] \in Record
  /\ \A kind \in {"upd", "rep"}, f \in Files, s \in Seq(Extent) :
       [k |-> kind, file |-> f, exts |-> s] \in Record
  /\ \A f \in Files : EncodeFileDeletionTo(f) \in Record
BY Zenon DEF Record, Cont, NoRec, EndRec, Super, EncodeFileDeletionTo

(* A recovered table gives extents to some of the files.                    *)
LEMMA TableFacts ==
  ASSUME NEW t \in Table
  PROVE  /\ DOMAIN t \subseteq Files /\ t \in [DOMAIN t -> Seq(Extent)]
BY Zenon DEF Table

(* Every such function is a table.                                          *)
LEMMA TableForms ==
  ASSUME NEW S \in SUBSET Files, NEW t \in [S -> Seq(Extent)]
  PROVE  t \in Table
BY Zenon DEF Table

StateType == [ok : BOOLEAN, found : BOOLEAN, table : Table]

(* Replaying one record keeps the type of the recovery.                     *)
LEMMA ReplayTyped ==
  ASSUME NEW r \in Record, NEW st \in StateType
  PROVE  Replay(st, r) \in StateType
<1>1. /\ st.table \in Table /\ DOMAIN st.table \subseteq Files
      /\ st.table \in [DOMAIN st.table -> Seq(Extent)]
  BY TableFacts, Zenon DEF StateType
<1>2. CASE r.k = "snap"
  BY <1>2, RecordFacts, Zenon DEF Replay, StateType
<1>3. ASSUME NEW f \in Files, NEW s \in Seq(Extent) PROVE Put(st.table, f, s) \in Table
  <2> DEFINE D == DOMAIN st.table \cup {f}
  <2>1. Put(st.table, f, s) \in [D -> Seq(Extent)] /\ D \in SUBSET Files
    BY <1>1, Zenon DEF Put
  <2> QED
    BY <2>1, TableForms, Zenon
<1>4. CASE r.k = "upd"
  <2>1. r.file \in Files /\ r.exts \in Seq(Extent)
    BY <1>4, RecordFacts, Zenon
  <2>2. (IF r.file \in DOMAIN st.table THEN st.table[r.file] \o r.exts ELSE r.exts) \in Seq(Extent)
    BY <1>1, <2>1
  <2> QED
    BY <1>3, <1>4, <2>1, <2>2, Zenon DEF Replay, StateType
<1>5. CASE r.k = "rep"
  BY <1>3, <1>5, RecordFacts, Zenon DEF Replay, StateType
<1>6. CASE r.k = "del"
  <2> DEFINE D == DOMAIN st.table \ {r.file}
  <2>1. Restrict(st.table, D) \in [D -> Seq(Extent)] /\ D \in SUBSET Files
    BY <1>1, Zenon DEF Restrict
  <2>2. Restrict(st.table, D) \in Table
    BY <2>1, TableForms, Zenon
  <2> QED
    BY <1>6, <2>2, Zenon DEF Replay, StateType
<1>7. CASE r.k \notin {"snap", "upd", "rep", "del"}
  BY <1>7, Zenon DEF Replay
<1> QED
  BY <1>2, <1>4, <1>5, <1>6, <1>7, Zenon

(* Where the end record of a zone is, if it has one.                        *)
LEMMA EndFacts ==
  ASSUME NEW l \in Seq(Record)
  PROVE  /\ EndAt(l) \in 1..(Len(l) + 1)
         /\ EndAt(l) <= Len(l) <=> HasEnd(l)
         /\ HasEnd(l) => l[EndAt(l)].k = "end"
         /\ \A i \in 1..(EndAt(l) - 1) : l[i].k # "end"
<1> DEFINE ends == {i \in DOMAIN l : l[i].k = "end"}
<1>1. ends \in SUBSET Nat /\ DOMAIN l = 1..Len(l)
  OBVIOUS
<1>2. CASE ends = {}
  BY <1>1, <1>2 DEF EndAt, HasEnd
<1>3. CASE ends # {}
  <2>1. \E i \in ends : \A j \in ends : i <= j
    <3> HIDE DEF ends
    <3> QED
      BY <1>1, <1>3, LeastNatural, Zenon
  <2>2. EndAt(l) = CHOOSE i \in ends : \A j \in ends : i <= j
    BY <1>3, Zenon DEF EndAt
  <2>3. EndAt(l) \in ends /\ \A j \in ends : EndAt(l) <= j
    <3> HIDE DEF ends
    <3> QED
      BY <2>1, <2>2, Zenon
  <2> QED
    BY <1>1, <2>3 DEF HasEnd
<1> QED
  BY <1>2, <1>3, Zenon

(* The records recovery reads are those before the end record.              *)
LEMMA BodyFacts ==
  ASSUME NEW l \in Seq(Record)
  PROVE  /\ Body(l) \in Seq(Record) /\ Len(Body(l)) = EndAt(l) - 1
         /\ \A i \in 1..(EndAt(l) - 1) : Body(l)[i] = l[i]
         /\ ~HasEnd(l) => Body(l) = l
<1>1. EndAt(l) \in 1..(Len(l) + 1) /\ (~HasEnd(l) => EndAt(l) = Len(l) + 1)
  BY EndFacts
<1> QED
  BY <1>1 DEF Body

(* Replaying a whole zone returns a table of known files.                   *)
LEMMA StateTyped ==
  ASSUME NEW l \in Seq(Record), NEW full \in BOOLEAN
  PROVE  State(l, full) \in StateType
<1> DEFINE b == Body(l)
           start == Start(l, full)
<1>1. b \in Seq(Record)
  BY BodyFacts, Zenon
<1>2. start \in StateType
  <2>1. NoTable \in [{} -> Seq(Extent)]
    BY Zenon DEF NoTable
  <2>2. NoTable \in Table
    BY <2>1, TableForms, Zenon
  <2> QED
    BY <2>2, Zenon DEF Start, StateType
<1> HIDE DEF b, start
<1>3. PICK h : Run(h, Len(b), b, start) /\ Replayed(b, start) = h[Len(b)]
  BY <1>1, ReplayedIs, Zenon
<1> DEFINE T == {i \in 0..Len(b) : h[i] \notin StateType}
<1>4. ASSUME NEW i \in 0..Len(b)
      PROVE  h[i] = IF i = 0 THEN start ELSE Replay(h[i - 1], b[i])
  BY <1>3, Zenon DEF Run
<1>5. CASE T # {}
  <2>1. PICK i \in T : \A k \in T : i <= k
    <3>1. T \in SUBSET Nat
      BY <1>1
    <3> HIDE DEF T
    <3> QED
      BY <1>5, <3>1, LeastNatural, Zenon
  <2>2. i \in 0..Len(b) /\ h[i] \notin StateType /\ i \in Nat
    BY <1>1, <2>1
  <2>3. i # 0
    BY <1>2, <1>4, <2>2, Zenon
  <2>4. i - 1 \in 0..Len(b) /\ i - 1 \notin T
    <3>1. i - 1 \in 0..Len(b) /\ ~(i <= i - 1)
      BY <1>1, <2>2, <2>3
    <3> QED
      BY <2>1, <3>1, Zenon
  <2>5. h[i - 1] \in StateType /\ b[i] \in Record
    BY <1>1, <2>2, <2>3, <2>4
  <2> QED
    BY <1>4, <2>2, <2>3, <2>5, ReplayTyped, Zenon
<1>6. CASE T = {}
  BY <1>1, <1>3, <1>6 DEF State, b, start
<1> QED
  BY <1>5, <1>6, Zenon

-----------------------------------------------------------------------------
(* Types.                                                                   *)
LEMMA ZoneFacts == Zones \subseteq Nat /\ NoZone \notin Zones /\ 1 \in Zones /\ 2 \in Zones
BY LogAssumption DEF Zones, NoZone

(* Every record takes at least a block.                                     *)
LEMMA SizeFacts == \A k : Size(k) \in Nat /\ Size(k) >= 1
BY LogAssumption DEF Size

(* Updates and snapshots of the files in memory are records.                *)
LEMMA EncodeTyped ==
  ASSUME FileTypes
  PROVE  /\ \A kind \in {"upd", "rep"}, f \in Files : EncodeUpdateTo(kind, f) \in Record
         /\ EncodeSnapshotTo \in Record
<1>1. ASSUME NEW kind \in {"upd", "rep"}, NEW f \in Files
      PROVE  EncodeUpdateTo(kind, f) \in Record
  <2>1. SubSeq(extents_[f], nr_synced_extents_[f] + 1, Len(extents_[f])) \in Seq(Extent)
    BY DEF FileTypes
  <2> QED
    BY <2>1, RecordForms, Zenon DEF EncodeUpdateTo
<1>2. [f \in files_ |-> extents_[f]] \in Table
  <2>1. [f \in files_ |-> extents_[f]] \in [files_ -> Seq(Extent)] /\ files_ \in SUBSET Files
    BY Zenon DEF FileTypes
  <2> QED
    BY <2>1, TableForms, Zenon
<1>3. EncodeSnapshotTo \in Record
  BY <1>2, RecordForms, Zenon DEF EncodeSnapshotTo
<1> QED
  BY <1>1, <1>3, Zenon

(* Among the zones that a mount can read there is a newest one.             *)
Found == {z \in Zones : HasSuperblock(z)
                        /\ RecoverFrom(log[z], finished[z]).status # "NotFound"}

(* A zone with a superblock has a sequence number.                          *)
LEMMA FoundNumbered ==
  ASSUME LogTypes, NEW z \in Zones, HasSuperblock(z)
  PROVE  log[z][1].seq \in Nat
<1>1. log[z] \in Seq(Record) /\ log[z] # <<>> /\ log[z][1].k = "super"
  BY Zenon DEF LogTypes, HasSuperblock
<1>2. log[z][1] \in Record
  BY <1>1
<1> QED
  BY <1>1, <1>2, RecordFacts, Zenon

(* One of the zones found comes first in the order of the mount.            *)
LEMMA NewestExists ==
  ASSUME LogTypes, Found # {}
  PROVE  \E z \in Found : \A y \in Found \ {z} : Newer(z, y)
<1>1. \A z \in Found : log[z][1].seq \in Nat /\ z \in Nat /\ z >= 1 /\ z <= NrMetaZones
  BY FoundNumbered, LogAssumption DEF Found, Zones
<1> DEFINE Ahead(n) == {z \in Found : z <= n}
           Best(n) == \E z \in Ahead(n) : \A y \in Ahead(n) \ {z} : Newer(z, y)
           T == {n \in Nat : Ahead(n) # {} /\ ~Best(n)}
<1>2. ASSUME NEW n \in Nat, n \notin T PROVE n + 1 \notin T
  <2>1. CASE n + 1 \notin Found
    <3>1. Ahead(n + 1) = Ahead(n)
      <4>1. ASSUME NEW z \in Found PROVE z <= n + 1 <=> z <= n
        BY <1>1, <2>1
      <4> QED
        BY <4>1, Zenon
    <3> QED
      BY <1>2, <3>1, Zenon
  <2>2. CASE n + 1 \in Found
    <3>1. Ahead(n + 1) = Ahead(n) \cup {n + 1}
      <4>1. ASSUME NEW z \in Found PROVE z <= n + 1 <=> z <= n \/ z = n + 1
        BY <1>1
      <4> QED
        BY <2>2, <4>1, Zenon
    <3>2. CASE Ahead(n) = {}
      BY <3>1, <3>2, Zenon
    <3>3. CASE Ahead(n) # {}
      <4>1. PICK z \in Ahead(n) : \A y \in Ahead(n) \ {z} : Newer(z, y)
        BY <1>2, <3>3, Zenon
      <4>2. z \in Found /\ z \in Nat /\ z <= n
        BY <1>1, <4>1, Zenon
      <4>3. CASE log[z][1].seq > log[n + 1][1].seq
        <5>1. \A y \in Ahead(n + 1) \ {z} : Newer(z, y)
          BY <3>1, <4>1, <4>3, Zenon DEF Newer
        <5> QED
          BY <3>1, <4>1, <5>1, Zenon
      <4>4. CASE ~(log[z][1].seq > log[n + 1][1].seq)
        <5>1. ASSUME NEW y \in Ahead(n) PROVE Newer(n + 1, y)
          <6>1. y \in Found /\ y \in Nat /\ y <= n
            BY <1>1, Zenon
          <6>2. y = z \/ Newer(z, y)
            BY <4>1, Zenon
          <6> QED
            BY <1>1, <2>2, <4>2, <4>4, <6>1, <6>2 DEF Newer
        <5>2. \A y \in Ahead(n + 1) \ {n + 1} : Newer(n + 1, y)
          BY <3>1, <5>1, Zenon
        <5>3. n + 1 \in Ahead(n + 1)
          BY <3>1, Zenon
        <5> QED
          BY <5>2, <5>3, Zenon
      <4> QED
        BY <4>3, <4>4, Zenon
    <3> QED
      BY <3>2, <3>3, Zenon
  <2> QED
    BY <2>1, <2>2, Zenon
<1>3. 0 \notin T
  <2>1. \A z \in Found : ~(z <= 0)
    BY <1>1
  <2> QED
    BY <2>1, Zenon
<1>4. T = {}
  <2> SUFFICES ASSUME T # {} PROVE FALSE
    BY Zenon
  <2>1. T \in SUBSET Nat
    BY Zenon
  <2> HIDE DEF T
  <2>2. PICK n \in T : \A m \in T : n <= m
    BY <2>1, LeastNatural, Zenon
  <2>3. n \in Nat /\ n # 0
    BY <1>3, <2>1, <2>2, Zenon
  <2>4. n - 1 \in Nat /\ ~(n <= n - 1) /\ (n - 1) + 1 = n
    BY <2>3
  <2> QED
    BY <1>2, <2>2, <2>4, Zenon
<1>5. Ahead(NrMetaZones) = Found /\ NrMetaZones \in Nat
  <2>1. \A z \in Found : z <= NrMetaZones
    BY <1>1, Zenon
  <2> QED
    BY <2>1, LogAssumption, Zenon
<1>6. NrMetaZones \notin T
  BY <1>4, Zenon
<1> QED
  BY <1>5, <1>6, Zenon

(* RecoverFrom reports what replaying the zone found.                       *)
LEMMA RecoverIs ==
  ASSUME NEW z
  PROVE  /\ RecoverFrom(log[z], finished[z]).table = At(z).table
         /\ RecoverFrom(log[z], finished[z]).status
              = IF ~At(z).ok THEN "Corruption" ELSE IF ~At(z).found THEN "NotFound" ELSE "OK"
BY Zenon DEF RecoverFrom, At, State, Start

(* What a mount reads from any zone has its type.                           *)
LEMMA AtTyped ==
  ASSUME LogTypes, NEW z \in Zones
  PROVE  At(z) \in StateType
BY StateTyped, Zenon DEF At, LogTypes

(* What a mount that succeeds has found.                                    *)
LEMMA RecoveryForm ==
  ASSUME LogTypes
  PROVE  \/ Recovery.ok = FALSE /\ Recovery.table = NoTable
            /\ (Found = {} \/ \E z \in Zones : Foreign(z))
         \/ /\ \A z \in Zones : ~Foreign(z)
            /\ \E z \in Found : /\ \A y \in Found \ {z} : Newer(z, y)
                                /\ Recovery = Recovered(z)
<1>1. CASE Found = {} \/ \E z \in Zones : Foreign(z)
  BY <1>1, Zenon DEF Recovery, Found
<1>2. CASE ~(Found = {} \/ \E z \in Zones : Foreign(z))
  <2> DEFINE S == {Recovered(z) : z \in Found}
             Good(r) == \A y \in Found \ {r.zone} : Newer(r.zone, y)
  <2>1. Recovery = CHOOSE r \in S : Good(r)
    BY <1>2, Zenon DEF Recovery, Found
  <2>2. \A z : Recovered(z).zone = z
    BY Zenon DEF Recovered
  <2>3. \E r \in S : Good(r)
    <3>1. PICK z \in Found : \A y \in Found \ {z} : Newer(z, y)
      BY <1>2, NewestExists, Zenon
    <3>2. Recovered(z) \in S /\ Good(Recovered(z))
      BY <2>2, <3>1, Zenon
    <3> QED
      BY <3>2, Zenon
  <2>4. Recovery \in S /\ Good(Recovery)
    <3> HIDE DEF S, Good
    <3> QED
      BY <2>1, <2>3, Zenon
  <2>5. PICK z \in Found : Recovery = Recovered(z)
    BY <2>4, Zenon
  <2> QED
    BY <1>2, <2>2, <2>4, <2>5, Zenon
<1> QED
  BY <1>1, <1>2, Zenon

(* A mount that succeeds has a zone, a number and a table.                  *)
LEMMA RecoveryTyped ==
  ASSUME LogTypes, Recovery.ok
  PROVE  /\ Recovery.zone \in Zones /\ log[Recovery.zone][1].seq \in Nat
         /\ Recovery.table \in Table
<1>1. PICK z \in Found : Recovery = Recovered(z)
  BY RecoveryForm, Zenon
<1>2. z \in Zones /\ HasSuperblock(z)
  BY Zenon DEF Found
<1>3. Recovery.zone = z /\ Recovery.table = At(z).table
  BY <1>1, RecoverIs, Zenon DEF Recovered
<1> QED
  BY <1>2, <1>3, AtTyped, FoundNumbered, Zenon DEF StateType

(* MkFS leaves a superblock and a snapshot.                                 *)
LEMMA FormattedFacts ==
  /\ Formatted \in Seq(Record) /\ Len(Formatted) = 1 + SnapBlocks
  /\ Formatted[1] = Super(IF InitialFiles = {} THEN 1 ELSE 3)
  /\ Formatted[2] = [k |-> "snap", table |-> [f \in InitialFiles |-> << <<1, 0>> >>]]
<1> DEFINE t == [f \in InitialFiles |-> << <<1, 0>> >>]
           s == [k |-> "snap", table |-> t]
           p == Super(IF InitialFiles = {} THEN 1 ELSE 3)
           c == [i \in 1..(SnapBlocks - 1) |-> Cont]
<1>1. <<1, 0>> \in Extent
  BY LogAssumption DEF Extent
<1>2. t \in [InitialFiles -> Seq(Extent)] /\ InitialFiles \in SUBSET Files
  BY <1>1, LogAssumption
<1>3. s \in Record /\ p \in Record
  <2>1. t \in Table
    BY <1>2, TableForms, Zenon
  <2> HIDE DEF t
  <2> QED
    BY <2>1, RecordForms, Zenon
<1>4. c \in Seq(Record) /\ Len(c) = SnapBlocks - 1
  BY RecordForms, LogAssumption
<1>5. Formatted = <<p, s>> \o c
  BY Zenon DEF Formatted
<1> HIDE DEF c, s, p
<1>6. /\ Formatted \in Seq(Record) /\ Len(Formatted) = 1 + SnapBlocks
      /\ Formatted[1] = p /\ Formatted[2] = s
  BY <1>3, <1>4, <1>5, LogAssumption
<1> QED
  BY <1>6, Zenon DEF p, s

(* The first states have their types.                                       *)
LEMMA InitType == Init => TypeInv
<1> SUFFICES ASSUME Init PROVE TypeInv
  BY Zenon
<1>1. LogTypes
  <2>1. Len(Formatted) <= ZoneBlocks /\ Formatted \in Seq(Record)
    BY FormattedFacts, LogAssumption
  <2> QED
    BY <2>1, LogAssumption DEF Init, LogTypes
<1>2. FileTypes
  <2>1. <<1, 0>> \in Extent
    BY LogAssumption DEF Extent
  <2> QED
    BY <2>1, LogAssumption DEF Init, FileTypes
<1>3. OpTypes
  BY RecordForms, Zenon DEF Init, OpTypes, FileOps
<1>4. RoomFit
  BY Zenon DEF Init, RoomFit, Writing
<1> QED
  BY <1>1, <1>2, <1>3, <1>4, Zenon DEF TypeInv

(* Every action keeps the types, and the room of a begun record.            *)
LEMMA TypeStep == TypeInv /\ [Next]_vars => TypeInv'
<1> SUFFICES ASSUME TypeInv, [Next]_vars PROVE TypeInv'
  BY Zenon
<1>Leave. ASSUME Leave, made' = made, acked' = acked \/ acked' = [f \in Files |-> <<>>]
          PROVE  TypeInv'
  <2> USE <1>Leave
  <2> LogTypes /\ FileTypes /\ OpTypes /\ RoomFit
    BY Zenon DEF TypeInv
  <2>1. LogTypes'
    BY Zenon DEF LogTypes, Leave, devVars
  <2>2. FileTypes'
    <3>1. <<>> \in Seq(Extent) /\ Len(<<>>) = 0
      OBVIOUS
    <3>2. acked' \in [Files -> Seq(Extent)]
      BY <3>1, Zenon DEF FileTypes
    <3>3. \A f \in Files : nr_synced_extents_'[f] <= Len(extents_'[f])
      BY <3>1 DEF Leave
    <3> QED
      BY <3>1, <3>2, <3>3, Zenon DEF FileTypes, Leave
  <2>3. OpTypes'
    BY RecordForms, Zenon DEF OpTypes, Leave, FileOps
  <2>4. RoomFit'
    BY Zenon DEF RoomFit, Leave, Writing
  <2> QED
    BY <2>1, <2>2, <2>3, <2>4, Zenon DEF TypeInv
<1>PushExtent. ASSUME NEW f \in Files, PushExtent(f)
               PROVE  TypeInv'
  <2> USE <1>PushExtent
  <2> LogTypes /\ FileTypes /\ OpTypes /\ RoomFit
    BY Zenon DEF TypeInv
  <2>1. LogTypes'
    BY Zenon DEF LogTypes, PushExtent, devVars, logVars
  <2>2. FileTypes'
    <3>1. <<born[f] + 1, 0>> \in Extent
      BY LogAssumption DEF FileTypes, PushExtent, Extent
    <3>2. Append(extents_[f], <<born[f] + 1, 0>>) \in Seq(Extent)
          /\ Len(Append(extents_[f], <<born[f] + 1, 0>>)) = Len(extents_[f]) + 1
      BY <3>1 DEF FileTypes
    <3> QED
      BY <3>2, LogAssumption DEF FileTypes, PushExtent, told, bounds
  <2>3. OpTypes'
    BY Zenon DEF OpTypes, PushExtent, opVars
  <2>4. RoomFit'
    BY Zenon DEF RoomFit, PushExtent, devVars, logVars, opVars, Writing, Target
  <2> QED
    BY <2>1, <2>2, <2>3, <2>4, Zenon DEF TypeInv
<1>MigrateStart. ASSUME NEW f \in Files, MigrateStart(f)
                 PROVE  TypeInv'
  <2> USE <1>MigrateStart
  <2> LogTypes /\ FileTypes /\ OpTypes /\ RoomFit
    BY Zenon DEF TypeInv
  <2>1. LogTypes'
    BY Zenon DEF LogTypes, MigrateStart, devVars, logVars
  <2>2. FileTypes'
    BY LogAssumption DEF FileTypes, MigrateStart, memVars, told, bounds
  <2>3. OpTypes'
    BY Zenon DEF OpTypes, MigrateStart, opVars
  <2>4. RoomFit'
    BY Zenon DEF RoomFit, MigrateStart, devVars, logVars, opVars, Writing, Target
  <2> QED
    BY <2>1, <2>2, <2>3, <2>4, Zenon DEF TypeInv
<1>ReplaceExtentList. ASSUME NEW f \in Files, ReplaceExtentList(f)
                      PROVE  TypeInv'
  <2> USE <1>ReplaceExtentList
  <2> LogTypes /\ FileTypes /\ OpTypes /\ RoomFit
    BY Zenon DEF TypeInv
  <2>1. LogTypes'
    BY Zenon DEF LogTypes, ReplaceExtentList, devVars, logVars
  <2>2. FileTypes'
    <3> DEFINE s == extents_[f]
               t == [i \in DOMAIN s |-> <<s[i][1], moved[f]>>]
    <3>1. s \in Seq(Extent) /\ DOMAIN s = 1..Len(s) /\ Len(s) \in Nat /\ moved[f] \in 0..MaxMoves
      BY DEF FileTypes
    <3>2. \A i \in DOMAIN s : <<s[i][1], moved[f]>> \in Extent
      <4>1. \A i \in DOMAIN s : s[i] \in Extent
        BY <3>1
      <4> QED
        BY <3>1, <4>1, Zenon DEF Extent
    <3>3. t \in [1..Len(s) -> Extent]
      BY <3>1, <3>2, Zenon
    <3>4. t \in Seq(Extent) /\ Len(t) = Len(s)
      <4> HIDE DEF t, s
      <4> QED
        BY <3>1, <3>3
    <3>5. extents_' = [extents_ EXCEPT ![f] = t]
      BY Zenon DEF ReplaceExtentList
    <3> HIDE DEF t
    <3> QED
      BY <3>4, <3>5, Zenon DEF FileTypes, ReplaceExtentList, told, bounds
  <2>3. OpTypes'
    BY Zenon DEF OpTypes, ReplaceExtentList, opVars
  <2>4. RoomFit'
    BY Zenon DEF RoomFit, ReplaceExtentList, devVars, logVars, opVars, Writing, Target
  <2> QED
    BY <2>1, <2>2, <2>3, <2>4, Zenon DEF TypeInv
<1>MetadataUnsynced. ASSUME NEW f \in Files, MetadataUnsynced(f)
                     PROVE  TypeInv'
  <2> USE <1>MetadataUnsynced
  <2> LogTypes /\ FileTypes /\ OpTypes /\ RoomFit
    BY Zenon DEF TypeInv
  <2>1. LogTypes'
    BY Zenon DEF LogTypes, MetadataUnsynced, devVars, logVars
  <2>2. FileTypes'
    BY DEF FileTypes, MetadataUnsynced, memVars, told, bounds
  <2>3. OpTypes'
    BY Zenon DEF OpTypes, MetadataUnsynced, opVars
  <2>4. RoomFit'
    BY Zenon DEF RoomFit, MetadataUnsynced, devVars, logVars, opVars, Writing, Target
  <2> QED
    BY <2>1, <2>2, <2>3, <2>4, Zenon DEF TypeInv
<1>Reopen. ASSUME NEW f \in Files, Reopen(f)
           PROVE  TypeInv'
  <2> USE <1>Reopen
  <2> LogTypes /\ FileTypes /\ OpTypes /\ RoomFit
    BY Zenon DEF TypeInv
  <2>1. LogTypes'
    BY Zenon DEF LogTypes, Reopen, devVars, logVars
  <2>2. FileTypes'
    BY Zenon DEF FileTypes, Reopen, memVars, told, bounds
  <2>3. OpTypes'
    BY Zenon DEF OpTypes, Reopen, FileOps
  <2>4. RoomFit'
    BY Zenon DEF RoomFit, Reopen, devVars, logVars, opVars, Writing, Target
  <2> QED
    BY <2>1, <2>2, <2>3, <2>4, Zenon DEF TypeInv
<1>CreateStart. ASSUME NEW f \in Files, CreateStart(f)
                PROVE  TypeInv'
  <2> USE <1>CreateStart
  <2> LogTypes /\ FileTypes /\ OpTypes /\ RoomFit
    BY Zenon DEF TypeInv
  <2>1. LogTypes'
    BY Zenon DEF LogTypes, CreateStart, Begin, Idle, devVars, logVars
  <2>2. FileTypes'
    BY Zenon DEF FileTypes, CreateStart, Begin, Idle, memVars, told, bounds
  <2>3. OpTypes'
    BY EncodeTyped, RecordForms, SizeFacts, Zenon DEF OpTypes, CreateStart, Begin, FileOps, opVars
  <2>4. RoomFit'
    BY SizeFacts DEF RoomFit, CreateStart, Begin, Idle, devVars, logVars, opVars,
       Writing, Target
  <2> QED
    BY <2>1, <2>2, <2>3, <2>4, Zenon DEF TypeInv
<1>SyncStart. ASSUME NEW f \in Files, NEW kind \in {"sync", "close"}, SyncStart(f, kind)
              PROVE  TypeInv'
  <2> USE <1>SyncStart
  <2> LogTypes /\ FileTypes /\ OpTypes /\ RoomFit
    BY Zenon DEF TypeInv
  <2>1. LogTypes'
    BY Zenon DEF LogTypes, SyncStart, Begin, Idle, devVars, logVars
  <2>2. FileTypes'
    BY Zenon DEF FileTypes, SyncStart, Begin, Idle, memVars, told, bounds
  <2>3. OpTypes'
    BY EncodeTyped, RecordForms, SizeFacts, Zenon DEF OpTypes, SyncStart, Begin, FileOps, opVars
  <2>4. RoomFit'
    BY SizeFacts DEF RoomFit, SyncStart, Begin, Idle, devVars, logVars, opVars,
       Writing, Target
  <2> QED
    BY <2>1, <2>2, <2>3, <2>4, Zenon DEF TypeInv
<1>ReplaceStart. ASSUME NEW f \in Files, ReplaceStart(f)
                 PROVE  TypeInv'
  <2> USE <1>ReplaceStart
  <2> LogTypes /\ FileTypes /\ OpTypes /\ RoomFit
    BY Zenon DEF TypeInv
  <2>1. LogTypes'
    BY Zenon DEF LogTypes, ReplaceStart, Begin, Idle, devVars, logVars
  <2>2. FileTypes'
    <3>1. wr' = wr \/ wr' = [wr EXCEPT ![f] = "closed"]
      BY Zenon DEF ReplaceStart
    <3>2. UNCHANGED <<files_, extents_, nr_synced_extents_, born, moved, acked, made>>
      BY Zenon DEF ReplaceStart, told, bounds
    <3>3. wr' \in [Files -> {"closed", "open", "gc", "swapped", "unsynced", "spent"}]
      BY <3>1, Zenon DEF FileTypes
    <3> QED
      BY <3>2, <3>3, Zenon DEF FileTypes
  <2>3. OpTypes'
    BY EncodeTyped, RecordForms, SizeFacts, Zenon DEF OpTypes, ReplaceStart, Begin, FileOps,
       opVars
  <2>4. RoomFit'
    BY SizeFacts DEF RoomFit, ReplaceStart, Begin, Idle, devVars, logVars, opVars,
       Writing, Target
  <2> QED
    BY <2>1, <2>2, <2>3, <2>4, Zenon DEF TypeInv
<1>DeleteStart. ASSUME NEW f \in Files, DeleteStart(f)
                PROVE  TypeInv'
  <2> USE <1>DeleteStart
  <2> LogTypes /\ FileTypes /\ OpTypes /\ RoomFit
    BY Zenon DEF TypeInv
  <2>1. LogTypes'
    BY Zenon DEF LogTypes, DeleteStart, Begin, Idle, devVars, logVars
  <2>2. FileTypes'
    BY Zenon DEF FileTypes, DeleteStart, Begin, Idle, memVars, told, bounds
  <2>3. OpTypes'
    BY EncodeTyped, RecordForms, SizeFacts, Zenon DEF OpTypes, DeleteStart, Begin, FileOps, opVars
  <2>4. RoomFit'
    BY SizeFacts DEF RoomFit, DeleteStart, Begin, Idle, devVars, logVars, opVars,
       Writing, Target
  <2> QED
    BY <2>1, <2>2, <2>3, <2>4, Zenon DEF TypeInv
<1>AcquireWRLock. ASSUME AcquireWRLock
                  PROVE  TypeInv'
  <2> USE <1>AcquireWRLock
  <2> LogTypes /\ FileTypes /\ OpTypes /\ RoomFit
    BY Zenon DEF TypeInv
  <2>1. LogTypes'
    BY Zenon DEF LogTypes, AcquireWRLock, devVars, logVars
  <2>2. FileTypes'
    <3>1. file \in Files
      BY Zenon DEF OpTypes, AcquireWRLock
    <3> QED
      BY <3>1, Zenon DEF FileTypes, AcquireWRLock, told, bounds
  <2>3. OpTypes'
    BY Zenon DEF OpTypes, AcquireWRLock, FileOps
  <2>4. RoomFit'
    BY Zenon DEF RoomFit, AcquireWRLock, devVars, logVars, opVars, Writing, Target
  <2> QED
    BY <2>1, <2>2, <2>3, <2>4, Zenon DEF TypeInv
<1>WriteBlock. ASSUME WriteBlock
               PROVE  TypeInv'
  <2> USE <1>WriteBlock
  <2> LogTypes /\ FileTypes /\ OpTypes /\ RoomFit
    BY Zenon DEF TypeInv
  <2>1. Target \in Zones
    BY ZoneFacts, Zenon DEF LogTypes, RoomFit, WriteBlock, Writing, Target
  <2>3. /\ left = Size(rec.k) => Len(log[Target]) + left <= ZoneBlocks
        /\ Len(log[Target]) \in Nat /\ left \in Nat /\ left >= 1
    <3>1. Len(log[Target]) \in Nat /\ Len(log[Target]) <= ZoneBlocks /\ ZoneBlocks \in Nat
      BY <2>1, LogAssumption DEF LogTypes
    <3>2. left \in Nat /\ left >= 1 /\ Size(rec.k) \in Nat
      BY SizeFacts, Zenon DEF OpTypes, RoomFit, WriteBlock
    <3>3. left = Size(rec.k) => GetCapacityLeft(Target) >= left
      BY <3>1, <3>2 DEF WriteBlock, NoSpace, GetCapacityLeft
    <3> QED
      BY <3>1, <3>2, <3>3 DEF GetCapacityLeft
  <2>2. Len(log[Target]) + 1 <= ZoneBlocks
    BY <2>3, SizeFacts, LogAssumption DEF RoomFit, OpTypes, WriteBlock
  <2>4. LogTypes'
    <3> DEFINE b == IF left = Size(rec.k) THEN rec ELSE Cont
    <3>1. b \in Record
      BY RecordForms, Zenon DEF OpTypes
    <3>2. Append(log[Target], b) \in Seq(Record)
          /\ Len(Append(log[Target], b)) = Len(log[Target]) + 1
      BY <2>1, <3>1 DEF LogTypes
    <3>3. log' = [log EXCEPT ![Target] = Append(log[Target], b)]
      BY Zenon DEF WriteBlock
    <3> HIDE DEF b
    <3> QED
      BY <2>1, <2>2, <3>2, <3>3 DEF LogTypes, WriteBlock, logVars
  <2>5. FileTypes'
    BY Zenon DEF FileTypes, WriteBlock, memVars, told, bounds
  <2>6. OpTypes'
    <3>1. pc' = pc \/ pc' \in {"ack", "finish", "encode", "synced"}
      BY Zenon DEF WriteBlock, Writing, After
    <3>2. left' \in Nat
      BY DEF OpTypes, RoomFit, WriteBlock
    <3> QED
      BY <3>1, <3>2, Zenon DEF OpTypes, WriteBlock, opVars
  <2>7. RoomFit'
    <3>1. CASE left = 1
      <4>1. pc' = After(pc) /\ pc' \in {"ack", "finish", "encode", "synced"}
            /\ (pc' = "finish" => pc = "end") /\ pc # "down"
        BY <3>1, Zenon DEF WriteBlock, Writing, After
      <4> QED
        BY <4>1, Zenon DEF RoomFit, WriteBlock, Writing, logVars
    <3>2. CASE left # 1
      <4>1. pc' = pc /\ Target' = Target /\ left' = left - 1 /\ rec' = rec /\ Writing
        BY <3>2, Zenon DEF WriteBlock, Target, logVars
      <4>2. Len(log'[Target]) = Len(log[Target]) + 1
        BY <2>1 DEF LogTypes, WriteBlock
      <4>3. left \in Nat /\ left >= 1 /\ left <= Size(rec.k) /\ Size(rec.k) \in Nat
        BY <4>1, SizeFacts, Zenon DEF OpTypes, RoomFit
      <4>4. Len(log[Target]) \in Nat
        BY <2>1 DEF LogTypes
      <4> QED
        BY <2>3, <3>2, <4>1, <4>2, <4>3, <4>4 DEF RoomFit, WriteBlock, Writing, logVars
    <3> QED
      BY <3>1, <3>2, Zenon
  <2> QED
    BY <2>4, <2>5, <2>6, <2>7, Zenon DEF TypeInv
<1>RecordNoSpace. ASSUME RecordNoSpace
                  PROVE  TypeInv'
  <2> USE <1>RecordNoSpace
  <2> LogTypes /\ FileTypes /\ OpTypes /\ RoomFit
    BY Zenon DEF TypeInv
  <2>1. LogTypes'
    BY Zenon DEF LogTypes, RecordNoSpace, Writing, devVars, logVars
  <2>2. FileTypes'
    BY Zenon DEF FileTypes, RecordNoSpace, Writing, memVars, told, bounds
  <2>3. OpTypes'
    BY Zenon DEF OpTypes, RecordNoSpace, Writing, opVars
  <2>4. RoomFit'
    BY Zenon DEF RoomFit, RecordNoSpace, Writing, devVars, logVars, opVars, Writing, Target
  <2> QED
    BY <2>1, <2>2, <2>3, <2>4, Zenon DEF TypeInv
<1>WriteError. ASSUME WriteError
               PROVE  TypeInv'
  <2> USE <1>WriteError
  <2> LogTypes /\ FileTypes /\ OpTypes /\ RoomFit
    BY Zenon DEF TypeInv
  <2>1. LogTypes'
    BY Zenon DEF LogTypes, WriteError, Writing, devVars, logVars
  <2>2. FileTypes'
    BY Zenon DEF FileTypes, WriteError, Writing, memVars, told, bounds
  <2>3. OpTypes'
    BY Zenon DEF OpTypes, WriteError, Writing, opVars
  <2>4. RoomFit'
    BY Zenon DEF RoomFit, WriteError, Writing, devVars, logVars, opVars, Writing, Target
  <2> QED
    BY <2>1, <2>2, <2>3, <2>4, Zenon DEF TypeInv
<1>AllocateMetaZone. ASSUME AllocateMetaZone
                     PROVE  TypeInv'
  <2> USE <1>AllocateMetaZone
  <2> LogTypes /\ FileTypes /\ OpTypes /\ RoomFit
    BY Zenon DEF TypeInv
  <2>1. LogTypes'
    <3>1. meta_log_ \in Zones
      BY Zenon DEF LogTypes, RoomFit, AllocateMetaZone
    <3>2. <<>> \in Seq(Record) /\ Len(<<>>) = 0 /\ ZoneBlocks >= 0
      BY LogAssumption
    <3> QED
      BY <3>1, <3>2 DEF LogTypes, AllocateMetaZone, Free
  <2>2. FileTypes'
    BY Zenon DEF FileTypes, AllocateMetaZone, memVars, told, bounds
  <2>3. OpTypes'
    BY RecordForms, Zenon DEF OpTypes, AllocateMetaZone, opVars
  <2>4. RoomFit'
    <3>1. meta_log_ # NoZone /\ meta_log_' # NoZone /\ old_meta_log' = meta_log_
      BY ZoneFacts, Zenon DEF RoomFit, AllocateMetaZone, Free
    <3>2. Size("end") = 1
      BY Zenon DEF Size
    <3>3. left' = 1 /\ rec'.k = "end" /\ pc' \in {"end", "finish"}
      BY Zenon DEF AllocateMetaZone, EndRec
    <3> QED
      BY <3>1, <3>2, <3>3 DEF RoomFit, Writing
  <2> QED
    BY <2>1, <2>2, <2>3, <2>4, Zenon DEF TypeInv
<1>OutOfMetaZones. ASSUME OutOfMetaZones
                   PROVE  TypeInv'
  <2> USE <1>OutOfMetaZones
  <2> LogTypes /\ FileTypes /\ OpTypes /\ RoomFit
    BY Zenon DEF TypeInv
  <2>1. LogTypes'
    BY Zenon DEF LogTypes, OutOfMetaZones, devVars, logVars
  <2>2. FileTypes'
    BY Zenon DEF FileTypes, OutOfMetaZones, memVars, told, bounds
  <2>3. OpTypes'
    BY Zenon DEF OpTypes, OutOfMetaZones, opVars
  <2>4. RoomFit'
    BY Zenon DEF RoomFit, OutOfMetaZones, devVars, logVars, opVars, Writing, Target
  <2> QED
    BY <2>1, <2>2, <2>3, <2>4, Zenon DEF TypeInv
<1>FinishOld. ASSUME FinishOld
              PROVE  TypeInv'
  <2> USE <1>FinishOld
  <2> LogTypes /\ FileTypes /\ OpTypes /\ RoomFit
    BY Zenon DEF TypeInv
  <2>1. LogTypes'
    <3>1. old_meta_log \in Zones
      BY Zenon DEF LogTypes, RoomFit, FinishOld
    <3>2. finished' = [finished EXCEPT ![old_meta_log] = TRUE] \/ finished' = finished
      BY Zenon DEF FinishOld
    <3>3. finished' \in [Zones -> BOOLEAN]
      BY <3>1, <3>2, Zenon DEF LogTypes
    <3> QED
      BY <3>3 DEF LogTypes, FinishOld
  <2>2. FileTypes'
    BY Zenon DEF FileTypes, FinishOld, memVars, told, bounds
  <2>3. OpTypes'
    BY RecordForms DEF LogTypes, OpTypes, FinishOld, opVars
  <2>4. RoomFit'
    <3>1. left' = 1 /\ rec'.k = "super" /\ pc' = "super" /\ meta_log_' = meta_log_ /\ pc = "finish"
      BY Zenon DEF FinishOld, Super
    <3>2. Size("super") = 1
      BY Zenon DEF Size
    <3> QED
      BY <3>1, <3>2 DEF RoomFit, Writing
  <2> QED
    BY <2>1, <2>2, <2>3, <2>4, Zenon DEF TypeInv
<1>EncodeSnapshot. ASSUME EncodeSnapshot
                   PROVE  TypeInv'
  <2> USE <1>EncodeSnapshot
  <2> LogTypes /\ FileTypes /\ OpTypes /\ RoomFit
    BY Zenon DEF TypeInv
  <2>1. LogTypes'
    BY Zenon DEF LogTypes, EncodeSnapshot, devVars, logVars
  <2>2. FileTypes'
    BY Zenon DEF FileTypes, EncodeSnapshot, memVars, told, bounds
  <2>3. OpTypes'
    BY EncodeTyped, LogAssumption, Zenon DEF OpTypes, EncodeSnapshot, opVars
  <2>4. RoomFit'
    <3>1. rec'.k = "snap" /\ left' = Size("snap") /\ pc' = "snap"
      BY Zenon DEF EncodeSnapshot, EncodeSnapshotTo, Size
    <3> QED
      BY <3>1, SizeFacts DEF RoomFit, EncodeSnapshot, Writing, logVars
  <2> QED
    BY <2>1, <2>2, <2>3, <2>4, Zenon DEF TypeInv
<1>SnapshotSynced. ASSUME SnapshotSynced
                   PROVE  TypeInv'
  <2> USE <1>SnapshotSynced
  <2> LogTypes /\ FileTypes /\ OpTypes /\ RoomFit
    BY Zenon DEF TypeInv
  <2>1. LogTypes'
    <3>1. <<>> \in Seq(Record) /\ Len(<<>>) = 0 /\ ZoneBlocks >= 0
      BY LogAssumption
    <3>2. log' \in [Zones -> Seq(Record)] /\ \A z \in Zones : Len(log'[z]) <= ZoneBlocks
      BY <3>1, Zenon DEF LogTypes, SnapshotSynced, devVars
    <3>3. finished' \in [Zones -> BOOLEAN]
      BY Zenon DEF LogTypes, SnapshotSynced, devVars
    <3>4. busy_' \in [Zones -> BOOLEAN]
      BY Zenon DEF LogTypes, SnapshotSynced, ReleaseOld
    <3> QED
      BY <3>2, <3>3, <3>4, Zenon DEF LogTypes, SnapshotSynced, ReleaseOld
  <2>2. FileTypes'
    BY DEF FileTypes, SnapshotSynced, ReleaseOld, memVars, told, bounds
  <2>3. OpTypes'
    BY Zenon DEF OpTypes, SnapshotSynced, ReleaseOld, opVars
  <2>4. RoomFit'
    BY Zenon DEF RoomFit, SnapshotSynced, ReleaseOld, devVars, logVars, opVars, Writing, Target
  <2> QED
    BY <2>1, <2>2, <2>3, <2>4, Zenon DEF TypeInv
<1>Ack. ASSUME Ack
        PROVE  TypeInv'
  <2> USE <1>Ack
  <2> LogTypes /\ FileTypes /\ OpTypes /\ RoomFit
    BY Zenon DEF TypeInv
  <2>1. LogTypes'
    BY Zenon DEF LogTypes, Ack, Done, devVars, logVars
  <2>2. FileTypes'
    <3>1. op \in FileOps => file \in Files
      BY Zenon DEF OpTypes
    <3>2. op \in {"create", "sync", "close", "replace"} => file \in Files
      BY <3>1, Zenon DEF FileOps
    <3> QED
      BY <3>2 DEF FileTypes, Ack, bounds
  <2>3. OpTypes'
    BY RecordForms, Zenon DEF OpTypes, Ack, Done, FileOps
  <2>4. RoomFit'
    BY Zenon DEF RoomFit, Ack, Done, devVars, logVars, opVars, Writing, Target
  <2> QED
    BY <2>1, <2>2, <2>3, <2>4, Zenon DEF TypeInv
<1>Fail. ASSUME Fail
         PROVE  TypeInv'
  <2> USE <1>Fail
  <2> LogTypes /\ FileTypes /\ OpTypes /\ RoomFit
    BY Zenon DEF TypeInv
  <2>1. CASE PowerOff
    BY <2>1, <1>Leave, Zenon DEF PowerOff, told
  <2>2. CASE ~PowerOff
    <3>1. /\ op \in {"create", "delete", "replace"} => file \in Files
          /\ pc = "fail" /\ Done /\ ReleaseOld
      BY <2>2, Zenon DEF OpTypes, FileOps, Fail
    <3>2. LogTypes'
      <4>1. busy_' \in [Zones -> BOOLEAN]
        BY <3>1, Zenon DEF LogTypes, ReleaseOld
      <4> QED
        BY <2>2, <3>1, <4>1, Zenon DEF LogTypes, Fail, ReleaseOld, devVars
    <3>3. FileTypes'
      BY <2>2, <3>1, Zenon DEF FileTypes, Fail, bounds
    <3>4. OpTypes'
      BY <3>1, RecordForms, Zenon DEF OpTypes, Done, FileOps
    <3>5. RoomFit'
      BY <2>2, <3>1, Zenon DEF RoomFit, Fail, Done, Writing
    <3> QED
      BY <3>2, <3>3, <3>4, <3>5, Zenon DEF TypeInv
  <2> QED
    BY <2>1, <2>2, Zenon
<1>Crash. ASSUME Crash
          PROVE  TypeInv'
  BY <1>Crash, <1>Leave, Zenon DEF Crash, PowerOff, told
<1>MkFSDone. ASSUME MkFSDone
             PROVE  TypeInv'
  BY <1>MkFSDone, <1>Leave, Zenon DEF MkFSDone
<1>Mount. ASSUME Mount
          PROVE  TypeInv'
  <2> USE <1>Mount
  <2> LogTypes /\ FileTypes /\ OpTypes /\ RoomFit
    BY Zenon DEF TypeInv
  <2>1. LogTypes'
    <3>1. Recovery.zone \in Zones /\ log[Recovery.zone][1].seq \in Nat
      BY RecoveryTyped, Zenon DEF Mount
    <3>2. busy_' \in [Zones -> BOOLEAN]
      BY Zenon DEF Mount
    <3> QED
      BY <3>1, <3>2 DEF LogTypes, Mount, devVars
  <2>2. FileTypes'
    <3> DEFINE t == Recovery.table
    <3>1. DOMAIN t \subseteq Files /\ t \in [DOMAIN t -> Seq(Extent)]
      BY RecoveryTyped, TableFacts, Zenon DEF Mount
    <3>2. /\ files_' = DOMAIN t
          /\ extents_' = [f \in Files |-> IF f \in DOMAIN t THEN t[f] ELSE <<>>]
          /\ nr_synced_extents_' = [f \in Files |-> Len(extents_'[f])]
      BY Zenon DEF Mount
    <3> HIDE DEF t
    <3>3. extents_' \in [Files -> Seq(Extent)]
      BY <3>1, <3>2
    <3> QED
      BY <3>1, <3>2, <3>3 DEF FileTypes, Mount, told, bounds
  <2>3. OpTypes'
    BY Zenon DEF OpTypes, Mount, FileOps
  <2>4. RoomFit'
    <3>1. Recovery.zone # NoZone
      BY RecoveryTyped, ZoneFacts, Zenon DEF Mount
    <3> QED
      BY <3>1, Zenon DEF RoomFit, Mount, Writing
  <2> QED
    BY <2>1, <2>2, <2>3, <2>4, Zenon DEF TypeInv
<1>MkFSStart. ASSUME MkFSStart
              PROVE  TypeInv'
  <2> USE <1>MkFSStart
  <2> LogTypes /\ FileTypes /\ OpTypes /\ RoomFit
    BY Zenon DEF TypeInv
  <2>1. PICK failed \in SUBSET {z \in Zones : MayFailReset(z)} :
          /\ failed # Zones
          /\ meta_log_' = CHOOSE z \in Zones \ failed : \A y \in Zones \ failed : z <= y
          /\ log' = [z \in Zones |-> IF z \in failed THEN log[z] ELSE <<>>]
          /\ finished' = [z \in Zones |-> z \in failed /\ finished[z]]
    BY Zenon DEF MkFSStart
  <2>2. meta_log_' \in Zones
    <3>1. Zones \ failed \in SUBSET Nat /\ Zones \ failed # {}
      BY <2>1, ZoneFacts, Zenon
    <3>2. \E z \in Zones \ failed : \A y \in Zones \ failed : z <= y
      BY <3>1, LeastNatural, Zenon
    <3> QED
      BY <2>1, <3>2, Zenon
  <2>3. LogTypes'
    <3>1. log' \in [Zones -> Seq(Record)] /\ \A z \in Zones : Len(log'[z]) <= ZoneBlocks
      BY <2>1, LogAssumption DEF LogTypes
    <3>2. finished' \in [Zones -> BOOLEAN]
      BY <2>1, Zenon DEF LogTypes
    <3>3. busy_' \in [Zones -> BOOLEAN]
      BY Zenon DEF MkFSStart
    <3> QED
      BY <2>2, <3>1, <3>2, <3>3, Zenon DEF LogTypes, MkFSStart
  <2>4. FileTypes'
    BY DEF FileTypes, MkFSStart, memVars, bounds
  <2>5. OpTypes'
    BY RecordForms, Zenon DEF OpTypes, MkFSStart, FileOps
  <2>6. RoomFit'
    <3>1. rec'.k = "super" /\ left' = 1 /\ pc' = "super"
      BY Zenon DEF MkFSStart, Super
    <3>2. Size("super") = 1
      BY Zenon DEF Size
    <3> QED
      BY <2>2, <3>1, <3>2, ZoneFacts DEF RoomFit, Writing
  <2> QED
    BY <2>3, <2>4, <2>5, <2>6, Zenon DEF TypeInv
<1>1. CASE Client
  BY <1>1, <1>PushExtent, <1>Reopen, <1>CreateStart, <1>DeleteStart, <1>SyncStart,
     <1>MigrateStart, Zenon DEF Client
<1>2. CASE Collector
  BY <1>2, <1>ReplaceExtentList, <1>MetadataUnsynced, <1>ReplaceStart, Zenon DEF Collector
<1>3. CASE Operation
  BY <1>3, <1>AcquireWRLock, <1>WriteBlock, <1>RecordNoSpace, <1>WriteError, <1>AllocateMetaZone,
     <1>OutOfMetaZones, <1>FinishOld, <1>EncodeSnapshot, <1>SnapshotSynced, <1>Ack, <1>Fail,
     <1>MkFSDone, Zenon DEF Operation
<1>4. CASE Crash \/ Mount \/ MkFSStart
  BY <1>4, <1>Crash, <1>Mount, <1>MkFSStart, Zenon
<1>5. CASE UNCHANGED vars
  BY <1>5 DEF vars, TypeInv, LogTypes, FileTypes, OpTypes, RoomFit, Writing, Target
<1> QED
  BY <1>1, <1>2, <1>3, <1>4, <1>5, Zenon DEF Next

(* The log in use is a metadata zone exactly while the file system is       *)
(* mounted, no zone holds more blocks than it has, and no file counts more  *)
(* extents as synced than it has, for any number of zones and files, any    *)
(* record sizes and all failures.                                           *)
THEOREM MetaTypeCorrect == Spec => []TypeOK
<1>1. TypeInv => TypeOK
  <2> SUFFICES ASSUME TypeInv PROVE TypeOK
    BY Zenon
  <2>1. \A f \in Files : Range(extents_[f]) \subseteq Extent /\ Range(acked[f]) \subseteq Extent
    BY DEF TypeInv, FileTypes, Range
  <2>2. \A f \in Files : nr_synced_extents_[f] \in 0..Len(extents_[f])
    BY DEF TypeInv, FileTypes
  <2> QED
    BY <2>1, <2>2, Zenon DEF TypeInv, LogTypes, FileTypes, OpTypes, RoomFit, TypeOK
<1> QED
  BY <1>1, InitType, TypeStep, PTL DEF Spec

=============================================================================
