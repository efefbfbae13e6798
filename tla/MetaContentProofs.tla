------------------------- MODULE MetaContentProofs --------------------------
(***************************************************************************)
(* The extents that a mount finds: all those of the syncs that returned, and *)
(* none of them twice.                                                      *)
(***************************************************************************)
EXTENDS MetaLogProofs

(* The solver for the leaves that do not name Zenon.                         *)
USE SMTT(60)

(* The extents a mount would find.                                          *)
Stored(z, f) == IF f \in DOMAIN At(z).table THEN At(z).table[f] ELSE <<>>
Prefix(s, t) == Len(s) <= Len(t) /\ \A i \in 1..Len(s) : s[i] = t[i]
Numbered(s, n) ==
  \A i \in 1..Len(s) : s[i][1] <= n /\ \A j \in 1..Len(s) : i < j => s[i][1] < s[j][1]
SyncOps == {"create", "sync", "close"}

FilesFit ==
  /\ \A f \in Files : wr[f] \in {"closed", "open", "spent"} /\ Numbered(extents_[f], born[f])
  /\ op # "replace"
  /\ "create" \in Ops =>
       \A f \in Files \ files_ : extents_[f] = <<>> /\ nr_synced_extents_[f] = 0
  /\ op = "delete" => file \notin made
  /\ pc = "add" /\ op \in SyncOps => rec = EncodeUpdateTo("upd", file)
  /\ pc = "snap" => rec = EncodeSnapshotTo

(* The files whose stored extents are known, and those whose extents the    *)
(* clients rely on.                                                         *)
Tracked(f) == f \in files_ \/ (f = file /\ (op = "create" \/ (op = "delete" /\ Before)))
Owed(z, f) == f \in DOMAIN At(z).table \/ f \in made \/ "delete" \notin Ops

Content(z) ==
  /\ \A f \in Files : Numbered(Stored(z, f), born[f])
  /\ pc # "down" =>
       \A f \in Files : Tracked(f) =>
         Stored(z, f) = IF pc = "synced" \/ (pc = "ack" /\ op \in SyncOps /\ f = file)
                        THEN extents_[f]
                        ELSE SubSeq(extents_[f], 1, nr_synced_extents_[f])
  /\ \A f \in Files : Owed(z, f) => Prefix(acked[f], Stored(z, f))
ContentInv ==
  RollFit /\ OpFit /\ FilesFit /\ \E z \in Zones : Live(z) /\ Listed(z) /\ Content(z)

-----------------------------------------------------------------------------
(* The extents that a mount finds.                                          *)
LEMMA SubFacts ==
  ASSUME NEW S, NEW s \in Seq(S), NEW n \in Nat, n <= Len(s)
  PROVE  /\ SubSeq(s, 1, Len(s)) = s
         /\ SubSeq(s, 1, n) \o SubSeq(s, n + 1, Len(s)) = s
         /\ SubSeq(s, 1, n) \in Seq(S) /\ Prefix(SubSeq(s, 1, n), s)
         /\ \A e \in S : SubSeq(Append(s, e), 1, n) = SubSeq(s, 1, n)
<1>1. SubSeq(s, 1, Len(s)) = s
  OBVIOUS
<1>2. /\ SubSeq(s, 1, n) \in Seq(S) /\ Len(SubSeq(s, 1, n)) = n
      /\ \A i \in 1..n : SubSeq(s, 1, n)[i] = s[i]
  OBVIOUS
<1>3. SubSeq(s, 1, n) \o SubSeq(s, n + 1, Len(s)) = s
  <2> DEFINE a == SubSeq(s, 1, n)
             b == SubSeq(s, n + 1, Len(s))
  <2>1. /\ b \in Seq(S) /\ Len(b) = Len(s) - n
        /\ \A i \in 1..(Len(s) - n) : b[i] = s[n + i]
    OBVIOUS
  <2>2. a \in Seq(S) /\ Len(a) = n /\ \A i \in 1..n : a[i] = s[i]
    BY <1>2, Zenon
  <2> HIDE DEF a, b
  <2>3. /\ a \o b \in Seq(S) /\ Len(a \o b) = Len(s)
        /\ \A i \in 1..Len(s) : (a \o b)[i] = IF i <= n THEN a[i] ELSE b[i - n]
    BY <2>1, <2>2
  <2>4. ASSUME NEW i \in 1..Len(s) PROVE (a \o b)[i] = s[i]
    BY <2>1, <2>2, <2>3
  <2>5. a \o b = s
    <3> DEFINE c == a \o b
    <3>1. c \in Seq(S) /\ Len(c) = Len(s) /\ \A i \in 1..Len(s) : c[i] = s[i]
      BY <2>3, <2>4, Zenon
    <3> HIDE DEF c
    <3>2. c = s
      BY <3>1
    <3> QED
      BY <3>2, Zenon DEF c
  <2> QED
    BY <2>5, Zenon DEF a, b
<1>4. ASSUME NEW e \in S PROVE SubSeq(Append(s, e), 1, n) = SubSeq(s, 1, n)
  <2> DEFINE t == Append(s, e)
  <2>1. t \in Seq(S) /\ Len(t) = Len(s) + 1 /\ \A i \in 1..Len(s) : t[i] = s[i]
    OBVIOUS
  <2> HIDE DEF t
  <2>2. /\ SubSeq(t, 1, n) \in Seq(S) /\ Len(SubSeq(t, 1, n)) = n
        /\ \A i \in 1..n : SubSeq(t, 1, n)[i] = t[i]
    BY <2>1
  <2>3. SubSeq(t, 1, n) = SubSeq(s, 1, n)
    BY <1>2, <2>1, <2>2
  <2> QED
    BY <2>3, Zenon DEF t
<1> QED
  BY <1>1, <1>2, <1>3, <1>4, Zenon DEF Prefix

(* Prefixes compose, and a concatenation extends its first part.            *)
LEMMA PrefixFacts ==
  /\ \A S : \A s \in Seq(S) : Prefix(s, s)
  /\ \A S : \A s, t, u \in Seq(S) : Prefix(s, t) /\ Prefix(t, u) => Prefix(s, u)
  /\ \A S : \A s, t \in Seq(S) : Prefix(s, s \o t)
<1>1. \A S : \A s \in Seq(S) : Prefix(s, s)
  BY DEF Prefix
<1>2. ASSUME NEW S, NEW s \in Seq(S), NEW t \in Seq(S), NEW u \in Seq(S),
             Prefix(s, t), Prefix(t, u)
      PROVE  Prefix(s, u)
  BY <1>2 DEF Prefix
<1>3. ASSUME NEW S, NEW s \in Seq(S), NEW t \in Seq(S) PROVE Prefix(s, s \o t)
  BY DEF Prefix
<1> QED
  BY <1>1, <1>2, <1>3, Zenon

(* Extents numbered in the order they were made stay so.                    *)
LEMMA NumberedFacts ==
  ASSUME NEW n \in Nat
  PROVE  /\ Numbered(<<>>, n)
         /\ \A s \in Seq(Extent) : Numbered(s, n) => Numbered(s, n + 1)
         /\ \A s \in Seq(Extent), e \in Extent :
              Numbered(s, n) /\ e[1] = n + 1 => Numbered(Append(s, e), n + 1)
<1>1. Numbered(<<>>, n)
  BY DEF Numbered
<1>2. ASSUME NEW s \in Seq(Extent) PROVE \A i \in 1..Len(s) : s[i][1] \in Nat
  <2>1. \A e \in Extent : e[1] \in Nat
    BY LogAssumption DEF Extent
  <2> QED
    BY <2>1
<1>3. \A s \in Seq(Extent) : Numbered(s, n) => Numbered(s, n + 1)
  BY <1>2 DEF Numbered
<1>4. ASSUME NEW s \in Seq(Extent), NEW e \in Extent, Numbered(s, n), e[1] = n + 1
      PROVE  Numbered(Append(s, e), n + 1)
  <2> DEFINE t == Append(s, e)
  <2>1. Len(t) = Len(s) + 1 /\ t[Len(s) + 1] = e /\ \A i \in 1..Len(s) : t[i] = s[i]
    OBVIOUS
  <2>2. Len(s) \in Nat
    OBVIOUS
  <2> HIDE DEF t
  <2>3. ASSUME NEW i \in 1..Len(t)
        PROVE  t[i][1] <= n + 1 /\ \A j \in 1..Len(t) : i < j => t[i][1] < t[j][1]
    <3>1. CASE i = Len(s) + 1
      BY <1>4, <2>1, <2>2, <3>1
    <3>2. CASE i \in 1..Len(s)
      <4>1. t[i] = s[i] /\ s[i][1] \in Nat /\ s[i][1] <= n
        BY <1>2, <1>4, <2>1, <3>2, Zenon DEF Numbered
      <4>2. ASSUME NEW j \in 1..Len(t), i < j PROVE t[i][1] < t[j][1]
        <5>1. CASE j = Len(s) + 1
          BY <1>4, <2>1, <4>1, <5>1
        <5>2. CASE j \in 1..Len(s)
          BY <1>4, <2>1, <3>2, <4>1, <4>2, <5>2, Zenon DEF Numbered
        <5> QED
          BY <2>1, <2>2, <5>1, <5>2
      <4> QED
        BY <4>1, <4>2
    <3> QED
      BY <2>1, <2>2, <3>1, <3>2
  <2> QED
    BY <2>3, Zenon DEF Numbered, t
<1> QED
  BY <1>1, <1>3, <1>4, Zenon

(* Stored extents are extents.                                              *)
LEMMA StoredTyped ==
  ASSUME TypeInv, NEW z \in Zones
  PROVE  \A f \in Files : Stored(z, f) \in Seq(Extent)
<1>1. At(z).table \in Table
  BY AtTyped, Zenon DEF TypeInv, StateType
<1> QED
  BY <1>1, TableFacts DEF Stored

OneWriter == OneThread /\ "migrate" \notin Ops
ContentAt(z) == RollFit /\ OpFit /\ FilesFit /\ Live(z) /\ Listed(z) /\ Content(z)

(* They change only with what is read from the zone.                        *)
LEMMA StoredSame ==
  ASSUME NEW z, At(z)' = At(z)
  PROVE  /\ \A f : Stored(z, f)' = Stored(z, f)
         /\ DOMAIN At(z).table' = DOMAIN At(z).table
BY Zenon DEF Stored

(* Steps that leave files and extents alone.                                *)
LEMMA ContentSame ==
  ASSUME NEW z, FilesFit, Content(z), At(z)' = At(z),
         UNCHANGED <<files_, extents_, nr_synced_extents_, wr, op, file, born, told>>,
         pc \notin {"down", "ack", "synced"}, pc' \notin {"down", "ack", "synced", "add", "snap"},
         Before' = Before
  PROVE  FilesFit' /\ Content(z)'
<1>1. /\ files_' = files_ /\ extents_' = extents_ /\ nr_synced_extents_' = nr_synced_extents_
      /\ wr' = wr /\ op' = op /\ file' = file /\ born' = born
      /\ made' = made /\ acked' = acked /\ gone' = gone
  BY Zenon DEF told
<1>2. FilesFit'
  BY <1>1, Zenon DEF FilesFit
<1>3. \A f \in Files : /\ Stored(z, f)' = Stored(z, f) /\ Tracked(f)' = Tracked(f)
                       /\ Owed(z, f)' = Owed(z, f)
  BY <1>1, StoredSame, Zenon DEF Tracked, Owed
<1> QED
  BY <1>1, <1>2, <1>3, Zenon DEF Content

(* The extents of a file are those synced and those not yet.                *)
LEMMA SyncedPart ==
  ASSUME FileTypes, NEW f \in Files
  PROVE  LET synced == SubSeq(extents_[f], 1, nr_synced_extents_[f])
         IN  /\ synced \in Seq(Extent) /\ Prefix(synced, extents_[f])
             /\ synced \o SubSeq(extents_[f], nr_synced_extents_[f] + 1, Len(extents_[f]))
                  = extents_[f]
<1>1. extents_[f] \in Seq(Extent) /\ nr_synced_extents_[f] \in Nat
      /\ nr_synced_extents_[f] <= Len(extents_[f])
  BY Zenon DEF FileTypes
<1> QED
  BY <1>1, SubFacts, Zenon

(* An update record adds exactly the extents not yet synced.                *)
LEMMA WriteAddContent ==
  ASSUME Limits, OneWriter, TypeInv, NEW z \in Zones, ContentAt(z), WriteBlock, pc = "add",
         pc' = "ack", At(z)' = Replay(At(z), rec)
  PROVE  FilesFit' /\ Content(z)'
<1> FilesFit /\ Content(z) /\ FileTypes
  BY Zenon DEF ContentAt, TypeInv
<1>1. /\ files_' = files_ /\ extents_' = extents_ /\ nr_synced_extents_' = nr_synced_extents_
      /\ wr' = wr /\ op' = op /\ file' = file /\ born' = born /\ made' = made /\ acked' = acked
  BY Zenon DEF WriteBlock, memVars, opVars, bounds, told
<1>2. FilesFit'
  BY <1>1, Zenon DEF FilesFit
<1>3. op \in SyncOps \cup {"delete"} /\ file \in Files /\ rec.file = file
  BY Zenon DEF ContentAt, OpFit, TypeInv, OpTypes, FileOps, FilesFit, SyncOps
<1>4. At(z) \in StateType /\ At(z).table \in [DOMAIN At(z).table -> Seq(Extent)]
  BY AtTyped, TableFacts, Zenon DEF TypeInv, StateType
<1> DEFINE more == SubSeq(extents_[file], nr_synced_extents_[file] + 1, Len(extents_[file]))
<1> PICK f \in Files : f = file
  BY <1>3, Zenon
<1>5. CASE op \in SyncOps
  <2>1. rec.k = "upd" /\ rec.exts = more
    <3>1. rec = EncodeUpdateTo("upd", file)
      BY <1>5, Zenon DEF FilesFit
    <3> QED
      BY <3>1, Zenon DEF EncodeUpdateTo
  <2>2. more \in Seq(Extent) /\ <<>> \o more = more
    BY <1>3 DEF FileTypes
  <2> HIDE DEF more
  <2>3. At(z)'.table = Put(At(z).table, f, Stored(z, f) \o more)
    BY <1>3, <1>4, <2>1, <2>2, Zenon DEF Replay, Stored, StateType
  <2>4. /\ DOMAIN At(z)'.table = DOMAIN At(z).table \cup {f}
        /\ Stored(z, f)' = Stored(z, f) \o more
        /\ \A g \in Files \ {f} : Stored(z, g)' = Stored(z, g)
    BY <2>3, Zenon DEF Put, Stored
  <2>5. Tracked(f) /\ Stored(z, f) = SubSeq(extents_[f], 1, nr_synced_extents_[f])
    <3>1. Tracked(f)
      BY <1>5, Zenon DEF Tracked, ContentAt, OpFit, SyncOps
    <3> QED
      BY <1>3, <3>1, Zenon DEF Content
  <2>6. Stored(z, f)' = extents_[f]
    BY <2>4, <2>5, SyncedPart, Zenon DEF more
  <2>7. /\ Prefix(Stored(z, f), extents_[f]) /\ Stored(z, f) \in Seq(Extent)
        /\ extents_[f] \in Seq(Extent)
    BY <2>5, SyncedPart, Zenon DEF FileTypes
  <2>8. ASSUME NEW g \in Files PROVE Numbered(Stored(z, g)', born[g])
    <3>1. Numbered(Stored(z, g), born[g]) /\ Numbered(extents_[g], born[g])
      BY Zenon DEF Content, FilesFit
    <3> QED
      BY <2>4, <2>6, <3>1, Zenon
  <2>9. ASSUME NEW g \in Files, Tracked(g)'
        PROVE  Stored(z, g)' = IF g = file THEN extents_[g]
                               ELSE SubSeq(extents_[g], 1, nr_synced_extents_[g])
    <3>1. g # f => Tracked(g)
      BY <1>1, <2>9, Zenon DEF Tracked
    <3>2. g # f => Stored(z, g) = SubSeq(extents_[g], 1, nr_synced_extents_[g])
      BY <3>1, Zenon DEF Content
    <3> QED
      BY <2>4, <2>6, <3>2, Zenon
  <2>10. ASSUME NEW g \in Files, Owed(z, g)' PROVE Prefix(acked[g], Stored(z, g)')
    <3>1. CASE g # file
      <4>1. Owed(z, g)
        BY <1>1, <2>4, <2>10, <3>1, Zenon DEF Owed
      <4> QED
        BY <2>4, <3>1, <4>1, Zenon DEF Content
    <3>2. CASE g = file
      <4>1. Owed(z, g)
        <5>1. CASE "delete" \notin Ops
          BY <5>1, Zenon DEF Owed
        <5>2. CASE "delete" \in Ops
          <6>1. op # "create" /\ DOMAIN At(z).table = files_ /\ file \in files_
            BY <1>5, <5>2, Zenon DEF ContentAt, OpFit, Limits, Listed, SyncOps
          <6> QED
            BY <3>2, <6>1, Zenon DEF Owed
        <5> QED
          BY <5>1, <5>2, Zenon
      <4>2. Prefix(acked[g], Stored(z, g)) /\ acked[g] \in Seq(Extent)
        BY <4>1, Zenon DEF Content, FileTypes
      <4> QED
        BY <2>6, <2>7, <3>2, <4>2, PrefixFacts
    <3> QED
      BY <3>1, <3>2, Zenon
  <2> QED
    BY <1>1, <1>2, <1>5, <2>8, <2>9, <2>10, Zenon DEF Content
<1>6. CASE op = "delete"
  <2>1. rec.k = "del" /\ file \in DOMAIN At(z).table /\ file \notin made /\ file \notin files_
        /\ "delete" \in Ops
    BY <1>6, Zenon DEF ContentAt, OpFit, Listed, Before, FilesFit
  <2>2. At(z)'.table = Restrict(At(z).table, DOMAIN At(z).table \ {file})
    BY <1>3, <1>4, <2>1, Zenon DEF Replay, StateType
  <2>3. /\ DOMAIN At(z)'.table = DOMAIN At(z).table \ {f}
        /\ Stored(z, f)' = <<>>
        /\ \A g \in Files \ {f} : Stored(z, g)' = Stored(z, g)
    BY <2>2, Zenon DEF Restrict, Stored
  <2>4. ASSUME NEW g \in Files PROVE Numbered(Stored(z, g)', born[g])
    <3>1. Numbered(Stored(z, g), born[g]) /\ Numbered(<<>>, born[g])
      BY NumberedFacts DEF Content, FileTypes
    <3> QED
      BY <2>3, <3>1, Zenon
  <2>5. \A g \in Files : Tracked(g)' => g # file /\ Tracked(g)
    BY <1>1, <1>6, <2>1, Zenon DEF Tracked, Before
  <2>6. \A g \in Files : Owed(z, g)' => g # file /\ Owed(z, g)
    BY <1>1, <2>1, <2>3, Zenon DEF Owed
  <2> QED
    BY <1>1, <1>2, <1>6, <2>3, <2>4, <2>5, <2>6, Zenon DEF Content, SyncOps
<1> QED
  BY <1>3, <1>5, <1>6, Zenon

(* A snapshot stores the extents in memory in a new zone.                   *)
LEMMA WriteSnapContent ==
  ASSUME Limits, OneWriter, TypeInv, NEW z \in Zones, ContentAt(z), WriteBlock, pc = "snap",
         pc' = "synced", NEW x \in Zones, At(x)'.table = rec.table
  PROVE  FilesFit' /\ Content(x)'
<1> FilesFit /\ Content(z) /\ FileTypes
  BY Zenon DEF ContentAt, TypeInv
<1>1. /\ files_' = files_ /\ extents_' = extents_ /\ nr_synced_extents_' = nr_synced_extents_
      /\ wr' = wr /\ op' = op /\ file' = file /\ born' = born /\ made' = made /\ acked' = acked
  BY Zenon DEF WriteBlock, memVars, opVars, bounds, told
<1>2. FilesFit'
  BY <1>1, Zenon DEF FilesFit
<1>3. At(x)'.table = [f \in files_ |-> extents_[f]]
  BY DEF FilesFit, EncodeSnapshotTo
<1>4. /\ DOMAIN At(x)'.table = files_
      /\ \A f \in Files : Stored(x, f)' = IF f \in files_ THEN extents_[f] ELSE <<>>
  BY <1>3, Zenon DEF Stored
<1>5. ASSUME NEW f \in Files PROVE Numbered(Stored(x, f)', born[f])
  <2>1. Numbered(extents_[f], born[f])
    BY Zenon DEF FilesFit
  <2>2. Numbered(<<>>, born[f])
    BY NumberedFacts DEF FileTypes
  <2> QED
    BY <1>4, <2>1, <2>2, Zenon
<1>6. \A f \in Files : Tracked(f)' => Stored(x, f)' = extents_[f]
  BY <1>1, <1>4, Zenon DEF Tracked, Before, FilesFit, ContentAt, OpFit
<1>7. ASSUME NEW f \in Files, Owed(x, f)' PROVE Prefix(acked[f], Stored(x, f)')
  <2>1. CASE f \in files_
    <3>1. Owed(z, f)
      <4>1. "delete" \in Ops => f \in DOMAIN At(z).table
        BY <2>1, Zenon DEF ContentAt, Listed, Before, OpFit, Limits
      <4> QED
        BY <4>1, Zenon DEF Owed
    <3>2. Prefix(acked[f], Stored(z, f)) /\ acked[f] \in Seq(Extent)
      BY <3>1, Zenon DEF Content, FileTypes
    <3>3. Stored(z, f) = SubSeq(extents_[f], 1, nr_synced_extents_[f])
      BY <2>1, Zenon DEF Content, Tracked
    <3>4. /\ Prefix(Stored(z, f), extents_[f]) /\ Stored(z, f) \in Seq(Extent)
          /\ extents_[f] \in Seq(Extent)
      BY <3>3, SyncedPart, Zenon DEF FileTypes
    <3> QED
      BY <1>4, <2>1, <3>2, <3>4, PrefixFacts, Zenon
  <2>2. CASE f \notin files_
    <3>1. Owed(z, f) /\ f \notin DOMAIN At(z).table
      BY <1>1, <1>4, <1>7, <2>2, Zenon DEF Owed, ContentAt, Listed, Before, FilesFit, OpFit
    <3>2. Prefix(acked[f], <<>>)
      BY <3>1, Zenon DEF Content, Stored
    <3> QED
      BY <1>4, <2>2, <3>2, Zenon
  <2> QED
    BY <2>1, <2>2, Zenon
<1> QED
  BY <1>1, <1>2, <1>5, <1>6, <1>7, Zenon DEF Content

(* The other steps change no stored extents, and report none that are not   *)
(* stored.                                                                  *)
LEMMA ContentEffect ==
  ASSUME Limits, OneWriter, TypeInv, NEW z \in Zones, ContentAt(z), [Next]_vars, At(z)' = At(z),
         ~(WriteBlock /\ pc \in {"add", "snap"})
  PROVE  FilesFit' /\ Content(z)'
<1>PowerOff. ASSUME PowerOff
             PROVE  FilesFit' /\ Content(z)'
  <2> USE <1>PowerOff
  <2> FilesFit /\ Content(z) /\ FileTypes
    BY Zenon DEF ContentAt, TypeInv
  <2>1. /\ pc' = "down" /\ op' = "none" /\ files_' = {} /\ born' = born
        /\ made' = made /\ acked' = acked
        /\ extents_' = [f \in Files |-> <<>>] /\ nr_synced_extents_' = [f \in Files |-> 0]
        /\ wr' = [f \in Files |-> "closed"]
    BY Zenon DEF PowerOff, Leave, told
  <2>2. FilesFit'
    BY <2>1, NumberedFacts DEF FilesFit, FileTypes
  <2>3. \A g \in Files : Stored(z, g)' = Stored(z, g) /\ Owed(z, g)' = Owed(z, g)
    BY <2>1, StoredSame, Zenon DEF Owed
  <2> QED
    BY <2>1, <2>2, <2>3, Zenon DEF Content
<1>PushExtent. ASSUME NEW f \in Files, PushExtent(f)
               PROVE  FilesFit' /\ Content(z)'
  <2> USE <1>PushExtent
  <2> FilesFit /\ Content(z) /\ FileTypes
    BY Zenon DEF ContentAt, TypeInv
  <2>1. /\ pc = "idle" /\ pc' = pc /\ born[f] \in Nat /\ f \in files_
        /\ files_' = files_ /\ nr_synced_extents_' = nr_synced_extents_ /\ wr' = wr
        /\ op' = op /\ file' = file /\ made' = made /\ acked' = acked /\ rec' = rec
        /\ extents_' = [extents_ EXCEPT ![f] = Append(@, <<born[f] + 1, 0>>)]
        /\ born' = [born EXCEPT ![f] = @ + 1]
    BY DEF PushExtent, Alone, OneWriter, FileTypes, opVars, told
  <2>2. <<born[f] + 1, 0>> \in Extent /\ <<born[f] + 1, 0>>[1] = born[f] + 1
    BY LogAssumption DEF PushExtent, FileTypes, Extent
  <2>3. /\ extents_'[f] = Append(extents_[f], <<born[f] + 1, 0>>) /\ born'[f] = born[f] + 1
        /\ \A g \in Files \ {f} : extents_'[g] = extents_[g] /\ born'[g] = born[g]
    BY <2>1, Zenon DEF FileTypes
  <2>4. \A g \in Files :
          Stored(z, g)' = Stored(z, g) /\ Tracked(g)' = Tracked(g) /\ Owed(z, g)' = Owed(z, g)
    BY <2>1, StoredSame, Zenon DEF Tracked, Owed, Before
  <2>5. \A g \in Files : Numbered(extents_'[g], born'[g])
    <3>1. Numbered(extents_'[f], born'[f])
      BY <2>1, <2>2, <2>3, NumberedFacts, Zenon DEF FilesFit, FileTypes
    <3> QED
      BY <2>3, <3>1, Zenon DEF FilesFit
  <2>6. \A g \in Files : Numbered(Stored(z, g), born'[g])
    <3>1. Numbered(Stored(z, f), born'[f])
      BY <2>1, <2>3, NumberedFacts, StoredTyped, Zenon DEF Content
    <3> QED
      BY <2>3, <3>1, Zenon DEF Content
  <2>7. FilesFit'
    BY <2>1, <2>3, <2>5, Zenon DEF FilesFit
  <2>8. \A g \in Files :
          SubSeq(extents_'[g], 1, nr_synced_extents_[g]) = SubSeq(extents_[g], 1, nr_synced_extents_[g])
    <3>1. SubSeq(extents_'[f], 1, nr_synced_extents_[f]) = SubSeq(extents_[f], 1, nr_synced_extents_[f])
      BY <2>2, <2>3, SubFacts DEF FileTypes
    <3> QED
      BY <2>3, <3>1, Zenon
  <2> QED
    BY <2>1, <2>4, <2>6, <2>7, <2>8, Zenon DEF Content
<1>Reopen. ASSUME NEW f \in Files, Reopen(f) \/ AcquireWRLock
           PROVE  FilesFit' /\ Content(z)'
  <2> USE <1>Reopen
  <2> FilesFit /\ Content(z) /\ FileTypes
    BY Zenon DEF ContentAt, TypeInv
  <2>1. /\ pc \in {"idle", "reopen"} /\ pc' \in {"idle", "reopen"} /\ op \in {"none", "reopen"}
        /\ op' \in {"none", "reopen"} /\ files_' = files_ /\ extents_' = extents_
        /\ nr_synced_extents_' = nr_synced_extents_ /\ made' = made /\ acked' = acked
        /\ born' = born
    BY Zenon DEF Reopen, AcquireWRLock, memVars, bounds, told, ContentAt, OpFit, RollFit
  <2>2. \A g \in Files : wr'[g] \in {"closed", "open", "spent"}
    BY Zenon DEF Reopen, AcquireWRLock, memVars, FilesFit, FileTypes
  <2>3. FilesFit'
    BY <2>1, <2>2, Zenon DEF FilesFit
  <2>4. \A g \in Files :
          Stored(z, g)' = Stored(z, g) /\ Tracked(g)' = Tracked(g) /\ Owed(z, g)' = Owed(z, g)
    BY <2>1, StoredSame, Zenon DEF Tracked, Owed
  <2> QED
    BY <2>1, <2>3, <2>4, Zenon DEF Content
<1>CreateStart. ASSUME NEW f \in Files, CreateStart(f)
                PROVE  FilesFit' /\ Content(z)'
  <2> USE <1>CreateStart
  <2> FilesFit /\ Content(z) /\ FileTypes
    BY Zenon DEF ContentAt, TypeInv
  <2>1. /\ pc = "idle" /\ pc' = "add" /\ op = "none" /\ op' = "create" /\ file' = f
        /\ f \notin files_
        /\ files_' = files_ /\ extents_' = extents_ /\ wr' = wr
        /\ nr_synced_extents_' = nr_synced_extents_ /\ made' = made /\ acked' = acked
        /\ born' = born
        /\ rec' = EncodeUpdateTo("upd", f) /\ "create" \in Ops
    BY Zenon DEF CreateStart, Begin, Idle, memVars, bounds, told, ContentAt, OpFit
  <2>2. FilesFit'
    BY <2>1, Zenon DEF FilesFit, EncodeUpdateTo
  <2>3. \A g \in Files : /\ Stored(z, g)' = Stored(z, g) /\ Owed(z, g)' = Owed(z, g)
                         /\ Tracked(g)' => g = f \/ Tracked(g)
    BY <2>1, StoredSame, Zenon DEF Tracked, Owed
  <2>4. Stored(z, f) = SubSeq(extents_[f], 1, nr_synced_extents_[f])
    <3>1. f \notin DOMAIN At(z).table
      BY <2>1, Zenon DEF ContentAt, Listed
    <3>2. extents_[f] = <<>> /\ nr_synced_extents_[f] = 0
      BY <2>1, Zenon DEF FilesFit
    <3>3. SubSeq(<<>>, 1, 0) = <<>>
      OBVIOUS
    <3> QED
      BY <3>1, <3>2, <3>3, Zenon DEF Stored
  <2> QED
    BY <2>1, <2>2, <2>3, <2>4, Zenon DEF Content
<1>SyncStart. ASSUME NEW f \in Files, NEW kind \in {"sync", "close"}, SyncStart(f, kind)
              PROVE  FilesFit' /\ Content(z)'
  <2> USE <1>SyncStart
  <2> FilesFit /\ Content(z) /\ FileTypes
    BY Zenon DEF ContentAt, TypeInv
  <2>1. /\ pc = "idle" /\ pc' = "add" /\ op = "none" /\ op' = kind /\ file' = f
        /\ files_' = files_ /\ extents_' = extents_ /\ wr' = wr
        /\ nr_synced_extents_' = nr_synced_extents_ /\ made' = made /\ acked' = acked
        /\ born' = born
        /\ rec' = EncodeUpdateTo("upd", f)
    BY Zenon DEF SyncStart, Begin, Idle, memVars, bounds, told, ContentAt, OpFit
  <2>2. FilesFit'
    BY <2>1, Zenon DEF FilesFit, EncodeUpdateTo
  <2>3. \A g \in Files :
          Stored(z, g)' = Stored(z, g) /\ Owed(z, g)' = Owed(z, g) /\ Tracked(g)' = Tracked(g)
    BY <2>1, StoredSame, Zenon DEF Tracked, Owed
  <2> QED
    BY <2>1, <2>2, <2>3, Zenon DEF Content
<1>DeleteStart. ASSUME NEW f \in Files, DeleteStart(f)
                PROVE  FilesFit' /\ Content(z)'
  <2> USE <1>DeleteStart
  <2> FilesFit /\ Content(z) /\ FileTypes
    BY Zenon DEF ContentAt, TypeInv
  <2>1. /\ pc = "idle" /\ pc' = "add" /\ op = "none" /\ op' = "delete" /\ file' = f /\ f \in files_
        /\ files_' = files_ \ {f} /\ extents_' = extents_ /\ wr' = wr
        /\ nr_synced_extents_' = nr_synced_extents_ /\ made' = made \ {f} /\ acked' = acked
        /\ born' = born /\ "delete" \in Ops /\ "create" \notin Ops
    BY Zenon DEF DeleteStart, Begin, Idle, bounds, told, ContentAt, OpFit, Limits
  <2>2. FilesFit'
    BY <2>1, Zenon DEF FilesFit, SyncOps
  <2>3. \A g \in Files : /\ Stored(z, g)' = Stored(z, g) /\ (Owed(z, g)' => Owed(z, g))
                         /\ (Tracked(g)' => Tracked(g))
    BY <2>1, StoredSame, Zenon DEF Tracked, Owed
  <2> QED
    BY <2>1, <2>2, <2>3, Zenon DEF Content, SyncOps
(* The steps of a roll up to the snapshot.                                  *)
<1>Roll. ASSUME RecordNoSpace \/ OutOfMetaZones \/ AllocateMetaZone \/ FinishOld \/ EncodeSnapshot
                \/ (WriteBlock /\ pc \in {"end", "super"})
         PROVE  FilesFit' /\ Content(z)'
  <2> USE <1>Roll
  <2> FilesFit /\ Content(z) /\ FileTypes
    BY Zenon DEF ContentAt, TypeInv
  <2>1. UNCHANGED <<files_, extents_, nr_synced_extents_, wr, op, file, born, told>>
    BY Zenon DEF RecordNoSpace, OutOfMetaZones, AllocateMetaZone, FinishOld, EncodeSnapshot,
       WriteBlock, memVars, opVars, bounds
  <2>2. /\ pc \in {"add", "end", "super", "snap", "roll", "finish", "encode"}
        /\ pc' \in {"end", "super", "roll", "finish", "encode", "fail"} \/ EncodeSnapshot
    BY Zenon DEF RecordNoSpace, OutOfMetaZones, AllocateMetaZone, FinishOld, EncodeSnapshot,
       WriteBlock, Writing, After
  <2>3. CASE ~EncodeSnapshot
    <3>1. Before' = Before
      BY <2>2, <2>3, Zenon DEF Before
    <3> QED
      BY <2>1, <2>2, <2>3, <3>1, ContentSame, Zenon
  <2>4. CASE EncodeSnapshot
    <3>1. /\ pc = "encode" /\ pc' = "snap" /\ rec' = EncodeSnapshotTo
          /\ files_' = files_ /\ extents_' = extents_ /\ nr_synced_extents_' = nr_synced_extents_
          /\ wr' = wr /\ op' = op /\ file' = file /\ born' = born /\ made' = made /\ acked' = acked
      BY <2>1, <2>4, Zenon DEF EncodeSnapshot, told
    <3>2. FilesFit'
      BY <3>1, Zenon DEF FilesFit, EncodeSnapshotTo
    <3>3. \A g \in Files :
            Stored(z, g)' = Stored(z, g) /\ Tracked(g)' = Tracked(g) /\ Owed(z, g)' = Owed(z, g)
      BY <3>1, StoredSame, Zenon DEF Tracked, Owed, Before
    <3> QED
      BY <3>1, <3>2, <3>3, Zenon DEF Content
  <2> QED
    BY <2>3, <2>4, Zenon
<1>SnapshotSynced. ASSUME SnapshotSynced
                   PROVE  FilesFit' /\ Content(z)'
  <2> USE <1>SnapshotSynced
  <2> FilesFit /\ Content(z) /\ FileTypes
    BY Zenon DEF ContentAt, TypeInv
  <2>1. /\ pc = "synced" /\ pc' = "ack"
        /\ files_' = files_ /\ extents_' = extents_ /\ wr' = wr /\ op' = op /\ file' = file
        /\ born' = born /\ made' = made /\ acked' = acked
        /\ \A g \in Files : nr_synced_extents_'[g] = IF g \in files_ THEN Len(extents_[g])
                                                     ELSE nr_synced_extents_[g]
    BY Zenon DEF SnapshotSynced, opVars, bounds, told
  <2>2. FilesFit'
    BY <2>1, Zenon DEF FilesFit
  <2>3. \A g \in Files :
          Stored(z, g)' = Stored(z, g) /\ Tracked(g)' = Tracked(g) /\ Owed(z, g)' = Owed(z, g)
    BY <2>1, StoredSame, Zenon DEF Tracked, Owed, Before
  <2>4. ASSUME NEW g \in Files, Tracked(g)
        PROVE  /\ Stored(z, g) = extents_[g]
               /\ ~(op \in SyncOps /\ g = file)
                    => extents_[g] = SubSeq(extents_[g], 1, nr_synced_extents_'[g])
    <3>1. Stored(z, g) = extents_[g]
      BY <2>1, <2>4, Zenon DEF Content
    <3>2. ~(op \in SyncOps /\ g = file) => g \in files_
      BY <2>1, <2>4, Zenon DEF Tracked, Before, SyncOps
    <3>3. SubSeq(extents_[g], 1, Len(extents_[g])) = extents_[g]
      BY DEF FileTypes
    <3> QED
      BY <2>1, <3>1, <3>2, <3>3, Zenon
  <2> QED
    BY <2>1, <2>2, <2>3, <2>4, Zenon DEF Content
<1>Ack. ASSUME Ack
        PROVE  FilesFit' /\ Content(z)'
  <2> USE <1>Ack
  <2> FilesFit /\ Content(z) /\ FileTypes
    BY Zenon DEF ContentAt, TypeInv
  <2>1. /\ pc = "ack" /\ pc' = "idle" /\ op' = "none" /\ extents_' = extents_ /\ born' = born
        /\ op # "replace" /\ (op \in {"create", "sync", "close"} => file \in Files)
        /\ files_' = IF op = "create" THEN files_ \cup {file} ELSE files_
        /\ made' = IF op = "create" THEN made \cup {file} ELSE made
    BY Zenon DEF Ack, Done, bounds, FilesFit, TypeInv, OpTypes, FileOps
  <2>2. /\ acked' = IF op \in {"sync", "close"} THEN [acked EXCEPT ![file] = extents_[file]] ELSE acked
        /\ nr_synced_extents_' = IF op \in SyncOps
                                 THEN [nr_synced_extents_ EXCEPT ![file] = Len(extents_[file])]
                                 ELSE nr_synced_extents_
    BY <2>1, Zenon DEF Ack, SyncOps
  <2>3. \A g \in Files : wr'[g] \in {"closed", "open", "spent"}
    BY <2>1, Zenon DEF Ack, FilesFit, FileTypes
  <2>4. FilesFit'
    <3>1. "create" \in Ops => \A g \in Files \ files_' :
            nr_synced_extents_'[g] = 0 /\ extents_[g] = <<>>
      BY <2>1, <2>2, Zenon DEF FilesFit, SyncOps, ContentAt, OpFit, FileTypes
    <3> QED
      BY <2>1, <2>3, <3>1, Zenon DEF FilesFit
  <2>5. ASSUME NEW g \in Files
        PROVE  Stored(z, g)' = Stored(z, g) /\ (Tracked(g)' => Tracked(g)) /\ (Owed(z, g)' => Owed(z, g))
    <3>1. op = "create" => "delete" \notin Ops
      BY Zenon DEF ContentAt, OpFit, Limits
    <3> QED
      BY <2>1, <3>1, StoredSame, Zenon DEF Tracked, Owed
  <2>6. ASSUME NEW g \in Files, Tracked(g)
        PROVE  Stored(z, g) = SubSeq(extents_[g], 1, nr_synced_extents_'[g])
    <3>1. CASE op \in SyncOps /\ g = file
      <4>1. Stored(z, g) = extents_[g] /\ nr_synced_extents_'[g] = Len(extents_[g])
        BY <2>1, <2>2, <2>6, <3>1, Zenon DEF Content, FileTypes
      <4>2. SubSeq(extents_[g], 1, Len(extents_[g])) = extents_[g]
        BY DEF FileTypes
      <4> QED
        BY <4>1, <4>2, Zenon
    <3>2. CASE ~(op \in SyncOps /\ g = file)
      <4>1. nr_synced_extents_'[g] = nr_synced_extents_[g]
        BY <2>2, <3>2, Zenon DEF FileTypes
      <4> QED
        BY <2>1, <2>6, <3>2, <4>1, Zenon DEF Content
    <3> QED
      BY <3>1, <3>2, Zenon
  <2>7. ASSUME NEW g \in Files, Owed(z, g) PROVE Prefix(acked'[g], Stored(z, g))
    <3>1. CASE op \in {"sync", "close"} /\ g = file
      <4>1. acked'[g] = extents_[g] /\ Tracked(g)
        BY <2>2, <3>1, Zenon DEF FileTypes, Tracked, ContentAt, OpFit
      <4>2. Stored(z, g) = extents_[g]
        BY <2>1, <3>1, <4>1, Zenon DEF Content, SyncOps
      <4> QED
        BY <4>1, <4>2, PrefixFacts, Zenon DEF FileTypes
    <3>2. CASE ~(op \in {"sync", "close"} /\ g = file)
      <4>1. acked'[g] = acked[g]
        BY <2>2, <3>2, Zenon DEF FileTypes
      <4> QED
        BY <2>7, <4>1, Zenon DEF Content
    <3> QED
      BY <3>1, <3>2, Zenon
  <2> QED
    BY <2>1, <2>4, <2>5, <2>6, <2>7, Zenon DEF Content
<1>Fail. ASSUME Fail
         PROVE  FilesFit' /\ Content(z)'
  <2> USE <1>Fail
  <2> FilesFit /\ Content(z) /\ FileTypes
    BY Zenon DEF ContentAt, TypeInv
  <2>1. CASE PowerOff
    BY <2>1, <1>PowerOff, Zenon
  <2>2. CASE ~PowerOff
    <3>1. /\ pc = "fail" /\ pc' = "idle" /\ op' = "none" /\ extents_' = extents_ /\ born' = born
          /\ nr_synced_extents_' = nr_synced_extents_ /\ acked' = acked /\ op # "replace"
          /\ (op \in {"create", "delete"} => file \in Files)
          /\ files_' = IF op = "delete" THEN files_ \cup {file} ELSE files_
          /\ made' = IF op = "delete" THEN made \cup {file} ELSE made
      BY <2>2, Zenon DEF Fail, Done, bounds, FilesFit, TypeInv, OpTypes, FileOps
    <3>2. \A g \in Files : wr'[g] \in {"closed", "open", "spent"}
      BY <2>2, <3>1, Zenon DEF Fail, FilesFit, FileTypes
    <3>3. FilesFit'
      BY <3>1, <3>2, Zenon DEF FilesFit
    <3>4. op = "delete" => file \in DOMAIN At(z).table
      BY <3>1, Zenon DEF ContentAt, Listed, Before
    <3>5. \A g \in Files : /\ Stored(z, g)' = Stored(z, g) /\ (Tracked(g)' => Tracked(g))
                           /\ (Owed(z, g)' => Owed(z, g))
      BY <3>1, <3>4, StoredSame, Zenon DEF Tracked, Owed, Before
    <3> QED
      BY <3>1, <3>3, <3>5, Zenon DEF Content
  <2> QED
    BY <2>1, <2>2, Zenon
<1>Mount. ASSUME Mount
          PROVE  FilesFit' /\ Content(z)'
  <2> USE <1>Mount
  <2> FilesFit /\ Content(z) /\ FileTypes
    BY Zenon DEF ContentAt, TypeInv
  <2>1. Recovery.table = At(z).table
    BY RecoveryIs, Zenon DEF TypeInv, ContentAt, Live, RollFit
  <2>2. /\ pc' = "roll" /\ op' = "mount" /\ files_' = DOMAIN At(z).table /\ wr' = wr
        /\ born' = born /\ made' = made /\ acked' = acked
        /\ \A g \in Files :
             extents_'[g] = Stored(z, g) /\ nr_synced_extents_'[g] = Len(Stored(z, g))
    BY <2>1, Zenon DEF Mount, Stored, bounds, told
  <2>3. FilesFit'
    <3>1. \A g \in Files \ files_' : Stored(z, g) = <<>>
      BY <2>2, Zenon DEF Stored
    <3> QED
      BY <2>2, <3>1, Zenon DEF FilesFit, Content
  <2>4. \A g \in Files : Stored(z, g)' = Stored(z, g) /\ Owed(z, g)' = Owed(z, g)
    BY <2>2, StoredSame, Zenon DEF Owed
  <2>5. \A g \in Files : SubSeq(Stored(z, g), 1, Len(Stored(z, g))) = Stored(z, g)
    BY StoredTyped
  <2> QED
    BY <2>2, <2>3, <2>4, <2>5, Zenon DEF Content
<1>1. CASE Client
  <2>1. PICK f \in Files :
          \/ PushExtent(f) \/ Reopen(f) \/ CreateStart(f) \/ DeleteStart(f)
          \/ SyncStart(f, "sync") \/ SyncStart(f, "close") \/ MigrateStart(f)
    BY <1>1, Zenon DEF Client
  <2>2. CASE PushExtent(f)
    BY <2>2, <1>PushExtent, Zenon
  <2>3. CASE Reopen(f)
    BY <2>3, <1>Reopen, Zenon
  <2>4. CASE CreateStart(f)
    BY <2>4, <1>CreateStart, Zenon
  <2>5. CASE DeleteStart(f)
    BY <2>5, <1>DeleteStart, Zenon
  <2>6. CASE SyncStart(f, "sync") \/ SyncStart(f, "close")
    BY <2>6, <1>SyncStart, Zenon
  <2>7. CASE MigrateStart(f)
    BY <2>7, Zenon DEF MigrateStart, OneWriter
  <2> QED
    BY <2>1, <2>2, <2>3, <2>4, <2>5, <2>6, <2>7, Zenon
<1>2. CASE Collector
  BY <1>2, Zenon DEF Collector, ReplaceExtentList, MetadataUnsynced, ReplaceStart, ContentAt,
     FilesFit
<1>3. CASE Operation
  <2>1. CASE AcquireWRLock
    <3>1. file \in Files
      BY <2>1, Zenon DEF AcquireWRLock, TypeInv, OpTypes
    <3> QED
      BY <2>1, <3>1, <1>Reopen, Zenon
  <2>2. CASE WriteBlock
    <3>1. pc \in {"end", "super"}
      BY <2>2, Zenon DEF WriteBlock, Writing
    <3> QED
      BY <2>2, <3>1, <1>Roll, Zenon
  <2>3. CASE RecordNoSpace \/ AllocateMetaZone \/ OutOfMetaZones \/ FinishOld \/ EncodeSnapshot
    BY <2>3, <1>Roll, Zenon
  <2>4. CASE WriteError
    BY <2>4, Zenon DEF WriteError, Limits
  <2>5. CASE SnapshotSynced
    BY <2>5, <1>SnapshotSynced, Zenon
  <2>6. CASE Ack
    BY <2>6, <1>Ack, Zenon
  <2>7. CASE Fail
    BY <2>7, <1>Fail, Zenon
  <2>8. CASE MkFSDone
    BY <2>8, Zenon DEF MkFSDone, ContentAt, OpFit
  <2> QED
    BY <1>3, <2>1, <2>2, <2>3, <2>4, <2>5, <2>6, <2>7, <2>8, Zenon DEF Operation
<1>4. CASE Crash
  BY <1>4, <1>PowerOff, Zenon DEF Crash
<1>5. CASE Mount
  BY <1>5, <1>Mount, Zenon
<1>6. CASE MkFSStart
  BY <1>6, Zenon DEF MkFSStart, Limits
<1>7. CASE UNCHANGED vars
  <2>1. FilesFit'
    BY <1>7, Zenon DEF vars, ContentAt, FilesFit, EncodeUpdateTo, EncodeSnapshotTo
  <2>2. \A g \in Files :
          Stored(z, g)' = Stored(z, g) /\ Tracked(g)' = Tracked(g) /\ Owed(z, g)' = Owed(z, g)
    BY <1>7, StoredSame, Zenon DEF vars, Tracked, Owed, Before
  <2> QED
    BY <1>7, <2>1, <2>2, Zenon DEF vars, ContentAt, Content
<1> QED
  BY <1>1, <1>2, <1>3, <1>4, <1>5, <1>6, <1>7, Zenon DEF Next

(* The invariant holds on a formatted device.                               *)
LEMMA ContentInit ==
  ASSUME Limits, Init
  PROVE  ContentInv
<1>1. /\ RollFit /\ OpFit /\ Live(1) /\ Listed(1)
      /\ At(1).table = [f \in InitialFiles |-> << <<1, 0>> >>]
  BY LogInit, Zenon
<1>2. ASSUME NEW f \in Files PROVE Stored(1, f) = acked[f] /\ Numbered(Stored(1, f), born[f])
  <2>1. Stored(1, f) = IF f \in InitialFiles THEN << <<1, 0>> >> ELSE <<>>
    BY <1>1, Zenon DEF Stored
  <2>2. acked[f] = Stored(1, f) /\ born[f] = IF f \in InitialFiles THEN 1 ELSE 0
    BY <2>1, Zenon DEF Init
  <2>3. Numbered(<< <<1, 0>> >>, 1) /\ Numbered(<<>>, 0)
    BY DEF Numbered
  <2> QED
    BY <2>1, <2>2, <2>3, Zenon
<1>3. \A f \in Files : Numbered(extents_[f], born[f])
  BY DEF Init, Numbered
<1>4. FilesFit
  BY <1>3, Zenon DEF FilesFit, Init
<1>5. Content(1)
  <2>1. \A f \in Files : acked[f] \in Seq(Extent)
    BY InitType, Zenon DEF TypeInv, FileTypes
  <2> QED
    BY <1>2, <2>1, PrefixFacts, Zenon DEF Content, Init
<1> QED
  BY <1>1, <1>4, <1>5, ZoneFacts, Zenon DEF ContentInv

(* The content invariant is inductive.                                      *)
LEMMA ContentStep ==
  ASSUME Limits, OneWriter
  PROVE  TypeInv /\ ContentInv /\ [Next]_vars => ContentInv'
<1> SUFFICES ASSUME TypeInv, ContentInv, [Next]_vars PROVE ContentInv'
  BY Zenon
<1>1. PICK z \in Zones : ContentAt(z)
  BY Zenon DEF ContentInv, ContentAt
<1>2. RollFit /\ OpFit /\ Live(z) /\ Listed(z)
  BY <1>1, Zenon DEF ContentAt
<1>3. CASE WriteBlock /\ pc = "add"
  <2>1. /\ RollFit' /\ OpFit' /\ Live(z)' /\ Listed(z)'
        /\ pc' = "ack" /\ At(z)' = Replay(At(z), rec)
    BY <1>2, <1>3, WriteAddLog, Zenon
  <2>2. FilesFit' /\ Content(z)'
    BY <1>1, <1>3, <2>1, WriteAddContent, Zenon
  <2> QED
    BY <2>1, <2>2, Zenon DEF ContentInv
<1>4. CASE WriteBlock /\ pc = "snap"
  <2>1. PICK x : x = meta_log_
    BY Zenon
  <2>2. /\ RollFit' /\ OpFit' /\ x \in Zones /\ Live(x)' /\ Listed(x)'
        /\ pc' = "synced" /\ At(x)'.table = rec.table
    BY <1>2, <1>4, <2>1, WriteSnapLog, Zenon
  <2>3. FilesFit' /\ Content(x)'
    BY <1>1, <1>4, <2>2, WriteSnapContent, Zenon
  <2> QED
    BY <2>2, <2>3, Zenon DEF ContentInv
<1>5. CASE ~(WriteBlock /\ pc \in {"add", "snap"})
  <2>1. RollFit' /\ OpFit' /\ Live(z)' /\ Listed(z)' /\ At(z)' = At(z)
    BY <1>2, <1>5, LogEffect, Zenon DEF Keeps
  <2>2. FilesFit' /\ Content(z)'
    BY <1>1, <1>5, <2>1, ContentEffect, Zenon
  <2> QED
    BY <2>1, <2>2, Zenon DEF ContentInv
<1> QED
  BY <1>3, <1>4, <1>5, Zenon

(* What it says about a mount.                                              *)
LEMMA ContentMounts ==
  ASSUME TypeInv, ContentInv
  PROVE  SyncedExtentsSurvive /\ NoExtentTwice
<1>1. PICK z \in Zones : Live(z) /\ Content(z)
  BY Zenon DEF ContentInv
<1>2. Recovery.ok /\ Recovery.table = At(z).table
  BY <1>1, RecoveryIs, Zenon DEF TypeInv, ContentInv, RollFit, Live
<1>3. \A e \in Extent : e[1] \in Nat /\ e[2] \in Nat
  BY LogAssumption DEF Extent
<1>4. \A f \in Files : Stored(z, f) \in Seq(Extent)
  BY StoredTyped, Zenon
<1>5. SyncedExtentsSurvive
  <2>1. ASSUME NEW f \in made, f \in Files, NEW i \in DOMAIN acked[f]
        PROVE  /\ f \in DOMAIN At(z).table
               /\ \E e \in Range(At(z).table[f]) : e[1] = acked[f][i][1] /\ e[2] >= acked[f][i][2]
    <3>1. acked[f] \in Seq(Extent) /\ Prefix(acked[f], Stored(z, f)) /\ i \in 1..Len(acked[f])
      BY <1>1, <2>1 DEF Content, Owed, TypeInv, FileTypes
    <3>2. /\ Len(acked[f]) <= Len(Stored(z, f)) /\ Stored(z, f)[i] = acked[f][i]
          /\ acked[f][i] \in Extent /\ i \in 1..Len(Stored(z, f))
      BY <1>4, <2>1, <3>1 DEF Prefix
    <3>3. f \in DOMAIN At(z).table
      BY <3>2 DEF Stored
    <3>4. Stored(z, f) = At(z).table[f] /\ i \in DOMAIN At(z).table[f]
      BY <1>4, <2>1, <3>2, <3>3 DEF Stored
    <3> QED
      BY <1>3, <3>2, <3>3, <3>4 DEF Range
  <2>2. made \subseteq Files
    BY Zenon DEF TypeInv, FileTypes
  <2> QED
    BY <1>2, <2>1, <2>2, Zenon DEF SyncedExtentsSurvive
<1>6. NoExtentTwice
  <2>1. DOMAIN At(z).table \subseteq Files
    BY AtTyped, TableFacts, Zenon DEF TypeInv, StateType
  <2>2. ASSUME NEW f \in DOMAIN At(z).table, NEW i \in DOMAIN At(z).table[f],
               NEW j \in DOMAIN At(z).table[f], At(z).table[f][i][1] = At(z).table[f][j][1]
        PROVE  i = j
    <3> DEFINE s == At(z).table[f]
    <3>1. s = Stored(z, f) /\ s \in Seq(Extent) /\ f \in Files
      BY <1>4, <2>1, Zenon DEF Stored
    <3>2. Numbered(s, born[f])
      BY <1>1, <3>1, Zenon DEF Content
    <3>3. i \in 1..Len(s) /\ j \in 1..Len(s) /\ s[i] \in Extent /\ s[j] \in Extent
      <4>1. i \in DOMAIN s /\ j \in DOMAIN s
        BY Zenon
      <4> HIDE DEF s
      <4> QED
        BY <3>1, <4>1
    <3>4. s[i][1] \in Nat /\ s[j][1] \in Nat /\ s[i][1] = s[j][1]
      BY <1>3, <2>2, <3>3, Zenon
    <3> HIDE DEF s
    <3>5. ~(i < j) /\ ~(j < i)
      BY <3>2, <3>3, <3>4 DEF Numbered
    <3> QED
      BY <3>3, <3>5
  <2> QED
    BY <1>2, <2>2, Zenon DEF NoExtentTwice
<1> QED
  BY <1>5, <1>6, Zenon

(* Under the conditions of MountSucceedsCorrect, and with one client thread *)
(* and no migration, every extent that Fsync or Close reported as stored is *)
(* found by a mount wherever the power fails.                               *)
THEOREM SyncedExtentsSurviveCorrect ==
  ASSUME SnapBlocks = 1, UpdateBlocks = 1, "write" \notin Faults, "mkfs" \notin Ops,
         "create" \notin Ops \/ "delete" \notin Ops, OneThread, "migrate" \notin Ops
  PROVE  Spec => []SyncedExtentsSurvive
<1>1. Limits /\ OneWriter
  BY Zenon DEF Limits, OneBlock, OneWriter
<1>2. Init => ContentInv
  BY <1>1, ContentInit, Zenon
<1>3. TypeInv /\ ContentInv /\ [Next]_vars => ContentInv'
  BY <1>1, ContentStep, Zenon
<1>4. TypeInv /\ ContentInv => SyncedExtentsSurvive
  BY ContentMounts, Zenon
<1> QED
  BY <1>2, <1>3, <1>4, InitType, TypeStep, PTL DEF Spec

(* Under the same conditions no extent is recovered twice: an update record *)
(* continues exactly where the snapshot or the update before it ended.      *)
THEOREM NoExtentTwiceCorrect ==
  ASSUME SnapBlocks = 1, UpdateBlocks = 1, "write" \notin Faults, "mkfs" \notin Ops,
         "create" \notin Ops \/ "delete" \notin Ops, OneThread, "migrate" \notin Ops
  PROVE  Spec => []NoExtentTwice
<1>1. Limits /\ OneWriter
  BY Zenon DEF Limits, OneBlock, OneWriter
<1>2. Init => ContentInv
  BY <1>1, ContentInit, Zenon
<1>3. TypeInv /\ ContentInv /\ [Next]_vars => ContentInv'
  BY <1>1, ContentStep, Zenon
<1>4. TypeInv /\ ContentInv => NoExtentTwice
  BY ContentMounts, Zenon
<1> QED
  BY <1>2, <1>3, <1>4, InitType, TypeStep, PTL DEF Spec
=============================================================================
