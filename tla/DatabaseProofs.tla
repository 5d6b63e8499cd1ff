--------------------------- MODULE DatabaseProofs ---------------------------
(***************************************************************************)
(* Proofs about Database, for any rows, values, handles and failures: the  *)
(* types, the admission of writers, their isolation, and the agreement of  *)
(* rows and index entries.  Callers reopen a handle after a publication    *)
(* failed (ReopenAfterFailure); without it the agreement is lost.          *)
(***************************************************************************)
EXTENDS Database, TLAPS

USE SMTT(20), ZenonT(20)

Changes == [Key -> Nat \cup {Keep}]

\* The rows hold values of the indexed column.
RowsTyped(m) == \A p \in Row : m[RowKey(p)] \in Val \cup {Absent}

\* A map that an operation may find.
Sound(m) == m \in Map /\ RowsTyped(m) /\ Consistent(m)

-----------------------------------------------------------------------------
(* Keys and changes.                                                       *)

\* The key encodings are injective and their ranges are disjoint.
LEMMA KeyFacts ==
    /\ \A p \in Row : RowKey(p) \in Key
    /\ \A i \in Indexes, v \in Val, p \in Row : EntryKey(i, v, p) \in Key
    /\ \A i \in Indexes : MetadataKey(i) \in Key
    /\ PlainKey \in Key /\ DescriptorKey \in Key
    /\ \A p, q : RowKey(p) = RowKey(q) => p = q
    /\ \A i, j : MetadataKey(i) = MetadataKey(j) => i = j
    /\ \A p, q, v : \A i \in Indexes : RowKey(p) # EntryKey(i, v, q)
    /\ \A p, i : RowKey(p) # MetadataKey(i)
    /\ \A p, v, j : \A i \in Indexes : EntryKey(i, v, p) # MetadataKey(j)
BY DEF Key, RowKey, EntryKey, MetadataKey, PlainKey, DescriptorKey, Indexes

\* Two entry keys are equal exactly when they are of one index and value and,
\* in an index that is not unique, of one row.
LEMMA EntryKeyFacts ==
    ASSUME NEW i \in Indexes, NEW j \in Indexes, NEW v, NEW w, NEW p, NEW q
    PROVE EntryKey(i, v, p) = EntryKey(j, w, q)
            <=> i = j /\ v = w /\ (i = "plain" => p = q)
BY DEF EntryKey, Indexes

\* The keys of Set and CreateTable are no keys of rows and indexes.
LEMMA PlainFacts ==
    ASSUME NEW k \in {PlainKey, DescriptorKey}
    PROVE /\ \A p : k # RowKey(p)
          /\ \A i : k # MetadataKey(i)
          /\ \A i \in Indexes : \A v, p : k # EntryKey(i, v, p)
BY DEF PlainKey, DescriptorKey, RowKey, MetadataKey, EntryKey, Indexes

\* A buffered change is a change of the transaction's view.
LEMMA OverlayFacts ==
    ASSUME NEW m \in Map, NEW c \in Changes
    PROVE /\ Overlay(m, c) \in Map
          /\ Overlay(m, NoChanges) = m
          /\ \A K : \A x \in Nat :
                /\ Record(c, K, x) \in Changes
                /\ Record(m, K, x) \in Map
                /\ Overlay(m, Record(c, K, x)) = Record(Overlay(m, c), K, x)
<1>1. Overlay(m, c) \in Map
  BY DEF Overlay, Map, Changes, Keep
<1>2. Overlay(m, NoChanges) = m
  BY DEF Overlay, Map, NoChanges
<1>3. ASSUME NEW K, NEW x \in Nat
      PROVE /\ Record(c, K, x) \in Changes
            /\ Record(m, K, x) \in Map
            /\ Overlay(m, Record(c, K, x)) = Record(Overlay(m, c), K, x)
  <2>1. Record(c, K, x) \in Changes /\ Record(m, K, x) \in Map
    BY DEF Record, Changes, Map
  <2>2. Overlay(m, Record(c, K, x)) = Record(Overlay(m, c), K, x)
    BY DEF Overlay, Record, Keep
  <2> QED
    BY <2>1, <2>2
<1> QED
  BY <1>1, <1>2, <1>3

\* The backfill maps keys to primary keys.
LEMMA BackfillType == \A m, i : Backfill(m, i) \in Changes
<1> SUFFICES ASSUME NEW m, NEW i PROVE Backfill(m, i) \in Changes
  OBVIOUS
<1> DEFINE Of(p, k) == m[RowKey(p)] # Absent /\ k = EntryKey(i, m[RowKey(p)], p)
<1>1. \A k \in Key : (\E p \in Row : Of(p, k)) => (CHOOSE p \in Row : Of(p, k)) \in Nat
  <2> SUFFICES ASSUME NEW k \in Key, \E p \in Row : Of(p, k)
               PROVE (CHOOSE p \in Row : Of(p, k)) \in Row
    BY DatabaseAssumption, Zenon
  <2> QED
    OBVIOUS
<1> QED
  BY <1>1 DEF Backfill, Changes

\* The row operations record changes.
LEMMA ChangesType ==
    ASSUME NEW m, NEW view, NEW c \in Changes, NEW p \in Row
    PROVE /\ \A v \in Val : InsertRow(m, c, p, v) \in Changes /\ UpdateRow(m, view, c, p, v) \in Changes
          /\ DeleteRow(m, view, c, p) \in Changes
<1>1. \A d \in Changes : \A K : \A x \in Nat : Record(d, K, x) \in Changes
  BY DEF Record, Changes
<1>2. p \in Nat /\ Val \subseteq Nat /\ Absent \in Nat
  BY DatabaseAssumption DEF Absent
<1>3. \A v \in Val : InsertRow(m, c, p, v) \in Changes
  BY <1>1, <1>2 DEF InsertRow
<1>4. \A v \in Val : UpdateRow(m, view, c, p, v) \in Changes
  BY <1>1, <1>2 DEF UpdateRow
<1>5. DeleteRow(m, view, c, p) \in Changes
  BY <1>1, <1>2 DEF DeleteRow
<1> QED
  BY <1>3, <1>4, <1>5

\* What a changed map holds.
LEMMA RecordValue ==
    ASSUME NEW m, NEW K, NEW x, NEW k \in Key
    PROVE Record(m, K, x)[k] = IF k \in K THEN x ELSE m[k]
BY DEF Record

-----------------------------------------------------------------------------
(* What the row operations do to a sound map.                              *)

\* Row and index changes leave the index definitions alone.
LEMMA SameIndexes ==
    ASSUME NEW m, NEW n, \A i \in Indexes : n[MetadataKey(i)] = m[MetadataKey(i)]
    PROVE /\ DefinedIndexes(n) = DefinedIndexes(m)
          /\ \A p, v : EntryKeys(n, p, v) = EntryKeys(m, p, v)
BY DEF DefinedIndexes, EntryKeys

\* The keys of Set and CreateTable may change freely.
LEMMA OtherKeysSound ==
    ASSUME NEW m, Sound(m), NEW k \in {PlainKey, DescriptorKey}, NEW x \in Nat
    PROVE Sound(Record(m, {k}, x)) /\ DefinedIndexes(Record(m, {k}, x)) = DefinedIndexes(m)
<1> DEFINE n == Record(m, {k}, x)
<1>1. n \in Map
  BY DEF Record, Sound, Map
<1>2. /\ \A p \in Row : n[RowKey(p)] = m[RowKey(p)]
      /\ \A i \in Indexes : n[MetadataKey(i)] = m[MetadataKey(i)]
      /\ \A i \in Indexes, v \in Val, p \in Row : n[EntryKey(i, v, p)] = m[EntryKey(i, v, p)]
  BY KeyFacts, PlainFacts, RecordValue
<1>3. DefinedIndexes(n) = DefinedIndexes(m)
  BY <1>2, SameIndexes
<1> HIDE DEF n
<1>4. RowsTyped(n)
  BY <1>2 DEF RowsTyped, Sound
<1>5. Consistent(n)
  <2> SUFFICES ASSUME NEW i \in Indexes, NEW p \in Row, NEW v \in Val
               PROVE IF i \in DefinedIndexes(n)
                     THEN /\ n[RowKey(p)] = v => n[EntryKey(i, v, p)] = p
                          /\ n[EntryKey(i, v, p)] # Absent =>
                               n[EntryKey(i, v, p)] \in Row /\ n[RowKey(n[EntryKey(i, v, p)])] = v
                          /\ i = "plain" => n[EntryKey(i, v, p)] \in {Absent, p}
                     ELSE n[EntryKey(i, v, p)] = Absent
    BY DEF Consistent
  <2> QED
    BY <1>2, <1>3 DEF Consistent, Sound
<1> QED
  BY <1>1, <1>3, <1>4, <1>5 DEF Sound, n

\* Consistent, one index, row and value at a time.
Agrees(m, i, p, v) ==
    LET entry == m[EntryKey(i, v, p)]
    IN IF i \in DefinedIndexes(m)
       THEN /\ m[RowKey(p)] = v => entry = p
            /\ entry # Absent => entry \in Row /\ m[RowKey(entry)] = v
            /\ i = "plain" => entry \in {Absent, p}
       ELSE entry = Absent

\* Consistent says that of every index, row and value.
LEMMA ConsistentAgrees ==
    ASSUME NEW m
    PROVE Consistent(m) <=> \A i \in Indexes, p \in Row, v \in Val : Agrees(m, i, p, v)
BY DEF Consistent, Agrees

\* insertRowLocked keeps a map sound.
LEMMA InsertSound ==
    ASSUME NEW m, Sound(m), NEW p \in Row, NEW v \in Val, m[RowKey(p)] = Absent,
           EntriesAllowed(m, m, p, v, FALSE)
    PROVE Sound(InsertRow(m, m, p, v)) /\ DefinedIndexes(InsertRow(m, m, p, v)) = DefinedIndexes(m)
<1> DEFINE D == DefinedIndexes(m)
           n == InsertRow(m, m, p, v)
<1>0. p \in Nat /\ p # 0 /\ v \in Nat /\ v # 0 /\ D \subseteq Indexes
  BY DatabaseAssumption DEF DefinedIndexes
<1>1. n \in Map
  BY <1>0 DEF InsertRow, Record, Sound, Map
<1>2. /\ \A q \in Row : n[RowKey(q)] = IF q = p THEN v ELSE m[RowKey(q)]
      /\ \A i \in Indexes : n[MetadataKey(i)] = m[MetadataKey(i)]
  BY <1>0, KeyFacts, RecordValue DEF InsertRow, EntryKeys
<1>3. \A i \in Indexes, w \in Val, q \in Row :
        n[EntryKey(i, w, q)] = IF i \in D /\ w = v /\ (i = "plain" => q = p) THEN p
                               ELSE m[EntryKey(i, w, q)]
  <2> SUFFICES ASSUME NEW i \in Indexes, NEW w \in Val, NEW q \in Row
               PROVE n[EntryKey(i, w, q)] = IF i \in D /\ w = v /\ (i = "plain" => q = p) THEN p
                                            ELSE m[EntryKey(i, w, q)]
    OBVIOUS
  <2>1. EntryKey(i, w, q) \in EntryKeys(m, p, v) <=> i \in D /\ w = v /\ (i = "plain" => q = p)
    BY <1>0, EntryKeyFacts DEF EntryKeys
  <2> QED
    BY <2>1, KeyFacts, RecordValue DEF InsertRow
<1>4. DefinedIndexes(n) = D
  BY <1>2, SameIndexes
<1> HIDE DEF n
<1>5. RowsTyped(n)
  BY <1>2 DEF RowsTyped, Sound
<1>6. "unique" \in D => m[EntryKey("unique", v, p)] = Absent
  BY DEF EntriesAllowed
<1>7. Consistent(n)
  <2> SUFFICES ASSUME NEW i \in Indexes, NEW q \in Row, NEW w \in Val
               PROVE Agrees(n, i, q, w)
    BY ConsistentAgrees
  <2>1. Agrees(m, i, q, w) /\ Agrees(m, i, q, v)
    BY ConsistentAgrees DEF Sound
  <2>2. i = "unique" \/ i = "plain"
    BY DEF Indexes
  <2>3. EntryKey("unique", v, q) = EntryKey("unique", v, p)
    BY EntryKeyFacts DEF Indexes
  <2>0. q # 0 /\ w # 0
    BY DatabaseAssumption
  <2>4. CASE i \notin D
    BY <1>3, <1>4, <2>1, <2>4 DEF Agrees
  <2>5. CASE i \in D /\ i = "unique" /\ w = v
    BY <1>0, <2>0, <1>2, <1>3, <1>4, <1>6, <2>1, <2>3, <2>5 DEF Agrees, Absent
  <2>6. CASE i \in D /\ i = "plain" /\ w = v /\ q = p
    BY <1>0, <1>2, <1>3, <1>4, <2>1, <2>6 DEF Agrees
  <2>7. CASE i \in D /\ ~(w = v /\ (i = "plain" => q = p))
    <3>1. n[EntryKey(i, w, q)] = m[EntryKey(i, w, q)]
      BY <1>3, <2>7
    <3>2. m[EntryKey(i, w, q)] # Absent => m[EntryKey(i, w, q)] # p
      BY <2>0, <2>1, <2>7 DEF Agrees, Absent
    <3> QED
      BY <1>0, <1>2, <1>4, <2>1, <2>7, <3>1, <3>2, Zenon DEF Agrees
  <2> QED
    BY <2>2, <2>4, <2>5, <2>6, <2>7
<1> QED
  BY <1>1, <1>4, <1>5, <1>7 DEF Sound, n

\* deleteRowLocked keeps a map sound.
LEMMA DeleteSound ==
    ASSUME NEW m, Sound(m), NEW p \in Row, m[RowKey(p)] # Absent
    PROVE /\ Sound(DeleteRow(m, m, m, p))
          /\ DefinedIndexes(DeleteRow(m, m, m, p)) = DefinedIndexes(m)
          /\ DeleteRow(m, m, m, p)[RowKey(p)] = Absent
          /\ \A v \in Val : v # m[RowKey(p)] /\ "unique" \in DefinedIndexes(m) =>
                /\ m[EntryKey("unique", v, p)] # p
                /\ DeleteRow(m, m, m, p)[EntryKey("unique", v, p)] = m[EntryKey("unique", v, p)]
          /\ "unique" \in DefinedIndexes(m) =>
                DeleteRow(m, m, m, p)[EntryKey("unique", m[RowKey(p)], p)] = Absent
<1> DEFINE D == DefinedIndexes(m)
           v == m[RowKey(p)]
           n == DeleteRow(m, m, m, p)
<1>0. p # 0 /\ v \in Val /\ v # 0 /\ D \subseteq Indexes
  BY DatabaseAssumption DEF DefinedIndexes, Sound, RowsTyped, Absent
<1>1. n \in Map
  BY DEF DeleteRow, Record, Sound, Map, Absent
<1>2. /\ \A q \in Row : n[RowKey(q)] = IF q = p THEN Absent ELSE m[RowKey(q)]
      /\ \A i \in Indexes : n[MetadataKey(i)] = m[MetadataKey(i)]
  BY <1>0, KeyFacts, RecordValue DEF DeleteRow, EntryKeys
<1>3. \A i \in Indexes, w \in Val, q \in Row :
        n[EntryKey(i, w, q)] = IF i \in D /\ w = v /\ (i = "plain" => q = p) THEN Absent
                               ELSE m[EntryKey(i, w, q)]
  <2> SUFFICES ASSUME NEW i \in Indexes, NEW w \in Val, NEW q \in Row
               PROVE n[EntryKey(i, w, q)]
                       = IF i \in D /\ w = v /\ (i = "plain" => q = p) THEN Absent
                         ELSE m[EntryKey(i, w, q)]
    OBVIOUS
  <2>1. EntryKey(i, w, q) \in EntryKeys(m, p, v) <=> i \in D /\ w = v /\ (i = "plain" => q = p)
    BY <1>0, EntryKeyFacts DEF EntryKeys
  <2> QED
    BY <2>1, KeyFacts, RecordValue DEF DeleteRow
<1>4. DefinedIndexes(n) = D
  BY <1>2, SameIndexes
<1> HIDE DEF n
<1>5. RowsTyped(n)
  BY <1>2 DEF RowsTyped, Sound
<1>6. \A i \in Indexes, q \in Row, w \in Val : Agrees(m, i, q, w)
  BY ConsistentAgrees DEF Sound
<1>7. Consistent(n)
  <2> SUFFICES ASSUME NEW i \in Indexes, NEW q \in Row, NEW w \in Val
               PROVE Agrees(n, i, q, w)
    BY ConsistentAgrees
  <2>0. q # 0 /\ w # 0
    BY DatabaseAssumption
  <2>1. Agrees(m, i, q, w) /\ Agrees(m, i, p, v) /\ Agrees(m, i, q, v)
    BY <1>0, <1>6
  <2>2. i = "unique" \/ i = "plain"
    BY DEF Indexes
  <2>3. EntryKey("unique", v, q) = EntryKey("unique", v, p)
    BY EntryKeyFacts DEF Indexes
  <2>4. CASE i \notin D
    BY <1>3, <1>4, <2>1, <2>4 DEF Agrees
  <2>5. CASE i \in D /\ i = "unique" /\ w = v
    BY <1>0, <1>2, <1>3, <1>4, <2>0, <2>1, <2>3, <2>5 DEF Agrees, Absent
  <2>6. CASE i \in D /\ i = "plain" /\ w = v /\ q = p
    BY <1>0, <1>2, <1>3, <1>4, <2>6 DEF Agrees, Absent
  <2>7. CASE i \in D /\ ~(w = v /\ (i = "plain" => q = p))
    <3>1. n[EntryKey(i, w, q)] = m[EntryKey(i, w, q)]
      BY <1>3, <2>7
    <3>2. m[EntryKey(i, w, q)] # Absent => m[EntryKey(i, w, q)] # p
      BY <2>0, <2>1, <2>7 DEF Agrees, Absent
    <3> QED
      BY <1>0, <1>2, <1>4, <2>0, <2>1, <2>7, <3>1, <3>2 DEF Agrees, Absent
  <2> QED
    BY <2>2, <2>4, <2>5, <2>6, <2>7
<1>8. ASSUME NEW w \in Val, w # v, "unique" \in D
      PROVE m[EntryKey("unique", w, p)] # p /\ n[EntryKey("unique", w, p)] = m[EntryKey("unique", w, p)]
  <2>1. Agrees(m, "unique", p, w)
    BY <1>6 DEF Indexes
  <2> QED
    BY <1>0, <1>3, <1>8, <2>1 DEF Agrees, Indexes, Absent
<1>9. "unique" \in D => n[EntryKey("unique", v, p)] = Absent
  BY <1>0, <1>3 DEF Indexes
<1> QED
  BY <1>1, <1>2, <1>4, <1>5, <1>7, <1>8, <1>9 DEF Sound, n

\* updateRowLocked keeps a map sound: it deletes the row and inserts it again.
LEMMA UpdateSound ==
    ASSUME NEW m, Sound(m), NEW p \in Row, NEW v \in Val, UpdateAllowed(m, m, p, v)
    PROVE /\ Sound(UpdateRow(m, m, m, p, v))
          /\ DefinedIndexes(UpdateRow(m, m, m, p, v)) = DefinedIndexes(m)
<1> DEFINE n == DeleteRow(m, m, m, p)
<1>1. m[RowKey(p)] # Absent /\ EntriesAllowed(m, m, p, v, TRUE)
  BY Zenon DEF UpdateAllowed
<1>2. /\ Sound(n) /\ DefinedIndexes(n) = DefinedIndexes(m) /\ n[RowKey(p)] = Absent
  BY <1>1, DeleteSound
<1>3. EntriesAllowed(n, n, p, v, FALSE)
  <2> SUFFICES ASSUME "unique" \in DefinedIndexes(m) PROVE n[EntryKey("unique", v, p)] = Absent
    BY <1>2 DEF EntriesAllowed
  <2>1. CASE v = m[RowKey(p)]
    BY <1>1, <2>1, DeleteSound
  <2>2. CASE v # m[RowKey(p)]
    BY <1>1, <2>2, DeleteSound DEF EntriesAllowed
  <2> QED
    BY <2>1, <2>2
<1>4. UpdateRow(m, m, m, p, v) = InsertRow(n, n, p, v)
  <2>1. EntryKeys(n, p, v) = EntryKeys(m, p, v)
    BY <1>2 DEF EntryKeys
  <2>2. \A k : k \in {RowKey(p)} <=> k = RowKey(p)
    OBVIOUS
  <2> QED
    BY <2>1, <2>2 DEF UpdateRow, InsertRow, DeleteRow, Record
<1> HIDE DEF n
<1> QED
  BY <1>2, <1>3, <1>4, InsertSound, Zenon

\* The backfill of CreateIndex keeps a map sound.
LEMMA BackfillSound ==
    ASSUME NEW m, Sound(m), NEW i \in Indexes, i \notin DefinedIndexes(m),
           i = "unique" => \A p, q \in Row :
               m[RowKey(p)] # Absent /\ m[RowKey(p)] = m[RowKey(q)] => p = q
    PROVE Sound(Overlay(m, Backfill(m, i)))
<1> DEFINE c == Backfill(m, i)
           n == Overlay(m, c)
           Of(p, k) == m[RowKey(p)] # Absent /\ k = EntryKey(i, m[RowKey(p)], p)
<1>1. c \in Changes
  BY BackfillType
<1>2. n \in Map
  BY <1>1, OverlayFacts DEF Sound
<1>3. /\ \A q \in Row : n[RowKey(q)] = m[RowKey(q)]
      /\ n[MetadataKey(i)] # Absent
      /\ \A j \in Indexes : j # i => n[MetadataKey(j)] = m[MetadataKey(j)]
  <2>1. /\ \A q \in Row : c[RowKey(q)] = Keep
        /\ \A j \in Indexes : c[MetadataKey(j)] = IF j = i THEN 1 ELSE Keep
    BY KeyFacts DEF Backfill
  <2> QED
    BY <2>1, KeyFacts DEF Overlay, Keep, Absent
<1>4. \A j \in Indexes : j \in DefinedIndexes(n) <=> j = i \/ j \in DefinedIndexes(m)
  BY <1>3 DEF DefinedIndexes
<1>5. \A j \in Indexes, q \in Row, w \in Val : Agrees(m, j, q, w)
  BY ConsistentAgrees DEF Sound
<1>6. \A j \in Indexes, q \in Row, w \in Val :
        j # i => n[EntryKey(j, w, q)] = m[EntryKey(j, w, q)]
  <2> SUFFICES ASSUME NEW j \in Indexes, NEW q \in Row, NEW w \in Val, j # i
               PROVE n[EntryKey(j, w, q)] = m[EntryKey(j, w, q)]
    OBVIOUS
  <2>1. \A p \in Row : ~Of(p, EntryKey(j, w, q))
    BY EntryKeyFacts
  <2>2. c[EntryKey(j, w, q)] = Keep
    BY <2>1, KeyFacts DEF Backfill
  <2> QED
    BY <2>2, KeyFacts DEF Overlay
<1>7. ASSUME NEW q \in Row, NEW w \in Val
      PROVE LET e == n[EntryKey(i, w, q)]
            IN \/ e \in Row /\ m[RowKey(e)] = w /\ (i = "plain" => e = q)
               \/ e = Absent /\ \A p \in Row : m[RowKey(p)] = w => (i = "plain" /\ p # q)
  <2> DEFINE k == EntryKey(i, w, q)
  <2>0. w # Absent
    BY DatabaseAssumption DEF Absent
  <2>1. \A p \in Row : Of(p, k) <=> m[RowKey(p)] = w /\ (i = "plain" => p = q)
    BY <2>0, EntryKeyFacts
  <2>2. k \in Key /\ k # MetadataKey(i)
    BY KeyFacts
  <2>3. CASE \E p \in Row : Of(p, k)
    <3>1. c[k] = CHOOSE p \in Row : Of(p, k)
      BY <2>2, <2>3 DEF Backfill
    <3>2. c[k] \in Row /\ Of(c[k], k)
      BY <2>3, <3>1
    <3>3. n[k] = c[k]
      BY <2>2, <3>2, DatabaseAssumption DEF Overlay, Keep
    <3> QED
      BY <2>1, <3>2, <3>3
  <2>4. CASE ~\E p \in Row : Of(p, k)
    <3>1. c[k] = Keep
      BY <2>2, <2>4 DEF Backfill
    <3>2. n[k] = m[k]
      BY <2>2, <3>1 DEF Overlay
    <3>3. m[k] = Absent
      BY <1>5 DEF Agrees
    <3> QED
      BY <2>1, <2>4, <3>2, <3>3
  <2> QED
    BY <2>3, <2>4
<1> HIDE DEF n, c
<1>8. RowsTyped(n)
  BY <1>3 DEF RowsTyped, Sound
<1>9. Consistent(n)
  <2> SUFFICES ASSUME NEW j \in Indexes, NEW q \in Row, NEW w \in Val
               PROVE Agrees(n, j, q, w)
    BY ConsistentAgrees
  <2>1. CASE j # i
    BY <1>3, <1>4, <1>5, <1>6, <2>1 DEF Agrees
  <2>2. CASE j = i
    <3>1. w # Absent
      BY DatabaseAssumption DEF Absent
    <3>2. j \in DefinedIndexes(n)
      BY <1>4, <2>2
    <3>3. j = "unique" \/ j = "plain"
      BY DEF Indexes
    <3>4. CASE n[EntryKey(i, w, q)] \in Row /\ m[RowKey(n[EntryKey(i, w, q)])] = w
                 /\ (i = "plain" => n[EntryKey(i, w, q)] = q)
      BY <1>3, <2>2, <3>1, <3>2, <3>3, <3>4 DEF Agrees
    <3>5. CASE n[EntryKey(i, w, q)] = Absent
                 /\ \A p \in Row : m[RowKey(p)] = w => (i = "plain" /\ p # q)
      BY <1>3, <2>2, <3>2, <3>5 DEF Agrees
    <3> QED
      BY <1>7, <3>4, <3>5
  <2> QED
    BY <2>1, <2>2
<1> QED
  BY <1>1, <1>2, <1>8, <1>9 DEF Sound, n, c

-----------------------------------------------------------------------------
(* The operations of a transaction: c are the changes it has buffered.     *)

\* Inserting a row keeps the view sound.
LEMMA ViewInsert ==
    ASSUME NEW m \in Map, NEW c \in Changes, NEW p \in Row, NEW v \in Val,
           Sound(Overlay(m, c)), DefinedIndexes(Overlay(m, c)) = DefinedIndexes(m),
           InsertAllowed(m, Overlay(m, c), p, v)
    PROVE /\ Sound(Overlay(m, InsertRow(m, c, p, v)))
          /\ DefinedIndexes(Overlay(m, InsertRow(m, c, p, v))) = DefinedIndexes(m)
<1> DEFINE w == Overlay(m, c)
<1>1. EntriesAllowed(w, w, p, v, FALSE) /\ w[RowKey(p)] = Absent
  BY DEF InsertAllowed, EntriesAllowed
<1>2. EntryKeys(w, p, v) = EntryKeys(m, p, v)
  BY DEF EntryKeys
<1>3. Overlay(m, InsertRow(m, c, p, v)) = InsertRow(w, w, p, v)
  <2>1. p \in Nat /\ v \in Nat
    BY DatabaseAssumption
  <2>2. Record(c, {RowKey(p)}, v) \in Changes
    BY <2>1, OverlayFacts
  <2> QED
    BY <1>2, <2>1, <2>2, OverlayFacts DEF InsertRow
<1> HIDE DEF w
<1> QED
  BY <1>1, <1>3, InsertSound, ZenonT(30) DEF w

\* Deleting a row keeps the view sound.
LEMMA ViewDelete ==
    ASSUME NEW m \in Map, NEW c \in Changes, NEW p \in Row,
           Sound(Overlay(m, c)), DefinedIndexes(Overlay(m, c)) = DefinedIndexes(m),
           DeleteAllowed(m, Overlay(m, c), p)
    PROVE /\ Sound(Overlay(m, DeleteRow(m, Overlay(m, c), c, p)))
          /\ DefinedIndexes(Overlay(m, DeleteRow(m, Overlay(m, c), c, p))) = DefinedIndexes(m)
<1> DEFINE w == Overlay(m, c)
<1>1. w[RowKey(p)] # Absent
  BY DEF DeleteAllowed
<1>2. \A v : EntryKeys(w, p, v) = EntryKeys(m, p, v)
  BY DEF EntryKeys
<1>3. Overlay(m, DeleteRow(m, w, c, p)) = DeleteRow(w, w, w, p)
  <2>1. Absent \in Nat
    BY DEF Absent
  <2>2. Record(c, {RowKey(p)}, Absent) \in Changes
    BY <2>1, OverlayFacts
  <2> QED
    BY <1>2, <2>1, <2>2, OverlayFacts DEF DeleteRow
<1> HIDE DEF w
<1> QED
  BY <1>1, <1>3, DeleteSound DEF w

\* Updating a row keeps the view sound.
LEMMA ViewUpdate ==
    ASSUME NEW m \in Map, NEW c \in Changes, NEW p \in Row, NEW v \in Val,
           Sound(Overlay(m, c)), DefinedIndexes(Overlay(m, c)) = DefinedIndexes(m),
           UpdateAllowed(m, Overlay(m, c), p, v)
    PROVE /\ Sound(Overlay(m, UpdateRow(m, Overlay(m, c), c, p, v)))
          /\ DefinedIndexes(Overlay(m, UpdateRow(m, Overlay(m, c), c, p, v))) = DefinedIndexes(m)
<1> DEFINE w == Overlay(m, c)
<1>1. UpdateAllowed(w, w, p, v)
  BY DEF UpdateAllowed, EntriesAllowed
<1>2. \A x : EntryKeys(w, p, x) = EntryKeys(m, p, x)
  BY DEF EntryKeys
<1>3. Overlay(m, UpdateRow(m, w, c, p, v)) = UpdateRow(w, w, w, p, v)
  <2>1. Absent \in Nat /\ p \in Nat /\ v \in Nat
    BY DatabaseAssumption DEF Absent
  <2> DEFINE c1 == Record(c, EntryKeys(m, p, w[RowKey(p)]), Absent)
             c2 == Record(c1, {RowKey(p)}, v)
  <2>2. c1 \in Changes /\ Overlay(m, c1) = Record(w, EntryKeys(m, p, w[RowKey(p)]), Absent)
    BY <2>1, OverlayFacts
  <2>3. c2 \in Changes /\ Overlay(m, c2) = Record(Overlay(m, c1), {RowKey(p)}, v)
    BY <2>1, <2>2, OverlayFacts
  <2>4. Overlay(m, Record(c2, EntryKeys(m, p, v), p)) = Record(Overlay(m, c2), EntryKeys(m, p, v), p)
    BY <2>1, <2>3, OverlayFacts
  <2> QED
    BY <1>2, <2>2, <2>3, <2>4 DEF UpdateRow
<1> HIDE DEF w
<1> QED
  BY <1>1, <1>3, UpdateSound DEF w

-----------------------------------------------------------------------------
(* Types and the admission of writers.                                     *)

TxType == [state : {"none", "open", "closed"}, readOnly : BOOLEAN, changes : Changes]

TypeInv ==
    /\ store \in Map /\ adopted \in Map
    /\ uncertain \in BOOLEAN /\ closed \in BOOLEAN /\ writerActive \in BOOLEAN
    /\ tx \in [Tx -> TxType]

\* ApplyBatch keeps the types of what the engine shows.
LEMMA ApplyBatchType ==
    ASSUME TypeInv, NEW c \in Changes, ApplyBatch(c)
    PROVE store' \in Map /\ adopted' \in Map /\ uncertain' \in BOOLEAN
<1>1. Base \in Map /\ Overlay(Base, c) \in Map
  BY OverlayFacts DEF TypeInv, Base
<1> QED
  BY <1>1, Zenon DEF ApplyBatch, Committed, NotPrepared, NotPublished

\* The changes c leave a sound map and the index definitions.
Keeps(c) == Sound(Overlay(store, c)) /\ DefinedIndexes(Overlay(store, c)) = DefinedIndexes(store)

\* What a transaction does, seen from its buffer.
LEMMA TxCases ==
    ASSUME TypeInv, NEW t \in Tx, TxStep(t)
    PROVE \/ \E readOnly \in BOOLEAN : Begin(t, readOnly)
          \/ \E c \in Changes : /\ Writing(t) /\ Buffer(t, c)
                                /\ Keeps(tx[t].changes) => Keeps(c)
          \/ CommitReadOnly(t) \/ Commit(t) \/ Rollback(t)
<1>0. store \in Map /\ tx[t].changes \in Changes
  BY DEF TypeInv, TxType
<1>1. ASSUME NEW value \in {Absent, 1}, TxSet(t, value)
      PROVE \E c \in Changes : Writing(t) /\ Buffer(t, c) /\ (Keeps(tx[t].changes) => Keeps(c))
  <2> DEFINE c == Record(tx[t].changes, {PlainKey}, value)
  <2>1. value \in Nat
    BY DEF Absent
  <2>2. c \in Changes /\ Overlay(store, c) = Record(Overlay(store, tx[t].changes), {PlainKey}, value)
    BY <1>0, <2>1, OverlayFacts
  <2>3. Keeps(tx[t].changes) => Keeps(c)
    BY <2>1, <2>2, OtherKeysSound, Zenon DEF Keeps
  <2> QED
    BY <1>1, <2>2, <2>3 DEF TxSet
<1>2. ASSUME NEW p \in Row, NEW v \in Val, TxInsert(t, p, v)
      PROVE \E c \in Changes : Writing(t) /\ Buffer(t, c) /\ (Keeps(tx[t].changes) => Keeps(c))
  <2> DEFINE c == InsertRow(store, tx[t].changes, p, v)
  <2>1. c \in Changes
    BY <1>0, ChangesType, Zenon
  <2>2. Keeps(tx[t].changes) => Keeps(c)
    BY <1>0, <1>2, ViewInsert DEF Keeps, TxInsert, View
  <2> QED
    BY <1>2, <2>1, <2>2 DEF TxInsert
<1>3. ASSUME NEW p \in Row, NEW v \in Val, TxUpdate(t, p, v)
      PROVE \E c \in Changes : Writing(t) /\ Buffer(t, c) /\ (Keeps(tx[t].changes) => Keeps(c))
  <2> DEFINE c == UpdateRow(store, View(t), tx[t].changes, p, v)
  <2>1. c \in Changes
    BY <1>0, ChangesType
  <2>2. Keeps(tx[t].changes) => Keeps(c)
    BY <1>0, <1>3, ViewUpdate DEF Keeps, TxUpdate, View
  <2> QED
    BY <1>3, <2>1, <2>2 DEF TxUpdate
<1>4. ASSUME NEW p \in Row, TxDeleteRow(t, p)
      PROVE \E c \in Changes : Writing(t) /\ Buffer(t, c) /\ (Keeps(tx[t].changes) => Keeps(c))
  <2> DEFINE c == DeleteRow(store, View(t), tx[t].changes, p)
  <2>1. c \in Changes
    BY <1>0, ChangesType, Zenon
  <2>2. Keeps(tx[t].changes) => Keeps(c)
    BY <1>0, <1>4, ViewDelete DEF Keeps, TxDeleteRow, View
  <2> QED
    BY <1>4, <2>1, <2>2 DEF TxDeleteRow
<1> QED
  BY <1>1, <1>2, <1>3, <1>4 DEF TxStep

\* What a direct operation gives to the engine.
LEMMA DirectCases ==
    ASSUME TypeInv, DirectStep
    PROVE \E c \in Changes : Direct(c) /\ (Sound(store) => Sound(Overlay(store, c)))
<1>0. store \in Map /\ NoChanges \in Changes
  BY DEF TypeInv, NoChanges, Changes
<1>1. Overlay(store, NoChanges) = store
  BY <1>0, OverlayFacts
<1>2. ASSUME NEW k \in {PlainKey, DescriptorKey}, NEW value \in {Absent, 1},
             Direct(Record(NoChanges, {k}, value))
      PROVE \E c \in Changes : Direct(c) /\ (Sound(store) => Sound(Overlay(store, c)))
  <2> DEFINE c == Record(NoChanges, {k}, value)
  <2>1. value \in Nat
    BY DEF Absent
  <2>2. c \in Changes /\ Overlay(store, c) = Record(store, {k}, value)
    BY <1>0, <1>1, <2>1, OverlayFacts
  <2>3. Sound(store) => Sound(Overlay(store, c))
    BY <2>1, <2>2, OtherKeysSound, Zenon
  <2> QED
    BY <1>2, <2>2, <2>3
<1>3. ASSUME NEW p \in Row, NEW v \in Val, Insert(p, v)
      PROVE \E c \in Changes : Direct(c) /\ (Sound(store) => Sound(Overlay(store, c)))
  <2> DEFINE c == InsertRow(store, NoChanges, p, v)
  <2>1. c \in Changes
    BY <1>0, ChangesType, Zenon
  <2>2. Sound(store) => Sound(Overlay(store, c))
    BY <1>0, <1>1, <1>3, ViewInsert DEF Insert
  <2> QED
    BY <1>3, <2>1, <2>2 DEF Insert
<1>4. ASSUME NEW p \in Row, NEW v \in Val, Update(p, v)
      PROVE \E c \in Changes : Direct(c) /\ (Sound(store) => Sound(Overlay(store, c)))
  <2> DEFINE c == UpdateRow(store, store, NoChanges, p, v)
  <2>1. c \in Changes
    BY <1>0, ChangesType
  <2>2. Sound(store) => Sound(Overlay(store, c))
    BY <1>0, <1>1, <1>4, ViewUpdate DEF Update
  <2> QED
    BY <1>4, <2>1, <2>2 DEF Update
<1>5. ASSUME NEW p \in Row, Delete(p)
      PROVE \E c \in Changes : Direct(c) /\ (Sound(store) => Sound(Overlay(store, c)))
  <2> DEFINE c == DeleteRow(store, store, NoChanges, p)
  <2>1. c \in Changes
    BY <1>0, ChangesType
  <2>2. DeleteAllowed(store, store, p) => (Sound(store) => Sound(Overlay(store, c)))
    BY <1>0, <1>1, ViewDelete
  <2> QED
    BY <1>0, <1>1, <1>5, <2>1, <2>2 DEF Delete
<1>6. ASSUME NEW i \in Indexes, CreateIndex(i)
      PROVE \E c \in Changes : Direct(c) /\ (Sound(store) => Sound(Overlay(store, c)))
  <2>1. Backfill(store, i) \in Changes
    BY BackfillType
  <2>2. Sound(store) => Sound(Overlay(store, Backfill(store, i)))
    BY <1>6, BackfillSound DEF CreateIndex
  <2> QED
    BY <1>6, <2>1, <2>2 DEF CreateIndex
<1> QED
  BY <1>2, <1>3, <1>4, <1>5, <1>6 DEF DirectStep, Set, CreateTable

\* The handle of a finished transaction.
LEMMA FinishedTx ==
    ASSUME NEW x, x = [NoTx EXCEPT !.state = "closed"]
    PROVE x \in TxType /\ x.state = "closed"
BY Zenon DEF TxType, NoTx, NoChanges, Changes

\* Every step keeps the types.
LEMMA TypeStep ==
    ASSUME TypeInv, [Next]_vars
    PROVE TypeInv'
<1>0. tx \in [Tx -> TxType] /\ NoTx \in TxType
  BY DEF TypeInv, TxType, NoTx, NoChanges, Changes
<1>1. ASSUME NEW t \in Tx, TxStep(t) PROVE TypeInv'
  <2>1. ASSUME NEW readOnly \in BOOLEAN, Begin(t, readOnly) PROVE TypeInv'
    <3>1. [NoTx EXCEPT !.state = "open", !.readOnly = readOnly] \in TxType
      BY <1>0, Zenon DEF TxType
    <3>2. tx' \in [Tx -> TxType]
      BY <1>0, <2>1, <3>1 DEF Begin
    <3>3. writerActive' \in BOOLEAN
      BY <2>1, Zenon DEF Begin
    <3> QED
      BY <2>1, <3>2, <3>3 DEF Begin, TypeInv, TxType
  <2>2. ASSUME NEW c \in Changes, Buffer(t, c) PROVE TypeInv'
    <3>1. tx' \in [Tx -> TxType]
      BY <1>0, <2>2 DEF Buffer, TxType
    <3> QED
      BY <2>2, <3>1 DEF Buffer, TypeInv, TxType
  <2>3. ASSUME tx' = [tx EXCEPT ![t] = [NoTx EXCEPT !.state = "closed"]] PROVE tx' \in [Tx -> TxType]
    BY <1>0, <2>3, FinishedTx DEF TxType
  <2>4. CASE CommitReadOnly(t)
    BY <2>3, <2>4 DEF CommitReadOnly, TypeInv, TxType
  <2>5. CASE Rollback(t)
    <3>1. writerActive' \in BOOLEAN
      BY <2>5, Zenon DEF Rollback
    <3> QED
      BY <2>3, <2>5, <3>1 DEF Rollback, TypeInv, TxType
  <2>6. CASE Commit(t)
    <3>1. ApplyBatch(tx[t].changes) /\ tx[t].changes \in Changes
      BY <1>0, <2>6 DEF Commit, ApplyBatch, TxType
    <3>2. store' \in Map /\ adopted' \in Map /\ uncertain' \in BOOLEAN
      BY <3>1, ApplyBatchType
    <3>3. tx' \in [Tx -> TxType]
      BY <1>0, <2>3, <2>6 DEF Commit
    <3>4. writerActive' \in BOOLEAN /\ closed' \in BOOLEAN
      BY <2>6, Zenon DEF Commit, TypeInv
    <3> QED
      BY <3>2, <3>3, <3>4 DEF TypeInv, TxType
  <2>7. \/ \E readOnly \in BOOLEAN : Begin(t, readOnly)
        \/ \E c \in Changes : Buffer(t, c)
        \/ CommitReadOnly(t) \/ Commit(t) \/ Rollback(t)
    BY <1>1, TxCases
  <2> QED
    BY <2>1, <2>2, <2>4, <2>5, <2>6, <2>7, Zenon
<1>2. CASE DirectStep
  <2>1. PICK c \in Changes : Direct(c)
    BY <1>2, DirectCases
  <2>2. store' \in Map /\ adopted' \in Map /\ uncertain' \in BOOLEAN
    BY <2>1, ApplyBatchType DEF Direct
  <2> QED
    BY <2>1, <2>2 DEF Direct, TypeInv
<1>3. CASE Close
  BY <1>3 DEF Close, TypeInv
<1>4. CASE Reopen
  BY <1>0, <1>4, Zenon DEF Reopen, TypeInv, TxType, Base
<1>5. CASE UNCHANGED vars
  BY <1>5 DEF vars, TypeInv
<1> QED
  BY <1>1, <1>2, <1>3, <1>4, <1>5 DEF Next

\* A step that changes one handle from open writer to something else, or back,
\* moves writerActive with it.
LEMMA AdmissionStep ==
    ASSUME TypeInv, WriterAdmission, [Next]_vars
    PROVE WriterAdmission'
<1>0. tx \in [Tx -> TxType]
  BY DEF TypeInv, TxType
<1>1. ASSUME UNCHANGED <<tx, writerActive>> PROVE WriterAdmission'
  BY <1>1 DEF WriterAdmission, OpenWriter
<1>2. ASSUME NEW t \in Tx, TxStep(t) PROVE WriterAdmission'
  <2>0. ASSUME NEW x, tx' = [tx EXCEPT ![t] = x]
        PROVE /\ \A s \in Tx : s # t => (OpenWriter(s)' <=> OpenWriter(s))
              /\ OpenWriter(t)' <=> x.state = "open" /\ ~x.readOnly
    BY <1>0, <2>0 DEF OpenWriter
  <2>1. ASSUME NEW readOnly \in BOOLEAN, Begin(t, readOnly) PROVE WriterAdmission'
    <3>1. ~OpenWriter(t)
      BY <2>1 DEF Begin, OpenWriter
    <3> DEFINE x == [NoTx EXCEPT !.state = "open", !.readOnly = readOnly]
    <3>2. x.state = "open" /\ x.readOnly = readOnly
      BY DEF NoTx
    <3>3. /\ \A s \in Tx : s # t => (OpenWriter(s)' <=> OpenWriter(s))
          /\ OpenWriter(t)' <=> ~readOnly
      BY <2>0, <2>1, <3>2, Zenon DEF Begin
    <3>4. (writerActive' <=> writerActive \/ ~readOnly) /\ (~readOnly => ~writerActive)
      BY <2>1, Zenon DEF Begin
    <3> QED
      BY <3>1, <3>3, <3>4, Zenon DEF WriterAdmission
  <2>2. ASSUME NEW c \in Changes, Buffer(t, c) PROVE WriterAdmission'
    <3>1. \A s \in Tx : OpenWriter(s)' <=> OpenWriter(s)
      BY <1>0, <2>2 DEF Buffer, OpenWriter, TxType
    <3> QED
      BY <2>2, <3>1 DEF Buffer, WriterAdmission
  <2>3. ASSUME tx' = [tx EXCEPT ![t] = [NoTx EXCEPT !.state = "closed"]]
        PROVE \A s \in Tx : OpenWriter(s)' <=> s # t /\ OpenWriter(s)
    BY <2>0, <2>3, FinishedTx, Zenon
  <2>4. CASE CommitReadOnly(t)
    <3>1. ~OpenWriter(t) /\ UNCHANGED writerActive
      BY <2>4 DEF CommitReadOnly, OpenWriter
    <3>2. \A s \in Tx : OpenWriter(s)' <=> s # t /\ OpenWriter(s)
      BY <2>3, <2>4 DEF CommitReadOnly
    <3> QED
      BY <3>1, <3>2 DEF WriterAdmission
  <2>5. CASE Rollback(t)
    <3>1. \A s \in Tx : OpenWriter(s)' <=> s # t /\ OpenWriter(s)
      BY <2>3, <2>5 DEF Rollback
    <3>2. (writerActive' <=> writerActive /\ tx[t].readOnly) /\ (OpenWriter(t) <=> ~tx[t].readOnly)
      BY <2>5, Zenon DEF Rollback, OpenWriter
    <3> QED
      BY <3>1, <3>2, Zenon DEF WriterAdmission
  <2>6. CASE Commit(t)
    <3>1. OpenWriter(t)
      BY <2>6 DEF Commit, Writing, OpenWriter
    <3>2. CASE /\ tx' = [tx EXCEPT ![t] = [NoTx EXCEPT !.state = "closed"]]
               /\ writerActive' = FALSE
      <4>1. \A s \in Tx : OpenWriter(s)' <=> s # t /\ OpenWriter(s)
        BY <2>3, <3>2
      <4> QED
        BY <3>1, <3>2, <4>1 DEF WriterAdmission
    <3>3. CASE UNCHANGED <<tx, writerActive>>
      BY <1>1, <3>3
    <3> QED
      BY <2>6, <3>2, <3>3, Zenon DEF Commit
  <2>7. \/ \E readOnly \in BOOLEAN : Begin(t, readOnly)
        \/ \E c \in Changes : Buffer(t, c)
        \/ CommitReadOnly(t) \/ Commit(t) \/ Rollback(t)
    BY <1>2, TxCases
  <2> QED
    BY <2>1, <2>2, <2>4, <2>5, <2>6, <2>7, Zenon
<1>3. CASE DirectStep
  <2>1. PICK c \in Changes : Direct(c)
    BY <1>3, DirectCases
  <2> QED
    BY <1>1, <2>1 DEF Direct
<1>4. CASE Close
  BY <1>1, <1>4 DEF Close
<1>5. CASE Reopen
  <2>1. \A s \in Tx : ~OpenWriter(s)'
    BY <1>5 DEF Reopen, OpenWriter, NoTx
  <2> QED
    BY <1>5, <2>1 DEF Reopen, WriterAdmission
<1>6. CASE UNCHANGED vars
  BY <1>1, <1>6 DEF vars
<1> QED
  BY <1>2, <1>3, <1>4, <1>5, <1>6 DEF Next

-----------------------------------------------------------------------------
(* Rows and index entries, when callers reopen after a failed publication. *)

IndexInv ==
    /\ Sound(store) /\ Sound(adopted)
    /\ \A t \in Tx : OpenWriter(t) => Keeps(tx[t].changes)

\* ApplyBatch leaves a sound map, whether or not the batch was published.
LEMMA ApplyBatchSound ==
    ASSUME Sound(store), ~uncertain, NEW c, Sound(Overlay(store, c)), ApplyBatch(c)
    PROVE Sound(store') /\ Sound(adopted')
<1>1. Base = store
  BY DEF Base
<1> QED
  BY <1>1 DEF ApplyBatch, Committed, NotPrepared, NotPublished

\* A batch that fails leaves the committed map as it was.
LEMMA FailedBatch ==
    ASSUME ~uncertain, NEW c, NotPrepared(c) \/ NotPublished(c)
    PROVE store' = store
BY DEF NotPrepared, NotPublished, Base

\* Every step keeps rows and index entries in agreement.
LEMMA IndexStep ==
    ASSUME ReopenAfterFailure, TypeInv, WriterAdmission, WriterAdmission', IndexInv, [Next]_vars
    PROVE IndexInv'
<1>0. tx \in [Tx -> TxType] /\ store \in Map
  BY DEF TypeInv, TxType
<1>1. Usable => ~uncertain
  BY DEF Usable
<1>2. Keeps(NoChanges)
  <2>1. NoChanges \in Changes
    BY DEF NoChanges, Changes
  <2>2. Overlay(store, NoChanges) = store
    BY <1>0, <2>1, OverlayFacts
  <2> QED
    BY <2>2 DEF Keeps, IndexInv
<1>3. ASSUME UNCHANGED <<store, adopted>>,
             NEW t \in Tx, NEW x, tx' = [tx EXCEPT ![t] = x],
             x.state = "open" /\ ~x.readOnly => Keeps(x.changes)
      PROVE IndexInv'
  <2>1. \A c : Keeps(c)' <=> Keeps(c)
    BY <1>3 DEF Keeps
  <2>2. \A s \in Tx : tx'[s] = IF s = t THEN x ELSE tx[s]
    BY <1>0, <1>3
  <2>3. \A s \in Tx : OpenWriter(s)' => Keeps(tx'[s].changes)
    BY <1>3, <2>2 DEF IndexInv, OpenWriter
  <2> QED
    BY <1>3, <2>1, <2>3 DEF IndexInv, Keeps
<1>4. ASSUME NEW t \in Tx, TxStep(t) PROVE IndexInv'
  <2>1. ASSUME NEW readOnly \in BOOLEAN, Begin(t, readOnly) PROVE IndexInv'
    <3> DEFINE x == [NoTx EXCEPT !.state = "open", !.readOnly = readOnly]
    <3>1. Keeps(x.changes)
      BY <1>2 DEF NoTx
    <3>2. UNCHANGED <<store, adopted>> /\ tx' = [tx EXCEPT ![t] = x]
      BY <2>1 DEF Begin
    <3> QED
      BY <1>3, <3>1, <3>2, Zenon
  <2>2. ASSUME NEW c \in Changes, Writing(t), Buffer(t, c),
               Keeps(tx[t].changes) => Keeps(c)
        PROVE IndexInv'
    <3> DEFINE x == [tx[t] EXCEPT !.changes = c]
    <3>1. OpenWriter(t)
      BY <2>2 DEF Writing, OpenWriter
    <3>2. x.changes = c
      BY <1>0 DEF TxType
    <3>3. Keeps(x.changes)
      BY <2>2, <3>1, <3>2 DEF IndexInv
    <3>4. UNCHANGED <<store, adopted>> /\ tx' = [tx EXCEPT ![t] = x]
      BY <2>2 DEF Buffer
    <3> QED
      BY <1>3, <3>3, <3>4, Zenon
  <2>3. CASE CommitReadOnly(t) \/ Rollback(t)
    <3> DEFINE x == [NoTx EXCEPT !.state = "closed"]
    <3>1. x.state # "open"
      BY FinishedTx
    <3>2. UNCHANGED <<store, adopted>> /\ tx' = [tx EXCEPT ![t] = x]
      BY <2>3 DEF CommitReadOnly, Rollback
    <3> QED
      BY <1>3, <3>1, <3>2, Zenon
  <2>4. CASE Commit(t)
    <3>1. OpenWriter(t) /\ ~uncertain /\ ApplyBatch(tx[t].changes)
      BY <1>1, <2>4 DEF Commit, Writing, OpenWriter, ApplyBatch
    <3>2. Sound(Overlay(store, tx[t].changes))
      BY <3>1 DEF IndexInv, Keeps
    <3>3. Sound(store') /\ Sound(adopted')
      BY <3>1, <3>2, ApplyBatchSound DEF IndexInv
    <3>4. CASE tx' = [tx EXCEPT ![t] = [NoTx EXCEPT !.state = "closed"]] /\ writerActive' = FALSE
      BY <3>3, <3>4 DEF IndexInv, WriterAdmission
    <3>5. CASE (NotPrepared(tx[t].changes) \/ NotPublished(tx[t].changes)) /\ UNCHANGED tx
      <4>1. store' = store
        BY <3>1, <3>5, FailedBatch
      <4>2. \A s \in Tx : OpenWriter(s)' => Keeps(tx[s].changes)'
        BY <3>5, <4>1 DEF IndexInv, OpenWriter, Keeps
      <4> QED
        BY <3>3, <4>2 DEF IndexInv
    <3> QED
      BY <2>4, <3>4, <3>5, Zenon DEF Commit
  <2>5. \/ \E readOnly \in BOOLEAN : Begin(t, readOnly)
        \/ \E c \in Changes : Writing(t) /\ Buffer(t, c) /\ (Keeps(tx[t].changes) => Keeps(c))
        \/ CommitReadOnly(t) \/ Commit(t) \/ Rollback(t)
    BY <1>4, TxCases
  <2> QED
    BY <2>1, <2>2, <2>3, <2>4, <2>5, Zenon
<1>5. CASE DirectStep
  <2>1. PICK c \in Changes : Direct(c) /\ Sound(Overlay(store, c))
    BY <1>5, DirectCases DEF IndexInv
  <2>2. ~uncertain /\ ApplyBatch(c) /\ ~writerActive /\ UNCHANGED <<tx, writerActive>>
    BY <1>1, <2>1 DEF Direct
  <2>3. Sound(store') /\ Sound(adopted')
    BY <2>1, <2>2, ApplyBatchSound DEF IndexInv
  <2> QED
    BY <2>2, <2>3 DEF IndexInv, WriterAdmission
<1>6. CASE Close
  BY <1>6 DEF Close, IndexInv, OpenWriter, Keeps
<1>7. CASE Reopen
  <2>1. \A s \in Tx : ~OpenWriter(s)'
    BY <1>7 DEF Reopen, OpenWriter, NoTx
  <2>2. Sound(store') /\ Sound(adopted')
    BY <1>7 DEF Reopen, Base, IndexInv
  <2> QED
    BY <2>1, <2>2 DEF IndexInv
<1>8. CASE UNCHANGED vars
  BY <1>8 DEF vars, IndexInv, OpenWriter, Keeps
<1> QED
  BY <1>4, <1>5, <1>6, <1>7, <1>8 DEF Next

\* On a sound map FindByIndex finds exactly the rows with the value.
LEMMA FindExact ==
    ASSUME NEW m, Sound(m), NEW i \in DefinedIndexes(m), NEW v \in Val
    PROVE FindByIndex(m, i, v) = {p \in Row : m[RowKey(p)] = v}
<1> DEFINE found == {m[EntryKey(i, v, p)] : p \in Row} \ {Absent}
<1>1. i \in Indexes
  BY DEF DefinedIndexes
<1>2. \A p \in Row : Agrees(m, i, p, v)
  BY <1>1, ConsistentAgrees DEF Sound
<1>3. \A p \in Row : p # Absent
  BY DatabaseAssumption DEF Absent
<1>4. ~(i = "plain" /\ \E p \in Row : m[EntryKey(i, v, p)] \notin {Absent, p})
  BY <1>2 DEF Agrees
<1>5. \A q \in found : q \in Row /\ m[RowKey(q)] = v
  BY <1>2 DEF Agrees
<1>6. \A p \in Row : m[RowKey(p)] = v => p \in found
  BY <1>2, <1>3 DEF Agrees
<1> QED
  BY <1>4, <1>5, <1>6 DEF FindByIndex

\* What holds before the first operation.
LEMMA InitCorrect == Init => TypeInv /\ WriterAdmission /\ IndexInv
<1> SUFFICES ASSUME Init PROVE TypeInv /\ WriterAdmission /\ IndexInv
  OBVIOUS
<1>1. store \in Map /\ adopted = store /\ \A k \in Key : store[k] = Absent
  BY DEF Init, Map, Absent
<1>2. \A t \in Tx : tx[t] = NoTx /\ ~OpenWriter(t)
  BY DEF Init, OpenWriter, NoTx
<1>3. TypeInv
  BY <1>1, Zenon DEF Init, TypeInv, TxType, NoTx, NoChanges, Changes
<1>4. WriterAdmission
  BY <1>2 DEF Init, WriterAdmission
<1>5. DefinedIndexes(store) = {}
  BY <1>1, KeyFacts DEF DefinedIndexes
<1>6. Consistent(store)
  BY <1>1, <1>5, KeyFacts DEF Consistent
<1>7. Sound(store)
  BY <1>1, <1>6, KeyFacts DEF Sound, RowsTyped
<1> QED
  BY <1>1, <1>2, <1>3, <1>4, <1>7 DEF IndexInv

-----------------------------------------------------------------------------
\* Begin, Commit, Rollback and Close in any order, with commits that fail and
\* handles used after they are finished: writerActive is set exactly while one
\* read-write transaction is open, and there is never a second.
THEOREM AdmissionCorrect == Spec => [](TypeOK /\ WriterAdmission)
<1>1. Init => TypeInv /\ WriterAdmission
  BY InitCorrect
<1>2. TypeInv /\ WriterAdmission /\ [Next]_vars => (TypeInv /\ WriterAdmission)'
  BY TypeStep, AdmissionStep
<1>3. TypeInv => TypeOK
  BY DEF TypeInv, TxType, TypeOK, Transactions, Changes, Keep
<1> QED
  BY <1>1, <1>2, <1>3, PTL DEF Spec

\* No step of Table.mutate, Set, CreateTable, CreateIndex or another handle's
\* Commit changes the committed map while a read-write transaction is open.
THEOREM IsolationCorrect ==
    ASSUME ReopenAfterFailure
    PROVE Spec => WriterIsolation
<1>1. ASSUME TypeInv, WriterAdmission, WriterAdmission', [Next]_vars,
             NEW t \in Tx, OpenWriter(t), OpenWriter(t)'
      PROVE store' = store
  <2>1. Usable => ~uncertain
    BY DEF Usable
  <2>2. writerActive
    BY <1>1 DEF WriterAdmission
  <2>3. ~DirectStep
    BY <1>1, <2>2, DirectCases DEF Direct
  <2>4. ~Reopen
    BY <1>1 DEF Reopen, OpenWriter, NoTx
  <2>5. ASSUME NEW s \in Tx, TxStep(s) PROVE store' = store
    <3>1. ASSUME Commit(s) PROVE store' = store
      <4>1. CASE NotPrepared(tx[s].changes) \/ NotPublished(tx[s].changes)
        BY <2>1, <3>1, <4>1, FailedBatch DEF Commit, Writing
      <4>2. writerActive'
        BY <1>1 DEF WriterAdmission
      <4> QED
        BY <3>1, <4>1, <4>2 DEF Commit
    <3>2. \/ \E readOnly \in BOOLEAN : Begin(s, readOnly)
          \/ \E c \in Changes : Buffer(s, c)
          \/ CommitReadOnly(s) \/ Commit(s) \/ Rollback(s)
      BY <1>1, <2>5, TxCases
    <3> QED
      BY <3>1, <3>2, Zenon DEF Begin, Buffer, CommitReadOnly, Rollback
  <2>6. CASE Next
    BY <2>3, <2>4, <2>5, <2>6 DEF Next, Close
  <2>7. CASE UNCHANGED vars
    BY <2>7 DEF vars
  <2> QED
    BY <1>1, <2>6, <2>7
<1>2. Init => TypeInv /\ WriterAdmission
  BY InitCorrect
<1>3. TypeInv /\ WriterAdmission /\ [Next]_vars => (TypeInv /\ WriterAdmission)'
  BY TypeStep, AdmissionStep
<1>4. TypeInv /\ WriterAdmission /\ WriterAdmission' /\ [Next]_vars =>
        [(\E t \in Tx : OpenWriter(t) /\ OpenWriter(t)') => store' = store]_vars
  BY <1>1
<1> QED
  BY <1>2, <1>3, <1>4, PTL DEF Spec, WriterIsolation

\* Rows and index entries agree after any sequence of direct operations,
\* transactions, index creations, failed commits and reopenings, and
\* FindByIndex returns exactly the rows with the value asked for.
THEOREM IndexCorrect ==
    ASSUME ReopenAfterFailure
    PROVE Spec => [](IndexConsistent /\ FindByIndexExact)
<1> DEFINE Inv == TypeInv /\ WriterAdmission /\ IndexInv
<1>1. Init => Inv
  BY InitCorrect
<1>2. Inv /\ [Next]_vars => Inv'
  <2> SUFFICES ASSUME Inv, [Next]_vars PROVE Inv'
    OBVIOUS
  <2>1. TypeInv' /\ WriterAdmission'
    BY TypeStep, AdmissionStep
  <2> QED
    BY <2>1, IndexStep
<1>3. Inv => IndexConsistent /\ FindByIndexExact
  BY FindExact DEF IndexInv, Sound, IndexConsistent, FindByIndexExact
<1> QED
  BY <1>1, <1>2, <1>3, PTL DEF Spec

\* The types of the model: the maps, the flags, and the transactions with their
\* buffered changes.
THEOREM DatabaseTypes == Spec => []TypeOK
BY AdmissionCorrect, PTL

\* FindByIndex returns exactly the rows with the value at every moment, in the
\* middle of other transactions as well.
THEOREM FindCorrect ==
    ASSUME ReopenAfterFailure
    PROVE Spec => []FindByIndexExact
BY IndexCorrect, PTL
=============================================================================
