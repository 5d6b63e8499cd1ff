------------------------------- MODULE Table --------------------------------
(***************************************************************************)
(* The reads of db/table.go and db/index.go on the store of Database: the  *)
(* keys of one table as the byte strings of Records, next to the keys of   *)
(* other tables, and the range scans that tell them apart.                 *)
(***************************************************************************)
EXTENDS Database, Records

CONSTANTS
    Layouts,    \* what the members of Row, Val and Indexes stand for
    Schemas     \* schemas whose descriptors and rows are encoded and decoded

ASSUME SchemasAssumption ==
    Schemas \subseteq
        [name : Seq(0 .. 255),
         columns : Seq([name : STRING, type : {"int64", "string", "bytes", "bool"},
                        primaryKey : BOOLEAN, nullable : BOOLEAN])]

\* The values of columns: numbers of IntBytes bytes, byte strings, FALSE and
\* TRUE as a byte.
ColumnValues ==
    [type : {"int64"}, content : [1 .. 1 -> -SignBit .. SignBit - 1]]
    \cup [type : {"string", "bytes"}, content : Seq(0 .. 255)]
    \cup [type : {"bool"}, content : {<<0>>, <<1>>}]

\* The keys in the key space of a table.
KeyOfTable(table, bytes) ==
    \/ bytes = DescriptorBytes(table)
    \/ \E prefix \in {RowPrefix(table), IndexMetadataPrefix(table), <<48>> \o Escape(table)} :
          HasPrefix(bytes, prefix)

\* A layout: the name of the table, the names of its indexes, the primary key
\* of each member of Row, the type of the indexed column and the value of each
\* member of Val, and for the names of other tables the keys they have.
Layout(table, index, primary, type, column, others) ==
    [table |-> table, index |-> index, primary |-> primary, type |-> type,
     column |-> column, others |-> others]

ASSUME LayoutsAssumption ==
    /\ Row # {} /\ IsFiniteSet(Row)
    /\ \A L \in Layouts :
          /\ L.table \in Seq(0 .. 255)
          /\ L.index \in [Indexes -> Seq(0 .. 255)] /\ L.index["unique"] # L.index["plain"]
          /\ \E type \in {"int64", "string"} :
                \A p \in Row : L.primary[p] \in ColumnValues /\ L.primary[p].type = type
          /\ \A p, q \in Row : L.primary[p] = L.primary[q] => p = q
          /\ \A v \in Val :
                L.column[v] = Null \/ (L.column[v] \in ColumnValues /\ L.column[v].type = L.type)
          /\ \A v, w \in Val : L.column[v] = L.column[w] => v = w
          /\ \A table \in DOMAIN L.others :
                /\ table \in Seq(0 .. 255) \ {L.table}
                /\ \A bytes \in L.others[table] : bytes \in Seq(0 .. 255) /\ KeyOfTable(table, bytes)

Schema(L) ==
    [name |-> L.table,
     columns |-> <<Column("id", L.primary[CHOOSE p \in Row : TRUE].type, TRUE, FALSE),
                   Column("v", L.type, FALSE, TRUE)>>]

Primary(L) == Schema(L).columns[1]
Indexed(L) == Schema(L).columns[2]

PrimaryBytes(L, p) == EncodeValue(Primary(L), L.primary[p])

\* rowKey.
RowKeyBytes(L, value) == RowPrefix(L.table) \o EncodeValue(Primary(L), value)

\* The bytes each key of Database stands for.
KeyBytes(L, k) ==
    CASE k = DescriptorKey -> DescriptorBytes(L.table)
      [] \E i \in Indexes : k = MetadataKey(i) -> IndexMetadataBytes(L.table, L.index[k[2]])
      [] \E p \in Row : k = RowKey(p) -> RowKeyBytes(L, L.primary[k[2]])
      [] OTHER -> IndexEntryBytes(L.table, L.index[k[1]], k[1] = "unique", Indexed(L),
                                  L.column[k[2]],
                                  IF k[1] = "unique" THEN << >> ELSE PrimaryBytes(L, k[3]))

\* An item of the engine; value is 0 for the keys of other tables.
Item(bytes, value) == [key |-> bytes, value |-> value]

Items(L, m) ==
    {Item(KeyBytes(L, k), m[k]) : k \in {l \in Key \ {PlainKey} : m[l] # Absent}}
    \cup {Item(bytes, 0) : bytes \in UNION {L.others[table] : table \in DOMAIN L.others}}

\* rangeLocked: inclusive bounds.
RangeLocked(L, m, start, end) ==
    {item \in Items(L, m) : ~Before(item.key, start) /\ ~Before(end, item.key)}

\* Its items ascend, and the loops over them keep their order.
Ascending(items) ==
    LET below(item) == {other \in items : Before(other.key, item.key)}
    IN [i \in 1 .. Cardinality(items) |->
            CHOOSE item \in items : Cardinality(below(item)) = i - 1]

WithPrefix(items, prefix) == {item \in items : HasPrefix(item.key, prefix)}

Suffix(bytes, prefix) == SubSeq(bytes, Len(prefix) + 1, Len(bytes))

\* The keys of this table from start to end.
Within(L, start, end) ==
    {k \in Key \ {PlainKey} : ~Before(KeyBytes(L, k), start) /\ ~Before(end, KeyBytes(L, k))}

\* Database.Range of these keys, as a function of the key; its items are sorted.
DatabaseRange(within, m) == [k \in {l \in within : m[l] # Absent} |-> m[k]]

\* Mutant: a buffered deletion does not hide the committed item.
TxRangeWithDeleted(within, t) ==
    LET items == DatabaseRange(within, store)
        set == {k \in within : tx[t].changes[k] \notin {Keep, Absent}}
    IN [k \in DOMAIN items \cup set |-> IF k \in set THEN tx[t].changes[k] ELSE items[k]]

\* Tx.Range: the committed items, then the buffered changes within the bounds.
TxRange(within, t) ==
    LET items == DatabaseRange(within, store)
        changed == {k \in within : tx[t].changes[k] # Keep}
        deleted == {k \in changed : tx[t].changes[k] = Absent}
    IN [k \in (DOMAIN items \cup changed) \ deleted |->
            IF k \in changed THEN tx[t].changes[k] ELSE items[k]]

-----------------------------------------------------------------------------
(* Reads.                                                                  *)

\* tableRowsLocked.
TableRows(L, m) ==
    WithPrefix(RangeLocked(L, m, RowPrefix(L.table), PrefixEnd(RowPrefix(L.table))),
               RowPrefix(L.table))

\* decodeRows; a value that is no row of this table is an error.
DecodeRows(L, items) ==
    LET rows == Ascending(WithPrefix(items, RowPrefix(L.table)))
    IN [i \in DOMAIN rows |->
        [id |-> DecodePrimaryKey(Primary(L), Suffix(rows[i].key, RowPrefix(L.table))),
         v |-> IF rows[i].value \in Val THEN L.column[rows[i].value]
               ELSE Value("error", << >>)]]

Scan(L, m) == DecodeRows(L, TableRows(L, m))

\* Table.Range.
TableRange(L, m, start, end) ==
    IF Before(RowKeyBytes(L, end), RowKeyBytes(L, start)) THEN << >>
    ELSE DecodeRows(L, RangeLocked(L, m, RowKeyBytes(L, start), RowKeyBytes(L, end)))

\* Table.Get: the row found, as a sequence of at most one.
TableGet(L, m, primaryKey) ==
    DecodeRows(L, {item \in Items(L, m) : item.key = RowKeyBytes(L, primaryKey)})

\* loadIndexesLocked: the names of the definitions found.
LoadIndexes(L, m) ==
    LET start == IndexMetadataPrefix(L.table)
        found == WithPrefix(RangeLocked(L, m, start, PrefixEnd(start)), start)
    IN {DecodeEscapedComponent(Suffix(item.key, start)) : item \in found}

\* FindByIndex: the primary keys its entries lead to, in the order found.
FindEntries(L, m, i, v) ==
    LET prefix == IndexValuePrefix(L.table, L.index[i], Indexed(L), L.column[v])
        found == Ascending(WithPrefix(RangeLocked(L, m, prefix, PrefixEnd(prefix)), prefix))
    IN [n \in DOMAIN found |->
            IF i = "unique"
            THEN IF found[n].key = prefix THEN PrimaryBytes(L, found[n].value) ELSE Invalid
            ELSE Suffix(found[n].key, prefix)]

-----------------------------------------------------------------------------
(* Properties.                                                             *)

\* The order of values of one type: numbers, or bytes with FALSE before TRUE.
ValueBefore(a, b) ==
    IF a.type = "int64" THEN a.content[1] < b.content[1] ELSE Before(a.content, b.content)

\* The row of a member of Row.
RowOf(L, m, p) == [id |-> L.primary[p], v |-> L.column[m[RowKey(p)]]]

\* Members of Row in primary-key order, and their rows.
InOrder(L, rows) ==
    LET below(p) == {q \in rows : ValueBefore(L.primary[q], L.primary[p])}
    IN [i \in 1 .. Cardinality(rows) |-> CHOOSE p \in rows : Cardinality(below(p)) = i - 1]

RowsOf(L, m, rows) ==
    LET order == InOrder(L, rows)
    IN [i \in DOMAIN order |-> RowOf(L, m, order[i])]

\* The rows of the table there are.
Present(m) == {p \in Row : m[RowKey(p)] # Absent}

\* No transaction is open: what is read is the store alone.
Quiet == tx = [t \in Tx |-> NoTx] /\ ~closed /\ ~uncertain

\* "All rows for one table are contiguous because they share that prefix.
\* Within the prefix, row order is primary-key order.  Different tables cannot
\* overlap" (table-layer.md): whatever tables lie around it, Scan and Range
\* return exactly this table's rows within the bounds, in primary-key order;
\* the indexes loaded are those defined; and the entries of one indexed value
\* lead to exactly the rows with that value.
TableReadsExact ==
    Quiet =>
        \A L \in Layouts :
            /\ Scan(L, store) = RowsOf(L, store, Present(store))
            /\ \A lower, upper \in Row :
                  TableRange(L, store, L.primary[lower], L.primary[upper]) =
                      RowsOf(L, store, {p \in Present(store) :
                                          /\ ~ValueBefore(L.primary[p], L.primary[lower])
                                          /\ ~ValueBefore(L.primary[upper], L.primary[p])})
            /\ LoadIndexes(L, store) = {L.index[i] : i \in DefinedIndexes(store)}
            /\ \A i \in DefinedIndexes(store), v \in Val :
                  LET expected == InOrder(L, {p \in Present(store) : store[RowKey(p)] = v})
                  IN FindEntries(L, store, i, v) =
                        [n \in DOMAIN expected |-> PrimaryBytes(L, expected[n])]

\* The ranges tried with Tx.Range, between the ends of the keys and the rows.
RangeBounds(L) == {<< >>, <<255>>} \cup {RowKeyBytes(L, L.primary[p]) : p \in Row}
Ranges ==
    UNION {{Within(L, start, end) : start, end \in RangeBounds(L)} : L \in Layouts}

\* Repeatable reads: what Tx.Range shows a transaction, its own changes over
\* the committed keys, is what Database.Range shows to everyone once Commit
\* has succeeded, whatever happened between the changes and the commit.
CommitPublishesRange ==
    [][\A t \in Tx : Commit(t) /\ tx'[t].state = "closed" =>
         \A within \in Ranges : DatabaseRange(within, store') = TxRange(within, t)]_vars

\* The values tried in the rows of Schemas.
Samples ==
    {Null, Value("int64", <<-1>>), Value("int64", <<0>>), Value("string", << >>),
     Value("string", <<0, 0>>), Value("bytes", <<0, 255>>), Value("bool", <<0>>)}

Rows(s) == UNION {[names -> Samples] : names \in SUBSET Names(s)}

\* What was written is what is read: a schema that CreateTable accepts while
\* there is no table is the schema OpenTable returns, and a row that encodeRow
\* accepts decodes to its own columns, with nil for the nullable ones it left
\* out.
RecordsInvert ==
    Quiet /\ ~TableExists(store) => \A s \in Schemas :
        ValidSchema(s) =>
            /\ DescriptorValid(EncodeDescriptor(s))
            /\ DecodeDescriptor(EncodeDescriptor(s)) = s
            /\ \A row \in Rows(s) :
                  RowValid(s, row) =>
                      /\ FieldsValid(s, EncodeRow(s, row))
                      /\ DecodeRow(s, RowBytes(s, row), EncodeRow(s, row)) =
                            [name \in Names(s) |-> Field(row, name)]

=============================================================================
