----------------------------- MODULE KeysProofs -----------------------------
(***************************************************************************)
(* Proofs about the bytes of Table's keys: what is read of a schema or a   *)
(* row is what was written; the keys of a layout are kept apart by their   *)
(* prefixes, so that a scan finds the table's keys of one kind and nothing *)
(* of other tables; and they have the order of the values they encode.     *)
(***************************************************************************)
EXTENDS Table, RecordsProofs

USE SMTT(20), ZenonT(20)

(* What is read is what was written.                                       *)

\* The schemas of the model are schemas.
LEMMA SchemasTyped == Schemas \subseteq SchemaSet
BY SchemasAssumption DEF SchemaSet, SchemaColumns, Bytes, Byte

\* The sample values are values of columns.
LEMMA SamplesTyped == Samples \subseteq Values
<1>1. -1 \in Int64 /\ 0 \in Int64
  BY SignBitType DEF Int64
<1>2. 0 \in Byte /\ 255 \in Byte
  BY DEF Byte
<1>3. << >> \in Bytes /\ <<0, 0>> \in Bytes /\ <<0, 255>> \in Bytes
  BY <1>2, ShortBytes
<1> QED
  BY <1>1, <1>3 DEF Samples, Values

\* Whatever the names and values, a schema that CreateTable accepts is the
\* schema OpenTable returns, and a row that encodeRow accepts is the row read.
THEOREM RecordsCorrect == Spec => []RecordsInvert
<1>1. RecordsInvert
  <2> SUFFICES ASSUME NEW s \in Schemas, ValidSchema(s)
               PROVE /\ DescriptorValid(EncodeDescriptor(s))
                     /\ DecodeDescriptor(EncodeDescriptor(s)) = s
                     /\ \A row \in Rows(s) :
                           RowValid(s, row) =>
                               /\ FieldsValid(s, EncodeRow(s, row))
                               /\ DecodeRow(s, RowBytes(s, row), EncodeRow(s, row)) =
                                     [name \in Names(s) |-> Field(row, name)]
    BY DEF RecordsInvert
  <2>1. s \in SchemaSet
    BY SchemasTyped
  <2>2. ASSUME NEW row \in Rows(s) PROVE row \in [DOMAIN row -> Values]
    BY <2>2, SamplesTyped DEF Rows
  <2> QED
    BY <2>1, <2>2, DescriptorInverts, RowInverts
<1> QED
  BY <1>1, PTL

-----------------------------------------------------------------------------
(* The keys of a layout.                                                   *)

\* The values of columns are values a caller can give.
LEMMA ColumnValuesTyped ==
    ASSUME NEW v \in ColumnValues
    PROVE /\ v \in Values /\ v # Null /\ v.type \in {"int64", "string", "bytes", "bool"}
          /\ v = Value(v.type, v.content)
<1>1. CASE v \in [type : {"int64"}, content : [1 .. 1 -> -SignBit .. SignBit - 1]]
  <2>1. v = Value("int64", v.content) /\ v.type = "int64"
    BY <1>1 DEF Value
  <2>2. v.content = <<v.content[1]>> /\ v.content[1] \in Int64
    BY <1>1 DEF Int64
  <2>3. v = Value("int64", <<v.content[1]>>)
    BY <2>1, <2>2
  <2>4. v \in Values
    BY <2>2, <2>3 DEF Values
  <2>5. v # Null
    BY <2>1 DEF Null, Value
  <2> QED
    BY <2>1, <2>4, <2>5
<1>2. CASE v \in [type : {"string", "bytes"}, content : Seq(0 .. 255)]
  <2>1. v = Value(v.type, v.content) /\ v.type \in {"string", "bytes"} /\ v.content \in Bytes
    BY <1>2 DEF Value, Bytes, Byte
  <2>2. v \in Values
    BY <2>1 DEF Values
  <2>3. v # Null
    BY <2>1 DEF Null, Value
  <2> QED
    BY <2>1, <2>2, <2>3
<1>3. CASE v \in [type : {"bool"}, content : {<<0>>, <<1>>}]
  <2>1. v = Value("bool", v.content) /\ v.type = "bool" /\ v.content \in {<<0>>, <<1>>}
    BY <1>3 DEF Value
  <2>2. v \in Values
    BY <2>1 DEF Values
  <2>3. v # Null
    BY <2>1 DEF Null, Value
  <2> QED
    BY <2>1, <2>2, <2>3
<1> QED
  BY <1>1, <1>2, <1>3 DEF ColumnValues

\* The values that are compared with primary keys.
KeyValues(L) == {v \in ColumnValues : v.type = Primary(L).type}

\* What the assumption says of the primary keys.
LEMMA LayoutPrimary ==
    ASSUME NEW L \in Layouts, NEW p \in Row
    PROVE /\ L.primary[p] \in KeyValues(L)
          /\ Primary(L).type \in {"int64", "string"}
          /\ Primary(L).primaryKey
<1>1. PICK type \in {"int64", "string"} :
            \A q \in Row : L.primary[q] \in ColumnValues /\ L.primary[q].type = type
  BY LayoutsAssumption
<1> DEFINE r == CHOOSE q \in Row : TRUE
<1>2. r \in Row
  OBVIOUS
<1> HIDE DEF r
<1>3. L.primary[r].type = type
  BY <1>1, <1>2
<1>4. Primary(L) = Column("id", type, TRUE, FALSE)
  <2>1. Schema(L).columns[1] = Column("id", L.primary[r].type, TRUE, FALSE)
    BY DEF Schema, r
  <2> QED
    BY <1>3, <2>1 DEF Primary
<1>5. Primary(L).primaryKey /\ Primary(L).type = type
  BY <1>4 DEF Column
<1> QED
  BY <1>1, <1>5 DEF KeyValues

\* The bytes of a value of a primary key decode to it.
LEMMA KeyCode ==
    ASSUME NEW L \in Layouts, NEW v \in KeyValues(L)
    PROVE /\ EncodeValue(Primary(L), v) \in Bytes
          /\ DecodePrimaryKey(Primary(L), EncodeValue(Primary(L), v)) = v
          /\ \/ /\ v.type = "int64"
                /\ \E x \in Int64 : v.content[1] = x /\ EncodeValue(Primary(L), v) = BigEndian(x)
             \/ v.type = "string" /\ EncodeValue(Primary(L), v) = v.content
<1> DEFINE c == Primary(L)
           e == EncodeValue(c, v)
<1>1. v \in Values /\ v # Null /\ v.type = c.type /\ c.type \in {"int64", "string"} /\ c.primaryKey
  BY ColumnValuesTyped, LayoutPrimary, LayoutsAssumption DEF KeyValues
<1> HIDE DEF c
<1>2. ASSUME NEW x \in Int64, v = Value("int64", <<x>>)
      PROVE v.type = "int64" /\ v.content[1] = x /\ e = BigEndian(x) /\ e \in Bytes
  <2>1. v.type = "int64" /\ v.content[1] = x
    BY <1>2 DEF Value
  <2>2. e = BigEndian(x)
    BY <1>1, <2>1 DEF EncodeValue
  <2> QED
    BY <2>1, <2>2, BigEndianInvertible
<1>3. ASSUME v.type = "string", v.content \in Bytes
      PROVE e = v.content /\ e \in Bytes
  BY <1>1, <1>3 DEF EncodeValue
<1>4. \/ v.type = "int64" /\ \E x \in Int64 : v.content[1] = x /\ e = BigEndian(x) /\ e \in Bytes
      \/ v.type = "string" /\ e = v.content /\ e \in Bytes
  BY <1>1, <1>2, <1>3, ValueCases, Zenon
<1> HIDE DEF e
<1>5. e \in Bytes
  BY <1>4
<1>6. e # Invalid
  BY <1>5, InvalidApart
<1>7. DecodePrimaryKey(c, e) = v
  BY <1>1, <1>6, KeyInverts DEF e
<1> QED
  BY <1>4, <1>5, <1>7 DEF c, e

\* They are ordered as the values.
LEMMA KeyValueOrder ==
    ASSUME NEW L \in Layouts, NEW v \in KeyValues(L), NEW w \in KeyValues(L)
    PROVE Before(EncodeValue(Primary(L), v), EncodeValue(Primary(L), w)) <=> ValueBefore(v, w)
<1> DEFINE d == EncodeValue(Primary(L), v)
           e == EncodeValue(Primary(L), w)
<1>1. v.type = w.type
  BY DEF KeyValues
<1>2. \/ v.type = "int64" /\ \E x \in Int64 : v.content[1] = x /\ d = BigEndian(x)
      \/ v.type = "string" /\ d = v.content
  BY KeyCode
<1>3. \/ w.type = "int64" /\ \E x \in Int64 : w.content[1] = x /\ e = BigEndian(x)
      \/ w.type = "string" /\ e = w.content
  BY KeyCode
<1> HIDE DEF d, e
<1>4. CASE v.type = "int64"
  <2>1. PICK x \in Int64 : v.content[1] = x /\ d = BigEndian(x)
    BY <1>2, <1>4
  <2>2. PICK y \in Int64 : w.content[1] = y /\ e = BigEndian(y)
    BY <1>1, <1>3, <1>4
  <2>3. Before(d, e) <=> x < y
    BY <2>1, <2>2, BigEndianOrder
  <2> QED
    BY <1>4, <2>1, <2>2, <2>3 DEF ValueBefore, d, e
<1>5. CASE v.type = "string"
  <2>1. d = v.content /\ e = w.content
    BY <1>1, <1>2, <1>3, <1>5
  <2> QED
    BY <1>5, <2>1 DEF ValueBefore, d, e
<1> QED
  BY <1>2, <1>4, <1>5

\* The bytes of a row's primary key.
LEMMA PrimaryCode ==
    ASSUME NEW L \in Layouts, NEW p \in Row
    PROVE /\ PrimaryBytes(L, p) \in Bytes
          /\ DecodePrimaryKey(Primary(L), PrimaryBytes(L, p)) = L.primary[p]
BY LayoutPrimary, KeyCode DEF PrimaryBytes

\* The order of primary keys is the order of their bytes.
LEMMA PrimaryOrder ==
    ASSUME NEW L \in Layouts, NEW p \in Row, NEW q \in Row
    PROVE Before(PrimaryBytes(L, p), PrimaryBytes(L, q)) <=> ValueBefore(L.primary[p], L.primary[q])
BY LayoutPrimary, KeyValueOrder DEF PrimaryBytes

\* Different rows have different primary keys.
LEMMA PrimaryApart ==
    ASSUME NEW L \in Layouts, NEW p \in Row, NEW q \in Row, PrimaryBytes(L, p) = PrimaryBytes(L, q)
    PROVE p = q
<1>1. L.primary[p] = L.primary[q]
  BY PrimaryCode
<1> QED
  BY <1>1, LayoutsAssumption

\* Strings that begin with strings of one length.
LEMMA CatApart ==
    ASSUME NEW a \in Bytes, NEW b \in Bytes, Len(a) = Len(b), NEW x \in Bytes, NEW y \in Bytes,
           Cat(a, x) = Cat(b, y)
    PROVE a = b /\ x = y
<1>1. /\ \A i \in 1 .. Len(a) : Cat(a, x)[i] = a[i]
      /\ \A i \in 1 .. Len(b) : Cat(b, y)[i] = b[i]
  BY BytesCat, Zenon
<1>2. a = b
  BY <1>1, BytesEqual
<1> QED
  BY <1>2, CancelFront

\* The indexed column, and what indexValuePrefix encodes.
LEMMA IndexedColumn ==
    ASSUME NEW L
    PROVE /\ Indexed(L) = Column("v", L.type, FALSE, TRUE)
          /\ [Indexed(L) EXCEPT !.primaryKey = FALSE] = Indexed(L)
          /\ Indexed(L).type = L.type /\ Indexed(L).primaryKey = FALSE /\ Indexed(L).nullable = TRUE
<1> DEFINE c == Indexed(L)
<1>1. c = Column("v", L.type, FALSE, TRUE)
  BY DEF Indexed, Schema
<1> HIDE DEF c
<1>2. c.type = L.type /\ c.primaryKey = FALSE /\ c.nullable = TRUE
  BY <1>1, Zenon DEF Column
<1>3. [c EXCEPT !.primaryKey = FALSE] = c
  <2>1. c = [x \in DOMAIN c |-> c[x]]
    BY <1>1 DEF Column
  <2> QED
    BY <1>2, <2>1
<1> QED
  BY <1>1, <1>2, <1>3, Zenon DEF c

ColumnBytes(L, v) == EncodeValue(Indexed(L), L.column[v])

\* An indexed value is encoded as a byte for its type and its content.
LEMMA ColumnCode ==
    ASSUME NEW L \in Layouts, NEW v \in Val
    PROVE /\ ColumnBytes(L, v) \in Bytes
          /\ \/ L.column[v] = Null /\ ColumnBytes(L, v) = <<0>>
             \/ /\ L.type = "int64"
                /\ \E x \in Int64 : /\ L.column[v] = Value("int64", <<x>>)
                                    /\ ColumnBytes(L, v) = Cat(<<1>>, BigEndian(x))
             \/ /\ L.type \in {"string", "bytes"}
                /\ \E s \in Bytes : /\ L.column[v] = Value(L.type, s)
                                    /\ ColumnBytes(L, v) = Cat(<<TypeCode(L.type)>>, Escape(s))
             \/ /\ L.type = "bool"
                /\ \E s \in {<<0>>, <<1>>} : /\ L.column[v] = Value("bool", s)
                                             /\ ColumnBytes(L, v) = Cat(<<4>>, s)
<1> DEFINE c == Indexed(L)
           w == L.column[v]
           e == EncodeValue(c, w)
<1>1. w = Null \/ (w \in ColumnValues /\ w.type = L.type)
  BY LayoutsAssumption
<1>2. c.type = L.type /\ c.primaryKey = FALSE /\ c.nullable = TRUE
  BY IndexedColumn, Zenon
<1> HIDE DEF c, w
<1>3. 0 \in Byte /\ 1 \in Byte /\ 2 \in Byte /\ 3 \in Byte /\ 4 \in Byte
  BY DEF Byte
<1>4. CASE w = Null
  <2>1. e = <<0>>
    BY <1>2, <1>4 DEF EncodeValue
  <2>2. <<0>> \in Bytes
    BY <1>3, ShortBytes
  <2> QED
    BY <1>4, <2>1, <2>2 DEF ColumnBytes, c, w
<1>5. ASSUME NEW x \in Int64, w = Value("int64", <<x>>), w # Null, w.type = L.type
      PROVE L.type = "int64" /\ e = Cat(<<1>>, BigEndian(x)) /\ e \in Bytes
  <2>1. w.type = "int64" /\ w.content[1] = x
    BY <1>5 DEF Value
  <2>2. e = Cat(<<TypeCode("int64")>>, BigEndian(x))
    BY <1>2, <1>5, <2>1 DEF EncodeValue, Cat
  <2>3. BigEndian(x) \in Bytes
    BY BigEndianInvertible
  <2> HIDE DEF e
  <2> QED
    BY <1>3, <1>5, <2>1, <2>2, <2>3, TypeCodes, TagBody
<1>6. ASSUME w # Null, w.type = L.type, w.type \in {"string", "bytes"}, w.content \in Bytes
      PROVE e = Cat(<<TypeCode(L.type)>>, Escape(w.content)) /\ e \in Bytes
  <2>1. e = Cat(<<TypeCode(L.type)>>, Escape(w.content))
    BY <1>2, <1>6 DEF EncodeValue, Cat
  <2> DEFINE s == w.content
             t == TypeCode(L.type)
  <2>2. s \in Bytes /\ t \in Byte
    BY <1>3, <1>6, TypeCodes
  <2> HIDE DEF s, t, e
  <2>3. Cat(<<t>>, Escape(s)) \in Bytes
    BY <2>2, EscapeBytes, TagBody
  <2> QED
    BY <2>1, <2>3 DEF s, t
<1>7. ASSUME w # Null, w.type = L.type, w.type = "bool", w.content \in {<< 0 >>, << 1 >>}
      PROVE e = Cat(<<4>>, w.content) /\ e \in Bytes
  <2>1. e = Cat(<<TypeCode("bool")>>, w.content)
    BY <1>2, <1>7 DEF EncodeValue, Cat
  <2>2. w.content \in Bytes
    BY <1>3, <1>7, ShortBytes
  <2> HIDE DEF e
  <2> QED
    BY <1>3, <2>1, <2>2, TypeCodes, TagBody
<1>8. CASE w # Null
  <2>1. w \in Values /\ w.type = L.type
    BY <1>1, <1>8, ColumnValuesTyped
  <2> HIDE DEF e
  <2>2. CASE w.type = "int64"
    <3>1. PICK x \in Int64 : w = Value("int64", <<x>>)
      BY <1>8, <2>1, <2>2, ValueCases
    <3> QED
      BY <1>5, <1>8, <2>1, <3>1 DEF ColumnBytes, c, w, e
  <2>3. CASE w.type \in {"string", "bytes"}
    <3>1. w.content \in Bytes /\ w = Value(L.type, w.content)
      BY <1>8, <2>1, <2>3, ValueCases
    <3> QED
      BY <1>6, <1>8, <2>1, <2>3, <3>1 DEF ColumnBytes, c, w, e
  <2>4. CASE w.type = "bool"
    <3>1. w.content \in {<<0>>, <<1>>} /\ w = Value("bool", w.content)
      BY <1>8, <2>1, <2>4, ValueCases
    <3> QED
      BY <1>7, <1>8, <2>1, <2>4, <3>1 DEF ColumnBytes, c, w, e
  <2> QED
    BY <1>8, <2>1, <2>2, <2>3, <2>4, ValueCases
<1> QED
  BY <1>4, <1>8

\* Strings that begin with different tags differ.
LEMMA TagsApart ==
    ASSUME NEW t \in Byte, NEW u \in Byte, NEW x \in Bytes, NEW y \in Bytes,
           Cat(<<t>>, x) = Cat(<<u>>, y)
    PROVE t = u /\ x = y
<1>1. Cat(<<t>>, x)[1] = t /\ Tail(Cat(<<t>>, x)) = x
  BY TagBody
<1>2. Cat(<<u>>, y)[1] = u /\ Tail(Cat(<<u>>, y)) = y
  BY TagBody
<1> QED
  BY <1>1, <1>2, Zenon

\* Whatever follows, the bytes of an indexed value tell the value.
LEMMA ColumnApart ==
    ASSUME NEW L \in Layouts, NEW v \in Val, NEW w \in Val, NEW x \in Bytes, NEW y \in Bytes,
           Cat(ColumnBytes(L, v), x) = Cat(ColumnBytes(L, w), y)
    PROVE v = w /\ x = y
<1> DEFINE d == ColumnBytes(L, v)
           e == ColumnBytes(L, w)
           type == L.type
           t == TypeCode(type)
           z == <<0>>
           o == <<t>>
<1>1. 0 \in Byte /\ 1 \in Byte /\ 2 \in Byte /\ 3 \in Byte /\ 4 \in Byte
  BY DEF Byte
<1>2. ASSUME NEW u \in Val
      PROVE \/ L.column[u] = Null /\ ColumnBytes(L, u) = z
            \/ /\ type \in {"int64", "string", "bytes", "bool"} /\ t \in Byte /\ t # 0
               /\ \E b \in Bytes :
                     /\ ColumnBytes(L, u) = Cat(o, b)
                     /\ \/ type = "int64" /\ \E n \in Int64 : L.column[u] = Value("int64", <<n>>) /\ b = BigEndian(n)
                        \/ type \in {"string", "bytes"} /\ \E s \in Bytes : L.column[u] = Value(type, s) /\ b = Escape(s)
                        \/ type = "bool" /\ L.column[u] = Value("bool", b) /\ b \in {<<0>>, <<1>>}
  <2>1. CASE type = "int64" /\ \E n \in Int64 : /\ L.column[u] = Value("int64", <<n>>)
                                                /\ ColumnBytes(L, u) = Cat(<<1>>, BigEndian(n))
    BY <1>1, <2>1, TypeCodes, BigEndianInvertible
  <2>2. CASE /\ type \in {"string", "bytes"}
             /\ \E s \in Bytes : /\ L.column[u] = Value(type, s)
                                 /\ ColumnBytes(L, u) = Cat(<<TypeCode(type)>>, Escape(s))
    BY <1>1, <2>2, TypeCodes, EscapeBytes
  <2>3. CASE type = "bool" /\ \E s \in {<<0>>, <<1>>} : /\ L.column[u] = Value("bool", s)
                                                        /\ ColumnBytes(L, u) = Cat(<<4>>, s)
    BY <1>1, <2>3, TypeCodes, ShortBytes
  <2> QED
    BY <2>1, <2>2, <2>3, ColumnCode, Zenon
<1>3. z \in Bytes /\ (t \in Byte => o \in Bytes)
  BY <1>1, ShortBytes
<1>4. d \in Bytes /\ e \in Bytes /\ Cat(d, x) = Cat(e, y)
  BY ColumnCode, Zenon
<1>5. L.column[v] = L.column[w] => v = w
  BY LayoutsAssumption
<1> DEFINE IsNull(u) == L.column[u] = Null /\ ColumnBytes(L, u) = z
           Is(u, b) ==
              /\ ColumnBytes(L, u) = Cat(o, b)
              /\ \/ type = "int64" /\ \E n \in Int64 : L.column[u] = Value("int64", <<n>>) /\ b = BigEndian(n)
                 \/ type \in {"string", "bytes"} /\ \E s \in Bytes : L.column[u] = Value(type, s) /\ b = Escape(s)
                 \/ type = "bool" /\ L.column[u] = Value("bool", b) /\ b \in {<<0>>, <<1>>}
<1> HIDE DEF d, e, t
<1>6. ASSUME NEW u \in Val, NEW a \in Bytes, NEW b \in Bytes, ColumnBytes(L, u) = Cat(o, b), t \in Byte
      PROVE Cat(ColumnBytes(L, u), a) = Cat(o, Cat(b, a)) /\ Cat(b, a) \in Bytes
  BY <1>3, <1>6, CatAssociative, BytesCat
<1>7. CASE IsNull(v) /\ IsNull(w)
  <2>1. Cat(<<0>>, x) = Cat(<<0>>, y)
    BY <1>4, <1>7 DEF d, e
  <2> QED
    BY <1>1, <1>5, <1>7, <2>1, TagsApart
<1>8. ASSUME NEW b \in Bytes, t \in Byte, t # 0, IsNull(v), Is(w, b) PROVE FALSE
  <2>1. Cat(<<0>>, x) = Cat(<<t>>, Cat(b, y)) /\ Cat(b, y) \in Bytes
    BY <1>4, <1>6, <1>8 DEF d, e
  <2> QED
    BY <1>1, <1>8, <2>1, TagsApart
<1>9. ASSUME NEW b \in Bytes, t \in Byte, t # 0, IsNull(w), Is(v, b) PROVE FALSE
  <2>1. Cat(<<0>>, y) = Cat(<<t>>, Cat(b, x)) /\ Cat(b, x) \in Bytes
    BY <1>4, <1>6, <1>9 DEF d, e
  <2> QED
    BY <1>1, <1>9, <2>1, TagsApart
<1>10. ASSUME NEW a \in Bytes, NEW b \in Bytes, t \in Byte, Is(v, a), Is(w, b)
       PROVE v = w /\ x = y
  <2>1. Cat(<<t>>, Cat(a, x)) = Cat(<<t>>, Cat(b, y)) /\ Cat(a, x) \in Bytes /\ Cat(b, y) \in Bytes
    BY <1>4, <1>6, <1>10 DEF d, e
  <2>2. Cat(a, x) = Cat(b, y)
    BY <1>10, <2>1, TagsApart
  <2>3. CASE type = "int64"
    <3>1. PICK m \in Int64 : L.column[v] = Value("int64", <<m>>) /\ a = BigEndian(m)
      BY <1>10, <2>3
    <3>2. PICK n \in Int64 : L.column[w] = Value("int64", <<n>>) /\ b = BigEndian(n)
      BY <1>10, <2>3
    <3>3. Len(a) = Len(b) /\ FromBigEndian(a) = m /\ FromBigEndian(b) = n
      BY <3>1, <3>2, BigEndianInvertible
    <3>4. a = b /\ x = y
      BY <2>2, <3>3, CatApart
    <3> QED
      BY <1>5, <3>1, <3>2, <3>3, <3>4
  <2>4. CASE type \in {"string", "bytes"}
    <3>1. PICK m \in Bytes : L.column[v] = Value(type, m) /\ a = Escape(m)
      BY <1>10, <2>4
    <3>2. PICK n \in Bytes : L.column[w] = Value(type, n) /\ b = Escape(n)
      BY <1>10, <2>4
    <3>3. Cat(Escape(m), x) = Cat(Escape(n), y)
      BY <2>2, <3>1, <3>2
    <3>4. m = n /\ x = y
      BY <3>3, EscapeApart
    <3> QED
      BY <1>5, <3>1, <3>2, <3>4
  <2>5. CASE type = "bool"
    <3>1. L.column[v] = Value("bool", a) /\ L.column[w] = Value("bool", b) /\ Len(a) = Len(b)
      BY <1>10, <2>5
    <3>2. a = b /\ x = y
      BY <2>2, <3>1, CatApart
    <3> QED
      BY <1>5, <3>1, <3>2
  <2> QED
    BY <1>10, <2>3, <2>4, <2>5
<1>11. ASSUME NEW u \in Val
       PROVE IsNull(u) \/ (t \in Byte /\ t # 0 /\ \E b \in Bytes : Is(u, b))
  BY <1>2
<1> HIDE DEF IsNull, Is
<1> QED
  BY <1>7, <1>8, <1>9, <1>10, <1>11

\* A key begins with a tag and the name of a table.
Starts(s, t, name) == \E x \in Bytes : s = Cat(Cat(<<t>>, Escape(name)), x)

\* It begins with one tag and one name.
LEMMA StartsApart ==
    ASSUME NEW s, NEW t \in Byte, NEW u \in Byte, NEW a \in Bytes, NEW b \in Bytes,
           Starts(s, t, a), Starts(s, u, b)
    PROVE t = u /\ a = b
<1> DEFINE n == Escape(a)
           m == Escape(b)
<1>1. n \in Bytes /\ m \in Bytes /\ <<t>> \in Bytes /\ <<u>> \in Bytes
  BY EscapeBytes, ShortBytes
<1>2. PICK x \in Bytes : s = Cat(Cat(<<t>>, n), x)
  BY Zenon DEF Starts
<1>3. PICK y \in Bytes : s = Cat(Cat(<<u>>, m), y)
  BY DEF Starts
<1> HIDE DEF n, m
<1> DEFINE X == Cat(n, x)
           Y == Cat(m, y)
<1>4. s = Cat(<<t>>, X) /\ s = Cat(<<u>>, Y)
  <2>1. \A o \in Bytes : Cat(Cat(o, n), x) = Cat(o, X) /\ Cat(Cat(o, m), y) = Cat(o, Y)
    BY <1>1, CatAssociative
  <2> QED
    BY <1>1, <1>2, <1>3, <2>1, Zenon
<1>5. X \in Bytes /\ Y \in Bytes
  BY <1>1, BytesCat
<1> HIDE DEF X, Y
<1>6. t = u /\ X = Y
  <2>1. Cat(<<t>>, X) = Cat(<<u>>, Y)
    BY <1>4
  <2> QED
    BY <1>5, <2>1, TagsApart
<1> QED
  BY <1>6, EscapeApart DEF n, m, X, Y

\* So does a string that has the key as a prefix.
LEMMA StartsPrefix ==
    ASSUME NEW s \in Bytes, NEW p \in Bytes, NEW t \in Byte, NEW a \in Bytes,
           HasPrefix(s, p), Starts(p, t, a)
    PROVE Starts(s, t, a)
<1> DEFINE q == Cat(<<t>>, Escape(a))
<1>1. q \in Bytes
  BY EscapeBytes, ShortBytes, BytesCat
<1>2. PICK x \in Bytes : p = Cat(q, x)
  BY DEF Starts
<1>3. PICK y \in Bytes : s = Cat(p, y)
  BY PrefixRest
<1> HIDE DEF q
<1>4. s = Cat(q, Cat(x, y)) /\ Cat(x, y) \in Bytes
  BY <1>1, <1>2, <1>3, CatAssociative, BytesCat
<1> QED
  BY <1>4 DEF Starts, q

\* A string has itself with anything after it as an extension.
LEMMA CatPrefix ==
    ASSUME NEW p \in Bytes, NEW x \in Bytes
    PROVE HasPrefix(Cat(p, x), p)
<1>1. Cat(p, x) \in Bytes /\ Len(Cat(p, x)) = Len(p) + Len(x) /\ \A i \in 1 .. Len(p) : Cat(p, x)[i] = p[i]
  BY BytesCat
<1>2. Len(p) \in Nat /\ Len(x) \in Nat
  BY BytesType
<1>3. Len(p) <= Len(Cat(p, x))
  BY <1>1, <1>2
<1> QED
  BY <1>1, <1>3, PrefixBytes

\* What the assumption says of the names.
LEMMA LayoutNames ==
    ASSUME NEW L \in Layouts
    PROVE /\ L.table \in Bytes
          /\ \A i \in Indexes : L.index[i] \in Bytes
          /\ \A i, j \in Indexes : L.index[i] = L.index[j] => i = j
<1>1. L.table \in Bytes
  BY LayoutsAssumption DEF Bytes, Byte
<1>2. L.index \in [Indexes -> Bytes] /\ L.index["unique"] # L.index["plain"]
  BY LayoutsAssumption DEF Bytes, Byte
<1> QED
  BY <1>1, <1>2 DEF Indexes

ValuePrefix(L, i, v) == IndexValuePrefix(L.table, L.index[i], Indexed(L), L.column[v])

EntrySuffix(L, i, p) == IF i = "unique" THEN << >> ELSE PrimaryBytes(L, p)

\* The prefixes that are scanned begin with the tag of a kind of keys.
LEMMA ScanPrefixes ==
    ASSUME NEW L \in Layouts
    PROVE /\ RowPrefix(L.table) \in Bytes /\ Starts(RowPrefix(L.table), 32, L.table)
          /\ IndexMetadataPrefix(L.table) \in Bytes /\ Starts(IndexMetadataPrefix(L.table), 17, L.table)
          /\ \A i \in Indexes, v \in Val :
                /\ ValuePrefix(L, i, v) \in Bytes /\ Starts(ValuePrefix(L, i, v), 48, L.table)
                /\ ValuePrefix(L, i, v) =
                      Cat(Cat(<<48>>, Escape(L.table)), Cat(Escape(L.index[i]), ColumnBytes(L, v)))
<1> DEFINE n == Escape(L.table)
<1>1. 16 \in Byte /\ 17 \in Byte /\ 32 \in Byte /\ 48 \in Byte
  BY DEF Byte
<1>2. n \in Bytes
  BY LayoutNames, EscapeBytes
<1>3. ASSUME NEW t \in Byte
      PROVE Cat(<<t>>, n) \in Bytes /\ Starts(Cat(<<t>>, n), t, L.table)
  <2>1. Cat(<<t>>, n) \in Bytes /\ << >> \in Bytes
    BY <1>2, ShortBytes, BytesCat
  <2> DEFINE s == Cat(<<t>>, n)
  <2>2. Cat(s, << >>) = s
    BY <2>1 DEF Bytes, Cat
  <2> QED
    BY <2>1, <2>2 DEF Starts
<1>4. RowPrefix(L.table) = Cat(<<32>>, n) /\ IndexMetadataPrefix(L.table) = Cat(<<17>>, n)
  BY DEF RowPrefix, IndexMetadataPrefix, Cat
<1>5. ASSUME NEW i \in Indexes, NEW v \in Val
      PROVE /\ ValuePrefix(L, i, v) \in Bytes /\ Starts(ValuePrefix(L, i, v), 48, L.table)
            /\ ValuePrefix(L, i, v) = Cat(Cat(<<48>>, n), Cat(Escape(L.index[i]), ColumnBytes(L, v)))
  <2> DEFINE q == Cat(<<48>>, n)
             x == Escape(L.index[i])
             y == ColumnBytes(L, v)
  <2>1. q \in Bytes
    BY <1>1, <1>3
  <2>2. x \in Bytes /\ y \in Bytes
    BY LayoutNames, EscapeBytes, ColumnCode, Zenon
  <2>3. ValuePrefix(L, i, v) = Cat(Cat(q, x), y)
    BY IndexedColumn, Zenon DEF ValuePrefix, IndexValuePrefix, IndexEntryPrefix, ColumnBytes, Cat
  <2> HIDE DEF q, x, y
  <2>4. ValuePrefix(L, i, v) = Cat(q, Cat(x, y)) /\ Cat(x, y) \in Bytes
    BY <2>1, <2>2, <2>3, CatAssociative, BytesCat
  <2>5. Cat(q, Cat(x, y)) \in Bytes
    BY <2>1, <2>4, BytesCat
  <2> QED
    BY <2>4, <2>5 DEF Starts, q, x, y
<1> QED
  BY <1>1, <1>3, <1>4, <1>5

TableKeys == Key \ {PlainKey}

\* The four kinds of keys of a table.
LEMMA KeyKinds ==
    ASSUME NEW k
    PROVE k \in TableKeys <=>
            \/ k = DescriptorKey
            \/ \E i \in Indexes : k = MetadataKey(i)
            \/ \E p \in Row : k = RowKey(p)
            \/ \E i \in Indexes, v \in Val, p \in Row : k = EntryKey(i, v, p)
<1>1. DescriptorKey # PlainKey
  BY DEF DescriptorKey, PlainKey
<1>2. /\ \A i : PlainKey # MetadataKey(i)
      /\ \A p : PlainKey # RowKey(p)
      /\ \A i \in Indexes : \A v, p : PlainKey # EntryKey(i, v, p)
  BY DEF PlainKey, MetadataKey, RowKey, EntryKey, Indexes
<1> QED
  BY <1>1, <1>2 DEF TableKeys, Key

\* What follows the prefix of an entry is a byte string.
LEMMA EntrySuffixBytes ==
    ASSUME NEW L \in Layouts, NEW i, NEW p \in Row
    PROVE EntrySuffix(L, i, p) \in Bytes
BY PrimaryCode, ShortBytes DEF EntrySuffix

\* The bytes of the keys.
LEMMA KeyForms ==
    ASSUME NEW L \in Layouts
    PROVE /\ KeyBytes(L, DescriptorKey) = Cat(<<16>>, Escape(L.table))
          /\ \A i \in Indexes :
                KeyBytes(L, MetadataKey(i)) = Cat(IndexMetadataPrefix(L.table), Escape(L.index[i]))
          /\ \A p \in Row : KeyBytes(L, RowKey(p)) = Cat(RowPrefix(L.table), PrimaryBytes(L, p))
          /\ \A i \in Indexes, v \in Val, p \in Row :
                KeyBytes(L, EntryKey(i, v, p)) = Cat(ValuePrefix(L, i, v), EntrySuffix(L, i, p))
<1>1. KeyBytes(L, DescriptorKey) = Cat(<<16>>, Escape(L.table))
  <2>1. (\A i : DescriptorKey # MetadataKey(i)) /\ \A p : DescriptorKey # RowKey(p)
    BY DEF DescriptorKey, MetadataKey, RowKey
  <2> QED
    BY <2>1 DEF KeyBytes, DescriptorBytes, Cat
<1>2. ASSUME NEW i \in Indexes
      PROVE KeyBytes(L, MetadataKey(i)) = Cat(IndexMetadataPrefix(L.table), Escape(L.index[i]))
  <2> DEFINE k == MetadataKey(i)
  <2>1. k # DescriptorKey /\ (\A p : k # RowKey(p)) /\ k[2] = i
    BY DEF MetadataKey, DescriptorKey, RowKey
  <2>2. KeyBytes(L, k) = IndexMetadataBytes(L.table, L.index[k[2]])
    BY <2>1 DEF KeyBytes
  <2> QED
    BY <2>1, <2>2 DEF IndexMetadataBytes, Cat
<1>3. ASSUME NEW p \in Row
      PROVE KeyBytes(L, RowKey(p)) = Cat(RowPrefix(L.table), PrimaryBytes(L, p))
  <2> DEFINE k == RowKey(p)
  <2>1. k # DescriptorKey /\ (\A i : k # MetadataKey(i)) /\ k[2] = p
    BY DEF MetadataKey, DescriptorKey, RowKey
  <2>2. KeyBytes(L, k) = RowKeyBytes(L, L.primary[k[2]])
    BY <2>1 DEF KeyBytes
  <2> QED
    BY <2>1, <2>2 DEF RowKeyBytes, PrimaryBytes, Cat
<1>4. ASSUME NEW i \in Indexes, NEW v \in Val, NEW p \in Row
      PROVE KeyBytes(L, EntryKey(i, v, p)) = Cat(ValuePrefix(L, i, v), EntrySuffix(L, i, p))
  <2> DEFINE k == EntryKey(i, v, p)
  <2>1. k # DescriptorKey /\ (\A j : k # MetadataKey(j)) /\ \A q : k # RowKey(q)
    BY DEF DescriptorKey, MetadataKey, RowKey, EntryKey, Indexes
  <2>2. k[1] = i /\ k[2] = v /\ (i # "unique" => k[3] = p)
    BY DEF EntryKey
  <2> HIDE DEF k
  <2>3. KeyBytes(L, k) = IndexEntryBytes(L.table, L.index[i], i = "unique", Indexed(L), L.column[v],
                                         IF i = "unique" THEN << >> ELSE PrimaryBytes(L, k[3]))
    BY <2>1, <2>2 DEF KeyBytes
  <2>4. CASE i = "unique"
    BY <2>3, <2>4 DEF IndexEntryBytes, EntrySuffix, ValuePrefix, Cat, k
  <2>5. CASE i # "unique"
    BY <2>2, <2>3, <2>5 DEF IndexEntryBytes, EntrySuffix, ValuePrefix, Cat, k
  <2> QED
    BY <2>4, <2>5
<1> QED
  BY <1>1, <1>2, <1>3, <1>4

\* The keys are byte strings that begin with a tag and the table's name.
LEMMA KeyStarts ==
    ASSUME NEW L \in Layouts
    PROVE /\ \A k \in TableKeys : KeyBytes(L, k) \in Bytes
          /\ Starts(KeyBytes(L, DescriptorKey), 16, L.table)
          /\ \A i \in Indexes : Starts(KeyBytes(L, MetadataKey(i)), 17, L.table)
          /\ \A p \in Row : Starts(KeyBytes(L, RowKey(p)), 32, L.table)
          /\ \A i \in Indexes, v \in Val, p \in Row : Starts(KeyBytes(L, EntryKey(i, v, p)), 48, L.table)
<1>1. 16 \in Byte /\ 17 \in Byte /\ 32 \in Byte /\ 48 \in Byte
  BY DEF Byte
<1>2. L.table \in Bytes
  BY LayoutNames
<1>3. ASSUME NEW p \in Bytes, NEW x \in Bytes, NEW t \in Byte, Starts(p, t, L.table)
      PROVE Cat(p, x) \in Bytes /\ Starts(Cat(p, x), t, L.table)
  BY <1>2, <1>3, BytesCat, CatPrefix, StartsPrefix, Zenon
<1>4. KeyBytes(L, DescriptorKey) \in Bytes /\ Starts(KeyBytes(L, DescriptorKey), 16, L.table)
  <2> DEFINE s == Cat(<<16>>, Escape(L.table))
  <2>1. s \in Bytes /\ << >> \in Bytes
    BY <1>1, <1>2, EscapeBytes, ShortBytes, BytesCat, Zenon
  <2>2. Cat(s, << >>) = s
    BY <2>1 DEF Bytes, Cat
  <2> QED
    BY <2>1, <2>2, KeyForms DEF Starts
<1>5. ASSUME NEW i \in Indexes
      PROVE KeyBytes(L, MetadataKey(i)) \in Bytes /\ Starts(KeyBytes(L, MetadataKey(i)), 17, L.table)
  <2> DEFINE p == IndexMetadataPrefix(L.table)
             x == Escape(L.index[i])
  <2>1. p \in Bytes /\ Starts(p, 17, L.table)
    BY ScanPrefixes
  <2>2. x \in Bytes
    BY LayoutNames, EscapeBytes
  <2>3. KeyBytes(L, MetadataKey(i)) = Cat(p, x)
    BY KeyForms
  <2> HIDE DEF p, x
  <2> QED
    BY <1>1, <1>3, <2>1, <2>2, <2>3
<1>6. ASSUME NEW q \in Row
      PROVE KeyBytes(L, RowKey(q)) \in Bytes /\ Starts(KeyBytes(L, RowKey(q)), 32, L.table)
  <2> DEFINE p == RowPrefix(L.table)
             x == PrimaryBytes(L, q)
  <2>1. p \in Bytes /\ Starts(p, 32, L.table)
    BY ScanPrefixes
  <2>2. x \in Bytes
    BY PrimaryCode
  <2>3. KeyBytes(L, RowKey(q)) = Cat(p, x)
    BY KeyForms
  <2> HIDE DEF p, x
  <2> QED
    BY <1>1, <1>3, <2>1, <2>2, <2>3
<1>7. ASSUME NEW i \in Indexes, NEW v \in Val, NEW q \in Row
      PROVE KeyBytes(L, EntryKey(i, v, q)) \in Bytes /\ Starts(KeyBytes(L, EntryKey(i, v, q)), 48, L.table)
  <2> DEFINE p == ValuePrefix(L, i, v)
             x == EntrySuffix(L, i, q)
  <2>1. p \in Bytes /\ Starts(p, 48, L.table)
    BY ScanPrefixes
  <2>2. x \in Bytes
    BY EntrySuffixBytes
  <2>3. KeyBytes(L, EntryKey(i, v, q)) = Cat(p, x)
    BY KeyForms
  <2> HIDE DEF p, x
  <2> QED
    BY <1>1, <1>3, <2>1, <2>2, <2>3
<1>8. ASSUME NEW k \in TableKeys PROVE KeyBytes(L, k) \in Bytes
  BY <1>4, <1>5, <1>6, <1>7, KeyKinds
<1> QED
  BY <1>4, <1>5, <1>6, <1>7, <1>8

\* The keys of other tables, as the layout assumes them.
Others(L) == UNION {L.others[table] : table \in DOMAIN L.others}

\* They begin with another name.
LEMMA OthersStart ==
    ASSUME NEW L \in Layouts, NEW s \in Others(L)
    PROVE /\ s \in Bytes
          /\ \A t \in Byte : ~Starts(s, t, L.table)
<1>1. PICK table \in DOMAIN L.others : s \in L.others[table]
  BY DEF Others
<1>2. table \in Bytes /\ table # L.table /\ s \in Bytes /\ KeyOfTable(table, s)
  BY <1>1, LayoutsAssumption DEF Bytes, Byte
<1>3. 16 \in Byte /\ 17 \in Byte /\ 32 \in Byte /\ 48 \in Byte
  BY DEF Byte
<1>4. ASSUME NEW t \in Byte
      PROVE /\ Cat(<<t>>, Escape(table)) \in Bytes
            /\ HasPrefix(s, Cat(<<t>>, Escape(table))) => Starts(s, t, table)
            /\ s = Cat(<<t>>, Escape(table)) => HasPrefix(s, Cat(<<t>>, Escape(table)))
  <2> DEFINE p == Cat(<<t>>, Escape(table))
  <2>1. p \in Bytes /\ << >> \in Bytes
    BY <1>2, EscapeBytes, ShortBytes, BytesCat
  <2>2. HasPrefix(s, p) => Starts(s, t, table)
    BY <1>2, <2>1, PrefixRest DEF Starts
  <2>3. Cat(p, << >>) = p
    BY <2>1 DEF Bytes, Cat
  <2> HIDE DEF p
  <2>4. HasPrefix(p, p)
    BY <2>1, <2>3, CatPrefix
  <2> QED
    BY <2>1, <2>2, <2>4 DEF p
<1>5. \E t \in {16, 17, 32, 48} : Starts(s, t, table)
  <2>1. \/ s = Cat(<<16>>, Escape(table))
        \/ HasPrefix(s, Cat(<<32>>, Escape(table)))
        \/ HasPrefix(s, Cat(<<17>>, Escape(table)))
        \/ HasPrefix(s, Cat(<<48>>, Escape(table)))
    BY <1>2 DEF KeyOfTable, DescriptorBytes, RowPrefix, IndexMetadataPrefix, Cat
  <2> QED
    BY <1>3, <1>4, <2>1
<1>6. PICK u \in Byte : Starts(s, u, table)
  BY <1>3, <1>5
<1>7. ASSUME NEW t \in Byte PROVE ~Starts(s, t, L.table)
  <2>1. L.table \in Bytes
    BY LayoutNames
  <2> QED
    BY <1>2, <1>6, <2>1, StartsApart
<1> QED
  BY <1>2, <1>7

\* An item and its parts.
LEMMA ItemParts == \A s, x : Item(s, x).key = s /\ Item(s, x).value = x
BY DEF Item

\* Every item is that of a key of the table or of a key of another table.
LEMMA ItemKinds ==
    ASSUME NEW L \in Layouts, NEW m, NEW item \in Items(L, m)
    PROVE /\ item.key \in Bytes
          /\ \/ \E k \in TableKeys : m[k] # Absent /\ item = Item(KeyBytes(L, k), m[k])
             \/ item.key \in Others(L)
<1>1. CASE \E k \in TableKeys : m[k] # Absent /\ item = Item(KeyBytes(L, k), m[k])
  BY <1>1, KeyStarts, ItemParts
<1>2. CASE \E s \in Others(L) : item = Item(s, 0)
  BY <1>2, OthersStart, ItemParts
<1> QED
  BY <1>1, <1>2 DEF Items, TableKeys, Others

\* The keys of the table in m that have a prefix.
Found(L, m, prefix) == {k \in TableKeys : m[k] # Absent /\ HasPrefix(KeyBytes(L, k), prefix)}

\* No key of another table has a prefix that begins with this table's name.
LEMMA PrefixItems ==
    ASSUME NEW L \in Layouts, NEW m, NEW t \in Byte, NEW prefix \in Bytes, Starts(prefix, t, L.table)
    PROVE WithPrefix(Items(L, m), prefix) = {Item(KeyBytes(L, k), m[k]) : k \in Found(L, m, prefix)}
<1> DEFINE W == WithPrefix(Items(L, m), prefix)
           I(k) == Item(KeyBytes(L, k), m[k])
<1>1. ASSUME NEW item \in W PROVE \E k \in Found(L, m, prefix) : item = I(k)
  <2>1. item \in Items(L, m) /\ HasPrefix(item.key, prefix)
    BY DEF WithPrefix
  <2>2. item.key \in Bytes
    BY <2>1, ItemKinds
  <2>3. item.key \notin Others(L)
    <3>1. L.table \in Bytes
      BY LayoutNames
    <3>2. Starts(item.key, t, L.table)
      BY <2>1, <2>2, <3>1, StartsPrefix
    <3> QED
      BY <3>2, OthersStart
  <2>4. PICK k \in TableKeys : m[k] # Absent /\ item = I(k)
    BY <2>1, <2>3, ItemKinds
  <2>5. item.key = KeyBytes(L, k)
    BY <2>4, ItemParts
  <2> QED
    BY <2>1, <2>4, <2>5 DEF Found
<1>2. ASSUME NEW k \in Found(L, m, prefix) PROVE I(k) \in W
  <2>1. k \in TableKeys /\ m[k] # Absent /\ HasPrefix(KeyBytes(L, k), prefix)
    BY DEF Found
  <2>2. I(k) \in Items(L, m)
    BY <2>1 DEF Items, TableKeys
  <2> QED
    BY <2>1, <2>2, ItemParts DEF WithPrefix
<1> HIDE DEF W, I
<1>3. W = {I(k) : k \in Found(L, m, prefix)}
  BY <1>1, <1>2
<1> QED
  BY <1>3 DEF W, I

\* A prefix that begins with a tag can be increased.
LEMMA StartsBelow ==
    ASSUME NEW t \in Byte, t # 255, NEW a \in Bytes, NEW p \in Bytes, Starts(p, t, a)
    PROVE \E i \in 1 .. Len(p) : p[i] # 255
<1> DEFINE n == Escape(a)
<1>1. PICK x \in Bytes : p = Cat(Cat(<<t>>, n), x)
  BY DEF Starts
<1>2. n \in Bytes /\ <<t>> \in Bytes
  BY EscapeBytes, ShortBytes
<1> HIDE DEF n
<1> DEFINE o == <<t>>
           y == Cat(n, x)
<1>3. y \in Bytes
  BY <1>2, BytesCat
<1>4. p = Cat(o, y)
  <2> HIDE DEF o
  <2> QED
    BY <1>1, <1>2, CatAssociative DEF o
<1> HIDE DEF y
<1>5. p[1] = t /\ Len(p) = 1 + Len(y)
  BY <1>3, <1>4, TagBody
<1>6. 1 \in 1 .. Len(p)
  BY <1>3, <1>5, BytesType
<1> QED
  BY <1>5, <1>6

\* The scan of a prefix finds every item that has it.
LEMMA PrefixScanned ==
    ASSUME NEW L \in Layouts, NEW m, NEW t \in Byte, t # 255, NEW prefix \in Bytes,
           Starts(prefix, t, L.table)
    PROVE WithPrefix(RangeLocked(L, m, prefix, PrefixEnd(prefix)), prefix) =
             {Item(KeyBytes(L, k), m[k]) : k \in Found(L, m, prefix)}
<1> DEFINE e == PrefixEnd(prefix)
<1>1. \E i \in 1 .. Len(prefix) : prefix[i] # 255
  BY LayoutNames, StartsBelow
<1>2. e \in Bytes
  BY <1>1, PrefixEndIs
<1>3. ASSUME NEW item \in Items(L, m), HasPrefix(item.key, prefix)
      PROVE ~Before(item.key, prefix) /\ ~Before(e, item.key)
  <2> DEFINE s == item.key
  <2>1. s \in Bytes
    BY ItemKinds
  <2> HIDE DEF s, e
  <2>2. ~Before(s, prefix) /\ Before(s, e)
    BY <1>1, <1>3, <2>1, PrefixScanExact DEF s, e
  <2>3. ~Before(e, s)
    BY <1>2, <2>1, <2>2, BeforeTotal
  <2> QED
    BY <2>2, <2>3 DEF s
<1> HIDE DEF e
<1>4. WithPrefix(RangeLocked(L, m, prefix, e), prefix) = WithPrefix(Items(L, m), prefix)
  BY <1>3 DEF WithPrefix, RangeLocked
<1> QED
  BY <1>4, PrefixItems DEF e

\* The scan of a prefix tells the kinds of keys apart, and the entries of one
\* index and value.
LEMMA KindScanned ==
    ASSUME NEW L \in Layouts, NEW k \in TableKeys
    PROVE /\ HasPrefix(KeyBytes(L, k), RowPrefix(L.table)) <=> \E p \in Row : k = RowKey(p)
          /\ HasPrefix(KeyBytes(L, k), IndexMetadataPrefix(L.table)) <=> \E i \in Indexes : k = MetadataKey(i)
          /\ \A i \in Indexes, v \in Val :
                HasPrefix(KeyBytes(L, k), ValuePrefix(L, i, v)) <=> \E p \in Row : k = EntryKey(i, v, p)
<1> DEFINE s == KeyBytes(L, k)
<1>1. 16 \in Byte /\ 17 \in Byte /\ 32 \in Byte /\ 48 \in Byte /\ L.table \in Bytes
  BY LayoutNames DEF Byte
<1>2. s \in Bytes
  BY KeyStarts
<1>3. ASSUME NEW p \in Bytes, NEW t \in Byte, Starts(p, t, L.table), HasPrefix(s, p)
      PROVE Starts(s, t, L.table)
  BY <1>1, <1>2, <1>3, StartsPrefix
<1>4. ASSUME NEW t \in Byte, NEW u \in Byte, Starts(s, t, L.table), Starts(s, u, L.table) PROVE t = u
  BY <1>1, <1>4, StartsApart
<1>5. ASSUME NEW p \in Row, k = RowKey(p)
      PROVE HasPrefix(s, RowPrefix(L.table)) /\ Starts(s, 32, L.table)
  BY <1>5, KeyForms, KeyStarts, PrimaryCode, ScanPrefixes, CatPrefix
<1>6. ASSUME NEW i \in Indexes, k = MetadataKey(i)
      PROVE HasPrefix(s, IndexMetadataPrefix(L.table)) /\ Starts(s, 17, L.table)
  BY <1>6, KeyForms, KeyStarts, LayoutNames, EscapeBytes, ScanPrefixes, CatPrefix
<1>7. ASSUME NEW i \in Indexes, NEW v \in Val, NEW p \in Row, k = EntryKey(i, v, p)
      PROVE HasPrefix(s, ValuePrefix(L, i, v)) /\ Starts(s, 48, L.table)
  BY <1>7, KeyForms, KeyStarts, EntrySuffixBytes, ScanPrefixes, CatPrefix
<1>8. k = DescriptorKey => Starts(s, 16, L.table)
  BY KeyStarts
<1>9. \/ k = DescriptorKey
      \/ \E i \in Indexes : k = MetadataKey(i)
      \/ \E p \in Row : k = RowKey(p)
      \/ \E i \in Indexes, v \in Val, p \in Row : k = EntryKey(i, v, p)
  BY KeyKinds
<1>10. /\ HasPrefix(s, RowPrefix(L.table)) => Starts(s, 32, L.table)
       /\ HasPrefix(s, IndexMetadataPrefix(L.table)) => Starts(s, 17, L.table)
       /\ \A i \in Indexes, v \in Val : HasPrefix(s, ValuePrefix(L, i, v)) => Starts(s, 48, L.table)
  BY <1>1, <1>3, ScanPrefixes
<1>11. /\ ~(Starts(s, 32, L.table) /\ Starts(s, 16, L.table))
       /\ ~(Starts(s, 32, L.table) /\ Starts(s, 17, L.table))
       /\ ~(Starts(s, 32, L.table) /\ Starts(s, 48, L.table))
       /\ ~(Starts(s, 17, L.table) /\ Starts(s, 16, L.table))
       /\ ~(Starts(s, 17, L.table) /\ Starts(s, 48, L.table))
       /\ ~(Starts(s, 48, L.table) /\ Starts(s, 16, L.table))
  BY <1>1, <1>4
<1>12. ASSUME NEW i \in Indexes, NEW v \in Val, HasPrefix(s, ValuePrefix(L, i, v))
       PROVE \E p \in Row : k = EntryKey(i, v, p)
  <2>1. PICK j \in Indexes, w \in Val, p \in Row : k = EntryKey(j, w, p)
    BY <1>5, <1>6, <1>8, <1>9, <1>10, <1>11, <1>12
  <2> DEFINE o == Cat(<<48>>, Escape(L.table))
             c == Escape(L.index[i])
             d == Escape(L.index[j])
             f == ColumnBytes(L, v)
             g == ColumnBytes(L, w)
             y == EntrySuffix(L, j, p)
  <2>2. /\ o \in Bytes /\ c \in Bytes /\ d \in Bytes /\ f \in Bytes /\ g \in Bytes /\ y \in Bytes
        /\ <<48>> \in Bytes /\ Escape(L.table) \in Bytes
    BY <1>1, LayoutNames, EscapeBytes, ShortBytes, BytesCat, ColumnCode, EntrySuffixBytes, Zenon
  <2>3. ValuePrefix(L, i, v) \in Bytes /\ ValuePrefix(L, i, v) = Cat(o, Cat(c, f))
    BY ScanPrefixes
  <2>4. s = Cat(Cat(o, Cat(d, g)), y)
    BY <2>1, KeyForms, ScanPrefixes
  <2>5. PICK x \in Bytes : s = Cat(Cat(o, Cat(c, f)), x)
    BY <1>2, <1>12, <2>3, PrefixRest
  <2> HIDE DEF o, f, g, y
  <2>6. Cat(c, Cat(f, x)) = Cat(d, Cat(g, y))
    <3> HIDE DEF c, d
    <3>1. Cat(c, f) \in Bytes /\ Cat(d, g) \in Bytes
      BY <2>2, BytesCat
    <3>2. Cat(Cat(c, f), x) \in Bytes /\ Cat(Cat(d, g), y) \in Bytes
      BY <2>2, <3>1, BytesCat
    <3>3. s = Cat(o, Cat(Cat(c, f), x)) /\ s = Cat(o, Cat(Cat(d, g), y))
      <4>1. \A u, z \in Bytes : Cat(Cat(o, u), z) = Cat(o, Cat(u, z))
        BY <2>2, CatAssociative
      <4> QED
        BY <2>2, <2>4, <2>5, <3>1, <4>1, Zenon
    <3>4. Cat(Cat(c, f), x) = Cat(Cat(d, g), y)
      BY <2>2, <3>2, <3>3, CancelFront, Zenon
    <3> QED
      BY <2>2, <3>4, CatAssociative
  <2>7. L.index[i] = L.index[j] /\ Cat(f, x) = Cat(g, y)
    <3> DEFINE a == L.index[i]
               b == L.index[j]
               u == Cat(f, x)
               z == Cat(g, y)
    <3>1. a \in Bytes /\ b \in Bytes /\ u \in Bytes /\ z \in Bytes
      BY <2>2, LayoutNames, BytesCat, Zenon
    <3>2. Cat(Escape(a), u) = Cat(Escape(b), z)
      BY <2>6
    <3> HIDE DEF a, b, u, z
    <3>3. a = b /\ u = z
      BY <3>1, <3>2, EscapeApart
    <3> QED
      BY <3>3 DEF a, b, u, z
  <2>8. i = j
    BY <2>7, LayoutNames
  <2>9. v = w
    BY <2>2, <2>7, ColumnApart DEF f, g
  <2> QED
    BY <2>1, <2>8, <2>9
<1> HIDE DEF s
<1>13. HasPrefix(s, RowPrefix(L.table)) <=> \E p \in Row : k = RowKey(p)
  BY <1>5, <1>6, <1>7, <1>8, <1>9, <1>10, <1>11
<1>14. HasPrefix(s, IndexMetadataPrefix(L.table)) <=> \E i \in Indexes : k = MetadataKey(i)
  BY <1>5, <1>6, <1>7, <1>8, <1>9, <1>10, <1>11
<1>15. ASSUME NEW i \in Indexes, NEW v \in Val
       PROVE HasPrefix(s, ValuePrefix(L, i, v)) <=> \E p \in Row : k = EntryKey(i, v, p)
  BY <1>7, <1>12
<1> QED
  BY <1>13, <1>14, <1>15 DEF s

-----------------------------------------------------------------------------
(* The order of keys, and the indexes loaded.                              *)

\* The order of byte strings is transitive.
LEMMA BeforeTransitive ==
    ASSUME NEW a \in Bytes, NEW b \in Bytes, NEW c \in Bytes, Before(a, b), Before(b, c)
    PROVE Before(a, c)
<1>1. PICK i \in Nat : BeforeAt(a, b, i)
  BY BeforeIff
<1>2. PICK j \in Nat : BeforeAt(b, c, j)
  BY BeforeIff
<1>3. /\ Len(a) \in Nat /\ \A k \in 1 .. Len(a) : a[k] \in Int
      /\ Len(b) \in Nat /\ \A k \in 1 .. Len(b) : b[k] \in Int
      /\ Len(c) \in Nat /\ \A k \in 1 .. Len(c) : c[k] \in Int
  BY BytesInt
<1>4. CASE i <= j
  <2>1. BeforeAt(a, c, i)
    BY <1>1, <1>2, <1>3, <1>4 DEF BeforeAt
  <2> QED
    BY <2>1, BeforeAtIs
<1>5. CASE j < i
  <2>1. BeforeAt(a, c, j)
    BY <1>1, <1>2, <1>3, <1>5 DEF BeforeAt
  <2> QED
    BY <2>1, BeforeAtIs
<1> QED
  BY <1>4, <1>5

\* Bytes in front of both change no order.
LEMMA FrontOrder ==
    ASSUME NEW p \in Bytes, NEW a \in Bytes, NEW b \in Bytes
    PROVE Before(Cat(p, a), Cat(p, b)) <=> Before(a, b)
<1> DEFINE s == Cat(p, a)
           t == Cat(p, b)
<1>1. s \in Bytes /\ t \in Bytes
  BY BytesCat
<1>2. Before(a, b) => Before(s, t)
  BY BeforeFront
<1>3. Before(b, a) => Before(t, s)
  BY BeforeFront
<1>4. a = b => s = t
  OBVIOUS
<1> HIDE DEF s, t
<1>5. ~(Before(s, t) /\ Before(t, s)) /\ ~Before(s, s)
  BY <1>1, BeforeTotal
<1>6. Before(a, b) \/ Before(b, a) \/ a = b
  BY BeforeTotal
<1> QED
  BY <1>2, <1>3, <1>4, <1>5, <1>6 DEF s, t

\* rowKey keeps the order of the values it is given.
LEMMA RowKeyBytesOrder ==
    ASSUME NEW L \in Layouts, NEW v \in KeyValues(L), NEW w \in KeyValues(L)
    PROVE /\ RowKeyBytes(L, v) \in Bytes
          /\ Before(RowKeyBytes(L, v), RowKeyBytes(L, w)) <=> ValueBefore(v, w)
<1> DEFINE o == RowPrefix(L.table)
           a == EncodeValue(Primary(L), v)
           b == EncodeValue(Primary(L), w)
<1>1. o \in Bytes /\ a \in Bytes /\ b \in Bytes
  BY ScanPrefixes, KeyCode
<1>2. RowKeyBytes(L, v) = Cat(o, a) /\ RowKeyBytes(L, w) = Cat(o, b)
  BY DEF RowKeyBytes, Cat
<1>3. Before(a, b) <=> ValueBefore(v, w)
  BY KeyValueOrder
<1> HIDE DEF o, a, b
<1>4. Before(Cat(o, a), Cat(o, b)) <=> Before(a, b)
  BY <1>1, FrontOrder
<1>5. Cat(o, a) \in Bytes
  BY <1>1, BytesCat
<1> QED
  BY <1>2, <1>3, <1>4, <1>5

\* rowKey keeps values apart.
LEMMA RowKeyBytesApart ==
    ASSUME NEW L \in Layouts, NEW v \in KeyValues(L), NEW w \in KeyValues(L),
           RowKeyBytes(L, v) = RowKeyBytes(L, w)
    PROVE v = w
<1> DEFINE o == RowPrefix(L.table)
           a == EncodeValue(Primary(L), v)
           b == EncodeValue(Primary(L), w)
<1>1. /\ o \in Bytes /\ a \in Bytes /\ b \in Bytes
      /\ DecodePrimaryKey(Primary(L), a) = v /\ DecodePrimaryKey(Primary(L), b) = w
  BY ScanPrefixes, KeyCode
<1>2. RowKeyBytes(L, v) = Cat(o, a) /\ RowKeyBytes(L, w) = Cat(o, b)
  BY DEF RowKeyBytes, Cat
<1> HIDE DEF o, a, b
<1>3. Suffix(Cat(o, a), o) = a /\ Suffix(Cat(o, b), o) = b
  BY <1>1, SuffixBytes DEF Suffix
<1> QED
  BY <1>1, <1>2, <1>3, Zenon

\* The keys of rows are ordered as their primary keys.
LEMMA RowKeyOrder ==
    ASSUME NEW L \in Layouts, NEW p \in Row, NEW q \in Row
    PROVE /\ KeyBytes(L, RowKey(p)) = RowKeyBytes(L, L.primary[p])
          /\ KeyBytes(L, RowKey(p)) \in Bytes
          /\ Before(KeyBytes(L, RowKey(p)), KeyBytes(L, RowKey(q))) <=> ValueBefore(L.primary[p], L.primary[q])
<1>1. \A r \in Row : KeyBytes(L, RowKey(r)) = RowKeyBytes(L, L.primary[r])
  BY KeyForms DEF RowKeyBytes, PrimaryBytes, Cat
<1> QED
  BY <1>1, LayoutPrimary, RowKeyBytesOrder

\* loadIndexesLocked.
LEMMA IndexesLoaded ==
    ASSUME NEW L \in Layouts, NEW m
    PROVE LoadIndexes(L, m) = {L.index[i] : i \in DefinedIndexes(m)}
<1> DEFINE o == IndexMetadataPrefix(L.table)
           B(i) == KeyBytes(L, MetadataKey(i))
           found == WithPrefix(RangeLocked(L, m, o, PrefixEnd(o)), o)
<1>1. 17 \in Byte /\ 17 # 255 /\ o \in Bytes /\ Starts(o, 17, L.table)
  BY ScanPrefixes DEF Byte
<1>2. found = {Item(KeyBytes(L, k), m[k]) : k \in Found(L, m, o)}
  BY <1>1, PrefixScanned
<1>3. ASSUME NEW k \in Found(L, m, o) PROVE \E i \in DefinedIndexes(m) : k = MetadataKey(i)
  BY KindScanned DEF Found, DefinedIndexes
<1>4. ASSUME NEW i \in DefinedIndexes(m) PROVE MetadataKey(i) \in Found(L, m, o)
  <2>1. i \in Indexes /\ m[MetadataKey(i)] # Absent
    BY DEF DefinedIndexes
  <2>2. MetadataKey(i) \in TableKeys
    BY <2>1, KeyKinds
  <2> QED
    BY <2>1, <2>2, KindScanned DEF Found
<1>5. ASSUME NEW i \in DefinedIndexes(m)
      PROVE DecodeEscapedComponent(Suffix(B(i), o)) = L.index[i]
  <2> DEFINE x == L.index[i]
             e == Escape(x)
  <2>1. i \in Indexes
    BY DEF DefinedIndexes
  <2>2. x \in Bytes
    BY <2>1, LayoutNames
  <2>3. B(i) = Cat(o, e)
    BY <2>1, KeyForms
  <2> HIDE DEF x, o
  <2>4. e \in Bytes /\ DecodeEscapedComponent(e) = x
    BY <2>2, EscapeBytes, DecodeInvertsEscape
  <2> HIDE DEF e
  <2>5. Suffix(Cat(o, e), o) = e
    BY <1>1, <2>4, SuffixBytes DEF Suffix
  <2> QED
    BY <2>3, <2>4, <2>5 DEF x
<1>6. LoadIndexes(L, m) = {DecodeEscapedComponent(Suffix(item.key, o)) : item \in found}
  BY DEF LoadIndexes
<1> HIDE DEF found, o
<1>7. \A item \in found : \E i \in DefinedIndexes(m) : item.key = B(i)
  BY <1>2, <1>3, ItemParts
<1>8. \A i \in DefinedIndexes(m) : \E item \in found : item.key = B(i)
  BY <1>2, <1>4, ItemParts
<1> QED
  BY <1>5, <1>6, <1>7, <1>8
=============================================================================
