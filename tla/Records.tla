------------------------------ MODULE Records -------------------------------
(***************************************************************************)
(* The encodings of db/table.go and db/index.go: ordered byte strings for  *)
(* the keys, and the values stored under them.                             *)
(*                                                                         *)
(* Keys and column values are kept to the byte, because their order and    *)
(* their prefixes are what the reads rely on.  The framing of descriptors  *)
(* and rows (magic, lengths, little-endian numbers) is left out: they are  *)
(* records of the same fields.  Strings of names and contents are          *)
(* sequences of bytes.                                                     *)
(***************************************************************************)
EXTENDS Integers, Sequences, FiniteSetsExt

CONSTANT IntBytes       \* bytes of an integer; 8 in the code

ASSUME RecordsAssumption == IntBytes \in Nat \ {0}

\* A column value: its type and, as a sequence, a number, bytes, or 0 / 1.
Value(type, content) == [type |-> type, content |-> content]
Null == Value("null", << >>)

Column(name, type, primaryKey, nullable) ==
    [name |-> name, type |-> type, primaryKey |-> primaryKey, nullable |-> nullable]

ColumnTypes == <<"int64", "string", "bytes", "bool">>
TypeCode(type) == CHOOSE i \in 1 .. 4 : ColumnTypes[i] = type

\* What an encoder or a decoder returns with an error.
Invalid == <<-1>>

-----------------------------------------------------------------------------
(* Bytes.                                                                  *)

\* The order of byte strings.
Before(a, b) ==
    LET differ == {i \in 1 .. Len(a) : i > Len(b) \/ a[i] # b[i]}
        first == CHOOSE i \in differ : \A j \in differ : i <= j
    IN IF differ = {} THEN Len(a) < Len(b)
       ELSE first <= Len(b) /\ a[first] < b[first]

HasPrefix(s, prefix) == Len(prefix) <= Len(s) /\ SubSeq(s, 1, Len(prefix)) = prefix

\* Mutant: a zero byte is copied.
EscapeNothing(s) == s \o <<0, 0>>

\* escape: a self-delimiting component.
Escape(s) ==
    LET from[i \in 1 .. Len(s) + 1] ==
            IF i > Len(s) THEN <<0, 0>>
            ELSE (IF s[i] = 0 THEN <<0, 255>> ELSE <<s[i]>>) \o from[i + 1]
    IN from[1]

\* decodeEscapedComponent.
Unescape(s) ==
    LET from[i \in 1 .. Len(s) + 1] ==
            IF i > Len(s) THEN << >>
            ELSE IF s[i] = 0 /\ (i = Len(s) \/ s[i + 1] # 255) THEN Invalid
            ELSE LET rest == from[IF s[i] = 0 THEN i + 2 ELSE i + 1]
                 IN IF rest = Invalid THEN Invalid ELSE <<s[i]>> \o rest
    IN from[1]

DecodeEscapedComponent(s) ==
    IF Len(s) < 2 \/ s[Len(s) - 1] # 0 \/ s[Len(s)] # 0 THEN Invalid
    ELSE Unescape(SubSeq(s, 1, Len(s) - 2))

\* Mutant: the last byte is incremented, whatever it is.
PrefixEndWrapping(prefix) == [prefix EXCEPT ![Len(prefix)] = (@ + 1) % 256]

\* prefixEnd: the least string above all that have the prefix.
PrefixEnd(prefix) ==
    LET below == {i \in DOMAIN prefix : prefix[i] # 255}
        last == Max(below)
    IN IF below = {} THEN Append(prefix, 0)
       ELSE [SubSeq(prefix, 1, last) EXCEPT ![last] = @ + 1]

\* The values of an int64 are -SignBit .. SignBit - 1.
SignBit ==
    LET power[n \in 1 .. IntBytes] == IF n = 1 THEN 128 ELSE 256 * power[n - 1]
    IN power[IntBytes]

\* binary.BigEndian.PutUint64 of the number with its sign bit flipped: byte i
\* is the lowest of the number shifted right by the bytes after it.
BigEndian(x) ==
    LET shifted[i \in 1 .. IntBytes] ==
            IF i = IntBytes THEN x + SignBit ELSE shifted[i + 1] \div 256
    IN [i \in 1 .. IntBytes |-> shifted[i] % 256]

FromBigEndian(s) ==
    LET sum[i \in 0 .. IntBytes] == IF i = 0 THEN 0 ELSE 256 * sum[i - 1] + s[i]
    IN sum[IntBytes] - SignBit

-----------------------------------------------------------------------------
(* Column values.                                                          *)

\* encodeValue.  A primary key has no type tag, and a string is left raw.
EncodeValue(c, v) ==
    LET body == CASE v.type = "int64" -> BigEndian(v.content[1])
                  [] v.type \in {"string", "bytes"} ->
                        IF c.primaryKey THEN v.content ELSE Escape(v.content)
                  [] OTHER -> v.content
    IN IF v = Null THEN IF c.nullable /\ ~c.primaryKey THEN <<0>> ELSE Invalid
       ELSE IF v.type # c.type THEN Invalid
       ELSE IF c.primaryKey THEN body
       ELSE <<TypeCode(c.type)>> \o body

\* decodePrimaryKey.
DecodePrimaryKey(c, data) ==
    CASE c.type = "int64" /\ Len(data) = IntBytes -> Value("int64", <<FromBigEndian(data)>>)
      [] c.type = "string" -> Value("string", data)
      [] OTHER -> Value("error", << >>)

\* decodeValue of a column that is not the primary key.
DecodeValue(c, data) ==
    LET body == Tail(data)
        error == Value("error", << >>)
    IN IF data = << >> THEN error
       ELSE IF data[1] = 0 THEN IF Len(data) = 1 /\ c.nullable THEN Null ELSE error
       ELSE IF data[1] # TypeCode(c.type) THEN error
       ELSE CASE c.type = "int64" ->
                    IF Len(body) = IntBytes THEN Value("int64", <<FromBigEndian(body)>>) ELSE error
              [] c.type = "bool" ->
                    IF body \in {<<0>>, <<1>>} THEN Value("bool", body) ELSE error
              [] OTHER ->
                    LET content == DecodeEscapedComponent(body)
                    IN IF content = Invalid THEN error ELSE Value(c.type, content)

-----------------------------------------------------------------------------
(* Schemas and their descriptors.                                          *)

PrimaryKeys(s) == {i \in DOMAIN s.columns : s.columns[i].primaryKey}
PrimaryID(s) == CHOOSE i \in PrimaryKeys(s) : TRUE
FindPrimary(s) == s.columns[PrimaryID(s)]

\* validateSchema, for names within their length.
ValidSchema(s) ==
    /\ s.name # << >> /\ s.columns # << >>
    /\ \A i, j \in DOMAIN s.columns : s.columns[i].name = s.columns[j].name => i = j
    /\ \E i \in DOMAIN s.columns :
          /\ PrimaryKeys(s) = {i}
          /\ ~s.columns[i].nullable
          /\ s.columns[i].type \in {"int64", "string"}

\* encodeDescriptor.
EncodeDescriptor(s) ==
    [name |-> s.name, primary |-> PrimaryID(s),
     columns |-> [i \in DOMAIN s.columns |->
        [id |-> i, type |-> TypeCode(s.columns[i].type),
         flags |-> IF s.columns[i].nullable THEN 1 ELSE 0, name |-> s.columns[i].name]]]

\* decodeDescriptor: the schema it builds.
DecodeDescriptor(d) ==
    [name |-> d.name,
     columns |-> [i \in DOMAIN d.columns |->
        Column(d.columns[i].name, ColumnTypes[d.columns[i].type], d.columns[i].id = d.primary,
               d.columns[i].flags = 1 /\ d.columns[i].id # d.primary)]]

\* decodeDescriptor returns no error.
DescriptorValid(d) ==
    /\ \A i \in DOMAIN d.columns :
          /\ d.columns[i].id = i
          /\ d.columns[i].flags \in {0, 1}
          /\ i = d.primary => d.columns[i].flags = 0
    /\ ValidSchema(DecodeDescriptor(d))

-----------------------------------------------------------------------------
(* Keys and rows.                                                          *)

DescriptorBytes(table) == <<16>> \o Escape(table)
RowPrefix(table) == <<32>> \o Escape(table)
IndexMetadataPrefix(table) == <<17>> \o Escape(table)
IndexMetadataBytes(table, index) == IndexMetadataPrefix(table) \o Escape(index)
IndexEntryPrefix(table, index) == <<48>> \o Escape(table) \o Escape(index)

IndexValuePrefix(table, index, c, v) ==
    IndexEntryPrefix(table, index) \o EncodeValue([c EXCEPT !.primaryKey = FALSE], v)

\* indexEntryKey: an entry of a unique index does not hold the primary key.
IndexEntryBytes(table, index, unique, c, v, primaryKey) ==
    IndexValuePrefix(table, index, c, v) \o (IF unique THEN << >> ELSE primaryKey)

\* A row is a function from column names to values; absent columns are nil.
Field(row, name) == IF name \in DOMAIN row THEN row[name] ELSE Null

Names(s) == {s.columns[i].name : i \in DOMAIN s.columns}

\* The columns other than the primary key, by their IDs.  encodeRow validates
\* the schema first, so there is one primary key.
OtherColumns(s) ==
    [i \in 1 .. Len(s.columns) - 1 |-> IF i < PrimaryID(s) THEN i ELSE i + 1]

\* encodeRow returns no error.
RowValid(s, row) ==
    /\ DOMAIN row \subseteq Names(s)
    /\ \A i \in DOMAIN s.columns :
          LET c == s.columns[i]
          IN /\ c.name \in DOMAIN row \/ c.nullable
             /\ EncodeValue(c, Field(row, c.name)) # Invalid

EncodeRow(s, row) ==
    [i \in DOMAIN OtherColumns(s) |->
        LET id == OtherColumns(s)[i]
        IN [id |-> id, data |-> EncodeValue(s.columns[id], Field(row, s.columns[id].name))]]

RowBytes(s, row) ==
    RowPrefix(s.name) \o EncodeValue(FindPrimary(s), Field(row, FindPrimary(s).name))

\* decodeRow's checks on the field IDs.
FieldsValid(s, fields) ==
    /\ Len(fields) = Len(s.columns) - 1
    /\ \A i \in 2 .. Len(fields) : fields[i - 1].id < fields[i].id
    /\ \A i \in DOMAIN fields :
          fields[i].id \in DOMAIN s.columns /\ ~s.columns[fields[i].id].primaryKey

\* decodeRow together with the primary key taken from the key (decodeRows).
DecodeRow(s, key, fields) ==
    [name \in {FindPrimary(s).name} \cup {s.columns[fields[i].id].name : i \in DOMAIN fields} |->
        IF name = FindPrimary(s).name
        THEN DecodePrimaryKey(FindPrimary(s), SubSeq(key, Len(RowPrefix(s.name)) + 1, Len(key)))
        ELSE LET i == CHOOSE i \in DOMAIN fields : s.columns[fields[i].id].name = name
             IN DecodeValue(s.columns[fields[i].id], fields[i].data)]

=============================================================================
