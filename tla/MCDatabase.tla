----------------------------- MODULE MCDatabase -----------------------------
(***************************************************************************)
(* The instances of Database that TLC checks.                              *)
(***************************************************************************)
EXTENDS Sql, TLC

\* Transaction handles are interchangeable.
TxSymmetry == Permutations(Tx)

\* Index names of which one is a prefix of the other.
IndexNames == [i \in Indexes |-> IF i = "unique" THEN <<0>> ELSE <<0, 0>>]

\* The keys of tables with the given names, with rows at both ends.
KeysOf(names) ==
    [name \in names |->
        {DescriptorBytes(name), RowPrefix(name), RowPrefix(name) \o <<255, 255>>,
         RowPrefix(name) \o BigEndian(0), IndexMetadataBytes(name, <<0>>),
         IndexValuePrefix(name, <<0>>, Column("v", "string", FALSE, TRUE), Null)}]

\* Tables with integer primary keys on both sides of zero, with string
\* primary keys of which one is a prefix of the other, and with an integer
\* column one of whose values is encoded with a last byte of 255; the string
\* values are empty, hold a zero byte, or are NULL.
MCLayouts ==
    {Layout(<<7, 0>>, IndexNames, <<Value("int64", <<1>>), Value("int64", <<-1>>)>>,
            "string", <<Value("string", << >>), Value("string", <<0>>)>>,
            KeysOf({<<7>>, <<7, 0, 0>>, <<7, 0, 255>>, <<7, 1>>})),
     Layout(<<255>>, IndexNames, <<Value("string", << >>), Value("string", <<0, 0>>)>>,
            "bytes", <<Null, Value("bytes", <<255>>)>>,
            KeysOf({<<254>>, <<255, 0>>, <<255, 255>>})),
     Layout(<<7>>, IndexNames, <<Value("string", <<255>>), Value("string", <<255, 0>>)>>,
            "int64", <<Value("int64", <<-1>>), Value("int64", <<0>>)>>,
            KeysOf({<<6, 255>>, <<7, 7>>}))}

\* Valid schemas of one to three columns, and ones that are refused.
MCSchemas ==
    LET id(type, nullable) == Column("id", type, TRUE, nullable)
        v(type, nullable) == Column("v", type, FALSE, nullable)
        w(primaryKey) == Column("w", "string", primaryKey, FALSE)
    IN {[name |-> <<7>>, columns |-> columns] :
            columns \in {<<id(t, n), v(u, m), w(p)>> : t \in {"int64", "string", "bool"},
                            u \in {"string", "bytes", "int64", "bool"}, n, m, p \in BOOLEAN}
                        \cup {<<v("bytes", TRUE), id("string", FALSE)>>,
                              <<id("int64", FALSE)>>, <<w(FALSE)>>,
                              <<id("int64", FALSE), id("int64", FALSE)>>}}

MCSqlLayout == CHOOSE L \in MCLayouts : L.table = <<7, 0>>

Integer(n) == Value("int64", <<n>>)
Text(bytes) == Value("string", bytes)
SqlColumn(name, type, primaryKey, notNull) ==
    Column(name, type, primaryKey, ~primaryKey /\ ~notNull)

\* The table of MCSqlLayout and schemas that are refused; rows in both orders
\* of the columns, with a column left out or given twice, with a literal of
\* the wrong type, and with NULL.
MCStatements ==
    {CreateTableStatement("t", columns) :
        columns \in {<<SqlColumn("id", "int64", TRUE, TRUE), SqlColumn("v", "string", FALSE, FALSE)>>,
                     <<SqlColumn("id", "bytes", TRUE, TRUE), SqlColumn("v", "string", FALSE, TRUE)>>,
                     <<SqlColumn("id", "int64", FALSE, TRUE)>>}}
    \cup {InsertStatement("t", <<"id", "v">>, <<id, v>>) :
        id \in {Integer(1), Integer(-1), Text(<<0>>)}, v \in {Text(<<0>>), Text(<< >>), Null}}
    \cup {InsertStatement("t", columns, <<Text(<<0>>), Integer(1)>>) :
        columns \in {<<"v", "id">>, <<"id", "id">>, <<"v", "w">>}}
    \cup {InsertStatement("t", <<"id">>, <<Integer(1)>>)}

Bounds == {Predicate("id", op, Integer(n)) : op \in Comparisons, n \in {-1, 0, 1}}
Strict == {Predicate("id", op, Integer(n)) : op \in {">", "<="}, n \in {-1, 0, 1}}
Others == {Predicate("v", op, Text(<<0>>)) : op \in Comparisons} \cup {Predicate("v", "=", Null)}

MCQueries ==
    {SelectStatement("t", << >>, TRUE, where) :
        where \in {<< >>} \cup {<<p, q>> : p \in Bounds, q \in Strict \cup Others}
                  \cup {<<p, q, r>> : p, q, r \in Strict}}
    \cup {SelectStatement("t", columns, FALSE, <<p>>) :
        columns \in {<<"v">>, <<"v", "id">>, <<"w">>}, p \in Bounds \cup Others}

\* Statements of every form.
MCMisspelt ==
    MCStatements
    \cup {s \in MCQueries : Len(s.where) < 2}
    \cup {SelectStatement("t", << >>, TRUE, <<p, p>>) : p \in Others}
=============================================================================
