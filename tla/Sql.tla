-------------------------------- MODULE Sql ---------------------------------
(***************************************************************************)
(* internal/sql: the parser on sequences of tokens, and Exec, which gives  *)
(* what it returns to SqlExecutor.                                         *)
(*                                                                         *)
(* A token has a type, the name of an identifier and the value of a        *)
(* literal.  The lexer is left out: its tokens, ended by EOF, are where    *)
(* the model starts.  A parsing function returns what it built and the     *)
(* tokens that remain.                                                     *)
(***************************************************************************)
EXTENDS SqlExecutor, SequencesExt

CONSTANTS
    Statements,     \* CREATE TABLE and INSERT statements given to Exec
    Misspelt        \* of these and of the Queries, the ones given with a slip as well

Token(type) == [type |-> type, name |-> "", value |-> Null]
Identifier(name) == [Token("identifier") EXCEPT !.name = name]
Literal(value) == [Token(IF value = Null THEN "NULL" ELSE "literal") EXCEPT !.value = value]

\* NULL is a literal as well as a word of NOT NULL.
LiteralTokens == {"literal", "NULL"}

TypeTokens == [INT64 |-> "int64", STRING |-> "string", BYTES |-> "bytes", BOOL |-> "bool"]

-----------------------------------------------------------------------------
(* parser.go.                                                              *)

Parsed(built, rest) == [ok |-> TRUE, built |-> built, rest |-> rest]
SyntaxError == [ok |-> FALSE, built |-> << >>, rest |-> << >>]

\* The type of the token at position i, and the tokens from there on.
Type(ts, i) == IF i <= Len(ts) THEN ts[i].type ELSE "none"
From(ts, i) == SubSeq(ts, i, Len(ts))

\* expect, for several tokens in a row.
Expect(ts, types) == \A i \in DOMAIN types : Type(ts, i) = types[i]

\* The list that starts with an item parsed, when a comma or AND follows it.
Joined(item, more) ==
    IF more.ok THEN Parsed(<<item>> \o more.built, more.rest) ELSE SyntaxError

RECURSIVE IdentifierSequence(_)
IdentifierSequence(ts) ==
    IF Type(ts, 1) # "identifier" THEN SyntaxError
    ELSE IF Type(ts, 2) = "," THEN Joined(ts[1].name, IdentifierSequence(From(ts, 3)))
    ELSE Parsed(<<ts[1].name>>, From(ts, 2))

RECURSIVE Literals(_)
Literals(ts) ==
    IF Type(ts, 1) \notin LiteralTokens THEN SyntaxError
    ELSE IF Type(ts, 2) = "," THEN Joined(ts[1].value, Literals(From(ts, 3)))
    ELSE Parsed(<<ts[1].value>>, From(ts, 2))

RECURSIVE Predicates(_)
Predicates(ts) ==
    IF \/ Type(ts, 1) # "identifier"
       \/ Type(ts, 2) \notin Comparisons
       \/ Type(ts, 3) \notin LiteralTokens
    THEN SyntaxError
    ELSE LET predicate == Predicate(ts[1].name, ts[2].type, ts[3].value)
         IN IF Type(ts, 4) = "AND" THEN Joined(predicate, Predicates(From(ts, 5)))
            ELSE Parsed(<<predicate>>, From(ts, 4))

\* The constraints of a column, in any order, each at most once.
RECURSIVE Constraints(_, _)
Constraints(ts, seen) ==
    IF Type(ts, 1) = "PRIMARY"
    THEN IF "PRIMARY" \in seen \/ Type(ts, 2) # "KEY" THEN SyntaxError
         ELSE Constraints(From(ts, 3), seen \cup {"PRIMARY"})
    ELSE IF Type(ts, 1) = "NOT"
    THEN IF "NOT" \in seen \/ Type(ts, 2) # "NULL" THEN SyntaxError
         ELSE Constraints(From(ts, 3), seen \cup {"NOT"})
    ELSE Parsed(seen, ts)

\* A column definition becomes the column executeCreateTable makes of it.
RECURSIVE ColumnDefinitions(_)
ColumnDefinitions(ts) ==
    LET constraints == Constraints(From(ts, 3), {})
        column == Column(ts[1].name, TypeTokens[ts[2].type], "PRIMARY" \in constraints.built,
                         constraints.built = {})
    IN IF Type(ts, 1) # "identifier" \/ Type(ts, 2) \notin DOMAIN TypeTokens \/ ~constraints.ok
       THEN SyntaxError
       ELSE IF Type(constraints.rest, 1) = ","
       THEN Joined(column, ColumnDefinitions(From(constraints.rest, 2)))
       ELSE Parsed(<<column>>, constraints.rest)

ParseCreateTable(ts) ==
    LET columns == ColumnDefinitions(From(ts, 5))
    IN IF Expect(ts, <<"CREATE", "TABLE", "identifier", "(">>) /\ columns.ok
          /\ Expect(columns.rest, <<")">>)
       THEN Parsed(CreateTableStatement(ts[3].name, columns.built), From(columns.rest, 2))
       ELSE SyntaxError

ParseInsert(ts) ==
    LET columns == IdentifierSequence(From(ts, 5))
        values == Literals(From(columns.rest, 4))
    IN IF /\ Expect(ts, <<"INSERT", "INTO", "identifier", "(">>)
          /\ columns.ok /\ Expect(columns.rest, <<")", "VALUES", "(">>)
          /\ values.ok /\ Expect(values.rest, <<")">>)
          /\ Len(columns.built) = Len(values.built)
       THEN Parsed(InsertStatement(ts[3].name, columns.built, values.built), From(values.rest, 2))
       ELSE SyntaxError

ParseSelect(ts) ==
    LET all == Type(ts, 2) = "*"
        list == IF all THEN Parsed(<< >>, From(ts, 3)) ELSE IdentifierSequence(From(ts, 2))
        where == IF Type(list.rest, 3) = "WHERE" THEN Predicates(From(list.rest, 4))
                 ELSE Parsed(<< >>, From(list.rest, 3))
    IN IF Expect(ts, <<"SELECT">>) /\ list.ok /\ Expect(list.rest, <<"FROM", "identifier">>)
          /\ where.ok
       THEN Parsed(SelectStatement(list.rest[2].name, list.built, all, where.built), where.rest)
       ELSE SyntaxError

OptionalSemicolon(ts) == IF Type(ts, 1) = ";" THEN From(ts, 2) ELSE ts

\* Mutant: what follows the statement is not looked at.
ParsePrefix(ts) ==
    CASE Type(ts, 1) = "CREATE" -> ParseCreateTable(ts)
      [] Type(ts, 1) = "INSERT" -> ParseInsert(ts)
      [] Type(ts, 1) = "SELECT" -> ParseSelect(ts)
      [] OTHER -> SyntaxError

\* Parse: one statement, and nothing after it.
Parse(ts) ==
    LET result == CASE Type(ts, 1) = "CREATE" -> ParseCreateTable(ts)
                    [] Type(ts, 1) = "INSERT" -> ParseInsert(ts)
                    [] Type(ts, 1) = "SELECT" -> ParseSelect(ts)
                    [] OTHER -> SyntaxError
    IN IF result.ok /\ Expect(OptionalSemicolon(result.rest), <<"EOF">>) THEN result
       ELSE SyntaxError

\* The grammar of sql-subset.md: how a statement is written.
Separated(items, separator) ==
    FlattenSeq([i \in DOMAIN items |->
        IF i = 1 THEN items[i] ELSE <<Token(separator)>> \o items[i]])

Words(types) == [i \in DOMAIN types |-> Token(types[i])]

WrittenColumn(c) ==
    <<Identifier(c.name), Token(CHOOSE t \in DOMAIN TypeTokens : TypeTokens[t] = c.type)>>
    \o (IF c.primaryKey THEN Words(<<"PRIMARY", "KEY">>)
        ELSE IF c.nullable THEN << >> ELSE Words(<<"NOT", "NULL">>))

WrittenPredicate(p) == <<Identifier(p.column), Token(p.op), Literal(p.value)>>

Identifiers(names) == [i \in DOMAIN names |-> <<Identifier(names[i])>>]

Written(s) ==
    CASE s.kind = "create" ->
            Words(<<"CREATE", "TABLE">>) \o <<Identifier(s.table)>> \o Words(<<"(">>)
            \o Separated([i \in DOMAIN s.columns |-> WrittenColumn(s.columns[i])], ",")
            \o Words(<<")", "EOF">>)
      [] s.kind = "insert" ->
            Words(<<"INSERT", "INTO">>) \o <<Identifier(s.table)>> \o Words(<<"(">>)
            \o Separated(Identifiers(s.columns), ",") \o Words(<<")", "VALUES", "(">>)
            \o Separated([i \in DOMAIN s.values |-> <<Literal(s.values[i])>>], ",")
            \o Words(<<")", "EOF">>)
      [] OTHER ->
            Words(<<"SELECT">>)
            \o (IF s.all THEN Words(<<"*">>) ELSE Separated(Identifiers(s.columns), ","))
            \o Words(<<"FROM">>) \o <<Identifier(s.table)>>
            \o (IF s.where = << >> THEN << >> ELSE Words(<<"WHERE">>)
                \o Separated([i \in DOMAIN s.where |-> WrittenPredicate(s.where[i])], "AND"))
            \o Words(<<"EOF">>)

\* What Exec gives to Execute.
ParsedStatements ==
    {Parse(Written(s)).built : s \in {r \in Statements : Parse(Written(r)).ok}}

Exec == \E s \in ParsedStatements : Execute(SqlLayout, s)

SqlNext == Next \/ Exec

SqlSpec == Init /\ [][SqlNext]_vars

-----------------------------------------------------------------------------
(* Properties.                                                             *)

\* A statement with one slip: a token left out, written twice, or swapped with
\* the next, or with a semicolon added.
Slips(ts) ==
    LET last == Len(ts) - 1     \* EOF is always there, and always last
    IN {RemoveAt(ts, i) : i \in 1 .. last}
       \cup {InsertAt(ts, i, ts[i]) : i \in 1 .. last}
       \cup {InsertAt(ts, i, Token(";")) : i \in DOMAIN ts}
       \cup {[ts EXCEPT ![i] = ts[i + 1], ![i + 1] = ts[i]] : i \in 1 .. last - 1}

\* A token that changes nothing: the last semicolon, and NOT NULL beside
\* PRIMARY KEY.
Redundant(ts, i) ==
    LET notNull(j) == /\ Type(ts, j) = "NOT"
                      /\ j > 1 /\ (Type(ts, j - 1) = "KEY" \/ Type(ts, j + 2) = "PRIMARY")
    IN \/ Type(ts, i) = ";" /\ i = Len(ts) - 1
       \/ notNull(i)
       \/ i > 1 /\ notNull(i - 1)

Essential(ts) ==
    LET kept == SelectSeq([i \in DOMAIN ts |-> i], LAMBDA i : ~Redundant(ts, i))
    IN [i \in DOMAIN kept |-> ts[kept[i]]]

\* "errors must not silently reinterpret invalid input" (sql-subset.md): every
\* statement of the grammar is parsed to itself, and whatever tokens the
\* parser accepts, all of them are in the statement it returns.
ParserFaithful ==
    Quiet /\ ~TableExists(store) =>
        /\ \A s \in Statements \cup Queries : Parse(Written(s)).ok /\ Parse(Written(s)).built = s
        /\ \A s \in Misspelt : \A ts \in Slips(Written(s)) :
              Parse(ts).ok => Essential(ts) = Written(Parse(ts).built)

=============================================================================
