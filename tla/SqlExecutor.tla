---------------------------- MODULE SqlExecutor -----------------------------
(***************************************************************************)
(* internal/sql/executor.go: the execution of parsed CREATE TABLE, INSERT  *)
(* and SELECT statements on the table of Table.  A literal is the value it *)
(* denotes.                                                                *)
(***************************************************************************)
EXTENDS Table

CONSTANTS
    SqlLayout,      \* the member of Layouts that statements are about
    Queries         \* SELECT statements

ASSUME QueriesAssumption ==
    /\ SqlLayout \in Layouts
    /\ \A s \in Queries :
          s.where \in Seq([column : STRING, op : STRING, value : ColumnValues \cup {Null}])

Comparisons == {"=", "!=", "<", "<=", ">", ">="}

CreateTableStatement(table, columns) == [kind |-> "create", table |-> table, columns |-> columns]
InsertStatement(table, columns, values) ==
    [kind |-> "insert", table |-> table, columns |-> columns, values |-> values]
SelectStatement(table, columns, all, where) ==
    [kind |-> "select", table |-> table, columns |-> columns, all |-> all, where |-> where]
Predicate(column, op, value) == [column |-> column, op |-> op, value |-> value]

Columns(L) == [c \in {"id", "v"} |-> IF c = "id" THEN Primary(L) ELSE Indexed(L)]

\* literalValue: a NULL literal or one of another type is an error.
LiteralValue(literal, type) ==
    IF literal.type = type \/ (literal.type = "string" /\ type = "bytes")
    THEN Value(type, literal.content)
    ELSE Value("error", << >>)

LiteralFits(L, column, literal) ==
    column \in DOMAIN Columns(L) /\ LiteralValue(literal, Columns(L)[column].type).type # "error"

\* compare: a nil value on the left compares with nothing.
Compare(left, right, op) ==
    /\ left.type = right.type
    /\ CASE op = "=" -> left = right
         [] op = "!=" -> left # right
         [] op = "<" -> ValueBefore(left, right)
         [] op = "<=" -> ~ValueBefore(right, left)
         [] op = ">" -> ValueBefore(right, left)
         [] op = ">=" -> ~ValueBefore(left, right)

Holds(L, row, predicate) ==
    Compare(row[predicate.column],
            LiteralValue(predicate.value, Columns(L)[predicate.column].type), predicate.op)

Matches(L, row, where) == \A i \in DOMAIN where : Holds(L, row, where[i])

\* The predicates that compare the primary key by one of these operators, and
\* the literal of such a predicate.
OnKey(where, ops) == {i \in DOMAIN where : where[i].column = "id" /\ where[i].op \in ops}
KeyLiteral(L, predicate) == LiteralValue(predicate.value, Primary(L).type)

\* The lower or the upper bound after each predicate: a literal replaces it
\* only when it is tighter.
Bound(L, where, ops, op) ==
    LET bound[i \in 0 .. Len(where)] ==
            IF i = 0 THEN Null
            ELSE IF /\ i \in OnKey(where, ops)
                    /\ bound[i - 1] = Null \/ Compare(KeyLiteral(L, where[i]), bound[i - 1], op)
            THEN KeyLiteral(L, where[i])
            ELSE bound[i - 1]
    IN bound[Len(where)]

\* selectRows: by key, by range, or by scanning the table.
SelectRows(L, m, where) ==
    LET equal == OnKey(where, {"="})
        lower == Bound(L, where, {">", ">="}, ">")
        upper == Bound(L, where, {"<", "<="}, "<")
    IN IF equal # {} THEN TableGet(L, m, KeyLiteral(L, where[Min(equal)]))
       ELSE IF lower # Null /\ upper # Null THEN TableRange(L, m, lower, upper)
       ELSE Scan(L, m)

\* The loop that keeps the rows that match.
Kept(L, rows, where) ==
    LET kept[i \in 0 .. Len(rows)] ==
            IF i = 0 THEN << >>
            ELSE IF Matches(L, rows[i], where) THEN Append(kept[i - 1], rows[i])
            ELSE kept[i - 1]
    IN kept[Len(rows)]

Project(row, columns) == [c \in {columns[i] : i \in DOMAIN columns} |-> row[c]]

\* executeSelect returns no error.
SelectValid(L, m, s) ==
    /\ s.table = "t" /\ TableExists(m)
    /\ s.all <=> s.columns = << >>
    /\ \A i \in DOMAIN s.columns : s.columns[i] \in DOMAIN Columns(L)
    /\ \A i \in DOMAIN s.where :
          /\ s.where[i].op \in Comparisons
          /\ LiteralFits(L, s.where[i].column, s.where[i].value)

Result(s, rows) ==
    IF s.all THEN rows ELSE [i \in DOMAIN rows |-> Project(rows[i], s.columns)]

\* Mutant: the rows found by key are not matched with the other predicates.
ExecuteSelectByKey(L, m, s) ==
    Result(s, IF OnKey(s.where, {"="}) # {} THEN SelectRows(L, m, s.where)
              ELSE Kept(L, Scan(L, m), s.where))

ExecuteSelect(L, m, s) == Result(s, Kept(L, SelectRows(L, m, s.where), s.where))

\* executeInsert: every column given once, with a literal of its type.
ExecuteInsert(L, s) ==
    /\ s.table = "t"
    /\ \A i, j \in DOMAIN s.columns : s.columns[i] = s.columns[j] => i = j
    /\ {s.columns[i] : i \in DOMAIN s.columns} = DOMAIN Columns(L)
    /\ \A i \in DOMAIN s.columns : LiteralFits(L, s.columns[i], s.values[i])
    /\ \E p \in Row, v \in Val :
          /\ \A i \in DOMAIN s.columns :
                LiteralValue(s.values[i], Columns(L)[s.columns[i]].type)
                    = IF s.columns[i] = "id" THEN L.primary[p] ELSE L.column[v]
          /\ Insert(p, v)

\* executeCreateTable; the layout's own schema is the only valid one among those
\* given.
ExecuteCreateTable(L, s) ==
    /\ s.table = "t"
    /\ ValidSchema([name |-> L.table, columns |-> s.columns])
    /\ CreateTable

Execute(L, s) ==
    \/ s.kind = "create" /\ ExecuteCreateTable(L, s)
    \/ s.kind = "insert" /\ ExecuteInsert(L, s)

-----------------------------------------------------------------------------
(* Properties.                                                             *)

\* "The result must be the same regardless of whether an index or full scan is
\* used" and "Results are returned in primary-key order" (sql-subset.md): a
\* SELECT that is accepted returns exactly the rows that satisfy every
\* predicate, whichever of lookup, range and scan its predicates select.
SelectExact ==
    Quiet =>
        \A s \in Queries :
            LET L == SqlLayout
                satisfying == {p \in Present(store) : Matches(L, RowOf(L, store, p), s.where)}
            IN SelectValid(L, store, s) =>
                  ExecuteSelect(L, store, s) = Result(s, RowsOf(L, store, satisfying))

=============================================================================
