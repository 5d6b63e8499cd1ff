------------------------------ MODULE Database ------------------------------
(***************************************************************************)
(* The public API of db/: direct operations, buffered transactions with    *)
(* single-writer admission (db.go, transaction_table.go), one table with   *)
(* rows and secondary indexes kept in the same key space (table.go,        *)
(* index.go), over a durable engine whose ApplyBatch may fail.             *)
(*                                                                         *)
(* Every operation holds Database.mu from its first check to its last      *)
(* write, so each is one action.  An operation that returns an error       *)
(* without changing anything is not an action.                             *)
(***************************************************************************)
EXTENDS Integers, FiniteSets

CONSTANTS
    Row,                \* primary keys, positive numbers
    Val,                \* values of the indexed column, positive numbers
    Tx,                 \* transaction handles
    Faults,             \* how ApplyBatch may fail: "prepare", "publish"
    ReopenAfterFailure  \* callers reopen a handle once a publication failed

ASSUME DatabaseAssumption ==
    /\ Row \subseteq Nat \ {0}
    /\ Val \subseteq Nat \ {0}
    /\ Faults \subseteq {"prepare", "publish"}
    /\ ReopenAfterFailure \in BOOLEAN

Indexes == {"unique", "plain"}

\* The key space: rowKey, indexEntryKey, indexMetadataKey, descriptorKey, and
\* the ordinary keys of Set and Tx.Set, which share no prefix with the others.
RowKey(p) == <<"row", p, 0>>
EntryKey(i, v, p) == <<i, v, IF i = "unique" THEN 0 ELSE p>>
MetadataKey(i) == <<"metadata", i, 0>>
DescriptorKey == <<"table", 0, 0>>
PlainKey == <<"key", 0, 0>>

Key ==
    {RowKey(p) : p \in Row}
    \cup {EntryKey(i, v, p) : i \in Indexes, v \in Val, p \in Row}
    \cup {MetadataKey(i) : i \in Indexes}
    \cup {DescriptorKey, PlainKey}

Absent == 0     \* no such key
Keep == -1      \* a transaction has not touched the key

NoChanges == [k \in Key |-> Keep]

VARIABLES
    store,          \* the committed map the engine shows
    uncertain,      \* KV.uncertain: the last publication failed
    adopted,        \* the map repair will find in the file
    closed,         \* Database.closed
    writerActive,   \* Database.writerActive
    tx              \* the transaction handles; a finished one may be replaced

vars == <<store, uncertain, adopted, closed, writerActive, tx>>

Map == [Key -> Nat]

Transactions ==
    [state : {"none", "open", "closed"}, readOnly : BOOLEAN, changes : [Key -> Int]]

NoTx == [state |-> "none", readOnly |-> FALSE, changes |-> NoChanges]

\* Mutant: a transaction sees and publishes its own changes only.
OverlayChangesOnly(m, changes) == [k \in Key |-> changes[k]]

\* valueLocked and the transaction's view of the whole map.
Overlay(m, changes) == [k \in Key |-> IF changes[k] = Keep THEN m[k] ELSE changes[k]]

\* recordLocked, for a set of keys that all get the same value.
Record(changes, keys, value) == [k \in Key |-> IF k \in keys THEN value ELSE changes[k]]

-----------------------------------------------------------------------------
(* Rows and index entries.                                                 *)

\* OpenTable finds the descriptor: callers can have a handle of the table.
TableExists(m) == m[DescriptorKey] # Absent

\* loadIndexesLocked: the definitions in the committed map.
DefinedIndexes(m) == {i \in Indexes : m[MetadataKey(i)] # Absent}

EntryKeys(m, p, v) == {EntryKey(i, v, p) : i \in DefinedIndexes(m)}

\* Mutant: only the row's own key is checked.
EntriesUnchecked(m, view, p, v, allowExisting) == TRUE

\* transactionIndexEntries does not return ErrDuplicateIndexed.
EntriesAllowed(m, view, p, v, allowExisting) ==
    "unique" \in DefinedIndexes(m) =>
        LET existing == view[EntryKey("unique", v, p)]
        IN existing = Absent \/ (allowExisting /\ existing = p)

\* insertRowLocked: its guard, and the changes it records.
InsertAllowed(m, view, p, v) ==
    /\ TableExists(m)
    /\ view[RowKey(p)] = Absent
    /\ EntriesAllowed(m, view, p, v, FALSE)

InsertRow(m, changes, p, v) ==
    Record(Record(changes, {RowKey(p)}, v), EntryKeys(m, p, v), p)

\* updateRowLocked.
UpdateAllowed(m, view, p, v) ==
    /\ view[RowKey(p)] # Absent
    /\ EntriesAllowed(m, view, p, view[RowKey(p)], TRUE)
    /\ EntriesAllowed(m, view, p, v, TRUE)

\* Mutant: the entries of the old row are left behind.
UpdateRowKeepingEntries(m, view, changes, p, v) ==
    Record(Record(changes, {RowKey(p)}, v), EntryKeys(m, p, v), p)

UpdateRow(m, view, changes, p, v) ==
    Record(Record(Record(changes, EntryKeys(m, p, view[RowKey(p)]), Absent),
                  {RowKey(p)}, v),
           EntryKeys(m, p, v), p)

\* deleteRowLocked.
DeleteAllowed(m, view, p) ==
    /\ view[RowKey(p)] # Absent
    /\ EntriesAllowed(m, view, p, view[RowKey(p)], TRUE)

DeleteRow(m, view, changes, p) ==
    Record(Record(changes, {RowKey(p)}, Absent), EntryKeys(m, p, view[RowKey(p)]), Absent)

\* CreateIndex: the backfill of the rows there are.
Backfill(m, i) ==
    [k \in Key |->
        IF k = MetadataKey(i) THEN 1
        ELSE IF \E p \in Row : m[RowKey(p)] # Absent /\ k = EntryKey(i, m[RowKey(p)], p)
        THEN CHOOSE p \in Row : m[RowKey(p)] # Absent /\ k = EntryKey(i, m[RowKey(p)], p)
        ELSE Keep]

\* FindByIndex: the primary keys found, or {0} for ErrInvalidRow.
FindByIndex(m, i, v) ==
    LET found == {m[EntryKey(i, v, p)] : p \in Row} \ {Absent}
        invalid ==
            \/ i = "plain" /\ \E p \in Row : m[EntryKey(i, v, p)] \notin {Absent, p}
            \/ \E q \in found : q \notin Row \/ m[RowKey(q)] # v
    IN IF invalid THEN {0} ELSE found

-----------------------------------------------------------------------------
(* The engine.                                                             *)

\* What update starts from: repair runs first on an uncertain handle.
Base == IF uncertain THEN adopted ELSE store

\* ApplyBatch.  A failure before publication leaves the repaired map; one
\* during publication leaves it open whether the slot holds the new map.
Committed(changes) ==
    /\ store' = Overlay(Base, changes)
    /\ adopted' = store'
    /\ uncertain' = FALSE

\* update writes nothing for a batch that only deletes missing keys.
Effective(changes) ==
    \E k \in Key : changes[k] # Keep /\ (changes[k] # Absent \/ Base[k] # Absent)

NotPrepared(changes) ==
    /\ "prepare" \in Faults
    /\ Effective(changes)
    /\ store' = Base
    /\ adopted' = Base
    /\ uncertain' = FALSE

NotPublished(changes) ==
    /\ "publish" \in Faults
    /\ Effective(changes)
    /\ store' = Base
    /\ adopted' \in {Base, Overlay(Base, changes)}
    /\ uncertain' = TRUE

ApplyBatch(changes) ==
    Committed(changes) \/ NotPrepared(changes) \/ NotPublished(changes)

\* The handle accepts work, and its callers still use it.
Usable == ~closed /\ (ReopenAfterFailure => ~uncertain)

-----------------------------------------------------------------------------
Init ==
    /\ store = [k \in Key |-> Absent]
    /\ uncertain = FALSE
    /\ adopted = store
    /\ closed = FALSE
    /\ writerActive = FALSE
    /\ tx = [t \in Tx |-> NoTx]

(* Transactions.                                                           *)

Begin(t, readOnly) ==
    /\ tx[t].state # "open"
    /\ ~closed
    /\ ~readOnly => ~writerActive
    /\ writerActive' = (writerActive \/ ~readOnly)
    /\ tx' = [tx EXCEPT ![t] = [NoTx EXCEPT !.state = "open", !.readOnly = readOnly]]
    /\ UNCHANGED <<store, uncertain, adopted, closed>>

\* A read-write transaction that accepts buffered changes.
Writing(t) == tx[t].state = "open" /\ ~tx[t].readOnly /\ Usable

View(t) == Overlay(store, tx[t].changes)

Buffer(t, changes) ==
    /\ tx' = [tx EXCEPT ![t].changes = changes]
    /\ UNCHANGED <<store, uncertain, adopted, closed, writerActive>>

\* Tx.Set and Tx.Delete of an ordinary key.
TxSet(t, value) == Writing(t) /\ Buffer(t, Record(tx[t].changes, {PlainKey}, value))

TxInsert(t, p, v) ==
    /\ Writing(t)
    /\ InsertAllowed(store, View(t), p, v)
    /\ Buffer(t, InsertRow(store, tx[t].changes, p, v))

TxUpdate(t, p, v) ==
    /\ Writing(t)
    /\ UpdateAllowed(store, View(t), p, v)
    /\ Buffer(t, UpdateRow(store, View(t), tx[t].changes, p, v))

TxDeleteRow(t, p) ==
    /\ Writing(t)
    /\ DeleteAllowed(store, View(t), p)
    /\ Buffer(t, DeleteRow(store, View(t), tx[t].changes, p))

\* Commit of a read-only transaction fails and closes it.
CommitReadOnly(t) ==
    /\ tx[t].state = "open" /\ tx[t].readOnly /\ ~closed
    /\ tx' = [tx EXCEPT ![t] = [NoTx EXCEPT !.state = "closed"]]
    /\ UNCHANGED <<store, uncertain, adopted, closed, writerActive>>

\* A failed Commit leaves the transaction open.
Commit(t) ==
    /\ Writing(t)
    /\ \/ /\ Committed(tx[t].changes)
          /\ tx' = [tx EXCEPT ![t] = [NoTx EXCEPT !.state = "closed"]]
          /\ writerActive' = FALSE
       \/ /\ NotPrepared(tx[t].changes) \/ NotPublished(tx[t].changes)
          /\ UNCHANGED <<tx, writerActive>>
    /\ UNCHANGED closed

\* Mutant: Rollback without the closed test.
RollbackTwice(t) ==
    /\ tx[t].state # "none"
    /\ tx' = [tx EXCEPT ![t] = [NoTx EXCEPT !.state = "closed"]]
    /\ writerActive' = (writerActive /\ tx[t].readOnly)
    /\ UNCHANGED <<store, uncertain, adopted, closed>>

Rollback(t) ==
    /\ tx[t].state = "open"
    /\ tx' = [tx EXCEPT ![t] = [NoTx EXCEPT !.state = "closed"]]
    /\ writerActive' = (writerActive /\ tx[t].readOnly)
    /\ UNCHANGED <<store, uncertain, adopted, closed>>

(* Direct operations.                                                      *)

\* Mutant: direct operations do not test writerActive.
DirectUnchecked(changes) == Usable /\ ApplyBatch(changes) /\ UNCHANGED <<closed, writerActive, tx>>

\* Table.mutate, Database.Set and CreateIndex: refused while a writer is open.
Direct(changes) ==
    /\ Usable
    /\ ~writerActive
    /\ ApplyBatch(changes)
    /\ UNCHANGED <<closed, writerActive, tx>>

Set(value) == Direct(Record(NoChanges, {PlainKey}, value))

Insert(p, v) == InsertAllowed(store, store, p, v) /\ Direct(InsertRow(store, NoChanges, p, v))

Update(p, v) ==
    UpdateAllowed(store, store, p, v) /\ Direct(UpdateRow(store, store, NoChanges, p, v))

\* A missing row still sends an empty batch to the engine.
Delete(p) ==
    \/ DeleteAllowed(store, store, p) /\ Direct(DeleteRow(store, store, NoChanges, p))
    \/ TableExists(store) /\ store[RowKey(p)] = Absent /\ Direct(NoChanges)

\* CreateTable refuses a name that is taken.
CreateTable == ~TableExists(store) /\ Direct(Record(NoChanges, {DescriptorKey}, 1))

CreateIndex(i) ==
    /\ TableExists(store)
    /\ i \notin DefinedIndexes(store)
    /\ i = "unique" =>
         \A p, q \in Row : store[RowKey(p)] # Absent /\ store[RowKey(p)] = store[RowKey(q)] => p = q
    /\ Direct(Backfill(store, i))

(* Close and reopen.                                                       *)

\* Close, or the death of the process.
Close ==
    /\ ~closed
    /\ closed' = TRUE
    /\ UNCHANGED <<store, uncertain, adopted, writerActive, tx>>

\* Open on the same file gives a new handle; the old transactions are dead.
\* After a power loss the unsynced map may be gone.
Reopen ==
    /\ closed
    /\ closed' = FALSE
    /\ store' \in {store, Base}
    /\ adopted' = store'
    /\ uncertain' = FALSE
    /\ writerActive' = FALSE
    /\ tx' = [t \in Tx |-> NoTx]

TxStep(t) ==
    \/ \E readOnly \in BOOLEAN : Begin(t, readOnly)
    \/ \E value \in {Absent, 1} : TxSet(t, value)
    \/ \E p \in Row, v \in Val : TxInsert(t, p, v) \/ TxUpdate(t, p, v)
    \/ \E p \in Row : TxDeleteRow(t, p)
    \/ CommitReadOnly(t) \/ Commit(t) \/ Rollback(t)

DirectStep ==
    \/ \E value \in {Absent, 1} : Set(value)
    \/ \E p \in Row, v \in Val : Insert(p, v) \/ Update(p, v)
    \/ \E p \in Row : Delete(p)
    \/ CreateTable
    \/ \E i \in Indexes : CreateIndex(i)

Next == (\E t \in Tx : TxStep(t)) \/ DirectStep \/ Close \/ Reopen

Spec == Init /\ [][Next]_vars

-----------------------------------------------------------------------------
(* Properties.                                                             *)

\* Type invariant.
TypeOK ==
    /\ store \in Map /\ adopted \in Map
    /\ uncertain \in BOOLEAN /\ closed \in BOOLEAN /\ writerActive \in BOOLEAN
    /\ tx \in [Tx -> Transactions]

OpenWriter(t) == tx[t].state = "open" /\ ~tx[t].readOnly

\* Writer admission: writerActive is set exactly while some read-write
\* transaction is open, and two never are, whatever commits fail and in
\* whatever order read-only and finished handles are rolled back.
WriterAdmission ==
    /\ writerActive <=> \E t \in Tx : OpenWriter(t)
    /\ \A s, t \in Tx : OpenWriter(s) /\ OpenWriter(t) => s = t

\* "every reachable index entry points to an existing row with the expected
\* indexed value, and every row requiring an index has the corresponding
\* entry" (secondary-index.md); an index that is not defined has no entries.
Consistent(m) ==
    \A i \in Indexes, p \in Row, v \in Val :
        LET entry == m[EntryKey(i, v, p)]
        IN IF i \in DefinedIndexes(m)
           THEN /\ m[RowKey(p)] = v => entry = p
                /\ entry # Absent => entry \in Row /\ m[RowKey(entry)] = v
                /\ i = "plain" => entry \in {Absent, p}
           ELSE entry = Absent

\* Through direct operations, transactions, index creation and failed
\* commits, the committed rows and index entries agree.
IndexConsistent == Consistent(store)

\* FindByIndex returns exactly the rows with the value, and never reports a
\* dangling entry (ErrInvalidRow).
FindByIndexExact ==
    \A i \in DefinedIndexes(store), v \in Val :
        FindByIndex(store, i, v) = {p \in Row : store[RowKey(p)] = v}

\* While a read-write transaction stays open nobody else changes the
\* committed map under it: what it checked is still true when it commits.
WriterIsolation ==
    [][(\E t \in Tx : OpenWriter(t) /\ OpenWriter(t)') => store' = store]_vars

=============================================================================
