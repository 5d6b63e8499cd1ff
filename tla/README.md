# Formal models of GoDatabase

TLA+ specifications of GoDatabase, from the durable page store to the SQL subset and the
experiment runner, checked with TLC on small instances and, where the prover reaches,
proved with TLAPS for every value of the constants.
The models are translated from the Go source under `src/`; `PROJECT.json` gives the
source lines of every definition.

## The system

| Part | Source | State | Operations that change it | Hard behaviours |
|---|---|---|---|---|
| Durable KV store | `internal/btree/kv.go` | open handle, loaded pages, `uncertain`, working tree | `Open`, `Set`, `Delete`, `ApplyBatch` (all through `update`), `rollback`, `repair`, `Close` | three fsyncs per update, an error or a crash between any two steps, commits whose outcome is unknown |
| Page manager, free list | `internal/btree/page_manager.go`, `free_list.go` | next page, free, retired and pending pages, list nodes, generation, two metadata slots | `reservePage`, `freePage`, `writeFreeListSnapshot`, `publishRoot`, `restore` | the free list is stored in pages it manages itself; pages must stay untouched while a fallback root needs them |
| Persistent B+Tree | `internal/btree/page_tree.go`, `page.go` | encoded nodes in pages | `insert`, `delete`, `nodeSplit3`, merges | variable-sized entries, separators of changing length, page accounting |
| Database, transactions | `db/db.go`, `db/transaction_table.go` | `writerActive`, `closed`, per-transaction change buffers | `Begin`, `Tx.*`, `Commit`, `Rollback`, direct `Set`, `Delete` | interleaved handles, failing commits that leave the transaction open |
| Tables, secondary indexes | `db/table.go`, `db/index.go` | rows, index entries and index metadata in one key space | `Insert`, `Update`, `Delete`, `CreateIndex` | rows and entries must agree through every failure |
| Byte encodings, SQL subset | `db/table.go`, `db/index.go`, `internal/sql/` | none of their own | `CreateTable`, `Exec` | self-delimiting ordered keys, range scans between neighbouring tables, choice of an access path |
| In-memory structures | `internal/btree/tree.go`, `node.go`, `memory.go`, `internal/structures/` | a map, a sorted slice, a tree with a chain of leaves | `Set`, `Delete` | splits, rotations and merges that keep separators and chain in step |
| Experiment runner, LRU cache | `internal/experiment/`, `internal/structures/cache.go` | the gate, per run a store, a cache, a temporary directory | `Run`, cached `Get`, `Set`, `Delete` | deadlines against a gate, failures after a directory was made, failed writes behind a cache |
| Engine adapter, page store, server, tracing, visualizer | see `PROJECT.json` | | | not modelled |

`Database` calls `KV.ApplyBatch` through the pure delegation of `internal/engine`; `KV`
runs a tree operation through callbacks that reserve and free pages in the page
manager, then writes the new pages, syncs, publishes the root, and syncs again.

What each part has to guarantee: the store recovers the last acknowledged map
after any crash; no page is lost or owned twice; the tree answers like a
dictionary and frees exactly what it replaces; one writer at a time sees a stable
committed map; rows and index entries agree; reads return the rows of their own
table and no others, by whatever path; all in-memory structures answer alike; one
experiment runs at a time, every call returns, and the cache is never noticed.

## Modules

| Module | Models |
|---|---|
| `AtomicStore` | The promise: one version of the whole map, a commit in doubt until acknowledged. |
| `DurableKV` | `kv.go` over `page_manager.go` over one file: the core. Refines `AtomicStore`. |
| `MCDurableKV` | Instances of `DurableKV` and the claims of the documentation put to it. |
| `DurableKVProofs` | Proofs of type correctness and of page ownership. |
| `RecoveryFileProofs`, `RecoveryProofs` | Proofs of recovery: the invariant, the file operations and the updates; then opening, crashes, publication and the theorems (recovery, durability, fallback, refinement, reopening). |
| `PageTree`, `MCPageTree` | `page_tree.go` with the byte sizes of `page.go`, and the check made by `loadCommittedPages`. |
| `Database` | `db/`: transactions, tables, indexes over an engine whose commit can fail. |
| `Records` | The encodings of `db/table.go` and `db/index.go`: ordered byte strings, schemas, rows. |
| `Table` | The reads of the table layer and `Range`, on the store of `Database` with keys as byte strings. |
| `SqlExecutor` | `executor.go` of `internal/sql` on top of `Table`: what a parsed statement does. |
| `Sql`, `MCDatabase` | `parser.go` on tokens, and `Exec`; and the instances. |
| `DatabaseProofs` | Proofs about `Database`: admission, isolation, index consistency. |
| `RecordsProofs` | Proofs about `Records`, for all byte strings: the order and the prefixes of escaped components; what is encoded is decoded. |
| `KeysProofs` | Proofs about the bytes of the keys in `Table`: what scans of a prefix find, and in which order. |
| `TableProofs` | Proofs about `Table` and `SqlExecutor`: what a commit publishes, what is read of a table, what a SELECT returns. |
| `Structures`, `MCStructures` | The hash map, the sorted slice and the in-memory B+Tree, side by side. |
| `Experiment`, `MCExperiment` | `Executor.Run`, `Factory.Open` and the LRU cache. |
| `ExperimentProofs` | Proofs about `Experiment`: the gate, the cache and its eviction, the directories. |

The models meet in what they abstract. `DurableKV` abstracts a tree operation
to "some pages are allocated, some freed, the root among them"; `PagesBalanced` of
`PageTree` shows that the real operations do that. `Database` abstracts the engine to
a commit that succeeds, fails without trace, or fails with its outcome open, resolved
at the next update or open; that is what `AtomicStore` says of `DurableKV`. `Table` and
`Sql` extend `Database`, so their reads are checked in every state transactions reach.
`Experiment` takes a store to be a dictionary whose durable form can fail a write;
`Structures` and `PageTree` show that the structures behind it are dictionaries.

### DurableKV

State. `file`, `slot` and `size` are what a read returns (the page cache); `disk`,
`slotDisk` and `sizeDisk` are the *sets* of values the medium may hold. A write adds
the new value and a torn one to the set; a successful `Sync` collapses each set to
what the cache shows; `PowerLoss` picks one member of each, page by page. `pm` is the
page manager together with the loaded tree, `saved`, `work`, `todo` and `meta` are the
local variables of one `update`, `pc` is the place in `Open` or `update`. A tree is a
function from page IDs to the number of the update that wrote the page, so that a
stale or torn page is told from the right one. `acked` and `maybe` are history: the
version the store is bound to keep and the versions that reached a slot write but were
never acknowledged.

| Actions | Code |
|---|---|
| `StartOpen`, `Format`, `FormatSlot`, `FormatSync`, `SyncFile`, `SyncDirectory`, `Recover`, `RecoverFails` | `Open`, `openPageManager`, `recoverCommittedPages`, `reconcilePageOwnership` |
| `Repair` | `repair` at the start of `update` on an uncertain handle |
| `BeginUpdate`, `WritePage`, `SyncData` | `update` up to `hooks.syncData` |
| `Snapshot`, `WriteListNode`, `SyncList`, `WriteMetadata`, `SyncMetadata` | `publishRoot` with `writeFreeListSnapshot` |
| `WritePageFails`, `SyncDataFails`, `Rollback` | errors before publication |
| `SnapshotFails`, `WriteListNodeFails`, `SyncListFails`, `WriteMetadataFails`, `SyncMetadataFails` | errors of `publishRoot`: the handle becomes uncertain |
| `Close`, `ProcessCrash`, `PowerLoss`, `LoseFile` | end of the process |

`KV.mu` is held over a whole update and `flock` admits one handle per file, so within
a file there is one actor and its environment; each file operation is a step of its
own because crashes and errors fall between them. An update whose change fails, or
changes nothing, is rolled back before any write and is not an action.

Faults are a constant, so that a run or a theorem says which it needs: `process`
(death of the process), `power` (loss of unsynced writes), `io` (a failing write or
sync), `short` (a failing append leaves part of a page), `truncate` (the ignored
error of `Truncate` in `rollback`), `directory` (the file vanishes if its directory
was never synced), `contention` (other processes open the same file: `Open` runs
`os.Stat` before it has the lock, so what `Stat` said, that the file exists or not, may
no longer be so). With `contention` the answer of `Stat` is arbitrary at every opening,
which is more than can happen: after a power loss no process that ran `Stat` before
is left. Properties that hold are not weakened by that.

Assumptions about the file system: `WriteAt` of one page is atomic with respect to
the death of the process and extends the file by whole pages; until a sync a page
holds its old, its new or unreadable contents; a successful sync makes everything
durable, also what an earlier failing sync left behind. The last one is optimistic
for kernels that drop dirty pages when a sync fails (see the hazard list). A torn
page never passes validation; tree pages carry no checksum, but `NewestIntact` shows
that recovery never has to read a torn one.

### PageTree

Keys are numbers in byte order with a length each, values stand for their lengths,
sizes are the real ones: 4096-byte pages, 16 + (8 + 2) bytes of header and index, 4
bytes per record. A node holds its children directly. Page IDs are renumbered after
each operation; they serve to check that an operation frees each page it replaces
exactly once. `LoadCommittedPages` is the check `Open` makes.

### Database

One table with an indexed column and two possible indexes, one unique; the table itself
is created by `CreateTable`, directly or through SQL. The key space
holds rows, index entries, index metadata and one ordinary key; ordinary keys are
assumed not to begin with the prefix bytes of the table layer. Each public call holds
`Database.mu` throughout and is one action; calls that return an error and change
nothing are not actions. Read-only transactions read the current committed map, as
`docs/design/transactions.md` says. `ReopenAfterFailure` states whether callers go on
with a handle after a failed publication: finding 6 below shows what happens if they
do, the other properties hold when they reopen.

### Records, Table, SqlExecutor, Sql

`Records` keeps keys and column values to the byte, since their order and their
prefixes are what reads rely on; integers have `IntBytes` bytes (8 in the code, 2 in the
runs). The framing of descriptors and rows is abstracted to records of the same fields.
`Table` gives each abstract key of `Database` its bytes by a `Layout`: the names of the
table and its indexes, the primary keys, the indexed values, and the keys of other
tables lying around it. `LayoutsAssumption` says what a layout may be: any names, any
primary keys of one type and any indexed values of one type or nil, different for
different members of `Row` and `Val`, and any keys of other tables that lie in their key
spaces; `Row`, the rows that may be inserted, is finite and not empty. `SchemasAssumption`
says what the schemas that are encoded may be. `Scan`, `TableRange`, `TableGet`, `LoadIndexes`
and `FindEntries` follow the code over these bytes; `Ascending` lists the items a range scan
finds in the order of their keys. `PrimaryID` and `OtherColumns` are the IDs `encodeRow`
writes. Row keys and entries longer than 1000 bytes are refused by the code and not
represented.

`SqlExecutor` takes parsed CREATE TABLE and INSERT statements to the actions of `Database`,
and `ExecuteSelect` answers queries on the committed store: `SelectRows` chooses between
lookup, range and scan, `Bound` and `Kept` are the loops over predicates and rows, written as
recursive functions. `QueriesAssumption` allows any predicates with literals of any type.
`Sql` starts at tokens: `Parse` and its parts follow `parser.go` function by function, and
`Exec` gives what they return to the executor. A statement that is refused changes nothing
and is no action.

### Structures

One `Set` or `Delete` is applied to the three structures together. Tree nodes are nested
records; the chain of leaves is kept apart, each leaf naming its successor, so that a
wrong link shows. After an operation leaves are renumbered from the left, which keeps
the state space finite; a link to a leaf that left the tree becomes `Dangling`.

### Experiment

Each client is a goroutine that calls `Run` again and again. `phase` is the place in
`Run`, `late` says that its context is done, `session` is the store, the cache and the
progress of its run. A fault set says which calls may fail: `directory` (`MkdirTemp`),
`engine` (`engine.Open`), `store` (a call of the durable store, before or after taking
effect), `cleanup` (`Close`, `RemoveAll`). Each round of the dataset and the operation
loop is a step, since the deadline is looked at in each. `dict`, `recent` and `exact` are
history. A new call of a client forgets a directory that an earlier one could not
remove, since that one has reported it.

| Actions | Code |
|---|---|
| `Run`, `Enter`, `GiveUp`, `Release` | `Executor.Run`: validation, the `select` on the gate, the deferred release |
| `Expire` | the 30 second limit or the caller's context |
| `Open`, `OpenFails`, `OpenEngine`, `OpenEngineFails`, `Cleanup` | `Factory.Open` and the cleanup it returns |
| `LoadRecord`, `LoadFails`, `StartOperations` | the dataset loop |
| `Get`, `Write`, `Range`, `OperationFails`, `Finish` | the operation loop and `execute`, through the cache |

## Runs

Fairness is assumed in `lab` alone, for `EveryRunReturns`: weak fairness of the steps of
each goroutine, because the Go scheduler runs a goroutine that can go on, and of `Expire`,
because `context.WithTimeout` fires. Nothing is assumed of the order in which the gate
admits waiting callers, so a caller may lose the race for it every time; the deadline
then ends its call. All other runs check safety: updates of the store run to completion
under `KV.mu` without waiting for anything, so what could stop is the process itself.
Deadlock is checked in every run; the store never reaches a state without a next step,
since a handle can always be closed and a closed one opened.

| Run | Instance | Checks | Result |
|---|---|---|---|
| `kv_commit` | 6 pages, 3 updates, trees of up to 2 pages, 2 IDs per list node; process, power, io, truncate, contention | `TypeOK`, `AckedSurvives`, `ReopensAfterCommit`, `CommitKeepsFallback`, `ImplementsAtomicStore` | holds, 134,224 states |
| `kv_reuse` | 6 pages, 5 updates, one-page trees, 4 IDs per list node; all seven faults | `NewestIntact`, `Ownership`, `BoundedGrowth` | holds, 515,736 states |
| `tree_ops` | 6 keys, four of 1000 and two of 5 bytes, values of 100 or 3000 bytes | `ReadsAgree`, `WellFormed`, `PagesBalanced`, `SetSucceeds` | holds, 6,299 states |
| `db_transactions` | 2 rows, 2 values, 2 handles, commits that fail either way; 3 layouts, 100 schemas of which some are refused, SQL statements of every form | `TypeOK`, `WriterAdmission`, `IndexConsistent`, `FindByIndexExact`, `TableReadsExact`, `RecordsInvert`, `SelectExact`, `ParserFaithful`, `WriterIsolation`, `CommitPublishesRange` | holds, 111,466 states |
| `lab` | 2 clients, 3 keys, 2 values, caches of 2 and 3, up to 5 operations; all faults | `TypeOK`, `OneAtATime`, `AnswersExact`, `LeastRecentlyUsed`, `DirectoriesRemoved`, `EveryRunReturns` | holds, 152,945 states |
| `structures` | 8 keys, at most 3 keys per node | `SameAnswers`, `LeafChain`, `TreeValid` | holds, 12,628 states |
| `kv_creation` | process | `BothSlotsBadIsEmpty` | violated, finding 1 |
| `kv_short_append` | 6 pages, 2 updates, io, short | `ReopensAfterCommit` | violated, finding 2 |
| `kv_directory` | 4 pages, 1 update, process, power, directory, contention | `AckedSurvives` | violated, finding 3 |
| `tree_reopen` | 3 keys of 8 bytes, values of 10 or 2000 bytes | `CommittedTreeReopens` | violated, finding 4 |
| `tree_delete` | 7 keys of mixed lengths | `DeleteSucceeds` | violated, finding 5 |
| `db_stale_checks` | 2 rows, 2 values, 1 handle used on after a failed publication | `IndexConsistent` | violated, finding 6 |

Why the bounds are enough. A page goes through tree, pending, retired, free and back,
one stage per commit, so reuse begins with the third update and a page freed by a
reuse is retired again with the fifth: `kv_reuse` covers a full cycle with a fault
anywhere in it. `kv_commit` has trees of two pages, so that an update keeps one page
and replaces another, and list nodes of two IDs, so that a list needs two nodes.
In `kv_reuse` the page limit is met after a few failed updates, while reserving tree
pages and while reserving list nodes. The bounds of the core runs matter little for what is
proved below, which holds for all values. `tree_ops` mixes long
and short keys and values: a leaf holds one or several entries, an internal page is
full with five, six keys give trees of three levels with splits in three, merges that
fit and merges that do not, removal of empty children and collapse of the root.
`db_transactions` has two rows that can exchange a unique
value and two handles, of which one can be read-only or finished while the other
writes; handles are interchangeable (`TxSymmetry`). Its layouts have negative integers,
strings that are prefixes of one another, zero bytes and bytes of 255 in names, keys and
values, and other tables whose names differ from the table's by such a byte; its queries
combine up to three comparisons of the key, and one with another column; each kind of
statement is also given with one token dropped, doubled or swapped, or a semicolon added.
`lab` has a cache smaller than the key set, so that five operations can fill, hit, evict
and refill it. The eight keys of `structures` with three keys per node make trees of
three levels, with rotations both ways and merges of leaves and of internal nodes.

What `BoundedGrowth` says was also tried over fourteen updates without faults; five
updates are enough for the steady state, and with the faults of `kv_reuse` the run covers
crashes and reopenings between the updates too. The pages of a failed update
may be out of use for a while, which is why the property speaks of successful ones.

Bounds in the modules: `MaxVersion` (updates attempted), `MaxNew` (pages one update
allocates), `MaxTree` (pages of one tree), `NumKeys`, `Row`, `Val`, `Tx`,
`GrowthBound`, `IntBytes`, `Client`. `DatasetLimit`, `DurableLimit`, `OperationLimit` and
`CapacityLimit` are the limits of `Validate`, scaled down. `MaxPage` is no artificial bound: it is the largest page ID
`dataPageOffset` accepts.

Every property of a passing run has a mutant in `PROJECT.json`: a changed form of one
definition, as a plausible mistake in the code would change it (a skipped fsync, one
slot for all generations, forgotten quarantine, a merge checked against the wrong
buffer, rollback of a finished transaction, a cache not invalidated, a leaf not linked), under which TLC finds the property
violated.

## What is proved

The proof modules about `DurableKV`, each building on the ones before it, prove for all values of `MaxPage`,
`MaxVersion`, `MaxNew`, `MaxTree`, `NodeCapacity` and `Faults` allowed by
`ConstantsAssumption`:

- `TypeCorrect`: `Spec => []TypeOK`.
- `OwnershipCorrect`: `Spec => []Ownership`. The strengthening `OwnershipInv` adds
  that during an update the pages of the snapshot `saved` are a partition as well,
  because `rollback` and a failed publication return to it, and names the planned
  partition once `writeFreeListSnapshot` has computed it.
- `RecoveryCorrect`: `Spec => []NewestIntact`, with every fault.
- `DurabilityCorrect`: `"directory" \notin Faults => (Spec => []AckedSurvives)`. The
  hypothesis is needed: `kv_directory` refutes the property without it.
- `FallbackCorrect`: `Spec => CommitKeepsFallback`, with every fault.
- `Refinement`: `"directory" \notin Faults => (Spec => ImplementsAtomicStore)`, that is,
  `DurableKV` implements `AtomicStore`.
- `ReopeningCorrect`: `{"short", "directory"} \cap Faults = {} => (Spec => []ReopensAfterCommit)`.
  Both hypotheses are needed: `kv_short_append` refutes the property with short appends, and a
  lost directory entry loses the file.

The argument for recovery and durability. `NewestIntact` speaks about all slot pairs a power
loss can leave. `RecoveryInv` describes them: `Medium` (what a read returns may be on
the medium), `Records` (a generation lies in the slot of its parity and its owners
are disjoint), and `Root`: either the newest record is certainly on the medium
(`Settled`), or it is in doubt (`Doubted`), in which case the medium holds it, a torn
slot, or an older record, and the other slot is safe too. `Stage` says, for each place
in `update`, which pages the update may still write and why none of them belongs to a
record recovery may choose: pages taken from `free`, pages past the end, and recycled
list nodes from `free` or `retired`, against the trees and lists of the records. The
first sync of an update settles the newest record, so that from then on only that one
has to be protected, and publication may reuse pages of the other. `Promise` adds that
the versions of the choosable records are `acked` or in `maybe`. Each action has a
lemma; `RecoveryStep` combines them. As a by-product (`RecoversTop`) recovery never
has to fall back under the modelled faults; the second slot matters while the first
is torn, and for damage outside the model, which is what `CommitKeepsFallback` is about.

The other three rest on the same invariant. `Fallback` adds that when only the last sync of
an update is missing, its version is in doubt and the records of both slots are complete on
the medium; a successful sync then leaves two complete generations. The refinement maps the
abstract state to `acked`, `maybe`, `version` and `View`, the version that callers of the
open handle read: `saved`'s during an update and the loaded one otherwise. Every action
leaves these four alone or changes them as an action of `AtomicStore` does, `Recover` and
`Repair` because the record they choose is `acked` or in `maybe`. `Aligned` says that
without short appends the file ends at a page boundary, so that the only thing `Open` can
refuse about a store with an acknowledged commit does not occur.

The inductive invariants were checked with TLC on the instances of the runs before
they were proved. `USE SMTT(20), ZenonT(20)` at the head of a proof module names the provers
of its leaves, SMT and then Zenon, and gives each 20 seconds.

`DatabaseProofs` proves, for any sets of rows, values and handles and any faults:

- `AdmissionCorrect`: `Spec => [](TypeOK /\ WriterAdmission)`.
- `IsolationCorrect`: `ReopenAfterFailure` implies `Spec => WriterIsolation`.
- `IndexCorrect`: `ReopenAfterFailure` implies
  `Spec => [](IndexConsistent /\ FindByIndexExact)`. Without the hypothesis
  `db_stale_checks` refutes it.

`IndexConsistent` is not inductive: a commit publishes changes computed long before.
`IndexInv` adds that the map a failed publication may leave (`adopted`) is consistent
too, and that the buffer of every open writer, laid over the committed map, gives a
consistent map (`Keeps`). Admission makes that writer the only one and keeps direct
operations out, so the committed map under its buffer does not move. `Spec` here is that of
`Database`; statements given through `Exec` are `Insert` and `CreateTable` steps of it.
`DatabaseTypes` and `FindCorrect` state `TypeOK` and `FindByIndexExact` by themselves.

`RecordsProofs` proves what the encodings promise, for all byte strings,
integers of any width, schemas of any number of columns and rows:

- `ComponentOrder`: escaped components compare as the strings they stand for, whatever
  follows, and equal ones by what follows.
- `PrefixScanExact`: the strings from a prefix up to its `PrefixEnd` are those that have it,
  unless all its bytes are 255; every prefix the table layer scans begins with a tag below 255.
- `TablesDisjoint`: no key has prefixes of two tables or of two indexes.
- `DecodeInvertsEscape`, `BigEndianInvertible`, `BigEndianOrder`, `DescriptorInverts`,
  `RowInverts`: decoding returns what was encoded, and integers are ordered by their bytes.

The prover cannot instantiate an induction theorem with an operator. These proofs do with
the least member of a set of natural numbers (`LeastNat`): `SetInduction`, `Descent` and
`Ascent` are induction with the property given as a set, and `Recursion` is the existence of
a function defined by recursion, whose steps are given as a function too. `EscapeDefined`,
`UnescapeDefined`, `SignBitDefined` and `BigEndianDefined` derive from it what the recursive
functions inside the definitions are. In the proofs `Cat` is concatenation; it is expanded
only in the lemmas on its associativity, lengths and bytes.

`KeysProofs` and `TableProofs` prove, for any layouts and schemas that the assumptions allow:

- `PublishCorrect`: `ReopenAfterFailure` implies `Spec => CommitPublishesRange`.
- `RecordsCorrect`: `Spec => []RecordsInvert`.
- `TableReadsCorrect`: `ReopenAfterFailure` implies `Spec => []TableReadsExact`.
- `SelectCorrect`: `ReopenAfterFailure` implies `Spec => []SelectExact`, for any set `Queries`
  of SELECT statements, with any number of predicates.

For `TableReadsCorrect` the keys of a table begin with one of four tags and its name
(`Starts`), which no key of another table does (`OthersStart`); so a prefix scan finds exactly
the keys of one kind, and for an index those of one value (`PrefixScanned`, `KindScanned`).
That they come in primary-key order is a fact about lists of finite sets: a member of a
strict total order is listed at the place given by the number of members below it (its rank,
`RankOnto`), and a map that keeps the order keeps ranks (`ListCarried`), so that the items in
the order of their keys are those of the rows in the order of their primary keys
(`ReadInOrder`). `Sound`, from the invariant of `IndexCorrect`, says that index entries and
rows agree.

For `SelectCorrect` the access path is an optimisation to be justified: the rows that
`SelectRows` finds are those of a set that contains every row satisfying the predicates
(`SelectRowsCover`). By key they are the row with the literal of an equality (`GetExact`);
by range those between two literals of the predicates (`RangeExact`, `BoundFrom`), which a
satisfying row does not lie outside of because the bytes of a primary key have its order
(`KeySatisfies`); otherwise all of them (`ScanExact`). The loop that follows drops the rows
that do not match and keeps the order of the others (`KeptExact`, by `Ascent` on the rows
looked at so far). That the bounds are the tightest ones is not needed. `Loop` says what a
recursive function over the rounds of a loop is.

`ExperimentProofs` proves, for any number of clients, keys, values, requests and any faults:

- `GateCorrect`: `Spec => []OneAtATime`.
- `CacheTransparent`: `Spec => []AnswersExact`. `CacheInv` says that until an operation
  fails every cached value is the store's and the store is the dictionary the caller
  knows; after a failed write that took effect neither need hold, and the proof rests on
  the run ending there without another answer.
- `CleanupCorrect`: `Spec => []DirectoriesRemoved`, with the fact that a run has no
  directory before `Factory.Open` (`DirectoryInv`).
- `EvictionCorrect`: `Spec => []LeastRecentlyUsed`. `OrderInv` relates the order of the cache
  to the keys used last, for every session, and says that a session is new until its client
  is past the gate.
- `ExperimentTypes`: `Spec => []TypeOK`.

Only model-checked:

- `ReadsAgree`, `WellFormed`, `PagesBalanced`, `SetSucceeds` of `PageTree` and all of
  `Structures`: their operators are recursive over trees, and with `RECURSIVE` operators in
  reach the prover has no arithmetic.
- `ParserFaithful` of `Sql`, for the same reason: the parser is recursive over tokens.
- `BoundedGrowth`, a bound for the constants of its run. What holds of every file depends on the
  sizes of its trees and on how its free list is divided into nodes; we have no inductive
  invariant for it.
- `EveryRunReturns`, which is liveness under fairness.

## Findings

Each is the counterexample of one run and is described with its sources in
`PROJECT.json`.

1. A new file whose creation was interrupted is rejected for ever (`kv_creation`),
   while the documentation says that it counts as empty.
2. A short append during publication leaves a file that cannot be reopened
   (`kv_short_append`).
3. The directory entry of a new file may never be synced (`kv_directory`), because its
   creator died early or because another process found the file and was faster.
4. Insertion can commit a tree that `Open` refuses as underfull (`tree_reopen`).
5. Deletion can fail because a separator grows (`tree_delete`).
6. Checks made between a failed publication and the repair use a stale map
   (`db_stale_checks`).

A commit that returned an error may become visible later, when repair or `Open` adopts
the slot it wrote. `docs/durable-storage.md` allows for that ("must not assume the update
committed"), and `AtomicStore` has it as a promise: such a version is in doubt, and is
resolved one way or the other.

Finding 4 concerns the structure of trees, which `DurableKV` abstracts away: there a tree
whose pages are intact loads. The theorems about recovery are about pages and slots, and
hold for databases whose trees pass the structural checks. A second way to a refused
tree: a deletion replaces an internal root with one child by that child once, and the
child can itself have one child, which `loadCommittedPages` rejects
(`kv.go:384`). It takes ten keys to reach and is a case of `CommittedTreeReopens`.

Remarks, none of which breaks a property above:

- `docs/durable-storage.md` says that there is no file lock (there is one, on Unix) and
  that writer admission does not cover every direct write path (`WriterIsolation` holds).
- `docs/design/table-layer.md` says that string primary keys are escaped; the code leaves
  them raw. The primary key is the last component of every key it occurs in, so
  `TableReadsExact` holds all the same.
- `docs/design/sql-subset.md` fixes the order PRIMARY KEY, NOT NULL; the parser takes
  either order. A literal bound too long for a key makes a lookup or a range fail where
  a scan would not.
- In the in-memory tree a separator need not be the least key of its right subtree: after
  a rotation into an emptied leaf it may be smaller. `TreeValid` states the bounds that
  do hold, which are those the tests check.
- After a failed write that took effect a cache would answer with the old value. Only the
  end of the run at the first error keeps that from being seen.

## Not modelled

- The legacy version-1 metadata record, which this code never writes; checksums and the
  byte layout of pages, descriptors and rows.
- A kernel that drops dirty pages when a sync fails. Which pages are lost is the kernel's
  choice, and the documentation leaves the neighbouring case, a sync acknowledged too early,
  out of scope (`docs/design/crash-recovery.md:204`).
- Platforms without `flock`.
- The lexer: character processing, with no state but its position.
- The map behind `db.New`: what `Database` does without faults and reopening.
- `internal/experiment/basic_runner.go`, a sequential runner over one map, which
  `cmd/lab-server` uses in place of `Executor`.
- The engine adapter, which delegates; the page store of `internal/storage`, which the
  database does not use; server, tracing, metrics and the web visualizer, which only do
  input and output or observe.
