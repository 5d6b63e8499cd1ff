------------------------------ MODULE DurableKV ------------------------------
(***************************************************************************)
(* The durable key-value store of internal/btree: kv.go (Open, update,     *)
(* rollback, repair, recovery) over page_manager.go (page allocation, free *)
(* list, root publication) over one file that is fsynced at three points.  *)
(*                                                                         *)
(* The B+Tree itself is abstracted to the set of pages it is made of: a    *)
(* copy-on-write change allocates some pages, frees some others and yields *)
(* a new tree; the tree's whole contents are identified by the version     *)
(* number of the update that built it.  What an update may do to the file  *)
(* is kept: every page write, every fsync, every error path, and a crash   *)
(* of the process or a power loss between any two of them.                 *)
(***************************************************************************)
EXTENDS Integers, FiniteSets

CONSTANTS
    MaxPage,        \* the largest page ID dataPageOffset accepts
    MaxVersion,     \* bound: how many updates are attempted
    MaxNew,         \* bound: pages one update allocates for the tree
    MaxTree,        \* bound: pages of one tree
    NodeCapacity,   \* freeListPageCapacity: page IDs in one free-list node
    Faults          \* which faults the environment may inject

ASSUME ConstantsAssumption ==
    /\ MaxPage \in Nat \ {0}
    /\ MaxVersion \in Nat
    /\ MaxNew \in Nat
    /\ MaxTree \in Nat
    /\ NodeCapacity \in Nat \ {0}
    /\ Faults \subseteq {"process", "power", "io", "short", "truncate", "directory", "contention"}

VARIABLES
    \* The file.  For each variable x, xDisk is what a power loss can leave.
    file,       \* page ID -> contents a read returns (the page cache)
    disk,       \* page ID -> the contents that may be on the medium
    slot,       \* metadata slot -> root metadata a read returns
    slotDisk,   \* metadata slot -> the metadata that may be on the medium
    size,       \* data pages in the file; -1: zero-length file
    sizeDisk,   \* the sizes the medium may have
    ragged,     \* the file ends in a partial page
    entry,      \* the directory entry: "none", "volatile" or "durable"
    \* The process that has the file open.
    pc,         \* where Open or update is
    created,    \* Open's os.Stat found no file
    pm,         \* the pageManager and the loaded tree
    uncertain,  \* KV.uncertain
    saved,      \* update: the snapshot of pm taken on entry
    savedSize,  \* update: originalSize, in whole pages
    savedRagged,\* update: whether originalSize was misaligned
    work,       \* update: the working tree, page ID -> version (0: no tree page)
    todo,       \* update: pages still to be written
    meta,       \* update: the metadata record about to be published
    version,    \* number of the last update attempted
    \* What callers were told.
    acked,      \* the version the store is bound to keep
    maybe       \* the versions written to a slot and not yet known to be synced

fileVars == <<file, disk, slot, slotDisk, size, sizeDisk, ragged, entry>>
updateVars == <<saved, savedSize, savedRagged, work, todo, meta>>
ghostVars == <<acked, maybe>>
vars == <<fileVars, pc, created, pm, uncertain, updateVars, version, ghostVars>>

-----------------------------------------------------------------------------
(* Pages, page contents and metadata records.                              *)

Page == 1 .. MaxPage

\* A page never written, half written, or cut off by Truncate.
Junk == [kind |-> "junk", version |-> 0]

\* The encoded B+Tree node (page.go) that update number v stored in a page.
TreeNode(v) == [kind |-> "node", version |-> v]

\* The encoded free-list node (encodeFreeListNode) that update v stored.
ListNode(v) == [kind |-> "list", version |-> v]

Content == [kind : {"junk", "node", "list"}, version : Nat]

NoTree == [p \in Page |-> 0]

\* rootMetadata with the tree and the free list it leads to written out.
Metadata ==
    [ok : BOOLEAN, generation : Nat, version : Nat, tree : [Page -> Nat],
     free : SUBSET Page, retired : SUBSET Page, list : SUBSET Page, count : Nat]

\* The record openPageManager writes into a new file: rootMetadata{}.
FirstMetadata ==
    [ok |-> TRUE, generation |-> 0, version |-> 0, tree |-> NoTree,
     free |-> {}, retired |-> {}, list |-> {}, count |-> 0]

\* A slot that fails magic, version or checksum: zeroed or half written.
BadMetadata == [FirstMetadata EXCEPT !.ok = FALSE]

PageManager ==
    [next : Nat \ {0}, generation : Nat, version : Nat, tree : [Page -> Nat],
     free : SUBSET Page, retired : SUBSET Page, pending : SUBSET Page,
     list : SUBSET Page]

NoPageManager ==
    [next |-> 1, generation |-> 0, version |-> 0, tree |-> NoTree,
     free |-> {}, retired |-> {}, pending |-> {}, list |-> {}]

TreePages(t) == {p \in Page : t[p] # 0}

-----------------------------------------------------------------------------
(* File operations.                                                        *)

\* WriteAt of one whole page.  Until the next Sync the medium holds the old
\* contents, the new ones, or a mixture.
WriteData(p, c) ==
    /\ file' = [file EXCEPT ![p] = c]
    /\ disk' = [disk EXCEPT ![p] = @ \cup {c, Junk}]
    /\ size' = IF p > size THEN p ELSE size
    /\ sizeDisk' = sizeDisk \cup {IF p > size THEN p ELSE size}
    /\ ragged' = (ragged /\ p <= size)

\* WriteAt that fails.  A page inside the file may be damaged; past its end
\* a short write may leave a partial page.
WriteDataFails(p) ==
    /\ "io" \in Faults
    /\ IF p <= size
       THEN /\ file' = [file EXCEPT ![p] = Junk]
            /\ disk' = [disk EXCEPT ![p] = @ \cup {Junk}]
            /\ UNCHANGED ragged
       ELSE /\ ragged' = (ragged \/ "short" \in Faults)
            /\ UNCHANGED <<file, disk>>
    /\ UNCHANGED <<size, sizeDisk>>

WriteSlot(i, m) ==
    /\ slot' = [slot EXCEPT ![i] = m]
    /\ slotDisk' = [slotDisk EXCEPT ![i] = @ \cup {m, BadMetadata}]

\* file.Sync that succeeds: the medium holds what reads return.  One that
\* fails leaves every variable as it was: anything written may or may not be
\* on the medium.
Sync ==
    /\ disk' = [p \in Page |-> {file[p]}]
    /\ slotDisk' = [i \in 0 .. 1 |-> {slot[i]}]
    /\ sizeDisk' = {size}
    /\ UNCHANGED <<file, slot, size, ragged, entry>>

Truncate(n, misaligned) ==
    /\ file' = [p \in Page |-> IF p > n THEN Junk ELSE file[p]]
    /\ disk' = [p \in Page |-> IF p > n THEN disk[p] \cup {Junk} ELSE disk[p]]
    /\ size' = n
    /\ sizeDisk' = sizeDisk \cup {n}
    /\ ragged' = misaligned

-----------------------------------------------------------------------------
(* Recovery.                                                               *)

\* loadFreeListMetadata reads the free-list chain the record was written with.
ListLoads(m) == \A p \in m.list : p <= m.count /\ file[p] = ListNode(m.version)

\* loadCommittedPages reads the tree the record was written with.
TreeLoads(m) ==
    \A p \in TreePages(m.tree) : p <= m.count /\ file[p] = TreeNode(m.tree[p])

\* reconcilePageOwnership: every page has at most one owner.
OwnersDisjoint(m) ==
    /\ TreePages(m.tree) \cap (m.free \cup m.retired \cup m.list) = {}
    /\ m.free \cap (m.retired \cup m.list) = {}
    /\ m.retired \cap m.list = {}
    /\ \A p \in m.free \cup m.retired : p <= m.count

\* readRootMetadataSlot.
SlotDecodes(m) == m.ok /\ m.count <= size /\ ListLoads(m)

Loads(m) == SlotDecodes(m) /\ TreeLoads(m) /\ OwnersDisjoint(m)

\* Mutant: recovery takes any candidate that loads.
RecoverableAny(m) == m \in {slot[0], slot[1]} /\ Loads(m)

\* recoverCommittedPages: the newest candidate that loads.
Recoverable(m) ==
    /\ m \in {slot[0], slot[1]}
    /\ Loads(m)
    /\ \A i \in 0 .. 1 : Loads(slot[i]) => slot[i].generation <= m.generation

\* Mutant: reconcilePageOwnership forgets the pages nobody owns.
LoadedWithoutQuarantine(m) ==
    [next |-> size + 1, generation |-> m.generation, version |-> m.version,
     tree |-> m.tree, free |-> m.free, retired |-> m.retired, list |-> m.list,
     pending |-> {}]

\* The pageManager after recovery.  Pages nobody owns are quarantined.
Loaded(m) ==
    [next |-> size + 1, generation |-> m.generation, version |-> m.version,
     tree |-> m.tree, free |-> m.free, retired |-> m.retired, list |-> m.list,
     pending |-> {p \in Page : p <= size}
                    \ (TreePages(m.tree) \cup m.free \cup m.retired \cup m.list)]

CanRecover == size >= 0 /\ ~ragged /\ \E i \in 0 .. 1 : Recoverable(slot[i])

-----------------------------------------------------------------------------
Init ==
    /\ file = [p \in Page |-> Junk]
    /\ disk = [p \in Page |-> {Junk}]
    /\ slot = [i \in 0 .. 1 |-> BadMetadata]
    /\ slotDisk = [i \in 0 .. 1 |-> {BadMetadata}]
    /\ size = -1
    /\ sizeDisk = {-1}
    /\ ragged = FALSE
    /\ entry = "none"
    /\ pc = "closed"
    /\ created = FALSE
    /\ pm = NoPageManager
    /\ uncertain = FALSE
    /\ saved = NoPageManager
    /\ savedSize = 0
    /\ savedRagged = FALSE
    /\ work = NoTree
    /\ todo = {}
    /\ meta = BadMetadata
    /\ version = 0
    /\ acked = 0
    /\ maybe = {}

(* Open.                                                                   *)

\* readRootMetadata in openPageManager accepts the file.
Readable == ~ragged /\ \E i \in 0 .. 1 : SlotDecodes(slot[i])

\* os.Stat, then OpenFile with O_CREATE, then the lock (held while pc is not
\* "closed").  Other processes may open the file too: one may create it
\* before this Stat and not get the lock, or create it, and even use and
\* close it, between this Stat and the lock.
StartOpen ==
    /\ pc = "closed"
    /\ created' \in {entry = "none"} \cup (IF "contention" \in Faults THEN BOOLEAN ELSE {})
    /\ entry' = IF entry = "none" THEN "volatile" ELSE entry
    /\ pc' = IF size = -1 THEN "format"
             ELSE IF created' /\ Readable THEN "syncFile" ELSE "recover"
    /\ UNCHANGED <<file, disk, slot, slotDisk, size, sizeDisk, ragged>>
    /\ UNCHANGED <<pm, uncertain, updateVars, version, ghostVars>>

\* file.Truncate(metadataSize): both slots read as zeroes.
Format ==
    /\ pc = "format"
    /\ size' = 0
    /\ sizeDisk' = sizeDisk \cup {0}
    /\ pc' = "formatSlot"
    /\ UNCHANGED <<file, disk, slot, slotDisk, ragged, entry>>
    /\ UNCHANGED <<created, pm, uncertain, updateVars, version, ghostVars>>

\* writeRootMetadataSlot(file, 0, rootMetadata{}).
FormatSlot ==
    /\ pc = "formatSlot"
    /\ WriteSlot(0, FirstMetadata)
    /\ pc' = "formatSync"
    /\ UNCHANGED <<file, disk, size, sizeDisk, ragged, entry>>
    /\ UNCHANGED <<created, pm, uncertain, updateVars, version, ghostVars>>

\* file.Sync in openPageManager.  Open then calls SyncFile on a file it
\* created, which has nothing left to settle.
FormatSync ==
    /\ pc = "formatSync"
    /\ Sync
    /\ pc' = IF created THEN "syncDirectory" ELSE "recover"
    /\ UNCHANGED <<created, pm, uncertain, updateVars, version, ghostVars>>

\* file.Sync in Open, on a file that another process has formatted.
SyncFile ==
    /\ pc = "syncFile"
    /\ Sync
    /\ pc' = "syncDirectory"
    /\ UNCHANGED <<created, pm, uncertain, updateVars, version, ghostVars>>

\* syncParentDirectory, only when this Open found no file.
SyncDirectory ==
    /\ pc = "syncDirectory"
    /\ entry' = "durable"
    /\ pc' = "recover"
    /\ UNCHANGED <<file, disk, slot, slotDisk, size, sizeDisk, ragged>>
    /\ UNCHANGED <<created, pm, uncertain, updateVars, version, ghostVars>>

\* recoverCommittedPages at the end of Open.
Recover ==
    /\ pc = "recover"
    /\ size >= 0 /\ ~ragged
    /\ \E i \in 0 .. 1 : Recoverable(slot[i]) /\ pm' = Loaded(slot[i])
    /\ pc' = "idle"
    /\ UNCHANGED <<fileVars, created, uncertain, updateVars, version, ghostVars>>

\* No candidate, or a misaligned file: Open closes the file and fails.
RecoverFails ==
    /\ pc = "recover"
    /\ ~CanRecover
    /\ pc' = "closed"
    /\ created' = FALSE
    /\ UNCHANGED <<fileVars, pm, uncertain, updateVars, version, ghostVars>>

(* update.                                                                 *)

\* repair: recovery on the descriptor that is already open.
Repair ==
    /\ pc = "idle" /\ uncertain
    /\ size >= 0 /\ ~ragged
    /\ \E i \in 0 .. 1 : Recoverable(slot[i]) /\ pm' = Loaded(slot[i])
    /\ uncertain' = FALSE
    /\ UNCHANGED <<fileVars, pc, created, updateVars, version, ghostVars>>

\* Mutant: reservePage without the dataPageOffset check.
ReserveUnchecked(n, taken, fresh) ==
    /\ taken \subseteq pm.free
    /\ Cardinality(taken) = IF n <= Cardinality(pm.free) THEN n ELSE Cardinality(pm.free)
    /\ fresh = pm.next .. (pm.next + (n - Cardinality(taken)) - 1)

\* reservePage n times: free pages first, then pages past the end.
Reserve(n, taken, fresh) ==
    /\ taken \subseteq pm.free
    /\ Cardinality(taken) = IF n <= Cardinality(pm.free) THEN n ELSE Cardinality(pm.free)
    /\ fresh = pm.next .. (pm.next + (n - Cardinality(taken)) - 1)
    /\ fresh \subseteq Page

\* Set, Delete and ApplyBatch: change() replaces part of the tree through the
\* new and del callbacks.  The old root is always replaced; a page may be
\* allocated and freed by the same batch.  A change that fails or changes
\* nothing is rolled back before any write and leaves no trace.
BeginUpdate ==
    /\ pc = "idle" /\ ~uncertain
    /\ version < MaxVersion
    /\ \E n \in 0 .. MaxNew :
       \E taken \in SUBSET pm.free :
          LET live == TreePages(pm.tree)
              fresh == pm.next .. (pm.next + (n - Cardinality(taken)) - 1)
              new == taken \cup fresh
          IN /\ Reserve(n, taken, fresh)
             /\ \E freed \in SUBSET (live \cup new) :
                /\ live # {} => freed \cap live # {}
                /\ live = {} => new \ freed # {}
                /\ Cardinality((live \cup new) \ freed) <= MaxTree
                /\ pm' = [pm EXCEPT !.next = @ + Cardinality(fresh),
                                    !.free = @ \ taken,
                                    !.pending = @ \cup freed]
                /\ work' = [p \in Page |-> IF p \in freed THEN 0
                                           ELSE IF p \in new THEN version + 1
                                           ELSE pm.tree[p]]
                /\ todo' = new
    /\ saved' = pm
    /\ savedSize' = size
    /\ savedRagged' = ragged
    /\ version' = version + 1
    /\ pc' = "write"
    /\ UNCHANGED <<fileVars, created, uncertain, meta, ghostVars>>

\* The pending pages are written in ascending order.
WritePage ==
    /\ pc = "write"
    /\ \E p \in todo :
          /\ \A q \in todo : p <= q
          /\ WriteData(p, TreeNode(version))
          /\ todo' = todo \ {p}
    /\ UNCHANGED <<slot, slotDisk, entry, pc, created, pm, uncertain>>
    /\ UNCHANGED <<saved, savedSize, savedRagged, work, meta, version, ghostVars>>

WritePageFails ==
    /\ pc = "write"
    /\ \E p \in todo : (\A q \in todo : p <= q) /\ WriteDataFails(p)
    /\ pc' = "rollback"
    /\ UNCHANGED <<slot, slotDisk, entry, created, pm, uncertain>>
    /\ UNCHANGED <<updateVars, version, ghostVars>>

\* hooks.syncData.  It also settles a version that recovery adopted unsynced.
SyncData ==
    /\ pc = "write" /\ todo = {}
    /\ Sync
    /\ pc' = "snapshot"
    /\ acked' = saved.version
    /\ maybe' = {}
    /\ UNCHANGED <<created, pm, uncertain, updateVars, version>>

SyncDataFails ==
    /\ pc = "write" /\ todo = {}
    /\ "io" \in Faults
    /\ pc' = "rollback"
    /\ UNCHANGED <<fileVars, created, pm, uncertain, updateVars, version, ghostVars>>

\* The update is over; its variables are meaningless until the next one.
EndUpdate ==
    /\ pc' = "idle"
    /\ saved' = NoPageManager
    /\ savedSize' = 0
    /\ savedRagged' = FALSE
    /\ work' = NoTree
    /\ todo' = {}
    /\ meta' = BadMetadata

\* rollback: restore the snapshot and cut the file back; an error of Truncate
\* is ignored.
Rollback ==
    /\ pc = "rollback"
    /\ pm' = saved
    /\ \/ Truncate(savedSize, savedRagged)
       \/ "truncate" \in Faults /\ UNCHANGED <<file, disk, size, sizeDisk, ragged>>
    /\ EndUpdate
    /\ UNCHANGED <<slot, slotDisk, entry, created, uncertain, version, acked, maybe>>

CeilDiv(a, b) == (a + b - 1) \div b

\* writeFreeListSnapshot: how many nodes hold `total` page IDs when up to
\* `reusable` of those pages can themselves become nodes, and how many do.
\* NodesNeeded never grows with the candidate, so at most one is fixed.
NodesNeeded(total, reused) == CeilDiv(total - reused, NodeCapacity)

NodePlan(total, reusable) ==
    LET reused(c) == IF c <= reusable THEN c ELSE reusable
        fixed == {c \in 1 .. CeilDiv(total, NodeCapacity) : NodesNeeded(total, reused(c)) = c}
        nodes == CHOOSE c \in fixed : TRUE
    IN IF fixed = {}
       THEN [nodes |-> CeilDiv(total, NodeCapacity), reused |-> 0]
       ELSE [nodes |-> nodes, reused |-> reused(nodes)]

\* The pages the next generation may reuse, and those it must still protect:
\* pages freed now and the nodes of the current list.
Eligible == pm.free \cup pm.retired

\* Mutant: the nodes of the superseded free list are leaked.
ProtectedWithoutList == pm.pending

Protected == pm.pending \cup pm.list

\* An eligible page that still holds a free-list node may become one again.
Recyclable == {p \in Eligible : file[p].kind = "list"}

ListPlan == NodePlan(Cardinality(Eligible) + Cardinality(Protected),
                     Cardinality(Recyclable))

FreshNodes == pm.next .. (pm.next + (ListPlan.nodes - ListPlan.reused) - 1)

\* publishRoot up to the list writes: the next generation's free list and
\* metadata.
Snapshot ==
    /\ pc = "snapshot"
    /\ FreshNodes \subseteq Page
    /\ \E recycled \in SUBSET Recyclable :
          /\ Cardinality(recycled) = ListPlan.reused
          /\ todo' = recycled \cup FreshNodes
          /\ pm' = [pm EXCEPT !.next = @ + (ListPlan.nodes - ListPlan.reused)]
          /\ meta' = [ok |-> TRUE, generation |-> pm.generation + 1,
                      version |-> version, tree |-> work,
                      free |-> Eligible \ recycled, retired |-> Protected,
                      list |-> recycled \cup FreshNodes, count |-> pm'.next - 1]
    /\ pc' = "list"
    /\ UNCHANGED <<fileVars, created, uncertain, saved, savedSize, savedRagged, work>>
    /\ UNCHANGED <<version, ghostVars>>

WriteListNode ==
    /\ pc = "list"
    /\ \E p \in todo :
          /\ WriteData(p, ListNode(version))
          /\ todo' = todo \ {p}
    /\ UNCHANGED <<slot, slotDisk, entry, pc, created, pm, uncertain>>
    /\ UNCHANGED <<saved, savedSize, savedRagged, work, meta, version, ghostVars>>

\* publishRoot returns an error: update restores the snapshot, leaves the
\* file as it is and marks the handle uncertain.
PublishFails ==
    /\ pm' = saved
    /\ uncertain' = TRUE
    /\ EndUpdate
    /\ UNCHANGED <<created, version, acked, maybe>>

\* dataPageOffset refuses the page ID of a list node.
SnapshotFails ==
    /\ pc = "snapshot"
    /\ ~(FreshNodes \subseteq Page)
    /\ PublishFails
    /\ UNCHANGED fileVars

WriteListNodeFails ==
    /\ pc = "list"
    /\ \E p \in todo : WriteDataFails(p)
    /\ PublishFails
    /\ UNCHANGED <<slot, slotDisk, entry>>

\* Mutant: publishRoot without syncFreeList.
SyncListSkipped ==
    /\ pc = "list" /\ todo = {}
    /\ pc' = "publish"
    /\ UNCHANGED <<fileVars, created, pm, uncertain, updateVars, version, ghostVars>>

\* syncFreeList.
SyncList ==
    /\ pc = "list" /\ todo = {}
    /\ Sync
    /\ pc' = "publish"
    /\ UNCHANGED <<created, pm, uncertain, updateVars, version, ghostVars>>

SyncListFails ==
    /\ pc = "list" /\ todo = {}
    /\ "io" \in Faults
    /\ PublishFails
    /\ UNCHANGED fileVars

\* Mutant: every generation goes to the same slot.
SlotAlwaysZero(m) == 0

\* nextGeneration % metadataSlotCount.
SlotOf(m) == m.generation % 2

\* writeRootMetadataSlot.
WriteMetadata ==
    /\ pc = "publish"
    /\ WriteSlot(SlotOf(meta), meta)
    /\ pc' = "syncMetadata"
    /\ maybe' = maybe \cup {version}
    /\ UNCHANGED <<file, disk, size, sizeDisk, ragged, entry>>
    /\ UNCHANGED <<created, pm, uncertain, updateVars, version, acked>>

\* A short write of the slot: its checksum no longer matches.
WriteMetadataFails ==
    /\ pc = "publish"
    /\ "io" \in Faults
    /\ WriteSlot(SlotOf(meta), BadMetadata)
    /\ PublishFails
    /\ UNCHANGED <<file, disk, size, sizeDisk, ragged, entry>>

\* publishRoot installs the new generation and update returns success.
Install ==
    /\ pm' = [next |-> pm.next, generation |-> meta.generation, version |-> version,
              tree |-> work, free |-> meta.free, retired |-> meta.retired,
              pending |-> {}, list |-> meta.list]
    /\ EndUpdate
    /\ acked' = version
    /\ maybe' = {}
    /\ UNCHANGED <<created, uncertain, version>>

\* Mutant: success is returned without syncMetadata.
SyncMetadataSkipped == pc = "syncMetadata" /\ UNCHANGED fileVars /\ Install

\* syncMetadata succeeds.
SyncMetadata == pc = "syncMetadata" /\ Sync /\ Install

SyncMetadataFails ==
    /\ pc = "syncMetadata"
    /\ "io" \in Faults
    /\ PublishFails
    /\ UNCHANGED fileVars

(* Close and crashes.                                                      *)

\* The process is gone, and with it everything in memory.
Forget ==
    /\ pc' = "closed"
    /\ created' = FALSE
    /\ pm' = NoPageManager
    /\ uncertain' = FALSE
    /\ saved' = NoPageManager
    /\ savedSize' = 0
    /\ savedRagged' = FALSE
    /\ work' = NoTree
    /\ todo' = {}
    /\ meta' = BadMetadata

Close ==
    /\ pc = "idle"
    /\ Forget
    /\ UNCHANGED <<fileVars, version, ghostVars>>

\* The process dies (or Open fails before recovery); the page cache survives.
ProcessCrash ==
    /\ "process" \in Faults
    /\ pc # "closed"
    /\ Forget
    /\ UNCHANGED <<fileVars, version, ghostVars>>

\* The slot recovery would choose if both trees load.
Newest(m0, m1) ==
    IF m1.ok /\ (m0.ok => m0.generation < m1.generation) THEN m1 ELSE m0

\* The medium keeps, page by page, something it may hold; what survives is
\* from then on the version the store is bound to keep.
PowerLoss ==
    /\ "power" \in Faults
    /\ Forget
    /\ \E s \in sizeDisk :
       \E s0 \in slotDisk[0], s1 \in slotDisk[1] :
          LET dirty == {p \in Page : disk[p] # {file[p]}}
          IN \E kept \in [dirty -> UNION {disk[p] : p \in dirty}] :
             /\ \A p \in dirty : kept[p] \in disk[p]
             /\ file' = [p \in Page |-> IF p > s THEN Junk
                                        ELSE IF p \in dirty THEN kept[p] ELSE file[p]]
             /\ slot' = [i \in 0 .. 1 |-> IF s = -1 THEN BadMetadata
                                           ELSE IF i = 0 THEN s0 ELSE s1]
             /\ size' = s
    /\ disk' = [p \in Page |-> {file'[p]}]
    /\ slotDisk' = [i \in 0 .. 1 |-> {slot'[i]}]
    /\ sizeDisk' = {size'}
    /\ acked' = Newest(slot'[0], slot'[1]).version
    /\ maybe' = {}
    /\ ragged' \in {ragged, FALSE}
    /\ UNCHANGED <<entry, version>>

\* A power loss before the directory was synced may take the whole file.
LoseFile ==
    /\ {"power", "directory"} \subseteq Faults
    /\ entry = "volatile"
    /\ Forget
    /\ file' = [p \in Page |-> Junk]
    /\ disk' = [p \in Page |-> {Junk}]
    /\ slot' = [i \in 0 .. 1 |-> BadMetadata]
    /\ slotDisk' = [i \in 0 .. 1 |-> {BadMetadata}]
    /\ size' = -1
    /\ sizeDisk' = {-1}
    /\ ragged' = FALSE
    /\ entry' = "none"
    /\ UNCHANGED <<version, ghostVars>>

-----------------------------------------------------------------------------
OpenStep ==
    StartOpen \/ Format \/ FormatSlot \/ FormatSync \/ SyncFile \/ SyncDirectory
    \/ Recover \/ RecoverFails

UpdateStep ==
    \/ Repair \/ BeginUpdate \/ WritePage \/ SyncData \/ Snapshot
    \/ WriteListNode \/ SyncList \/ WriteMetadata \/ SyncMetadata

UpdateFailure ==
    \/ WritePageFails \/ SyncDataFails \/ Rollback \/ SnapshotFails
    \/ WriteListNodeFails \/ SyncListFails \/ WriteMetadataFails \/ SyncMetadataFails

Crash == ProcessCrash \/ PowerLoss \/ LoseFile

Next == OpenStep \/ UpdateStep \/ UpdateFailure \/ Close \/ Crash

Spec == Init /\ [][Next]_vars

-----------------------------------------------------------------------------
(* Properties.                                                             *)

PCs == {"closed", "format", "formatSlot", "formatSync", "syncFile", "syncDirectory",
        "recover", "idle", "write", "rollback", "snapshot", "list", "publish", "syncMetadata"}

\* Type invariant: every variable holds a value of the kind kv.go and
\* page_manager.go give it.
TypeOK ==
    /\ file \in [Page -> Content]
    /\ disk \in [Page -> SUBSET Content]
    /\ slot \in [0 .. 1 -> Metadata]
    /\ slotDisk \in [0 .. 1 -> SUBSET Metadata]
    /\ size \in Int /\ sizeDisk \in SUBSET Int
    /\ ragged \in BOOLEAN
    /\ entry \in {"none", "volatile", "durable"}
    /\ pc \in PCs
    /\ created \in BOOLEAN
    /\ pm \in PageManager /\ saved \in PageManager
    /\ uncertain \in BOOLEAN
    /\ savedSize \in Int /\ savedRagged \in BOOLEAN
    /\ work \in [Page -> Nat]
    /\ todo \in SUBSET Page
    /\ meta \in Metadata
    /\ version \in Nat /\ acked \in Nat
    /\ maybe \in SUBSET Nat

Updating == pc \in {"write", "rollback", "snapshot", "list", "publish", "syncMetadata"}
IsOpen == pc = "idle" \/ Updating

\* A record whose tree and free list are on the medium whatever a power loss
\* keeps of the unsynced writes.
Safe(m) ==
    /\ m.ok
    /\ \A s \in sizeDisk : m.count <= s
    /\ \A p \in TreePages(m.tree) : p <= m.count /\ disk[p] = {TreeNode(m.tree[p])}
    /\ \A p \in m.list : p <= m.count /\ disk[p] = {ListNode(m.version)}

\* The slot pairs a power loss can leave.
SlotOutcomes == slotDisk[0] \X slotDisk[1]

\* One of the two slots is sure to be valid after a power loss.
Formatted == -1 \notin sizeDisk /\ \A s \in SlotOutcomes : s[1].ok \/ s[2].ok

\* The first Sync of a new file, by Open or by an update, has succeeded.
Established == Formatted \/ ((acked > 0 \/ maybe # {}) /\ "directory" \notin Faults)

\* Recovery after a crash at any point of any update (crash-recovery.md): once
\* the new file has been synced, whichever slots survive, the newest valid one leads
\* to a tree and a free list none of whose pages a later, unfinished update
\* can have touched.
NewestIntact == Established => \A s \in SlotOutcomes : Safe(Newest(s[1], s[2]))

\* update returns success only for a durable version: whatever a power loss
\* keeps, recovery finds the last acknowledged version, or one whose
\* publication reached the slot write and was never answered with success.
AckedSurvives == Established => \A s \in SlotOutcomes : Newest(s[1], s[2]).version \in {acked} \cup maybe

\* The pages of the file are partitioned among the tree, the free list and the
\* pages waiting to be freed; no page is lost and none has two owners
\* (validateExistingPageID, freePage and publishRoot never refuse one).
Ownership ==
    IsOpen =>
      LET owners == <<TreePages(IF Updating THEN work ELSE pm.tree),
                      IF pc \in {"list", "publish", "syncMetadata"} THEN meta.free ELSE pm.free,
                      IF pc \in {"list", "publish", "syncMetadata"} THEN meta.retired
                      ELSE pm.retired \cup pm.pending \cup pm.list,
                      IF pc \in {"list", "publish", "syncMetadata"} THEN meta.list ELSE {}>>
      IN /\ UNION {owners[i] : i \in 1 .. 4} = {p \in Page : p < pm.next}
         /\ \A i, j \in 1 .. 4 : i # j => owners[i] \cap owners[j] = {}
         /\ pm.retired \cap (pm.pending \cup pm.list) = {}
         /\ pm.pending \cap pm.list = {}

\* An acknowledged commit leaves two complete generations behind: the slot it
\* did not write is still loadable, so damage to the new slot alone
\* (crash-recovery.md: "the previous valid slot can still be used") loses one
\* update and not the database.
CommitKeepsFallback ==
    [][pc = "syncMetadata" /\ acked' = version /\ pc' = "idle"
         => \A i \in 0 .. 1 : Safe(slot[i])']_vars

\* crash-recovery.md: a write that does not return "must still reopen to a
\* valid previous tree": once a commit was acknowledged, Open finds a record
\* it can load.
ReopensAfterCommit == pc = "recover" /\ acked > 0 => CanRecover

\* The version callers of the open handle read.
View == IF IsOpen THEN (IF Updating THEN saved.version ELSE pm.version) ELSE -1

\* The abstract store the file and the open handle implement.
Store == INSTANCE AtomicStore
            WITH bound <- acked, doubtful <- maybe, last <- version, view <- View

\* KV implements an atomic versioned store through every interleaving of
\* update steps, I/O errors, process crashes and power losses: what Open and
\* repair show is always the last acknowledged version or one in doubt.
ImplementsAtomicStore == Store!Spec

=============================================================================
