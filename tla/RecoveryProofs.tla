--------------------------- MODULE RecoveryProofs ---------------------------
(***************************************************************************)
(* The recovery guarantee of DurableKV, proved for every value of the      *)
(* constants: whatever a crash keeps of the unsynced writes, the newest    *)
(* valid slot leads to an intact tree and free list, and its version is    *)
(* one the callers were told of or may expect.  From the same invariant:   *)
(* DurableKV implements AtomicStore, step by step; what an acknowledged    *)
(* commit leaves behind; and a committed store can be opened again.        *)
(***************************************************************************)
EXTENDS RecoveryFileProofs

USE SMTT(20), ZenonT(20)

(* An update keeps the invariant until its free-list snapshot is planned,  *)
(* and when it fails or is rolled back.                                    *)

\* change() hands out only spare pages.
LEMMA BeginUpdateKept ==
    ASSUME TypeOK, RecoveryInv, BeginUpdate
    PROVE RecoveryInv' /\ (Promise => Promise')
<1>1. UNCHANGED <<file, disk, slot, slotDisk, size, sizeDisk, ghostVars>>
  BY DEF BeginUpdate, fileVars
<1>2. FileInv' /\ SameRecords
  BY <1>1, SameFile DEF RecoveryInv
<1>3. /\ pc = "idle" /\ ~uncertain /\ uncertain' = uncertain /\ pc' = "write"
      /\ saved' = pm /\ savedSize' = size /\ version' = version + 1
  BY DEF BeginUpdate
<1>4. Current(pm, size) /\ size >= 0 /\ size \in Int
  BY <1>3 DEF RecoveryInv, Stage, TypeOK
<1>5. Restorable'
  BY <1>1, <1>2, <1>3, <1>4 DEF SameRecords, Restorable, Current, Agrees, Beyond
<1>6. ProcessTypeOK
  BY DEF TypeOK, ProcessTypeOK
<1>7. PICK taken, fresh, freed : Changes(taken, fresh, freed)
  BY <1>6, BeginUpdateChanges
<1>8. /\ pm'.next = pm.next + Cardinality(fresh) /\ pm'.free = pm.free \ taken
      /\ pm'.retired = pm.retired /\ pm'.list = pm.list /\ pm'.generation = pm.generation
      /\ pm.next \in Nat /\ Cardinality(fresh) \in Nat
  BY <1>7 DEF Changes, TypeOK, PageManager
<1>9. /\ todo' = taken \cup fresh /\ taken \subseteq pm.free /\ fresh \subseteq Page
      /\ fresh = pm.next .. (pm.next + Cardinality(fresh) - 1)
      /\ \A p \in Page : work'[p] = IF p \in freed THEN 0
                                     ELSE IF p \in taken \cup fresh THEN version + 1
                                     ELSE pm.tree[p]
  BY <1>7 DEF Changes
<1>10. FromSaved'
  BY <1>3, <1>8 DEF FromSaved
<1>11. Reaches'
  <2>1. CASE Cardinality(fresh) = 0
    BY <1>1, <1>4, <1>8, <2>1 DEF Reaches, Current
  <2>2. CASE Cardinality(fresh) # 0
    BY <1>8, <1>9, <2>2 DEF Reaches
  <2> QED
    BY <2>1, <2>2
<1>12. \A p \in todo' : Spare(p)' /\ work'[p] \in {0, version'}
  <2>1. pm.free \subseteq Page
    BY DEF TypeOK, PageManager
  <2>2. \A p \in todo' : Spare(p)'
    BY <1>3, <1>8, <1>9 DEF Spare
  <2> QED
    BY <1>3, <1>9, <2>1, <2>2
<1>13. \A p \in TreePages(work') : p \in todo' \/ file'[p] = TreeNode(work'[p])
  <2>1. TopRecord.ok /\ pm.tree = TopRecord.tree
    BY <1>4 DEF Current, Agrees
  <2>2. TreeLoads(TopRecord)
    BY <1>4, <2>1, TopLoads DEF RecoveryInv, FileInv, Loads
  <2>3. \A p \in TreePages(work') : p \in Page /\ work'[p] # 0
    BY DEF TreePages
  <2>4. \A p \in TreePages(work') : p \in todo' \/ (work'[p] = pm.tree[p] /\ p \in TreePages(pm.tree))
    BY <1>9, <2>3 DEF TreePages
  <2> QED
    BY <1>1, <2>1, <2>2, <2>4 DEF TreeLoads
<1>14. Writing'
  BY <1>10, <1>11, <1>12, <1>13 DEF Writing
<1>15. Stage'
  BY <1>3, <1>5, <1>14 DEF Stage
<1>16. Promise => Promise'
  BY <1>1, <1>2, <1>3, SamePromise
<1> QED
  BY <1>2, <1>15, <1>16 DEF RecoveryInv

\* Writing, or failing to write, a spare page damages no record.
LEMMA WritePageKept ==
    ASSUME TypeOK, RecoveryInv, WritePage \/ WritePageFails
    PROVE RecoveryInv' /\ (Promise => Promise')
<1>1. /\ pc = "write" /\ ~uncertain /\ uncertain' = uncertain
      /\ UNCHANGED <<slot, slotDisk, pm, saved, savedSize, work, version, ghostVars>>
      /\ pc' = IF WritePage THEN "write" ELSE "rollback"
  BY DEF WritePage, WritePageFails, updateVars, RecoveryInv, Stage
<1>2. PICK p \in todo : WriteData(p, TreeNode(version)) \/ WriteDataFails(p)
  BY DEF WritePage, WritePageFails
<1>3. Restorable /\ Writing /\ Medium /\ Records /\ Root
  BY <1>1 DEF RecoveryInv, FileInv, Stage
<1>4. p \in Page /\ Spare(p) /\ size >= 0
  BY <1>2, <1>3 DEF TypeOK, Writing, Restorable
<1>5. Formatted => p \notin PagesOf(TopRecord) /\ (~Settled => p \notin PagesOf(OtherRecord))
  BY <1>3, <1>4, SpareFree DEF Restorable, Current
<1>6. /\ Medium' /\ Records' /\ Root' /\ (Formatted' <=> Formatted) /\ size' >= size
  BY <1>1, <1>2, <1>3, <1>4, <1>5, WriteKept
<1>7. SameRecords
  BY <1>1, <1>6, SlotsKept DEF SameRecords
<1>8. size' \in Int
  BY <1>2, <1>4 DEF WriteData, WriteDataFails, TypeOK, Page
<1>9. Restorable'
  <2>1. Current(saved, savedSize)'
    BY <1>1, <1>3, <1>7 DEF SameRecords, Restorable, Current, Agrees, Beyond
  <2>2. savedSize' <= size' /\ savedSize' >= 0
    BY <1>1, <1>3, <1>6, <1>8 DEF Restorable, TypeOK
  <2> QED
    BY <2>1, <2>2 DEF Restorable
<1>10. Promise => Promise'
  BY <1>1, <1>7, SamePromise
<1>11. CASE WritePage
  <2>1. PICK q \in todo : WriteData(q, TreeNode(version)) /\ todo' = todo \ {q}
    BY <1>11 DEF WritePage
  <2>2. q \in Page /\ Spare(q)
    BY <2>1, <1>3 DEF TypeOK, Writing
  <2>3. Formatted => q \notin PagesOf(TopRecord) /\ (~Settled => q \notin PagesOf(OtherRecord))
    BY <1>3, <2>2, SpareFree DEF Restorable, Current
  <2>4. /\ \A r \in Page : r # q => file'[r] = file[r]
        /\ file'[q] = TreeNode(version) /\ size' >= q
    BY <1>1, <1>3, <1>4, <2>1, <2>2, <2>3, WriteKept
  <2>5. Reaches'
    <3>1. pm.next \in Nat /\ size \in Int /\ q \in Int
      BY <2>2 DEF TypeOK, PageManager, Page
    <3> QED
      BY SMTT(20), <1>1, <1>3, <1>6, <1>8, <2>1, <2>4, <3>1 DEF Writing, Reaches
  <2>6. \A r \in todo' : Spare(r)' /\ work'[r] \in {0, version'}
    BY <1>1, <1>3, <2>1 DEF Writing, Spare
  <2>7. \A r \in TreePages(work) : r \in Page /\ work[r] # 0
    BY DEF TreePages
  <2>8. \A r \in TreePages(work) : r \in todo' \/ file'[r] = TreeNode(work[r])
    BY <1>3, <2>1, <2>4, <2>7 DEF Writing
  <2>9. Writing'
    BY <1>1, <1>3, <2>5, <2>6, <2>8 DEF Writing, FromSaved
  <2>10. Stage'
    BY <1>1, <1>9, <1>11, <2>9 DEF Stage
  <2> QED
    BY <1>6, <1>10, <2>10 DEF RecoveryInv, FileInv
<1>12. CASE ~WritePage
  <2>1. Stage'
    BY <1>1, <1>9, <1>12 DEF Stage
  <2> QED
    BY <1>6, <1>10, <2>1 DEF RecoveryInv, FileInv
<1> QED
  BY <1>11, <1>12

\* The data fsync of update keeps the invariant, and settles the newest record.
LEMMA SyncDataKept ==
    ASSUME TypeOK, RecoveryInv, SyncData
    PROVE RecoveryInv' /\ (Promise => Promise')
<1>1. /\ pc = "write" /\ ~uncertain /\ uncertain' = uncertain /\ pc' = "snapshot" /\ todo = {}
      /\ UNCHANGED <<pm, saved, savedSize, work, todo, version>> /\ Sync
      /\ acked' = saved.version /\ maybe' = {}
  BY DEF SyncData, updateVars, RecoveryInv, Stage
<1>2. Restorable /\ Writing /\ Medium /\ Records /\ Root
  BY <1>1 DEF RecoveryInv, FileInv, Stage
<1>3. TopRecord.ok /\ size >= 0 /\ UNCHANGED <<file, size>>
  BY <1>1, <1>2 DEF Restorable, Current, Agrees, TypeOK, Sync
<1>4. /\ Medium' /\ Records' /\ Root' /\ Formatted' /\ Settled'
      /\ TopRecord' = TopRecord /\ OtherRecord' = OtherRecord
      /\ \A p \in Page : disk'[p] = {file[p]}
  BY <1>1, <1>2, <1>3, SyncKept
<1>5. Agrees(saved, TopRecord)' /\ Beyond(saved.next)'
  BY <1>1, <1>2, <1>4 DEF Restorable, Current, Agrees, Beyond
<1>6. \A p \in TreePages(work') : disk'[p] = {TreeNode(work'[p])}
  BY <1>1, <1>2, <1>4 DEF Writing, TreePages
<1>7. Preparing'
  BY <1>4, <1>5, <1>6 DEF Preparing
<1>8. FromSaved' /\ pm'.next - 1 <= size'
  BY <1>1, <1>2, <1>3 DEF Writing, FromSaved, Reaches
<1>9. Stage'
  BY <1>1, <1>3, <1>7, <1>8 DEF Stage
<1>10. Promise'
  BY <1>1, <1>2, <1>4 DEF Promise, Restorable, Current, Agrees
<1> QED
  BY <1>4, <1>9, <1>10 DEF RecoveryInv, FileInv

\* Rollback cuts off only pages past every record.
LEMMA RollbackKept ==
    ASSUME TypeOK, RecoveryInv, Rollback
    PROVE RecoveryInv' /\ (Promise => Promise')
<1>1. /\ pc = "rollback" /\ ~uncertain /\ uncertain' = uncertain /\ pc' = "idle" /\ pm' = saved
      /\ UNCHANGED <<slot, slotDisk, ghostVars>>
      /\ \/ Truncate(savedSize, savedRagged)
         \/ UNCHANGED <<file, disk, size, sizeDisk>>
  BY DEF Rollback, EndUpdate, ghostVars, RecoveryInv, Stage
<1>2. Restorable /\ Medium /\ Records /\ Root
  BY <1>1 DEF RecoveryInv, FileInv, Stage
<1>3. savedSize \in Nat /\ savedSize <= size /\ size \in Int
  BY <1>2 DEF Restorable, TypeOK
<1>4. TopRecord.count <= savedSize /\ (~Settled => OtherRecord.count <= savedSize)
  <2>1. TopRecord.count \in Nat /\ OtherRecord.count \in Nat
    BY TopFacts DEF Metadata
  <2>2. saved.next \in Nat
    BY DEF TypeOK, PageManager
  <2> QED
    BY <1>2, <1>3, <2>1, <2>2 DEF Restorable, Current, Beyond
<1>5. FileInv' /\ SameRecords /\ size' \in Int /\ savedSize <= size'
  <2>1. CASE Truncate(savedSize, savedRagged)
    <3>1. Medium' /\ Records' /\ Root' /\ (Formatted' <=> Formatted)
      BY <1>1, <1>2, <1>3, <1>4, <2>1, TruncateKept
    <3>2. size' = savedSize
      BY <2>1 DEF Truncate
    <3> QED
      BY <1>1, <1>3, <3>1, <3>2, SlotsKept DEF FileInv, SameRecords
  <2>2. CASE UNCHANGED <<file, disk, size, sizeDisk>>
    BY <1>1, <1>3, <2>2, SameFile DEF RecoveryInv
  <2> QED
    BY <1>1, <2>1, <2>2
<1>6. Current(saved, savedSize) /\ saved.next \in Nat
  BY <1>2 DEF Restorable, TypeOK, PageManager
<1>7. Current(saved, size')
  BY <1>3, <1>5, <1>6 DEF Current
<1>8. Current(pm, size)'
  BY <1>1, <1>5, <1>7 DEF SameRecords, Current, Agrees, Beyond
<1>9. Stage'
  BY <1>1, <1>3, <1>5, <1>8 DEF Stage
<1>10. Promise => Promise'
  BY <1>1, <1>5, SamePromise
<1> QED
  BY <1>5, <1>9, <1>10 DEF RecoveryInv

\* A failed sync or a refused page ID leaves the file alone.
LEMMA FailureKept ==
    ASSUME TypeOK, RecoveryInv,
           SyncDataFails \/ SnapshotFails \/ SyncListFails \/ SyncMetadataFails
    PROVE RecoveryInv' /\ (Promise => Promise')
<1>1. UNCHANGED <<file, disk, slot, slotDisk, size, sizeDisk, ghostVars>>
  BY DEF SyncDataFails, SnapshotFails, SyncListFails, SyncMetadataFails, PublishFails,
     fileVars, ghostVars
<1>2. FileInv' /\ SameRecords
  BY <1>1, SameFile DEF RecoveryInv
<1>3. pc' \in {"rollback", "idle"}
  BY DEF SyncDataFails, SnapshotFails, SyncListFails, SyncMetadataFails, PublishFails, EndUpdate
<1>4. Promise => Promise'
  BY <1>1, <1>2, <1>3, SamePromise
<1>5. Stage'
  <2>1. CASE SyncDataFails
    <3>1. /\ pc = "write" /\ pc' = "rollback" /\ ~uncertain /\ uncertain' = uncertain
          /\ UNCHANGED <<saved, savedSize>>
      BY <2>1 DEF SyncDataFails, updateVars, RecoveryInv, Stage
    <3>2. Restorable
      BY <3>1 DEF RecoveryInv, Stage
    <3>3. Restorable'
      BY <1>1, <1>2, <3>1, <3>2 DEF SameRecords, Restorable, Current, Agrees, Beyond
    <3> QED
      BY <3>1, <3>3 DEF Stage
  <2>2. CASE SnapshotFails \/ SyncListFails \/ SyncMetadataFails
    <3>1. pc' = "idle" /\ uncertain' /\ pc \in {"snapshot", "list", "syncMetadata"}
      BY SMTT(20), <2>2 DEF SnapshotFails, SyncListFails, SyncMetadataFails, PublishFails, EndUpdate
    <3>2. Formatted
      BY <3>1 DEF RecoveryInv, Stage, Preparing, Published
    <3> QED
      BY <1>2, <3>1, <3>2, UncertainStage DEF SameRecords
  <2> QED
    BY <2>1, <2>2
<1> QED
  BY <1>2, <1>4, <1>5 DEF RecoveryInv

\* The next free list is planned on pages that were free, retired or new.
LEMMA SnapshotKept ==
    ASSUME TypeOK, RecoveryInv, Snapshot
    PROVE RecoveryInv' /\ (Promise => Promise')
<1>1. /\ pc = "snapshot" /\ pc' = "list" /\ ~uncertain /\ uncertain' = uncertain
      /\ UNCHANGED <<file, disk, slot, slotDisk, size, sizeDisk, ghostVars>>
      /\ UNCHANGED <<saved, work, version>>
  BY DEF Snapshot, fileVars, RecoveryInv, Stage
<1>2. FileInv' /\ SameRecords
  BY <1>1, SameFile DEF RecoveryInv
<1>3. Preparing /\ size >= 0 /\ FromSaved /\ pm.next - 1 <= size
  BY <1>1 DEF RecoveryInv, Stage
<1>4. Preparing'
  BY <1>1, <1>2, <1>3 DEF SameRecords, Preparing, Agrees, Beyond
<1>5. PICK recycled \in SUBSET Recyclable :
          /\ todo' = recycled \cup FreshNodes
          /\ pm' = [pm EXCEPT !.next = @ + (ListPlan.nodes - ListPlan.reused)]
          /\ meta' = [ok |-> TRUE, generation |-> pm.generation + 1,
                      version |-> version, tree |-> work,
                      free |-> Eligible \ recycled, retired |-> Protected,
                      list |-> recycled \cup FreshNodes, count |-> pm'.next - 1]
  BY Zenon DEF Snapshot
<1>6. pm'.next = pm.next + (ListPlan.nodes - ListPlan.reused) /\ pm.next \in Nat
      /\ saved.next \in Nat
  BY <1>5 DEF TypeOK, PageManager
<1>7. ListPlan.nodes - ListPlan.reused \in Nat /\ recycled \subseteq Eligible
  <2>1. ProcessTypeOK
    BY DEF TypeOK, ProcessTypeOK
  <2> QED
    BY <2>1, ListPlanType
<1>8. /\ meta'.ok /\ meta'.generation = pm.generation + 1 /\ meta'.version = version
      /\ meta'.tree = work /\ meta'.free = Eligible \ recycled
      /\ meta'.list = recycled \cup FreshNodes /\ meta'.count = pm'.next - 1
  BY <1>5
<1>9. MetaPlan'
  <2>1. meta'.free \subseteq saved.free \cup saved.retired
    BY <1>3, <1>8 DEF Eligible, FromSaved
  <2>2. \A p \in FreshNodes : p >= saved.next
    BY <1>3, <1>6 DEF FreshNodes, FromSaved
  <2>3. \A p \in meta'.list : Spare(p)' \/ p \in saved'.retired
    BY <1>1, <1>3, <1>7, <1>8, <2>2 DEF Spare, Eligible, FromSaved
  <2> QED
    BY SMTT(20), <1>1, <1>3, <1>8, <2>1, <2>3 DEF MetaPlan, FromSaved
<1>10. Listing'
  <2>1. Reaches'
    <3>1. CASE ListPlan.nodes - ListPlan.reused = 0
      BY <1>1, <1>3, <1>6, <3>1 DEF Reaches
    <3>2. CASE ListPlan.nodes - ListPlan.reused # 0
      BY <1>5, <1>6, <1>7, <3>2 DEF Reaches, FreshNodes
    <3> QED
      BY <3>1, <3>2
  <2> QED
    BY <1>5, <1>8, <2>1 DEF Listing
<1>11. Stage'
  BY <1>1, <1>3, <1>4, <1>9, <1>10 DEF Stage
<1>12. Promise => Promise'
  BY <1>1, <1>2, SamePromise
<1> QED
  BY <1>2, <1>11, <1>12 DEF RecoveryInv

-----------------------------------------------------------------------------
(* Writing the free list and publishing keep the invariant.                 *)

\* Free-list nodes go to pages no record needs and the new tree does not use.
LEMMA WriteListNodeKept ==
    ASSUME TypeOK, RecoveryInv, OwnershipInv, WriteListNode \/ WriteListNodeFails
    PROVE RecoveryInv' /\ (Promise => Promise')
<1>1. /\ pc = "list" /\ ~uncertain /\ UNCHANGED <<slot, slotDisk, ghostVars>>
  BY DEF WriteListNode, WriteListNodeFails, PublishFails, ghostVars, RecoveryInv, Stage
<1>2. /\ Preparing /\ size >= 0 /\ MetaPlan /\ Listing /\ Medium /\ Records /\ Root
  BY <1>1 DEF RecoveryInv, FileInv, Stage
<1>3. \A p \in todo : /\ p \in Page
                      /\ p \notin PagesOf(TopRecord) /\ (~Settled => p \notin PagesOf(OtherRecord))
  <2> SUFFICES ASSUME NEW p \in todo
               PROVE /\ p \in Page
                     /\ p \notin PagesOf(TopRecord) /\ (~Settled => p \notin PagesOf(OtherRecord))
    OBVIOUS
  <2>1. p \in Page /\ (Spare(p) \/ (p \in saved.retired /\ Settled))
    BY <1>2 DEF TypeOK, Preparing, MetaPlan, Listing
  <2> QED
    BY <1>2, <2>1, SpareFree DEF Preparing
<1>4. PICK p \in todo : WriteData(p, ListNode(version)) \/ WriteDataFails(p)
  BY DEF WriteListNode, WriteListNodeFails
<1>5. /\ Medium' /\ Records' /\ Root' /\ (Formatted' <=> Formatted)
  BY <1>1, <1>2, <1>3, <1>4, WriteKept
<1>6. SameRecords
  BY <1>1, <1>5, SlotsKept DEF SameRecords
<1>7. CASE WriteListNode
  <2>1. PICK q \in todo : WriteData(q, ListNode(version)) /\ todo' = todo \ {q}
    BY <1>7 DEF WriteListNode
  <2>2. /\ pc' = "list" /\ uncertain' = uncertain
        /\ UNCHANGED <<pm, saved, work, meta, version>>
    BY <1>7 DEF WriteListNode
  <2>3. /\ \A r \in Page : r # q => file'[r] = file[r] /\ disk'[r] = disk[r]
        /\ file'[q] = ListNode(version) /\ size' >= q /\ size' >= size
    BY <1>1, <1>2, <1>3, <2>1, WriteKept
  <2>4. q \in Page /\ q \in meta.list /\ size \in Int /\ size' \in Int /\ pm.next \in Nat /\ q \in Int
    <3>1. q \in Page /\ q \in meta.list
      BY <1>2, <1>3, <2>1 DEF Listing
    <3>2. size \in Int /\ size' \in Int /\ q \in Int
      BY <2>1, <3>1 DEF WriteData, TypeOK, Page
    <3>3. pm.next \in Nat
      BY DEF TypeOK, PageManager
    <3> QED
      BY <3>1, <3>2, <3>3
  <2>5. q \notin TreePages(work)
    <3>1. Parts(TreePages(work), meta.free, meta.retired, {}, meta.list, pm.next)
      BY <1>1 DEF OwnershipInv, Publishing
    <3> QED
      BY <2>4, <3>1 DEF Parts
  <2>6. \A r \in TreePages(work) : r \in Page
    BY DEF TreePages
  <2>7. Preparing'
    BY <1>2, <1>6, <2>2, <2>3, <2>5, <2>6 DEF SameRecords, Preparing, Agrees, Beyond
  <2>8. MetaPlan'
    BY <1>2, <2>2 DEF MetaPlan, Spare
  <2>9. Reaches'
    BY <1>2, <2>1, <2>2, <2>3, <2>4 DEF Listing, Reaches
  <2>10. meta.list \subseteq Page
    BY DEF TypeOK, Metadata
  <2>11. Listing'
    BY <1>2, <2>1, <2>2, <2>3, <2>9, <2>10 DEF Listing
  <2>12. size' >= 0
    BY <1>2, <2>3, <2>4
  <2>13. Stage'
    BY <1>1, <2>2, <2>7, <2>8, <2>11, <2>12 DEF Stage
  <2>14. Promise => Promise'
    BY <1>1, <1>6, <2>2, SamePromise
  <2> QED
    BY <1>5, <2>13, <2>14 DEF RecoveryInv, FileInv
<1>8. CASE WriteListNodeFails
  <2>1. pc' = "idle" /\ uncertain'
    BY <1>8 DEF WriteListNodeFails, PublishFails, EndUpdate
  <2>2. Stage'
    BY <1>2, <1>6, <2>1, UncertainStage DEF SameRecords, Preparing
  <2>3. Promise => Promise'
    BY <1>1, <1>6, <2>1, SamePromise
  <2> QED
    BY <1>5, <2>2, <2>3 DEF RecoveryInv, FileInv
<1> QED
  BY <1>7, <1>8

\* syncFreeList completes the record before it is published.
LEMMA SyncListKept ==
    ASSUME TypeOK, RecoveryInv, OwnershipInv, SyncList
    PROVE RecoveryInv' /\ (Promise => Promise')
<1>1. /\ pc = "list" /\ pc' = "publish" /\ ~uncertain /\ uncertain' = uncertain /\ todo = {}
      /\ UNCHANGED <<pm, saved, work, todo, meta, version, ghostVars>> /\ Sync
  BY DEF SyncList, updateVars, RecoveryInv, Stage
<1>2. /\ Preparing /\ size >= 0 /\ MetaPlan /\ Listing /\ Medium /\ Records /\ Root
  BY <1>1 DEF RecoveryInv, FileInv, Stage
<1>3. TopRecord.ok /\ UNCHANGED <<file, size>>
  BY <1>1, <1>2 DEF Preparing, Agrees, Sync
<1>4. /\ Medium' /\ Records' /\ Root' /\ Formatted' /\ Settled'
      /\ TopRecord' = TopRecord /\ OtherRecord' = OtherRecord
      /\ \A p \in Page : disk'[p] = {file[p]}
      /\ sizeDisk' = {size}
  BY <1>1, <1>2, <1>3, SyncKept
<1>5. SameRecords
  BY <1>2, <1>4 DEF SameRecords, Preparing
<1>6. \A p \in TreePages(work) : p \in Page /\ disk'[p] = {TreeNode(work[p])}
  BY <1>2, <1>4 DEF Preparing, Medium, TreePages
<1>7. Preparing'
  BY <1>1, <1>2, <1>5, <1>6 DEF SameRecords, Preparing, Agrees, Beyond
<1>8. MetaPlan'
  BY <1>1, <1>2 DEF MetaPlan, Spare
<1>9. SafeOn(meta, disk', sizeDisk')
  <2>1. meta.ok /\ meta.version = version /\ meta.tree = work /\ meta.count = pm.next - 1
    BY <1>2 DEF MetaPlan
  <2>2. meta.list \subseteq Page
    BY DEF TypeOK, Metadata
  <2>3. pm.next \in Nat
    BY DEF TypeOK, PageManager
  <2>4. Parts(TreePages(work), meta.free, meta.retired, {}, meta.list, pm.next)
    BY <1>1 DEF OwnershipInv, Publishing
  <2>5. \A p \in TreePages(work) \cup meta.list : p < pm.next /\ p \in Int
    BY <2>4 DEF Parts, Page
  <2>6. \A p \in TreePages(work) \cup meta.list : p <= meta.count
    BY <2>1, <2>3, <2>5
  <2>7. \A p \in meta.list : disk'[p] = {ListNode(meta.version)}
    BY <1>1, <1>2, <1>4, <2>1, <2>2 DEF Listing
  <2>8. meta.count <= size
    BY <1>1, <1>2, <2>1 DEF Listing, Reaches
  <2> QED
    BY SMTT(20), <1>4, <1>6, <2>1, <2>6, <2>7, <2>8 DEF SafeOn
<1>10. Safe(meta)'
  BY <1>1, <1>9 DEF Safe, SafeOn
<1>11. Stage'
  BY <1>1, <1>2, <1>3, <1>7, <1>8, <1>10 DEF Stage
<1>12. Promise => Promise'
  BY <1>1, <1>5, SamePromise
<1> QED
  BY <1>4, <1>11, <1>12 DEF RecoveryInv, FileInv

\* The slot write: the new record is complete, and so is the one before it.
LEMMA WriteMetadataKept ==
    ASSUME TypeOK, RecoveryInv, OwnershipInv, WriteMetadata \/ WriteMetadataFails
    PROVE RecoveryInv' /\ (Promise => Promise')
<1>1. /\ pc = "publish" /\ ~uncertain
      /\ UNCHANGED <<file, disk, size, sizeDisk, version, acked>>
  BY DEF WriteMetadata, WriteMetadataFails, PublishFails, RecoveryInv, Stage
<1>2. /\ Preparing /\ size >= 0 /\ MetaPlan /\ Safe(meta) /\ Medium /\ Records /\ Root
  BY <1>1 DEF RecoveryInv, FileInv, Stage
<1>3. /\ Formatted /\ Settled /\ Agrees(saved, TopRecord) /\ TopRecord.ok
  BY <1>2 DEF Preparing, Agrees
<1>4. meta \in Metadata /\ meta.generation = TopRecord.generation + 1
  BY <1>2, <1>3 DEF TypeOK, MetaPlan, Agrees
<1>5. Promise => acked = TopRecord.version
  BY <1>1, <1>3 DEF Promise
<1>6. CASE WriteMetadata
  <2>1. /\ WriteSlot(SlotOf(meta), meta) /\ pc' = "syncMetadata" /\ uncertain' = uncertain
        /\ maybe' = maybe \cup {version} /\ UNCHANGED <<meta, work, pm>>
    BY <1>6 DEF WriteMetadata, updateVars
  <2>2. OwnersDisjoint(meta)
    <3>1. Parts(TreePages(work), meta.free, meta.retired, {}, meta.list, pm.next)
      BY <1>1 DEF OwnershipInv, Publishing
    <3>2. meta.tree = work /\ meta.count = pm.next - 1
      BY <1>2 DEF MetaPlan
    <3>3. pm.next \in Nat
      BY DEF TypeOK, PageManager
    <3>4. \A p \in meta.free \cup meta.retired : p < pm.next /\ p \in Int
      BY <3>1 DEF Parts, Page
    <3>5. \A p \in meta.free \cup meta.retired : p <= meta.count
      BY <3>2, <3>3, <3>4
    <3> QED
      BY <3>1, <3>2, <3>5 DEF OwnersDisjoint, Parts
  <2>3. PagesOf(TopRecord) \cap meta.free = {}
    <3>1. Owned(saved, saved.tree)
      BY <1>1 DEF OwnershipInv, Updating
    <3>2. /\ PagesOf(TopRecord) = TreePages(saved.tree) \cup saved.list
          /\ meta.free \subseteq saved.free \cup saved.retired
      BY <1>2, <1>3 DEF Agrees, PagesOf, MetaPlan
    <3> QED
      BY <3>1, <3>2 DEF Owned, Parts
  <2>4. /\ Medium' /\ Records' /\ Root' /\ Formatted'
        /\ TopRecord' = meta /\ OtherRecord' = TopRecord
    BY SMTT(20), <1>1, <1>2, <1>3, <1>4, <2>1, <2>2, <2>3, PublishKept
  <2>5. meta.version = version /\ meta.tree = work /\ meta.count = pm.next - 1
    BY <1>2 DEF MetaPlan
  <2>6. Published'
    BY <1>1, <2>1, <2>4, <2>5 DEF Published
  <2>7. Stage'
    BY <1>1, <1>2, <2>1, <2>6 DEF Stage
  <2>8. Promise => Promise'
    BY <1>1, <1>5, <2>1, <2>4, <2>5 DEF Promise
  <2> QED
    BY <2>4, <2>7, <2>8 DEF RecoveryInv, FileInv
<1>7. CASE WriteMetadataFails
  <2>1. /\ WriteSlot(SlotOf(meta), BadMetadata) /\ pc' = "idle" /\ uncertain'
        /\ maybe' = maybe
    BY <1>7 DEF WriteMetadataFails, PublishFails, EndUpdate
  <2>2. SlotOf(meta) = 1 - Top
    BY <1>2, <1>3, <1>4, OtherSlot
  <2>3. /\ Medium' /\ Records' /\ Root' /\ Formatted' /\ Settled'
        /\ TopRecord' = TopRecord
    BY <1>1, <1>2, <1>3, <2>1, <2>2, TornKept
  <2>4. Stage'
    BY <2>1, <2>3, UncertainStage
  <2>5. Promise => Promise'
    BY <1>1, <1>5, <2>1, <2>3 DEF Promise
  <2> QED
    BY <2>3, <2>4, <2>5 DEF RecoveryInv, FileInv
<1> QED
  BY <1>6, <1>7

\* syncMetadata is the commit point.
LEMMA SyncMetadataKept ==
    ASSUME TypeOK, RecoveryInv, SyncMetadata
    PROVE RecoveryInv' /\ (Promise => Promise')
<1>1. /\ pc = "syncMetadata" /\ pc' = "idle" /\ ~uncertain /\ uncertain' = uncertain
      /\ Sync /\ UNCHANGED <<file, size>> /\ acked' = version /\ maybe' = {}
      /\ pm'.next = pm.next /\ pm'.generation = meta.generation /\ pm'.version = version
      /\ pm'.tree = work /\ pm'.free = meta.free /\ pm'.retired = meta.retired
      /\ pm'.list = meta.list
  BY DEF SyncMetadata, Install, EndUpdate, Sync, RecoveryInv, Stage
<1>2. Published /\ size >= 0 /\ Medium /\ Records /\ Root
  BY <1>1 DEF RecoveryInv, FileInv, Stage
<1>3. TopRecord.ok /\ TopRecord = meta /\ TopRecord.count = pm.next - 1 /\ TopRecord.count <= size
  BY <1>2 DEF Published, Root, Safe, Medium
<1>4. /\ Medium' /\ Records' /\ Root' /\ Formatted' /\ Settled'
      /\ TopRecord' = TopRecord
  BY <1>1, <1>2, <1>3, SyncKept
<1>5. pm.next \in Nat
  BY DEF TypeOK, PageManager
<1>6. Agrees(pm, TopRecord)'
  BY <1>1, <1>2, <1>3, <1>4 DEF Published, Agrees
<1>7. Beyond(pm.next)' /\ pm'.next - 1 <= size'
  BY <1>1, <1>3, <1>4, <1>5 DEF Beyond
<1>8. Stage'
  BY <1>1, <1>2, <1>6, <1>7 DEF Stage, Current
<1>9. Promise'
  BY <1>1, <1>2, <1>3, <1>4 DEF Promise, Published
<1> QED
  BY <1>4, <1>8, <1>9 DEF RecoveryInv, FileInv

\* A stuttering step keeps the invariant.
LEMMA StutterKept ==
    ASSUME TypeOK, RecoveryInv, UNCHANGED vars
    PROVE RecoveryInv' /\ (Promise => Promise')
<1>1. /\ UNCHANGED <<file, disk, slot, slotDisk, size, sizeDisk, ghostVars>>
      /\ UNCHANGED <<pc, pm, uncertain, saved, savedSize, work, todo, meta, version>>
  BY DEF vars, fileVars, updateVars
<1>2. FileInv' /\ SameRecords
  BY <1>1, SameFile DEF RecoveryInv
<1>3. (Formatted' <=> Formatted) /\ (Settled' <=> Settled) /\ TopRecord' = TopRecord
      /\ OtherRecord' = OtherRecord
  BY SMTT(20), <1>2 DEF SameRecords
<1>4. /\ Current(pm, size)' <=> Current(pm, size)
      /\ Restorable' <=> Restorable
      /\ Preparing' <=> Preparing
  BY <1>1, <1>3, ZenonT(30) DEF Restorable, Preparing, Current, Agrees, Beyond
<1>5. /\ Writing' <=> Writing
      /\ FromSaved' <=> FromSaved
      /\ MetaPlan' <=> MetaPlan
      /\ Listing' <=> Listing
  BY <1>1, ZenonT(30) DEF Writing, FromSaved, Reaches, Spare, MetaPlan, Listing
<1>6. (Published' <=> Published) /\ (Safe(meta)' <=> Safe(meta))
  BY <1>1, <1>3, ZenonT(30) DEF Published, Safe
<1>7. Stage'
  BY SMTT(20), <1>1, <1>3, <1>4, <1>5, <1>6 DEF RecoveryInv, Stage
<1> QED
  BY <1>1, <1>2, <1>7, SamePromise DEF RecoveryInv

\* Every step keeps the invariant.
LEMMA RecoveryStep ==
    ASSUME TypeOK, TypeOK', RecoveryInv, OwnershipInv, [Next]_vars
    PROVE RecoveryInv' /\ ("directory" \notin Faults /\ Promise => Promise')
BY SMTT(20), StartOpenKept, FormatKept, FormatSyncKept, SyncFileKept, RecoverKept,
   BeginUpdateKept, WritePageKept, SyncDataKept, RollbackKept, FailureKept, SnapshotKept,
   WriteListNodeKept, SyncListKept, WriteMetadataKept, SyncMetadataKept, CrashKept, StutterKept
   DEF Next, OpenStep, UpdateStep, UpdateFailure

\* The invariant holds before the first Open.
LEMMA RecoveryInit == Init => RecoveryInv /\ Promise
<1> SUFFICES ASSUME Init PROVE RecoveryInv /\ Promise
  OBVIOUS
<1>1. /\ \A p \in Page : file[p] = Junk /\ disk[p] = {Junk}
      /\ \A i \in 0 .. 1 : slot[i] = BadMetadata /\ slotDisk[i] = {BadMetadata}
      /\ size = -1 /\ sizeDisk = {-1} /\ pc = "closed" /\ ~uncertain /\ acked = 0 /\ maybe = {}
  BY DEF Init
<1>2. Medium /\ Blank /\ ~Formatted
  BY <1>1 DEF Medium, Blank, Formatted
<1>3. Records
  BY <1>1 DEF Records, BadMetadata, FirstMetadata
<1>4. Stage
  BY <1>1 DEF Stage
<1> QED
  BY <1>1, <1>2, <1>3, <1>4 DEF RecoveryInv, FileInv, Root, Promise

-----------------------------------------------------------------------------
(* The theorems.                                                           *)

\* The inductive invariant holds in every reachable state.
LEMMA RecoveryInvariant ==
    Spec => [](TypeOK /\ RecoveryInv /\ ("directory" \notin Faults => Promise))
<1> DEFINE I == RecoveryInv /\ OwnershipInv /\ ("directory" \notin Faults => Promise)
<1>1. Init => I
  BY RecoveryInit DEF Init, OwnershipInv, Updating, Publishing
<1>2. TypeOK /\ TypeOK' /\ I /\ [Next]_vars => I'
  <2>1. TypeOK => ProcessTypeOK
    BY DEF TypeOK, ProcessTypeOK
  <2> QED
    BY <2>1, RecoveryStep, OwnershipStep
<1> QED
  BY <1>1, <1>2, TypeCorrect, PTL DEF Spec

\* Once a new file has been synced, whatever a crash between any two steps of
\* Open, update, rollback and repair keeps of the unsynced writes, the newest
\* valid metadata slot leads to a tree and a free list that are complete on
\* the medium: for files, trees and free lists of any size, any number of
\* updates and any of the modelled faults.
THEOREM RecoveryCorrect == Spec => []NewestIntact
<1>1. TypeOK /\ RecoveryInv /\ ("directory" \notin Faults => Promise) => NewestIntact
  BY IntactFollows DEF RecoveryInv, FileInv
<1> QED
  BY <1>1, RecoveryInvariant, PTL

\* If the directory entry of the new file survives, the version recovery finds
\* is the last one update acknowledged, or one whose publication reached the
\* slot write and was never answered with success.
THEOREM DurabilityCorrect == "directory" \notin Faults => (Spec => []AckedSurvives)
<1> SUFFICES ASSUME "directory" \notin Faults PROVE Spec => []AckedSurvives
  OBVIOUS
<1>1. TypeOK /\ RecoveryInv /\ ("directory" \notin Faults => Promise) => AckedSurvives
  BY AckedFollows DEF RecoveryInv, FileInv
<1> QED
  BY <1>1, RecoveryInvariant, PTL

-----------------------------------------------------------------------------
(* The moment before a commit.                                             *)

\* When only syncMetadata is missing, the version is in doubt, and the record
\* of either slot is complete on the medium.
Fallback ==
    pc = "syncMetadata" => version \in maybe /\ \A i \in 0 .. 1 : Safe(slot[i])

\* writeRootMetadataSlot writes a complete record and leaves the other alone.
LEMMA FallbackWritten ==
    ASSUME TypeOK, RecoveryInv, WriteMetadata
    PROVE version' \in maybe' /\ \A i \in 0 .. 1 : Safe(slot[i])'
<1>1. /\ pc = "publish" /\ WriteSlot(SlotOf(meta), meta) /\ version' = version
      /\ maybe' = maybe \cup {version} /\ UNCHANGED <<file, disk, size, sizeDisk>>
  BY DEF WriteMetadata
<1>2. Preparing /\ MetaPlan /\ Safe(meta) /\ Medium /\ Records /\ Root
  BY <1>1 DEF RecoveryInv, FileInv, Stage
<1>3. /\ Formatted /\ TopRecord.ok /\ Safe(TopRecord) /\ meta \in Metadata
      /\ meta.generation = TopRecord.generation + 1
  BY <1>2, Zenon DEF Preparing, Agrees, MetaPlan, Root, TypeOK
<1>4. SlotOf(meta) = 1 - Top /\ Top \in 0 .. 1 /\ 1 - Top \in 0 .. 1 /\ 1 - Top # Top
  BY <1>2, <1>3, OtherSlot, TopFacts
<1>5. slot'[1 - Top] = meta /\ slot'[Top] = TopRecord
  BY <1>1, <1>4 DEF WriteSlot, TypeOK, TopRecord
<1>6. \A i \in 0 .. 1 : i = Top \/ i = 1 - Top
  BY <1>4
<1>7. \A i \in 0 .. 1 : Safe(slot'[i])
  BY <1>2, <1>3, <1>5, <1>6
<1>8. \A i \in 0 .. 1 : Safe(slot[i])'
  BY <1>1, <1>7 DEF Safe
<1> QED
  BY <1>1, <1>8

\* No other step leads to the moment before a commit.
LEMMA FallbackStep ==
    ASSUME TypeOK, RecoveryInv, Fallback, [Next]_vars
    PROVE Fallback'
<1> SUFFICES ASSUME pc' = "syncMetadata" PROVE Fallback'
  BY DEF Fallback
<1>1. WriteMetadata \/ UNCHANGED vars
  BY Zenon DEF Next, OpenStep, UpdateStep, UpdateFailure, Close, Crash, StartOpen, Format, FormatSlot,
     FormatSync, SyncFile, SyncDirectory, Recover, RecoverFails, Repair, BeginUpdate, WritePage,
     SyncData, Snapshot, WriteListNode, SyncList, SyncMetadata, Install, EndUpdate, WritePageFails,
     SyncDataFails, Rollback, SnapshotFails, WriteListNodeFails, SyncListFails, WriteMetadataFails,
     SyncMetadataFails, PublishFails, ProcessCrash, PowerLoss, LoseFile, Forget
<1>2. CASE WriteMetadata
  BY <1>2, FallbackWritten DEF Fallback
<1>3. CASE UNCHANGED vars
  BY <1>3 DEF vars, fileVars, ghostVars, Fallback, Safe
<1> QED
  BY <1>1, <1>2, <1>3

\* The steps that answer the caller keep both records complete.
LEMMA FallbackKept ==
    ASSUME TypeOK, RecoveryInv, Fallback, [Next]_vars, pc = "syncMetadata", pc' = "idle"
    PROVE \A i \in 0 .. 1 : Safe(slot[i])'
<1>1. Sync \/ UNCHANGED fileVars
  BY ZenonT(30) DEF Next, OpenStep, UpdateStep, UpdateFailure, Close, Crash, StartOpen, Format, FormatSlot,
     FormatSync, SyncFile, SyncDirectory, Recover, RecoverFails, Repair, BeginUpdate, WritePage,
     SyncData, Snapshot, WriteListNode, SyncList, WriteMetadata, SyncMetadata, WritePageFails,
     SyncDataFails, Rollback, SnapshotFails, WriteListNodeFails, SyncListFails, WriteMetadataFails,
     SyncMetadataFails, ProcessCrash, PowerLoss, LoseFile, Forget, vars
<1>2. \A i \in 0 .. 1 : Safe(slot[i]) /\ slot[i] \in Metadata
  BY DEF Fallback, TypeOK
<1>3. CASE UNCHANGED fileVars
  BY <1>2, <1>3 DEF fileVars, Safe
<1>4. CASE Sync
  <2>1. /\ \A p \in Page : disk'[p] = {file[p]}
        /\ sizeDisk' = {size} /\ slot' = slot
    BY <1>4 DEF Sync
  <2>2. Medium
    BY DEF RecoveryInv, FileInv
  <2> SUFFICES ASSUME NEW i \in 0 .. 1 PROVE Safe(slot[i])'
    OBVIOUS
  <2> DEFINE m == slot[i]
  <2>3. SafeOn(m, disk, sizeDisk) /\ PagesOf(m) \subseteq Page
    BY <1>2 DEF Safe, SafeOn, PagesOf, TreePages, Metadata
  <2> HIDE DEF m
  <2>4. \A p \in PagesOf(m) : disk'[p] = disk[p]
    BY <2>1, <2>2, <2>3, Zenon DEF Medium, SafeOn, PagesOf
  <2>5. \A z \in sizeDisk' : z \in sizeDisk
    BY <2>1, <2>2 DEF Medium
  <2>6. SafeOn(m, disk', sizeDisk')
    BY <2>3, <2>4, <2>5, KeepsSafe
  <2> QED
    BY <2>1, <2>6 DEF Safe, SafeOn, m
<1> QED
  BY <1>1, <1>3, <1>4

-----------------------------------------------------------------------------
(* The steps of AtomicStore.                                               *)

\* What Open and repair find is what callers may expect.
LEMMA TopCandidate ==
    ASSUME TypeOK, RecoveryInv, Promise
    PROVE TopRecord.version \in {acked} \cup maybe
<1>1. Medium /\ Records /\ Root
  BY DEF RecoveryInv, FileInv
<1>2. CASE Formatted
  BY <1>2 DEF Promise
<1>3. CASE ~Formatted
  <2>1. TopRecord.version = 0
    BY <1>1, <1>3, BlankTop DEF Root
  <2> QED
    BY <1>3, <2>1 DEF Promise
<1> QED
  BY <1>2, <1>3

\* A handle that is open shows a version.
LEMMA ViewShown ==
    ASSUME TypeOK
    PROVE View # -1 <=> IsOpen
<1>1. pm.version \in Nat /\ saved.version \in Nat
  BY DEF TypeOK, PageManager
<1> QED
  BY <1>1 DEF View

\* Everything before the end of Open, and a failed Open, shows nothing.
LEMMA OpenRefines ==
    ASSUME StartOpen \/ Format \/ FormatSlot \/ FormatSync \/ SyncFile \/ SyncDirectory \/ RecoverFails
    PROVE UNCHANGED <<acked, maybe, View, version>>
<1>1. UNCHANGED <<acked, maybe, version>> /\ ~IsOpen
  BY DEF StartOpen, Format, FormatSlot, FormatSync, SyncFile, SyncDirectory, RecoverFails,
     ghostVars, IsOpen, Updating
<1>2. ~IsOpen'
  BY DEF StartOpen, Format, FormatSlot, FormatSync, SyncFile, SyncDirectory, RecoverFails,
     IsOpen, Updating
<1> QED
  BY <1>1, <1>2 DEF View

\* recoverCommittedPages, in Open and in repair, is Show.
LEMMA RecoverRefines ==
    ASSUME TypeOK, RecoveryInv, Promise, Recover \/ Repair
    PROVE Store!Show
<1>1. UNCHANGED <<acked, maybe, version>> /\ pc' = "idle" /\ size >= 0
  BY DEF Recover, Repair, ghostVars
<1>2. PICK i \in 0 .. 1 : Recoverable(slot[i]) /\ pm' = Loaded(slot[i])
  BY DEF Recover, Repair
<1>3. slot[i] = TopRecord
  BY <1>1, <1>2, RecoversTop DEF RecoveryInv, FileInv
<1>4. pm'.version = TopRecord.version
  BY <1>2, <1>3 DEF Loaded
<1>5. View' = pm'.version
  BY <1>1 DEF View, IsOpen, Updating
<1> QED
  BY <1>1, <1>4, <1>5, TopCandidate DEF Store!Show, Store!Candidates

\* The steps of update that neither answer the caller nor write a slot keep
\* what the handle shows: the version of the snapshot.
LEMMA UpdateRefines ==
    ASSUME \/ WritePage \/ WritePageFails \/ SyncDataFails \/ Snapshot \/ WriteListNode \/ SyncList
           \/ Rollback \/ SnapshotFails \/ WriteListNodeFails \/ SyncListFails
           \/ WriteMetadataFails \/ SyncMetadataFails
    PROVE UNCHANGED <<acked, maybe, View, version>>
<1>1. CASE WritePage \/ WritePageFails \/ SyncDataFails \/ Snapshot \/ WriteListNode \/ SyncList
  <2>1. UNCHANGED <<acked, maybe, version, saved>> /\ Updating /\ Updating'
    BY <1>1 DEF WritePage, WritePageFails, SyncDataFails, Snapshot, WriteListNode, SyncList,
       ghostVars, updateVars, Updating
  <2> QED
    BY <2>1 DEF View, IsOpen
<1>2. CASE \/ Rollback \/ SnapshotFails \/ WriteListNodeFails \/ SyncListFails
           \/ WriteMetadataFails \/ SyncMetadataFails
  <2>1. UNCHANGED <<acked, maybe, version>> /\ Updating /\ pc' = "idle" /\ pm' = saved
    BY <1>2, Zenon DEF Rollback, SnapshotFails, WriteListNodeFails, SyncListFails, WriteMetadataFails,
       SyncMetadataFails, PublishFails, EndUpdate, Updating
  <2>2. IsOpen' /\ ~Updating'
    BY <2>1 DEF IsOpen, Updating
  <2> QED
    BY <2>1, <2>2 DEF View, IsOpen
<1> QED
  BY <1>1, <1>2

\* update takes its snapshot: Propose.
LEMMA BeginRefines ==
    ASSUME TypeOK, BeginUpdate
    PROVE Store!Propose
<1>1. /\ pc = "idle" /\ pc' = "write" /\ saved' = pm /\ version' = version + 1
      /\ UNCHANGED <<acked, maybe>>
  BY DEF BeginUpdate, ghostVars
<1>2. IsOpen /\ ~Updating /\ IsOpen' /\ Updating'
  BY <1>1 DEF IsOpen, Updating
<1>3. View' = View
  BY <1>1, <1>2 DEF View
<1> QED
  BY <1>1, <1>2, <1>3, ViewShown DEF Store!Propose

\* syncData also makes durable what recovery adopted: Settle.
LEMMA SyncDataRefines ==
    ASSUME TypeOK, RecoveryInv, Promise, SyncData
    PROVE Store!Settle
<1>1. /\ pc = "write" /\ pc' = "snapshot" /\ acked' = saved.version /\ maybe' = {}
      /\ UNCHANGED <<saved, version>>
  BY DEF SyncData, updateVars
<1>2. saved.version = TopRecord.version
  BY <1>1, Zenon DEF RecoveryInv, Stage, Restorable, Current, Agrees
<1>3. View = saved.version /\ View' = saved.version
  BY <1>1 DEF View, IsOpen, Updating
<1> QED
  BY <1>1, <1>2, <1>3, TopCandidate DEF Store!Settle, Store!Candidates

\* The slot write puts the new version in doubt: Doubt.
LEMMA WriteMetadataRefines ==
    ASSUME TypeOK, WriteMetadata
    PROVE Store!Doubt
<1>1. /\ pc = "publish" /\ pc' = "syncMetadata" /\ maybe' = maybe \cup {version}
      /\ UNCHANGED <<saved, version, acked>>
  BY DEF WriteMetadata, updateVars
<1>2. IsOpen /\ View' = View
  BY <1>1 DEF View, IsOpen, Updating
<1> QED
  BY <1>1, <1>2, ViewShown DEF Store!Doubt

\* syncMetadata is the commit point: Commit.
LEMMA SyncMetadataRefines ==
    ASSUME TypeOK, Fallback, SyncMetadata
    PROVE Store!Commit
<1>1. /\ pc = "syncMetadata" /\ pc' = "idle" /\ acked' = version /\ maybe' = {}
      /\ version' = version /\ pm'.version = version
  BY DEF SyncMetadata, Install, EndUpdate
<1>2. IsOpen /\ View' = version
  BY <1>1 DEF View, IsOpen, Updating
<1> QED
  BY <1>1, <1>2, ViewShown DEF Store!Commit, Fallback

\* Close and the end of the process: Close.
LEMMA CloseRefines ==
    ASSUME Close \/ ProcessCrash \/ LoseFile
    PROVE Store!Close
<1>1. pc' = "closed" /\ UNCHANGED <<acked, maybe, version>>
  BY DEF Close, ProcessCrash, LoseFile, Forget, ghostVars
<1>2. View' = -1
  BY <1>1 DEF View, IsOpen, Updating
<1> QED
  BY <1>1, <1>2 DEF Store!Close

\* A power loss decides between the versions in question: Lose.
LEMMA PowerLossRefines ==
    ASSUME TypeOK, RecoveryInv, Promise, PowerLoss
    PROVE Store!Lose
<1>1. /\ pc' = "closed" /\ maybe' = {} /\ version' = version
      /\ acked' = Newest(slot'[0], slot'[1]).version
  BY DEF PowerLoss, Forget
<1>2. View' = -1
  BY <1>1 DEF View, IsOpen, Updating
<1>3. PICK s \in sizeDisk, s0 \in slotDisk[0], s1 \in slotDisk[1] :
          slot' = [i \in 0 .. 1 |-> IF s = -1 THEN BadMetadata ELSE IF i = 0 THEN s0 ELSE s1]
  BY DEF PowerLoss
<1>4. Medium /\ Records /\ Root
  BY DEF RecoveryInv, FileInv
<1>5. CASE Formatted
  <2>1. slot'[0] = s0 /\ slot'[1] = s1
    BY <1>3, <1>5 DEF Formatted
  <2>2. Newest(s0, s1) = TopRecord \/ (Newest(s0, s1) = OtherRecord /\ ~Settled)
    BY <1>4, <1>5, Outcomes
  <2>3. acked' \in {acked} \cup maybe
    BY <1>1, <1>5, <2>1, <2>2 DEF Promise
  <2> QED
    BY <1>1, <1>2, <2>3 DEF Store!Lose, Store!Candidates
<1>6. CASE ~Formatted
  <2>1. slot'[0] \in {BadMetadata, FirstMetadata} /\ slot'[1] \in {BadMetadata, FirstMetadata}
    BY <1>3, <1>4, <1>6 DEF Root, Blank
  <2>2. BadMetadata.version = 0 /\ FirstMetadata.version = 0
    BY DEF BadMetadata, FirstMetadata
  <2>3. acked' = 0
    BY <1>1, <2>1, <2>2 DEF Newest
  <2> QED
    BY <1>1, <1>2, <1>6, <2>3 DEF Store!Lose, Store!Candidates, Promise
<1> QED
  BY <1>5, <1>6

\* Every step of DurableKV is a step of AtomicStore or leaves it as it is.
LEMMA RefinementStep ==
    ASSUME TypeOK, RecoveryInv, Promise, Fallback, [Next]_vars
    PROVE [Store!Next]_(Store!vars)
<1>1. CASE UNCHANGED vars
  BY <1>1 DEF vars, ghostVars, updateVars, Store!vars, View, IsOpen, Updating
<1>2. CASE OpenStep
  BY <1>2, OpenRefines, RecoverRefines DEF OpenStep, Store!Next, Store!vars
<1>3. CASE UpdateStep
  BY <1>3, RecoverRefines, BeginRefines, UpdateRefines, SyncDataRefines, WriteMetadataRefines,
     SyncMetadataRefines DEF UpdateStep, Store!Next, Store!vars
<1>4. CASE UpdateFailure
  BY <1>4, UpdateRefines DEF UpdateFailure, Store!vars
<1>5. CASE Close \/ Crash
  BY <1>5, CloseRefines, PowerLossRefines DEF Crash, Store!Next
<1> QED
  BY <1>1, <1>2, <1>3, <1>4, <1>5 DEF Next

-----------------------------------------------------------------------------
(* The theorems.                                                           *)

\* Fallback holds in every reachable state.
LEMMA FallbackInvariant == Spec => []Fallback
<1>1. Init => Fallback
  BY DEF Init, Fallback
<1> QED
  BY <1>1, FallbackStep, RecoveryInvariant, PTL DEF Spec

\* An update that returns success leaves two complete generations: the slot it
\* did not write still leads to a tree and a free list on the medium, for trees
\* and free lists of any size, whatever failed before.
THEOREM FallbackCorrect == Spec => CommitKeepsFallback
<1>1. TypeOK /\ RecoveryInv /\ Fallback /\ [Next]_vars
        => [pc = "syncMetadata" /\ acked' = version /\ pc' = "idle"
              => \A i \in 0 .. 1 : Safe(slot[i])']_vars
  BY FallbackKept
<1> QED
  BY <1>1, FallbackInvariant, RecoveryInvariant, PTL DEF Spec, CommitKeepsFallback

\* KV implements the atomic versioned store: if the directory entry of the new
\* file survives, every step of Open, update, rollback and repair, every I/O
\* error and every crash is a step of AtomicStore or invisible to callers.
THEOREM Refinement == "directory" \notin Faults => (Spec => ImplementsAtomicStore)
<1> SUFFICES ASSUME "directory" \notin Faults PROVE Spec => ImplementsAtomicStore
  OBVIOUS
<1>1. Init => Store!Init
  BY DEF Init, Store!Init, View, IsOpen, Updating
<1>2. /\ TypeOK /\ RecoveryInv /\ ("directory" \notin Faults => Promise) /\ Fallback /\ [Next]_vars
      => [Store!Next]_(Store!vars)
  BY RefinementStep
<1> QED
  BY <1>1, <1>2, FallbackInvariant, RecoveryInvariant, PTL DEF Spec, ImplementsAtomicStore, Store!Spec

\* Without short appends the file always ends at a page boundary.
Aligned == ~ragged /\ ~savedRagged

\* Only a short append leaves a partial page.
LEMMA AlignedStep ==
    ASSUME Aligned, "short" \notin Faults, [Next]_vars
    PROVE Aligned'
<1> USE DEF Aligned
<1>1. CASE UNCHANGED vars
  BY <1>1 DEF vars, fileVars, updateVars
<1>2. CASE OpenStep
  <2>1. CASE StartOpen \/ FormatSlot
    BY <2>1 DEF StartOpen, FormatSlot, WriteSlot, fileVars, updateVars
  <2>2. CASE Format
    BY <2>2 DEF Format, updateVars
  <2>3. CASE FormatSync \/ SyncFile \/ SyncDirectory
    BY <2>3 DEF FormatSync, SyncFile, SyncDirectory, Sync, fileVars, updateVars
  <2>4. CASE Recover \/ RecoverFails
    BY <2>4 DEF Recover, RecoverFails, fileVars, updateVars
  <2> QED
    BY <1>2, <2>1, <2>2, <2>3, <2>4 DEF OpenStep
<1>3. CASE UpdateStep
  <2>1. ASSUME NEW p, NEW c, WriteData(p, c), UNCHANGED savedRagged
        PROVE Aligned'
    BY <2>1, Zenon DEF WriteData
  <2>2. CASE WritePage \/ WriteListNode
    BY <2>1, <2>2 DEF WritePage, WriteListNode
  <2>3. CASE Repair \/ Snapshot \/ SyncData \/ SyncList
    BY <2>3 DEF Repair, Snapshot, SyncData, SyncList, Sync, fileVars, updateVars
  <2>4. CASE WriteMetadata \/ SyncMetadata
    BY <2>4 DEF WriteMetadata, SyncMetadata, Sync, Install, EndUpdate, updateVars
  <2>5. CASE BeginUpdate
    <3>1. savedRagged' = ragged /\ UNCHANGED fileVars
      BY <2>5 DEF BeginUpdate
    <3> QED
      BY <3>1 DEF fileVars
  <2> QED
    BY <1>3, <2>2, <2>3, <2>4, <2>5 DEF UpdateStep
<1>4. CASE UpdateFailure
  <2>1. ASSUME NEW p, WriteDataFails(p)
        PROVE ~ragged'
    BY <2>1, Zenon DEF WriteDataFails
  <2>2. CASE WritePageFails \/ WriteListNodeFails
    <3>1. savedRagged' = savedRagged \/ savedRagged' = FALSE
      BY <2>2 DEF WritePageFails, WriteListNodeFails, PublishFails, EndUpdate, updateVars
    <3>2. \E p : WriteDataFails(p)
      BY <2>2 DEF WritePageFails, WriteListNodeFails
    <3> QED
      BY <2>1, <3>1, <3>2
  <2>3. CASE Rollback
    <3>1. savedRagged' = FALSE /\ (ragged' = savedRagged \/ ragged' = ragged)
      BY <2>3 DEF Rollback, EndUpdate, Truncate
    <3> QED
      BY <3>1
  <2>4. CASE SyncDataFails \/ SnapshotFails \/ SyncListFails \/ WriteMetadataFails \/ SyncMetadataFails
    BY <2>4 DEF SyncDataFails, SnapshotFails, SyncListFails, WriteMetadataFails, SyncMetadataFails,
       PublishFails, EndUpdate, fileVars, updateVars
  <2> QED
    BY <1>4, <2>2, <2>3, <2>4 DEF UpdateFailure
<1>5. CASE Close \/ Crash
  <2>1. savedRagged' = FALSE
    BY <1>5, Zenon DEF Close, Crash, ProcessCrash, PowerLoss, LoseFile, Forget
  <2>2. ragged' = ragged \/ ragged' = FALSE
    BY <1>5, Zenon DEF Close, Crash, ProcessCrash, PowerLoss, LoseFile, fileVars
  <2> QED
    BY <2>1, <2>2
<1> QED
  BY <1>1, <1>2, <1>3, <1>4, <1>5 DEF Next

\* recoverCommittedPages finds the newest record of a file that was synced once.
LEMMA RecoveryPossible ==
    ASSUME TypeOK, RecoveryInv, Promise, ~ragged, acked > 0
    PROVE CanRecover
<1>1. Formatted
  BY DEF Promise
<1>2. Medium /\ Records /\ Root
  BY DEF RecoveryInv, FileInv
<1>3. size >= 0
  BY <1>1, <1>2 DEF Formatted, Medium, TypeOK
<1>4. TopRecord.ok /\ Loads(TopRecord)
  BY <1>1, <1>2, <1>3, TopLoads DEF Root
<1>5. Top \in 0 .. 1 /\ TopRecord \in {slot[0], slot[1]} /\ TopRecord \in Metadata
  BY TopFacts DEF TopRecord
<1>6. ASSUME NEW i \in 0 .. 1, Loads(slot[i])
      PROVE slot[i].generation <= TopRecord.generation
  <2>1. i = Top \/ i = 1 - Top
    BY TopFacts
  <2>2. CASE i = Top
    BY <1>5, <2>2 DEF TopRecord, Metadata
  <2>3. CASE i = 1 - Top
    <3>1. slot[i] = OtherRecord /\ slot[i].ok
      BY <1>6, <2>3 DEF OtherRecord, Loads, SlotDecodes
    <3>2. OtherRecord.generation < TopRecord.generation
      BY <1>2, <3>1, TopNewest
    <3> QED
      BY <3>1, <3>2, TopFacts DEF Metadata
  <2> QED
    BY <2>1, <2>2, <2>3
<1>7. Recoverable(slot[Top])
  BY <1>4, <1>5, <1>6 DEF Recoverable, TopRecord
<1> QED
  BY <1>3, <1>5, <1>7 DEF CanRecover

\* A store that acknowledged a commit can be opened again after any sequence of
\* I/O errors and crashes, unless a short append left a partial page or the
\* directory entry was lost: those two are the only ways Open can refuse it.
THEOREM ReopeningCorrect ==
    {"short", "directory"} \cap Faults = {} => (Spec => []ReopensAfterCommit)
<1> SUFFICES ASSUME "short" \notin Faults, "directory" \notin Faults
             PROVE Spec => []ReopensAfterCommit
  OBVIOUS
<1>1. Init => Aligned
  BY DEF Init, Aligned
<1>2. Aligned /\ [Next]_vars => Aligned'
  BY AlignedStep
<1>3. TypeOK /\ RecoveryInv /\ ("directory" \notin Faults => Promise) /\ Aligned
        => ReopensAfterCommit
  BY RecoveryPossible DEF ReopensAfterCommit, Aligned
<1> QED
  BY <1>1, <1>2, <1>3, RecoveryInvariant, PTL DEF Spec
=============================================================================
