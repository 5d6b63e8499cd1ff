-------------------------- MODULE DurableKVProofs --------------------------
(***************************************************************************)
(* Type correctness and page ownership of DurableKV for every page limit,  *)
(* every number of updates, every free-list node capacity and every set of *)
(* faults: in every state of an open handle its pages are partitioned      *)
(* among their owners.                                                     *)
(***************************************************************************)
EXTENDS DurableKV, FiniteSetTheorems, TLAPS

USE SMTT(20), ZenonT(20)

\* The constant records are of their types.
LEMMA ConstantTypes ==
    /\ Junk \in Content
    /\ \A v \in Nat : TreeNode(v) \in Content /\ ListNode(v) \in Content
    /\ FirstMetadata \in Metadata
    /\ BadMetadata \in Metadata
    /\ NoPageManager \in PageManager
    /\ NoTree \in [Page -> Nat]
<1>1. NoTree \in [Page -> Nat]
  BY DEF NoTree
<1>2. FirstMetadata \in Metadata
  BY <1>1 DEF FirstMetadata, Metadata
<1>3. BadMetadata \in Metadata
  BY <1>2, Zenon DEF BadMetadata, Metadata
<1>4. NoPageManager \in PageManager
  BY <1>1 DEF NoPageManager, PageManager
<1>5. Junk \in Content /\ \A v \in Nat : TreeNode(v) \in Content /\ ListNode(v) \in Content
  BY DEF Junk, TreeNode, ListNode, Content
<1> QED
  BY <1>1, <1>2, <1>3, <1>4, <1>5

\* Sets of pages are finite, so their sizes are numbers.
LEMMA PagesFinite ==
    \A S \in SUBSET Page : IsFiniteSet(S) /\ Cardinality(S) \in Nat
<1>1. IsFiniteSet(Page)
  BY FS_Interval, ConstantsAssumption DEF Page
<1> QED
  BY <1>1, FS_Subset, FS_CardinalityType

\* An interval has as many elements as its length.
LEMMA IntervalSize ==
    ASSUME NEW a \in Nat, NEW n \in Nat
    PROVE Cardinality(a .. (a + n - 1)) = n
<1>1. CASE n = 0
  <2>1. a .. (a + n - 1) = {}
    BY <1>1
  <2> QED
    BY <1>1, <2>1, FS_EmptySet
<1>2. CASE n # 0
  BY <1>2, FS_Interval
<1> QED
  BY <1>1, <1>2

\* writeFreeListSnapshot never plans to reuse more pages than it has nodes.
LEMMA NodePlanType ==
    ASSUME NEW total \in Nat, NEW reusable \in Nat
    PROVE /\ NodePlan(total, reusable).nodes \in Nat
          /\ NodePlan(total, reusable).reused \in Nat
          /\ NodePlan(total, reusable).reused <= NodePlan(total, reusable).nodes
<1> DEFINE reused(c) == IF c <= reusable THEN c ELSE reusable
           fixed == {c \in 1 .. CeilDiv(total, NodeCapacity) : NodesNeeded(total, reused(c)) = c}
           nodes == CHOOSE c \in fixed : TRUE
<1>1. CeilDiv(total, NodeCapacity) \in Nat
  BY ConstantsAssumption DEF CeilDiv
<1>2. CASE fixed = {}
  BY <1>1, <1>2 DEF NodePlan
<1>3. CASE fixed # {}
  <2>1. nodes \in fixed
    BY <1>3
  <2>2. nodes \in Nat
    BY <1>1, <2>1
  <2>3. NodePlan(total, reusable) = [nodes |-> nodes, reused |-> reused(nodes)]
    BY <1>3 DEF NodePlan
  <2> HIDE DEF nodes, fixed
  <2> QED
    BY <2>2, <2>3
<1> QED
  BY <1>2, <1>3

\* TypeOK in three parts: the file, the process, and the Boolean variables.
FileTypeOK ==
    /\ file \in [Page -> Content]
    /\ disk \in [Page -> SUBSET Content]
    /\ slot \in [0 .. 1 -> Metadata]
    /\ slotDisk \in [0 .. 1 -> SUBSET Metadata]
    /\ size \in Int /\ sizeDisk \in SUBSET Int
    /\ entry \in {"none", "volatile", "durable"}

ProcessTypeOK ==
    /\ pc \in PCs
    /\ pm \in PageManager /\ saved \in PageManager
    /\ savedSize \in Int
    /\ work \in [Page -> Nat]
    /\ todo \in SUBSET Page
    /\ meta \in Metadata
    /\ version \in Nat /\ acked \in Nat
    /\ maybe \in SUBSET Nat

FlagTypeOK ==
    /\ ragged \in BOOLEAN
    /\ created \in BOOLEAN
    /\ uncertain \in BOOLEAN
    /\ savedRagged \in BOOLEAN

\* The file operations keep the file's types.
LEMMA WriteDataType ==
    ASSUME FileTypeOK, NEW p \in Page, NEW c \in Content, WriteData(p, c),
           UNCHANGED <<slot, slotDisk, entry>>
    PROVE FileTypeOK'
BY ConstantTypes DEF FileTypeOK, WriteData, Page

\* A failing write of a data page (writePage's error path) keeps the file's types.
LEMMA WriteDataFailsType ==
    ASSUME FileTypeOK, NEW p \in Page, WriteDataFails(p), UNCHANGED <<slot, slotDisk, entry>>
    PROVE FileTypeOK'
BY ConstantTypes DEF FileTypeOK, WriteDataFails

\* Writing a metadata slot (writeRootMetadataSlot) keeps the file's types.
LEMMA WriteSlotType ==
    ASSUME FileTypeOK, NEW i \in 0 .. 1, NEW m \in Metadata, WriteSlot(i, m),
           UNCHANGED <<file, disk, size, sizeDisk, entry>>
    PROVE FileTypeOK'
BY ConstantTypes DEF FileTypeOK, WriteSlot

\* A successful fsync keeps the file's types.
LEMMA SyncType ==
    ASSUME FileTypeOK, Sync
    PROVE FileTypeOK'
BY DEF FileTypeOK, Sync

\* The Truncate of rollback keeps the file's types.
LEMMA TruncateType ==
    ASSUME FileTypeOK, NEW n \in Int, NEW b, Truncate(n, b),
           UNCHANGED <<slot, slotDisk, entry>>
    PROVE FileTypeOK'
BY ConstantTypes DEF FileTypeOK, Truncate

\* Recovery builds a page manager.
LEMMA LoadedType ==
    ASSUME size \in Int, size >= 0, NEW m \in Metadata
    PROVE Loaded(m) \in PageManager
BY DEF Loaded, Metadata, PageManager

\* The end of an update, and of the process, reset its variables.
LEMMA EndUpdateType ==
    ASSUME ProcessTypeOK, EndUpdate, pm' \in PageManager, version' = version,
           acked' \in Nat, maybe' \in SUBSET Nat
    PROVE ProcessTypeOK'
BY ConstantTypes DEF ProcessTypeOK, EndUpdate, PCs

\* A failed publication, which restores the snapshot, keeps the types of the process.
LEMMA PublishFailsType ==
    ASSUME ProcessTypeOK, PublishFails
    PROVE ProcessTypeOK'
<1>1. pm' \in PageManager /\ acked' \in Nat /\ maybe' \in SUBSET Nat
  BY DEF ProcessTypeOK, PublishFails
<1> QED
  BY <1>1, EndUpdateType DEF PublishFails

\* The end of the process leaves its variables at their initial values.
LEMMA ForgetType ==
    ASSUME ProcessTypeOK, Forget, version' = version,
           acked' \in Nat, maybe' \in SUBSET Nat
    PROVE ProcessTypeOK'
BY ConstantTypes DEF ProcessTypeOK, Forget, PCs

-----------------------------------------------------------------------------
(* The type invariant, action by action.                                   *)

\* Before the first Open every variable has its type.
LEMMA InitType == Init => FileTypeOK /\ ProcessTypeOK /\ FlagTypeOK
<1> SUFFICES ASSUME Init PROVE FileTypeOK /\ ProcessTypeOK /\ FlagTypeOK
  OBVIOUS
<1>1. FileTypeOK
  BY ConstantTypes DEF Init, FileTypeOK
<1>2. ProcessTypeOK
  BY ConstantTypes DEF Init, ProcessTypeOK, PCs
<1>3. FlagTypeOK
  BY Zenon DEF Init, FlagTypeOK
<1> QED
  BY <1>1, <1>2, <1>3

\* Every step of Open keeps the types.
LEMMA OpenStepType ==
    ASSUME FileTypeOK, ProcessTypeOK, OpenStep
    PROVE FileTypeOK' /\ ProcessTypeOK'
<1>1. CASE StartOpen
  <2>1. FileTypeOK'
    BY <1>1 DEF StartOpen, FileTypeOK
  <2>2. ProcessTypeOK'
    BY <1>1 DEF StartOpen, ProcessTypeOK, PCs, updateVars, ghostVars
  <2> QED
    BY <2>1, <2>2
<1>2. CASE Format
  <2>1. FileTypeOK'
    BY <1>2 DEF Format, FileTypeOK
  <2>2. ProcessTypeOK'
    BY <1>2 DEF Format, ProcessTypeOK, PCs, updateVars, ghostVars
  <2> QED
    BY <2>1, <2>2
<1>3. CASE FormatSlot
  <2>1. FileTypeOK'
    BY <1>3, WriteSlotType, ConstantTypes DEF FormatSlot
  <2>2. ProcessTypeOK'
    BY <1>3 DEF FormatSlot, ProcessTypeOK, PCs, updateVars, ghostVars
  <2> QED
    BY <2>1, <2>2
<1>4. CASE FormatSync
  <2>1. FileTypeOK'
    BY <1>4, SyncType DEF FormatSync
  <2>2. ProcessTypeOK'
    BY <1>4 DEF FormatSync, ProcessTypeOK, PCs, updateVars, ghostVars
  <2> QED
    BY <2>1, <2>2
<1>5. CASE SyncDirectory
  <2>1. FileTypeOK'
    BY <1>5 DEF SyncDirectory, FileTypeOK
  <2>2. ProcessTypeOK'
    BY <1>5 DEF SyncDirectory, ProcessTypeOK, PCs, updateVars, ghostVars
  <2> QED
    BY <2>1, <2>2
<1>6. CASE Recover
  <2>1. FileTypeOK'
    BY <1>6 DEF Recover, FileTypeOK, fileVars
  <2>2. pm' \in PageManager
    BY <1>6, LoadedType DEF Recover, FileTypeOK
  <2>3. ProcessTypeOK'
    BY <1>6, <2>2 DEF Recover, ProcessTypeOK, PCs, updateVars, ghostVars
  <2> QED
    BY <2>1, <2>3
<1>7. CASE RecoverFails
  <2>1. FileTypeOK'
    BY <1>7 DEF RecoverFails, FileTypeOK, fileVars
  <2>2. ProcessTypeOK'
    BY <1>7 DEF RecoverFails, ProcessTypeOK, PCs, updateVars, ghostVars
  <2> QED
    BY <2>1, <2>2
<1>8. CASE SyncFile
  <2>1. FileTypeOK'
    BY <1>8, SyncType DEF SyncFile
  <2>2. ProcessTypeOK'
    BY <1>8 DEF SyncFile, ProcessTypeOK, PCs, updateVars, ghostVars
  <2> QED
    BY <2>1, <2>2
<1> QED
  BY <1>1, <1>2, <1>3, <1>4, <1>5, <1>6, <1>7, <1>8 DEF OpenStep

\* reservePage and publishRoot move nextPageID by a number of pages.
LEMMA ListPlanType ==
    ASSUME ProcessTypeOK
    PROVE /\ ListPlan.nodes \in Nat /\ ListPlan.reused \in Nat
          /\ ListPlan.reused <= ListPlan.nodes
          /\ Eligible \in SUBSET Page /\ Protected \in SUBSET Page
          /\ Recyclable \in SUBSET Eligible
<1>1. Eligible \in SUBSET Page /\ Protected \in SUBSET Page /\ Recyclable \in SUBSET Eligible
  BY DEF ProcessTypeOK, PageManager, Eligible, Protected, Recyclable
<1>2. /\ Cardinality(Eligible) + Cardinality(Protected) \in Nat
      /\ Cardinality(Recyclable) \in Nat
  BY <1>1, PagesFinite
<1> QED
  BY <1>1, <1>2, NodePlanType DEF ListPlan

\* change() allocates the free pages `taken` and the pages `fresh` past the
\* end, and retires the pages `freed`.
Changes(taken, fresh, freed) ==
    /\ taken \in SUBSET pm.free
    /\ fresh \in SUBSET Page
    /\ freed \in SUBSET Page
    /\ freed \subseteq TreePages(pm.tree) \cup taken \cup fresh
    /\ Cardinality(fresh) \in Nat
    /\ fresh = pm.next .. (pm.next + Cardinality(fresh) - 1)
    /\ todo' = taken \cup fresh
    /\ pm' = [pm EXCEPT !.next = @ + Cardinality(fresh),
                        !.free = @ \ taken,
                        !.pending = @ \cup freed]
    /\ work' = [p \in Page |-> IF p \in freed THEN 0
                               ELSE IF p \in taken \cup fresh THEN version + 1
                               ELSE pm.tree[p]]

\* What change() does to the page manager, without the bounds of the model.
LEMMA BeginUpdateChanges ==
    ASSUME ProcessTypeOK, BeginUpdate
    PROVE \E taken, fresh, freed : Changes(taken, fresh, freed)
<1>1. PICK n \in 0 .. MaxNew, taken \in SUBSET pm.free :
          LET live == TreePages(pm.tree)
              fresh == pm.next .. (pm.next + (n - Cardinality(taken)) - 1)
              new == taken \cup fresh
          IN /\ Reserve(n, taken, fresh)
             /\ \E freed \in SUBSET (live \cup new) :
                /\ live # {} => freed \cap live # {}
                /\ live = {} => new \ freed # {}
                /\ Cardinality((live \cup new) \ freed) <= MaxTree
                /\ pm' = [pm EXCEPT !.next = @ + Cardinality(fresh),
                                    !.free = @ \ taken,
                                    !.pending = @ \cup freed]
                /\ work' = [p \in Page |-> IF p \in freed THEN 0
                                           ELSE IF p \in new THEN version + 1
                                           ELSE pm.tree[p]]
                /\ todo' = new
  BY ZenonT(30) DEF BeginUpdate
<1> DEFINE fresh == pm.next .. (pm.next + (n - Cardinality(taken)) - 1)
<1>2. PICK freed \in SUBSET (TreePages(pm.tree) \cup (taken \cup fresh)) :
                /\ pm' = [pm EXCEPT !.next = @ + Cardinality(fresh),
                                    !.free = @ \ taken,
                                    !.pending = @ \cup freed]
                /\ work' = [p \in Page |-> IF p \in freed THEN 0
                                           ELSE IF p \in taken \cup fresh THEN version + 1
                                           ELSE pm.tree[p]]
                /\ todo' = taken \cup fresh
  BY <1>1, Zenon
<1>3. pm.free \in SUBSET Page /\ pm.next \in Nat /\ n \in Nat
  BY ConstantsAssumption DEF ProcessTypeOK, PageManager
<1>4. Cardinality(pm.free) \in Nat /\ taken \in SUBSET Page
  BY <1>3, PagesFinite
<1>5. Reserve(n, taken, fresh)
  BY <1>1
<1>6. n - Cardinality(taken) \in Nat
  BY <1>3, <1>4, <1>5 DEF Reserve
<1>7. Cardinality(fresh) = n - Cardinality(taken)
  BY <1>3, <1>6, IntervalSize, Zenon
<1>8. fresh \in SUBSET Page
  BY <1>5 DEF Reserve
<1>9. freed \in SUBSET Page
  BY <1>4, <1>8 DEF TreePages
<1>10. fresh = pm.next .. (pm.next + Cardinality(fresh) - 1)
  BY <1>7
<1> HIDE DEF fresh
<1>11. Changes(taken, fresh, freed)
  BY <1>2, <1>6, <1>7, <1>8, <1>9, <1>10 DEF Changes
<1> QED
  BY SMTT(20), <1>11

\* Every successful step of update, repair included, keeps the types.
LEMMA UpdateStepType ==
    ASSUME FileTypeOK, ProcessTypeOK, UpdateStep
    PROVE FileTypeOK' /\ ProcessTypeOK'
<1>1. CASE Repair
  <2>1. FileTypeOK'
    BY <1>1 DEF Repair, FileTypeOK, fileVars
  <2>2. pm' \in PageManager
    BY <1>1, LoadedType DEF Repair, FileTypeOK
  <2>3. ProcessTypeOK'
    BY <1>1, <2>2 DEF Repair, ProcessTypeOK, updateVars, ghostVars
  <2> QED
    BY <2>1, <2>3
<1>2. CASE BeginUpdate
  <2>1. FileTypeOK'
    BY <1>2 DEF BeginUpdate, FileTypeOK, fileVars
  <2>2. PICK taken, fresh, freed : Changes(taken, fresh, freed)
    BY <1>2, BeginUpdateChanges
  <2>3. pm' \in PageManager
    <3>1. pm.next + Cardinality(fresh) \in Nat \ {0}
      BY <2>2 DEF Changes, ProcessTypeOK, PageManager
    <3>2. pm.free \ taken \in SUBSET Page /\ pm.pending \cup freed \in SUBSET Page
      BY <2>2 DEF Changes, ProcessTypeOK, PageManager
    <3>3. pm' = [pm EXCEPT !.next = pm.next + Cardinality(fresh),
                           !.free = pm.free \ taken,
                           !.pending = pm.pending \cup freed]
      BY <2>2 DEF Changes
    <3> QED
      BY <3>1, <3>2, <3>3, Zenon DEF ProcessTypeOK, PageManager
  <2>4. work' \in [Page -> Nat]
    <3>1. pm.tree \in [Page -> Nat] /\ version + 1 \in Nat
      BY DEF ProcessTypeOK, PageManager
    <3> QED
      BY <2>2, <3>1 DEF Changes
  <2>5. todo' \in SUBSET Page
    BY <2>2 DEF Changes, ProcessTypeOK, PageManager
  <2>6. savedSize' \in Int /\ saved' \in PageManager /\ version' \in Nat
    BY <1>2 DEF BeginUpdate, ProcessTypeOK, FileTypeOK
  <2>7. ProcessTypeOK'
    BY <1>2, <2>3, <2>4, <2>5, <2>6 DEF BeginUpdate, ProcessTypeOK, PCs, ghostVars
  <2> QED
    BY <2>1, <2>7
<1>3. CASE WritePage
  <2>1. FileTypeOK'
    BY <1>3, WriteDataType, ConstantTypes DEF WritePage, ProcessTypeOK
  <2>2. ProcessTypeOK'
    BY <1>3 DEF WritePage, ProcessTypeOK, ghostVars
  <2> QED
    BY <2>1, <2>2
<1>4. CASE SyncData
  <2>1. FileTypeOK'
    BY <1>4, SyncType DEF SyncData
  <2>2. acked' \in Nat /\ maybe' \in SUBSET Nat
    BY <1>4 DEF SyncData, ProcessTypeOK, PageManager
  <2>3. ProcessTypeOK'
    BY <1>4, <2>2 DEF SyncData, ProcessTypeOK, PCs, updateVars
  <2> QED
    BY <2>1, <2>3
<1>5. CASE Snapshot
  <2>1. FileTypeOK'
    BY <1>5 DEF Snapshot, FileTypeOK, fileVars
  <2>2. PICK recycled \in SUBSET Recyclable :
          /\ todo' = recycled \cup FreshNodes
          /\ pm' = [pm EXCEPT !.next = @ + (ListPlan.nodes - ListPlan.reused)]
          /\ meta' = [ok |-> TRUE, generation |-> pm.generation + 1,
                      version |-> version, tree |-> work,
                      free |-> Eligible \ recycled, retired |-> Protected,
                      list |-> recycled \cup FreshNodes, count |-> pm'.next - 1]
    BY Zenon, <1>5 DEF Snapshot
  <2>3. FreshNodes \in SUBSET Page
    BY <1>5 DEF Snapshot
  <2>4. pm' \in PageManager
    BY <2>2, ListPlanType DEF ProcessTypeOK, PageManager
  <2>5. pm'.next - 1 \in Nat
    BY <2>4 DEF PageManager
  <2>6. meta' \in Metadata
    BY <2>2, <2>3, <2>5, ListPlanType DEF ProcessTypeOK, PageManager, Metadata
  <2>7. todo' \in SUBSET Page
    BY <2>2, <2>3, ListPlanType
  <2>8. ProcessTypeOK'
    BY <1>5, <2>4, <2>6, <2>7 DEF Snapshot, ProcessTypeOK, PCs, ghostVars
  <2> QED
    BY <2>1, <2>8
<1>6. CASE WriteListNode
  <2>1. FileTypeOK'
    BY <1>6, WriteDataType, ConstantTypes DEF WriteListNode, ProcessTypeOK
  <2>2. ProcessTypeOK'
    BY <1>6 DEF WriteListNode, ProcessTypeOK, ghostVars
  <2> QED
    BY <2>1, <2>2
<1>7. CASE SyncList
  <2>1. FileTypeOK'
    BY <1>7, SyncType DEF SyncList
  <2>2. ProcessTypeOK'
    BY <1>7 DEF SyncList, ProcessTypeOK, PCs, updateVars, ghostVars
  <2> QED
    BY <2>1, <2>2
<1>8. CASE WriteMetadata
  <2>1. SlotOf(meta) \in 0 .. 1
    BY DEF SlotOf, ProcessTypeOK, Metadata
  <2>2. FileTypeOK'
    BY <1>8, <2>1, WriteSlotType DEF WriteMetadata, ProcessTypeOK
  <2>3. ProcessTypeOK'
    BY <1>8 DEF WriteMetadata, ProcessTypeOK, PCs, updateVars
  <2> QED
    BY <2>2, <2>3
<1>9. CASE SyncMetadata
  <2>1. FileTypeOK'
    BY <1>9, SyncType DEF SyncMetadata
  <2>2. pm' \in PageManager
    BY <1>9 DEF SyncMetadata, Install, ProcessTypeOK, PageManager, Metadata
  <2>3. ProcessTypeOK'
    BY <1>9, <2>2, EndUpdateType DEF SyncMetadata, Install, ProcessTypeOK
  <2> QED
    BY <2>1, <2>3
<1> QED
  BY <1>1, <1>2, <1>3, <1>4, <1>5, <1>6, <1>7, <1>8, <1>9 DEF UpdateStep

\* Every error path of update keeps the types.
LEMMA UpdateFailureType ==
    ASSUME FileTypeOK, ProcessTypeOK, UpdateFailure
    PROVE FileTypeOK' /\ ProcessTypeOK'
<1>1. CASE WritePageFails
  <2>1. FileTypeOK'
    BY <1>1, WriteDataFailsType DEF WritePageFails, ProcessTypeOK
  <2>2. ProcessTypeOK'
    BY <1>1 DEF WritePageFails, ProcessTypeOK, PCs, updateVars, ghostVars
  <2> QED
    BY <2>1, <2>2
<1>2. CASE SyncDataFails
  <2>1. FileTypeOK'
    BY <1>2 DEF SyncDataFails, FileTypeOK, fileVars
  <2>2. ProcessTypeOK'
    BY <1>2 DEF SyncDataFails, ProcessTypeOK, PCs, updateVars, ghostVars
  <2> QED
    BY <2>1, <2>2
<1>3. CASE Rollback
  <2>1. Truncate(savedSize, savedRagged) => FileTypeOK'
    BY <1>3, TruncateType DEF Rollback, ProcessTypeOK
  <2>2. UNCHANGED <<file, disk, size, sizeDisk, ragged>> => FileTypeOK'
    BY <1>3 DEF Rollback, FileTypeOK
  <2>3. FileTypeOK'
    BY <1>3, <2>1, <2>2 DEF Rollback
  <2>4. ProcessTypeOK'
    BY <1>3, EndUpdateType DEF Rollback, ProcessTypeOK
  <2> QED
    BY <2>3, <2>4
<1>4. CASE SnapshotFails
  <2>1. FileTypeOK'
    BY <1>4 DEF SnapshotFails, FileTypeOK, fileVars
  <2> QED
    BY <1>4, <2>1, PublishFailsType DEF SnapshotFails
<1>5. CASE WriteListNodeFails
  <2>1. FileTypeOK'
    BY <1>5, WriteDataFailsType DEF WriteListNodeFails, ProcessTypeOK
  <2> QED
    BY <1>5, <2>1, PublishFailsType DEF WriteListNodeFails
<1>6. CASE SyncListFails
  <2>1. FileTypeOK'
    BY <1>6 DEF SyncListFails, FileTypeOK, fileVars
  <2> QED
    BY <1>6, <2>1, PublishFailsType DEF SyncListFails
<1>7. CASE WriteMetadataFails
  <2>1. SlotOf(meta) \in 0 .. 1
    BY DEF SlotOf, ProcessTypeOK, Metadata
  <2>2. FileTypeOK'
    BY <1>7, <2>1, WriteSlotType, ConstantTypes DEF WriteMetadataFails
  <2> QED
    BY <1>7, <2>2, PublishFailsType DEF WriteMetadataFails
<1>8. CASE SyncMetadataFails
  <2>1. FileTypeOK'
    BY <1>8 DEF SyncMetadataFails, FileTypeOK, fileVars
  <2> QED
    BY <1>8, <2>1, PublishFailsType DEF SyncMetadataFails
<1> QED
  BY <1>1, <1>2, <1>3, <1>4, <1>5, <1>6, <1>7, <1>8 DEF UpdateFailure

\* What a power loss leaves is made of what the medium may hold.
LEMMA PowerLossType ==
    ASSUME FileTypeOK, ProcessTypeOK, PowerLoss
    PROVE FileTypeOK' /\ ProcessTypeOK'
<1> DEFINE dirty == {p \in Page : disk[p] # {file[p]}}
<1>1. PICK s \in sizeDisk, s0 \in slotDisk[0], s1 \in slotDisk[1],
           kept \in [dirty -> UNION {disk[p] : p \in dirty}] :
         /\ \A p \in dirty : kept[p] \in disk[p]
         /\ file' = [p \in Page |-> IF p > s THEN Junk
                                    ELSE IF p \in dirty THEN kept[p] ELSE file[p]]
         /\ slot' = [i \in 0 .. 1 |-> IF s = -1 THEN BadMetadata
                                       ELSE IF i = 0 THEN s0 ELSE s1]
         /\ size' = s
  BY Zenon DEF PowerLoss
<1>2. \A p \in dirty : kept[p] \in Content
  BY <1>1 DEF FileTypeOK
<1>3. file' \in [Page -> Content]
  BY <1>1, <1>2, ConstantTypes DEF FileTypeOK
<1>4. s0 \in Metadata /\ s1 \in Metadata
  BY <1>1 DEF FileTypeOK
<1>5. slot' \in [0 .. 1 -> Metadata] /\ size' \in Int
  BY <1>1, <1>4, ConstantTypes DEF FileTypeOK
<1>6. FileTypeOK'
  BY <1>3, <1>5 DEF PowerLoss, FileTypeOK
<1>7. Newest(slot'[0], slot'[1]) \in Metadata
  BY <1>5 DEF Newest
<1>8. acked' \in Nat /\ maybe' \in SUBSET Nat
  BY <1>7 DEF PowerLoss, Metadata
<1>9. ProcessTypeOK'
  BY <1>8, ForgetType DEF PowerLoss
<1> QED
  BY <1>6, <1>9

\* Close, a process crash and a power loss keep the types.
LEMMA CrashType ==
    ASSUME FileTypeOK, ProcessTypeOK, Close \/ Crash
    PROVE FileTypeOK' /\ ProcessTypeOK'
<1>1. CASE Close \/ ProcessCrash
  <2>1. FileTypeOK'
    BY <1>1, Zenon DEF Close, ProcessCrash, FileTypeOK, fileVars
  <2>2. ProcessTypeOK'
    <3>1. Forget /\ version' = version /\ acked' \in Nat /\ maybe' \in SUBSET Nat
      BY <1>1, Zenon DEF Close, ProcessCrash, ProcessTypeOK, ghostVars
    <3> QED
      BY <3>1, ForgetType
  <2> QED
    BY <2>1, <2>2
<1>2. CASE LoseFile
  <2>1. FileTypeOK'
    BY <1>2, ConstantTypes DEF LoseFile, FileTypeOK
  <2>2. ProcessTypeOK'
    BY <1>2, ForgetType DEF LoseFile, ProcessTypeOK, ghostVars
  <2> QED
    BY <2>1, <2>2
<1> QED
  BY <1>1, <1>2, PowerLossType DEF Crash

\* The Boolean variables stay Boolean.
LEMMA FlagType ==
    ASSUME FlagTypeOK, Next
    PROVE FlagTypeOK'
<1>1. CASE OpenStep
  BY <1>1, Zenon DEF OpenStep, StartOpen, Format, FormatSlot, FormatSync, SyncFile,
     SyncDirectory, Recover, RecoverFails, Sync, FlagTypeOK, fileVars, updateVars
<1>2. CASE UpdateStep
  BY <1>2, Zenon DEF UpdateStep, Repair, BeginUpdate, WritePage, SyncData, Snapshot, WriteListNode,
     SyncList, WriteMetadata, SyncMetadata, Install, EndUpdate, WriteData, Sync,
     FlagTypeOK, fileVars, updateVars
<1>3. CASE UpdateFailure
  BY <1>3, Zenon DEF UpdateFailure, WritePageFails, SyncDataFails, Rollback, SnapshotFails,
     WriteListNodeFails, SyncListFails, WriteMetadataFails, SyncMetadataFails,
     PublishFails, EndUpdate, WriteDataFails, Truncate, FlagTypeOK, fileVars, updateVars
<1>4. CASE Close \/ Crash
  BY <1>4, Zenon DEF Close, Crash, ProcessCrash, PowerLoss, LoseFile, Forget, FlagTypeOK, fileVars
<1> QED
  BY <1>1, <1>2, <1>3, <1>4 DEF Next

\* Every variable of the store keeps its type through every operation,
\* failure and crash: in particular page IDs never leave the range that
\* dataPageOffset accepts, and nextPageID and the page counts never go
\* negative, whatever writeFreeListSnapshot recycles.
THEOREM TypeCorrect == Spec => []TypeOK
<1> DEFINE Inv == FileTypeOK /\ ProcessTypeOK /\ FlagTypeOK
<1>1. Init => Inv
  BY InitType
<1>2. Inv /\ [Next]_vars => Inv'
  <2> SUFFICES ASSUME FileTypeOK, ProcessTypeOK, FlagTypeOK, [Next]_vars
               PROVE FileTypeOK' /\ ProcessTypeOK' /\ FlagTypeOK'
    OBVIOUS
  <2>1. CASE Next
    BY <2>1, OpenStepType, UpdateStepType, UpdateFailureType, CrashType, FlagType DEF Next
  <2>2. CASE UNCHANGED vars
    <3>1. FileTypeOK'
      BY <2>2 DEF vars, fileVars, FileTypeOK
    <3>2. ProcessTypeOK'
      BY <2>2 DEF vars, updateVars, ghostVars, ProcessTypeOK
    <3>3. FlagTypeOK'
      BY <2>2 DEF vars, fileVars, updateVars, FlagTypeOK
    <3> QED
      BY <3>1, <3>2, <3>3
  <2> QED
    BY <2>1, <2>2
<1>3. Inv => TypeOK
  BY DEF FileTypeOK, ProcessTypeOK, FlagTypeOK, TypeOK
<1> QED
  BY <1>1, <1>2, <1>3, PTL DEF Spec

-----------------------------------------------------------------------------
(* Page ownership.                                                         *)

\* The pages below n are partitioned into five sets.
Parts(t, f, r, q, l, n) ==
    /\ t \cup f \cup r \cup q \cup l = {p \in Page : p < n}
    /\ t \cap f = {} /\ t \cap r = {} /\ t \cap q = {} /\ t \cap l = {}
    /\ f \cap r = {} /\ f \cap q = {} /\ f \cap l = {}
    /\ r \cap q = {} /\ r \cap l = {}
    /\ q \cap l = {}

\* The pages of a page manager, with the tree t.
Owned(m, t) == Parts(TreePages(t), m.free, m.retired, m.pending, m.list, m.next)

Publishing == pc \in {"list", "publish", "syncMetadata"}

\* The inductive invariant.  Ownership speaks of the pages in use now;
\* rollback and a failed publication return to the snapshot, so its pages
\* must have stayed a partition too.
OwnershipInv ==
    /\ pc = "idle" => Owned(pm, pm.tree)
    /\ Updating => Owned(saved, saved.tree)
    /\ Updating /\ ~Publishing => Owned(pm, work)
    /\ Publishing =>
         /\ Parts(TreePages(work), meta.free, meta.retired, {}, meta.list, pm.next)
         /\ pm.retired \cap (pm.pending \cup pm.list) = {}
         /\ pm.pending \cap pm.list = {}

\* The inductive invariant implies the partition of the pages.
LEMMA OwnershipFollows == OwnershipInv => Ownership
<1> SUFFICES ASSUME OwnershipInv, IsOpen PROVE Ownership
  BY DEF Ownership
<1>1. CASE pc = "idle"
  <2>1. Owned(pm, pm.tree) /\ ~Updating /\ pc \notin {"list", "publish", "syncMetadata"}
    BY <1>1 DEF OwnershipInv, Updating
  <2> QED
    BY <2>1 DEF Ownership, Owned, Parts
<1>2. CASE Updating /\ ~Publishing
  <2>1. Owned(pm, work) /\ Updating /\ pc \notin {"list", "publish", "syncMetadata"}
    BY <1>2 DEF OwnershipInv, Publishing
  <2> QED
    BY <2>1 DEF Ownership, Owned, Parts
<1>3. CASE Publishing
  <2>1. /\ Parts(TreePages(work), meta.free, meta.retired, {}, meta.list, pm.next)
        /\ pm.retired \cap (pm.pending \cup pm.list) = {}
        /\ pm.pending \cap pm.list = {}
        /\ Updating /\ pc \in {"list", "publish", "syncMetadata"}
    BY <1>3 DEF OwnershipInv, Updating, Publishing
  <2> QED
    BY <2>1 DEF Ownership, Parts
<1> QED
  BY <1>1, <1>2, <1>3 DEF IsOpen

\* reconcilePageOwnership gives every page of the file exactly one owner.
LEMMA LoadedOwned ==
    ASSUME TypeOK, NEW m \in Metadata, Loads(m)
    PROVE Owned(Loaded(m), Loaded(m).tree)
<1>1. /\ TreePages(m.tree) \subseteq {p \in Page : p <= size}
      /\ m.free \subseteq {p \in Page : p <= size}
      /\ m.retired \subseteq {p \in Page : p <= size}
      /\ m.list \subseteq {p \in Page : p <= size}
  <2>1. m.count <= size /\ m.count \in Nat /\ size \in Int
    BY DEF Loads, SlotDecodes, Metadata, TypeOK
  <2>2. \A p \in Page : p <= m.count => p <= size
    BY <2>1 DEF Page
  <2>3. m.free \subseteq Page /\ m.retired \subseteq Page /\ m.list \subseteq Page
    BY DEF Metadata
  <2>4. TreePages(m.tree) \subseteq Page
    BY DEF TreePages
  <2>5. /\ \A p \in TreePages(m.tree) : p <= m.count
        /\ \A p \in m.free \cup m.retired : p <= m.count
        /\ \A p \in m.list : p <= m.count
    BY DEF Loads, SlotDecodes, ListLoads, TreeLoads, OwnersDisjoint
  <2> QED
    BY <2>2, <2>3, <2>4, <2>5
<1>2. {p \in Page : p <= size} = {p \in Page : p < size + 1}
  BY DEF TypeOK, Page
<1> QED
  BY <1>1, <1>2, Zenon DEF Owned, Parts, Loaded, Loads, OwnersDisjoint

\* change() keeps the partition: what it allocates comes from the free pages
\* and from past the end, what it frees becomes pending.
LEMMA ChangesOwned ==
    ASSUME TypeOK, Owned(pm, pm.tree), NEW taken, NEW fresh, NEW freed,
           Changes(taken, fresh, freed)
    PROVE Owned(pm', work')
<1>1. TreePages(work') = (TreePages(pm.tree) \cup taken \cup fresh) \ freed
  BY DEF Changes, TreePages, TypeOK, PageManager
<1>2. /\ pm'.next = pm.next + Cardinality(fresh) /\ pm'.free = pm.free \ taken
      /\ pm'.pending = pm.pending \cup freed
      /\ pm'.retired = pm.retired /\ pm'.list = pm.list
  BY DEF Changes, TypeOK, PageManager
<1>3. {p \in Page : p < pm'.next} = {p \in Page : p < pm.next} \cup fresh
  BY SMTT(20), <1>2 DEF Changes, TypeOK, PageManager, Page
<1>4. fresh \cap {p \in Page : p < pm.next} = {}
  <2>1. fresh = pm.next .. (pm.next + Cardinality(fresh) - 1) /\ Cardinality(fresh) \in Nat
    BY DEF Changes
  <2>2. pm.next \in Nat
    BY DEF TypeOK, PageManager
  <2> QED
    BY <2>1, <2>2 DEF Page
<1> HIDE DEF Changes
<1>5. taken \subseteq pm.free /\ freed \subseteq TreePages(pm.tree) \cup taken \cup fresh
  BY DEF Changes
<1> QED
  BY <1>1, <1>2, <1>3, <1>4, <1>5 DEF Owned, Parts

\* writeFreeListSnapshot keeps it: recycled nodes come from the free and
\* retired pages, new ones from past the end.
LEMMA SnapshotOwned ==
    ASSUME TypeOK, ProcessTypeOK, Owned(pm, work), Snapshot
    PROVE Parts(TreePages(work), meta'.free, meta'.retired, {}, meta'.list, pm'.next)
<1>1. PICK recycled \in SUBSET Recyclable :
          /\ pm' = [pm EXCEPT !.next = @ + (ListPlan.nodes - ListPlan.reused)]
          /\ meta' = [ok |-> TRUE, generation |-> pm.generation + 1,
                      version |-> version, tree |-> work,
                      free |-> Eligible \ recycled, retired |-> Protected,
                      list |-> recycled \cup FreshNodes, count |-> pm'.next - 1]
  BY Zenon DEF Snapshot
<1>2. pm'.next = pm.next + (ListPlan.nodes - ListPlan.reused) /\ pm.next \in Nat
  BY <1>1 DEF TypeOK, PageManager
<1>3. ListPlan.nodes - ListPlan.reused \in Nat /\ recycled \subseteq Eligible
  BY ListPlanType
<1>4. FreshNodes \subseteq Page
  BY DEF Snapshot
<1>5. {p \in Page : p < pm'.next} = {p \in Page : p < pm.next} \cup FreshNodes
  BY <1>2, <1>3, <1>4 DEF FreshNodes, Page
<1>6. FreshNodes \cap {p \in Page : p < pm.next} = {}
  BY <1>2 DEF FreshNodes, Page
<1>7. /\ meta'.free = (pm.free \cup pm.retired) \ recycled
      /\ meta'.retired = pm.pending \cup pm.list
      /\ meta'.list = recycled \cup FreshNodes
  BY <1>1 DEF Eligible, Protected
<1> QED
  BY <1>3, <1>5, <1>6, <1>7 DEF Owned, Parts, Eligible

\* Both ways of ending an update leave the handle with a partition.
LEMMA RestoredOwned ==
    ASSUME OwnershipInv, Updating, pm' = saved, pc' = "idle"
    PROVE OwnershipInv'
<1>1. Owned(saved, saved.tree)
  BY DEF OwnershipInv
<1>2. Owned(pm, pm.tree)'
  BY <1>1 DEF Owned
<1> QED
  BY <1>2 DEF OwnershipInv, Updating, Publishing

\* A step of an update that touches neither the page manager nor the plan.
LEMMA KeptOwned ==
    ASSUME OwnershipInv, Updating, Updating', Publishing' = Publishing,
           UNCHANGED <<pm, saved, work, meta>>
    PROVE OwnershipInv'
<1>1. pc' # "idle"
  BY DEF Updating
<1>2. Owned(saved, saved.tree)'
  BY DEF OwnershipInv, Owned
<1>3. CASE Publishing
  <2>1. (/\ Parts(TreePages(work), meta.free, meta.retired, {}, meta.list, pm.next)
         /\ pm.retired \cap (pm.pending \cup pm.list) = {}
         /\ pm.pending \cap pm.list = {})'
    BY <1>3 DEF OwnershipInv
  <2> QED
    BY <1>1, <1>2, <1>3, <2>1 DEF OwnershipInv
<1>4. CASE ~Publishing
  <2>1. Owned(pm, work)'
    BY <1>4 DEF OwnershipInv, Owned
  <2> QED
    BY <1>1, <1>2, <1>4, <2>1 DEF OwnershipInv
<1> QED
  BY <1>3, <1>4

\* A handle that is not open owns nothing.
LEMMA NotOpenOwned ==
    ASSUME ~IsOpen'
    PROVE OwnershipInv'
BY DEF IsOpen, OwnershipInv, Updating, Publishing

\* Every step of Open, update, repair and the environment keeps the invariant.
LEMMA OwnershipStep ==
    ASSUME TypeOK, ProcessTypeOK, OwnershipInv, [Next]_vars
    PROVE OwnershipInv'
<1>1. CASE Recover \/ Repair
  <2>1. PICK i \in 0 .. 1 : Recoverable(slot[i]) /\ pm' = Loaded(slot[i])
    BY <1>1 DEF Recover, Repair
  <2>2. Owned(Loaded(slot[i]), Loaded(slot[i]).tree)
    BY <2>1, LoadedOwned DEF Recoverable, TypeOK
  <2>3. Owned(pm, pm.tree)'
    BY <2>1, <2>2 DEF Owned
  <2>4. pc' = "idle"
    BY <1>1 DEF Recover, Repair
  <2> QED
    BY <2>3, <2>4 DEF OwnershipInv, Updating, Publishing
<1>2. CASE OpenStep /\ ~Recover
  BY <1>2, NotOpenOwned DEF OpenStep, StartOpen, Format, FormatSlot, FormatSync, SyncFile,
     SyncDirectory, RecoverFails, IsOpen, Updating
<1>3. CASE BeginUpdate
  <2>1. PICK taken, fresh, freed : Changes(taken, fresh, freed)
    BY <1>3, BeginUpdateChanges
  <2>2. Owned(pm, pm.tree)
    BY <1>3 DEF BeginUpdate, OwnershipInv
  <2>3. Owned(pm, work)'
    BY <2>1, <2>2, ChangesOwned, Zenon DEF Owned
  <2>4. Owned(saved, saved.tree)'
    BY <1>3, <2>2 DEF BeginUpdate, Owned
  <2>5. pc' = "write"
    BY <1>3 DEF BeginUpdate
  <2> QED
    BY <2>3, <2>4, <2>5, Zenon DEF OwnershipInv, Updating, Publishing
<1>4. CASE WritePage \/ WritePageFails \/ SyncData \/ SyncDataFails \/ WriteListNode
           \/ SyncList \/ WriteMetadata
  <2>1. Updating /\ Updating' /\ Publishing' = Publishing
    BY <1>4 DEF WritePage, WritePageFails, SyncData, SyncDataFails, WriteListNode, SyncList,
       WriteMetadata, Updating, Publishing
  <2>2. UNCHANGED <<pm, saved, work, meta>>
    BY <1>4 DEF WritePage, WritePageFails, SyncData, SyncDataFails, WriteListNode, SyncList,
       WriteMetadata, updateVars
  <2> QED
    BY <2>1, <2>2, KeptOwned
<1>5. CASE Snapshot
  <2>1. Owned(pm, work) /\ Owned(saved, saved.tree)
    BY <1>5 DEF Snapshot, OwnershipInv, Updating, Publishing
  <2>2. Parts(TreePages(work), meta.free, meta.retired, {}, meta.list, pm.next)'
    BY <1>5, <2>1, SnapshotOwned, Zenon DEF Snapshot
  <2>3. UNCHANGED <<saved, work>> /\ pc' = "list"
    BY <1>5 DEF Snapshot
  <2>4. pm'.retired = pm.retired /\ pm'.pending = pm.pending /\ pm'.list = pm.list
    BY <1>5 DEF Snapshot, TypeOK, PageManager
  <2>5. (pm.retired \cap (pm.pending \cup pm.list) = {} /\ pm.pending \cap pm.list = {})'
    BY <2>1, <2>4 DEF Owned, Parts
  <2>6. Owned(saved, saved.tree)'
    BY <2>1, <2>3 DEF Owned
  <2> QED
    BY <2>2, <2>3, <2>5, <2>6, Zenon DEF OwnershipInv, Updating, Publishing
<1>6. CASE SyncMetadata
  <2>1. Parts(TreePages(work), meta.free, meta.retired, {}, meta.list, pm.next)
    BY <1>6 DEF SyncMetadata, OwnershipInv, Publishing
  <2>2. /\ pm'.tree = work /\ pm'.free = meta.free /\ pm'.retired = meta.retired
        /\ pm'.pending = {} /\ pm'.list = meta.list /\ pm'.next = pm.next
        /\ pc' = "idle"
    BY <1>6 DEF SyncMetadata, Install, EndUpdate
  <2>3. Owned(pm, pm.tree)'
    BY <2>1, <2>2 DEF Owned
  <2> QED
    BY <2>2, <2>3 DEF OwnershipInv, Updating, Publishing
<1>7. CASE Rollback \/ SnapshotFails \/ WriteListNodeFails \/ SyncListFails
           \/ WriteMetadataFails \/ SyncMetadataFails
  BY <1>7, RestoredOwned DEF Rollback, SnapshotFails, WriteListNodeFails, SyncListFails,
     WriteMetadataFails, SyncMetadataFails, PublishFails, EndUpdate, Updating
<1>8. CASE Close \/ Crash
  BY <1>8, NotOpenOwned, ZenonT(30) DEF Close, Crash, ProcessCrash, PowerLoss, LoseFile, Forget, IsOpen,
     Updating
<1>9. CASE UNCHANGED vars
  BY <1>9 DEF vars, updateVars, OwnershipInv, Owned, Updating, Publishing
<1> QED
  BY <1>1, <1>2, <1>3, <1>4, <1>5, <1>6, <1>7, <1>8, <1>9
     DEF Next, OpenStep, UpdateStep, UpdateFailure

\* The pages of the file are partitioned among the tree, the free list and
\* the pages waiting to be freed at every moment a handle is open: kv.go and
\* page_manager.go never lose a page and never give one two owners, through
\* any sequence of updates, rollbacks, failed publications and recoveries.
THEOREM OwnershipCorrect == Spec => []Ownership
<1>1. Init => OwnershipInv
  BY DEF Init, OwnershipInv, Updating, Publishing
<1>2. TypeOK => ProcessTypeOK
  BY DEF TypeOK, ProcessTypeOK
<1>3. TypeOK /\ OwnershipInv /\ [Next]_vars => OwnershipInv'
  BY <1>2, OwnershipStep
<1> QED
  BY <1>1, <1>3, OwnershipFollows, TypeCorrect, PTL DEF Spec
=============================================================================
