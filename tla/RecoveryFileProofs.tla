------------------------- MODULE RecoveryFileProofs -------------------------
(***************************************************************************)
(* The inductive invariant behind recovery in DurableKV, what it says of   *)
(* the records a power loss may leave, how writes, fsync, truncation and   *)
(* publishing a record preserve its part about the file, and how opening   *)
(* keeps it: what recovery loads, creation, repair and the end of a        *)
(* process.                                                                *)
(***************************************************************************)
EXTENDS DurableKVProofs

USE SMTT(20), ZenonT(20)

(* The inductive invariant.                                                *)

\* What a read returns is one of the things the medium may hold.
Medium ==
    /\ \A p \in Page : file[p] \in disk[p]
    /\ \A i \in 0 .. 1 : slot[i] \in slotDisk[i]
    /\ size \in sizeDisk
    /\ \A s \in sizeDisk : s >= -1

\* Every record that may be in a slot belongs there and is well formed.
Records ==
    \A i \in 0 .. 1 : \A m \in slotDisk[i] :
        m.ok => SlotOf(m) = i /\ OwnersDisjoint(m)

\* The slot recovery chooses, and the other one.
Top == IF slot[1].ok /\ (slot[0].ok => slot[0].generation < slot[1].generation) THEN 1 ELSE 0
TopRecord == slot[Top]
OtherRecord == slot[1 - Top]

PagesOf(m) == TreePages(m.tree) \cup m.list

\* The newest record is known to be on the medium.
Settled ==
    /\ slotDisk[Top] = {TopRecord}
    /\ \A m \in slotDisk[1 - Top] : m.ok => m.generation < TopRecord.generation

\* It is not, but the record before it is, and everything it needs is kept.
Doubted ==
    /\ slotDisk[1 - Top] = {OtherRecord}
    /\ OtherRecord.generation < TopRecord.generation
    /\ Safe(OtherRecord)
    /\ PagesOf(OtherRecord) \cap TopRecord.free = {}
    /\ \A m \in slotDisk[Top] :
          m.ok => m = TopRecord \/ m.generation < OtherRecord.generation

\* A file whose first Sync has not succeeded.
Blank ==
    /\ slotDisk[0] \subseteq {BadMetadata, FirstMetadata}
    /\ slotDisk[1] = {BadMetadata}

Root ==
    IF Formatted THEN TopRecord.ok /\ Safe(TopRecord) /\ (Settled \/ Doubted) ELSE Blank

\* The page manager q shows the record m.
Agrees(q, m) ==
    /\ m.ok
    /\ q.generation = m.generation /\ q.version = m.version /\ q.tree = m.tree
    /\ q.free = m.free /\ q.retired = m.retired /\ q.list = m.list

\* Pages from n on belong to no record that recovery may choose.
Beyond(n) == TopRecord.count < n /\ (~Settled => OtherRecord.count < n)

\* q is a page manager that updates may start from, on a file of n pages.
Current(q, n) == Agrees(q, TopRecord) /\ Beyond(q.next) /\ q.next - 1 <= n

\* An update only hands out pages that were free or did not exist.
Spare(p) == p \in saved.free \/ p >= saved.next

\* The working page manager against the snapshot.
FromSaved ==
    /\ pm.free \subseteq saved.free
    /\ pm.retired = saved.retired /\ pm.list = saved.list
    /\ pm.generation = saved.generation
    /\ pm.next >= saved.next

\* The last page handed out is in the file or still to be written.
Reaches == pm.next - 1 <= size \/ pm.next - 1 \in todo

\* The record being published.
MetaPlan ==
    /\ meta.ok /\ meta.generation = saved.generation + 1
    /\ meta.version = version /\ meta.tree = work /\ meta.count = pm.next - 1
    /\ meta.free \subseteq saved.free \cup saved.retired
    /\ \A p \in meta.list : Spare(p) \/ p \in saved.retired

\* Rollback returns to the snapshot on a file cut back to savedSize.
Restorable == Current(saved, savedSize) /\ savedSize <= size /\ savedSize >= 0

\* The tree pages of the update are spare, and written or still to be written.
Writing ==
    /\ FromSaved /\ Reaches
    /\ \A p \in todo : Spare(p) /\ work[p] \in {0, version}
    /\ \A p \in TreePages(work) : p \in todo \/ file[p] = TreeNode(work[p])

\* syncData has settled the previous record and the tree pages.
Preparing ==
    /\ Formatted /\ Settled /\ Agrees(saved, TopRecord) /\ Beyond(saved.next)
    /\ \A p \in TreePages(work) : disk[p] = {TreeNode(work[p])}

Listing ==
    /\ Reaches
    /\ todo \subseteq meta.list
    /\ \A p \in meta.list : p \in todo \/ file[p] = ListNode(version)

Published ==
    /\ Formatted /\ TopRecord = meta
    /\ meta.version = version /\ meta.tree = work /\ meta.count = pm.next - 1

\* What holds at each point of Open and of update.
Stage ==
    /\ pc \in {"format", "formatSlot", "formatSync"} => ~Formatted
    /\ pc = "format" => size = -1
    /\ pc = "formatSlot" => size >= 0
    /\ pc = "formatSync" => size >= 0 /\ slot[0] = FirstMetadata
    /\ pc = "syncFile" => size >= 0 /\ TopRecord.ok
    /\ uncertain => Formatted /\ pc = "idle"
    /\ pc = "idle" /\ ~uncertain => Current(pm, size) /\ size >= 0
    /\ pc \in {"write", "rollback"} => Restorable
    /\ pc = "write" => Writing
    /\ pc \in {"snapshot", "list", "publish"} => Preparing /\ size >= 0
    /\ pc = "snapshot" => FromSaved /\ pm.next - 1 <= size
    /\ pc \in {"list", "publish"} => MetaPlan
    /\ pc = "list" => Listing
    /\ pc = "publish" => Safe(meta)
    /\ pc = "syncMetadata" => Published /\ size >= 0

\* The versions recovery may find are the ones callers may expect.
Promise ==
    IF Formatted
    THEN /\ TopRecord.version \in {acked} \cup maybe
         /\ ~Settled => OtherRecord.version \in {acked} \cup maybe
         /\ pc \in {"snapshot", "list", "publish"} => acked = TopRecord.version
    ELSE acked = 0 /\ maybe = {}

\* What holds of the file alone.
FileInv == Medium /\ Records /\ Root

RecoveryInv == FileInv /\ Stage

-----------------------------------------------------------------------------
(* The records recovery may choose.                                        *)

\* Newest picks a valid record if there is one, and the later of two.
LEMMA NewestFacts ==
    ASSUME NEW m0 \in Metadata, NEW m1 \in Metadata,
           m0.ok /\ m1.ok => m0.generation # m1.generation
    PROVE /\ Newest(m0, m1) \in {m0, m1}
          /\ m0.ok \/ m1.ok => Newest(m0, m1).ok
          /\ m0.ok => m0.generation <= Newest(m0, m1).generation
          /\ m1.ok => m1.generation <= Newest(m0, m1).generation
BY DEF Newest, Metadata

\* Top names the slot whose record recovery prefers.
LEMMA TopFacts ==
    ASSUME TypeOK
    PROVE /\ Top \in 0 .. 1 /\ 1 - Top \in 0 .. 1 /\ 1 - Top # Top
          /\ TopRecord \in Metadata /\ OtherRecord \in Metadata
          /\ TopRecord = Newest(slot[0], slot[1])
<1>1. Top \in 0 .. 1 /\ 1 - Top \in 0 .. 1 /\ 1 - Top # Top
  BY DEF Top
<1>2. TopRecord \in Metadata /\ OtherRecord \in Metadata
  BY <1>1 DEF TopRecord, OtherRecord, TypeOK
<1>3. TopRecord = Newest(slot[0], slot[1])
  BY DEF TopRecord, Top, Newest
<1> QED
  BY <1>1, <1>2, <1>3

\* Records of different slots have different generations.
LEMMA DistinctGenerations ==
    ASSUME Records, NEW m0 \in slotDisk[0], NEW m1 \in slotDisk[1], m0.ok, m1.ok
    PROVE m0.generation # m1.generation
<1>1. SlotOf(m0) = 0 /\ SlotOf(m1) = 1
  BY DEF Records
<1> QED
  BY <1>1 DEF SlotOf

\* The newest cached record is at least as new as the other one.
LEMMA TopNewest ==
    ASSUME TypeOK, Medium, Records
    PROVE /\ slot[0].ok \/ slot[1].ok => TopRecord.ok
          /\ OtherRecord.ok => TopRecord.ok /\ OtherRecord.generation < TopRecord.generation
<1>1. slot[0] \in slotDisk[0] /\ slot[1] \in slotDisk[1]
  BY DEF Medium
<1>2. slot[0].ok /\ slot[1].ok => slot[0].generation # slot[1].generation
  BY <1>1, DistinctGenerations
<1>3. slot[0] \in Metadata /\ slot[1] \in Metadata
  BY DEF TypeOK
<1> QED
  BY <1>2, <1>3 DEF TopRecord, OtherRecord, Top, Metadata

\* Whatever a power loss keeps of the slots, recovery then chooses the newest
\* cached record, or the one before it while the newest is not synced.
LEMMA Outcomes ==
    ASSUME TypeOK, Records, Root, Formatted,
           NEW s0 \in slotDisk[0], NEW s1 \in slotDisk[1]
    PROVE \/ Newest(s0, s1) = TopRecord
          \/ Newest(s0, s1) = OtherRecord /\ ~Settled
<1>1. s0 \in Metadata /\ s1 \in Metadata
  BY DEF TypeOK
<1>2. s0.ok \/ s1.ok
  <2>1. <<s0, s1>> \in SlotOutcomes
    BY DEF SlotOutcomes
  <2>2. <<s0, s1>>[1].ok \/ <<s0, s1>>[2].ok
    BY <2>1 DEF Formatted
  <2> QED
    BY <2>2
<1>3. s0.ok /\ s1.ok => s0.generation # s1.generation
  BY DistinctGenerations
<1>4. TopRecord \in Metadata /\ OtherRecord \in Metadata /\ TopRecord.ok
  BY TopFacts DEF Root
<1>5. CASE Settled
  <2>1. CASE Top = 0
    <3>1. s0 = TopRecord /\ (s1.ok => s1.generation < s0.generation)
      BY <1>5, <2>1 DEF Settled
    <3> QED
      BY <1>1, <1>4, <3>1 DEF Newest, Metadata
  <2>2. CASE Top = 1
    <3>1. s1 = TopRecord /\ (s0.ok => s0.generation < s1.generation)
      BY <1>5, <2>2 DEF Settled
    <3> QED
      BY <1>1, <1>4, <3>1 DEF Newest, Metadata
  <2> QED
    BY <2>1, <2>2 DEF Top
<1>6. CASE ~Settled
  <2>1. Doubted
    BY <1>6 DEF Root
  <2>2. OtherRecord.ok /\ OtherRecord.generation < TopRecord.generation
    BY <2>1 DEF Doubted, Safe
  <2>3. CASE Top = 0
    <3>1. /\ s1 = OtherRecord
          /\ s0.ok => s0 = TopRecord \/ s0.generation < s1.generation
      BY <2>1, <2>3 DEF Doubted
    <3> QED
      BY <1>1, <1>4, <1>6, <2>2, <3>1 DEF Newest, Metadata
  <2>4. CASE Top = 1
    <3>1. /\ s0 = OtherRecord
          /\ s1.ok => s1 = TopRecord \/ s1.generation < s0.generation
      BY <2>1, <2>4 DEF Doubted
    <3> QED
      BY <1>1, <1>4, <1>6, <2>2, <3>1 DEF Newest, Metadata
  <2> QED
    BY <2>3, <2>4 DEF Top
<1> QED
  BY <1>5, <1>6

\* The invariant implies that recovery finds an intact tree.
LEMMA IntactFollows ==
    ASSUME TypeOK, Records, Root, "directory" \notin Faults => Promise
    PROVE NewestIntact
<1> SUFFICES ASSUME Established, NEW s \in SlotOutcomes
             PROVE Safe(Newest(s[1], s[2]))
  BY DEF NewestIntact
<1>1. Formatted
  <2> SUFFICES ASSUME ~Formatted PROVE FALSE
    OBVIOUS
  <2>1. (acked > 0 \/ maybe # {}) /\ "directory" \notin Faults
    BY DEF Established
  <2>2. acked = 0 /\ maybe = {}
    BY <2>1 DEF Promise
  <2> QED
    BY <2>1, <2>2
<1>2. s[1] \in slotDisk[0] /\ s[2] \in slotDisk[1]
  BY DEF SlotOutcomes
<1>3. Newest(s[1], s[2]) = TopRecord \/ (Newest(s[1], s[2]) = OtherRecord /\ ~Settled)
  BY <1>1, <1>2, Outcomes
<1> QED
  BY <1>1, <1>3 DEF Root, Doubted

\* Promise implies that an acknowledged version survives a power loss.
LEMMA AckedFollows ==
    ASSUME TypeOK, Records, Root, Promise
    PROVE AckedSurvives
<1> SUFFICES ASSUME Established, NEW s \in SlotOutcomes
             PROVE Newest(s[1], s[2]).version \in {acked} \cup maybe
  BY DEF AckedSurvives
<1>1. Formatted
  <2> SUFFICES ASSUME ~Formatted PROVE FALSE
    OBVIOUS
  <2>1. (acked > 0 \/ maybe # {}) /\ "directory" \notin Faults
    BY DEF Established
  <2>2. acked = 0 /\ maybe = {}
    BY <2>1 DEF Promise
  <2> QED
    BY <2>1, <2>2
<1>2. s[1] \in slotDisk[0] /\ s[2] \in slotDisk[1]
  BY DEF SlotOutcomes
<1>3. Newest(s[1], s[2]) = TopRecord \/ (Newest(s[1], s[2]) = OtherRecord /\ ~Settled)
  BY <1>1, <1>2, Outcomes
<1> QED
  BY <1>1, <1>3 DEF Promise

-----------------------------------------------------------------------------
(* What the file operations keep.                                          *)

\* Safe for a medium given by its pages d and sizes z.
SafeOn(m, d, z) ==
    /\ m.ok
    /\ \A s \in z : m.count <= s
    /\ \A p \in TreePages(m.tree) : p <= m.count /\ d[p] = {TreeNode(m.tree[p])}
    /\ \A p \in m.list : p <= m.count /\ d[p] = {ListNode(m.version)}

\* A record stays safe when its own pages keep their contents.
LEMMA KeepsSafe ==
    ASSUME NEW m, NEW d, NEW z, NEW e, NEW y, SafeOn(m, d, z),
           \A p \in PagesOf(m) : e[p] = d[p],
           \A s \in y : s \in z \/ m.count <= s
    PROVE SafeOn(m, e, y)
BY DEF SafeOn, PagesOf

\* The slots recovery may choose depend on the slots alone.
LEMMA SlotsKept ==
    ASSUME UNCHANGED <<slot, slotDisk>>
    PROVE /\ Top' = Top /\ TopRecord' = TopRecord /\ OtherRecord' = OtherRecord
          /\ Settled' <=> Settled
          /\ Records => Records'
          /\ SlotOutcomes' = SlotOutcomes
<1>1. Top' = Top
  BY DEF Top
<1>2. TopRecord' = TopRecord /\ OtherRecord' = OtherRecord
  BY <1>1 DEF TopRecord, OtherRecord
<1>3. Settled' <=> Settled
  BY <1>1, <1>2 DEF Settled
<1>4. Records => Records'
  BY DEF Records, SlotOf, OwnersDisjoint
<1>5. SlotOutcomes' = SlotOutcomes
  BY DEF SlotOutcomes
<1> QED
  BY <1>1, <1>2, <1>3, <1>4, <1>5

\* The records that must stay readable keep their pages and fit the file.
Spared(d, z) ==
    /\ \A p \in PagesOf(TopRecord) : d[p] = disk[p]
    /\ \A s \in z : s \in sizeDisk \/ TopRecord.count <= s
    /\ ~Settled =>
         /\ \A p \in PagesOf(OtherRecord) : d[p] = disk[p]
         /\ \A s \in z : s \in sizeDisk \/ OtherRecord.count <= s

\* Writes that spare the pages of the choosable records keep Root.
LEMMA RootKept ==
    ASSUME TypeOK, Root, UNCHANGED <<slot, slotDisk>>,
           -1 \in sizeDisk' <=> -1 \in sizeDisk,
           Formatted => Spared(disk', sizeDisk')
    PROVE Root' /\ (Formatted' <=> Formatted)
<1>1. Formatted' <=> Formatted
  BY SlotsKept DEF Formatted
<1>2. CASE ~Formatted
  <2>1. Blank
    BY <1>2 DEF Root
  <2>2. Blank'
    BY <2>1 DEF Blank
  <2> QED
    BY <1>1, <1>2, <2>2 DEF Root
<1>3. CASE Formatted
  <2>1. TopRecord.ok /\ SafeOn(TopRecord, disk, sizeDisk) /\ (Settled \/ Doubted)
    BY <1>3 DEF Root, Safe, SafeOn
  <2>2. SafeOn(TopRecord, disk', sizeDisk')
    BY <1>3, <2>1, KeepsSafe DEF Spared
  <2>3. Safe(TopRecord)' /\ TopRecord'.ok
    BY <2>2, SlotsKept DEF Safe, SafeOn
  <2>4. CASE Settled
    BY <1>1, <1>3, <2>3, <2>4, SlotsKept DEF Root
  <2>5. CASE ~Settled
    <3>1. Doubted
      BY <2>1, <2>5
    <3>2. SafeOn(OtherRecord, disk, sizeDisk)
      BY <3>1 DEF Doubted, Safe, SafeOn
    <3>3. SafeOn(OtherRecord, disk', sizeDisk')
      BY <1>3, <2>5, <3>2, KeepsSafe DEF Spared
    <3>4. Safe(OtherRecord)'
      BY <3>3, SlotsKept DEF Safe, SafeOn
    <3>5. (PagesOf(OtherRecord) \cap TopRecord.free = {})'
      BY <3>1, SlotsKept DEF Doubted, PagesOf
    <3>6. Doubted'
      BY <3>1, <3>4, <3>5, SlotsKept DEF Doubted
    <3> QED
      BY <1>1, <1>3, <2>3, <3>6 DEF Root
  <2> QED
    BY <2>4, <2>5
<1> QED
  BY <1>1, <1>2, <1>3

\* A page that recovery does not need may be written, or fail to be.
LEMMA WriteKept ==
    ASSUME TypeOK, Medium, Records, Root, size >= 0, UNCHANGED <<slot, slotDisk>>,
           NEW p \in Page, NEW c, WriteData(p, c) \/ WriteDataFails(p),
           Formatted => p \notin PagesOf(TopRecord) /\ (~Settled => p \notin PagesOf(OtherRecord))
    PROVE /\ Medium' /\ Records' /\ Root' /\ (Formatted' <=> Formatted)
          /\ size' >= size /\ \A q \in Page : q # p => file'[q] = file[q] /\ disk'[q] = disk[q]
          /\ WriteData(p, c) => file'[p] = c /\ size' >= p
<1>1. \A q \in Page : q # p => file'[q] = file[q] /\ disk'[q] = disk[q]
  BY DEF WriteData, WriteDataFails, TypeOK
<1>2. file'[p] \in disk'[p] /\ (WriteData(p, c) => file'[p] = c)
  BY DEF WriteData, WriteDataFails, TypeOK, Medium
<1>3. /\ size' >= size /\ size' \in Int
      /\ sizeDisk' \subseteq sizeDisk \cup {size'} /\ sizeDisk \subseteq sizeDisk'
      /\ size' \in sizeDisk' /\ (WriteData(p, c) => size' >= p)
  BY DEF WriteData, WriteDataFails, TypeOK, Medium, Page
<1>4. \A s \in sizeDisk' : s \in sizeDisk \/ s >= size
  BY <1>3 DEF TypeOK
<1>5. Medium'
  BY <1>1, <1>2, <1>3 DEF Medium, TypeOK
<1>6. -1 \in sizeDisk' <=> -1 \in sizeDisk
  BY <1>3, <1>4 DEF TypeOK
<1>7. Formatted => Spared(disk', sizeDisk')
  <2> SUFFICES ASSUME Formatted PROVE Spared(disk', sizeDisk')
    OBVIOUS
  <2>1. \A s \in sizeDisk : TopRecord.count <= s
    BY DEF Root, Safe
  <2>2. ~Settled => \A s \in sizeDisk : OtherRecord.count <= s
    BY DEF Root, Doubted, Safe
  <2>3. TopRecord.count \in Nat /\ OtherRecord.count \in Nat
    BY TopFacts DEF Metadata
  <2>4. \A s \in sizeDisk' : s \in sizeDisk \/ (TopRecord.count <= s /\ (~Settled => OtherRecord.count <= s))
    BY <1>3, <2>1, <2>2, <2>3 DEF Medium, TypeOK
  <2>5. PagesOf(TopRecord) \subseteq Page /\ PagesOf(OtherRecord) \subseteq Page
    BY TopFacts DEF PagesOf, TreePages, Metadata
  <2> QED
    BY <1>1, <2>4, <2>5 DEF Spared
<1> QED
  BY <1>1, <1>2, <1>3, <1>5, <1>6, <1>7, RootKept, SlotsKept

\* A Sync settles the newest record, on a new file too.
LEMMA SyncKept ==
    ASSUME TypeOK, Medium, Records, Root, Sync, TopRecord.ok, size >= 0
    PROVE /\ Medium' /\ Records' /\ Root' /\ Formatted' /\ Settled'
          /\ TopRecord' = TopRecord /\ OtherRecord' = OtherRecord
          /\ \A p \in Page : disk'[p] = {file[p]}
          /\ sizeDisk' = {size}
<1>1. /\ \A p \in Page : disk'[p] = {file[p]}
      /\ \A i \in 0 .. 1 : slotDisk'[i] = {slot[i]}
      /\ sizeDisk' = {size}
      /\ UNCHANGED <<file, slot, size>>
  BY DEF Sync
<1>2. Top' = Top
  BY <1>1 DEF Top
<1>3. TopRecord' = TopRecord /\ OtherRecord' = OtherRecord
  BY <1>1, <1>2 DEF TopRecord, OtherRecord
<1>4. Medium'
  BY <1>1 DEF Medium, TypeOK
<1>5. Records'
  BY <1>1 DEF Records, Medium, SlotOf, OwnersDisjoint
<1>6. Formatted'
  <2>1. slot[0].ok \/ slot[1].ok
    BY TopFacts DEF TopRecord
  <2>2. \A t \in SlotOutcomes' : t[1] = slot[0] /\ t[2] = slot[1]
    BY <1>1 DEF SlotOutcomes
  <2>3. -1 \notin sizeDisk'
    BY <1>1
  <2> QED
    BY <2>1, <2>2, <2>3 DEF Formatted
<1>7. Settled'
  <2>1. slotDisk'[Top] = {TopRecord} /\ slotDisk'[1 - Top] = {OtherRecord}
    BY <1>1, TopFacts DEF TopRecord, OtherRecord
  <2> QED
    BY <1>2, <1>3, <2>1, TopNewest DEF Settled
<1>8. SafeOn(TopRecord, disk', sizeDisk')
  <2>1. PagesOf(TopRecord) \subseteq Page
    BY TopFacts DEF PagesOf, TreePages, Metadata
  <2>2. CASE Formatted
    <3>1. SafeOn(TopRecord, disk, sizeDisk)
      BY <2>2 DEF Root, Safe, SafeOn
    <3>2. \A p \in PagesOf(TopRecord) : disk'[p] = disk[p]
      BY <1>1, <2>1, <3>1, Zenon DEF Medium, SafeOn, PagesOf
    <3>3. \A z \in sizeDisk' : z \in sizeDisk
      BY <1>1 DEF Medium
    <3> QED
      BY <3>1, <3>2, <3>3, KeepsSafe
  <2>3. CASE ~Formatted
    <3>1. Blank
      BY <2>3 DEF Root
    <3>2. TopRecord \in {BadMetadata, FirstMetadata}
      BY <3>1, TopFacts DEF Blank, Medium, TopRecord
    <3>3. TopRecord = FirstMetadata
      BY <3>2 DEF BadMetadata, FirstMetadata
    <3>4. TreePages(FirstMetadata.tree) = {} /\ FirstMetadata.list = {} /\ FirstMetadata.count = 0
      BY DEF FirstMetadata, TreePages, NoTree
    <3> QED
      BY <1>1, <3>3, <3>4 DEF SafeOn
  <2> QED
    BY <2>2, <2>3
<1>9. Safe(TopRecord)'
  BY <1>3, <1>8 DEF Safe, SafeOn
<1>10. Root'
  BY <1>3, <1>6, <1>7, <1>9 DEF Root
<1> QED
  BY <1>1, <1>3, <1>4, <1>5, <1>6, <1>7, <1>10

\* Cutting the file back to a size that holds both records.
LEMMA TruncateKept ==
    ASSUME TypeOK, Medium, Records, Root, NEW n \in Nat, NEW b, Truncate(n, b),
           UNCHANGED <<slot, slotDisk>>,
           Formatted => TopRecord.count <= n /\ (~Settled => OtherRecord.count <= n)
    PROVE Medium' /\ Records' /\ Root' /\ (Formatted' <=> Formatted)
<1>1. /\ file' = [p \in Page |-> IF p > n THEN Junk ELSE file[p]]
      /\ disk' = [p \in Page |-> IF p > n THEN disk[p] \cup {Junk} ELSE disk[p]]
      /\ size' = n
      /\ sizeDisk' = sizeDisk \cup {n}
  BY DEF Truncate
<1>2. Medium'
  BY <1>1 DEF Medium
<1>3. -1 \in sizeDisk' <=> -1 \in sizeDisk
  BY <1>1
<1>4. Formatted => Spared(disk', sizeDisk')
  <2> SUFFICES ASSUME Formatted PROVE Spared(disk', sizeDisk')
    OBVIOUS
  <2>1. PagesOf(TopRecord) \subseteq Page /\ PagesOf(OtherRecord) \subseteq Page
    BY TopFacts DEF PagesOf, TreePages, Metadata
  <2>2. TopRecord.count \in Nat /\ OtherRecord.count \in Nat
    BY TopFacts DEF Metadata
  <2>3. \A p \in PagesOf(TopRecord) : p <= TopRecord.count
    BY DEF Root, Safe, PagesOf
  <2>4. ~Settled => \A p \in PagesOf(OtherRecord) : p <= OtherRecord.count
    BY DEF Root, Doubted, Safe, PagesOf
  <2>5. \A p \in PagesOf(TopRecord) : disk'[p] = disk[p]
    BY <1>1, <2>1, <2>2, <2>3 DEF Page
  <2>6. ~Settled => \A p \in PagesOf(OtherRecord) : disk'[p] = disk[p]
    BY <1>1, <2>1, <2>2, <2>4 DEF Page
  <2> QED
    BY <1>1, <2>5, <2>6, Zenon DEF Spared
<1> QED
  BY <1>2, <1>3, <1>4, RootKept, SlotsKept

\* The next generation goes to the slot that recovery does not need.
LEMMA OtherSlot ==
    ASSUME TypeOK, Medium, Records, TopRecord.ok,
           NEW m \in Metadata, m.generation = TopRecord.generation + 1
    PROVE SlotOf(m) = 1 - Top
<1>1. TopRecord \in slotDisk[Top]
  BY TopFacts DEF Medium, TopRecord
<1>2. TopRecord.generation % 2 = Top /\ TopRecord.generation \in Nat
  BY <1>1, TopFacts DEF Records, SlotOf, Metadata
<1> QED
  BY <1>2, TopFacts DEF SlotOf

\* Two lemmas above, for the state after a step.
LEMMA TopNext ==
    ASSUME TypeOK', Medium', Records'
    PROVE /\ (slot[0].ok \/ slot[1].ok => TopRecord.ok)'
          /\ (OtherRecord.ok => TopRecord.ok /\ OtherRecord.generation < TopRecord.generation)'
          /\ (Top \in 0 .. 1 /\ 1 - Top \in 0 .. 1 /\ 1 - Top # Top)'
          /\ TopRecord' = Newest(slot'[0], slot'[1])
<1>1. (Top \in 0 .. 1 /\ 1 - Top \in 0 .. 1 /\ 1 - Top # Top)'
  BY DEF Top
<1>2. TopRecord' = Newest(slot'[0], slot'[1])
  BY DEF TopRecord, Top, Newest
<1>3. /\ (slot[0].ok \/ slot[1].ok => TopRecord.ok)'
      /\ (OtherRecord.ok => TopRecord.ok /\ OtherRecord.generation < TopRecord.generation)'
  BY TopNewest, PTL
<1> QED
  BY Zenon, <1>1, <1>2, <1>3

\* A record written to the spare slot, with its pages on the medium, becomes
\* the newest one; the one before it stays complete.
LEMMA PublishKept ==
    ASSUME TypeOK, Medium, Records, Root, Formatted, Settled,
           NEW m \in Metadata, m.generation = TopRecord.generation + 1,
           Safe(m), OwnersDisjoint(m), PagesOf(TopRecord) \cap m.free = {},
           WriteSlot(SlotOf(m), m), UNCHANGED <<disk, file, size, sizeDisk>>
    PROVE /\ Medium' /\ Records' /\ Root' /\ Formatted'
          /\ TopRecord' = m /\ OtherRecord' = TopRecord
<1>1. TopRecord.ok /\ TopRecord \in Metadata /\ Top \in 0 .. 1 /\ 1 - Top \in 0 .. 1
      /\ 1 - Top # Top /\ Safe(TopRecord)
  BY TopFacts DEF Root
<1>2. SlotOf(m) = 1 - Top
  BY <1>1, OtherSlot
<1>3. /\ slot'[1 - Top] = m /\ slot'[Top] = TopRecord
      /\ slotDisk'[1 - Top] = slotDisk[1 - Top] \cup {m, BadMetadata}
      /\ slotDisk'[Top] = {TopRecord}
  BY <1>1, <1>2 DEF WriteSlot, TypeOK, TopRecord, Settled
<1>4. m.ok /\ TopRecord.generation < m.generation /\ ~BadMetadata.ok
  BY <1>1 DEF Safe, Metadata, BadMetadata, FirstMetadata
<1>5. Top' = 1 - Top
  <2>1. CASE Top = 0
    BY <1>3, <1>4, <2>1 DEF Top
  <2>2. CASE Top = 1
    <3>1. slot'[0] = m /\ slot'[1] = TopRecord
      BY <1>3, <2>2
    <3>2. ~(slot'[0].generation < slot'[1].generation)
      BY <1>1, <1>4, <3>1 DEF Metadata
    <3> QED
      BY <1>4, <2>2, <3>1, <3>2 DEF Top
  <2> QED
    BY SMTT(20), <1>1, <2>1, <2>2
<1>6. TopRecord' = m /\ OtherRecord' = TopRecord
  <2>1. 1 - Top' = Top
    BY <1>1, <1>5
  <2> QED
    BY <1>3, <1>5, <2>1 DEF TopRecord, OtherRecord
<1>7. Medium'
  <2>1. \A i \in 0 .. 1 : slot'[i] \in slotDisk'[i]
    BY <1>1, <1>3
  <2> QED
    BY <2>1 DEF Medium
<1>8. Records'
  <2>1. \A i \in 0 .. 1 : i = Top \/ i = 1 - Top
    BY <1>1
  <2>2. TopRecord \in slotDisk[Top]
    BY <1>1 DEF Settled
  <2>3. SlotOf(TopRecord) = Top /\ OwnersDisjoint(TopRecord)
    BY <1>1, <2>2 DEF Records
  <2> QED
    BY <1>1, <1>2, <1>3, <1>4, <2>1, <2>3 DEF Records, SlotOf, OwnersDisjoint
<1>9. Formatted'
  <2>1. \A t \in SlotOutcomes' : t[1] \in slotDisk'[0] /\ t[2] \in slotDisk'[1]
    BY DEF SlotOutcomes
  <2>2. \A t \in SlotOutcomes' : t[1] = TopRecord \/ t[2] = TopRecord
    BY <1>1, <1>3, <2>1
  <2> QED
    BY <1>1, <2>2 DEF Formatted
<1>10. Doubted'
  <2>1. slotDisk'[1 - Top'] = {OtherRecord'}
    BY <1>1, <1>3, <1>5, <1>6
  <2>2. \A n \in slotDisk'[Top'] : n.ok => n = m \/ n.generation < TopRecord.generation
    BY SMTT(20), <1>3, <1>4, <1>5 DEF Settled
  <2>3. Safe(OtherRecord)' /\ (PagesOf(OtherRecord) \cap TopRecord.free = {})'
    BY <1>1, <1>6 DEF Safe, PagesOf
  <2> QED
    BY SMTT(20), <1>4, <1>6, <2>1, <2>2, <2>3 DEF Doubted
<1>11. Safe(TopRecord)'
  BY <1>6 DEF Safe
<1> QED
  BY <1>4, <1>6, <1>7, <1>8, <1>9, <1>10, <1>11 DEF Root

\* A torn write of the spare slot leaves the newest record where it is.
LEMMA TornKept ==
    ASSUME TypeOK, Medium, Records, Root, Formatted, Settled,
           WriteSlot(1 - Top, BadMetadata), UNCHANGED <<disk, file, size, sizeDisk>>
    PROVE /\ Medium' /\ Records' /\ Root' /\ Formatted' /\ Settled'
          /\ TopRecord' = TopRecord
<1>1. TopRecord.ok /\ TopRecord \in Metadata /\ Top \in 0 .. 1 /\ 1 - Top \in 0 .. 1
      /\ 1 - Top # Top /\ Safe(TopRecord)
  BY TopFacts DEF Root
<1>2. /\ slot'[1 - Top] = BadMetadata /\ slot'[Top] = TopRecord
      /\ slotDisk'[1 - Top] = slotDisk[1 - Top] \cup {BadMetadata}
      /\ slotDisk'[Top] = {TopRecord}
  BY <1>1 DEF WriteSlot, TypeOK, TopRecord, Settled
<1>3. ~BadMetadata.ok
  BY DEF BadMetadata, FirstMetadata
<1>4. Top' = Top
  <2>1. CASE Top = 0
    BY SMTT(20), <1>1, <1>2, <1>3, <2>1 DEF Top
  <2>2. CASE Top = 1
    BY <1>1, <1>2, <1>3, <2>2 DEF Top
  <2> QED
    BY SMTT(20), <1>1, <2>1, <2>2
<1>5. TopRecord' = TopRecord
  BY <1>2, <1>4 DEF TopRecord
<1>6. Medium'
  <2>1. \A i \in 0 .. 1 : slot'[i] \in slotDisk'[i]
    BY <1>1, <1>2
  <2> QED
    BY <2>1 DEF Medium
<1>7. Records'
  <2>1. \A i \in 0 .. 1 : slotDisk'[i] \subseteq slotDisk[i] \cup {BadMetadata}
    BY <1>1, <1>2 DEF Settled
  <2> QED
    BY <1>3, <2>1 DEF Records, SlotOf, OwnersDisjoint
<1>8. Formatted'
  <2>1. \A t \in SlotOutcomes' : t[1] \in slotDisk'[0] /\ t[2] \in slotDisk'[1]
    BY DEF SlotOutcomes
  <2>2. \A t \in SlotOutcomes' : t[1] = TopRecord \/ t[2] = TopRecord
    BY <1>1, <1>2, <2>1
  <2> QED
    BY <1>1, <2>2 DEF Formatted
<1>9. Settled'
  BY <1>2, <1>3, <1>4, <1>5 DEF Settled
<1>10. Safe(TopRecord)'
  BY <1>1, <1>5 DEF Safe
<1> QED
  BY <1>1, <1>5, <1>6, <1>7, <1>8, <1>9, <1>10 DEF Root

-----------------------------------------------------------------------------
(* Opening.                                                                *)

\* On a file that was never synced the only valid record is the first one.
LEMMA BlankTop ==
    ASSUME TypeOK, Medium, Records, Blank
    PROVE /\ TopRecord.version = 0 /\ OtherRecord.count = 0
          /\ TopRecord.ok => Top = 0 /\ TopRecord = FirstMetadata
<1>1. slot[0] \in {BadMetadata, FirstMetadata} /\ slot[1] = BadMetadata
  BY DEF Medium, Blank
<1>2. ~BadMetadata.ok /\ BadMetadata.version = 0 /\ BadMetadata.count = 0
  BY DEF BadMetadata, FirstMetadata
<1>3. FirstMetadata.version = 0 /\ FirstMetadata.count = 0
  BY DEF FirstMetadata
<1>4. Top = 0
  BY <1>1, <1>2 DEF Top
<1> QED
  BY <1>1, <1>2, <1>3, <1>4 DEF TopRecord, OtherRecord

\* The newest record loads: its tree and its free list can be read.
LEMMA TopLoads ==
    ASSUME TypeOK, Medium, Records, Root, TopRecord.ok, size >= 0
    PROVE Loads(TopRecord)
<1>1. Top \in 0 .. 1 /\ TopRecord \in Metadata
  BY TopFacts
<1>2. OwnersDisjoint(TopRecord)
  BY <1>1 DEF Records, Medium, TopRecord
<1>3. CASE Formatted
  <2>1. Safe(TopRecord)
    BY <1>3 DEF Root
  <2>2. TreePages(TopRecord.tree) \subseteq Page /\ TopRecord.list \subseteq Page
    BY <1>1 DEF TreePages, Metadata
  <2> QED
    BY <1>2, <2>1, <2>2 DEF Safe, Medium, Loads, SlotDecodes, ListLoads, TreeLoads
<1>4. CASE ~Formatted
  <2>1. TopRecord = FirstMetadata
    BY <1>4, BlankTop DEF Root
  <2>2. TreePages(FirstMetadata.tree) = {} /\ FirstMetadata.list = {} /\ FirstMetadata.count = 0
    BY DEF FirstMetadata, TreePages, NoTree
  <2> QED
    BY <1>2, <2>1, <2>2 DEF Loads, SlotDecodes, ListLoads, TreeLoads
<1> QED
  BY <1>3, <1>4

\* recoverCommittedPages chooses the newest record and never has to fall back.
LEMMA RecoversTop ==
    ASSUME TypeOK, Medium, Records, Root, size >= 0,
           NEW i \in 0 .. 1, Recoverable(slot[i])
    PROVE slot[i] = TopRecord /\ Current(Loaded(slot[i]), size)
<1>1. slot[i].ok /\ slot[i] \in Metadata
  BY DEF Recoverable, Loads, SlotDecodes, TypeOK
<1>2. TopRecord.ok
  <2>1. i = 0 \/ i = 1
    OBVIOUS
  <2> QED
    BY <1>1, <2>1, TopNewest
<1>3. Loads(TopRecord)
  BY <1>2, TopLoads
<1>4. TopRecord.generation <= slot[i].generation
  BY <1>3, TopFacts DEF Recoverable, TopRecord
<1>5. slot[i] = TopRecord
  <2>1. i = Top \/ i = 1 - Top
    BY TopFacts
  <2>2. i # 1 - Top
    <3> SUFFICES ASSUME i = 1 - Top PROVE FALSE
      OBVIOUS
    <3>1. slot[i] = OtherRecord
      BY DEF OtherRecord
    <3>2. OtherRecord.generation < TopRecord.generation
      BY <1>1, <3>1, TopNewest
    <3> QED
      BY <1>4, <3>1, <3>2, TopFacts DEF Metadata
  <2> QED
    BY <2>1, <2>2 DEF TopRecord
<1>6. Agrees(Loaded(slot[i]), TopRecord)
  BY <1>2, <1>5, ZenonT(30) DEF Agrees, Loaded
<1>7. TopRecord.count <= size /\ TopRecord.count \in Nat /\ size \in Int
  BY <1>3, TopFacts DEF Loads, SlotDecodes, Metadata, TypeOK
<1>8. ~Settled => OtherRecord.count <= size
  <2>1. CASE Formatted
    BY <2>1 DEF Root, Doubted, Safe, Medium
  <2>2. CASE ~Formatted
    BY <2>2, BlankTop DEF Root
  <2> QED
    BY <2>1, <2>2
<1>9. OtherRecord.count \in Nat
  BY TopFacts DEF Metadata
<1>10. Loaded(slot[i]).next = size + 1
  BY DEF Loaded
<1> QED
  BY <1>5, <1>6, <1>7, <1>8, <1>9, <1>10 DEF Current, Beyond

\* A page an update may write belongs to no record recovery may choose.
LEMMA SpareFree ==
    ASSUME TypeOK, Medium, Records, Root, Formatted,
           Agrees(saved, TopRecord), Beyond(saved.next),
           NEW p \in Page, Spare(p) \/ (p \in saved.retired /\ Settled)
    PROVE p \notin PagesOf(TopRecord) /\ (~Settled => p \notin PagesOf(OtherRecord))
<1>1. OwnersDisjoint(TopRecord)
  BY TopFacts DEF Records, Medium, TopRecord, Root
<1>2. /\ \A q \in PagesOf(TopRecord) : q <= TopRecord.count
      /\ ~Settled => \A q \in PagesOf(OtherRecord) : q <= OtherRecord.count
      /\ ~Settled => PagesOf(OtherRecord) \cap TopRecord.free = {}
  BY DEF Root, Doubted, Safe, PagesOf
<1>3. TopRecord.count \in Nat /\ OtherRecord.count \in Nat /\ saved.next \in Nat /\ p \in Nat
  <2>1. TopRecord.count \in Nat /\ OtherRecord.count \in Nat
    BY TopFacts DEF Metadata
  <2>2. saved.next \in Nat
    BY DEF TypeOK, PageManager
  <2> QED
    BY <2>1, <2>2 DEF Page
<1>4. CASE p \in saved.free
  BY <1>1, <1>2, <1>4 DEF Agrees, OwnersDisjoint, PagesOf
<1>5. CASE p >= saved.next
  BY <1>2, <1>3, <1>5 DEF Beyond
<1>6. CASE p \in saved.retired /\ Settled
  BY <1>1, <1>6 DEF Agrees, OwnersDisjoint, PagesOf
<1> QED
  BY <1>4, <1>5, <1>6 DEF Spare

\* Whatever a power loss leaves of the file, recovery can use it.
LEMMA PowerLossKept ==
    ASSUME TypeOK, TypeOK', Medium, Records, Root, PowerLoss
    PROVE /\ Medium' /\ Records' /\ Root' /\ (Formatted' => Settled')
          /\ acked' = TopRecord'.version /\ maybe' = {}
<1>1. PICK s \in sizeDisk, s0 \in slotDisk[0], s1 \in slotDisk[1] :
          /\ \A p \in Page : p <= s => file'[p] \in disk[p]
          /\ slot' = [i \in 0 .. 1 |-> IF s = -1 THEN BadMetadata ELSE IF i = 0 THEN s0 ELSE s1]
          /\ size' = s
  <2>1. PICK s \in sizeDisk, s0 \in slotDisk[0], s1 \in slotDisk[1] :
          LET dirty == {p \in Page : disk[p] # {file[p]}}
          IN \E kept \in [dirty -> UNION {disk[p] : p \in dirty}] :
             /\ \A p \in dirty : kept[p] \in disk[p]
             /\ file' = [p \in Page |-> IF p > s THEN Junk
                                        ELSE IF p \in dirty THEN kept[p] ELSE file[p]]
             /\ slot' = [i \in 0 .. 1 |-> IF s = -1 THEN BadMetadata
                                           ELSE IF i = 0 THEN s0 ELSE s1]
             /\ size' = s
    BY Zenon DEF PowerLoss
  <2> DEFINE dirty == {p \in Page : disk[p] # {file[p]}}
  <2>2. PICK kept :
             /\ \A p \in dirty : kept[p] \in disk[p]
             /\ file' = [p \in Page |-> IF p > s THEN Junk
                                        ELSE IF p \in dirty THEN kept[p] ELSE file[p]]
             /\ slot' = [i \in 0 .. 1 |-> IF s = -1 THEN BadMetadata
                                           ELSE IF i = 0 THEN s0 ELSE s1]
             /\ size' = s
    BY <2>1, Zenon
  <2>3. s \in Int
    BY DEF TypeOK
  <2>4. \A p \in Page : p <= s => file'[p] \in disk[p]
    BY <2>2, <2>3 DEF Medium, Page
  <2> QED
    BY <2>2, <2>4
<1>2. /\ disk' = [p \in Page |-> {file'[p]}]
      /\ slotDisk' = [i \in 0 .. 1 |-> {slot'[i]}]
      /\ sizeDisk' = {s}
      /\ acked' = Newest(slot'[0], slot'[1]).version /\ maybe' = {}
  BY <1>1 DEF PowerLoss
<1>3. s \in Int /\ s >= -1
  BY DEF TypeOK, Medium
<1>4. Medium'
  BY <1>1, <1>2, <1>3 DEF Medium
<1>5. ~BadMetadata.ok
  BY DEF BadMetadata, FirstMetadata
<1>6. Records'
  <2>1. \A i \in 0 .. 1 : slot'[i] = BadMetadata \/ slot'[i] \in slotDisk[i]
    BY <1>1
  <2> QED
    BY <1>2, <1>5, <2>1 DEF Records, SlotOf, OwnersDisjoint
<1>7. acked' = TopRecord'.version
  BY <1>2, <1>4, <1>6, TopNext
<1>8. (slot'[0].ok \/ slot'[1].ok) => Settled'
  <2>1. /\ slotDisk'[Top'] = {TopRecord'} /\ slotDisk'[1 - Top'] = {OtherRecord'}
    BY <1>2, <1>4, <1>6, TopNext DEF TopRecord, OtherRecord
  <2> QED
    BY <1>4, <1>6, <2>1, TopNext DEF Settled
<1>9. Formatted' <=> s # -1 /\ (slot'[0].ok \/ slot'[1].ok)
  <2>1. \A t \in SlotOutcomes' : t[1] = slot'[0] /\ t[2] = slot'[1]
    BY <1>2 DEF SlotOutcomes
  <2>2. <<slot'[0], slot'[1]>> \in SlotOutcomes'
    BY <1>2 DEF SlotOutcomes
  <2> QED
    BY <1>2, <2>1, <2>2 DEF Formatted
<1>10. CASE Formatted
  <2>1. s # -1 /\ (s0.ok \/ s1.ok)
    <3>1. <<s0, s1>> \in SlotOutcomes
      BY DEF SlotOutcomes
    <3>2. <<s0, s1>>[1].ok \/ <<s0, s1>>[2].ok
      BY <1>10, <3>1 DEF Formatted
    <3> QED
      BY <1>10, <3>2 DEF Formatted
  <2>2. slot'[0] = s0 /\ slot'[1] = s1
    BY <1>1, <2>1
  <2>3. TopRecord' = Newest(s0, s1)
    BY <1>4, <1>6, <2>2, TopNext
  <2>4. Safe(Newest(s0, s1)) /\ Newest(s0, s1) \in Metadata
    BY <1>10, Outcomes, TopFacts DEF Root, Doubted
  <2> DEFINE m == Newest(s0, s1)
  <2>5. SafeOn(m, disk', sizeDisk')
    <3> HIDE DEF m
    <3>1. Safe(m) /\ m \in Metadata
      BY <2>4 DEF m
    <3>2. m.count <= s /\ m.count \in Nat
      BY <3>1 DEF Safe, Metadata
    <3>3. TreePages(m.tree) \subseteq Page /\ m.list \subseteq Page
      BY <3>1 DEF TreePages, Metadata
    <3>4. \A p \in PagesOf(m) : p <= s
      BY <1>3, <3>1, <3>2, <3>3 DEF Safe, PagesOf, Page
    <3>5. \A p \in PagesOf(m) : disk'[p] = disk[p]
      BY ZenonT(30), <1>1, <1>2, <3>1, <3>3, <3>4 DEF Safe, PagesOf
    <3>6. SafeOn(m, disk, sizeDisk)
      BY <3>1 DEF Safe, SafeOn
    <3>7. \A z \in sizeDisk' : z \in sizeDisk
      BY <1>2
    <3> QED
      BY <3>5, <3>6, <3>7, KeepsSafe
  <2>6. Safe(TopRecord)'
    BY <2>3, <2>5 DEF Safe, SafeOn
  <2>7. Root'
    BY <1>8, <1>9, <2>1, <2>2, <2>6 DEF Root, Safe
  <2> QED
    BY <1>2, <1>4, <1>6, <1>7, <1>8, <1>9, <2>7
<1>11. CASE ~Formatted
  <2>1. slot'[0] \in {BadMetadata, FirstMetadata} /\ slot'[1] = BadMetadata
    BY SMTT(20), <1>1, <1>11 DEF Root, Blank
  <2>2. CASE Formatted'
    <3>1. slot'[0] = FirstMetadata /\ s >= 0
      BY <1>3, <1>5, <1>9, <2>1, <2>2
    <3>2. Top' = 0
      BY <1>5, <2>1 DEF Top
    <3>3. TopRecord' = FirstMetadata
      BY <3>1, <3>2 DEF TopRecord
    <3>4. TreePages(FirstMetadata.tree) = {} /\ FirstMetadata.list = {}
          /\ FirstMetadata.count = 0 /\ FirstMetadata.ok
      BY DEF FirstMetadata, TreePages, NoTree
    <3>5. SafeOn(FirstMetadata, disk', sizeDisk')
      BY <1>2, <3>1, <3>4 DEF SafeOn
    <3>6. Safe(TopRecord)'
      BY <3>3, <3>5 DEF Safe, SafeOn
    <3>7. Root'
      BY <1>8, <1>9, <2>2, <3>3, <3>4, <3>6 DEF Root
    <3> QED
      BY <1>2, <1>4, <1>6, <1>7, <1>8, <1>9, <3>7
  <2>3. CASE ~Formatted'
    <3>1. Blank'
      BY <1>2, <2>1 DEF Blank
    <3>2. Root'
      BY <2>3, <3>1 DEF Root
    <3> QED
      BY SMTT(20), <1>2, <1>4, <1>6, <1>7, <2>3, <3>2
  <2> QED
    BY <2>2, <2>3
<1> QED
  BY <1>10, <1>11

-----------------------------------------------------------------------------
(* Every step keeps the invariant.                                         *)

\* A step that leaves the records recovery may choose as they are.
SameRecords ==
    /\ Formatted' <=> Formatted
    /\ Settled' <=> Settled
    /\ TopRecord' = TopRecord /\ OtherRecord' = OtherRecord

\* A step that leaves the file alone keeps all that is said of the file.
LEMMA SameFile ==
    ASSUME TypeOK, FileInv, UNCHANGED <<file, disk, slot, slotDisk, size, sizeDisk>>
    PROVE FileInv' /\ SameRecords
<1>1. Medium'
  BY DEF FileInv, Medium
<1>2. Spared(disk', sizeDisk')
  BY DEF Spared
<1> QED
  BY <1>1, <1>2, SlotsKept, RootKept DEF FileInv, SameRecords

\* A step that changes neither the records nor the acknowledgements keeps Promise.
LEMMA SamePromise ==
    ASSUME Promise, SameRecords, UNCHANGED ghostVars,
           pc' \in {"snapshot", "list", "publish"} => pc \in {"snapshot", "list", "publish"}
    PROVE Promise'
BY DEF Promise, SameRecords, ghostVars

\* A handle that is closed, or waits for repair, is at no point of an update.
LEMMA ClosedStage ==
    ASSUME pc' = "closed", ~uncertain'
    PROVE Stage'
BY DEF Stage

\* A handle left uncertain by a failed publication is at no point of an update.
LEMMA UncertainStage ==
    ASSUME pc' = "idle", uncertain', Formatted'
    PROVE Stage'
BY DEF Stage

\* Opening the file, syncing its directory and failing to open it keep the invariant.
LEMMA StartOpenKept ==
    ASSUME TypeOK, RecoveryInv, StartOpen \/ SyncDirectory \/ RecoverFails
    PROVE RecoveryInv' /\ (Promise => Promise')
<1>1. UNCHANGED <<file, disk, slot, slotDisk, size, sizeDisk, ghostVars>>
  BY DEF StartOpen, SyncDirectory, RecoverFails, fileVars
<1>2. FileInv' /\ SameRecords
  BY <1>1, SameFile DEF RecoveryInv
<1>3. /\ pc' \in {"format", "syncFile", "recover", "closed"} /\ (pc' = "format" => size = -1)
      /\ pc' = "syncFile" => size # -1 /\ Readable
      /\ ~uncertain'
  BY DEF StartOpen, SyncDirectory, RecoverFails, RecoveryInv, Stage
<1>7. pc' = "syncFile" => size >= 0 /\ TopRecord.ok
  <2> SUFFICES ASSUME pc' = "syncFile" PROVE size >= 0 /\ TopRecord.ok
    OBVIOUS
  <2>1. Medium /\ Records
    BY DEF RecoveryInv, FileInv
  <2>2. size \in Int /\ size >= -1
    BY <2>1 DEF Medium, TypeOK
  <2>3. slot[0].ok \/ slot[1].ok
    BY <1>3 DEF Readable, SlotDecodes
  <2> QED
    BY <1>3, <2>1, <2>2, <2>3, TopNewest
<1>4. size = -1 => ~Formatted
  BY DEF Formatted, RecoveryInv, FileInv, Medium
<1>5. Stage'
  BY <1>1, <1>2, <1>3, <1>4, <1>7 DEF Stage, SameRecords
<1>6. Promise => Promise'
  BY <1>1, <1>2, <1>3, SamePromise
<1> QED
  BY <1>2, <1>5, <1>6 DEF RecoveryInv

\* Formatting a new file keeps the invariant.
LEMMA FormatKept ==
    ASSUME TypeOK, RecoveryInv, Format \/ FormatSlot
    PROVE RecoveryInv' /\ (Promise => Promise')
<1>1. Blank /\ ~Formatted /\ Medium /\ Records
  BY DEF Format, FormatSlot, RecoveryInv, FileInv, Root, Stage
<1>2. ~BadMetadata.ok /\ SlotOf(FirstMetadata) = 0 /\ OwnersDisjoint(FirstMetadata)
  BY DEF BadMetadata, FirstMetadata, SlotOf, OwnersDisjoint, TreePages, NoTree
<1>3. CASE Format
  <2>1. UNCHANGED <<file, disk, slot, slotDisk, ghostVars>> /\ size' = 0
        /\ sizeDisk' = sizeDisk \cup {0}
    BY <1>3 DEF Format
  <2>2. Medium'
    BY <1>1, <2>1 DEF Medium
  <2>3. -1 \in sizeDisk'
    BY SMTT(20), <1>1, <1>3, <2>1 DEF Format, Medium, RecoveryInv, Stage
  <2>4. ~Formatted' /\ Blank' /\ Records'
    BY <1>1, <2>1, <2>3, SlotsKept DEF Formatted, Blank
  <2>5. pc' = "formatSlot" /\ ~uncertain'
    BY <1>3 DEF Format, RecoveryInv, Stage
  <2>6. Stage'
    BY <2>1, <2>4, <2>5 DEF Stage
  <2>7. Promise => Promise'
    BY <1>1, <2>1, <2>4 DEF Promise, ghostVars
  <2> QED
    BY <2>2, <2>4, <2>6, <2>7 DEF RecoveryInv, FileInv, Root
<1>4. CASE FormatSlot
  <2>1. /\ UNCHANGED <<file, disk, size, sizeDisk, ghostVars>>
        /\ slot'[0] = FirstMetadata /\ slot'[1] = slot[1]
        /\ slotDisk'[0] = slotDisk[0] \cup {FirstMetadata, BadMetadata}
        /\ slotDisk'[1] = slotDisk[1]
    BY <1>4 DEF FormatSlot, WriteSlot, TypeOK
  <2>2. \A i \in 0 .. 1 : i = 0 \/ i = 1
    OBVIOUS
  <2>3. Medium'
    BY <1>1, <2>1, <2>2 DEF Medium
  <2>4. Blank'
    BY <1>1, <2>1 DEF Blank
  <2>5. Records'
    BY <1>2, <2>2, <2>4 DEF Records, Blank, SlotOf, OwnersDisjoint
  <2>6. ~Formatted'
    <3>1. <<BadMetadata, BadMetadata>> \in SlotOutcomes'
      BY <2>1, <2>4 DEF SlotOutcomes, Blank
    <3>2. ~(<<BadMetadata, BadMetadata>>[1].ok \/ <<BadMetadata, BadMetadata>>[2].ok)
      BY <1>2
    <3> QED
      BY <3>1, <3>2 DEF Formatted
  <2>7. pc' = "formatSync" /\ ~uncertain' /\ size >= 0
    BY <1>4 DEF FormatSlot, RecoveryInv, Stage
  <2>8. Stage'
    BY <2>1, <2>6, <2>7 DEF Stage
  <2>9. Promise => Promise'
    BY <1>1, <2>1, <2>6 DEF Promise, ghostVars
  <2> QED
    BY <2>3, <2>4, <2>5, <2>6, <2>8, <2>9 DEF RecoveryInv, FileInv, Root
<1> QED
  BY <1>3, <1>4

\* The first fsync of a new file keeps the invariant: the file is now formatted.
LEMMA FormatSyncKept ==
    ASSUME TypeOK, RecoveryInv, FormatSync
    PROVE RecoveryInv' /\ (Promise => Promise')
<1>1. size >= 0 /\ slot[0] = FirstMetadata /\ ~Formatted /\ ~uncertain
  BY DEF FormatSync, RecoveryInv, Stage
<1>2. Medium /\ Records /\ Root /\ Blank
  BY <1>1 DEF RecoveryInv, FileInv, Root
<1>3. TopRecord.ok /\ TopRecord.version = 0
  <2>1. FirstMetadata.ok
    BY DEF FirstMetadata
  <2>2. TopRecord.ok
    BY <1>1, <1>2, <2>1, TopNewest
  <2> QED
    BY <1>2, <2>2, BlankTop
<1>4. /\ Medium' /\ Records' /\ Root' /\ Formatted' /\ Settled'
      /\ TopRecord' = TopRecord
  BY <1>1, <1>2, <1>3, SyncKept DEF FormatSync
<1>5. pc' \in {"syncDirectory", "recover"} /\ uncertain' = uncertain /\ UNCHANGED ghostVars
  BY DEF FormatSync
<1>6. Stage'
  BY <1>1, <1>5 DEF Stage
<1>7. Promise => Promise'
  BY <1>1, <1>3, <1>4, <1>5 DEF Promise, ghostVars
<1> QED
  BY <1>4, <1>6, <1>7 DEF RecoveryInv, FileInv

\* Syncing a file that another process formatted keeps the invariant.
LEMMA SyncFileKept ==
    ASSUME TypeOK, RecoveryInv, SyncFile
    PROVE RecoveryInv' /\ (Promise => Promise')
<1>1. size >= 0 /\ TopRecord.ok /\ ~uncertain
  BY DEF SyncFile, RecoveryInv, Stage
<1>2. Medium /\ Records /\ Root
  BY DEF RecoveryInv, FileInv
<1>3. /\ Medium' /\ Records' /\ Root' /\ Formatted' /\ Settled'
      /\ TopRecord' = TopRecord
  BY <1>1, <1>2, SyncKept DEF SyncFile
<1>4. pc' = "syncDirectory" /\ uncertain' = uncertain /\ UNCHANGED ghostVars
  BY DEF SyncFile
<1>5. Stage'
  BY <1>1, <1>4 DEF Stage
<1>6. Promise => TopRecord.version \in {acked} \cup maybe
  BY <1>1, <1>2, BlankTop DEF Promise, Root
<1>7. Promise => Promise'
  BY <1>3, <1>4, <1>6 DEF Promise, ghostVars
<1> QED
  BY <1>3, <1>5, <1>7 DEF RecoveryInv, FileInv

\* Open and repair end with a page manager that shows the newest record.
LEMMA RecoverKept ==
    ASSUME TypeOK, RecoveryInv, Recover \/ Repair
    PROVE RecoveryInv' /\ (Promise => Promise')
<1>1. UNCHANGED <<file, disk, slot, slotDisk, size, sizeDisk, ghostVars>> /\ size >= 0
  BY DEF Recover, Repair, fileVars
<1>2. FileInv' /\ SameRecords
  BY <1>1, SameFile DEF RecoveryInv
<1>3. PICK i \in 0 .. 1 : Recoverable(slot[i]) /\ pm' = Loaded(slot[i])
  BY DEF Recover, Repair
<1>4. Current(Loaded(slot[i]), size)
  BY SMTT(20), <1>1, <1>3, RecoversTop DEF RecoveryInv, FileInv
<1>5. Current(pm, size)'
  BY <1>1, <1>2, <1>3, <1>4 DEF SameRecords, Current, Agrees, Beyond
<1>6. pc' = "idle"
  BY DEF Recover, Repair
<1>7. ~uncertain'
  BY DEF Recover, Repair, RecoveryInv, Stage
<1>8. Stage'
  BY <1>1, <1>5, <1>6, <1>7 DEF Stage
<1>9. Promise => Promise'
  BY <1>1, <1>2, <1>6, SamePromise
<1> QED
  BY <1>2, <1>8, <1>9 DEF RecoveryInv

\* Close and crashes keep the invariant, whatever a power loss keeps of the file.
LEMMA CrashKept ==
    ASSUME TypeOK, TypeOK', RecoveryInv, Close \/ Crash
    PROVE RecoveryInv' /\ ("directory" \notin Faults /\ Promise => Promise')
<1>1. pc' = "closed" /\ ~uncertain'
  BY Zenon DEF Close, Crash, ProcessCrash, PowerLoss, LoseFile, Forget
<1>2. Stage'
  BY <1>1, ClosedStage
<1>3. CASE Close \/ ProcessCrash
  <2>1. UNCHANGED <<file, disk, slot, slotDisk, size, sizeDisk, ghostVars>>
    BY <1>3 DEF Close, ProcessCrash, fileVars
  <2>2. FileInv' /\ SameRecords
    BY <2>1, SameFile DEF RecoveryInv
  <2> QED
    BY <1>1, <1>2, <2>1, <2>2, SamePromise DEF RecoveryInv
<1>4. CASE PowerLoss
  <2>1. /\ Medium' /\ Records' /\ Root' /\ (Formatted' => Settled')
        /\ acked' = TopRecord'.version /\ maybe' = {}
    BY <1>4, PowerLossKept DEF RecoveryInv, FileInv
  <2>2. ~Formatted' => TopRecord'.version = 0
    <3>1. TypeOK /\ Medium /\ Records /\ Blank => TopRecord.version = 0
      BY BlankTop
    <3>2. (TypeOK /\ Medium /\ Records /\ Blank => TopRecord.version = 0)'
      BY BlankTop, PTL
    <3> QED
      BY <2>1, <3>2 DEF Root
  <2>3. Promise'
    BY <1>1, <2>1, <2>2 DEF Promise
  <2> QED
    BY <1>2, <2>1, <2>3 DEF RecoveryInv, FileInv
<1>5. CASE LoseFile
  <2>1. /\ \A p \in Page : file'[p] = Junk /\ disk'[p] = {Junk}
        /\ \A i \in 0 .. 1 : slot'[i] = BadMetadata /\ slotDisk'[i] = {BadMetadata}
        /\ size' = -1 /\ sizeDisk' = {-1}
    BY <1>5 DEF LoseFile
  <2>2. Medium' /\ ~Formatted' /\ Blank'
    BY <2>1 DEF Medium, Formatted, Blank
  <2>3. Records'
    BY <2>1 DEF Records, BadMetadata, FirstMetadata
  <2>4. "directory" \in Faults
    BY <1>5 DEF LoseFile
  <2> QED
    BY <1>2, <2>2, <2>3, <2>4 DEF RecoveryInv, FileInv, Root
<1> QED
  BY SMTT(20), <1>3, <1>4, <1>5 DEF Crash
=============================================================================
