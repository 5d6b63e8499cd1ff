------------------------------ MODULE PageTree ------------------------------
(***************************************************************************)
(* The copy-on-write B+Tree of internal/btree/page_tree.go on the pages of *)
(* page.go, with their real sizes, and the structure check that            *)
(* loadCommittedPages (kv.go) makes when a database is opened.             *)
(*                                                                         *)
(* Keys are 1 .. NumKeys in byte order, 0 is the empty key, the sentinel   *)
(* of the leftmost leaf.  A value stands for its length.  A node is a      *)
(* record: its page ID, its type and its entries; an internal entry holds  *)
(* the child itself, so following a page pointer is taking the field kid.  *)
(* Page IDs serve only to account for the pages an operation allocates and *)
(* frees: after each operation the pages of the tree are numbered 1, 2 ... *)
(* and the pages the next operation allocates are all numbered 0.          *)
(***************************************************************************)
EXTENDS Integers, SequencesExt

CONSTANTS
    NumKeys,    \* bound: how many different keys are stored
    KeyLength,  \* length of each key in bytes, a sequence of NumKeys numbers
    ValueLengths \* lengths of the values stored

PageSize == 4096
PageHeaderSize == 16
PagePtrSize == 8
PageOffsetSize == 2
MaxKeySize == 1000
MaxValueSize == 3000

Key == 1 .. NumKeys
Sentinel == 0

ASSUME SizesAssumption ==
    /\ NumKeys \in Nat
    /\ \A k \in Key : KeyLength[k] \in 1 .. MaxKeySize
    /\ ValueLengths \subseteq 0 .. MaxValueSize

Length(k) == IF k = Sentinel THEN 0 ELSE KeyLength[k]

VARIABLES
    root,   \* the root node, or NoRoot
    map,    \* the dictionary the tree stands for: key -> value, -1 if absent
    last    \* outcome of the last operation and its page accounting

vars == <<root, map, last>>

NoRoot == [id |-> 0, leaf |-> TRUE, ents |-> << >>]

-----------------------------------------------------------------------------
(* Node sizes (page.go).                                                   *)

EntrySize(leaf, e) ==
    PagePtrSize + PageOffsetSize + 4 + Length(e.key) + (IF leaf THEN e.val ELSE 0)

\* nbytes, nodeRangeSize and encodedMergeSize: bytes of a node with these
\* entries.
NodeSize(leaf, ents) ==
    LET size[n \in 0 .. Len(ents)] ==
            IF n = 0 THEN PageHeaderSize ELSE size[n - 1] + EntrySize(leaf, ents[n])
    IN size[Len(ents)]

\* nodeAppendKV on every entry of a buffer of n bytes succeeds.
Fits(leaf, ents, n) == NodeSize(leaf, ents) <= n

NewNode(leaf, ents) == [id |-> 0, leaf |-> leaf, ents |-> ents]

\* Mutant: the last entry whose key is strictly less than k.
NodeLookupLT(ents, k) == SelectLastInSeq(ents, LAMBDA e : e.key < k)

\* nodeLookupLE: the last entry whose key is at most k; 0 means none.
NodeLookupLE(ents, k) == SelectLastInSeq(ents, LAMBDA e : e.key <= k)

\* nodeSplit3: entries packed greedily into pages.
RECURSIVE Pack(_, _)
Pack(leaf, ents) ==
    IF ents = << >> THEN << >>
    ELSE LET fitting == {n \in 1 .. Len(ents) :
                            Fits(leaf, SubSeq(ents, 1, n), PageSize)} \cup {1}
             end == CHOOSE n \in fitting : \A m \in fitting : m <= n
         IN <<NewNode(leaf, SubSeq(ents, 1, end))>>
              \o Pack(leaf, SubSeq(ents, end + 1, Len(ents)))

NodeSplit3(leaf, ents) == Pack(leaf, ents)

\* Mutant: a node may be split into two pages at most.
SplitInTwo(parts) ==
    /\ Len(parts) <= 2
    /\ \A i \in 1 .. Len(parts) : Fits(parts[i].leaf, parts[i].ents, PageSize)

\* nodeSplit3 returns no error.
SplitOK(parts) ==
    /\ Len(parts) <= 3
    /\ \A i \in 1 .. Len(parts) : Fits(parts[i].leaf, parts[i].ents, PageSize)

\* What insertNode and deleteNode return: the updated node (not yet stored),
\* the page IDs made obsolete, how many pages were allocated, whether the key
\* was found, and whether there was an error.
Result(ok, ents, obsolete, allocated, found) ==
    [ok |-> ok, ents |-> ents, obsolete |-> obsolete, allocated |-> allocated,
     found |-> found]

Failure == Result(FALSE, << >>, << >>, 0, FALSE)

\* Entries pointing to stored nodes, keyed by their first keys.
Pointers(nodes) == [i \in 1 .. Len(nodes) |-> [key |-> nodes[i].ents[1].key, kid |-> nodes[i]]]

\* replaceChild and replaceChildrenAfterDelete: entries i .. i + n - 1 of the
\* parent give way to pointers to the new children.
ReplaceEntries(ents, i, n, nodes) ==
    SubSeq(ents, 1, i - 1) \o Pointers(nodes) \o SubSeq(ents, i + n, Len(ents))

-----------------------------------------------------------------------------
(* insert.                                                                 *)

RECURSIVE InsertNode(_, _, _)
InsertNode(node, k, v) ==
    LET i == NodeLookupLE(node.ents, k)
    IN IF i = 0 THEN Failure
       ELSE IF node.leaf
       THEN LET new == [key |-> k, val |-> v]
                ents == IF node.ents[i].key = k
                        THEN ReplaceAt(node.ents, i, new)      \* leafUpdateEncoded
                        ELSE InsertAt(node.ents, i + 1, new)   \* leafInsertEncoded
            IN Result(Fits(TRUE, ents, 2 * PageSize), ents, << >>, 0, TRUE)
       ELSE LET child == node.ents[i].kid
                sub == InsertNode(child, k, v)
                parts == NodeSplit3(child.leaf, sub.ents)
                ents == ReplaceEntries(node.ents, i, 1, parts)
            IN IF sub.ok /\ SplitOK(parts)
               THEN Result(Fits(FALSE, ents, 2 * PageSize), ents,
                           Append(sub.obsolete, child.id),
                           sub.allocated + Len(parts), TRUE)
               ELSE Failure

\* The outcome of a whole operation: the new root and the accounting.
Outcome(ok, found, newRoot, obsolete, allocated) ==
    [ok |-> ok, found |-> found, root |-> newRoot, obsolete |-> obsolete,
     allocated |-> allocated]

TreeInsert(tree, k, v) ==
    IF tree = NoRoot
    THEN Outcome(TRUE, TRUE,
                 NewNode(TRUE, <<[key |-> Sentinel, val |-> 0], [key |-> k, val |-> v]>>),
                 << >>, 1)
    ELSE LET sub == InsertNode(tree, k, v)
             parts == NodeSplit3(tree.leaf, sub.ents)
             top == IF Len(parts) = 1 THEN parts[1] ELSE NewNode(FALSE, Pointers(parts))
         IN IF sub.ok /\ SplitOK(parts)
            THEN Outcome(Fits(top.leaf, top.ents, PageSize), TRUE, top,
                         Append(sub.obsolete, tree.id),
                         sub.allocated + Len(parts) + (IF Len(parts) = 1 THEN 0 ELSE 1))
            ELSE Outcome(FALSE, FALSE, tree, << >>, 0)

-----------------------------------------------------------------------------
(* delete.                                                                 *)

\* Mutant: the merge is checked against the two-page buffer of insertions.
MergeableInTwoPages(leaf, left, right) == Fits(leaf, left \o right, 2 * PageSize)

\* mergeEncodedNodes succeeds in merging.
Mergeable(leaf, left, right) == Fits(leaf, left \o right, PageSize)

\* An updated child this small is merged with a sibling if possible.
Underfull(leaf, ents) == ents = << >> \/ NodeSize(leaf, ents) <= PageSize \div 4

\* Mutant: the sibling's page is forgotten.
KeepSibling(obsolete, sibling) == obsolete

\* The page of a sibling merged into its neighbour becomes obsolete too.
FreeSibling(obsolete, sibling) == Append(obsolete, sibling.id)

RECURSIVE DeleteNode(_, _)
DeleteNode(node, k) ==
    LET i == NodeLookupLE(node.ents, k)
    IN IF i = 0 THEN Failure
       ELSE IF node.leaf
       THEN IF node.ents[i].key # k
            THEN Result(TRUE, node.ents, << >>, 0, FALSE)
            ELSE Result(TRUE, RemoveAt(node.ents, i), << >>, 0, TRUE)
       ELSE LET child == node.ents[i].kid
                sub == DeleteNode(child, k)
                left == node.ents[i - 1].kid
                right == node.ents[i + 1].kid
                small == Underfull(child.leaf, sub.ents)
                \* replaceChildrenAfterDelete, into a buffer of one page
                replaced(at, n, merged, obsolete) ==
                    LET ents == ReplaceEntries(node.ents, at, n,
                                               <<NewNode(child.leaf, merged)>>)
                    IN Result(Fits(FALSE, ents, PageSize), ents, obsolete,
                              sub.allocated + 1, TRUE)
                obsolete == Append(sub.obsolete, child.id)
            IN IF ~sub.ok THEN Failure
               ELSE IF ~sub.found THEN Result(TRUE, node.ents, << >>, 0, FALSE)
               ELSE IF small /\ i > 1 /\ Mergeable(child.leaf, left.ents, sub.ents)
               THEN replaced(i - 1, 2, left.ents \o sub.ents, FreeSibling(obsolete, left))
               ELSE IF small /\ i < Len(node.ents)
                         /\ Mergeable(child.leaf, sub.ents, right.ents)
               THEN replaced(i, 2, sub.ents \o right.ents, FreeSibling(obsolete, right))
               ELSE IF sub.ents = << >>
               THEN Result(TRUE, RemoveAt(node.ents, i), obsolete, sub.allocated, TRUE)
               ELSE replaced(i, 1, sub.ents, obsolete)

TreeDelete(tree, k) ==
    IF tree = NoRoot THEN Outcome(TRUE, FALSE, tree, << >>, 0)
    ELSE LET sub == DeleteNode(tree, k)
             obsolete == Append(sub.obsolete, tree.id)
         IN IF ~sub.ok \/ ~sub.found THEN Outcome(sub.ok, FALSE, tree, << >>, 0)
            ELSE IF (tree.leaf /\ Len(sub.ents) = 1) \/ sub.ents = << >>
            THEN Outcome(TRUE, TRUE, NoRoot, obsolete, sub.allocated)
            ELSE IF ~tree.leaf /\ Len(sub.ents) = 1
            THEN Outcome(TRUE, TRUE, sub.ents[1].kid, obsolete, sub.allocated)
            ELSE Outcome(TRUE, TRUE, NewNode(tree.leaf, sub.ents), obsolete,
                         sub.allocated + 1)

-----------------------------------------------------------------------------
(* Reads.                                                                  *)

\* The leaf a descent by nodeLookupLE reaches.
RECURSIVE Descend(_, _)
Descend(node, k) ==
    IF node.leaf THEN node ELSE Descend(node.ents[NodeLookupLE(node.ents, k)].kid, k)

\* getValue, with -1 for a key that is not found.
GetValue(tree, k) ==
    IF tree = NoRoot THEN -1
    ELSE LET leaf == Descend(tree, k)
             e == leaf.ents[NodeLookupLE(leaf.ents, k)]
         IN IF e.key = k THEN e.val ELSE -1

\* The leaves in the order nextLeaf visits them.
RECURSIVE Leaves(_)
Leaves(node) ==
    IF node.leaf THEN <<node>>
    ELSE FlattenSeq([i \in 1 .. Len(node.ents) |-> Leaves(node.ents[i].kid)])

\* rangeValues: from the leaf seekRangeStart finds, through the following
\* leaves, up to the first key past the end.
RangeValues(tree, start, end) ==
    IF start > end \/ tree = NoRoot THEN << >>
    ELSE LET leaves == Leaves(tree)
             first == SelectInSeq(leaves, LAMBDA n : n = Descend(tree, start))
             visited == FlattenSeq([i \in 1 .. Len(leaves) - first + 1 |->
                                       leaves[first + i - 1].ents])
             kept == SelectSeq(visited, LAMBDA e : e.key # Sentinel /\ e.key >= start)
             stop == SelectInSeq(kept, LAMBDA e : e.key > end)
         IN IF stop = 0 THEN kept ELSE SubSeq(kept, 1, stop - 1)

-----------------------------------------------------------------------------
(* loadCommittedPages.                                                     *)

\* The checks made of one page: its size, its order, and the bounds its
\* parent gives (upper bound 0: none).
PageLoads(node, lower, upper) ==
    /\ node.ents # << >>
    /\ Fits(node.leaf, node.ents, PageSize)
    /\ \A i, j \in 1 .. Len(node.ents) : i < j => node.ents[i].key < node.ents[j].key
    /\ node.ents[1].key = lower
    /\ upper # 0 => Last(node.ents).key < upper

RECURSIVE WalkLoads(_, _, _)
WalkLoads(node, lower, upper) ==
    /\ PageLoads(node, lower, upper)
    /\ ~node.leaf =>
         \A i \in 1 .. Len(node.ents) :
            WalkLoads(node.ents[i].kid, node.ents[i].key,
                      IF i < Len(node.ents) THEN node.ents[i + 1].key ELSE upper)

RECURSIVE LeafDepths(_)
LeafDepths(node) ==
    IF node.leaf THEN {0}
    ELSE {d + 1 : d \in UNION {LeafDepths(node.ents[i].kid) : i \in 1 .. Len(node.ents)}}

\* "underfull and mergeable with its left (right) sibling".
RECURSIVE NoMergeableChild(_)
NoMergeableChild(node) ==
    \/ node.leaf
    \/ \A i \in 1 .. Len(node.ents) :
         LET child == node.ents[i].kid
             joins(a, b) == Mergeable(child.leaf, node.ents[a].kid.ents, node.ents[b].kid.ents)
         IN /\ NoMergeableChild(child)
            /\ NodeSize(child.leaf, child.ents) <= PageSize \div 4 =>
                 /\ i > 1 => ~joins(i - 1, i)
                 /\ i < Len(node.ents) => ~joins(i, i + 1)

RootHasTwoChildren(tree) == tree.leaf \/ Len(tree.ents) >= 2

\* loadCommittedPages accepts the tree.
LoadCommittedPages(tree) ==
    \/ tree = NoRoot
    \/ /\ WalkLoads(tree, Sentinel, 0)
       /\ RootHasTwoChildren(tree)
       /\ \E d \in LeafDepths(tree) : LeafDepths(tree) = {d}
       /\ NoMergeableChild(tree)

-----------------------------------------------------------------------------
(* Operations on the tree.                                                 *)

RECURSIVE PageIDs(_)
PageIDs(node) ==
    IF node = NoRoot THEN << >>
    ELSE IF node.leaf THEN <<node.id>>
    ELSE <<node.id>> \o FlattenSeq([i \in 1 .. Len(node.ents) |-> PageIDs(node.ents[i].kid)])

RECURSIVE Number(_, _)
Number(node, from) ==
    IF node = NoRoot THEN node
    ELSE IF node.leaf THEN [node EXCEPT !.id = from]
    ELSE LET before(i) == from + 1 + Len(FlattenSeq([j \in 1 .. i - 1 |-> PageIDs(node.ents[j].kid)]))
         IN [id |-> from, leaf |-> FALSE,
             ents |-> [i \in 1 .. Len(node.ents) |->
                          [node.ents[i] EXCEPT !.kid = Number(@, before(i))]]]

\* Every page of the old tree is either still in the new tree or freed, once;
\* every page allocated is in the new tree.
Balanced(old, out) ==
    LET kept == SelectSeq(PageIDs(out.root), LAMBDA id : id # 0)
        new == SelectSeq(PageIDs(out.root), LAMBDA id : id = 0)
        seen == kept \o out.obsolete
    IN /\ ToSet(seen) = ToSet(PageIDs(old))
       /\ Len(seen) = Len(PageIDs(old))
       /\ Len(new) = out.allocated

Init ==
    /\ root = NoRoot
    /\ map = [k \in Key |-> -1]
    /\ last = [op |-> "open", ok |-> TRUE, found |-> FALSE, balanced |-> TRUE]

\* update: an error rolls the tree back.
Apply(op, out) ==
    /\ root' = IF out.ok THEN Number(out.root, 1) ELSE root
    /\ last' = [op |-> op, ok |-> out.ok, found |-> out.found,
                balanced |-> out.ok => out.root = root \/ Balanced(root, out)]

Set(k, v) ==
    LET out == TreeInsert(root, k, v)
    IN /\ Apply("set", out)
       /\ map' = IF out.ok THEN [map EXCEPT ![k] = v] ELSE map

Delete(k) ==
    LET out == TreeDelete(root, k)
    IN /\ Apply("delete", out)
       /\ map' = IF out.ok THEN [map EXCEPT ![k] = -1] ELSE map

Next == \E k \in Key : Delete(k) \/ \E v \in ValueLengths : Set(k, v)

Spec == Init /\ [][Next]_vars

-----------------------------------------------------------------------------
(* Properties.                                                             *)

\* Get and Range agree with the dictionary after any sequence of insertions,
\* replacements and deletions, splits and merges included.
ReadsAgree ==
    /\ \A k \in Key : GetValue(root, k) = map[k]
    /\ \A start, end \in 0 .. NumKeys :
         LET found == RangeValues(root, start, end)
         IN /\ \A i \in 1 .. Len(found) : found[i].val = map[found[i].key]
            /\ \A i \in 2 .. Len(found) : found[i - 1].key < found[i].key
            /\ {found[i].key : i \in 1 .. Len(found)}
                 = {k \in Key : start <= k /\ k <= end /\ map[k] # -1}

\* Each page is in one piece and within the bounds its parent records, and
\* all leaves are at one depth: the checks of loadCommittedPages other than
\* the two on how full nodes are.
WellFormed ==
    root # NoRoot =>
      /\ WalkLoads(root, Sentinel, 0)
      /\ \E d \in LeafDepths(root) : LeafDepths(root) = {d}

\* An operation frees exactly the pages it replaces, each once, and allocates
\* none it does not use: freePage never refuses a page and none is leaked.
PagesBalanced == last.balanced

\* Inserting a key and value within the size limits always succeeds: an
\* overfull node never needs more than three pages and a split root fits one.
SetSucceeds == last.op = "set" => last.ok

\* durable-storage.md: "`Delete(key)` returns `(true, nil)` when it removes an
\* existing key", and nothing says that it may fail.
DeleteSucceeds == last.op = "delete" => last.ok

\* What an update commits can be opened again: "A successful durable `Set`
\* means the new tree and its root metadata have been synchronized"
\* (durable-storage.md), and crash-recovery.md requires that reopening returns
\* the new tree.
CommittedTreeReopens == LoadCommittedPages(root)

=============================================================================
