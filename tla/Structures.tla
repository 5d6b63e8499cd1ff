----------------------------- MODULE Structures -----------------------------
(***************************************************************************)
(* The in-memory structures an experiment compares: the hash map and the   *)
(* sorted slice of internal/structures, and the B+Tree of internal/btree   *)
(* (tree.go, node.go, memory.go), each given the same Sets and Deletes.    *)
(*                                                                         *)
(* Keys are 1 .. NumKeys in byte order.  A tree node is a record; children *)
(* are nested in their parents, so a node changed in place is the node     *)
(* rebuilt.  The chain of leaves that Range follows is kept apart from     *)
(* that nesting: a leaf has an identity, and its field next names another  *)
(* leaf, or 0.  After each operation the leaves are numbered from the left *)
(* again; a link to a leaf that left the tree becomes Dangling.            *)
(***************************************************************************)
EXTENDS Integers, SequencesExt

CONSTANTS
    NumKeys,        \* bound: how many different keys are stored
    MaxKeys,        \* tree.maxKeys
    Overwritten     \* the keys stored with two different values

Key == 1 .. NumKeys

ASSUME StructuresAssumption ==
    /\ NumKeys \in Nat
    /\ MaxKeys \in Nat \ {0, 1}
    /\ Overwritten \subseteq Key

\* Every key has values of its own, so that a misplaced value shows.
Values(k) == IF k \in Overwritten THEN {k, NumKeys + k} ELSE {k}
Missing == 0

NoRoot == [leaf |-> TRUE, keys |-> << >>, values |-> << >>, id |-> 0, next |-> 0]
Dangling == -1

VARIABLES
    values,     \* Map.values: key -> value, Missing if it has none
    entries,    \* SortedSlice.entries
    root        \* tree.root, or NoRoot

vars == <<values, entries, root>>

Entry(k, v) == [key |-> k, value |-> v]

-----------------------------------------------------------------------------
(* Map and SortedSlice.                                                    *)

\* Map.Range: the keys within the bounds, sorted.
MapRange(lower, upper) ==
    LET keys == SelectSeq([k \in Key |-> k],
                          LAMBDA k : values[k] # Missing /\ lower <= k /\ k <= upper)
    IN [i \in 1 .. Len(keys) |-> Entry(keys[i], values[keys[i]])]

\* SortedSlice.position: the first entry whose key is at least k.
Position(k) == 1 + Len(SelectSeq(entries, LAMBDA e : e.key < k))

SliceFound(k) == Position(k) <= Len(entries) /\ entries[Position(k)].key = k

SliceGet(k) == IF SliceFound(k) THEN entries[Position(k)].value ELSE Missing

SliceSet(k, v) ==
    IF SliceFound(k)
    THEN [entries EXCEPT ![Position(k)].value = v]
    ELSE InsertAt(entries, Position(k), Entry(k, v))

SliceDelete(k) == IF SliceFound(k) THEN RemoveAt(entries, Position(k)) ELSE entries

\* SortedSlice.Range: from the position of lower while keys are at most upper.
SliceRange(lower, upper) ==
    SelectSeq(SubSeq(entries, Position(lower), Len(entries)), LAMBDA e : e.key <= upper)

-----------------------------------------------------------------------------
(* Searching the tree (node.go, tree.get, Memory.Range).                   *)

MinKeys == MaxKeys \div 2

\* node.search: the first key that is at least k.
Search(n, k) == 1 + Len(SelectSeq(n.keys, LAMBDA x : x < k))

FoundAt(n, i, k) == i <= Len(n.keys) /\ n.keys[i] = k

\* Mutant: a key equal to a separator is sought on its left.
ChildIndexLeft(n, k) == 1 + Len(SelectSeq(n.keys, LAMBDA x : x < k))

\* node.childIndex: the child right of the last separator that is at most k.
ChildIndex(n, k) == 1 + Len(SelectSeq(n.keys, LAMBDA x : x <= k))

RECURSIVE LeafFor(_, _)
LeafFor(n, k) == IF n.leaf THEN n ELSE LeafFor(n.children[ChildIndex(n, k)], k)

\* tree.get.
TreeGet(k) ==
    LET n == LeafFor(root, k)
        i == Search(n, k)
    IN IF FoundAt(n, i, k) THEN n.values[i] ELSE Missing

\* minimumKey: the first key of the leftmost leaf.
RECURSIVE MinimumKey(_)
MinimumKey(n) == IF n.leaf THEN n.keys[1] ELSE MinimumKey(n.children[1])

RECURSIVE Leaves(_)
Leaves(n) == IF n.leaf THEN <<n>> ELSE FlattenSeq([i \in 1 .. Len(n.children) |-> Leaves(n.children[i])])

\* The entries met on the chain from position i of the given leaf up to the
\* first key above upper.
RECURSIVE Walk(_, _, _, _)
Walk(leaves, n, i, upper) ==
    IF i <= Len(n.keys)
    THEN IF n.keys[i] > upper THEN << >>
         ELSE <<Entry(n.keys[i], n.values[i])>> \o Walk(leaves, n, i + 1, upper)
    ELSE IF n.next = 0 THEN << >>
    ELSE Walk(leaves, leaves[n.next], 1, upper)

\* Memory.Range.
TreeRange(lower, upper) ==
    IF root = NoRoot \/ lower > upper THEN << >>
    ELSE LET n == LeafFor(root, lower)
         IN Walk(Leaves(root), n, Search(n, lower), upper)

-----------------------------------------------------------------------------
(* tree.set.                                                               *)

\* What insert leaves in place of a node: the node itself, or its two halves
\* and the key between them.
Whole(n) == [key |-> Missing, nodes |-> <<n>>]
Split(k, left, right) == [key |-> k, nodes |-> <<left, right>>]

InsertIntoLeaf(n, k, v) ==
    LET i == Search(n, k)
    IN IF FoundAt(n, i, k) THEN [n EXCEPT !.values[i] = v]
       ELSE [n EXCEPT !.keys = InsertAt(@, i, k), !.values = InsertAt(@, i, v)]

InsertIntoInternal(n, i, split) ==
    IF Len(split.nodes) = 1 THEN [n EXCEPT !.children[i] = split.nodes[1]]
    ELSE [n EXCEPT !.keys = InsertAt(@, i, split.key),
                   !.children = InsertAt([@ EXCEPT ![i] = split.nodes[1]], i + 1, split.nodes[2])]

First(s, n) == SubSeq(s, 1, n)
After(s, n) == SubSeq(s, n + 1, Len(s))

\* Mutant: the new leaf is not linked to the leaf that follows.
SplitLeafUnlinked(n, id) ==
    LET mid == Len(n.keys) \div 2
        right == [n EXCEPT !.keys = After(@, mid), !.values = After(@, mid), !.id = id, !.next = 0]
        left == [n EXCEPT !.keys = First(@, mid), !.values = First(@, mid), !.next = id]
    IN Split(right.keys[1], left, right)

SplitLeaf(n, id) ==
    LET mid == Len(n.keys) \div 2
        right == [n EXCEPT !.keys = After(@, mid), !.values = After(@, mid), !.id = id]
        left == [n EXCEPT !.keys = First(@, mid), !.values = First(@, mid), !.next = id]
    IN Split(right.keys[1], left, right)

SplitInternal(n) ==
    LET mid == Len(n.keys) \div 2
        right == [n EXCEPT !.keys = After(@, mid + 1), !.children = After(@, mid + 1)]
        left == [n EXCEPT !.keys = First(@, mid), !.children = First(@, mid + 1)]
    IN Split(n.keys[mid + 1], left, right)

\* insert; id is the identity of the leaf a split makes.
RECURSIVE Insert(_, _, _, _)
Insert(n, k, v, id) ==
    LET i == ChildIndex(n, k)
        changed == IF n.leaf THEN InsertIntoLeaf(n, k, v)
                   ELSE InsertIntoInternal(n, i, Insert(n.children[i], k, v, id))
    IN IF Len(changed.keys) <= MaxKeys THEN Whole(changed)
       ELSE IF n.leaf THEN SplitLeaf(changed, id)
       ELSE SplitInternal(changed)

\* The leaves numbered from the left.
RECURSIVE Renumber(_, _)
Renumber(n, number) ==
    IF n.leaf THEN [n EXCEPT !.id = number[@], !.next = number[@]]
    ELSE [n EXCEPT !.children = [i \in 1 .. Len(@) |-> Renumber(@[i], number)]]

Numbered(n) ==
    LET leaves == Leaves(n)
        ids == {0, Len(Leaves(root)) + 1} \cup {leaf.id : leaf \in ToSet(Leaves(root))}
        place(id) == {i \in 1 .. Len(leaves) : leaves[i].id = id}
        number == [id \in ids |-> IF id = 0 THEN 0
                                  ELSE IF place(id) = {} THEN Dangling
                                  ELSE CHOOSE i \in place(id) : TRUE]
    IN IF n = NoRoot THEN n ELSE Renumber(n, number)

TreeSet(k, v) ==
    IF root = NoRoot
    THEN [NoRoot EXCEPT !.keys = <<k>>, !.values = <<v>>, !.id = 1]
    ELSE LET split == Insert(root, k, v, Len(Leaves(root)) + 1)
         IN Numbered(IF Len(split.nodes) = 1 THEN split.nodes[1]
                     ELSE [leaf |-> FALSE, keys |-> <<split.key>>, children |-> split.nodes])

-----------------------------------------------------------------------------
(* tree.delete.                                                            *)

\* The parent with keys[i] = k and children i and i + 1 replaced.
WithPair(parent, i, k, left, right) ==
    [parent EXCEPT !.keys[i] = k, !.children = [@ EXCEPT ![i] = left, ![i + 1] = right]]

RotateFromLeft(parent, i) ==
    LET left == parent.children[i - 1]
        child == parent.children[i]
        last == Len(left.keys)
    IN IF child.leaf
       THEN WithPair(parent, i - 1, left.keys[last],
                [left EXCEPT !.keys = First(@, last - 1), !.values = First(@, last - 1)],
                [child EXCEPT !.keys = <<left.keys[last]>> \o @,
                              !.values = <<left.values[last]>> \o @])
       ELSE WithPair(parent, i - 1, left.keys[last],
                [left EXCEPT !.keys = First(@, last - 1), !.children = First(@, last)],
                [child EXCEPT !.keys = <<parent.keys[i - 1]>> \o @,
                              !.children = <<left.children[last + 1]>> \o @])

RotateFromRight(parent, i) ==
    LET child == parent.children[i]
        right == parent.children[i + 1]
    IN IF child.leaf
       THEN WithPair(parent, i, right.keys[2],
                [child EXCEPT !.keys = Append(@, right.keys[1]),
                              !.values = Append(@, right.values[1])],
                [right EXCEPT !.keys = Tail(@), !.values = Tail(@)])
       ELSE WithPair(parent, i, right.keys[1],
                [child EXCEPT !.keys = Append(@, parent.keys[i]),
                              !.children = Append(@, right.children[1])],
                [right EXCEPT !.keys = Tail(@), !.children = Tail(@)])

\* Mutant: the separator is not pulled down into a merged internal node.
MergeChildrenDropping(parent, i) ==
    LET left == parent.children[i]
        right == parent.children[i + 1]
        merged ==
            IF left.leaf
            THEN [left EXCEPT !.keys = @ \o right.keys, !.values = @ \o right.values,
                              !.next = right.next]
            ELSE [left EXCEPT !.keys = @ \o right.keys, !.children = @ \o right.children]
    IN [parent EXCEPT !.keys = RemoveAt(@, i),
                      !.children = RemoveAt([@ EXCEPT ![i] = merged], i + 1)]

MergeChildren(parent, i) ==
    LET left == parent.children[i]
        right == parent.children[i + 1]
        merged ==
            IF left.leaf
            THEN [left EXCEPT !.keys = @ \o right.keys, !.values = @ \o right.values,
                              !.next = right.next]
            ELSE [left EXCEPT !.keys = @ \o <<parent.keys[i]>> \o right.keys,
                              !.children = @ \o right.children]
    IN [parent EXCEPT !.keys = RemoveAt(@, i),
                      !.children = RemoveAt([@ EXCEPT ![i] = merged], i + 1)]

CanLend(parent, i) ==
    i \in 1 .. Len(parent.children) /\ Len(parent.children[i].keys) > MinKeys

RebalanceChild(parent, i) ==
    IF CanLend(parent, i - 1) THEN RotateFromLeft(parent, i)
    ELSE IF CanLend(parent, i + 1) THEN RotateFromRight(parent, i)
    ELSE IF i > 1 THEN MergeChildren(parent, i - 1)
    ELSE MergeChildren(parent, i)

\* The separator left of a child that still has keys follows its minimum.
RefreshSeparator(n, i) ==
    IF i > 1 /\ n.children[i].keys # << >>
    THEN [n EXCEPT !.keys[i - 1] = MinimumKey(n.children[i])]
    ELSE n

\* deleteFromNode, for a key that is found.
RECURSIVE DeleteFromNode(_, _)
DeleteFromNode(n, k) ==
    IF n.leaf
    THEN [n EXCEPT !.keys = RemoveAt(@, Search(n, k)), !.values = RemoveAt(@, Search(n, k))]
    ELSE LET i == ChildIndex(n, k)
             refreshed ==
                RefreshSeparator([n EXCEPT !.children[i] = DeleteFromNode(@, k)], i)
         IN IF Len(refreshed.children[i].keys) < MinKeys THEN RebalanceChild(refreshed, i)
            ELSE refreshed

TreeDelete(k) ==
    IF TreeGet(k) = Missing THEN root
    ELSE LET n == DeleteFromNode(root, k)
         IN Numbered(IF n.keys # << >> THEN n
                     ELSE IF n.leaf THEN NoRoot
                     ELSE n.children[1])

-----------------------------------------------------------------------------
Init ==
    /\ values = [k \in Key |-> Missing]
    /\ entries = << >>
    /\ root = NoRoot

Set(k, v) ==
    /\ values' = [values EXCEPT ![k] = v]
    /\ entries' = SliceSet(k, v)
    /\ root' = TreeSet(k, v)

Delete(k) ==
    /\ values' = [values EXCEPT ![k] = Missing]
    /\ entries' = SliceDelete(k)
    /\ root' = TreeDelete(k)

Next == \E k \in Key : Delete(k) \/ \E v \in Values(k) : Set(k, v)

Spec == Init /\ [][Next]_vars

-----------------------------------------------------------------------------
(* Properties.                                                             *)

\* Bounds of a Range: every key, and one below and one above all of them.
Bound == 0 .. NumKeys + 1

\* Every structure answers every Get and every Range alike, as
\* TestRealAdaptersMatch (runner_test.go) demands of one workload: the sorted
\* slice and the tree, after any splits, rotations and merges, give what the
\* map gives.
SameAnswers ==
    /\ \A k \in Key : SliceGet(k) = values[k] /\ TreeGet(k) = values[k]
    /\ \A lower, upper \in Bound :
          LET expected == MapRange(lower, upper)
          IN SliceRange(lower, upper) = expected /\ TreeRange(lower, upper) = expected

\* The leaf chain threads exactly the leaves of the tree, left to right: a
\* Range walk never meets a leaf that left the tree and never stops early.
LeafChain ==
    LET leaves == Leaves(root)
    IN root # NoRoot =>
        \A i \in 1 .. Len(leaves) : leaves[i].next = IF i = Len(leaves) THEN 0 ELSE i + 1

\* validateNode (insert_test.go): within its bounds, sorted, no fuller and no
\* emptier than allowed, and with all its leaves at one depth.
RECURSIVE Valid(_, _, _, _)
Valid(n, depth, lower, upper) ==
    LET separator == <<lower>> \o n.keys \o <<upper>>
    IN /\ Len(n.keys) \in MinKeys .. MaxKeys
       /\ \A i \in 1 .. Len(n.keys) : lower <= n.keys[i] /\ n.keys[i] < upper
       /\ \A i \in 2 .. Len(n.keys) : n.keys[i - 1] < n.keys[i]
       /\ n.leaf <=> depth = 1
       /\ IF n.leaf THEN Len(n.values) = Len(n.keys)
          ELSE /\ Len(n.children) = Len(n.keys) + 1
               /\ \A i \in 1 .. Len(n.children) :
                    Valid(n.children[i], depth - 1, separator[i], separator[i + 1])

RECURSIVE Depth(_)
Depth(n) == IF n.leaf THEN 1 ELSE 1 + Depth(n.children[1])

\* The tree keeps the shape its tests demand through any sequence of Sets
\* and Deletes.
TreeValid == root = NoRoot \/ Valid(root, Depth(root), 1, NumKeys + 1)

=============================================================================
