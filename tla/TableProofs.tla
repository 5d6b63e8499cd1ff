---------------------------- MODULE TableProofs -----------------------------
(***************************************************************************)
(* Proofs about Table and SqlExecutor: what a transaction reads of a range *)
(* is what its commit publishes; the scans of a table find its rows in the *)
(* order of their primary keys, and nothing of other tables; and a SELECT  *)
(* returns the rows that satisfy its predicates.                           *)
(***************************************************************************)
EXTENDS SqlExecutor, DatabaseProofs, KeysProofs, FiniteSetTheorems

USE SMTT(20), ZenonT(20)

\* The ranges are sets of keys.
LEMMA RangesKeys == \A within \in Ranges : within \subseteq Key
BY DEF Ranges, Within

\* Overlaying a range with the buffered changes is the range of the overlay.
LEMMA RangeOverlay ==
    ASSUME NEW t, NEW within, within \subseteq Key
    PROVE DatabaseRange(within, Overlay(store, tx[t].changes)) = TxRange(within, t)
<1> DEFINE c == tx[t].changes
           m == Overlay(store, c)
           changed == {k \in within : c[k] # Keep}
           deleted == {k \in changed : c[k] = Absent}
           found == {k \in within : store[k] # Absent}
           D == {k \in within : m[k] # Absent}
           E == (found \cup changed) \ deleted
<1>1. \A k \in within : m[k] = IF c[k] = Keep THEN store[k] ELSE c[k]
  BY DEF Overlay
<1>2. D = E
  <2> HIDE DEF c, m
  <2> QED
    BY <1>1 DEF Absent, Keep
<1>3. DatabaseRange(within, m) = [k \in D |-> m[k]]
  BY DEF DatabaseRange
<1>4. TxRange(within, t) =
        [k \in E |-> IF k \in changed THEN c[k] ELSE DatabaseRange(within, store)[k]]
  <2>1. DOMAIN DatabaseRange(within, store) = found
    BY DEF DatabaseRange
  <2> QED
    BY <2>1 DEF TxRange
<1>5. ASSUME NEW k \in E
      PROVE m[k] = IF k \in changed THEN c[k] ELSE DatabaseRange(within, store)[k]
  <2>1. CASE k \in changed
    BY <1>1, <2>1
  <2>2. CASE k \notin changed
    <3>1. k \in found /\ k \in within /\ c[k] = Keep
      BY <2>2
    <3>2. DatabaseRange(within, store)[k] = store[k]
      BY <3>1 DEF DatabaseRange
    <3> QED
      BY <1>1, <2>2, <3>1, <3>2
  <2> QED
    BY <2>1, <2>2
<1> HIDE DEF E, D, m, c, changed
<1> QED
  BY <1>2, <1>3, <1>4, <1>5 DEF m, c

\* Whatever is committed, buffered and tried between the changes and the
\* commit, a successful Commit publishes what Tx.Range showed.
THEOREM PublishCorrect ==
    ASSUME ReopenAfterFailure
    PROVE Spec => CommitPublishesRange
<1>1. ASSUME NEW t \in Tx, Commit(t), tx'[t].state = "closed", NEW within \in Ranges
      PROVE DatabaseRange(within, store') = TxRange(within, t)
  <2>1. tx[t].state = "open" /\ Usable
    BY <1>1 DEF Commit, Writing
  <2>2. Base = store
    BY <2>1 DEF Usable, Base
  <2>3. Committed(tx[t].changes)
    BY <1>1, <2>1 DEF Commit
  <2>4. store' = Overlay(store, tx[t].changes)
    BY <2>2, <2>3 DEF Committed
  <2> QED
    BY <2>4, RangeOverlay, RangesKeys
<1>2. [Next]_vars =>
        [\A t \in Tx : Commit(t) /\ tx'[t].state = "closed" =>
           \A within \in Ranges : DatabaseRange(within, store') = TxRange(within, t)]_vars
  BY <1>1
<1> QED
  BY <1>2, PTL DEF Spec, CommitPublishesRange

-----------------------------------------------------------------------------
(* Lists in ascending order.                                               *)

\* A strict total order, as a set of pairs.
Orders(R, S) ==
    /\ \A x \in S : <<x, x>> \notin R
    /\ \A x, y, z \in S : <<x, y>> \in R /\ <<y, z>> \in R => <<x, z>> \in R
    /\ \A x, y \in S : x # y => <<x, y>> \in R \/ <<y, x>> \in R

Below(S, R, x) == {y \in S : <<y, x>> \in R}
Rank(S, R, x) == Cardinality(Below(S, R, x))

\* f lists the members of S by their rank.
Lists(f, S, R) ==
    /\ f = [i \in 1 .. Cardinality(S) |-> f[i]]
    /\ \A i \in 1 .. Cardinality(S) : f[i] \in S /\ Rank(S, R, f[i]) = i - 1

\* Greater members have greater ranks.
LEMMA RankIncreases ==
    ASSUME NEW S, IsFiniteSet(S), NEW R, Orders(R, S), NEW x \in S, NEW y \in S, <<x, y>> \in R
    PROVE Rank(S, R, x) \in Nat /\ Rank(S, R, y) \in Nat /\ Rank(S, R, x) < Rank(S, R, y)
<1> DEFINE X == Below(S, R, x)
           Y == Below(S, R, y)
<1>1. X \in SUBSET S /\ Y \in SUBSET S
  BY DEF Below
<1>2. IsFiniteSet(X) /\ IsFiniteSet(Y)
  BY <1>1, FS_Subset
<1>3. X \in SUBSET Y /\ x \in Y /\ x \notin X
  BY DEF Below, Orders
<1> HIDE DEF X, Y
<1>4. Cardinality(X) \in Nat /\ Cardinality(Y) \in Nat
  BY <1>2, FS_CardinalityType
<1>5. Cardinality(X) <= Cardinality(Y) /\ (Cardinality(Y) = Cardinality(X) => Y = X)
  BY <1>2, <1>3, FS_Subset
<1>6. Cardinality(X) < Cardinality(Y)
  BY <1>3, <1>4, <1>5
<1> QED
  BY <1>4, <1>6 DEF Rank, X, Y

\* The ranks are the numbers below the number of members, each of one of them.
LEMMA RankOnto ==
    ASSUME NEW S, IsFiniteSet(S), NEW R, Orders(R, S)
    PROVE /\ Cardinality(S) \in Nat
          /\ \A x \in S : Rank(S, R, x) \in 0 .. Cardinality(S) - 1
          /\ \A i \in 1 .. Cardinality(S) : \E x \in S : Rank(S, R, x) = i - 1
          /\ \A x, y \in S : Rank(S, R, x) = Rank(S, R, y) => x = y
<1> DEFINE n == Cardinality(S)
           N == 0 .. n - 1
           rank == [x \in S |-> Rank(S, R, x)]
<1>1. n \in Nat
  BY FS_CardinalityType
<1>2. \A x, y \in S : Rank(S, R, x) = Rank(S, R, y) => x = y
  <2> SUFFICES ASSUME NEW x \in S, NEW y \in S, x # y PROVE Rank(S, R, x) # Rank(S, R, y)
    OBVIOUS
  <2>1. <<x, y>> \in R \/ <<y, x>> \in R
    BY DEF Orders
  <2>2. CASE <<x, y>> \in R
    <3>1. Rank(S, R, x) \in Nat /\ Rank(S, R, y) \in Nat /\ Rank(S, R, x) < Rank(S, R, y)
      BY <2>2, RankIncreases
    <3> QED
      BY <3>1
  <2>3. CASE <<y, x>> \in R
    <3>1. Rank(S, R, x) \in Nat /\ Rank(S, R, y) \in Nat /\ Rank(S, R, y) < Rank(S, R, x)
      BY <2>3, RankIncreases
    <3> QED
      BY <3>1
  <2> QED
    BY <2>1, <2>2, <2>3
<1>3. ASSUME NEW x \in S PROVE Rank(S, R, x) \in N
  <2> DEFINE X == Below(S, R, x)
  <2>1. X \in SUBSET S /\ x \notin X /\ X # S
    BY DEF Below, Orders
  <2> HIDE DEF X
  <2>2. IsFiniteSet(X) /\ Cardinality(X) <= n /\ (n = Cardinality(X) => S = X)
    BY <2>1, FS_Subset
  <2>3. Cardinality(X) \in Nat
    BY <2>2, FS_CardinalityType
  <2>4. Cardinality(X) \in N
    BY <1>1, <2>1, <2>2, <2>3
  <2> QED
    BY <2>4 DEF Rank, X
<1>4. rank \in [S -> N] /\ \A x \in S : rank[x] = Rank(S, R, x)
  BY <1>3
<1>5. rank \in Injection(S, N)
  <2>1. \A x, y \in S : rank[x] = rank[y] => x = y
    BY <1>2, <1>4
  <2>2. DOMAIN rank = S
    OBVIOUS
  <2> HIDE DEF rank
  <2> QED
    BY <1>4, <2>1, <2>2 DEF Injection, IsInjective
<1>6. IsFiniteSet(N) /\ Cardinality(N) = n
  <2>1. 0 \in Int /\ n - 1 \in Int
    BY <1>1
  <2> DEFINE b == n - 1
  <2> HIDE DEF b
  <2>2. b \in Int
    BY <2>1 DEF b
  <2>3. IsFiniteSet(0 .. b) /\ Cardinality(0 .. b) = IF 0 > b THEN 0 ELSE b - 0 + 1
    BY <2>2, FS_Interval
  <2> QED
    BY <1>1, <2>3 DEF b
<1> HIDE DEF rank, N, n
<1>7. rank \in Surjection(S, N)
  <2>1. Cardinality(S) = Cardinality(N)
    BY <1>6 DEF n
  <2> QED
    BY <1>5, <1>6, <2>1, FS_Injection
<1>8. ASSUME NEW i \in 1 .. n PROVE \E x \in S : Rank(S, R, x) = i - 1
  <2>1. i - 1 \in N
    BY <1>1 DEF N
  <2>2. PICK x \in S : rank[x] = i - 1
    BY <1>7, <2>1 DEF Surjection
  <2> QED
    BY <1>4, <2>2
<1> QED
  BY <1>1, <1>2, <1>3, <1>8 DEF n, N

\* A list of S ascends and leaves nothing out.
LEMMA ListOrder ==
    ASSUME NEW S, IsFiniteSet(S), NEW R, Orders(R, S), NEW f, Lists(f, S, R)
    PROVE /\ DOMAIN f = 1 .. Cardinality(S)
          /\ \A i, j \in 1 .. Cardinality(S) : i < j => <<f[i], f[j]>> \in R
          /\ \A x \in S : \E i \in 1 .. Cardinality(S) : f[i] = x
<1> DEFINE n == Cardinality(S)
<1>1. f = [i \in 1 .. n |-> f[i]] /\ \A i \in 1 .. n : f[i] \in S /\ Rank(S, R, f[i]) = i - 1
  BY DEF Lists
<1>2. DOMAIN f = 1 .. n
  BY <1>1, Zenon
<1>3. /\ n \in Nat /\ \A x \in S : Rank(S, R, x) \in 0 .. n - 1
      /\ \A x, y \in S : Rank(S, R, x) = Rank(S, R, y) => x = y
  BY RankOnto
<1> HIDE DEF n
<1>4. ASSUME NEW i \in 1 .. n, NEW j \in 1 .. n, i < j PROVE <<f[i], f[j]>> \in R
  <2> DEFINE x == f[i]
             y == f[j]
  <2>1. x \in S /\ y \in S /\ Rank(S, R, x) = i - 1 /\ Rank(S, R, y) = j - 1
    BY <1>1
  <2> HIDE DEF x, y
  <2>2. x # y
    BY <1>3, <1>4, <2>1
  <2>3. <<y, x>> \notin R
    <3> SUFFICES ASSUME <<y, x>> \in R PROVE FALSE
      OBVIOUS
    <3>1. Rank(S, R, y) < Rank(S, R, x)
      BY <2>1, RankIncreases
    <3> QED
      BY <1>3, <1>4, <2>1, <3>1
  <2>4. <<x, y>> \in R
    BY <2>1, <2>2, <2>3 DEF Orders
  <2> QED
    BY <2>4 DEF x, y
<1>5. ASSUME NEW x \in S PROVE \E i \in 1 .. n : f[i] = x
  <2> DEFINE i == Rank(S, R, x) + 1
  <2>1. i \in 1 .. n /\ i - 1 = Rank(S, R, x)
    BY <1>3
  <2> HIDE DEF i
  <2> QED
    BY <1>1, <1>3, <2>1
<1> QED
  BY <1>2, <1>4, <1>5 DEF n

\* h carries the order R of S to the order Q of T.
Carries(h, S, R, T, Q) ==
    /\ h \in [S -> T]
    /\ \A y \in T : \E x \in S : h[x] = y
    /\ \A x, y \in S : <<x, y>> \in R <=> <<h[x], h[y]>> \in Q
    /\ \A x, y \in S : h[x] = h[y] => x = y

\* A function that is one to one and onto keeps the number of members.
LEMMA SameNumber ==
    ASSUME NEW S, IsFiniteSet(S), NEW T, NEW h \in [S -> T],
           \A y \in T : \E x \in S : h[x] = y, \A x, y \in S : h[x] = h[y] => x = y
    PROVE IsFiniteSet(T) /\ Cardinality(T) = Cardinality(S)
<1>1. h \in Bijection(S, T)
  BY DEF Bijection, Injection, Surjection, IsInjective
<1>2. ExistsBijection(S, T)
  BY <1>1 DEF ExistsBijection
<1> QED
  BY <1>2, FS_Bijection

\* A member and its image have the same rank.
LEMMA RankCarried ==
    ASSUME NEW S, IsFiniteSet(S), NEW T, NEW R, NEW Q, NEW h, Carries(h, S, R, T, Q), NEW x \in S
    PROVE Rank(T, Q, h[x]) = Rank(S, R, x)
<1> DEFINE X == Below(S, R, x)
           Y == Below(T, Q, h[x])
           g == [y \in X |-> h[y]]
<1>1. X \in SUBSET S
  BY DEF Below
<1>2. IsFiniteSet(X)
  BY <1>1, FS_Subset
<1>3. g \in [X -> Y]
  BY <1>1 DEF Below, Carries
<1>4. \A y \in X : g[y] = h[y]
  OBVIOUS
<1>5. ASSUME NEW z \in Y PROVE \E y \in X : g[y] = z
  <2>1. z \in T /\ <<z, h[x]>> \in Q
    BY DEF Below
  <2>2. PICK y \in S : h[y] = z
    BY <2>1 DEF Carries
  <2>3. y \in X
    BY <2>1, <2>2 DEF Below, Carries
  <2> QED
    BY <1>4, <2>2, <2>3
<1>6. \A y, z \in X : g[y] = g[z] => y = z
  BY <1>1, <1>4 DEF Carries
<1> HIDE DEF X, Y, g
<1>7. Cardinality(Y) = Cardinality(X)
  BY <1>2, <1>3, <1>5, <1>6, SameNumber
<1> QED
  BY <1>7 DEF Rank, X, Y

\* A list is carried to the list of the images.
LEMMA ListCarried ==
    ASSUME NEW S, IsFiniteSet(S), NEW T, NEW R, NEW Q, Orders(Q, T), NEW h, Carries(h, S, R, T, Q),
           NEW f, Lists(f, S, R), NEW g, Lists(g, T, Q)
    PROVE /\ DOMAIN f = 1 .. Cardinality(S) /\ DOMAIN g = 1 .. Cardinality(S)
          /\ \A i \in 1 .. Cardinality(S) : f[i] \in S /\ g[i] = h[f[i]]
<1> DEFINE n == Cardinality(S)
<1>1. IsFiniteSet(T) /\ Cardinality(T) = n
  BY SameNumber DEF Carries
<1>2. f = [i \in 1 .. n |-> f[i]] /\ \A i \in 1 .. n : f[i] \in S /\ Rank(S, R, f[i]) = i - 1
  BY DEF Lists
<1>3. g = [i \in 1 .. n |-> g[i]] /\ \A i \in 1 .. n : g[i] \in T /\ Rank(T, Q, g[i]) = i - 1
  BY <1>1 DEF Lists
<1>4. DOMAIN f = 1 .. n
  BY <1>2, Zenon
<1>5. DOMAIN g = 1 .. n
  BY <1>3, Zenon
<1>6. ASSUME NEW i \in 1 .. n PROVE g[i] = h[f[i]]
  <2> DEFINE x == f[i]
             y == g[i]
  <2>1. x \in S /\ y \in T /\ Rank(S, R, x) = Rank(T, Q, y)
    BY <1>2, <1>3
  <2>2. h[x] \in T
    BY <2>1 DEF Carries
  <2> HIDE DEF x, y
  <2>3. Rank(T, Q, h[x]) = Rank(S, R, x)
    BY <2>1, RankCarried
  <2>4. y = h[x]
    BY <1>1, <2>1, <2>2, <2>3, RankOnto
  <2> QED
    BY <2>4 DEF x, y
<1> QED
  BY <1>2, <1>4, <1>5, <1>6

-----------------------------------------------------------------------------
(* Items and rows in order.                                                *)

\* The order of items is that of their keys.
KeyOrder(T) == {z \in T \X T : Before(z[1].key, z[2].key)}

\* Items with different keys.
Keyed(T) ==
    /\ \A x \in T : x.key \in Bytes
    /\ \A x, y \in T : x.key = y.key => x = y

\* It is a strict total order.
LEMMA KeyOrders ==
    ASSUME NEW T, Keyed(T)
    PROVE /\ Orders(KeyOrder(T), T)
          /\ \A x, y \in T : <<x, y>> \in KeyOrder(T) <=> Before(x.key, y.key)
<1> DEFINE Q == KeyOrder(T)
<1>1. \A x, y \in T : <<x, y>> \in Q <=> Before(x.key, y.key)
  BY DEF KeyOrder
<1>2. \A x \in T : <<x, x>> \notin Q
  BY <1>1, BeforeTotal DEF Keyed
<1>3. ASSUME NEW x \in T, NEW y \in T, NEW z \in T, <<x, y>> \in Q, <<y, z>> \in Q
      PROVE <<x, z>> \in Q
  <2> DEFINE a == x.key
             b == y.key
             c == z.key
  <2>1. a \in Bytes /\ b \in Bytes /\ c \in Bytes
    BY DEF Keyed
  <2>2. Before(a, b) /\ Before(b, c)
    BY <1>1, <1>3
  <2> HIDE DEF a, b, c
  <2>3. Before(a, c)
    BY <2>1, <2>2, BeforeTransitive
  <2> QED
    BY <1>1, <2>3 DEF a, c
<1>4. ASSUME NEW x \in T, NEW y \in T, x # y PROVE <<x, y>> \in Q \/ <<y, x>> \in Q
  <2> DEFINE a == x.key
             b == y.key
  <2>1. a \in Bytes /\ b \in Bytes /\ a # b
    BY <1>4 DEF Keyed
  <2> HIDE DEF a, b
  <2>2. Before(a, b) \/ Before(b, a)
    BY <2>1, BeforeTotal
  <2> QED
    BY <1>1, <2>2 DEF a, b
<1> QED
  BY <1>1, <1>2, <1>3, <1>4 DEF Orders

\* rangeLocked returns the items in the order of their keys.
LEMMA AscendingLists ==
    ASSUME NEW T, IsFiniteSet(T), Keyed(T)
    PROVE Lists(Ascending(T), T, KeyOrder(T))
<1> DEFINE Q == KeyOrder(T)
           n == Cardinality(T)
           below(x) == {y \in T : Before(y.key, x.key)}
           g == [i \in 1 .. n |-> CHOOSE x \in T : Cardinality(below(x)) = i - 1]
<1>1. Ascending(T) = g
  BY DEF Ascending
<1>2. ASSUME NEW x \in T PROVE below(x) = Below(T, Q, x)
  BY KeyOrders DEF Below
<1>3. Orders(Q, T)
  BY KeyOrders
<1> HIDE DEF Q
<1>4. n \in Nat /\ \A i \in 1 .. n : \E x \in T : Rank(T, Q, x) = i - 1
  BY <1>3, RankOnto
<1>5. ASSUME NEW x \in T PROVE Cardinality(below(x)) = Rank(T, Q, x)
  BY <1>2 DEF Rank
<1> HIDE DEF below
<1>6. ASSUME NEW i \in 1 .. n PROVE g[i] \in T /\ Rank(T, Q, g[i]) = i - 1
  <2>1. \E x \in T : Cardinality(below(x)) = i - 1
    BY <1>4, <1>5
  <2>2. g[i] = CHOOSE x \in T : Cardinality(below(x)) = i - 1
    OBVIOUS
  <2>3. g[i] \in T /\ Cardinality(below(g[i])) = i - 1
    BY <2>1, <2>2
  <2> HIDE DEF g
  <2> QED
    BY <1>5, <2>3
<1>7. g = [i \in 1 .. n |-> g[i]]
  OBVIOUS
<1> HIDE DEF g
<1>8. Lists(g, T, Q)
  BY <1>6, <1>7 DEF Lists
<1> QED
  BY <1>1, <1>8 DEF Q

-----------------------------------------------------------------------------
(* Rows in the order of their primary keys.                                *)

RowOrder(L, rows) == {z \in rows \X rows : ValueBefore(L.primary[z[1]], L.primary[z[2]])}

\* The order of primary keys is a strict total order on the rows.
LEMMA RowOrders ==
    ASSUME NEW L \in Layouts, NEW rows \in SUBSET Row
    PROVE /\ Orders(RowOrder(L, rows), rows)
          /\ \A p, q \in rows : <<p, q>> \in RowOrder(L, rows) <=> ValueBefore(L.primary[p], L.primary[q])
          /\ \A p, q \in rows : ValueBefore(L.primary[p], L.primary[q]) <=>
                                Before(PrimaryBytes(L, p), PrimaryBytes(L, q))
<1> DEFINE R == RowOrder(L, rows)
<1>1. \A p, q \in rows : <<p, q>> \in R <=> ValueBefore(L.primary[p], L.primary[q])
  BY DEF RowOrder
<1>2. \A p, q \in rows : ValueBefore(L.primary[p], L.primary[q]) <=>
                         Before(PrimaryBytes(L, p), PrimaryBytes(L, q))
  BY PrimaryOrder
<1>3. \A p, q \in rows : <<p, q>> \in R <=> Before(PrimaryBytes(L, p), PrimaryBytes(L, q))
  BY <1>1, <1>2, Zenon
<1> HIDE DEF R
<1>4. ASSUME NEW p \in rows, NEW q \in rows, NEW r \in rows, <<p, q>> \in R, <<q, r>> \in R
      PROVE <<p, r>> \in R
  <2> DEFINE a == PrimaryBytes(L, p)
             b == PrimaryBytes(L, q)
             c == PrimaryBytes(L, r)
  <2>1. a \in Bytes /\ b \in Bytes /\ c \in Bytes
    BY PrimaryCode
  <2>2. Before(a, b) /\ Before(b, c)
    BY <1>3, <1>4
  <2> HIDE DEF a, b, c
  <2>3. Before(a, c)
    BY <2>1, <2>2, BeforeTransitive
  <2> QED
    BY <1>3, <2>3 DEF a, c
<1>5. ASSUME NEW p \in rows, NEW q \in rows, p # q PROVE <<p, q>> \in R \/ <<q, p>> \in R
  <2> DEFINE a == PrimaryBytes(L, p)
             b == PrimaryBytes(L, q)
  <2>1. a \in Bytes /\ b \in Bytes /\ a # b
    BY <1>5, PrimaryCode, PrimaryApart
  <2> HIDE DEF a, b
  <2>2. Before(a, b) \/ Before(b, a)
    BY <2>1, BeforeTotal
  <2> QED
    BY <1>3, <2>2 DEF a, b
<1>6. ASSUME NEW p \in rows PROVE <<p, p>> \notin R
  BY <1>3, PrimaryCode, BeforeTotal
<1> QED
  BY <1>1, <1>2, <1>4, <1>5, <1>6 DEF Orders, R

\* InOrder lists the rows in it.
LEMMA InOrderLists ==
    ASSUME NEW L \in Layouts, NEW rows \in SUBSET Row
    PROVE IsFiniteSet(rows) /\ Lists(InOrder(L, rows), rows, RowOrder(L, rows))
<1> DEFINE R == RowOrder(L, rows)
           n == Cardinality(rows)
           below(p) == {q \in rows : ValueBefore(L.primary[q], L.primary[p])}
           g == [i \in 1 .. n |-> CHOOSE p \in rows : Cardinality(below(p)) = i - 1]
<1>1. InOrder(L, rows) = g
  BY DEF InOrder
<1>2. ASSUME NEW p \in rows PROVE below(p) = Below(rows, R, p)
  BY RowOrders DEF Below
<1>3. Orders(R, rows) /\ IsFiniteSet(rows)
  BY RowOrders, LayoutsAssumption, FS_Subset
<1> HIDE DEF R
<1>4. n \in Nat /\ \A i \in 1 .. n : \E p \in rows : Rank(rows, R, p) = i - 1
  BY <1>3, RankOnto
<1>5. ASSUME NEW p \in rows PROVE Cardinality(below(p)) = Rank(rows, R, p)
  BY <1>2, Zenon DEF Rank
<1> HIDE DEF below
<1>6. ASSUME NEW i \in 1 .. n PROVE g[i] \in rows /\ Rank(rows, R, g[i]) = i - 1
  <2>1. \E p \in rows : Cardinality(below(p)) = i - 1
    BY <1>4, <1>5
  <2>2. g[i] = CHOOSE p \in rows : Cardinality(below(p)) = i - 1
    OBVIOUS
  <2>3. g[i] \in rows /\ Cardinality(below(g[i])) = i - 1
    BY <2>1, <2>2
  <2> HIDE DEF g
  <2> QED
    BY <1>5, <2>3
<1>7. g = [i \in 1 .. n |-> g[i]]
  OBVIOUS
<1> HIDE DEF g
<1>8. Lists(g, rows, R)
  BY <1>6, <1>7 DEF Lists
<1> QED
  BY <1>1, <1>3, <1>8 DEF R

\* Items whose keys are ordered as the rows are read in the order of the rows.
LEMMA ReadInOrder ==
    ASSUME NEW L \in Layouts, NEW rows \in SUBSET Row, NEW key \in [rows -> Bytes], NEW val,
           \A p, q \in rows : Before(key[p], key[q]) <=> ValueBefore(L.primary[p], L.primary[q]),
           NEW T, T = {Item(key[p], val[p]) : p \in rows}
    PROVE /\ DOMAIN Ascending(T) = DOMAIN InOrder(L, rows)
          /\ \A n \in DOMAIN InOrder(L, rows) :
                /\ InOrder(L, rows)[n] \in rows
                /\ Ascending(T)[n] = Item(key[InOrder(L, rows)[n]], val[InOrder(L, rows)[n]])
<1> DEFINE R == RowOrder(L, rows)
           Q == KeyOrder(T)
           f == InOrder(L, rows)
           g == Ascending(T)
           h == [p \in rows |-> Item(key[p], val[p])]
<1>1. IsFiniteSet(rows) /\ Lists(f, rows, R)
  BY InOrderLists
<1>2. /\ Orders(R, rows)
      /\ \A p, q \in rows : <<p, q>> \in R <=> ValueBefore(L.primary[p], L.primary[q])
  BY RowOrders
<1>3. \A p \in rows : h[p] \in T /\ h[p].key = key[p] /\ key[p] \in Bytes
  BY ItemParts
<1>4. \A y \in T : \E p \in rows : h[p] = y
  OBVIOUS
<1>5. h \in [rows -> T]
  OBVIOUS
<1>6. \A p \in rows : h[p] = Item(key[p], val[p])
  OBVIOUS
<1> HIDE DEF f, g, h, R
<1>7. ASSUME NEW p \in rows, NEW q \in rows, key[p] = key[q] PROVE p = q
  <2>1. ~Before(key[p], key[q]) /\ ~Before(key[q], key[p])
    BY <1>3, <1>7, BeforeTotal
  <2>2. <<p, q>> \notin R /\ <<q, p>> \notin R
    BY <1>2, <2>1
  <2> QED
    BY <1>2, <2>2 DEF Orders
<1>8. Keyed(T)
  <2>1. \A y \in T : y.key \in Bytes
    BY <1>3, <1>4, Zenon
  <2>2. ASSUME NEW x \in T, NEW y \in T, x.key = y.key PROVE x = y
    <3>1. PICK p \in rows : h[p] = x
      BY <1>4
    <3>2. PICK q \in rows : h[q] = y
      BY <1>4
    <3>3. key[p] = key[q]
      BY <1>3, <2>2, <3>1, <3>2
    <3> QED
      BY <1>7, <3>1, <3>2, <3>3
  <2> QED
    BY <2>1, <2>2 DEF Keyed
<1>9. Orders(Q, T) /\ \A x, y \in T : <<x, y>> \in Q <=> Before(x.key, y.key)
  BY <1>8, KeyOrders, Zenon
<1> HIDE DEF Q
<1>10. \A p, q \in rows : h[p] = h[q] => p = q
  BY <1>3, <1>7
<1>11. \A p, q \in rows : <<p, q>> \in R <=> <<h[p], h[q]>> \in Q
  BY <1>2, <1>3, <1>9, Zenon
<1>12. Carries(h, rows, R, T, Q)
  BY <1>4, <1>5, <1>10, <1>11, ZenonT(30) DEF Carries
<1>13. IsFiniteSet(T)
  BY <1>1, <1>4, <1>5, <1>10, SameNumber, ZenonT(30)
<1>14. Lists(g, T, Q)
  BY <1>8, <1>13, AscendingLists DEF g, Q
<1>15. /\ DOMAIN f = 1 .. Cardinality(rows) /\ DOMAIN g = 1 .. Cardinality(rows)
       /\ \A i \in 1 .. Cardinality(rows) : f[i] \in rows /\ g[i] = h[f[i]]
  BY <1>1, <1>9, <1>12, <1>14, ListCarried
<1> QED
  BY <1>6, <1>15 DEF f, g

-----------------------------------------------------------------------------
(* The reads.                                                              *)

\* decodeRows of the items of some rows: these rows, by their primary keys.
LEMMA RowsDecoded ==
    ASSUME NEW L \in Layouts, NEW m, NEW rows \in SUBSET Row, \A p \in rows : m[RowKey(p)] \in Val,
           NEW items, WithPrefix(items, RowPrefix(L.table)) =
                         {Item(KeyBytes(L, RowKey(p)), m[RowKey(p)]) : p \in rows}
    PROVE DecodeRows(L, items) = RowsOf(L, m, rows)
<1> DEFINE o == RowPrefix(L.table)
           T == WithPrefix(items, o)
           key == [p \in rows |-> KeyBytes(L, RowKey(p))]
           val == [p \in rows |-> m[RowKey(p)]]
           f == InOrder(L, rows)
           g == Ascending(T)
<1>1. \A p \in rows : key[p] = KeyBytes(L, RowKey(p)) /\ val[p] = m[RowKey(p)]
  OBVIOUS
<1>2. key \in [rows -> Bytes]
  BY RowKeyOrder
<1>3. \A p, q \in rows : Before(key[p], key[q]) <=> ValueBefore(L.primary[p], L.primary[q])
  BY RowKeyOrder
<1>4. T = {Item(key[p], val[p]) : p \in rows}
  BY <1>1
<1> HIDE DEF key, val, T
<1>5. /\ DOMAIN g = DOMAIN f
      /\ \A n \in DOMAIN f : f[n] \in rows /\ g[n] = Item(key[f[n]], val[f[n]])
  BY <1>2, <1>3, <1>4, ReadInOrder
<1> HIDE DEF f, g
<1>6. ASSUME NEW n \in DOMAIN f
      PROVE /\ DecodePrimaryKey(Primary(L), Suffix(g[n].key, o)) = L.primary[f[n]]
            /\ g[n].value \in Val /\ g[n].value = m[RowKey(f[n])]
  <2> DEFINE p == f[n]
             b == PrimaryBytes(L, p)
  <2>1. p \in rows /\ p \in Row
    BY <1>5
  <2>2. g[n].key = KeyBytes(L, RowKey(p)) /\ g[n].value = m[RowKey(p)]
    BY <1>1, <1>5, ItemParts
  <2> HIDE DEF p
  <2>3. b \in Bytes /\ o \in Bytes /\ DecodePrimaryKey(Primary(L), b) = L.primary[p]
    BY <2>1, PrimaryCode, ScanPrefixes
  <2>4. g[n].key = Cat(o, b)
    BY <2>1, <2>2, KeyForms
  <2>5. Suffix(g[n].key, o) = b
    <3> HIDE DEF b, o
    <3> QED
      BY <2>3, <2>4, SuffixBytes DEF Suffix
  <2> QED
    BY <2>1, <2>2, <2>3, <2>5 DEF p
<1>7. RowsOf(L, m, rows) = [n \in DOMAIN f |-> RowOf(L, m, f[n])]
  BY DEF RowsOf, f
<1>8. DecodeRows(L, items) =
        [n \in DOMAIN g |->
            [id |-> DecodePrimaryKey(Primary(L), Suffix(g[n].key, o)),
             v |-> IF g[n].value \in Val THEN L.column[g[n].value] ELSE Value("error", << >>)]]
  BY DEF DecodeRows, g, T
<1> QED
  BY <1>5, <1>6, <1>7, <1>8 DEF RowOf

\* The items with the row prefix are those of the rows there are.
LEMMA RowsFound ==
    ASSUME NEW L \in Layouts, NEW m
    PROVE {Item(KeyBytes(L, k), m[k]) : k \in Found(L, m, RowPrefix(L.table))} =
             {Item(KeyBytes(L, RowKey(p)), m[RowKey(p)]) : p \in Present(m)}
<1>1. ASSUME NEW k \in Found(L, m, RowPrefix(L.table)) PROVE \E p \in Present(m) : k = RowKey(p)
  BY KindScanned DEF Found, Present
<1>2. ASSUME NEW p \in Present(m) PROVE RowKey(p) \in Found(L, m, RowPrefix(L.table))
  <2>1. p \in Row /\ m[RowKey(p)] # Absent
    BY DEF Present
  <2>2. RowKey(p) \in TableKeys
    BY <2>1, KeyKinds
  <2> QED
    BY <2>1, <2>2, KindScanned DEF Found
<1> QED
  BY <1>1, <1>2

\* The rows there are have items.
LEMMA PresentItems ==
    ASSUME NEW L \in Layouts, NEW m, NEW p \in Present(m)
    PROVE Item(KeyBytes(L, RowKey(p)), m[RowKey(p)]) \in Items(L, m)
<1>1. RowKey(p) \in TableKeys /\ m[RowKey(p)] # Absent
  BY KeyKinds DEF Present
<1> QED
  BY <1>1 DEF Items, TableKeys

\* Table.Scan.
LEMMA ScanExact ==
    ASSUME NEW L \in Layouts, NEW m, RowsTyped(m)
    PROVE Scan(L, m) = RowsOf(L, m, Present(m))
<1> DEFINE o == RowPrefix(L.table)
<1>1. 32 \in Byte /\ 32 # 255 /\ o \in Bytes /\ Starts(o, 32, L.table)
  BY ScanPrefixes DEF Byte
<1>2. TableRows(L, m) = {Item(KeyBytes(L, RowKey(p)), m[RowKey(p)]) : p \in Present(m)}
  <2>1. WithPrefix(RangeLocked(L, m, o, PrefixEnd(o)), o) =
            {Item(KeyBytes(L, k), m[k]) : k \in Found(L, m, o)}
    BY <1>1, PrefixScanned
  <2> QED
    BY <2>1, RowsFound, ZenonT(30) DEF TableRows
<1>3. WithPrefix(TableRows(L, m), o) = TableRows(L, m)
  BY DEF WithPrefix, TableRows
<1>4. Present(m) \in SUBSET Row /\ \A p \in Present(m) : m[RowKey(p)] \in Val
  BY DEF Present, RowsTyped
<1> QED
  BY <1>2, <1>3, <1>4, RowsDecoded DEF Scan

\* No rows are no rows.
LEMMA NoRows == ASSUME NEW L \in Layouts, NEW m PROVE RowsOf(L, m, {}) = << >>
<1> DEFINE f == InOrder(L, {})
<1>1. Cardinality({}) = 0
  BY FS_EmptySet
<1>2. f = [i \in 1 .. 0 |-> f[i]]
  BY <1>1, InOrderLists DEF Lists
<1>3. DOMAIN f = {}
  BY <1>2
<1> HIDE DEF f
<1>4. RowsOf(L, m, {}) = [i \in DOMAIN f |-> RowOf(L, m, f[i])]
  BY DEF RowsOf, f
<1> QED
  BY <1>3, <1>4

\* decodeRows of some of the items: the rows among them.
LEMMA ItemsDecoded ==
    ASSUME NEW L \in Layouts, NEW m, RowsTyped(m), NEW items \in SUBSET Items(L, m),
           NEW rows \in SUBSET Present(m),
           \A p \in Present(m) : p \in rows <=> Item(KeyBytes(L, RowKey(p)), m[RowKey(p)]) \in items
    PROVE DecodeRows(L, items) = RowsOf(L, m, rows)
<1> DEFINE o == RowPrefix(L.table)
           I(p) == Item(KeyBytes(L, RowKey(p)), m[RowKey(p)])
<1>1. 32 \in Byte /\ o \in Bytes /\ Starts(o, 32, L.table)
  BY ScanPrefixes DEF Byte
<1>2. WithPrefix(Items(L, m), o) = {I(p) : p \in Present(m)}
  <2>1. WithPrefix(Items(L, m), o) = {Item(KeyBytes(L, k), m[k]) : k \in Found(L, m, o)}
    BY <1>1, PrefixItems
  <2> QED
    BY <2>1, RowsFound, ZenonT(30)
<1>3. WithPrefix(items, o) = {x \in WithPrefix(Items(L, m), o) : x \in items}
  BY DEF WithPrefix
<1>4. WithPrefix(items, o) = {I(p) : p \in rows}
  <2> HIDE DEF I, o
  <2>1. \A p \in Present(m) : p \in rows <=> I(p) \in items
    BY DEF I
  <2> QED
    BY <1>2, <1>3, <2>1
<1>5. rows \in SUBSET Row /\ \A p \in rows : m[RowKey(p)] \in Val
  BY DEF Present, RowsTyped
<1> QED
  BY <1>4, <1>5, RowsDecoded

\* The rows of m between two values.
Between(L, m, lower, upper) ==
    {p \in Present(m) : /\ ~ValueBefore(L.primary[p], lower)
                        /\ ~ValueBefore(upper, L.primary[p])}

\* Table.Range.
LEMMA RangeExact ==
    ASSUME NEW L \in Layouts, NEW m, RowsTyped(m), NEW lower \in KeyValues(L), NEW upper \in KeyValues(L)
    PROVE TableRange(L, m, lower, upper) = RowsOf(L, m, Between(L, m, lower, upper))
<1> DEFINE B(p) == KeyBytes(L, RowKey(p))
           I(p) == Item(B(p), m[RowKey(p)])
           a == RowKeyBytes(L, lower)
           b == RowKeyBytes(L, upper)
           rows == Between(L, m, lower, upper)
           items == RangeLocked(L, m, a, b)
<1>1. TableRange(L, m, lower, upper) = IF Before(b, a) THEN << >> ELSE DecodeRows(L, items)
  BY DEF TableRange
<1>2. a \in Bytes /\ b \in Bytes
  BY RowKeyBytesOrder
<1>3. ASSUME NEW p \in Row
      PROVE /\ B(p) \in Bytes
            /\ Before(B(p), a) <=> ValueBefore(L.primary[p], lower)
            /\ Before(b, B(p)) <=> ValueBefore(upper, L.primary[p])
  <2>1. B(p) = RowKeyBytes(L, L.primary[p]) /\ B(p) \in Bytes /\ L.primary[p] \in KeyValues(L)
    BY RowKeyOrder, LayoutPrimary
  <2> QED
    BY <2>1, RowKeyBytesOrder
<1>4. Present(m) \subseteq Row /\ rows \in SUBSET Present(m)
  BY DEF Present, Between
<1>5. \A p \in Present(m) : p \in rows <=> ~Before(B(p), a) /\ ~Before(b, B(p))
  BY <1>3, <1>4 DEF Between
<1>6. CASE Before(b, a)
  <2>1. ASSUME NEW p \in rows PROVE FALSE
    <3> DEFINE c == B(p)
    <3>1. c \in Bytes /\ ~Before(c, a) /\ ~Before(b, c)
      BY <1>3, <1>4, <1>5
    <3> HIDE DEF a, b, c
    <3>2. c = a \/ Before(a, c)
      BY <1>2, <3>1, BeforeTotal
    <3>3. Before(a, c) => Before(b, c)
      BY <1>2, <1>6, <3>1, BeforeTransitive
    <3> QED
      BY <1>6, <3>1, <3>2, <3>3
  <2>2. rows = {}
    BY <2>1
  <2> QED
    BY <1>1, <1>6, <2>2, NoRows
<1>7. CASE ~Before(b, a)
  <2>1. \A p \in Present(m) : I(p) \in Items(L, m) /\ I(p).key = B(p)
    BY PresentItems, ItemParts
  <2>2. items \in SUBSET Items(L, m)
    BY DEF RangeLocked
  <2>3. \A p \in Present(m) : p \in rows <=> I(p) \in items
    <3> HIDE DEF I, B, rows, a, b
    <3> QED
      BY <1>5, <2>1 DEF RangeLocked
  <2>4. DecodeRows(L, items) = RowsOf(L, m, rows)
    <3> HIDE DEF rows, items
    <3> QED
      BY <1>4, <2>2, <2>3, ItemsDecoded
  <2> QED
    BY <1>1, <1>7, <2>4
<1> QED
  BY <1>6, <1>7

\* Table.Get: the row with the key, if there is one.
LEMMA GetExact ==
    ASSUME NEW L \in Layouts, NEW m, RowsTyped(m), NEW value \in KeyValues(L)
    PROVE TableGet(L, m, value) = RowsOf(L, m, {p \in Present(m) : L.primary[p] = value})
<1> DEFINE B(p) == KeyBytes(L, RowKey(p))
           I(p) == Item(B(p), m[RowKey(p)])
           a == RowKeyBytes(L, value)
           rows == {p \in Present(m) : L.primary[p] = value}
           items == {item \in Items(L, m) : item.key = a}
<1>1. ASSUME NEW p \in Present(m) PROVE B(p) = a <=> L.primary[p] = value
  <2> DEFINE x == L.primary[p]
  <2>1. p \in Row
    BY DEF Present
  <2>2. B(p) = RowKeyBytes(L, x) /\ x \in KeyValues(L)
    BY <2>1, RowKeyOrder, LayoutPrimary
  <2> HIDE DEF x
  <2>3. RowKeyBytes(L, x) = RowKeyBytes(L, value) => x = value
    BY <2>2, RowKeyBytesApart
  <2> QED
    BY <2>2, <2>3 DEF x
<1>2. \A p \in Present(m) : I(p) \in Items(L, m) /\ I(p).key = B(p)
  BY PresentItems, ItemParts
<1>3. \A p \in Present(m) : p \in rows <=> I(p) \in items
  <2> HIDE DEF I, B, a
  <2> QED
    BY <1>1, <1>2
<1>4. DecodeRows(L, items) = RowsOf(L, m, rows)
  <2>1. rows \in SUBSET Present(m) /\ items \in SUBSET Items(L, m)
    OBVIOUS
  <2> HIDE DEF rows, items
  <2> QED
    BY <1>3, <2>1, ItemsDecoded
<1> QED
  BY <1>4 DEF TableGet

\* The rows of m with a value in the indexed column.
Matching(m, v) == {p \in Present(m) : m[RowKey(p)] = v}

\* The items of an indexed value are one for every row that has the value, and
\* for a unique index there is at most one such row.
LEMMA EntriesFound ==
    ASSUME NEW L \in Layouts, NEW m, Sound(m), NEW i \in DefinedIndexes(m), NEW v \in Val
    PROVE /\ {Item(KeyBytes(L, k), m[k]) : k \in Found(L, m, ValuePrefix(L, i, v))} =
                {Item(Cat(ValuePrefix(L, i, v), EntrySuffix(L, i, p)), p) : p \in Matching(m, v)}
          /\ i = "unique" => \A p, q \in Matching(m, v) : p = q
<1> DEFINE o == ValuePrefix(L, i, v)
           K(p) == EntryKey(i, v, p)
           I(p) == Item(Cat(o, EntrySuffix(L, i, p)), p)
<1>1. i \in Indexes
  BY DEF DefinedIndexes
<1>2. \A p \in Row : Agrees(m, i, p, v)
  BY <1>1, ConsistentAgrees DEF Sound
<1>3. \A p \in Row : p # Absent
  BY DatabaseAssumption DEF Absent
<1>4. ASSUME NEW p \in Matching(m, v) PROVE p \in Row /\ m[K(p)] = p
  BY <1>2 DEF Matching, Present, Agrees
<1>5. ASSUME NEW k \in Found(L, m, o) PROVE \E p \in Matching(m, v) : k = K(p)
  <2>1. k \in TableKeys /\ m[k] # Absent /\ HasPrefix(KeyBytes(L, k), o)
    BY DEF Found
  <2>2. PICK q \in Row : k = K(q)
    BY <1>1, <2>1, KindScanned
  <2> DEFINE p == m[k]
  <2>3. p \in Row /\ m[RowKey(p)] = v /\ (i = "plain" => p = q)
    BY <1>2, <2>1, <2>2 DEF Agrees
  <2> HIDE DEF p
  <2>4. k = K(p)
    BY <1>1, <2>2, <2>3, EntryKeyFacts
  <2>5. v # Absent
    BY DatabaseAssumption DEF Absent
  <2>6. p \in Matching(m, v)
    BY <2>3, <2>5 DEF Matching, Present
  <2> QED
    BY <2>4, <2>6
<1>6. ASSUME NEW p \in Matching(m, v) PROVE K(p) \in Found(L, m, o)
  <2>1. p \in Row /\ m[K(p)] # Absent
    BY <1>3, <1>4
  <2>2. K(p) \in TableKeys
    BY <1>1, <2>1, KeyKinds
  <2> QED
    BY <1>1, <2>1, <2>2, KindScanned DEF Found
<1>7. ASSUME NEW p \in Matching(m, v) PROVE Item(KeyBytes(L, K(p)), m[K(p)]) = I(p)
  BY <1>1, <1>4, KeyForms
<1>8. ASSUME i = "unique", NEW p \in Matching(m, v), NEW q \in Matching(m, v) PROVE p = q
  <2>1. K(p) = K(q)
    BY <1>8 DEF EntryKey
  <2> QED
    BY <1>4, <2>1
<1> HIDE DEF I, K, o
<1>9. {Item(KeyBytes(L, k), m[k]) : k \in Found(L, m, o)} = {I(p) : p \in Matching(m, v)}
  BY <1>5, <1>6, <1>7
<1> QED
  BY <1>8, <1>9 DEF I, o

\* The keys of the entries of one value are ordered as the primary keys.
LEMMA EntryOrder ==
    ASSUME NEW L \in Layouts, NEW m, Sound(m), NEW i \in DefinedIndexes(m), NEW v \in Val,
           NEW p \in Matching(m, v), NEW q \in Matching(m, v)
    PROVE LET o == ValuePrefix(L, i, v)
              a == EntrySuffix(L, i, p)
              b == EntrySuffix(L, i, q)
          IN Before(Cat(o, a), Cat(o, b)) <=> ValueBefore(L.primary[p], L.primary[q])
<1> DEFINE o == ValuePrefix(L, i, v)
           a == EntrySuffix(L, i, p)
           b == EntrySuffix(L, i, q)
<1>1. p \in Row /\ q \in Row /\ i \in Indexes
  BY DEF Matching, Present, DefinedIndexes
<1>2. o \in Bytes /\ a \in Bytes /\ b \in Bytes
  BY <1>1, ScanPrefixes, EntrySuffixBytes
<1>3. Before(Cat(o, a), Cat(o, b)) <=> Before(a, b)
  <2> HIDE DEF o, a, b
  <2> QED
    BY <1>2, FrontOrder
<1>4. PrimaryBytes(L, p) \in Bytes
  BY <1>1, PrimaryCode
<1>5. Before(PrimaryBytes(L, p), PrimaryBytes(L, q)) <=> ValueBefore(L.primary[p], L.primary[q])
  BY <1>1, PrimaryOrder
<1>6. CASE i = "unique"
  <2>1. p = q
    BY <1>6, EntriesFound
  <2>2. ~Before(a, a) /\ ~Before(PrimaryBytes(L, p), PrimaryBytes(L, p))
    BY <1>2, <1>4, BeforeTotal
  <2> QED
    BY <1>3, <1>5, <2>1, <2>2
<1>7. CASE i # "unique"
  BY <1>3, <1>5, <1>7 DEF EntrySuffix
<1> QED
  BY <1>6, <1>7

\* The entries FindByIndex follows.
LEMMA EntriesExact ==
    ASSUME NEW L \in Layouts, NEW m, Sound(m), NEW i \in DefinedIndexes(m), NEW v \in Val
    PROVE FindEntries(L, m, i, v) =
             [n \in DOMAIN InOrder(L, Matching(m, v)) |-> PrimaryBytes(L, InOrder(L, Matching(m, v))[n])]
<1> DEFINE o == ValuePrefix(L, i, v)
           rows == Matching(m, v)
           T == WithPrefix(RangeLocked(L, m, o, PrefixEnd(o)), o)
           key == [p \in rows |-> Cat(o, EntrySuffix(L, i, p))]
           val == [p \in rows |-> p]
           f == InOrder(L, rows)
           g == Ascending(T)
<1>1. i \in Indexes /\ rows \in SUBSET Row
  BY DEF DefinedIndexes, Matching, Present
<1>2. 48 \in Byte /\ 48 # 255 /\ o \in Bytes /\ Starts(o, 48, L.table)
  BY <1>1, ScanPrefixes DEF Byte
<1>3. \A p \in rows : key[p] = Cat(o, EntrySuffix(L, i, p)) /\ val[p] = p
  OBVIOUS
<1>4. key \in [rows -> Bytes]
  BY <1>1, <1>2, EntrySuffixBytes, BytesCat
<1>5. \A p, q \in rows : Before(key[p], key[q]) <=> ValueBefore(L.primary[p], L.primary[q])
  BY EntryOrder
<1>6. T = {Item(Cat(o, EntrySuffix(L, i, p)), p) : p \in rows}
  <2>1. T = {Item(KeyBytes(L, k), m[k]) : k \in Found(L, m, o)}
    BY <1>2, PrefixScanned
  <2>2. {Item(KeyBytes(L, k), m[k]) : k \in Found(L, m, o)} =
           {Item(Cat(o, EntrySuffix(L, i, p)), p) : p \in rows}
    BY EntriesFound
  <2> QED
    BY <2>1, <2>2, ZenonT(30)
<1>7. T = {Item(key[p], val[p]) : p \in rows}
  BY <1>3, <1>6
<1> HIDE DEF key, val, T, o, rows
<1>8. /\ DOMAIN g = DOMAIN f
      /\ \A n \in DOMAIN f : f[n] \in rows /\ g[n] = Item(key[f[n]], val[f[n]])
  BY <1>1, <1>4, <1>5, <1>7, ReadInOrder
<1> HIDE DEF f, g
<1> DEFINE E(n) == IF i = "unique"
                   THEN IF g[n].key = o THEN PrimaryBytes(L, g[n].value) ELSE Invalid
                   ELSE Suffix(g[n].key, o)
<1>9. ASSUME NEW n \in DOMAIN f PROVE E(n) = PrimaryBytes(L, f[n])
  <2> DEFINE p == f[n]
             x == EntrySuffix(L, i, p)
  <2>1. p \in rows /\ p \in Row
    BY <1>1, <1>8
  <2>2. g[n].key = Cat(o, x) /\ g[n].value = p
    BY <1>3, <1>8, ItemParts
  <2> HIDE DEF p
  <2>3. x \in Bytes
    BY <2>1, EntrySuffixBytes
  <2>4. CASE i = "unique"
    <3>1. x = << >>
      BY <2>4 DEF EntrySuffix
    <3>2. Cat(o, << >>) = o
      BY <1>2 DEF Bytes, Cat
    <3> QED
      BY <2>2, <2>4, <3>1, <3>2 DEF p
  <2>5. CASE i # "unique"
    <3>1. x = PrimaryBytes(L, p)
      BY <2>5 DEF EntrySuffix
    <3>2. Suffix(Cat(o, x), o) = x
      <4> HIDE DEF x
      <4> QED
        BY <1>2, <2>3, SuffixBytes DEF Suffix
    <3> QED
      BY <2>2, <2>5, <3>1, <3>2 DEF p
  <2> QED
    BY <2>4, <2>5
<1>10. FindEntries(L, m, i, v) = [n \in DOMAIN g |-> E(n)]
  BY Zenon DEF FindEntries, g, T, o, ValuePrefix
<1> HIDE DEF E
<1> QED
  BY <1>8, <1>9, <1>10 DEF f, rows

\* Between the steps of the database, the reads of the tables are exact.
LEMMA ReadsExact ==
    ASSUME Sound(store)
    PROVE TableReadsExact
<1> SUFFICES ASSUME NEW L \in Layouts
             PROVE /\ Scan(L, store) = RowsOf(L, store, Present(store))
                   /\ \A lower, upper \in Row :
                         TableRange(L, store, L.primary[lower], L.primary[upper]) =
                             RowsOf(L, store, Between(L, store, L.primary[lower], L.primary[upper]))
                   /\ LoadIndexes(L, store) = {L.index[i] : i \in DefinedIndexes(store)}
                   /\ \A i \in DefinedIndexes(store), v \in Val :
                         FindEntries(L, store, i, v) =
                            [n \in DOMAIN InOrder(L, Matching(store, v)) |->
                                PrimaryBytes(L, InOrder(L, Matching(store, v))[n])]
  BY Zenon DEF TableReadsExact, Between, Matching
<1>1. RowsTyped(store)
  BY DEF Sound
<1>2. \A p \in Row : L.primary[p] \in KeyValues(L)
  BY LayoutPrimary
<1> QED
  BY <1>1, <1>2, ScanExact, RangeExact, IndexesLoaded, EntriesExact, ZenonT(30)

-----------------------------------------------------------------------------
(* SELECT.                                                                 *)

Predicates == [column : STRING, op : STRING, value : ColumnValues \cup {Null}]

\* A literal that is accepted for the primary key is a value of its type.
LEMMA KeyLiteralTyped ==
    ASSUME NEW L \in Layouts, NEW w \in Predicates, w.column = "id", LiteralFits(L, w.column, w.value)
    PROVE /\ KeyLiteral(L, w) \in KeyValues(L)
          /\ LiteralValue(w.value, Columns(L)[w.column].type) = KeyLiteral(L, w)
<1> DEFINE c == Primary(L).type
           v == w.value
<1>1. c \in {"int64", "string"}
  BY LayoutPrimary, LayoutsAssumption
<1>2. Columns(L)[w.column] = Primary(L)
  BY DEF Columns
<1>3. LiteralValue(v, c).type # "error"
  BY <1>2 DEF LiteralFits
<1>4. v \in ColumnValues \cup {Null}
  BY DEF Predicates
<1> HIDE DEF c, v
<1>5. v.type = c /\ LiteralValue(v, c) = Value(v.type, v.content)
  BY <1>1, <1>3 DEF LiteralValue, Value
<1>6. v \in ColumnValues
  BY <1>1, <1>4, <1>5 DEF Null, Value
<1>7. LiteralValue(v, c) = v
  BY <1>5, <1>6, ColumnValuesTyped
<1> QED
  BY <1>2, <1>5, <1>6, <1>7 DEF KeyLiteral, KeyValues, c, v

\* What a row that satisfies a predicate on the primary key has as its key.
LEMMA KeySatisfies ==
    ASSUME NEW L \in Layouts, NEW m, NEW p \in Row, NEW w \in Predicates, w.column = "id",
           LiteralFits(L, w.column, w.value), Holds(L, RowOf(L, m, p), w)
    PROVE /\ w.op = "=" => L.primary[p] = KeyLiteral(L, w)
          /\ w.op \in {">", ">="} => ~ValueBefore(L.primary[p], KeyLiteral(L, w))
          /\ w.op \in {"<", "<="} => ~ValueBefore(KeyLiteral(L, w), L.primary[p])
<1> DEFINE x == L.primary[p]
           y == KeyLiteral(L, w)
<1>1. x \in KeyValues(L) /\ y \in KeyValues(L)
  BY LayoutPrimary, KeyLiteralTyped
<1>2. RowOf(L, m, p)[w.column] = x
  BY DEF RowOf
<1>3. Compare(x, y, w.op)
  BY <1>2, KeyLiteralTyped DEF Holds
<1> HIDE DEF x, y
<1>4. ~(ValueBefore(x, y) /\ ValueBefore(y, x))
  <2> DEFINE a == EncodeValue(Primary(L), x)
             b == EncodeValue(Primary(L), y)
  <2>1. /\ a \in Bytes /\ b \in Bytes
        /\ (Before(a, b) <=> ValueBefore(x, y)) /\ (Before(b, a) <=> ValueBefore(y, x))
    BY <1>1, KeyCode, KeyValueOrder, ZenonT(30)
  <2> HIDE DEF a, b
  <2> QED
    BY <2>1, BeforeTotal
<1>5. w.op = "=" => x = y
  BY <1>3 DEF Compare
<1>6. w.op = ">" => ValueBefore(y, x)
  BY <1>3 DEF Compare
<1>7. w.op = ">=" => ~ValueBefore(x, y)
  BY <1>3 DEF Compare
<1>8. w.op = "<" => ValueBefore(x, y)
  BY <1>3 DEF Compare
<1>9. w.op = "<=" => ~ValueBefore(y, x)
  BY <1>3 DEF Compare
<1> QED
  BY <1>4, <1>5, <1>6, <1>7, <1>8, <1>9 DEF x, y

\* The bound that is kept is the literal of one of the predicates.
LEMMA BoundFrom ==
    ASSUME NEW L, NEW where \in Seq(Predicates), NEW ops, NEW op, Bound(L, where, ops, op) # Null
    PROVE \E i \in OnKey(where, ops) : Bound(L, where, ops, op) = KeyLiteral(L, where[i])
<1> DEFINE n == Len(where)
           K == OnKey(where, ops)
           V(i) == KeyLiteral(L, where[i])
           T == {Null} \cup {V(i) : i \in K}
           Round(i, t) == IF i \in K /\ (t = Null \/ Compare(V(i), t, op)) THEN V(i) ELSE t
           step == [i \in 1 .. n |-> [t \in T |-> Round(i, t)]]
           P(f) == f = [i \in 0 .. n |-> IF i = 0 THEN Null
                                         ELSE IF i \in K /\ (f[i - 1] = Null \/ Compare(V(i), f[i - 1], op))
                                         THEN V(i) ELSE f[i - 1]]
           bound == CHOOSE f : P(f)
<1>1. n \in Nat
  OBVIOUS
<1>2. \A i \in 1 .. n, t \in T : Round(i, t) \in T
  OBVIOUS
<1>3. step \in Rounds(n, T) /\ Null \in T
  BY <1>2 DEF Rounds
<1>4. PICK f \in [0 .. n -> T] : f[0] = Null /\ \A i \in 1 .. n : f[i] = step[i][f[i - 1]]
  <2> HIDE DEF n, T, step
  <2>1. PICK f : Loops(f, n, T, Null, step)
    BY <1>1, <1>3, Loop
  <2> QED
    BY <2>1, Zenon DEF Loops
<1>5. P(f)
  <2>1. ASSUME NEW i \in 1 .. n PROVE f[i] = Round(i, f[i - 1])
    <3>1. i - 1 \in 0 .. n
      BY <1>1
    <3>2. f[i - 1] \in T
      BY <1>4, <3>1
    <3> HIDE DEF T, Round, n
    <3> QED
      BY <1>4, <3>2, Zenon
  <2> HIDE DEF T, V, K, n
  <2> QED
    BY <1>1, <1>4, <2>1
<1>6. P(bound)
  <2> HIDE DEF P
  <2> QED
    BY <1>5
<1>7. Bound(L, where, ops, op) = bound[n]
  BY DEF Bound
<1> HIDE DEF bound
<1>8. bound[0] = Null /\ \A i \in 1 .. n : bound[i] = Round(i, bound[i - 1])
  <2> HIDE DEF V, K, n
  <2> QED
    BY <1>1, <1>6
<1>9. bound[n] \in T
  <2> DEFINE S == {i \in Nat : bound[i] \in T}
  <2>1. 0 \in S
    BY <1>3, <1>8
  <2>2. ASSUME NEW i \in 0 .. n - 1, i \in S PROVE i + 1 \in S
    <3>1. i + 1 \in 1 .. n /\ (i + 1) - 1 = i /\ i + 1 \in Nat
      BY <1>1
    <3>2. bound[i + 1] = Round(i + 1, bound[i])
      BY <1>8, <3>1
    <3> HIDE DEF Round, T, n
    <3> QED
      BY <1>2, <2>2, <3>1, <3>2
  <2>3. 0 .. n \subseteq S
    <3> HIDE DEF S, n
    <3> QED
      BY <1>1, <2>1, <2>2, Ascent
  <2> QED
    BY <1>1, <2>3
<1> QED
  BY <1>7, <1>9

\* The rows that selectRows returns include those that match.
LEMMA SelectRowsCover ==
    ASSUME NEW L \in Layouts, NEW m, RowsTyped(m), NEW where \in Seq(Predicates),
           \A i \in DOMAIN where : LiteralFits(L, where[i].column, where[i].value)
    PROVE \E rows \in SUBSET Present(m) :
             /\ SelectRows(L, m, where) = RowsOf(L, m, rows)
             /\ \A p \in Present(m) : Matches(L, RowOf(L, m, p), where) => p \in rows
<1> DEFINE equal == OnKey(where, {"="})
           lower == Bound(L, where, {">", ">="}, ">")
           upper == Bound(L, where, {"<", "<="}, "<")
           V(i) == KeyLiteral(L, where[i])
<1>1. SelectRows(L, m, where) =
         IF equal # {} THEN TableGet(L, m, V(Min(equal)))
         ELSE IF lower # Null /\ upper # Null THEN TableRange(L, m, lower, upper)
         ELSE Scan(L, m)
  BY DEF SelectRows
<1>2. ASSUME NEW ops, NEW i \in OnKey(where, ops)
      PROVE /\ i \in DOMAIN where /\ where[i] \in Predicates /\ where[i].column = "id"
            /\ where[i].op \in ops /\ LiteralFits(L, where[i].column, where[i].value)
            /\ V(i) \in KeyValues(L)
  <2>1. i \in DOMAIN where /\ where[i].column = "id" /\ where[i].op \in ops
    BY DEF OnKey
  <2>2. where[i] \in Predicates
    BY <2>1
  <2> QED
    BY <2>1, <2>2, KeyLiteralTyped
<1>3. ASSUME NEW p \in Present(m), Matches(L, RowOf(L, m, p), where), NEW i \in DOMAIN where
      PROVE p \in Row /\ Holds(L, RowOf(L, m, p), where[i])
  BY <1>3 DEF Present, Matches
<1>4. CASE equal # {}
  <2> DEFINE i == Min(equal)
             rows == {p \in Present(m) : L.primary[p] = V(i)}
  <2>1. i \in equal
    <3>1. equal \in SUBSET Nat
      BY DEF OnKey
    <3>2. PICK j \in equal : \A k \in equal : j <= k
      BY <1>4, <3>1, LeastNat
    <3> QED
      BY <3>2 DEF Min
  <2> HIDE DEF i
  <2>2. SelectRows(L, m, where) = RowsOf(L, m, rows)
    BY <1>1, <1>2, <1>4, <2>1, GetExact DEF i
  <2>3. ASSUME NEW p \in Present(m), Matches(L, RowOf(L, m, p), where) PROVE p \in rows
    BY <1>2, <1>3, <2>1, <2>3, KeySatisfies
  <2> QED
    BY <2>2, <2>3, ZenonT(30)
<1>5. CASE equal = {} /\ lower # Null /\ upper # Null
  <2> DEFINE rows == Between(L, m, lower, upper)
  <2>1. PICK i \in OnKey(where, {">", ">="}) : lower = V(i)
    BY <1>5, BoundFrom
  <2>2. PICK j \in OnKey(where, {"<", "<="}) : upper = V(j)
    BY <1>5, BoundFrom
  <2>3. lower \in KeyValues(L) /\ upper \in KeyValues(L)
    BY <1>2, <2>1, <2>2
  <2> HIDE DEF lower, upper
  <2>4. SelectRows(L, m, where) = RowsOf(L, m, rows)
    BY <1>1, <1>5, <2>3, RangeExact
  <2>5. ASSUME NEW p \in Present(m), Matches(L, RowOf(L, m, p), where) PROVE p \in rows
    <3>1. ~ValueBefore(L.primary[p], V(i))
      BY <1>2, <1>3, <2>5, KeySatisfies
    <3>2. ~ValueBefore(V(j), L.primary[p])
      BY <1>2, <1>3, <2>5, KeySatisfies, ZenonT(30)
    <3> QED
      BY <2>1, <2>2, <3>1, <3>2 DEF Between
  <2>6. rows \in SUBSET Present(m)
    BY DEF Between
  <2> QED
    BY <2>4, <2>5, <2>6
<1>6. CASE equal = {} /\ ~(lower # Null /\ upper # Null)
  <2>1. SelectRows(L, m, where) = RowsOf(L, m, Present(m))
    BY <1>1, <1>6, ScanExact
  <2> QED
    BY <2>1
<1> QED
  BY <1>4, <1>5, <1>6

\* The records of a set of rows, and s, of length n, listing them by f in
\* primary-key order.
RecordSet(L, m, rows) == {RowOf(L, m, p) : p \in rows}

RowsListed(L, m, rows, f, n, s) ==
    /\ n \in Nat /\ s = [i \in 1 .. n |-> RowOf(L, m, f[i])]
    /\ s \in Seq(RecordSet(L, m, rows)) /\ Len(s) = n
    /\ \A i \in 1 .. n : f[i] \in rows /\ s[i] = RowOf(L, m, f[i])
    /\ \A i, j \in 1 .. n : i < j => ValueBefore(L.primary[f[i]], L.primary[f[j]])
    /\ \A p \in rows : \E i \in 1 .. n : f[i] = p

\* RowsOf as a sequence.
LEMMA RowsOfSequence ==
    ASSUME NEW L \in Layouts, NEW m, NEW rows \in SUBSET Row
    PROVE RowsListed(L, m, rows, InOrder(L, rows), Cardinality(rows), RowsOf(L, m, rows))
<1> DEFINE f == InOrder(L, rows)
           n == Cardinality(rows)
           s == RowsOf(L, m, rows)
           R == RowOrder(L, rows)
<1>1. IsFiniteSet(rows) /\ Lists(f, rows, R)
  BY InOrderLists
<1>2. Orders(R, rows) /\ \A p, q \in rows : <<p, q>> \in R <=> ValueBefore(L.primary[p], L.primary[q])
  BY RowOrders
<1>3. n \in Nat
  BY <1>1, FS_CardinalityType
<1>4. \A i \in 1 .. n : f[i] \in rows
  BY <1>1 DEF Lists
<1> HIDE DEF f, R
<1>5. /\ DOMAIN f = 1 .. n
      /\ \A i, j \in 1 .. n : i < j => <<f[i], f[j]>> \in R
      /\ \A p \in rows : \E i \in 1 .. n : f[i] = p
  BY <1>1, <1>2, ListOrder
<1>6. s = [i \in DOMAIN f |-> RowOf(L, m, f[i])]
  BY DEF RowsOf, f
<1>7. s = [i \in 1 .. n |-> RowOf(L, m, f[i])]
  BY <1>5, <1>6
<1> HIDE DEF n, s
<1>8. s \in Seq(RecordSet(L, m, rows)) /\ Len(s) = n
  BY <1>3, <1>4, <1>7 DEF RecordSet
<1>9. RowsListed(L, m, rows, f, n, s)
  BY <1>2, <1>3, <1>4, <1>5, <1>7, <1>8, ZenonT(30) DEF RowsListed
<1> QED
  BY <1>9 DEF f, n, s

\* Append, element by element.
LEMMA Appended ==
    ASSUME NEW X, NEW s \in Seq(X), NEW e
    PROVE Append(s, e) = [i \in 1 .. Len(s) + 1 |-> IF i = Len(s) + 1 THEN e ELSE s[i]]
<1> DEFINE n == Len(s)
           t == Append(s, e)
<1>1. n \in Nat /\ s \in Seq(X \cup {e}) /\ e \in X \cup {e}
  OBVIOUS
<1>2. /\ t \in Seq(X \cup {e}) /\ Len(t) = n + 1
      /\ t[n + 1] = e /\ \A i \in 1 .. n : t[i] = s[i]
  BY <1>1
<1>3. t = [i \in 1 .. n + 1 |-> t[i]]
  <2> HIDE DEF t
  <2> QED
    BY <1>1, <1>2
<1>4. \A i \in 1 .. n + 1 : i = n + 1 \/ i \in 1 .. n
  BY <1>1
<1> HIDE DEF t, n
<1>5. \A i \in 1 .. n + 1 : t[i] = IF i = n + 1 THEN e ELSE s[i]
  BY <1>2, <1>4
<1>6. t = [i \in 1 .. n + 1 |-> IF i = n + 1 THEN e ELSE s[i]]
  BY <1>3, <1>5
<1> QED
  BY <1>6 DEF t, n

\* A row after all others is the last.
LEMMA RowsAppended ==
    ASSUME NEW L \in Layouts, NEW m, NEW rows \in SUBSET Row, NEW q \in Row, q \notin rows,
           \A p \in rows : ValueBefore(L.primary[p], L.primary[q])
    PROVE RowsOf(L, m, rows \cup {q}) = Append(RowsOf(L, m, rows), RowOf(L, m, q))
<1> DEFINE all == rows \cup {q}
           R == RowOrder(L, rows)
           Q == RowOrder(L, all)
           f == InOrder(L, rows)
           g == InOrder(L, all)
           n == Cardinality(rows)
<1>1. all \in SUBSET Row
  OBVIOUS
<1>2. IsFiniteSet(rows) /\ Lists(f, rows, R) /\ IsFiniteSet(all) /\ Lists(g, all, Q)
  BY <1>1, InOrderLists
<1>3. n \in Nat /\ Cardinality(all) = n + 1
  BY <1>2, FS_CardinalityType, FS_AddElement
<1>4. /\ Orders(Q, all)
      /\ \A x, y \in rows : <<x, y>> \in R <=> ValueBefore(L.primary[x], L.primary[y])
      /\ \A x, y \in all : <<x, y>> \in Q <=> ValueBefore(L.primary[x], L.primary[y])
  BY <1>1, RowOrders
<1> HIDE DEF R, Q, f, g
<1>5. \A p \in rows : <<p, q>> \in Q /\ <<q, p>> \notin Q
  BY <1>4, Zenon DEF Orders
<1>6. ASSUME NEW p \in rows PROVE Rank(all, Q, p) = Rank(rows, R, p)
  <2>1. Below(all, Q, p) = Below(rows, R, p)
    BY <1>4, <1>5, ZenonT(30) DEF Below
  <2> QED
    BY <2>1 DEF Rank
<1>7. Rank(all, Q, q) = n
  <2>1. Below(all, Q, q) = rows
    BY <1>4, <1>5 DEF Below, Orders
  <2> QED
    BY <2>1 DEF Rank
<1>8. \A x, y \in all : Rank(all, Q, x) = Rank(all, Q, y) => x = y
  BY <1>2, <1>4, RankOnto
<1>9. /\ \A i \in 1 .. n : f[i] \in rows /\ Rank(rows, R, f[i]) = i - 1
      /\ \A i \in 1 .. n + 1 : g[i] \in all /\ Rank(all, Q, g[i]) = i - 1
  BY <1>2, <1>3, ZenonT(30) DEF Lists
<1> HIDE DEF n
<1>10. ASSUME NEW i \in 1 .. n PROVE g[i] = f[i]
  <2>1. i \in 1 .. n + 1
    BY <1>3
  <2> QED
    BY <1>6, <1>8, <1>9, <2>1, ZenonT(30)
<1>11. g[n + 1] = q
  <2>1. n + 1 \in 1 .. n + 1 /\ (n + 1) - 1 = n
    BY <1>3
  <2> QED
    BY <1>7, <1>8, <1>9, <2>1, ZenonT(30)
<1> DEFINE s == RowsOf(L, m, rows)
           t == RowsOf(L, m, all)
           X == RecordSet(L, m, rows)
<1>12. s \in Seq(X) /\ Len(s) = n /\ \A i \in 1 .. n : s[i] = RowOf(L, m, f[i])
  <2>1. RowsListed(L, m, rows, f, n, s)
    BY RowsOfSequence DEF f, n
  <2> HIDE DEF s
  <2> QED
    BY <2>1 DEF RowsListed
<1>13. t = [i \in 1 .. n + 1 |-> RowOf(L, m, g[i])]
  <2>1. RowsListed(L, m, all, g, Cardinality(all), t)
    BY <1>1, RowsOfSequence DEF g
  <2> HIDE DEF t, all
  <2> QED
    BY <1>3, <2>1 DEF RowsListed
<1> HIDE DEF s, X
<1>14. Append(s, RowOf(L, m, q)) = [i \in 1 .. n + 1 |-> IF i = n + 1 THEN RowOf(L, m, q) ELSE s[i]]
  BY <1>12, Appended
<1>15. \A i \in 1 .. n + 1 : RowOf(L, m, g[i]) = IF i = n + 1 THEN RowOf(L, m, q) ELSE s[i]
  BY <1>3, <1>10, <1>11, <1>12
<1> QED
  BY <1>13, <1>14, <1>15, ZenonT(30) DEF s

\* The loop of executeSelect keeps the rows that match, in their order.
LEMMA KeptExact ==
    ASSUME NEW L \in Layouts, NEW m, NEW rows \in SUBSET Row, NEW where
    PROVE Kept(L, RowsOf(L, m, rows), where) =
             RowsOf(L, m, {p \in rows : Matches(L, RowOf(L, m, p), where)})
<1> DEFINE f == InOrder(L, rows)
           n == Cardinality(rows)
           s == RowsOf(L, m, rows)
           X == RecordSet(L, m, rows)
           T == Seq(X)
           M(p) == Matches(L, RowOf(L, m, p), where)
           U(i) == {p \in rows : M(p) /\ \E j \in 1 .. i : f[j] = p}
           P(k) == k = [i \in 0 .. Len(s) |-> IF i = 0 THEN << >>
                                              ELSE IF Matches(L, s[i], where) THEN Append(k[i - 1], s[i])
                                              ELSE k[i - 1]]
           step == [i \in 1 .. n |-> [t \in T |-> IF M(f[i]) THEN Append(t, s[i]) ELSE t]]
           kept == CHOOSE k : P(k)
<1>1. /\ n \in Nat /\ s \in Seq(X) /\ Len(s) = n
      /\ \A i \in 1 .. n : f[i] \in rows /\ s[i] = RowOf(L, m, f[i])
      /\ \A i, j \in 1 .. n : i < j => ValueBefore(L.primary[f[i]], L.primary[f[j]])
      /\ \A p \in rows : \E i \in 1 .. n : f[i] = p
  <2>1. RowsListed(L, m, rows, f, n, s)
    BY RowsOfSequence
  <2> HIDE DEF f, n, s
  <2> QED
    BY <2>1 DEF RowsListed
<1>2. Kept(L, s, where) = kept[Len(s)]
  BY DEF Kept
<1> HIDE DEF f, n, s, X
<1>0. n \in Nat /\ Len(s) = n
  BY <1>1
<1>3. P(kept)
  <2>1. step \in Rounds(n, T) /\ << >> \in T
    <3>1. \A i \in 1 .. n : s[i] \in X
      BY <1>1
    <3> HIDE DEF M
    <3> QED
      BY <3>1 DEF Rounds
  <2>2. PICK k \in [0 .. n -> T] : k[0] = << >> /\ \A i \in 1 .. n : k[i] = step[i][k[i - 1]]
    <3> HIDE DEF T, step
    <3>1. PICK k : Loops(k, n, T, << >>, step)
      BY <1>0, <2>1, Loop
    <3> QED
      BY <3>1, Zenon DEF Loops
  <2>3. ASSUME NEW i \in 1 .. n
        PROVE k[i] = IF Matches(L, s[i], where) THEN Append(k[i - 1], s[i]) ELSE k[i - 1]
    <3>1. i - 1 \in 0 .. n
      BY <1>1
    <3>2. k[i - 1] \in T
      BY <2>2, <3>1
    <3>3. M(f[i]) <=> Matches(L, s[i], where)
      BY <1>1
    <3> HIDE DEF T, M
    <3> QED
      BY <2>2, <3>2, <3>3, ZenonT(30)
  <2>4. P(k)
    <3> DEFINE G(i) == IF i = 0 THEN << >>
                       ELSE IF Matches(L, s[i], where) THEN Append(k[i - 1], s[i]) ELSE k[i - 1]
    <3>1. \A i \in 0 .. n : i = 0 \/ i \in 1 .. n
      BY <1>0
    <3>2. \A i \in 0 .. n : k[i] = G(i)
      BY <2>2, <2>3, <3>1, ZenonT(30)
    <3> HIDE DEF T, G
    <3>3. k = [i \in 0 .. n |-> G(i)]
      BY <2>2, <3>2
    <3> QED
      BY <1>0, <3>3, Zenon DEF G
  <2> HIDE DEF P
  <2> QED
    BY <2>4
<1> HIDE DEF kept
<1>4. kept[0] = << >>
  BY <1>0, <1>3
<1>5. ASSUME NEW i \in 1 .. n
      PROVE kept[i] = IF M(f[i]) THEN Append(kept[i - 1], RowOf(L, m, f[i])) ELSE kept[i - 1]
  <2>1. i \in 0 .. Len(s) /\ i # 0
    BY <1>0
  <2>2. kept[i] = IF Matches(L, s[i], where) THEN Append(kept[i - 1], s[i]) ELSE kept[i - 1]
    BY <1>3, <2>1, ZenonT(30)
  <2>3. s[i] = RowOf(L, m, f[i])
    BY <1>1
  <2> QED
    BY <2>2, <2>3
<1>6. kept[n] = RowsOf(L, m, U(n))
  <2> DEFINE S == {i \in Nat : kept[i] = RowsOf(L, m, U(i))}
  <2>1. 0 \in S
    <3>1. U(0) = {}
      OBVIOUS
    <3> HIDE DEF U
    <3> QED
      BY <1>4, <3>1, NoRows, ZenonT(30)
  <2>2. ASSUME NEW i \in 0 .. n - 1, i \in S PROVE i + 1 \in S
    <3> DEFINE q == f[i + 1]
    <3>1. i + 1 \in 1 .. n /\ i + 1 \in Nat /\ (i + 1) - 1 = i /\ q \in rows /\ q \in Row
      BY <1>1
    <3>2. kept[i + 1] = IF M(q) THEN Append(kept[i], RowOf(L, m, q)) ELSE kept[i]
      BY <1>5, <3>1
    <3>3. \A j \in 1 .. i + 1 : j = i + 1 \/ (j \in 1 .. i /\ j \in 1 .. n /\ j < i + 1)
      BY <1>0, <3>1
    <3>4. \A j \in 1 .. i : j \in 1 .. i + 1
      BY <3>1
    <3>5. CASE M(q)
      <4>1. U(i + 1) = U(i) \cup {q}
        <5> HIDE DEF M
        <5> QED
          BY <3>1, <3>3, <3>4, <3>5
      <4>2. \A p \in U(i) : ValueBefore(L.primary[p], L.primary[q])
        BY <1>1, <3>1, <3>3, <3>4
      <4>3. U(i) \in SUBSET Row
        OBVIOUS
      <4>4. q \notin U(i)
        <5>1. /\ Orders(RowOrder(L, Row), Row)
              /\ \A p, r \in Row : <<p, r>> \in RowOrder(L, Row) <=> ValueBefore(L.primary[p], L.primary[r])
          BY RowOrders
        <5>2. q \in Row
          BY <3>1
        <5> HIDE DEF q
        <5>3. <<q, q>> \notin RowOrder(L, Row)
          BY <5>1, <5>2 DEF Orders
        <5>4. ~ValueBefore(L.primary[q], L.primary[q])
          BY <5>1, <5>2, <5>3
        <5> QED
          BY <4>2, <5>4
      <4> HIDE DEF U, q, M
      <4>5. RowsOf(L, m, U(i) \cup {q}) = Append(RowsOf(L, m, U(i)), RowOf(L, m, q))
        BY <3>1, <4>2, <4>3, <4>4, RowsAppended, ZenonT(30)
      <4> QED
        BY <2>2, <3>1, <3>2, <3>5, <4>1, <4>5, ZenonT(30)
    <3>6. CASE ~M(q)
      <4>1. U(i + 1) = U(i)
        <5> HIDE DEF M
        <5> QED
          BY <3>1, <3>3, <3>4, <3>6
      <4> HIDE DEF U, M
      <4> QED
        BY <2>2, <3>1, <3>2, <3>6, <4>1
    <3> QED
      BY <3>5, <3>6
  <2>3. 0 .. n \subseteq S
    <3> HIDE DEF S
    <3> QED
      BY <1>0, <2>1, <2>2, Ascent
  <2> QED
    BY <1>0, <2>3
<1>7. U(n) = {p \in rows : M(p)}
  <2> HIDE DEF M
  <2> QED
    BY <1>1
<1> QED
  BY <1>0, <1>2, <1>6, <1>7, ZenonT(30) DEF s

\* Whatever tables lie around it and whatever its names and values, Scan and
\* Range return the table's rows within the bounds by their primary keys,
\* loadIndexesLocked the indexes defined, and the entries of an indexed value
\* lead to the rows with it.
THEOREM TableReadsCorrect ==
    ASSUME ReopenAfterFailure
    PROVE Spec => []TableReadsExact
<1>1. IndexInv => TableReadsExact
  BY ReadsExact DEF IndexInv
<1>2. TypeInv /\ WriterAdmission /\ IndexInv /\ [Next]_vars => (TypeInv /\ WriterAdmission /\ IndexInv)'
  BY TypeStep, AdmissionStep, IndexStep
<1> QED
  BY <1>1, <1>2, InitCorrect, PTL DEF Spec

\* Whichever of lookup, range and scan its predicates select, and whatever
\* bounds they give, an accepted SELECT returns exactly the rows that satisfy
\* every predicate, in primary-key order.
THEOREM SelectCorrect ==
    ASSUME ReopenAfterFailure
    PROVE Spec => []SelectExact
<1> DEFINE L == SqlLayout
<1>1. ASSUME RowsTyped(store), NEW s \in Queries, SelectValid(L, store, s)
      PROVE ExecuteSelect(L, store, s) =
               Result(s, RowsOf(L, store, {p \in Present(store) : Matches(L, RowOf(L, store, p), s.where)}))
  <2> DEFINE where == s.where
  <2>1. L \in Layouts /\ where \in Seq(Predicates)
    BY QueriesAssumption, ZenonT(30) DEF Predicates
  <2>2. \A i \in DOMAIN where : LiteralFits(L, where[i].column, where[i].value)
    BY <1>1 DEF SelectValid
  <2> HIDE DEF where, L
  <2>3. PICK rows \in SUBSET Present(store) :
            /\ SelectRows(L, store, where) = RowsOf(L, store, rows)
            /\ \A p \in Present(store) : Matches(L, RowOf(L, store, p), where) => p \in rows
    BY <1>1, <2>1, <2>2, SelectRowsCover
  <2>4. rows \in SUBSET Row
    BY DEF Present
  <2>5. Kept(L, RowsOf(L, store, rows), where) =
           RowsOf(L, store, {p \in rows : Matches(L, RowOf(L, store, p), where)})
    BY <2>1, <2>4, KeptExact
  <2>6. {p \in rows : Matches(L, RowOf(L, store, p), where)} =
           {p \in Present(store) : Matches(L, RowOf(L, store, p), where)}
    BY <2>3
  <2>7. ExecuteSelect(L, store, s) = Result(s, Kept(L, SelectRows(L, store, where), where))
    BY DEF ExecuteSelect, where
  <2> QED
    BY <2>3, <2>5, <2>6, <2>7, ZenonT(30) DEF where
<1>2. IndexInv => SelectExact
  <2> SUFFICES ASSUME IndexInv, NEW s \in Queries, SelectValid(L, store, s)
               PROVE ExecuteSelect(L, store, s) =
                  Result(s, RowsOf(L, store, {p \in Present(store) : Matches(L, RowOf(L, store, p), s.where)}))
    BY ZenonT(30) DEF SelectExact
  <2> QED
    BY <1>1 DEF IndexInv, Sound
<1>3. TypeInv /\ WriterAdmission /\ IndexInv /\ [Next]_vars => (TypeInv /\ WriterAdmission /\ IndexInv)'
  BY TypeStep, AdmissionStep, IndexStep
<1> QED
  BY <1>2, <1>3, InitCorrect, PTL DEF Spec
=============================================================================
