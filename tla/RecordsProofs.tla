--------------------------- MODULE RecordsProofs ----------------------------
(***************************************************************************)
(* Proofs about Records, for all byte strings, numbers, schemas and rows:  *)
(* escaped components have the order of what they stand for, prefixes tell *)
(* the keys of tables apart, what is decoded is what was encoded, and the  *)
(* bytes of a number have its order.  The induction and recursion that     *)
(* they need come first.                                                   *)
(***************************************************************************)
EXTENDS Records, WellFoundedInduction, TLAPS

USE SMTT(20), ZenonT(20)

Byte == 0 .. 255
Bytes == Seq(Byte)

-----------------------------------------------------------------------------
(* Induction and recursion.                                                *)

\* The least of some natural numbers.
LEMMA LeastNat ==
    ASSUME NEW S \in SUBSET Nat, S # {}
    PROVE \E n \in S : \A m \in S : n <= m
<1> DEFINE R == OpToRel(<, Nat)
<1>1. \A y, x \in Nat : y < x => <<y, x>> \in R
  BY DEF OpToRel
<1>2. IsWellFoundedOn(R, Nat)
  BY NatLessThanWellFounded, Zenon
<1> HIDE DEF R
<1>3. PICK n \in S : \A m \in S : ~(<<m, n>> \in R)
  BY <1>2, WFMin, Zenon
<1>4. \A m \in S : ~(m < n)
  BY <1>1, <1>3, Zenon
<1>5. \A m \in S : n <= m
  BY <1>4
<1> QED
  BY <1>5

\* Induction over the natural numbers, with the property as a set.
LEMMA SetInduction ==
    ASSUME NEW S, 0 \in S, \A n \in Nat : n \in S => n + 1 \in S
    PROVE Nat \subseteq S
<1> SUFFICES ASSUME Nat \ S # {} PROVE FALSE
  OBVIOUS
<1>1. PICK n \in Nat \ S : \A m \in Nat \ S : n <= m
  BY LeastNat, Zenon
<1>2. n # 0 /\ n - 1 \in Nat
  BY <1>1
<1>3. n - 1 \in S
  BY <1>1, <1>2
<1> QED
  BY <1>1, <1>2, <1>3

\* The numbers below n + 1.
LEMMA BelowNext == \A m, n \in Nat : m < n + 1 => m < n \/ m = n
OBVIOUS

\* step[x][f] depends only on the values of f at places of smaller rank.
Ranked(D, T, rank, step) ==
    /\ rank \in [D -> Nat] /\ step \in [D -> [[D -> T] -> T]]
    /\ \A x \in D : \A f, g \in [D -> T] :
          (\A y \in D : rank[y] < rank[x] => f[y] = g[y]) => step[x][f] = step[x][g]

\* The function whose value at x is step[x] of the function exists.
LEMMA Recursion ==
    ASSUME NEW D, NEW T, NEW rank, NEW step, Ranked(D, T, rank, step), T # {},
           NEW N \in Nat, \A x \in D : rank[x] < N
    PROVE \E f \in [D -> T] : \A x \in D : f[x] = step[x][f]
<1> PICK t0 \in T : TRUE
  OBVIOUS
<1> USE DEF Ranked
<1> DEFINE Solved(n) == \E f \in [D -> T] : \A x \in D : rank[x] < n => f[x] = step[x][f]
           S == {n \in Nat : Solved(n)}
<1>1. Solved(0)
  <2>1. [x \in D |-> t0] \in [D -> T]
    OBVIOUS
  <2>2. \A x \in D : ~(rank[x] < 0)
    OBVIOUS
  <2> QED
    BY <2>1, <2>2, Zenon
<1>2. ASSUME NEW n \in Nat, Solved(n) PROVE Solved(n + 1)
  <2>1. PICK f \in [D -> T] : \A x \in D : rank[x] < n => f[x] = step[x][f]
    BY <1>2
  <2> DEFINE g == [x \in D |-> IF rank[x] = n THEN step[x][f] ELSE f[x]]
  <2>2. g \in [D -> T]
    OBVIOUS
  <2>3. \A y \in D : rank[y] < n => g[y] = f[y]
    OBVIOUS
  <2>4. \A x \in D : rank[x] = n => g[x] = step[x][f]
    OBVIOUS
  <2> HIDE DEF g
  <2>5. \A x \in D : rank[x] <= n => step[x][g] = step[x][f]
    <3> SUFFICES ASSUME NEW x \in D, rank[x] <= n PROVE step[x][g] = step[x][f]
      OBVIOUS
    <3>1. \A y \in D : rank[y] < rank[x] => g[y] = f[y]
      BY <2>3
    <3> QED
      BY <2>2, <3>1, Zenon
  <2>6. \A x \in D : rank[x] < n + 1 => g[x] = step[x][g]
    <3> SUFFICES ASSUME NEW x \in D, rank[x] < n + 1 PROVE g[x] = step[x][g]
      OBVIOUS
    <3>1. rank[x] \in Nat
      OBVIOUS
    <3>2. rank[x] < n \/ rank[x] = n
      BY <3>1, BelowNext, Zenon
    <3> QED
      BY <2>1, <2>3, <2>4, <2>5, <3>2
  <2> QED
    BY <2>2, <2>6
<1> HIDE DEF Solved
<1>3. 0 \in S /\ \A n \in Nat : n \in S => n + 1 \in S
  BY <1>1, <1>2
<1>4. Nat \subseteq S
  <2> HIDE DEF S
  <2> QED
    BY <1>3, SetInduction
<1>5. Solved(N)
  BY <1>4
<1> QED
  BY <1>5 DEF Solved

\* The rounds of a loop over values of T, and f holding its value after each.
Rounds(n, T) == [1 .. n -> [T -> T]]

Loops(f, n, T, base, step) ==
    f \in [0 .. n -> T] /\ f[0] = base /\ \A i \in 1 .. n : f[i] = step[i][f[i - 1]]

\* A loop of n rounds: the function that its recursive definition is about.
LEMMA Loop ==
    ASSUME NEW n \in Nat, NEW T, NEW base \in T, NEW step \in Rounds(n, T)
    PROVE \E f : Loops(f, n, T, base, step)
<1> DEFINE D == 0 .. n
           rank == [i \in D |-> i]
           next == [i \in D |-> [f \in [D -> T] |-> IF i = 0 THEN base ELSE step[i][f[i - 1]]]]
           N == n + 1
<1>1. rank \in [D -> Nat] /\ N \in Nat /\ \A i \in D : rank[i] < N
  OBVIOUS
<1>2. \A i \in D : i # 0 => i \in 1 .. n /\ i - 1 \in D /\ rank[i - 1] < rank[i]
  OBVIOUS
<1>3. next \in [D -> [[D -> T] -> T]]
  <2> SUFFICES ASSUME NEW i \in D, NEW f \in [D -> T], i # 0 PROVE step[i][f[i - 1]] \in T
    OBVIOUS
  <2>1. f[i - 1] \in T
    BY <1>2
  <2> QED
    BY <1>2, <2>1 DEF Rounds
<1>4. ASSUME NEW i \in D, NEW f \in [D -> T], NEW g \in [D -> T],
             \A j \in D : rank[j] < rank[i] => f[j] = g[j]
      PROVE next[i][f] = next[i][g]
  <2>1. i # 0 => f[i - 1] = g[i - 1]
    BY <1>2, <1>4
  <2> QED
    BY <2>1
<1>5. Ranked(D, T, rank, next)
  BY <1>1, <1>3, <1>4, Zenon DEF Ranked
<1>6. \E f \in [D -> T] : \A i \in D : f[i] = next[i][f]
  <2> HIDE DEF D, rank, next, N
  <2> QED
    BY <1>1, <1>5, Recursion
<1>7. PICK f \in [D -> T] : \A i \in D : f[i] = next[i][f]
  BY <1>6
<1>8. f[0] = base
  BY <1>7
<1>9. \A i \in 1 .. n : f[i] = step[i][f[i - 1]]
  BY <1>7
<1>10. Loops(f, n, T, base, step)
  BY <1>7, <1>8, <1>9 DEF Loops
<1> QED
  BY <1>10

\* Induction from n down to 1.
LEMMA Descent ==
    ASSUME NEW n \in Nat, NEW S, n \in S, \A i \in 1 .. n - 1 : i + 1 \in S => i \in S
    PROVE 1 .. n \subseteq S
<1> DEFINE T == {m \in Nat : m < n => n - m \in S}
<1>1. 0 \in T /\ \A m \in Nat : m \in T => m + 1 \in T
  <2>1. 0 \in T
    OBVIOUS
  <2>2. ASSUME NEW m \in Nat, m \in T, m + 1 < n PROVE n - (m + 1) \in S
    <3>1. n - (m + 1) \in 1 .. n - 1 /\ (n - (m + 1)) + 1 = n - m /\ n - m \in S
      BY <2>2
    <3> QED
      BY <3>1
  <2> QED
    BY <2>1, <2>2
<1>2. Nat \subseteq T
  <2> HIDE DEF T
  <2> QED
    BY <1>1, SetInduction
<1>3. \A i \in 1 .. n : n - i \in T /\ n - (n - i) = i /\ n - i < n
  BY <1>2
<1> QED
  BY <1>3

\* Induction from m up to n.
LEMMA Ascent ==
    ASSUME NEW m \in Int, NEW n \in Int, NEW S,
           m \in S, \A i \in m .. n - 1 : i \in S => i + 1 \in S
    PROVE m .. n \subseteq S
<1> DEFINE T == {k \in Nat : m + k <= n => m + k \in S}
<1>1. 0 \in T /\ \A k \in Nat : k \in T => k + 1 \in T
  <2>1. 0 \in T
    OBVIOUS
  <2>2. ASSUME NEW k \in Nat, k \in T, m + (k + 1) <= n PROVE m + (k + 1) \in S
    <3>1. m + k \in m .. n - 1 /\ (m + k) + 1 = m + (k + 1) /\ m + k \in S
      BY <2>2
    <3> QED
      BY <3>1
  <2> QED
    BY <2>1, <2>2
<1>2. Nat \subseteq T
  <2> HIDE DEF T
  <2> QED
    BY <1>1, SetInduction
<1>3. \A i \in m .. n : i - m \in T /\ m + (i - m) = i
  BY <1>2
<1> QED
  BY <1>3

-----------------------------------------------------------------------------
(* Byte strings.                                                           *)

\* Bytes and lengths.
LEMMA BytesType ==
    ASSUME NEW s \in Bytes
    PROVE Len(s) \in Nat /\ \A i \in 1 .. Len(s) : s[i] \in Byte
BY DEF Bytes

\* Bytes are numbers.
LEMMA BytesInt ==
    ASSUME NEW s \in Bytes
    PROVE Len(s) \in Nat /\ \A i \in 1 .. Len(s) : s[i] \in Int
<1>1. \A x \in Byte : x \in Int
  BY DEF Byte
<1> QED
  BY <1>1, BytesType

\* Concatenation; the name keeps the provers from taking it apart.
Cat(s, t) == s \o t

\* The bytes of a concatenation.
LEMMA BytesCat ==
    ASSUME NEW s \in Bytes, NEW t \in Bytes
    PROVE /\ Cat(s, t) \in Bytes
          /\ Len(Cat(s, t)) = Len(s) + Len(t)
          /\ \A i \in 1 .. Len(s) : Cat(s, t)[i] = s[i]
          /\ \A i \in 1 .. Len(t) : Cat(s, t)[Len(s) + i] = t[i]
<1>1. /\ Cat(s, t) \in Bytes /\ Len(Cat(s, t)) = Len(s) + Len(t)
      /\ \A i \in 1 .. Len(s) + Len(t) :
            Cat(s, t)[i] = IF i <= Len(s) THEN s[i] ELSE t[i - Len(s)]
  BY DEF Bytes, Cat
<1>2. Len(s) \in Nat /\ Len(t) \in Nat
  BY BytesType
<1>3. \A i \in 1 .. Len(s) : i \in 1 .. Len(s) + Len(t) /\ i <= Len(s)
  BY <1>2
<1>4. \A i \in 1 .. Len(t) : /\ Len(s) + i \in 1 .. Len(s) + Len(t) /\ ~(Len(s) + i <= Len(s))
                             /\ (Len(s) + i) - Len(s) = i
  BY <1>2
<1> QED
  BY <1>1, <1>3, <1>4

\* Concatenation is associative.
LEMMA CatAssociative ==
    ASSUME NEW s \in Bytes, NEW t \in Bytes, NEW u \in Bytes
    PROVE Cat(Cat(s, t), u) = Cat(s, Cat(t, u))
BY DEF Bytes, Cat

\* Equal strings.
LEMMA BytesEqual ==
    ASSUME NEW s \in Bytes, NEW t \in Bytes, Len(s) = Len(t), \A i \in 1 .. Len(s) : s[i] = t[i]
    PROVE s = t
BY DEF Bytes

\* Short strings.
LEMMA ShortBytes ==
    /\ << >> \in Bytes
    /\ \A b \in Byte : <<b>> \in Bytes
    /\ \A b, c \in Byte : <<b, c>> \in Bytes
<1>1. << >> \in Seq(Byte)
  OBVIOUS
<1>2. \A b \in Byte : <<b>> \in Seq(Byte)
  OBVIOUS
<1>3. \A b, c \in Byte : <<b, c>> \in Seq(Byte)
  OBVIOUS
<1> QED
  BY <1>1, <1>2, <1>3 DEF Bytes

\* A common front is dropped.
LEMMA CancelFront ==
    ASSUME NEW s \in Bytes, NEW t \in Bytes, NEW u \in Bytes, Cat(s, t) = Cat(s, u)
    PROVE t = u
<1>1. Len(s) \in Nat /\ Len(t) \in Nat /\ Len(u) \in Nat
  BY BytesType
<1>2. Len(t) = Len(u)
  <2>1. Len(Cat(s, t)) = Len(s) + Len(t)
    BY BytesCat
  <2>2. Len(Cat(s, u)) = Len(s) + Len(u)
    BY BytesCat
  <2> QED
    BY <1>1, <2>1, <2>2
<1>3. \A i \in 1 .. Len(t) : t[i] = u[i]
  <2> SUFFICES ASSUME NEW i \in 1 .. Len(t) PROVE t[i] = u[i]
    OBVIOUS
  <2>1. Cat(s, t)[Len(s) + i] = t[i]
    BY BytesCat
  <2>2. i \in 1 .. Len(u)
    BY <1>2
  <2>3. Cat(s, u)[Len(s) + i] = u[i]
    BY <2>2, BytesCat, Zenon
  <2> QED
    BY <2>1, <2>3
<1> QED
  BY <1>2, <1>3, BytesEqual

-----------------------------------------------------------------------------
(* Components.                                                             *)

\* What escape appends for one byte, and at the end.
Coded(b) == IF b = 0 THEN <<0, 255>> ELSE <<b>>
End == <<0, 0>>

\* f[i] is what escape appends from byte i of s on.
EscapesFrom(s, f) ==
    /\ f \in [1 .. Len(s) + 1 -> Bytes]
    /\ f[Len(s) + 1] = End
    /\ \A i \in 1 .. Len(s) : f[i] = Cat(Coded(s[i]), f[i + 1])

\* They are bytes.
LEMMA CodedBytes == End \in Bytes /\ \A b \in Byte : Coded(b) \in Bytes
<1> 0 \in Byte /\ 255 \in Byte
  BY DEF Byte
<1> QED
  BY ShortBytes DEF Coded, End

\* escape is well defined.
LEMMA EscapeDefined ==
    ASSUME NEW s \in Bytes
    PROVE \E f : EscapesFrom(s, f) /\ Escape(s) = f[1]
<1> DEFINE D == 1 .. Len(s) + 1
           P(f) == f = [i \in D |-> IF i > Len(s) THEN End
                                    ELSE Cat(Coded(s[i]), f[i + 1])]
           from == CHOOSE f : P(f)
           n == Len(s) + 1
           rank == [i \in D |-> Len(s) + 1 - i]
           step == [i \in D |-> [f \in [D -> Bytes] |->
                        IF i > Len(s) THEN End ELSE Cat(Coded(s[i]), f[i + 1])]]
<1>1. Len(s) \in Nat /\ Len(s) + 1 \in D /\ \A i \in 1 .. Len(s) : s[i] \in Byte /\ i + 1 \in D
  BY DEF Bytes
<1>2. End \in Bytes
  BY CodedBytes
<1>3. \A i \in D : \A f \in [D -> Bytes] :
        (IF i > Len(s) THEN End ELSE Cat(Coded(s[i]), f[i + 1])) \in Bytes
  <2> SUFFICES ASSUME NEW i \in D, NEW f \in [D -> Bytes], ~(i > Len(s))
               PROVE Cat(Coded(s[i]), f[i + 1]) \in Bytes
    BY <1>2
  <2>1. s[i] \in Byte /\ f[i + 1] \in Bytes
    BY <1>1
  <2>2. Coded(s[i]) \in Bytes
    BY <2>1, CodedBytes
  <2> QED
    BY <2>1, <2>2, BytesCat, Zenon
<1>4. \E f \in [D -> Bytes] : \A i \in D : f[i] = step[i][f]
  <2>1. rank \in [D -> Nat] /\ \A i \in D : rank[i] < n
    BY <1>1
  <2>2. step \in [D -> [[D -> Bytes] -> Bytes]]
    BY <1>3
  <2>3. \A i \in D : \A f, g \in [D -> Bytes] :
            (\A j \in D : rank[j] < rank[i] => f[j] = g[j]) => step[i][f] = step[i][g]
    <3> SUFFICES ASSUME NEW i \in D, NEW f \in [D -> Bytes], NEW g \in [D -> Bytes],
                        \A j \in D : rank[j] < rank[i] => f[j] = g[j], ~(i > Len(s))
                 PROVE f[i + 1] = g[i + 1]
      BY <1>1
    <3>1. i + 1 \in D /\ rank[i + 1] < rank[i]
      BY <1>1
    <3> QED
      BY <3>1
  <2>4. n \in Nat /\ Bytes # {}
    BY <1>1, <1>2
  <2>5. Ranked(D, Bytes, rank, step)
    BY <2>1, <2>2, <2>3, Zenon DEF Ranked
  <2> HIDE DEF D, rank, step, n
  <2> QED
    BY <2>1, <2>4, <2>5, Recursion
<1>5. PICK g \in [D -> Bytes] : \A i \in D : g[i] = step[i][g]
  BY <1>4
<1>6. P(g)
  BY <1>5
<1>7. P(from)
  <2> HIDE DEF P
  <2> QED
    BY <1>6
<1>8. from[Len(s) + 1] = End /\ \A i \in 1 .. Len(s) : from[i] = Cat(Coded(s[i]), from[i + 1])
  <2> HIDE DEF from
  <2>1. \A i \in D : from[i] = IF i > Len(s) THEN End
                      ELSE Cat(Coded(s[i]), from[i + 1])
    BY <1>7
  <2>2. Len(s) + 1 > Len(s) /\ \A i \in 1 .. Len(s) : i \in D /\ ~(i > Len(s))
    BY <1>1
  <2> QED
    BY <1>1, <2>1, <2>2
<1> DEFINE S == {i \in D : from[i] \in Bytes}
<1>9. D \subseteq S
  <2> HIDE DEF from
  <2>1. Len(s) + 1 \in S
    BY <1>1, <1>2, <1>8
  <2>2. ASSUME NEW i \in 1 .. Len(s), i + 1 \in S PROVE i \in S
    <3>1. Coded(s[i]) \in Bytes /\ from[i + 1] \in Bytes /\ i \in D
      BY <1>1, <2>2, CodedBytes
    <3>2. Cat(Coded(s[i]), from[i + 1]) \in Bytes
      BY <3>1, BytesCat, Zenon
    <3> QED
      BY <1>8, <3>1, <3>2
  <2> HIDE DEF S
  <2> QED
    BY <1>1, <2>1, <2>2, Descent
<1>10. from = [i \in D |-> from[i]]
  BY <1>7
<1>11. EscapesFrom(s, from)
  <2> HIDE DEF from, P
  <2> QED
    BY <1>8, <1>9, <1>10, Zenon DEF EscapesFrom
<1>12. Escape(s) = from[1]
  BY DEF Escape, Coded, End, Cat
<1> QED
  BY <1>11, <1>12, Zenon

\* The first bytes of what escape appends for a byte tell the byte, and that
\* the component does not end there.
LEMMA CodedApart ==
    ASSUME NEW b \in Byte, NEW c \in Byte, NEW p \in Bytes, NEW q \in Bytes
    PROVE /\ Cat(Coded(b), p) = Cat(Coded(c), q) => b = c /\ p = q
          /\ Cat(Coded(b), p) # Cat(End, q)
<1> DEFINE B == Cat(Coded(b), p)
           C == Cat(Coded(c), q)
           Z == Cat(End, q)
<1>1. Coded(b) \in Bytes /\ Coded(c) \in Bytes /\ End \in Bytes
  BY CodedBytes
<1>2. B[1] = Coded(b)[1] /\ (b = 0 => B[2] = Coded(b)[2])
  <2>1. 1 \in 1 .. Len(Coded(b)) /\ (b = 0 => 2 \in 1 .. Len(Coded(b)))
    BY DEF Coded
  <2>2. \A i \in 1 .. Len(Coded(b)) : Cat(Coded(b), p)[i] = Coded(b)[i]
    BY <1>1, BytesCat
  <2> QED
    BY <2>1, <2>2
<1>3. C[1] = Coded(c)[1] /\ (c = 0 => C[2] = Coded(c)[2])
  <2>1. 1 \in 1 .. Len(Coded(c)) /\ (c = 0 => 2 \in 1 .. Len(Coded(c)))
    BY DEF Coded
  <2>2. \A i \in 1 .. Len(Coded(c)) : Cat(Coded(c), q)[i] = Coded(c)[i]
    BY <1>1, BytesCat
  <2> QED
    BY <2>1, <2>2
<1>4. Z[1] = End[1] /\ Z[2] = End[2]
  <2>1. 1 \in 1 .. Len(End) /\ 2 \in 1 .. Len(End)
    BY DEF End
  <2> QED
    BY <1>1, <2>1, BytesCat
<1>5. /\ Coded(b)[1] = b /\ (b = 0 => Coded(b)[2] = 255)
      /\ Coded(c)[1] = c
      /\ End[1] = 0 /\ End[2] = 0
  BY DEF Coded, End
<1>6. ASSUME B = C PROVE b = c /\ p = q
  <2> HIDE DEF B, C
  <2>1. b = c
    BY <1>2, <1>3, <1>5, <1>6
  <2>2. Cat(Coded(b), p) = Cat(Coded(b), q)
    BY <1>6, <2>1 DEF B, C
  <2> QED
    BY <1>1, <2>1, <2>2, CancelFront
<1>7. B # Z
  <2> HIDE DEF B, Z
  <2> QED
    BY <1>2, <1>4, <1>5
<1> QED
  BY <1>6, <1>7

\* What escape appends from one byte on, and what follows.
LEMMA EscapeUnfold ==
    ASSUME NEW s \in Bytes, NEW f, EscapesFrom(s, f), NEW x \in Bytes
    PROVE /\ Cat(f[Len(s) + 1], x) = Cat(End, x)
          /\ \A i \in 1 .. Len(s) + 1 : f[i] \in Bytes /\ Cat(f[i], x) \in Bytes
          /\ \A i \in 1 .. Len(s) : s[i] \in Byte /\ Cat(f[i], x) = Cat(Coded(s[i]), Cat(f[i + 1], x))
<1>1. \A i \in 1 .. Len(s) + 1 : f[i] \in Bytes
  BY DEF EscapesFrom
<1>2. f[Len(s) + 1] = End /\ \A i \in 1 .. Len(s) : f[i] = Cat(Coded(s[i]), f[i + 1])
  BY DEF EscapesFrom
<1>3. \A i \in 1 .. Len(s) : s[i] \in Byte /\ i + 1 \in 1 .. Len(s) + 1
  BY BytesType
<1>4. ASSUME NEW i \in 1 .. Len(s) PROVE Cat(f[i], x) = Cat(Coded(s[i]), Cat(f[i + 1], x))
  <2>1. Coded(s[i]) \in Bytes /\ f[i + 1] \in Bytes
    BY <1>1, <1>3, CodedBytes
  <2> QED
    BY <1>2, <2>1, CatAssociative
<1> QED
  BY <1>1, <1>2, <1>3, <1>4, BytesCat, Zenon

\* f and g are what escape appends for a and b, and x and y what follows, up
\* to byte i alike.
Alike(a, b, f, g, x, y, i) ==
    i <= Len(b) + 1 /\ Cat(f[i], x) = Cat(g[i], y) /\ \A j \in 1 .. i - 1 : a[j] = b[j]

\* If they are alike up to a byte of a, they are alike up to the next.
LEMMA AlikeStep ==
    ASSUME NEW a \in Bytes, NEW b \in Bytes, NEW x \in Bytes, NEW y \in Bytes,
           NEW f, EscapesFrom(a, f), NEW g, EscapesFrom(b, g),
           NEW i \in 1 .. Len(a), Alike(a, b, f, g, x, y, i)
    PROVE Alike(a, b, f, g, x, y, i + 1)
<1>1. Len(a) \in Nat /\ Len(b) \in Nat /\ i \in 1 .. Len(a) + 1 /\ i + 1 \in 1 .. Len(a) + 1
  BY BytesType
<1> DEFINE p == Cat(f[i + 1], x)
<1>2. a[i] \in Byte /\ Cat(f[i], x) = Cat(Coded(a[i]), p) /\ p \in Bytes
  BY <1>1, EscapeUnfold
<1> HIDE DEF p
<1>3. Cat(f[i], x) = Cat(g[i], y) /\ i <= Len(b) + 1
  BY DEF Alike
<1>4. i # Len(b) + 1
  <2>1. Cat(g[Len(b) + 1], y) = Cat(End, y)
    BY EscapeUnfold
  <2> QED
    BY <1>2, <1>3, <2>1, CodedApart, Zenon
<1>5. i \in 1 .. Len(b) /\ i + 1 \in 1 .. Len(b) + 1 /\ i + 1 <= Len(b) + 1
  BY <1>1, <1>3, <1>4
<1> DEFINE q == Cat(g[i + 1], y)
<1>6. b[i] \in Byte /\ Cat(g[i], y) = Cat(Coded(b[i]), q) /\ q \in Bytes
  BY <1>5, EscapeUnfold
<1> HIDE DEF q
<1>7. a[i] = b[i] /\ p = q
  <2> DEFINE u == a[i]
             v == b[i]
  <2>1. u \in Byte /\ v \in Byte /\ Cat(Coded(u), p) = Cat(Coded(v), q)
    BY <1>2, <1>3, <1>6
  <2> HIDE DEF u, v
  <2>2. u = v /\ p = q
    BY <1>2, <1>6, <2>1, CodedApart
  <2> QED
    BY <2>2 DEF u, v
<1>8. \A j \in 1 .. i : a[j] = b[j]
  <2>1. \A j \in 1 .. i - 1 : a[j] = b[j]
    BY DEF Alike
  <2> QED
    BY <1>7, <2>1
<1> QED
  BY <1>5, <1>7, <1>8 DEF Alike, p, q

\* A component delimits itself: it can be told from what follows it.
LEMMA EscapeApart ==
    ASSUME NEW a \in Bytes, NEW b \in Bytes, NEW x \in Bytes, NEW y \in Bytes,
           Cat(Escape(a), x) = Cat(Escape(b), y)
    PROVE a = b /\ x = y
<1>1. PICK f : EscapesFrom(a, f) /\ Escape(a) = f[1]
  BY EscapeDefined
<1>2. PICK g : EscapesFrom(b, g) /\ Escape(b) = g[1]
  BY EscapeDefined
<1>3. Len(a) \in Nat /\ Len(b) \in Nat
  BY BytesType
<1> DEFINE n == Len(a) + 1
           S == {i \in Nat : Alike(a, b, f, g, x, y, i)}
<1>4. 1 \in S
  BY <1>1, <1>2, <1>3 DEF Alike
<1>5. \A i \in 1 .. n - 1 : i \in S => i + 1 \in S
  BY <1>1, <1>2, <1>3, AlikeStep
<1>6. Len(a) + 1 \in S
  <2>1. n \in Int /\ 1 \in Int /\ n \in 1 .. n
    BY <1>3
  <2> HIDE DEF S, n
  <2>2. 1 .. n \subseteq S
    BY <1>4, <1>5, <2>1, Ascent
  <2>3. n \in S
    BY <2>1, <2>2
  <2> QED
    BY <2>3 DEF n
<1> DEFINE i == Len(a) + 1
<1>7. i <= Len(b) + 1 /\ Cat(f[i], x) = Cat(g[i], y) /\ \A j \in 1 .. i - 1 : a[j] = b[j]
  BY <1>6 DEF Alike
<1>8. Cat(f[i], x) = Cat(End, x)
  BY <1>1, EscapeUnfold
<1>9. i = Len(b) + 1
  <2> SUFFICES ASSUME i \in 1 .. Len(b) PROVE FALSE
    BY <1>3, <1>7
  <2>1. i + 1 \in 1 .. Len(b) + 1
    BY <1>3
  <2> DEFINE q == Cat(g[i + 1], y)
  <2>2. b[i] \in Byte /\ Cat(g[i], y) = Cat(Coded(b[i]), q) /\ q \in Bytes
    BY <1>2, <2>1, EscapeUnfold
  <2> DEFINE u == b[i]
  <2>3. u \in Byte /\ Cat(Coded(u), q) = Cat(End, x)
    BY <1>7, <1>8, <2>2, Zenon
  <2> HIDE DEF q, u
  <2> QED
    BY <2>2, <2>3, CodedApart
<1>10. a = b
  <2>1. Len(a) = Len(b) /\ \A j \in 1 .. Len(a) : a[j] = b[j]
    BY <1>3, <1>7, <1>9
  <2> QED
    BY <2>1, BytesEqual
<1>11. Escape(a) \in Bytes
  BY <1>1, <1>3 DEF EscapesFrom
<1> QED
  BY <1>10, <1>11, CancelFront

-----------------------------------------------------------------------------
(* The order of byte strings.                                              *)

\* a and b agree before place i, and there a is less or at its end.
BeforeAt(a, b, i) ==
    /\ i \in 1 .. Len(b)
    /\ \A j \in 1 .. i - 1 : j <= Len(a) /\ a[j] = b[j]
    /\ i > Len(a) \/ a[i] < b[i]

\* The order is decided at the first place that differs.
LEMMA BeforeIff ==
    ASSUME NEW a \in Bytes, NEW b \in Bytes
    PROVE Before(a, b) <=> \E i \in Nat : BeforeAt(a, b, i)
<1> DEFINE D == {i \in 1 .. Len(a) : i > Len(b) \/ a[i] # b[i]}
           k == CHOOSE i \in D : \A j \in D : i <= j
<1>1. /\ Len(a) \in Nat /\ Len(b) \in Nat
      /\ \A i \in 1 .. Len(a) : a[i] \in Int
      /\ \A i \in 1 .. Len(b) : b[i] \in Int
  BY BytesInt
<1>2. Before(a, b) <=> IF D = {} THEN Len(a) < Len(b) ELSE k <= Len(b) /\ a[k] < b[k]
  BY DEF Before
<1>3. CASE D = {}
  <2>1. \A j \in 1 .. Len(a) : j <= Len(b) /\ a[j] = b[j]
    BY <1>1, <1>3
  <2>2. ASSUME Len(a) < Len(b) PROVE BeforeAt(a, b, Len(a) + 1)
    BY <1>1, <2>1, <2>2 DEF BeforeAt
  <2>3. ASSUME NEW i \in Nat, BeforeAt(a, b, i) PROVE Len(a) < Len(b)
    <3>1. i \in 1 .. Len(b) /\ (i > Len(a) \/ a[i] < b[i])
      BY <2>3 DEF BeforeAt
    <3>2. CASE i > Len(a)
      BY <1>1, <3>1, <3>2
    <3>3. CASE i \in 1 .. Len(a) /\ a[i] < b[i]
      <4>1. a[i] = b[i] /\ b[i] \in Int
        BY <1>1, <2>1, <3>1, <3>3
      <4> QED
        BY <3>3, <4>1
    <3> QED
      BY <1>1, <3>1, <3>2, <3>3
  <2>4. Len(a) + 1 \in Nat
    BY <1>1
  <2> HIDE DEF D, k
  <2> QED
    BY <1>2, <1>3, <2>2, <2>3, <2>4
<1>4. CASE D # {}
  <2>1. k \in D /\ \A j \in D : k <= j
    <3>1. D \in SUBSET Nat
      BY <1>1
    <3> HIDE DEF D
    <3>2. \E i \in D : \A j \in D : i <= j
      BY <1>4, <3>1, LeastNat
    <3> QED
      BY <3>2
  <2> HIDE DEF k
  <2>2. k \in 1 .. Len(a) /\ (k > Len(b) \/ a[k] # b[k])
    BY <2>1
  <2>3. \A j \in 1 .. k - 1 : j <= Len(a) /\ j <= Len(b) /\ a[j] = b[j]
    <3> SUFFICES ASSUME NEW j \in 1 .. k - 1 PROVE j <= Len(a) /\ j <= Len(b) /\ a[j] = b[j]
      OBVIOUS
    <3>1. j \in 1 .. Len(a) /\ ~(k <= j)
      BY <1>1, <2>2
    <3>2. j \notin D
      BY <2>1, <3>1
    <3> QED
      BY <1>1, <3>1, <3>2
  <2>4. ASSUME k <= Len(b), a[k] < b[k] PROVE BeforeAt(a, b, k)
    BY <1>1, <2>2, <2>3, <2>4 DEF BeforeAt
  <2>5. ASSUME NEW i \in Nat, BeforeAt(a, b, i) PROVE k <= Len(b) /\ a[k] < b[k]
    <3>1. /\ i \in 1 .. Len(b) /\ (i > Len(a) \/ a[i] < b[i])
          /\ \A j \in 1 .. i - 1 : j <= Len(a) /\ a[j] = b[j]
      BY <2>5 DEF BeforeAt
    <3>2. ~(k < i)
      <4> SUFFICES ASSUME k < i PROVE FALSE
        OBVIOUS
      <4>1. k \in 1 .. i - 1 /\ k <= Len(b)
        BY <1>1, <2>2, <3>1
      <4> QED
        BY <1>1, <2>2, <3>1, <4>1
    <3>3. i \in 1 .. Len(a) /\ a[i] < b[i]
      BY <1>1, <2>2, <3>1, <3>2
    <3>4. i \in D
      <4>1. a[i] \in Int /\ b[i] \in Int
        BY <1>1, <3>1, <3>3
      <4> QED
        BY <3>3, <4>1
    <3>5. k <= i
      BY <2>1, <3>4
    <3>6. k = i
      BY <2>2, <3>2, <3>3, <3>5
    <3> QED
      BY <3>1, <3>3, <3>6
  <2>6. k \in Nat
    BY <2>2
  <2> HIDE DEF D
  <2> QED
    BY <1>2, <1>4, <2>4, <2>5, <2>6
<1> QED
  BY <1>3, <1>4

\* Two different strings are ordered one way.
LEMMA BeforeTotal ==
    ASSUME NEW a \in Bytes, NEW b \in Bytes
    PROVE /\ a # b => Before(a, b) \/ Before(b, a)
          /\ ~(Before(a, b) /\ Before(b, a))
          /\ ~Before(a, a)
<1>1. /\ Len(a) \in Nat /\ Len(b) \in Nat
      /\ \A i \in 1 .. Len(a) : a[i] \in Int
      /\ \A i \in 1 .. Len(b) : b[i] \in Int
  BY BytesInt
<1>2. ASSUME a # b PROVE Before(a, b) \/ Before(b, a)
  <2> DEFINE D == {i \in Nat \ {0} : i > Len(a) \/ i > Len(b) \/ a[i] # b[i]}
  <2>1. D # {} /\ D \in SUBSET Nat
    <3>1. Len(a) + 1 \in D
      BY <1>1
    <3> QED
      BY <3>1
  <2>2. PICK k \in D : \A j \in D : k <= j
    BY <2>1, LeastNat, Zenon
  <2>3. \A j \in 1 .. k - 1 : j <= Len(a) /\ j <= Len(b) /\ a[j] = b[j]
    <3> SUFFICES ASSUME NEW j \in 1 .. k - 1 PROVE j <= Len(a) /\ j <= Len(b) /\ a[j] = b[j]
      OBVIOUS
    <3>1. j \in Nat \ {0} /\ ~(k <= j)
      BY <2>2
    <3>2. j \notin D
      BY <2>2, <3>1
    <3> QED
      BY <1>1, <3>1, <3>2
  <2>4. k <= Len(a) \/ k <= Len(b)
    <3> SUFFICES ASSUME k > Len(a), k > Len(b) PROVE FALSE
      BY <1>1, <2>2
    <3>1. Len(a) = Len(b)
      <4>1. ~(Len(a) < Len(b))
        <5> SUFFICES ASSUME Len(a) < Len(b) PROVE FALSE
          OBVIOUS
        <5>1. Len(a) + 1 \in D /\ Len(a) + 1 \in 1 .. k - 1
          BY <1>1, <2>2
        <5> QED
          BY <1>1, <2>3, <5>1
      <4>2. ~(Len(b) < Len(a))
        <5> SUFFICES ASSUME Len(b) < Len(a) PROVE FALSE
          OBVIOUS
        <5>1. Len(b) + 1 \in D /\ Len(b) + 1 \in 1 .. k - 1
          BY <1>1, <2>2
        <5> QED
          BY <1>1, <2>3, <5>1
      <4> QED
        BY <1>1, <4>1, <4>2
    <3>2. \A i \in 1 .. Len(a) : a[i] = b[i]
      BY <1>1, <2>2, <2>3
    <3> QED
      BY <1>2, <3>1, <3>2, BytesEqual
  <2>5. BeforeAt(a, b, k) \/ BeforeAt(b, a, k)
    <3>1. CASE k > Len(a)
      BY <1>1, <2>2, <2>3, <2>4, <3>1 DEF BeforeAt
    <3>2. CASE k > Len(b)
      BY <1>1, <2>2, <2>3, <2>4, <3>2 DEF BeforeAt
    <3>3. CASE k \in 1 .. Len(a) /\ k \in 1 .. Len(b)
      <4>1. a[k] # b[k] /\ a[k] \in Int /\ b[k] \in Int
        BY <1>1, <2>2, <3>3
      <4>2. a[k] < b[k] \/ b[k] < a[k]
        BY <4>1
      <4> QED
        BY <2>3, <3>3, <4>2 DEF BeforeAt
    <3> QED
      BY <1>1, <2>2, <3>1, <3>2, <3>3
  <2>6. k \in Nat
    BY <2>2
  <2> HIDE DEF D
  <2> QED
    BY <2>5, <2>6, BeforeIff
<1>3. ASSUME Before(a, b), Before(b, a) PROVE FALSE
  <2>1. PICK i \in Nat : BeforeAt(a, b, i)
    BY <1>3, BeforeIff
  <2>2. PICK j \in Nat : BeforeAt(b, a, j)
    BY <1>3, BeforeIff
  <2>3. /\ i \in 1 .. Len(b) /\ (\A l \in 1 .. i - 1 : l <= Len(a) /\ a[l] = b[l])
        /\ i > Len(a) \/ a[i] < b[i]
    BY <2>1 DEF BeforeAt
  <2>4. /\ j \in 1 .. Len(a) /\ (\A l \in 1 .. j - 1 : l <= Len(b) /\ b[l] = a[l])
        /\ j > Len(b) \/ b[j] < a[j]
    BY <2>2 DEF BeforeAt
  <2>5. CASE i < j
    <3>1. i \in 1 .. j - 1 /\ i \in 1 .. Len(a)
      BY <1>1, <2>3, <2>4, <2>5
    <3>2. b[i] = a[i] /\ a[i] < b[i] /\ a[i] \in Int
      BY <1>1, <2>3, <2>4, <3>1
    <3> QED
      BY <3>2
  <2>6. CASE j < i
    <3>1. j \in 1 .. i - 1 /\ j \in 1 .. Len(b)
      BY <1>1, <2>3, <2>4, <2>6
    <3>2. b[j] = a[j] /\ b[j] < a[j] /\ b[j] \in Int
      BY <1>1, <2>3, <2>4, <3>1
    <3> QED
      BY <3>2
  <2>7. CASE i = j
    <3>1. a[i] < b[i] /\ b[i] < a[i] /\ a[i] \in Int /\ b[i] \in Int
      BY <1>1, <2>3, <2>4, <2>7
    <3> QED
      BY <3>1
  <2> QED
    BY <2>5, <2>6, <2>7
<1>4. ~Before(a, a)
  <2> SUFFICES ASSUME NEW i \in Nat, BeforeAt(a, a, i) PROVE FALSE
    BY BeforeIff
  <2>1. i \in 1 .. Len(a) /\ (i > Len(a) \/ a[i] < a[i])
    BY DEF BeforeAt
  <2> QED
    BY <1>1, <2>1
<1> QED
  BY <1>2, <1>3, <1>4

\* What decides the order of two strings decides it whatever follows.
LEMMA BeforeAtIs ==
    ASSUME NEW a \in Bytes, NEW b \in Bytes, NEW i \in Nat, BeforeAt(a, b, i)
    PROVE Before(a, b)
BY BeforeIff

\* A common front does not change the order.
LEMMA BeforeFront ==
    ASSUME NEW p \in Bytes, NEW a \in Bytes, NEW b \in Bytes, Before(a, b)
    PROVE Before(Cat(p, a), Cat(p, b))
<1>1. PICK i \in Nat : BeforeAt(a, b, i)
  BY BeforeIff
<1>2. /\ i \in 1 .. Len(b) /\ (\A j \in 1 .. i - 1 : j <= Len(a) /\ a[j] = b[j])
      /\ i > Len(a) \/ a[i] < b[i]
  BY <1>1 DEF BeforeAt
<1> DEFINE x == Cat(p, a)
           y == Cat(p, b)
           n == Len(p)
           k == n + i
<1>3. n \in Nat /\ Len(a) \in Nat /\ Len(b) \in Nat
  BY BytesType
<1>4. /\ x \in Bytes /\ Len(x) = n + Len(a)
      /\ \A j \in 1 .. n : x[j] = p[j]
      /\ \A j \in 1 .. Len(a) : x[n + j] = a[j]
  BY BytesCat
<1>5. /\ y \in Bytes /\ Len(y) = n + Len(b)
      /\ \A j \in 1 .. n : y[j] = p[j]
      /\ \A j \in 1 .. Len(b) : y[n + j] = b[j]
  BY BytesCat
<1> HIDE DEF x, y, n
<1>6. k \in Nat /\ k \in 1 .. Len(y)
  BY <1>2, <1>3, <1>5
<1>7. ASSUME NEW j \in 1 .. k - 1 PROVE j <= Len(x) /\ x[j] = y[j]
  <2>1. CASE j \in 1 .. n
    BY <1>3, <1>4, <1>5, <2>1
  <2>2. CASE j > n
    <3> DEFINE l == j - n
    <3>1. l \in 1 .. i - 1 /\ l \in 1 .. Len(b) /\ j = n + l
      BY <1>2, <1>3, <2>2
    <3>2. l \in 1 .. Len(a) /\ a[l] = b[l]
      BY <1>2, <1>3, <3>1
    <3> HIDE DEF l
    <3> QED
      BY <1>3, <1>4, <1>5, <3>1, <3>2
  <2> QED
    BY <1>3, <2>1, <2>2
<1>8. k > Len(x) \/ x[k] < y[k]
  <2>1. CASE i > Len(a)
    BY <1>2, <1>3, <1>4, <2>1
  <2>2. CASE i \in 1 .. Len(a) /\ a[i] < b[i]
    BY <1>2, <1>4, <1>5, <2>2
  <2> QED
    BY <1>2, <1>3, <2>1, <2>2
<1>9. BeforeAt(x, y, k)
  BY <1>6, <1>7, <1>8 DEF BeforeAt
<1>10. Before(x, y)
  <2> HIDE DEF k
  <2> QED
    BY <1>4, <1>5, <1>6, <1>9, BeforeAtIs
<1> QED
  BY <1>10 DEF x, y

\* What escape appends for a byte has the order of the byte, and is above the
\* end of a component.
LEMMA CodedOrder ==
    ASSUME NEW b \in Byte, NEW c \in Byte, NEW p \in Bytes, NEW q \in Bytes
    PROVE /\ b < c => Before(Cat(Coded(b), p), Cat(Coded(c), q))
          /\ Before(Cat(End, p), Cat(Coded(c), q))
<1> DEFINE B == Cat(Coded(b), p)
           C == Cat(Coded(c), q)
           Z == Cat(End, p)
<1>1. Coded(b) \in Bytes /\ Coded(c) \in Bytes /\ End \in Bytes
  BY CodedBytes
<1>2. B \in Bytes /\ C \in Bytes /\ Z \in Bytes
  BY <1>1, BytesCat
<1>3. Len(B) \in Nat /\ Len(C) \in Nat /\ Len(Z) \in Nat
  BY <1>2, BytesType
<1>4. ASSUME NEW d \in Byte, NEW r \in Bytes
      PROVE /\ Len(Cat(Coded(d), r)) >= 1 /\ Cat(Coded(d), r)[1] = d
            /\ d = 0 => Len(Cat(Coded(d), r)) >= 2 /\ Cat(Coded(d), r)[2] = 255
  <2> DEFINE e == Coded(d)
  <2>1. e[1] = d /\ Len(e) >= 1 /\ Len(e) \in Nat /\ (d = 0 => Len(e) >= 2 /\ e[2] = 255)
    BY DEF Coded
  <2>2. e \in Bytes /\ Len(r) \in Nat
    BY CodedBytes, BytesType
  <2> HIDE DEF e
  <2>3. Len(Cat(e, r)) = Len(e) + Len(r) /\ \A i \in 1 .. Len(e) : Cat(e, r)[i] = e[i]
    BY <2>2, BytesCat
  <2>4. Len(Cat(e, r)) >= 1 /\ Cat(e, r)[1] = d
    BY <2>1, <2>2, <2>3
  <2>5. ASSUME d = 0 PROVE Len(Cat(e, r)) >= 2 /\ Cat(e, r)[2] = 255
    BY <2>1, <2>2, <2>3, <2>5
  <2> QED
    BY <2>4, <2>5 DEF e
<1>5. Z[1] = 0 /\ Z[2] = 0 /\ Len(Z) >= 2
  <2> DEFINE e == End
  <2>1. e[1] = 0 /\ e[2] = 0 /\ Len(e) = 2
    BY DEF End
  <2>2. Len(p) \in Nat
    BY BytesType
  <2>3. Len(Cat(e, p)) = Len(e) + Len(p) /\ \A i \in 1 .. Len(e) : Cat(e, p)[i] = e[i]
    BY <1>1, BytesCat
  <2> HIDE DEF e
  <2>4. Len(Cat(e, p)) >= 2 /\ Cat(e, p)[1] = 0 /\ Cat(e, p)[2] = 0
    BY <2>1, <2>2, <2>3
  <2> QED
    BY <2>4 DEF e
<1>6. /\ Len(B) >= 1 /\ B[1] = b /\ Len(C) >= 1 /\ C[1] = c
      /\ c = 0 => Len(C) >= 2 /\ C[2] = 255
  BY <1>4
<1> HIDE DEF B, C, Z
<1>7. ASSUME b < c PROVE Before(B, C)
  <2>1. BeforeAt(B, C, 1)
    BY <1>3, <1>6, <1>7 DEF BeforeAt
  <2> QED
    BY <1>2, <2>1, BeforeAtIs
<1>8. Before(Z, C)
  <2>1. CASE c = 0
    <3>1. BeforeAt(Z, C, 2)
      BY <1>3, <1>5, <1>6, <2>1 DEF BeforeAt
    <3> QED
      BY <1>2, <3>1, BeforeAtIs
  <2>2. CASE c # 0
    <3>1. 0 < c
      BY <2>2 DEF Byte
    <3>2. BeforeAt(Z, C, 1)
      BY <1>3, <1>5, <1>6, <3>1 DEF BeforeAt
    <3> QED
      BY <1>2, <3>2, BeforeAtIs
  <2> QED
    BY <2>1, <2>2
<1> QED
  BY <1>7, <1>8 DEF B, C, Z

\* The order of two components, with what follows them, is the order of the
\* strings.
LEMMA EscapeBefore ==
    ASSUME NEW a \in Bytes, NEW b \in Bytes, NEW x \in Bytes, NEW y \in Bytes, Before(a, b)
    PROVE Before(Cat(Escape(a), x), Cat(Escape(b), y))
<1>1. PICK f : EscapesFrom(a, f) /\ Escape(a) = f[1]
  BY EscapeDefined
<1>2. PICK g : EscapesFrom(b, g) /\ Escape(b) = g[1]
  BY EscapeDefined
<1>3. PICK k \in Nat : BeforeAt(a, b, k)
  BY BeforeIff
<1>4. /\ k \in 1 .. Len(b) /\ (\A j \in 1 .. k - 1 : j <= Len(a) /\ a[j] = b[j])
      /\ k > Len(a) \/ a[k] < b[k]
  BY <1>3 DEF BeforeAt
<1>5. Len(a) \in Nat /\ Len(b) \in Nat
  BY BytesType
<1>6. /\ Cat(f[Len(a) + 1], x) = Cat(End, x)
      /\ \A i \in 1 .. Len(a) + 1 : f[i] \in Bytes /\ Cat(f[i], x) \in Bytes
      /\ \A i \in 1 .. Len(a) : a[i] \in Byte /\ Cat(f[i], x) = Cat(Coded(a[i]), Cat(f[i + 1], x))
  BY <1>1, EscapeUnfold
<1>7. /\ \A i \in 1 .. Len(b) + 1 : g[i] \in Bytes /\ Cat(g[i], y) \in Bytes
      /\ \A i \in 1 .. Len(b) : b[i] \in Byte /\ Cat(g[i], y) = Cat(Coded(b[i]), Cat(g[i + 1], y))
  BY <1>2, EscapeUnfold
<1> DEFINE S == {i \in 1 .. k : Before(Cat(f[i], x), Cat(g[i], y))}
<1>8. k \in S
  <2> DEFINE q == Cat(g[k + 1], y)
  <2>1. q \in Bytes /\ b[k] \in Byte /\ Cat(g[k], y) = Cat(Coded(b[k]), q)
    <3>1. k + 1 \in 1 .. Len(b) + 1
      BY <1>4, <1>5
    <3> QED
      BY <1>4, <1>7, <3>1
  <2> HIDE DEF q
  <2>2. CASE k > Len(a)
    <3>1. k = Len(a) + 1
      <4>1. k = 1 \/ k - 1 \in 1 .. k - 1
        BY <1>4
      <4> QED
        BY <1>4, <1>5, <2>2, <4>1
    <3>2. Cat(f[k], x) = Cat(End, x)
      BY <1>6, <3>1
    <3>3. Before(Cat(End, x), Cat(Coded(b[k]), q))
      <4> DEFINE c == b[k]
      <4>1. c \in Byte
        BY <2>1
      <4> HIDE DEF c
      <4>2. Before(Cat(End, x), Cat(Coded(c), q))
        BY <2>1, <4>1, CodedOrder
      <4> QED
        BY <4>2 DEF c
    <3> QED
      BY <1>4, <2>1, <3>2, <3>3
  <2>3. CASE k \in 1 .. Len(a) /\ a[k] < b[k]
    <3> DEFINE p == Cat(f[k + 1], x)
               c == b[k]
               d == a[k]
    <3>1. p \in Bytes /\ d \in Byte /\ Cat(f[k], x) = Cat(Coded(d), p)
      <4>1. k + 1 \in 1 .. Len(a) + 1
        BY <1>5, <2>3
      <4> QED
        BY <1>6, <2>3, <4>1
    <3>2. c \in Byte /\ d < c /\ Cat(g[k], y) = Cat(Coded(c), q)
      BY <2>1, <2>3
    <3> HIDE DEF p, c, d
    <3>3. Before(Cat(Coded(d), p), Cat(Coded(c), q))
      BY <2>1, <3>1, <3>2, CodedOrder
    <3> QED
      BY <1>4, <3>1, <3>2, <3>3
  <2> QED
    BY <1>4, <1>5, <2>2, <2>3
<1>9. ASSUME NEW i \in 1 .. k - 1, i + 1 \in S PROVE i \in S
  <2> DEFINE p == Cat(f[i + 1], x)
             q == Cat(g[i + 1], y)
             c == Coded(a[i])
  <2>1. i \in 1 .. Len(a) /\ i \in 1 .. Len(b) /\ a[i] = b[i]
    BY <1>4, <1>5
  <2>2. i + 1 \in 1 .. Len(a) + 1 /\ i + 1 \in 1 .. Len(b) + 1 /\ i \in 1 .. k
    BY <1>4, <1>5, <2>1
  <2>3. p \in Bytes /\ q \in Bytes /\ Before(p, q)
    BY <1>6, <1>7, <1>9, <2>2
  <2>4. Cat(f[i], x) = Cat(c, p) /\ Cat(g[i], y) = Cat(c, q)
    BY <1>6, <1>7, <2>1
  <2>5. c \in Bytes
    BY <1>6, <2>1, CodedBytes
  <2> HIDE DEF p, q, c
  <2>6. Before(Cat(c, p), Cat(c, q))
    BY <2>3, <2>5, BeforeFront
  <2> QED
    BY <2>2, <2>4, <2>6
<1>10. k \in Nat \ {0}
  BY <1>4
<1> HIDE DEF S
<1>11. \A i \in 1 .. k : i \in S
  BY <1>8, <1>9, <1>10, Descent
<1>12. 1 \in S
  BY <1>4, <1>11
<1> QED
  BY <1>1, <1>2, <1>12 DEF S

\* A component is a byte string.
LEMMA EscapeBytes == ASSUME NEW s \in Bytes PROVE Escape(s) \in Bytes
<1>1. PICK f : EscapesFrom(s, f) /\ Escape(s) = f[1]
  BY EscapeDefined
<1>2. 1 \in 1 .. Len(s) + 1
  BY BytesType
<1> QED
  BY <1>1, <1>2 DEF EscapesFrom

\* "This encoding is unambiguous and preserves raw byte ordering"
\* (table-layer.md): keys that start with a component of escape are ordered by
\* the strings encoded, then by what follows.
THEOREM ComponentOrder ==
    ASSUME NEW a \in Bytes, NEW b \in Bytes, NEW x \in Bytes, NEW y \in Bytes
    PROVE Before(Cat(Escape(a), x), Cat(Escape(b), y))
             <=> Before(a, b) \/ (a = b /\ Before(x, y))
<1> DEFINE u == Escape(a)
           v == Escape(b)
           X == Cat(u, x)
           Y == Cat(v, y)
<1>1. u \in Bytes /\ v \in Bytes
  BY EscapeBytes
<1>2. X \in Bytes /\ Y \in Bytes
  BY <1>1, BytesCat
<1>3. Before(a, b) => Before(X, Y)
  BY EscapeBefore
<1>4. Before(b, a) => Before(Y, X)
  BY EscapeBefore
<1>5. a = b /\ Before(x, y) => Before(X, Y)
  <2>1. Before(x, y) => Before(Cat(u, x), Cat(u, y))
    BY <1>1, BeforeFront
  <2> QED
    BY <2>1
<1>6. a = b /\ Before(y, x) => Before(Y, X)
  <2>1. Before(y, x) => Before(Cat(u, y), Cat(u, x))
    BY <1>1, BeforeFront
  <2> QED
    BY <2>1
<1>7. a = b /\ x = y => X = Y
  OBVIOUS
<1> HIDE DEF X, Y, u, v
<1>8. ~(Before(X, Y) /\ Before(Y, X)) /\ ~Before(X, X)
  BY <1>2, BeforeTotal
<1>9. (a # b => Before(a, b) \/ Before(b, a)) /\ (x # y => Before(x, y) \/ Before(y, x))
  BY BeforeTotal
<1>10. Before(X, Y) <=> Before(a, b) \/ (a = b /\ Before(x, y))
  BY <1>3, <1>4, <1>5, <1>6, <1>7, <1>8, <1>9
<1> QED
  BY <1>10 DEF X, Y, u, v

-----------------------------------------------------------------------------
(* Prefixes.                                                               *)

\* A string has a prefix when its bytes start with it.
LEMMA PrefixBytes ==
    ASSUME NEW s \in Bytes, NEW p \in Bytes
    PROVE HasPrefix(s, p) <=> Len(p) <= Len(s) /\ \A i \in 1 .. Len(p) : s[i] = p[i]
<1> DEFINE n == Len(p)
           v == SubSeq(s, 1, n)
<1>1. n \in Nat /\ Len(s) \in Nat
  BY BytesType
<1>2. HasPrefix(s, p) <=> n <= Len(s) /\ v = p
  BY DEF HasPrefix
<1>3. ASSUME n <= Len(s) PROVE v = p <=> \A i \in 1 .. n : s[i] = p[i]
  <2>1. Len(v) = n /\ \A i \in 1 .. n : v[i] = s[i]
    BY <1>1, <1>3 DEF Bytes
  <2>2. v \in Bytes
    BY <1>1, <1>3 DEF Bytes
  <2> HIDE DEF v
  <2>3. (\A i \in 1 .. n : v[i] = p[i]) => v = p
    BY <2>1, <2>2, BytesEqual
  <2> QED
    BY <2>1, <2>3
<1> HIDE DEF v
<1> QED
  BY <1>2, <1>3

\* A string with a prefix is the prefix and a rest.
LEMMA PrefixRest ==
    ASSUME NEW s \in Bytes, NEW p \in Bytes, HasPrefix(s, p)
    PROVE \E x \in Bytes : s = Cat(p, x)
<1> DEFINE n == Len(p)
           m == Len(s)
           x == SubSeq(s, n + 1, m)
           y == Cat(p, x)
<1>1. n \in Nat /\ m \in Nat /\ n <= m /\ \A i \in 1 .. n : s[i] = p[i]
  BY BytesType, PrefixBytes
<1>2. x \in Bytes /\ Len(x) = m - n /\ \A i \in 1 .. m - n : x[i] = s[n + i]
  <2>1. \A i \in n + 1 .. m : s[i] \in Byte
    BY <1>1, BytesType
  <2>2. x \in Seq(Byte)
    BY <1>1, <2>1 DEF Bytes
  <2>3. Len(x) = m - n
    BY <1>1 DEF Bytes
  <2>4. ASSUME NEW i \in 1 .. m - n PROVE x[i] = s[n + i]
    BY <1>1 DEF Bytes
  <2> QED
    BY <2>2, <2>3, <2>4 DEF Bytes
<1> HIDE DEF x
<1>3. /\ y \in Bytes /\ Len(y) = n + Len(x)
      /\ \A i \in 1 .. n : y[i] = p[i]
      /\ \A i \in 1 .. Len(x) : y[n + i] = x[i]
  BY <1>2, BytesCat, Zenon
<1>4. Len(y) = m
  BY <1>1, <1>2, <1>3
<1>5. ASSUME NEW i \in 1 .. m PROVE s[i] = y[i]
  <2>1. CASE i \in 1 .. n
    BY <1>1, <1>3, <2>1
  <2>2. CASE i > n
    <3> DEFINE j == i - n
    <3>1. j \in 1 .. m - n /\ n + j = i
      BY <1>1, <2>2
    <3> HIDE DEF j
    <3> QED
      BY <1>2, <1>3, <3>1, Zenon
  <2> QED
    BY <1>1, <2>1, <2>2
<1> HIDE DEF y, n
<1>6. s = y
  BY <1>3, <1>4, <1>5, BytesEqual
<1> QED
  BY <1>2, <1>6 DEF y

\* prefixEnd, for a prefix with a byte below 255.
LEMMA PrefixEndIs ==
    ASSUME NEW p \in Bytes, \E i \in 1 .. Len(p) : p[i] # 255
    PROVE \E k \in 1 .. Len(p) :
             /\ p[k] # 255 /\ \A j \in k + 1 .. Len(p) : p[j] = 255
             /\ PrefixEnd(p) \in Bytes /\ Len(PrefixEnd(p)) = k
             /\ PrefixEnd(p)[k] = p[k] + 1
             /\ \A j \in 1 .. k - 1 : PrefixEnd(p)[j] = p[j]
<1> DEFINE I == {i \in 1 .. Len(p) : p[i] # 255}
           k == Max(I)
           q == SubSeq(p, 1, k)
           r == [q EXCEPT ![k] = @ + 1]
<1>1. Len(p) \in Nat /\ I # {} /\ I \subseteq 1 .. Len(p)
  BY BytesType
<1>2. \E i \in I : \A j \in I : i >= j
  <2> DEFINE T == {Len(p) - i : i \in I}
  <2>1. T \in SUBSET Nat /\ T # {}
    BY <1>1
  <2>2. PICK t \in T : \A u \in T : t <= u
    BY <2>1, LeastNat, Zenon
  <2>3. PICK i \in I : t = Len(p) - i
    BY <2>2
  <2>4. ASSUME NEW j \in I PROVE i >= j
    <3>1. t <= Len(p) - j
      BY <2>2
    <3>2. i \in Int /\ j \in Int
      BY <1>1
    <3> QED
      BY <1>1, <2>3, <3>1, <3>2
  <2> QED
    BY <2>4, Zenon
<1>3. k \in I /\ \A j \in I : k >= j
  <2> HIDE DEF I
  <2> QED
    BY <1>2, Zenon DEF Max
<1>4. PrefixEnd(p) = r
  <2>1. DOMAIN p = 1 .. Len(p)
    BY DEF Bytes
  <2> QED
    BY <1>1, <2>1, Zenon DEF PrefixEnd
<1> HIDE DEF k
<1>5. k \in 1 .. Len(p) /\ p[k] # 255
  BY <1>3
<1>6. ASSUME NEW j \in k + 1 .. Len(p) PROVE p[j] = 255
  <2>1. j \in 1 .. Len(p) /\ ~(k >= j)
    BY <1>1, <1>5
  <2> QED
    BY <1>3, <2>1
<1>7. q \in Seq(Byte) /\ Len(q) = k /\ \A j \in 1 .. k : q[j] = p[j]
  BY <1>1, <1>5 DEF Bytes
<1>8. p[k] + 1 \in Byte
  <2>1. p[k] \in Byte
    BY <1>5, BytesType
  <2>2. \A x \in Byte : x # 255 => x + 1 \in Byte
    BY DEF Byte
  <2> QED
    BY <1>5, <2>1, <2>2
<1> HIDE DEF q
<1>9. /\ r \in Bytes /\ Len(r) = k /\ r[k] = p[k] + 1
      /\ \A j \in 1 .. k - 1 : r[j] = p[j]
  <2>1. k \in 1 .. Len(q) /\ q[k] = p[k] /\ k \in Nat
    BY <1>5, <1>7
  <2>2. r = [q EXCEPT ![k] = p[k] + 1]
    BY <2>1
  <2>3. r \in Seq(Byte) /\ Len(r) = Len(q)
    BY <1>7, <1>8, <2>1, <2>2
  <2>4. DOMAIN q = 1 .. k
    BY <1>7
  <2> QED
    BY <1>7, <2>1, <2>2, <2>3, <2>4 DEF Bytes
<1> QED
  BY <1>4, <1>5, <1>6, <1>9

\* A prefix scan is exact: the strings from the prefix up to prefixEnd, without
\* prefixEnd itself, are those that have the prefix (prefixEnd in table.go,
\* used by tableRowsLocked, loadIndexesLocked and FindByIndex).
THEOREM PrefixScanExact ==
    ASSUME NEW p \in Bytes, \E i \in 1 .. Len(p) : p[i] # 255, NEW s \in Bytes
    PROVE HasPrefix(s, p) <=> ~Before(s, p) /\ Before(s, PrefixEnd(p))
<1> DEFINE e == PrefixEnd(p)
<1>1. PICK k \in 1 .. Len(p) :
         /\ p[k] # 255 /\ \A j \in k + 1 .. Len(p) : p[j] = 255
         /\ e \in Bytes /\ Len(e) = k
         /\ e[k] = p[k] + 1
         /\ \A j \in 1 .. k - 1 : e[j] = p[j]
  BY PrefixEndIs
<1> HIDE DEF e
<1>2. /\ Len(p) \in Nat /\ Len(s) \in Nat
      /\ \A i \in 1 .. Len(p) : p[i] \in Int
      /\ \A i \in 1 .. Len(s) : s[i] \in Int
      /\ \A i \in 1 .. k : e[i] \in Int
  <2>1. \A i \in 1 .. Len(e) : e[i] \in Int
    BY <1>1, BytesInt
  <2> QED
    BY <1>1, <2>1, BytesInt
<1>3. ASSUME HasPrefix(s, p) PROVE ~Before(s, p) /\ Before(s, e)
  <2>1. Len(p) <= Len(s) /\ \A i \in 1 .. Len(p) : s[i] = p[i]
    BY <1>3, PrefixBytes
  <2>2. ~Before(s, p)
    <3> SUFFICES ASSUME NEW i \in Nat, BeforeAt(s, p, i) PROVE FALSE
      BY BeforeIff
    <3>1. i \in 1 .. Len(p) /\ (i > Len(s) \/ s[i] < p[i])
      BY DEF BeforeAt
    <3>2. i <= Len(s) /\ s[i] = p[i] /\ p[i] \in Int
      BY <1>2, <2>1, <3>1
    <3> QED
      BY <1>2, <3>1, <3>2
  <2>3. BeforeAt(s, e, k)
    <3>1. k \in 1 .. Len(e)
      BY <1>1
    <3>2. \A j \in 1 .. k - 1 : j <= Len(s) /\ s[j] = e[j]
      BY <1>1, <1>2, <2>1
    <3>3. s[k] < e[k]
      BY <1>1, <1>2, <2>1
    <3> QED
      BY <3>1, <3>2, <3>3 DEF BeforeAt
  <2>4. k \in Nat
    OBVIOUS
  <2> QED
    BY <1>1, <2>2, <2>3, <2>4, BeforeAtIs
<1>4. ASSUME ~Before(s, p), Before(s, e), ~HasPrefix(s, p) PROVE FALSE
  <2> DEFINE D == {i \in 1 .. Len(p) : i > Len(s) \/ s[i] # p[i]}
  <2>1. D # {} /\ D \in SUBSET Nat
    <3>1. ~(Len(p) <= Len(s) /\ \A i \in 1 .. Len(p) : s[i] = p[i])
      BY <1>4, PrefixBytes
    <3>2. CASE Len(p) > Len(s)
      <4>1. Len(p) \in D
        BY <1>2, <3>2
      <4> QED
        BY <4>1
    <3> QED
      BY <1>2, <3>1, <3>2
  <2>2. PICK m \in D : \A j \in D : m <= j
    BY <2>1, LeastNat, Zenon
  <2>3. m \in 1 .. Len(p) /\ m \in Nat /\ (m > Len(s) \/ s[m] # p[m])
    BY <2>2
  <2>4. \A j \in 1 .. m - 1 : j <= Len(s) /\ s[j] = p[j]
    <3> SUFFICES ASSUME NEW j \in 1 .. m - 1 PROVE j <= Len(s) /\ s[j] = p[j]
      OBVIOUS
    <3>1. j \in 1 .. Len(p) /\ ~(m <= j)
      BY <1>2, <2>3
    <3>2. j \notin D
      BY <2>2, <3>1
    <3> QED
      BY <1>2, <3>1, <3>2
  <2> HIDE DEF D
  <2>5. m \in 1 .. Len(s) /\ p[m] < s[m]
    <3>1. ~BeforeAt(s, p, m)
      BY <1>4, <2>3, BeforeAtIs
    <3>2. ~(m > Len(s) \/ s[m] < p[m])
      BY <2>3, <2>4, <3>1 DEF BeforeAt
    <3>3. m \in 1 .. Len(s)
      BY <1>2, <2>3, <3>2
    <3>4. s[m] \in Int /\ p[m] \in Int
      BY <1>2, <2>3, <3>3
    <3> QED
      BY <2>3, <3>2, <3>3, <3>4
  <2>6. m <= k
    <3> SUFFICES ASSUME m > k PROVE FALSE
      BY <2>3
    <3>1. p[m] = 255
      BY <1>1, <2>3
    <3>2. s[m] \in Byte
      BY <2>5, BytesType
    <3>3. \A x \in Byte : ~(255 < x)
      BY DEF Byte
    <3> QED
      BY <2>5, <3>1, <3>2, <3>3
  <2>7. ~Before(e, s)
    BY <1>1, <1>4, BeforeTotal
  <2>8. \A j \in 1 .. m - 1 : j <= Len(e) /\ e[j] = s[j]
    BY <1>1, <2>3, <2>4, <2>6
  <2>9. ~(e[m] < s[m])
    <3>1. ~BeforeAt(e, s, m)
      BY <1>1, <2>3, <2>7, BeforeAtIs
    <3> QED
      BY <2>5, <2>8, <3>1 DEF BeforeAt
  <2>10. m = k
    <3> SUFFICES ASSUME m < k PROVE FALSE
      BY <2>3, <2>6
    <3>1. m \in 1 .. k - 1
      BY <2>3
    <3> QED
      BY <1>1, <2>5, <2>9, <3>1
  <2>11. s[k] = e[k]
    <3>1. s[k] \in Int /\ p[k] \in Int /\ e[k] \in Int
      BY <1>2, <2>5, <2>10
    <3> QED
      BY <1>1, <2>5, <2>9, <2>10, <3>1
  <2>12. PICK i \in Nat : BeforeAt(s, e, i)
    BY <1>1, <1>4, BeforeIff
  <2>13. i \in 1 .. k /\ (i > Len(s) \/ s[i] < e[i])
    BY <1>1, <2>12 DEF BeforeAt
  <2>14. i <= Len(s) /\ s[i] = e[i] /\ e[i] \in Int
    <3>1. CASE i = k
      BY <1>2, <2>5, <2>10, <2>11, <2>13, <3>1
    <3>2. CASE i \in 1 .. k - 1
      BY <1>2, <2>4, <2>8, <2>10, <2>13, <3>2
    <3> QED
      BY <2>13, <3>1, <3>2
  <2> QED
    BY <1>2, <2>13, <2>14
<1> QED
  BY <1>3, <1>4 DEF e

\* The first component of a key, and what follows it, are told apart.
LEMMA ComponentApart ==
    ASSUME NEW o \in Bytes, NEW a \in Bytes, NEW b \in Bytes, NEW x \in Bytes, NEW y \in Bytes,
           Cat(Cat(o, Escape(a)), x) = Cat(Cat(o, Escape(b)), y)
    PROVE a = b /\ x = y
<1> DEFINE u == Escape(a)
           v == Escape(b)
           X == Cat(u, x)
           Y == Cat(v, y)
<1>1. u \in Bytes /\ v \in Bytes
  BY EscapeBytes
<1> HIDE DEF u, v
<1>2. Cat(Cat(o, u), x) = Cat(o, X) /\ Cat(Cat(o, v), y) = Cat(o, Y)
  BY <1>1, CatAssociative
<1>3. X \in Bytes /\ Y \in Bytes
  BY <1>1, BytesCat
<1>4. Cat(o, X) = Cat(o, Y)
  BY <1>2, Zenon DEF u, v
<1> HIDE DEF X, Y
<1>5. X = Y
  BY <1>3, <1>4, CancelFront
<1> QED
  BY <1>5, EscapeApart DEF X, Y, u, v

\* "Different tables cannot overlap" (table-layer.md): no key starts with the
\* row prefixes of two tables, the metadata prefixes of two tables, or the
\* entry prefixes of two indexes.
THEOREM TablesDisjoint ==
    ASSUME NEW a \in Bytes, NEW b \in Bytes, NEW i \in Bytes, NEW j \in Bytes, NEW k \in Bytes
    PROVE /\ HasPrefix(k, RowPrefix(a)) /\ HasPrefix(k, RowPrefix(b)) => a = b
          /\ HasPrefix(k, IndexMetadataPrefix(a)) /\ HasPrefix(k, IndexMetadataPrefix(b)) => a = b
          /\ HasPrefix(k, IndexEntryPrefix(a, i)) /\ HasPrefix(k, IndexEntryPrefix(b, j))
                => a = b /\ i = j
<1> DEFINE start(t, n) == Cat(<<t>>, Escape(n))
<1>1. ASSUME NEW t \in Byte PROVE <<t>> \in Bytes /\ \A n \in Bytes : start(t, n) \in Bytes
  <2>1. <<t>> \in Bytes
    BY ShortBytes
  <2>2. ASSUME NEW n \in Bytes PROVE start(t, n) \in Bytes
    BY <2>1, EscapeBytes, BytesCat
  <2> QED
    BY <2>1, <2>2
<1>2. ASSUME NEW t \in Byte, HasPrefix(k, start(t, a)), HasPrefix(k, start(t, b))
      PROVE a = b
  <2> DEFINE o == <<t>>
             p == start(t, a)
             q == start(t, b)
  <2>1. o \in Bytes /\ p \in Bytes /\ q \in Bytes
    BY <1>1
  <2>2. HasPrefix(k, p) /\ HasPrefix(k, q)
    BY <1>2
  <2>3. p = Cat(o, Escape(a)) /\ q = Cat(o, Escape(b))
    OBVIOUS
  <2> HIDE DEF o, p, q
  <2>4. PICK x \in Bytes : k = Cat(p, x)
    BY <2>1, <2>2, PrefixRest
  <2>5. PICK y \in Bytes : k = Cat(q, y)
    BY <2>1, <2>2, PrefixRest
  <2>6. Cat(Cat(o, Escape(a)), x) = Cat(Cat(o, Escape(b)), y)
    BY <2>3, <2>4, <2>5
  <2> QED
    BY <2>1, <2>6, ComponentApart
<1>3. ASSUME HasPrefix(k, IndexEntryPrefix(a, i)), HasPrefix(k, IndexEntryPrefix(b, j))
      PROVE a = b /\ i = j
  <2> DEFINE o == <<48>>
             p == IndexEntryPrefix(a, i)
             q == IndexEntryPrefix(b, j)
             u == Cat(o, Escape(a))
             v == Cat(o, Escape(b))
             ei == Escape(i)
             ej == Escape(j)
  <2>1. 48 \in Byte
    BY DEF Byte
  <2>2. o \in Bytes /\ u \in Bytes /\ v \in Bytes /\ ei \in Bytes /\ ej \in Bytes
    BY <1>1, <2>1, EscapeBytes
  <2>3. p = Cat(u, ei) /\ q = Cat(v, ej)
    BY DEF IndexEntryPrefix, Cat
  <2>4. HasPrefix(k, p) /\ HasPrefix(k, q)
    BY <1>3
  <2> HIDE DEF p, q, u, v, ei, ej, o
  <2>5. p \in Bytes /\ q \in Bytes
    BY <2>2, <2>3, BytesCat
  <2>6. PICK x \in Bytes : k = Cat(p, x)
    BY <2>4, <2>5, PrefixRest
  <2>7. PICK y \in Bytes : k = Cat(q, y)
    BY <2>4, <2>5, PrefixRest
  <2> DEFINE X == Cat(ei, x)
             Y == Cat(ej, y)
  <2>8. Cat(p, x) = Cat(u, X) /\ Cat(q, y) = Cat(v, Y) /\ X \in Bytes /\ Y \in Bytes
    BY <2>2, <2>3, CatAssociative, BytesCat
  <2> HIDE DEF X, Y
  <2>9. Cat(Cat(o, Escape(a)), X) = Cat(Cat(o, Escape(b)), Y)
    BY <2>6, <2>7, <2>8, Zenon DEF u, v
  <2>10. a = b /\ X = Y
    <3>1. o \in Bytes /\ X \in Bytes /\ Y \in Bytes
      BY <2>2, <2>8
    <3> QED
      BY <2>9, <3>1, ComponentApart
  <2>11. i = j
    BY <2>10, EscapeApart DEF X, Y, ei, ej
  <2> QED
    BY <2>10, <2>11
<1>4. 32 \in Byte /\ 17 \in Byte
  BY DEF Byte
<1>5. RowPrefix(a) = start(32, a) /\ RowPrefix(b) = start(32, b)
  BY DEF RowPrefix, Cat
<1>6. IndexMetadataPrefix(a) = start(17, a) /\ IndexMetadataPrefix(b) = start(17, b)
  BY DEF IndexMetadataPrefix, Cat
<1> HIDE DEF start
<1> QED
  BY <1>2, <1>3, <1>4, <1>5, <1>6

-----------------------------------------------------------------------------
(* Decoding a component.                                                   *)

\* What decodeEscapedComponent does at byte i: reject it, or add a byte to
\* what it reads from another place on.
Rejects(s, i) == s[i] = 0 /\ (i = Len(s) \/ s[i + 1] # 255)
Following(s, i) == IF s[i] = 0 THEN i + 2 ELSE i + 1
Joined(b, rest) == IF rest = Invalid THEN Invalid ELSE Cat(<<b>>, rest)

\* f[i] is what decodeEscapedComponent reads from byte i of s on.
UnescapesFrom(s, f) ==
    /\ f[Len(s) + 1] = << >>
    /\ \A i \in 1 .. Len(s) :
          f[i] = IF Rejects(s, i) THEN Invalid ELSE Joined(s[i], f[Following(s, i)])

\* decodeEscapedComponent is well defined.
LEMMA UnescapeDefined ==
    ASSUME NEW s \in Bytes
    PROVE \E f : UnescapesFrom(s, f) /\ Unescape(s) = f[1]
<1> DEFINE D == 1 .. Len(s) + 1
           T == Bytes \cup {Invalid}
           value(i, f) == IF i > Len(s) THEN << >>
                          ELSE IF Rejects(s, i) THEN Invalid
                          ELSE Joined(s[i], f[Following(s, i)])
           P(f) == f = [i \in D |-> value(i, f)]
           from == CHOOSE f : P(f)
           n == Len(s) + 1
           rank == [i \in D |-> Len(s) + 1 - i]
           step == [i \in D |-> [f \in [D -> T] |-> value(i, f)]]
<1>1. Len(s) \in Nat /\ Len(s) + 1 \in D /\ \A i \in 1 .. Len(s) : s[i] \in Byte /\ i + 1 \in D
  BY DEF Bytes
<1>2. ASSUME NEW i \in D, ~(i > Len(s)), ~Rejects(s, i)
      PROVE s[i] \in Byte /\ Following(s, i) \in D /\ Following(s, i) > i
  <2>1. i \in 1 .. Len(s) /\ s[i] \in Byte
    BY <1>1, <1>2
  <2>2. CASE s[i] = 0
    <3>1. i # Len(s)
      BY <1>2, <2>2 DEF Rejects
    <3> QED
      BY <1>1, <2>1, <2>2, <3>1 DEF Following
  <2>3. CASE s[i] # 0
    BY <1>1, <2>1, <2>3 DEF Following
  <2> QED
    BY <2>2, <2>3
<1>3. << >> \in Bytes /\ Invalid \in T
  BY DEF Bytes
<1>4. ASSUME NEW i \in D, NEW f \in [D -> T] PROVE value(i, f) \in T
  <2> SUFFICES ASSUME ~(i > Len(s)), ~Rejects(s, i) PROVE Joined(s[i], f[Following(s, i)]) \in T
    BY <1>3
  <2> DEFINE b == s[i]
             rest == f[Following(s, i)]
  <2>1. b \in Byte /\ rest \in T
    BY <1>2
  <2> HIDE DEF b, rest
  <2>2. CASE rest \in Bytes
    <3>1. <<b>> \in Bytes
      BY <2>1, ShortBytes
    <3>2. Cat(<<b>>, rest) \in Bytes
      BY <2>2, <3>1, BytesCat
    <3> QED
      BY <1>3, <3>2 DEF Joined, b, rest
  <2> QED
    BY <1>3, <2>1, <2>2 DEF Joined, b, rest
<1>5. \E f \in [D -> T] : \A i \in D : f[i] = step[i][f]
  <2>1. rank \in [D -> Nat] /\ \A i \in D : rank[i] < n
    BY <1>1
  <2>2. step \in [D -> [[D -> T] -> T]]
    <3> HIDE DEF value, T, D
    <3> QED
      BY <1>4
  <2>3. ASSUME NEW i \in D, NEW f \in [D -> T], NEW g \in [D -> T],
               \A j \in D : rank[j] < rank[i] => f[j] = g[j]
        PROVE step[i][f] = step[i][g]
    <3>1. ASSUME ~(i > Len(s)), ~Rejects(s, i)
          PROVE f[Following(s, i)] = g[Following(s, i)]
      <4> DEFINE k == Following(s, i)
      <4>1. k \in D /\ k > i
        BY <1>2, <3>1
      <4> HIDE DEF k
      <4>2. rank[k] < rank[i]
        BY <1>1, <4>1
      <4>3. f[k] = g[k]
        BY <2>3, <4>1, <4>2
      <4> QED
        BY <4>3 DEF k
    <3>2. value(i, f) = value(i, g)
      BY <3>1
    <3> HIDE DEF value, D, T
    <3> QED
      BY <3>2
  <2>4. n \in Nat /\ T # {}
    BY <1>1
  <2>5. Ranked(D, T, rank, step)
    <3> HIDE DEF D, T, rank, step
    <3> QED
      BY <2>1, <2>2, <2>3, Zenon DEF Ranked
  <2> HIDE DEF D, T, rank, step, n
  <2> QED
    BY <2>1, <2>4, <2>5, Recursion
<1>6. PICK g \in [D -> T] : \A i \in D : g[i] = step[i][g]
  BY <1>5
<1>7. P(g)
  <2> HIDE DEF value, T, D
  <2> QED
    BY <1>6
<1>8. P(from)
  <2> HIDE DEF P
  <2> QED
    BY <1>7
<1>9. Unescape(s) = from[1]
  BY DEF Unescape, Rejects, Following, Joined, Cat
<1>10. UnescapesFrom(s, from)
  <2> HIDE DEF from
  <2>1. \A i \in D : from[i] = value(i, from)
    <3> HIDE DEF value, D
    <3> QED
      BY <1>8
  <2>2. Len(s) + 1 > Len(s) /\ \A i \in 1 .. Len(s) : i \in D /\ ~(i > Len(s))
    BY <1>1
  <2> QED
    BY <1>1, <2>1, <2>2 DEF UnescapesFrom
<1> QED
  BY <1>9, <1>10, Zenon

\* What escape appends for a byte starts with the byte; 255 follows a zero.
LEMMA CodedStart ==
    ASSUME NEW b \in Byte
    PROVE /\ Len(Coded(b)) = IF b = 0 THEN 2 ELSE 1
          /\ Coded(b)[1] = b
          /\ b = 0 => Coded(b)[2] = 255
BY DEF Coded

\* f[i] is how f[1] ends.
EndsWith(f, i) ==
    /\ Len(f[i]) \in Nat /\ 2 <= Len(f[i]) /\ Len(f[i]) <= Len(f[1])
    /\ \A j \in 1 .. Len(f[i]) : f[1][Len(f[1]) - Len(f[i]) + j] = f[i][j]

\* The bytes escape appends from byte i of s on are the last ones it appends
\* for s, and at least the two that end the component.
LEMMA EscapeSuffix ==
    ASSUME NEW s \in Bytes, NEW f, EscapesFrom(s, f)
    PROVE \A i \in 1 .. Len(s) + 1 : EndsWith(f, i)
<1> DEFINE n == Len(s) + 1
           L(i) == Len(f[i])
           Ends(i) == /\ L(i) <= L(1)
                      /\ \A j \in 1 .. L(i) : f[1][L(1) - L(i) + j] = f[i][j]
<1>1. Len(s) \in Nat /\ \A i \in 1 .. Len(s) : s[i] \in Byte /\ i + 1 \in 1 .. n /\ i \in 1 .. n
  BY BytesType
<1>2. /\ \A i \in 1 .. n : f[i] \in Bytes
      /\ f[n] = End /\ \A i \in 1 .. Len(s) : f[i] = Cat(Coded(s[i]), f[i + 1])
  BY DEF EscapesFrom
<1>3. \A i \in 1 .. n : L(i) \in Nat
  BY <1>2, BytesType
<1>4. ASSUME NEW i \in 1 .. Len(s)
      PROVE /\ Len(Coded(s[i])) \in Nat
            /\ L(i) = Len(Coded(s[i])) + L(i + 1)
            /\ \A j \in 1 .. L(i + 1) : f[i][Len(Coded(s[i])) + j] = f[i + 1][j]
  <2> DEFINE c == Coded(s[i])
             t == f[i + 1]
  <2>1. c \in Bytes /\ t \in Bytes /\ f[i] = Cat(c, t)
    BY <1>1, <1>2, CodedBytes
  <2> HIDE DEF c, t
  <2>2. Len(c) \in Nat /\ Len(Cat(c, t)) = Len(c) + Len(t)
    BY <2>1, BytesCat, BytesType
  <2>3. \A j \in 1 .. Len(t) : Cat(c, t)[Len(c) + j] = t[j]
    BY <2>1, BytesCat
  <2> QED
    BY <2>1, <2>2, <2>3 DEF c, t
<1> HIDE DEF L
<1> DEFINE S == {i \in 1 .. n : 2 <= L(i)}
<1>5. n \in S
  <2>1. Len(End) = 2
    BY DEF End
  <2>2. L(n) = 2 /\ n \in 1 .. n
    BY <1>1, <1>2, <2>1 DEF L
  <2> QED
    BY <2>2
<1>6. ASSUME NEW i \in 1 .. n - 1, i + 1 \in S PROVE i \in S
  <2>1. i \in 1 .. Len(s) /\ i \in 1 .. n /\ i + 1 \in 1 .. n
    BY <1>1
  <2>2. L(i + 1) \in Nat /\ 2 <= L(i + 1)
    BY <1>3, <1>6, <2>1
  <2>3. Len(Coded(s[i])) \in Nat /\ L(i) = Len(Coded(s[i])) + L(i + 1)
    BY <1>4, <2>1
  <2> QED
    BY <2>1, <2>2, <2>3
<1>7. \A i \in 1 .. n : i \in S
  <2> HIDE DEF S
  <2>1. n \in Nat
    BY <1>1
  <2> HIDE DEF n
  <2> QED
    BY <1>5, <1>6, <2>1, Descent
<1> DEFINE R == {i \in 1 .. n : Ends(i)}
<1>8. 1 \in R
  <2>1. 1 \in 1 .. n /\ L(1) \in Nat
    BY <1>1, <1>3
  <2>2. \A j \in 1 .. L(1) : L(1) - L(1) + j = j
    BY <2>1
  <2> QED
    BY <2>1, <2>2
<1>9. ASSUME NEW i \in 1 .. n - 1, i \in R PROVE i + 1 \in R
  <2> DEFINE m == Len(Coded(s[i]))
  <2>1. i \in 1 .. Len(s) /\ i \in 1 .. n /\ i + 1 \in 1 .. n /\ 1 \in 1 .. n
    BY <1>1
  <2>2. /\ m \in Nat /\ L(i) = m + L(i + 1)
        /\ \A j \in 1 .. L(i + 1) : f[i][m + j] = f[i + 1][j]
    BY <1>4, <2>1
  <2>3. L(1) \in Nat /\ L(i) \in Nat /\ L(i + 1) \in Nat
    BY <1>3, <2>1
  <2>4. L(i) <= L(1) /\ \A j \in 1 .. L(i) : f[1][L(1) - L(i) + j] = f[i][j]
    BY <1>9
  <2> HIDE DEF m
  <2>5. L(i + 1) <= L(1)
    BY <2>2, <2>3, <2>4
  <2>6. ASSUME NEW j \in 1 .. L(i + 1) PROVE f[1][L(1) - L(i + 1) + j] = f[i + 1][j]
    <3>1. m + j \in 1 .. L(i) /\ L(1) - L(i) + (m + j) = L(1) - L(i + 1) + j
      BY <2>2, <2>3
    <3> QED
      BY <2>2, <2>4, <3>1
  <2> QED
    BY <2>1, <2>5, <2>6
<1>10. \A i \in 1 .. n : i \in R
  <2> HIDE DEF R
  <2>1. n \in Nat
    BY <1>1
  <2> HIDE DEF n
  <2> QED
    BY <1>8, <1>9, <2>1, Ascent
<1> QED
  BY <1>3, <1>7, <1>10, Zenon DEF L, EndsWith

\* Byte i of s is at place q[i] of e, with 255 after it if it is zero.
Places(s, e, q) ==
    /\ q \in [1 .. Len(s) + 1 -> Nat \ {0}]
    /\ q[1] = 1 /\ q[Len(s) + 1] = Len(e) - 1
    /\ \A i \in 1 .. Len(s) :
          /\ q[i + 1] = q[i] + (IF s[i] = 0 THEN 2 ELSE 1)
          /\ q[i + 1] <= Len(e) - 1
          /\ e[q[i]] = s[i] /\ (s[i] = 0 => e[q[i] + 1] = 255)

\* What each byte of s became in the component, and how it ends.
LEMMA EscapePlaces ==
    ASSUME NEW s \in Bytes
    PROVE LET e == Escape(s) IN
          /\ e \in Bytes /\ Len(e) >= 2 /\ e[Len(e) - 1] = 0 /\ e[Len(e)] = 0
          /\ \E q : Places(s, e, q)
<1> PICK f : EscapesFrom(s, f) /\ Escape(s) = f[1]
  BY EscapeDefined
<1> DEFINE n == Len(s) + 1
           e == f[1]
           L(i) == Len(f[i])
           q == [i \in 1 .. n |-> Len(e) - L(i) + 1]
<1>1. /\ Len(s) \in Nat /\ 1 \in 1 .. n /\ n \in 1 .. n
      /\ \A i \in 1 .. Len(s) : s[i] \in Byte /\ i + 1 \in 1 .. n /\ i \in 1 .. n
  BY BytesType
<1>2. /\ \A i \in 1 .. n : f[i] \in Bytes
      /\ f[n] = End /\ \A i \in 1 .. Len(s) : f[i] = Cat(Coded(s[i]), f[i + 1])
  BY DEF EscapesFrom
<1>3. \A i \in 1 .. n : /\ L(i) \in Nat /\ 2 <= L(i) /\ L(i) <= L(1)
                        /\ \A j \in 1 .. L(i) : e[L(1) - L(i) + j] = f[i][j]
  <2>1. \A i \in 1 .. n : EndsWith(f, i)
    BY EscapeSuffix
  <2> QED
    BY <2>1, Zenon DEF EndsWith
<1>4. Len(e) = L(1) /\ e \in Bytes /\ Len(e) \in Nat /\ Len(e) >= 2
  BY <1>1, <1>2, <1>3, Zenon
<1>5. L(n) = 2 /\ f[n][1] = 0 /\ f[n][2] = 0
  BY <1>2 DEF End
<1>6. ASSUME NEW i \in 1 .. Len(s)
      PROVE /\ L(i) = (IF s[i] = 0 THEN 2 ELSE 1) + L(i + 1)
            /\ f[i][1] = s[i] /\ (s[i] = 0 => f[i][2] = 255)
  <2> DEFINE b == s[i]
             c == Coded(b)
             t == f[i + 1]
  <2>1. b \in Byte /\ t \in Bytes /\ f[i] = Cat(c, t)
    BY <1>1, <1>2
  <2>2. c \in Bytes
    BY <2>1, CodedBytes
  <2>3. Len(c) = (IF b = 0 THEN 2 ELSE 1) /\ c[1] = b /\ (b = 0 => c[2] = 255)
    <3> HIDE DEF b
    <3> QED
      BY <2>1, CodedStart
  <2> HIDE DEF b, c, t
  <2>4. Len(Cat(c, t)) = Len(c) + Len(t) /\ \A j \in 1 .. Len(c) : Cat(c, t)[j] = c[j]
    BY <2>1, <2>2, BytesCat
  <2>5. Cat(c, t)[1] = b /\ (b = 0 => Cat(c, t)[2] = 255)
    BY <2>3, <2>4
  <2> QED
    BY <2>1, <2>3, <2>4, <2>5 DEF b, t
<1> HIDE DEF L, e
<1>7. e[Len(e) - 1] = 0 /\ e[Len(e)] = 0
  <2>1. 1 \in 1 .. L(n) /\ 2 \in 1 .. L(n)
    BY <1>5
  <2>2. e[L(1) - L(n) + 1] = 0 /\ e[L(1) - L(n) + 2] = 0
    BY <1>1, <1>3, <1>5, <2>1, Zenon
  <2>3. L(1) - L(n) + 1 = Len(e) - 1 /\ L(1) - L(n) + 2 = Len(e)
    BY <1>4, <1>5
  <2> QED
    BY <2>2, <2>3
<1>8. q \in [1 .. n -> Nat \ {0}]
  <2>1. \A i \in 1 .. n : Len(e) - L(i) + 1 \in Nat \ {0}
    BY <1>3, <1>4
  <2> QED
    BY <2>1
<1>9. q[1] = 1 /\ q[n] = Len(e) - 1
  <2>1. q[1] = Len(e) - L(1) + 1 /\ q[n] = Len(e) - L(n) + 1
    BY <1>1
  <2> QED
    BY <1>4, <1>5, <2>1
<1>10. ASSUME NEW i \in 1 .. Len(s)
       PROVE /\ q[i + 1] = q[i] + (IF s[i] = 0 THEN 2 ELSE 1)
             /\ q[i + 1] <= Len(e) - 1
             /\ e[q[i]] = s[i] /\ (s[i] = 0 => e[q[i] + 1] = 255)
  <2>1. q[i] = Len(e) - L(i) + 1 /\ q[i + 1] = Len(e) - L(i + 1) + 1
    BY <1>1
  <2>2. i \in 1 .. n /\ i + 1 \in 1 .. n
    BY <1>1
  <2>3. L(i) \in Nat /\ L(i + 1) \in Nat /\ 2 <= L(i) /\ 2 <= L(i + 1)
    BY <1>3, <2>2
  <2>4. \A j \in 1 .. L(i) : e[L(1) - L(i) + j] = f[i][j]
    BY <1>3, <2>2
  <2>5. L(1) - L(i) + 1 = q[i] /\ L(1) - L(i) + 2 = q[i] + 1 /\ 1 \in 1 .. L(i) /\ 2 \in 1 .. L(i)
    BY <1>4, <2>1, <2>3
  <2>6. e[q[i]] = f[i][1] /\ e[q[i] + 1] = f[i][2]
    BY <2>4, <2>5
  <2>7. q[i + 1] = q[i] + (IF s[i] = 0 THEN 2 ELSE 1)
    <3>1. L(i) = (IF s[i] = 0 THEN 2 ELSE 1) + L(i + 1)
      BY <1>6
    <3> HIDE DEF q
    <3> QED
      BY <1>4, <2>1, <2>3, <3>1
  <2>8. q[i + 1] <= Len(e) - 1
    BY <1>4, <2>1, <2>3
  <2> QED
    BY <1>6, <2>6, <2>7, <2>8
<1> HIDE DEF q
<1>11. Places(s, e, q)
  BY <1>8, <1>9, <1>10 DEF Places
<1> QED
  BY <1>4, <1>7, <1>11 DEF e

\* The end of a string, a byte at a time.
LEMMA RestUnfold ==
    ASSUME NEW s \in Bytes
    PROVE /\ SubSeq(s, Len(s) + 1, Len(s)) = << >> /\ SubSeq(s, 1, Len(s)) = s
          /\ \A i \in 1 .. Len(s) + 1 : SubSeq(s, i, Len(s)) \in Bytes
          /\ \A i \in 1 .. Len(s) :
                SubSeq(s, i, Len(s)) = Cat(<<s[i]>>, SubSeq(s, i + 1, Len(s)))
<1> DEFINE n == Len(s)
           R(i) == SubSeq(s, i, n)
<1>1. n \in Nat /\ \A i \in 1 .. n : s[i] \in Byte
  BY BytesType
<1>2. R(n + 1) = << >> /\ R(1) = s
  <2>1. R(n + 1) = << >>
    BY <1>1 DEF Bytes
  <2>2. R(1) = s
    BY <1>1 DEF Bytes
  <2> QED
    BY <2>1, <2>2
<1>3. ASSUME NEW i \in 1 .. n + 1
      PROVE /\ R(i) \in Bytes /\ Len(R(i)) = n + 1 - i
            /\ \A j \in 1 .. n + 1 - i : R(i)[j] = s[i + j - 1]
  <2>1. R(i) \in Seq(Byte)
    BY <1>1 DEF Bytes
  <2>2. Len(R(i)) = n + 1 - i
    BY <1>1 DEF Bytes
  <2>3. ASSUME NEW j \in 1 .. n + 1 - i PROVE R(i)[j] = s[i + j - 1]
    BY <1>1 DEF Bytes
  <2> QED
    BY <2>1, <2>2, <2>3 DEF Bytes
<1> HIDE DEF R
<1>4. ASSUME NEW i \in 1 .. n PROVE R(i) = Cat(<<s[i]>>, R(i + 1))
  <2> DEFINE o == <<s[i]>>
             t == R(i + 1)
             u == R(i)
             v == Cat(o, t)
  <2>1. o \in Bytes /\ Len(o) = 1 /\ o[1] = s[i]
    BY <1>1, ShortBytes
  <2>2. i \in 1 .. n + 1 /\ i + 1 \in 1 .. n + 1 /\ n + 1 - (i + 1) = n - i
    BY <1>1
  <2>3. t \in Bytes /\ Len(t) = n - i /\ \A j \in 1 .. n - i : t[j] = s[(i + 1) + j - 1]
    BY <1>3, <2>2, Zenon
  <2>4. u \in Bytes /\ Len(u) = n + 1 - i /\ \A j \in 1 .. n + 1 - i : u[j] = s[i + j - 1]
    BY <1>3, <2>2
  <2> HIDE DEF o, t, u
  <2>5. /\ v \in Bytes /\ Len(v) = Len(o) + Len(t)
        /\ \A j \in 1 .. Len(o) : v[j] = o[j]
        /\ \A j \in 1 .. Len(t) : v[Len(o) + j] = t[j]
    BY <2>1, <2>3, BytesCat, Zenon
  <2>6. Len(u) = Len(v)
    BY <1>1, <2>1, <2>3, <2>4, <2>5
  <2>7. ASSUME NEW j \in 1 .. Len(u) PROVE u[j] = v[j]
    <3>1. CASE j = 1
      <4>1. u[1] = s[i] /\ v[1] = s[i]
        BY <1>1, <2>1, <2>4, <2>5
      <4> QED
        BY <3>1, <4>1
    <3>2. CASE j # 1
      <4> DEFINE l == j - 1
      <4>1. l \in 1 .. n - i /\ j = 1 + l /\ j \in 1 .. n + 1 - i /\ i + j - 1 = (i + 1) + l - 1
        BY <1>1, <2>4, <3>2
      <4> HIDE DEF l
      <4>2. v[Len(o) + l] = t[l]
        BY <2>3, <2>5, <4>1
      <4>3. t[l] = s[(i + 1) + l - 1] /\ u[j] = s[i + j - 1]
        BY <2>3, <2>4, <4>1
      <4> QED
        BY <2>1, <4>1, <4>2, <4>3
    <3> QED
      BY <3>1, <3>2
  <2> HIDE DEF v
  <2>8. u = v
    BY <2>4, <2>5, <2>6, <2>7, BytesEqual
  <2> QED
    BY <2>8 DEF u, v, o, t
<1> QED
  BY <1>2, <1>3, <1>4 DEF R

\* An error is no byte string.
LEMMA InvalidApart == Invalid \notin Bytes
<1>1. Invalid[1] = -1 /\ Len(Invalid) = 1
  BY DEF Invalid
<1>2. -1 \notin Byte
  BY DEF Byte
<1> QED
  BY <1>1, <1>2, BytesType

\* decodeEscapedComponent inverts escape, on every string of bytes.
THEOREM DecodeInvertsEscape ==
    ASSUME NEW s \in Bytes PROVE DecodeEscapedComponent(Escape(s)) = s
<1> DEFINE e == Escape(s)
           n == Len(s)
           d == SubSeq(e, 1, Len(e) - 2)
           R(i) == SubSeq(s, i, n)
<1>1. e \in Bytes /\ Len(e) >= 2 /\ e[Len(e) - 1] = 0 /\ e[Len(e)] = 0
  BY EscapePlaces
<1>2. PICK q : Places(s, e, q)
  BY EscapePlaces
<1> HIDE DEF e
<1>3. /\ q \in [1 .. n + 1 -> Nat \ {0}] /\ q[1] = 1 /\ q[n + 1] = Len(e) - 1
      /\ \A i \in 1 .. n :
            /\ q[i + 1] = q[i] + (IF s[i] = 0 THEN 2 ELSE 1)
            /\ q[i + 1] <= Len(e) - 1
            /\ e[q[i]] = s[i] /\ (s[i] = 0 => e[q[i] + 1] = 255)
  BY <1>2 DEF Places
<1>4. Len(e) \in Nat /\ n \in Nat
  BY <1>1, BytesType
<1>5. d \in Bytes /\ Len(d) = Len(e) - 2 /\ \A j \in 1 .. Len(e) - 2 : d[j] = e[j]
  <2>1. d \in Seq(Byte)
    BY <1>1, <1>4 DEF Bytes
  <2> DEFINE m == Len(e) - 2
  <2>2. m \in Nat /\ m <= Len(e)
    BY <1>1, <1>4
  <2> HIDE DEF m
  <2>3. Len(SubSeq(e, 1, m)) = m /\ \A j \in 1 .. m : SubSeq(e, 1, m)[j] = e[j]
    BY <1>1, <2>2 DEF Bytes
  <2> QED
    BY <2>1, <2>3 DEF Bytes, m
<1>6. DecodeEscapedComponent(e) = Unescape(d)
  BY <1>1, <1>4 DEF DecodeEscapedComponent
<1> HIDE DEF d
<1>7. PICK U : UnescapesFrom(d, U) /\ Unescape(d) = U[1]
  BY <1>5, UnescapeDefined
<1>8. /\ U[Len(d) + 1] = << >>
      /\ \A i \in 1 .. Len(d) :
            U[i] = IF Rejects(d, i) THEN Invalid ELSE Joined(d[i], U[Following(d, i)])
  BY <1>7 DEF UnescapesFrom
<1>9. /\ R(n + 1) = << >> /\ R(1) = s
      /\ \A i \in 1 .. n + 1 : R(i) \in Bytes
      /\ \A i \in 1 .. n : R(i) = Cat(<<s[i]>>, R(i + 1))
  BY RestUnfold
<1>10. Invalid \notin Bytes
  BY InvalidApart
<1> HIDE DEF R
<1> DEFINE S == {i \in 1 .. n + 1 : U[q[i]] = R(i)}
<1>11. n + 1 \in S
  <2>1. q[n + 1] = Len(d) + 1
    BY <1>3, <1>4, <1>5
  <2> QED
    BY <1>4, <1>8, <1>9, <2>1
<1>12. ASSUME NEW i \in 1 .. n, i + 1 \in S PROVE i \in S
  <2> DEFINE k == q[i]
             m == q[i + 1]
             b == s[i]
  <2>1. k \in Nat \ {0} /\ m \in Nat /\ i + 1 \in 1 .. n + 1 /\ i \in 1 .. n + 1
    <3>1. i + 1 \in 1 .. n + 1 /\ i \in 1 .. n + 1
      BY <1>4
    <3>2. q \in [1 .. n + 1 -> Nat \ {0}]
      BY <1>3
    <3> QED
      BY <3>1, <3>2
  <2>2. m = k + (IF b = 0 THEN 2 ELSE 1) /\ m <= Len(e) - 1 /\ e[k] = b /\ (b = 0 => e[k + 1] = 255)
    BY <1>3
  <2>3. U[m] = R(i + 1) /\ R(i + 1) \in Bytes /\ R(i) = Cat(<<b>>, R(i + 1))
    BY <1>9, <1>12, <2>1
  <2> HIDE DEF k, m, b
  <2>4. k \in 1 .. Len(d) /\ k \in 1 .. Len(e) - 2 /\ (b = 0 => k + 1 \in 1 .. Len(e) - 2)
    BY <1>4, <1>5, <2>1, <2>2
  <2>5. d[k] = b /\ (b = 0 => d[k + 1] = 255 /\ k # Len(d))
    BY <1>4, <1>5, <2>1, <2>2, <2>4
  <2>6. ~Rejects(d, k) /\ Following(d, k) = m
    BY <2>1, <2>2, <2>5 DEF Rejects, Following
  <2>7. U[k] = Joined(b, U[m])
    BY <1>8, <2>4, <2>5, <2>6
  <2>8. U[k] = R(i)
    BY <1>10, <2>3, <2>7 DEF Joined
  <2> QED
    BY <2>1, <2>8 DEF k
<1>13. \A i \in 1 .. n + 1 : i \in S
  <2> DEFINE N == n + 1
  <2>1. N \in Nat /\ N \in S /\ \A i \in 1 .. N - 1 : i + 1 \in S => i \in S
    <3>1. N - 1 = n /\ N \in Nat
      BY <1>4
    <3> HIDE DEF S
    <3> QED
      BY <1>11, <1>12, <3>1
  <2> HIDE DEF S, N
  <2>2. \A i \in 1 .. N : i \in S
    BY <2>1, Descent
  <2> QED
    BY <2>2 DEF N
<1>14. U[1] = s
  <2>1. 1 \in 1 .. n + 1
    BY <1>4
  <2>2. U[q[1]] = R(1)
    BY <1>13, <2>1
  <2> QED
    BY <1>3, <1>9, <2>2
<1> QED
  BY <1>6, <1>7, <1>14 DEF e

-----------------------------------------------------------------------------
(* Integers.                                                               *)

\* power[n] is half of what n bytes can tell apart.
Powers(power) ==
    /\ power \in [1 .. IntBytes -> Nat \ {0}] /\ power[1] = 128
    /\ \A n \in 1 .. IntBytes - 1 : power[n + 1] = 256 * power[n]

\* SignBit is well defined.
LEMMA SignBitDefined == \E power : Powers(power) /\ SignBit = power[IntBytes]
<1> DEFINE D == 1 .. IntBytes
           T == Nat \ {0}
           value(n, f) == IF n = 1 THEN 128 ELSE 256 * f[n - 1]
           P(f) == f = [n \in D |-> value(n, f)]
           power == CHOOSE f : P(f)
           N == IntBytes + 1
           rank == [n \in D |-> n]
           step == [n \in D |-> [f \in [D -> T] |-> value(n, f)]]
<1>1. /\ IntBytes \in Nat \ {0} /\ 1 \in D /\ IntBytes \in D
      /\ \A n \in D : n = 1 \/ (n - 1 \in D /\ n - 1 \in Nat)
      /\ \A n \in 1 .. IntBytes - 1 : n \in D /\ n + 1 \in D /\ n + 1 # 1 /\ (n + 1) - 1 = n
  BY RecordsAssumption
<1>2. ASSUME NEW n \in D, NEW f \in [D -> T] PROVE value(n, f) \in T
  <2>1. CASE n = 1
    BY <2>1
  <2>2. CASE n # 1
    <3>1. f[n - 1] \in T
      BY <1>1, <2>2
    <3> QED
      BY <2>2, <3>1
  <2> QED
    BY <2>1, <2>2
<1>3. \E f \in [D -> T] : \A n \in D : f[n] = step[n][f]
  <2>1. rank \in [D -> Nat] /\ \A n \in D : rank[n] < N
    BY <1>1
  <2>2. step \in [D -> [[D -> T] -> T]]
    <3> HIDE DEF value, T, D
    <3> QED
      BY <1>2
  <2>3. ASSUME NEW n \in D, NEW f \in [D -> T], NEW g \in [D -> T],
               \A j \in D : rank[j] < rank[n] => f[j] = g[j]
        PROVE step[n][f] = step[n][g]
    <3>1. n = 1 \/ f[n - 1] = g[n - 1]
      <4>1. CASE n # 1
        <5> DEFINE k == n - 1
        <5>1. k \in D /\ rank[k] < rank[n]
          BY <1>1, <4>1
        <5> HIDE DEF k
        <5>2. f[k] = g[k]
          BY <2>3, <5>1
        <5> QED
          BY <5>2 DEF k
      <4> QED
        BY <4>1
    <3>2. value(n, f) = value(n, g)
      BY <3>1
    <3> HIDE DEF value, D, T
    <3> QED
      BY <3>2
  <2>4. N \in Nat /\ T # {}
    BY <1>1
  <2>5. Ranked(D, T, rank, step)
    <3> HIDE DEF D, T, rank, step
    <3> QED
      BY <2>1, <2>2, <2>3, Zenon DEF Ranked
  <2> HIDE DEF D, T, rank, step, N
  <2> QED
    BY <2>1, <2>4, <2>5, Recursion
<1>4. PICK g \in [D -> T] : \A n \in D : g[n] = step[n][g]
  BY <1>3, Zenon
<1>5. P(g)
  <2> HIDE DEF value, T, D
  <2> QED
    BY <1>4
<1>6. P(power)
  <2> HIDE DEF P
  <2> QED
    BY <1>5
<1>7. SignBit = power[IntBytes]
  BY DEF SignBit
<1> HIDE DEF power
<1>8. power[1] = 128 /\ \A n \in 1 .. IntBytes - 1 : power[n + 1] = 256 * power[n]
  <2>1. \A n \in D : power[n] = value(n, power)
    <3> HIDE DEF value, D
    <3> QED
      BY <1>6
  <2>2. power[1] = 128
    BY <1>1, <2>1
  <2>3. ASSUME NEW n \in 1 .. IntBytes - 1 PROVE power[n + 1] = 256 * power[n]
    <3>1. n + 1 \in D /\ n + 1 # 1 /\ (n + 1) - 1 = n
      BY <1>1
    <3> DEFINE k == n + 1
    <3>2. power[k] = 256 * power[k - 1]
      <4> HIDE DEF k
      <4>1. k \in D /\ k # 1
        BY <3>1 DEF k
      <4> QED
        BY <2>1, <4>1
    <3> QED
      BY <3>1, <3>2
  <2> QED
    BY <2>2, <2>3
<1> DEFINE S == {n \in D : power[n] \in T}
<1>9. \A n \in D : n \in S
  <2>1. 1 \in S
    BY <1>1, <1>8
  <2>2. ASSUME NEW n \in 1 .. IntBytes - 1, n \in S PROVE n + 1 \in S
    <3>1. n + 1 \in D /\ power[n] \in T /\ power[n + 1] = 256 * power[n]
      BY <1>1, <1>8, <2>2
    <3>2. \A x \in T : 256 * x \in T
      OBVIOUS
    <3> QED
      BY <3>1, <3>2
  <2> HIDE DEF S
  <2>3. IntBytes \in Int /\ 1 \in Int
    BY <1>1
  <2>4. \A n \in 1 .. IntBytes : n \in S
    BY <2>1, <2>2, <2>3, Ascent, Zenon
  <2> QED
    BY <2>4
<1>10. power = [n \in D |-> power[n]]
  BY <1>6
<1>11. Powers(power)
  <2>1. power \in [D -> T]
    <3> HIDE DEF D, T
    <3> QED
      BY <1>9, <1>10
  <2> QED
    BY <1>8, <2>1 DEF Powers
<1> QED
  BY <1>7, <1>11

\* The values of an int64.
Int64 == -SignBit .. SignBit - 1

\* The sign bit is a positive number.
LEMMA SignBitType == SignBit \in Nat \ {0}
<1>1. IntBytes \in 1 .. IntBytes
  BY RecordsAssumption
<1> QED
  BY <1>1, SignBitDefined DEF Powers

\* shifted[i] is the number x with its sign bit flipped, shifted right by the
\* bytes after byte i.
Shifts(x, shifted) ==
    /\ shifted \in [1 .. IntBytes -> Nat] /\ shifted[IntBytes] = x + SignBit
    /\ \A i \in 1 .. IntBytes - 1 : shifted[i] = shifted[i + 1] \div 256

\* BigEndian is well defined.
LEMMA BigEndianDefined ==
    ASSUME NEW x \in Int64
    PROVE \E f : Shifts(x, f) /\ BigEndian(x) = [i \in 1 .. IntBytes |-> f[i] % 256]
<1> DEFINE D == 1 .. IntBytes
           T == Nat
           y == x + SignBit
           value(i, f) == IF i = IntBytes THEN y ELSE f[i + 1] \div 256
           P(f) == f = [i \in D |-> value(i, f)]
           shifted == CHOOSE f : P(f)
           N == IntBytes + 1
           rank == [i \in D |-> IntBytes - i]
           step == [i \in D |-> [f \in [D -> T] |-> value(i, f)]]
<1>1. /\ IntBytes \in Nat \ {0} /\ IntBytes \in D
      /\ \A i \in D : i = IntBytes \/ i + 1 \in D
      /\ \A i \in 1 .. IntBytes - 1 : i \in D /\ i + 1 \in D /\ i # IntBytes
  BY RecordsAssumption
<1>2. y \in Nat
  BY SignBitType DEF Int64
<1>3. \A n \in Nat : n \div 256 \in Nat
  OBVIOUS
<1>4. BigEndian(x) = [i \in 1 .. IntBytes |-> shifted[i] % 256]
  BY DEF BigEndian
<1> HIDE DEF y
<1>5. ASSUME NEW i \in D, NEW f \in [D -> T] PROVE value(i, f) \in T
  <2>1. CASE i # IntBytes
    <3>1. f[i + 1] \in Nat
      BY <1>1, <2>1
    <3> QED
      BY <1>3, <2>1, <3>1
  <2> QED
    BY <1>2, <2>1
<1>6. \E f \in [D -> T] : \A i \in D : f[i] = step[i][f]
  <2>1. rank \in [D -> Nat] /\ \A i \in D : rank[i] < N
    BY <1>1
  <2>2. step \in [D -> [[D -> T] -> T]]
    <3> HIDE DEF value, T, D
    <3> QED
      BY <1>5
  <2>3. ASSUME NEW i \in D, NEW f \in [D -> T], NEW g \in [D -> T],
               \A j \in D : rank[j] < rank[i] => f[j] = g[j]
        PROVE step[i][f] = step[i][g]
    <3>1. i = IntBytes \/ f[i + 1] = g[i + 1]
      <4>1. CASE i # IntBytes
        <5> DEFINE k == i + 1
        <5>1. k \in D /\ rank[k] < rank[i]
          BY <1>1, <4>1
        <5> HIDE DEF k
        <5>2. f[k] = g[k]
          BY <2>3, <5>1
        <5> QED
          BY <5>2 DEF k
      <4> QED
        BY <4>1
    <3>2. value(i, f) = value(i, g)
      BY <3>1
    <3> HIDE DEF value, D, T
    <3> QED
      BY <3>2
  <2>4. N \in Nat /\ T # {}
    BY <1>1
  <2>5. Ranked(D, T, rank, step)
    <3> HIDE DEF D, T, rank, step
    <3> QED
      BY <2>1, <2>2, <2>3, Zenon DEF Ranked
  <2> HIDE DEF D, T, rank, step, N
  <2> QED
    BY <2>1, <2>4, <2>5, Recursion
<1>7. PICK g \in [D -> T] : \A i \in D : g[i] = step[i][g]
  BY <1>6, Zenon
<1>8. P(g)
  <2> HIDE DEF value, T, D
  <2> QED
    BY <1>7
<1>9. P(shifted)
  <2> HIDE DEF P
  <2> QED
    BY <1>8
<1> HIDE DEF shifted
<1>10. /\ shifted[IntBytes] = y
       /\ \A i \in 1 .. IntBytes - 1 : shifted[i] = shifted[i + 1] \div 256
  <2>1. \A i \in D : shifted[i] = value(i, shifted)
    <3> HIDE DEF value, D
    <3> QED
      BY <1>9
  <2> QED
    BY <1>1, <2>1
<1> DEFINE S == {i \in D : shifted[i] \in T}
<1>11. \A i \in D : i \in S
  <2>1. IntBytes \in S
    BY <1>1, <1>2, <1>10
  <2>2. ASSUME NEW i \in 1 .. IntBytes - 1, i + 1 \in S PROVE i \in S
    <3>1. i \in D /\ shifted[i + 1] \in Nat /\ shifted[i] = shifted[i + 1] \div 256
      BY <1>1, <1>10, <2>2
    <3> QED
      BY <1>3, <3>1
  <2> HIDE DEF S
  <2>3. IntBytes \in Nat
    BY <1>1
  <2>4. \A i \in 1 .. IntBytes : i \in S
    BY <2>1, <2>2, <2>3, Descent
  <2> QED
    BY <2>4
<1>12. Shifts(x, shifted)
  <2>1. shifted = [i \in D |-> shifted[i]]
    BY <1>9
  <2>2. shifted \in [D -> T]
    <3> HIDE DEF D, T
    <3> QED
      BY <1>11, <2>1
  <2> QED
    BY <1>10, <2>2 DEF Shifts, y
<1> QED
  BY <1>4, <1>12

\* X[i] is the number of the first i bytes of b.
Digits(b, X) ==
    /\ X \in [1 .. IntBytes -> Nat] /\ X[1] = b[1]
    /\ \A i \in 1 .. IntBytes - 1 : X[i + 1] = 256 * X[i] + b[i + 1]

\* The bytes of BigEndian are the digits of the number.
LEMMA BigEndianDigits ==
    ASSUME NEW x \in Int64
    PROVE /\ BigEndian(x) \in Bytes /\ Len(BigEndian(x)) = IntBytes
          /\ \E X : Digits(BigEndian(x), X) /\ X[IntBytes] = x + SignBit
<1>1. PICK X : Shifts(x, X) /\ BigEndian(x) = [i \in 1 .. IntBytes |-> X[i] % 256]
  BY BigEndianDefined
<1>2. PICK power : Powers(power) /\ SignBit = power[IntBytes]
  BY SignBitDefined
<1> DEFINE b == BigEndian(x)
           W == IntBytes
<1>3. W \in Nat \ {0} /\ 1 \in 1 .. W /\ W \in 1 .. W
  BY RecordsAssumption
<1>4. /\ X \in [1 .. W -> Nat] /\ X[W] = x + SignBit
      /\ \A i \in 1 .. W - 1 : X[i] = X[i + 1] \div 256
  BY <1>1 DEF Shifts
<1>5. /\ power \in [1 .. W -> Nat \ {0}] /\ power[1] = 128
      /\ \A n \in 1 .. W - 1 : power[n + 1] = 256 * power[n]
  BY <1>2 DEF Powers
<1>6. \A n \in Nat : n % 256 \in Byte /\ n = 256 * (n \div 256) + (n % 256)
  BY DEF Byte
<1>7. \A i \in 1 .. W : X[i] \in Nat /\ b[i] = X[i] % 256 /\ b[i] \in Byte
  BY <1>1, <1>4, <1>6
<1>8. b \in Bytes /\ Len(b) = W
  <2>1. b = [i \in 1 .. W |-> b[i]]
    BY <1>1
  <2> HIDE DEF b
  <2>2. b \in [1 .. W -> Byte]
    BY <1>7, <2>1
  <2> QED
    BY <1>3, <2>2 DEF Bytes
<1> HIDE DEF b
<1> DEFINE S == {i \in 1 .. W : X[i] < 2 * power[i]}
<1>9. \A i \in 1 .. W : i \in S
  <2>1. W \in S
    <3>1. x + SignBit < 2 * SignBit
      BY SignBitType DEF Int64
    <3> QED
      BY <1>2, <1>3, <1>4, <3>1
  <2>2. ASSUME NEW i \in 1 .. W - 1, i + 1 \in S PROVE i \in S
    <3>1. i \in 1 .. W /\ i + 1 \in 1 .. W
      BY <1>3
    <3>2. X[i + 1] \in Nat /\ power[i] \in Nat /\ power[i + 1] = 256 * power[i]
      BY <1>4, <1>5, <3>1
    <3>3. X[i + 1] < 2 * power[i + 1] /\ X[i] = X[i + 1] \div 256
      BY <1>4, <2>2
    <3>4. \A n, m \in Nat : n < 2 * (256 * m) => n \div 256 < 2 * m
      OBVIOUS
    <3> QED
      BY <3>1, <3>2, <3>3, <3>4
  <2> HIDE DEF S, W
  <2>3. W \in Nat
    BY <1>3
  <2> QED
    BY <2>1, <2>2, <2>3, Descent
<1>10. X[1] = b[1]
  <2>1. X[1] < 2 * power[1] /\ X[1] \in Nat /\ b[1] = X[1] % 256
    BY <1>3, <1>7, <1>9
  <2>2. \A n \in Nat : n < 256 => n % 256 = n
    OBVIOUS
  <2> QED
    BY <1>5, <2>1, <2>2
<1>11. ASSUME NEW i \in 1 .. W - 1 PROVE X[i + 1] = 256 * X[i] + b[i + 1]
  <2>1. i + 1 \in 1 .. W
    BY <1>3
  <2>2. X[i + 1] \in Nat /\ b[i + 1] = X[i + 1] % 256 /\ X[i] = X[i + 1] \div 256
    BY <1>4, <1>7, <2>1
  <2> QED
    BY <1>6, <2>2
<1>12. Digits(b, X)
  BY <1>4, <1>10, <1>11 DEF Digits
<1> QED
  BY <1>4, <1>8, <1>12 DEF b

\* FromBigEndian is well defined, and the number of all the bytes.
LEMMA FromBigEndianIs ==
    ASSUME NEW b \in Bytes, NEW X, Digits(b, X), Len(b) = IntBytes
    PROVE FromBigEndian(b) = X[IntBytes] - SignBit
<1> DEFINE W == IntBytes
           D == 0 .. W
           T == Nat
           value(i, f) == IF i = 0 THEN 0 ELSE 256 * f[i - 1] + b[i]
           P(f) == f = [i \in D |-> value(i, f)]
           sum == CHOOSE f : P(f)
           g == [i \in D |-> IF i = 0 THEN 0 ELSE X[i]]
<1>1. W \in Nat \ {0} /\ 1 \in 1 .. W /\ W \in 1 .. W /\ 0 \in D /\ W \in D
  BY RecordsAssumption
<1>2. /\ X \in [1 .. W -> Nat] /\ X[1] = b[1]
      /\ \A i \in 1 .. W - 1 : X[i + 1] = 256 * X[i] + b[i + 1]
  BY DEF Digits
<1>3. \A i \in 1 .. W : b[i] \in Nat
  <2>1. \A v \in Byte : v \in Nat
    BY DEF Byte
  <2> QED
    BY <2>1, BytesType
<1>4. P(g)
  <2>1. ASSUME NEW i \in D PROVE g[i] = value(i, g)
    <3>1. CASE i = 0
      BY <3>1
    <3>2. CASE i = 1
      <4>1. g[1] = X[1] /\ g[0] = 0 /\ b[1] \in Nat
        BY <1>1, <1>3
      <4> QED
        BY <1>2, <3>2, <4>1
    <3>3. CASE i \in 2 .. W
      <4> DEFINE k == i - 1
      <4>1. k \in 1 .. W - 1 /\ i = k + 1 /\ i \in D /\ k \in D /\ k # 0 /\ i # 0
        BY <1>1, <3>3
      <4> HIDE DEF k
      <4>2. X[k + 1] = 256 * X[k] + b[k + 1]
        BY <1>2, <4>1
      <4>3. g[i] = X[i] /\ g[k] = X[k]
        BY <4>1
      <4>4. g[i] = 256 * g[k] + b[i]
        BY <4>1, <4>2, <4>3
      <4> QED
        BY <4>1, <4>4 DEF k
    <3> QED
      BY <1>1, <3>1, <3>2, <3>3
  <2>2. g = [i \in D |-> g[i]]
    OBVIOUS
  <2> HIDE DEF g, value, D
  <2> QED
    BY <2>1, <2>2
<1>5. P(sum)
  <2> HIDE DEF P
  <2> QED
    BY <1>4
<1>6. FromBigEndian(b) = sum[W] - SignBit
  BY DEF FromBigEndian
<1> HIDE DEF sum
<1>7. \A i \in D : sum[i] = value(i, sum)
  <2> HIDE DEF value, D
  <2> QED
    BY <1>5
<1> DEFINE S == {i \in 1 .. W : sum[i] = X[i]}
<1>8. 1 \in S
  <2>1. sum[0] = 0
    BY <1>1, <1>7
  <2>2. sum[1] = 256 * sum[1 - 1] + b[1]
    BY <1>1, <1>7
  <2>3. b[1] \in Nat
    BY <1>1, <1>3
  <2>4. sum[1] = b[1]
    BY <2>1, <2>2, <2>3
  <2> QED
    BY <1>1, <1>2, <2>4
<1>9. ASSUME NEW i \in 1 .. W - 1, i \in S PROVE i + 1 \in S
  <2> DEFINE k == i + 1
  <2>1. k \in D /\ k # 0 /\ k - 1 = i /\ k \in 1 .. W
    BY <1>1
  <2>2. sum[k] = 256 * sum[k - 1] + b[k]
    <3> HIDE DEF k
    <3> QED
      BY <1>7, <2>1
  <2>3. sum[i] = X[i] /\ X[k] = 256 * X[i] + b[k]
    BY <1>2, <1>9
  <2> HIDE DEF k
  <2>4. sum[k] = X[k]
    BY <2>1, <2>2, <2>3
  <2> QED
    BY <2>1, <2>4 DEF k
<1>10. \A i \in 1 .. W : i \in S
  <2>1. 1 \in Int /\ W \in Int
    BY <1>1
  <2> HIDE DEF S, W
  <2> QED
    BY <1>8, <1>9, <2>1, Ascent
<1>11. sum[W] = X[W]
  BY <1>1, <1>10
<1> QED
  BY <1>6, <1>11

\* decodePrimaryKey and decodeValue read back the int64 encodeValue wrote.
THEOREM BigEndianInvertible ==
    ASSUME NEW x \in Int64
    PROVE /\ BigEndian(x) \in Bytes /\ Len(BigEndian(x)) = IntBytes
          /\ FromBigEndian(BigEndian(x)) = x
<1> DEFINE b == BigEndian(x)
<1>1. b \in Bytes /\ Len(b) = IntBytes
  BY BigEndianDigits
<1>2. PICK X : Digits(b, X) /\ X[IntBytes] = x + SignBit
  BY BigEndianDigits
<1> HIDE DEF b
<1>3. FromBigEndian(b) = X[IntBytes] - SignBit
  BY <1>1, <1>2, FromBigEndianIs
<1>4. x \in Int /\ SignBit \in Int
  BY SignBitType DEF Int64
<1>5. FromBigEndian(b) = x
  BY <1>2, <1>3, <1>4
<1> QED
  BY <1>1, <1>5 DEF b

\* "Flipping the sign bit maps signed integer order to unsigned byte order.
\* Writing the result big-endian ensures lexicographic B+Tree order matches
\* numeric order" (table-layer.md).
THEOREM BigEndianOrder ==
    ASSUME NEW x \in Int64, NEW y \in Int64
    PROVE Before(BigEndian(x), BigEndian(y)) <=> x < y
<1>1. ASSUME NEW v \in Int64, NEW w \in Int64, Before(BigEndian(v), BigEndian(w))
      PROVE v < w
  <2> DEFINE a == BigEndian(v)
             b == BigEndian(w)
             W == IntBytes
  <2>1. a \in Bytes /\ Len(a) = W /\ b \in Bytes /\ Len(b) = W
    BY BigEndianDigits
  <2>2. PICK X : Digits(a, X) /\ X[W] = v + SignBit
    BY BigEndianDigits
  <2>3. PICK Y : Digits(b, Y) /\ Y[W] = w + SignBit
    BY BigEndianDigits
  <2>4. Before(a, b)
    BY <1>1
  <2> HIDE DEF a, b
  <2>5. PICK k \in Nat : BeforeAt(a, b, k)
    BY <2>1, <2>4, BeforeIff
  <2>6. W \in Nat \ {0}
    BY RecordsAssumption
  <2>7. /\ k \in 1 .. W /\ a[k] < b[k]
        /\ \A j \in 1 .. k - 1 : a[j] = b[j]
    BY <2>1, <2>5, <2>6 DEF BeforeAt
  <2>8. /\ X \in [1 .. W -> Nat] /\ X[1] = a[1]
        /\ \A i \in 1 .. W - 1 : X[i + 1] = 256 * X[i] + a[i + 1]
    BY <2>2 DEF Digits
  <2>9. /\ Y \in [1 .. W -> Nat] /\ Y[1] = b[1]
        /\ \A i \in 1 .. W - 1 : Y[i + 1] = 256 * Y[i] + b[i + 1]
    BY <2>3 DEF Digits
  <2>10. \A i \in 1 .. W : a[i] \in Byte /\ b[i] \in Byte
    BY <2>1, BytesType
  <2> HIDE DEF W
  <2>11. ASSUME k # 1 PROVE X[k - 1] = Y[k - 1]
    <3> DEFINE E == {i \in 1 .. k - 1 : X[i] = Y[i]}
               n == k - 1
    <3>1. n \in 1 .. W /\ n \in 1 .. k - 1 /\ 1 \in 1 .. k - 1 /\ 1 \in Int /\ n \in Int
      BY <2>6, <2>7, <2>11
    <3>2. 1 \in E
      BY <2>7, <2>8, <2>9, <3>1
    <3>3. ASSUME NEW i \in 1 .. n - 1, i \in E PROVE i + 1 \in E
      <4>1. i \in 1 .. W - 1 /\ i + 1 \in 1 .. k - 1
        BY <2>6, <2>7
      <4>2. X[i] = Y[i] /\ a[i + 1] = b[i + 1]
        BY <2>7, <3>3, <4>1
      <4>3. X[i + 1] = Y[i + 1]
        BY <2>8, <2>9, <4>1, <4>2
      <4> QED
        BY <4>1, <4>3
    <3> HIDE DEF E, n
    <3>4. \A i \in 1 .. n : i \in E
      BY <3>1, <3>2, <3>3, Ascent
    <3>5. n \in E
      BY <3>1, <3>4
    <3> QED
      BY <3>5 DEF E, n
  <2>12. X[k] < Y[k]
    <3>1. CASE k = 1
      BY <2>7, <2>8, <2>9, <3>1
    <3>2. CASE k # 1
      <4> DEFINE n == k - 1
      <4>1. n \in 1 .. W - 1 /\ n \in 1 .. W /\ k = n + 1
        BY <2>6, <2>7, <3>2
      <4>2. X[n] = Y[n]
        BY <2>11, <3>2
      <4> HIDE DEF n
      <4>3. X[k] = 256 * X[n] + a[k] /\ Y[k] = 256 * Y[n] + b[k] /\ X[n] \in Nat
        BY <2>8, <2>9, <4>1
      <4>4. a[k] \in Int /\ b[k] \in Int
        BY <2>7, <2>10 DEF Byte
      <4> QED
        BY <2>7, <4>2, <4>3, <4>4
    <3> QED
      BY <3>1, <3>2
  <2> DEFINE S == {i \in 1 .. W : X[i] < Y[i]}
  <2>13. ASSUME NEW i \in k .. W - 1, i \in S PROVE i + 1 \in S
    <3>1. i \in 1 .. W - 1 /\ i \in 1 .. W /\ i + 1 \in 1 .. W
      BY <2>6, <2>7
    <3>2. X[i + 1] = 256 * X[i] + a[i + 1] /\ Y[i + 1] = 256 * Y[i] + b[i + 1]
      BY <2>8, <2>9, <3>1
    <3>3. X[i] \in Nat /\ Y[i] \in Nat /\ X[i] < Y[i]
      BY <2>8, <2>9, <2>13, <3>1
    <3>4. a[i + 1] \in Byte /\ b[i + 1] \in Byte
      BY <2>10, <3>1
    <3>5. \A m, n \in Nat : \A c, d \in Byte : m < n => 256 * m + c < 256 * n + d
      BY DEF Byte
    <3>6. X[i + 1] < Y[i + 1]
      BY <3>2, <3>3, <3>4, <3>5
    <3> QED
      BY <3>1, <3>6
  <2>14. \A i \in k .. W : i \in S
    <3>1. k \in S /\ k \in Int /\ W \in Int
      BY <2>6, <2>7, <2>12
    <3> HIDE DEF S
    <3> QED
      BY <2>13, <3>1, Ascent
  <2>15. X[W] < Y[W]
    BY <2>6, <2>7, <2>14
  <2>16. v \in Int /\ w \in Int /\ SignBit \in Int
    BY SignBitType DEF Int64
  <2> QED
    BY <2>2, <2>3, <2>15, <2>16
<1>2. ASSUME x < y PROVE Before(BigEndian(x), BigEndian(y))
  <2> DEFINE a == BigEndian(x)
             b == BigEndian(y)
  <2>1. a \in Bytes /\ b \in Bytes /\ FromBigEndian(a) = x /\ FromBigEndian(b) = y
    BY BigEndianInvertible
  <2>2. x \in Int /\ y \in Int
    BY SignBitType DEF Int64
  <2>3. a # b
    BY <1>2, <2>1, <2>2
  <2>4. ~Before(b, a)
    BY <1>1, <1>2, <2>2
  <2> HIDE DEF a, b
  <2>5. Before(a, b)
    BY <2>1, <2>3, <2>4, BeforeTotal
  <2> QED
    BY <2>5 DEF a, b
<1> QED
  BY <1>1, <1>2

-----------------------------------------------------------------------------
(* Column values.                                                          *)

SchemaColumns ==
    [name : STRING, type : {"int64", "string", "bytes", "bool"},
     primaryKey : BOOLEAN, nullable : BOOLEAN]

\* The values a caller can put in a column.
Values ==
    {Null} \cup {Value("int64", <<x>>) : x \in Int64}
    \cup {Value(type, s) : type \in {"string", "bytes"}, s \in Bytes}
    \cup {Value("bool", <<b>>) : b \in {0, 1}}

\* The four kinds of values, and nil.
LEMMA ValueCases ==
    ASSUME NEW v \in Values
    PROVE \/ v = Null
          \/ v # Null /\ v.type = "int64" /\ \E x \in Int64 : v = Value("int64", <<x>>)
          \/ v # Null /\ v.type \in {"string", "bytes"} /\ v.content \in Bytes /\ v = Value(v.type, v.content)
          \/ v # Null /\ v.type = "bool" /\ v.content \in {<<0>>, <<1>>} /\ v = Value("bool", v.content)
<1>1. ASSUME NEW x \in Int64, v = Value("int64", <<x>>)
      PROVE v # Null /\ v.type = "int64"
  BY <1>1 DEF Value, Null
<1>2. ASSUME NEW t \in {"string", "bytes"}, NEW s \in Bytes, v = Value(t, s)
      PROVE v # Null /\ v.type \in {"string", "bytes"} /\ v.content \in Bytes /\ v = Value(v.type, v.content)
  BY <1>2 DEF Value, Null
<1>3. ASSUME NEW b \in {0, 1}, v = Value("bool", <<b>>)
      PROVE v # Null /\ v.type = "bool" /\ v.content \in {<<0>>, <<1>>} /\ v = Value("bool", v.content)
  BY <1>3 DEF Value, Null
<1>4. \/ v = Null \/ \E x \in Int64 : v = Value("int64", <<x>>)
      \/ \E t \in {"string", "bytes"} : \E s \in Bytes : v = Value(t, s)
      \/ \E b \in {0, 1} : v = Value("bool", <<b>>)
  BY DEF Values
<1> QED
  BY <1>1, <1>2, <1>3, <1>4, Zenon

\* Type codes are 1 to 4.
LEMMA TypeCodes ==
    /\ TypeCode("int64") = 1 /\ TypeCode("string") = 2
    /\ TypeCode("bytes") = 3 /\ TypeCode("bool") = 4
<1>1. ColumnTypes[1] = "int64" /\ ColumnTypes[2] = "string"
  BY DEF ColumnTypes
<1>2. ColumnTypes[3] = "bytes" /\ ColumnTypes[4] = "bool"
  BY DEF ColumnTypes
<1>3. \A i \in 1 .. 4 : i = 1 \/ i = 2 \/ i = 3 \/ i = 4
  OBVIOUS
<1> QED
  BY <1>1, <1>2, <1>3 DEF TypeCode

\* A tag in front of a byte string.
LEMMA TagBody ==
    ASSUME NEW t \in Byte, NEW b \in Bytes
    PROVE /\ Cat(<<t>>, b) \in Bytes /\ Cat(<<t>>, b) # << >>
          /\ Cat(<<t>>, b)[1] = t /\ Tail(Cat(<<t>>, b)) = b
          /\ Len(Cat(<<t>>, b)) = 1 + Len(b)
<1> DEFINE o == <<t>>
           d == Cat(o, b)
<1>1. o \in Bytes /\ Len(o) = 1 /\ o[1] = t
  BY ShortBytes
<1>2. d = o \o b
  BY DEF Cat
<1> HIDE DEF o
<1>3. /\ d \in Bytes /\ Len(d) = 1 + Len(b)
      /\ \A i \in 1 .. 1 : d[i] = o[i]
      /\ \A i \in 1 .. Len(b) : d[1 + i] = b[i]
  <2>1. /\ d \in Bytes /\ Len(d) = Len(o) + Len(b)
        /\ \A i \in 1 .. Len(o) : d[i] = o[i]
        /\ \A i \in 1 .. Len(b) : d[Len(o) + i] = b[i]
    BY <1>1, BytesCat, Zenon
  <2> QED
    BY <1>1, <2>1
<1>4. Len(b) \in Nat
  BY BytesType
<1> HIDE DEF d
<1>5. d # << >>
  BY <1>3, <1>4
<1>6. d[1] = t
  BY <1>1, <1>3
<1>7. Tail(d) = b
  <2> DEFINE u == Tail(d)
  <2>1. u \in Bytes /\ Len(u) = Len(b) /\ \A i \in 1 .. Len(b) : u[i] = d[i + 1]
    BY <1>3, <1>4, <1>5 DEF Bytes
  <2> HIDE DEF u
  <2>2. \A i \in 1 .. Len(b) : u[i] = b[i]
    <3>1. \A i \in 1 .. Len(b) : i + 1 = 1 + i
      BY <1>4
    <3> QED
      BY <1>3, <2>1, <3>1
  <2>3. u = b
    BY <2>1, <2>2, BytesEqual
  <2> QED
    BY <2>3 DEF u
<1> QED
  BY <1>3, <1>5, <1>6, <1>7 DEF d, o

\* What encodeValue accepts, and what it returns for a column that is not the
\* primary key.
LEMMA EncodedColumn ==
    ASSUME NEW c, ~c.primaryKey, NEW v \in Values,
           EncodeValue(c, v) # Invalid
    PROVE \/ v = Null /\ c.nullable /\ EncodeValue(c, v) = <<0>>
          \/ /\ c.type = "int64"
             /\ \E x \in Int64 : v = Value("int64", <<x>>) /\ EncodeValue(c, v) = Cat(<<1>>, BigEndian(x))
          \/ /\ c.type \in {"string", "bytes"} /\ v.content \in Bytes /\ v = Value(c.type, v.content)
             /\ EncodeValue(c, v) = Cat(<<TypeCode(c.type)>>, Escape(v.content))
          \/ /\ c.type = "bool" /\ v.content \in {<<0>>, <<1>>} /\ v = Value("bool", v.content)
             /\ EncodeValue(c, v) = Cat(<<4>>, v.content)
<1>1. CASE v = Null
  BY <1>1 DEF EncodeValue
<1>2. ASSUME v # Null PROVE c.type = v.type
  BY <1>2 DEF EncodeValue
<1>3. ASSUME v # Null, NEW x \in Int64, v = Value("int64", <<x>>)
      PROVE EncodeValue(c, v) = Cat(<<1>>, BigEndian(x))
  <2>1. v.type = "int64" /\ v.content = <<x>> /\ v.content[1] = x
    BY <1>3 DEF Value
  <2> QED
    BY <1>2, <1>3, <2>1, TypeCodes, Zenon DEF EncodeValue, Cat
<1>4. ASSUME v # Null, v.type \in {"string", "bytes"}
      PROVE EncodeValue(c, v) = Cat(<<TypeCode(c.type)>>, Escape(v.content))
  BY <1>2, <1>4 DEF EncodeValue, Cat
<1>5. ASSUME v # Null, v.type = "bool"
      PROVE EncodeValue(c, v) = Cat(<<4>>, v.content)
  BY <1>2, <1>5, TypeCodes DEF EncodeValue, Cat
<1> QED
  BY <1>1, <1>2, <1>3, <1>4, <1>5, ValueCases

\* decodeValue inverts encodeValue.
LEMMA ValueInverts ==
    ASSUME NEW c, ~c.primaryKey, NEW v \in Values,
           EncodeValue(c, v) # Invalid
    PROVE DecodeValue(c, EncodeValue(c, v)) = v
<1> DEFINE d == EncodeValue(c, v)
<1>1. CASE v = Null /\ c.nullable /\ d = <<0>>
  <2>1. d # << >> /\ d[1] = 0 /\ Len(d) = 1
    BY <1>1
  <2> HIDE DEF d
  <2>2. DecodeValue(c, d) = v
    BY <1>1, <2>1 DEF DecodeValue
  <2> QED
    BY <2>2 DEF d
<1>2. ASSUME NEW x \in Int64, c.type = "int64", v = Value("int64", <<x>>), d = Cat(<< 1 >>, BigEndian(x))
      PROVE DecodeValue(c, d) = v
  <2> DEFINE b == BigEndian(x)
  <2>1. b \in Bytes /\ Len(b) = IntBytes /\ FromBigEndian(b) = x
    BY BigEndianInvertible
  <2>2. 1 \in Byte /\ d = Cat(<<1>>, b)
    BY <1>2 DEF Byte
  <2> HIDE DEF d, b
  <2>3. d # << >> /\ d[1] = 1 /\ Tail(d) = b
    BY <2>1, <2>2, TagBody
  <2> QED
    <3>1. c.type = "int64" /\ TypeCode(c.type) = 1
      BY <1>2, TypeCodes
    <3> DEFINE e == Tail(d)
               w == Value("int64", <<FromBigEndian(e)>>)
    <3>2. Len(e) = IntBytes /\ w = v
      BY <1>2, <2>1, <2>3, Zenon
    <3>3. d # << >> /\ d[1] # 0 /\ d[1] = TypeCode(c.type)
      BY <2>3, <3>1
    <3>4. DecodeValue(c, d) = w
      BY <3>1, <3>2, <3>3, Zenon DEF DecodeValue
    <3> QED
      BY <3>2, <3>4
<1>3. ASSUME v = Value(c.type, v.content), c.type \in {"string", "bytes"}, v.content \in Bytes,
             d = Cat(<<TypeCode(c.type)>>, Escape(v.content))
      PROVE DecodeValue(c, d) = v
  <2> DEFINE s == v.content
             b == Escape(s)
             t == TypeCode(c.type)
  <2>1. s \in Bytes /\ b \in Bytes /\ DecodeEscapedComponent(b) = s
    <3>1. s \in Bytes
      BY <1>3
    <3> HIDE DEF s
    <3> QED
      BY <3>1, EscapeBytes, DecodeInvertsEscape
  <2>2. t \in Byte /\ t # 0
    BY <1>3, TypeCodes DEF Byte
  <2>3. d = Cat(<<t>>, b)
    BY <1>3
  <2>4. s # Invalid
    BY <2>1, InvalidApart
  <2> HIDE DEF d, b, s, t
  <2>5. d # << >> /\ d[1] = t /\ Tail(d) = b
    BY <2>1, <2>2, <2>3, TagBody
  <2>6. DecodeValue(c, d) = Value(c.type, s)
    BY <1>3, <2>1, <2>2, <2>4, <2>5, Zenon DEF DecodeValue, t
  <2> QED
    BY <1>3, <2>6 DEF s
<1>4. ASSUME v = Value("bool", v.content), c.type = "bool", v.content \in {<< 0 >>, << 1 >>},
             d = Cat(<< 4 >>, v.content)
      PROVE DecodeValue(c, d) = v
  <2> DEFINE b == v.content
  <2>1. b \in Bytes /\ 4 \in Byte /\ b \in {<<0>>, <<1>>}
    <3>1. 0 \in Byte /\ 1 \in Byte /\ 4 \in Byte
      BY DEF Byte
    <3> QED
      BY <1>4, <3>1, ShortBytes
  <2>2. d = Cat(<<4>>, b) /\ v = Value("bool", b)
    BY <1>4
  <2> HIDE DEF d, b
  <2>3. d # << >> /\ d[1] = 4 /\ Tail(d) = b
    BY <2>1, <2>2, TagBody
  <2> QED
    <3>1. c.type = "bool" /\ TypeCode(c.type) = 4
      BY <1>4, TypeCodes
    <3> DEFINE e == Tail(d)
               w == Value("bool", e)
    <3>2. e \in {<<0>>, <<1>>} /\ w = v
      BY <2>1, <2>2, <2>3, Zenon
    <3>3. d # << >> /\ d[1] # 0 /\ d[1] = TypeCode(c.type) /\ c.type # "int64"
      BY <2>3, <3>1
    <3>4. DecodeValue(c, d) = w
      BY <3>1, <3>2, <3>3, Zenon DEF DecodeValue
    <3> QED
      BY <3>2, <3>4
<1> QED
  BY <1>1, <1>2, <1>3, <1>4, EncodedColumn, Zenon

\* decodePrimaryKey inverts encodeValue of a primary key.
LEMMA KeyInverts ==
    ASSUME NEW c, c.primaryKey, c.type \in {"int64", "string"},
           NEW v \in Values, EncodeValue(c, v) # Invalid
    PROVE /\ DecodePrimaryKey(c, EncodeValue(c, v)) = v
          /\ EncodeValue(c, v) \in Bytes
<1> DEFINE d == EncodeValue(c, v)
<1>1. v # Null /\ v.type = c.type
  BY DEF EncodeValue
<1>2. ASSUME NEW x \in Int64, v = Value("int64", <<x>>)
      PROVE DecodePrimaryKey(c, d) = v /\ d \in Bytes
  <2>1. v.type = "int64" /\ v.content = <<x>> /\ v.content[1] = x
    BY <1>2 DEF Value
  <2>2. d = BigEndian(x)
    BY <1>1, <2>1 DEF EncodeValue
  <2> HIDE DEF d
  <2>3. d \in Bytes /\ Len(d) = IntBytes /\ FromBigEndian(d) = x
    BY <2>2, BigEndianInvertible
  <2> QED
    BY <1>1, <1>2, <2>1, <2>3 DEF DecodePrimaryKey
<1>3. ASSUME v = Value(v.type, v.content), v.type = "string", v.content \in Bytes
      PROVE DecodePrimaryKey(c, d) = v /\ d \in Bytes
  <2>1. d = v.content
    BY <1>1, <1>3 DEF EncodeValue
  <2> HIDE DEF d
  <2> QED
    BY <1>1, <1>3, <2>1 DEF DecodePrimaryKey
<1> QED
  BY <1>1, <1>2, <1>3, ValueCases, Zenon

-----------------------------------------------------------------------------
(* Schemas and rows.                                                       *)

SchemaSet == [name : Bytes, columns : Seq(SchemaColumns)]

\* A valid schema has one primary key, and columns of different names.
LEMMA SchemaShape ==
    ASSUME NEW s \in SchemaSet, ValidSchema(s)
    PROVE LET n == Len(s.columns)
              p == PrimaryID(s)
          IN /\ n \in Nat /\ s.columns = [i \in 1 .. n |-> s.columns[i]] /\ DOMAIN s.columns = 1 .. n
             /\ \A i \in 1 .. n : s.columns[i] \in SchemaColumns
             /\ p \in 1 .. n /\ \A i \in 1 .. n : s.columns[i].primaryKey <=> i = p
             /\ ~s.columns[p].nullable /\ s.columns[p].type \in {"int64", "string"}
             /\ \A i, j \in 1 .. n : s.columns[i].name = s.columns[j].name => i = j
<1> DEFINE c == s.columns
           n == Len(c)
           p == PrimaryID(s)
<1>1. c \in Seq(SchemaColumns)
  BY DEF SchemaSet
<1>2. n \in Nat /\ c = [i \in 1 .. n |-> c[i]] /\ DOMAIN c = 1 .. n /\ \A i \in 1 .. n : c[i] \in SchemaColumns
  BY <1>1
<1>3. PICK i \in DOMAIN c : PrimaryKeys(s) = {i} /\ ~c[i].nullable /\ c[i].type \in {"int64", "string"}
  BY DEF ValidSchema
<1>4. p = i
  BY <1>3 DEF PrimaryID
<1>5. \A j, k \in DOMAIN c : c[j].name = c[k].name => j = k
  BY DEF ValidSchema
<1>6. \A j \in DOMAIN c : c[j].primaryKey <=> j \in PrimaryKeys(s)
  BY DEF PrimaryKeys
<1> HIDE DEF c, p
<1>7. p \in 1 .. n /\ \A j \in 1 .. n : c[j].primaryKey <=> j = p
  BY <1>2, <1>3, <1>4, <1>6
<1> QED
  BY <1>2, <1>3, <1>4, <1>5, <1>7 DEF c, p

\* A column is the record of its four fields.
LEMMA ColumnFields ==
    ASSUME NEW c \in SchemaColumns
    PROVE /\ c = Column(c.name, c.type, c.primaryKey, c.nullable)
          /\ c.primaryKey \in BOOLEAN /\ c.nullable \in BOOLEAN
          /\ TypeCode(c.type) \in 1 .. 4 /\ ColumnTypes[TypeCode(c.type)] = c.type
<1>1. c = Column(c.name, c.type, c.primaryKey, c.nullable) /\ c.primaryKey \in BOOLEAN /\ c.nullable \in BOOLEAN
  BY DEF SchemaColumns, Column
<1>2. c.type = "int64" \/ c.type = "string" \/ c.type = "bytes" \/ c.type = "bool"
  BY DEF SchemaColumns
<1>3. \A t : (\E i \in 1 .. 4 : ColumnTypes[i] = t) => TypeCode(t) \in 1 .. 4 /\ ColumnTypes[TypeCode(t)] = t
  BY DEF TypeCode
<1>4. ColumnTypes[1] = "int64" /\ ColumnTypes[2] = "string" /\ 1 \in 1 .. 4 /\ 2 \in 1 .. 4
  BY DEF ColumnTypes
<1>5. ColumnTypes[3] = "bytes" /\ ColumnTypes[4] = "bool" /\ 3 \in 1 .. 4 /\ 4 \in 1 .. 4
  BY DEF ColumnTypes
<1> QED
  BY <1>1, <1>2, <1>3, <1>4, <1>5

\* decodeDescriptor inverts encodeDescriptor.
THEOREM DescriptorInverts ==
    ASSUME NEW s \in SchemaSet, ValidSchema(s)
    PROVE /\ DecodeDescriptor(EncodeDescriptor(s)) = s
          /\ DescriptorValid(EncodeDescriptor(s))
<1> DEFINE c == s.columns
           n == Len(c)
           p == PrimaryID(s)
           e == EncodeDescriptor(s)
           d(i) == [id |-> i, type |-> TypeCode(c[i].type),
                    flags |-> IF c[i].nullable THEN 1 ELSE 0, name |-> c[i].name]
<1>1. /\ c = [i \in 1 .. n |-> c[i]] /\ DOMAIN c = 1 .. n
      /\ \A i \in 1 .. n : c[i] \in SchemaColumns
      /\ p \in 1 .. n /\ \A i \in 1 .. n : c[i].primaryKey <=> i = p
      /\ ~c[p].nullable
  BY SchemaShape
<1>2. e.name = s.name /\ e.primary = p /\ e.columns = [i \in 1 .. n |-> d(i)]
  BY <1>1 DEF EncodeDescriptor
<1>3. DOMAIN e.columns = 1 .. n /\ \A i \in 1 .. n : e.columns[i] = d(i)
  BY <1>2
<1>4. ASSUME NEW i \in 1 .. n
      PROVE /\ e.columns[i].id = i /\ e.columns[i].type = TypeCode(c[i].type)
            /\ e.columns[i].flags = (IF c[i].nullable THEN 1 ELSE 0)
            /\ e.columns[i].name = c[i].name
  <2>1. e.columns[i] = d(i)
    BY <1>3
  <2> HIDE DEF e, c
  <2> QED
    BY <2>1
<1> HIDE DEF d, e
<1>5. ASSUME NEW i \in 1 .. n
      PROVE Column(e.columns[i].name, ColumnTypes[e.columns[i].type], e.columns[i].id = e.primary,
                   e.columns[i].flags = 1 /\ e.columns[i].id # e.primary) = c[i]
  <2>1. c[i] = Column(c[i].name, c[i].type, c[i].primaryKey, c[i].nullable)
    BY <1>1, ColumnFields
  <2>2. ColumnTypes[e.columns[i].type] = c[i].type
    BY <1>1, <1>4, ColumnFields
  <2>3. c[i].primaryKey \in BOOLEAN /\ c[i].nullable \in BOOLEAN
    BY <1>1, ColumnFields
  <2>4. (e.columns[i].id = e.primary) = c[i].primaryKey
    BY <1>1, <1>2, <1>4, <2>3, Zenon
  <2>5. (e.columns[i].flags = 1 /\ e.columns[i].id # e.primary) = c[i].nullable
    <3>1. (e.columns[i].flags = 1) <=> c[i].nullable
      BY <1>4
    <3>2. (e.columns[i].id = e.primary) <=> i = p
      BY <1>2, <1>4
    <3> QED
      BY <1>1, <2>3, <3>1, <3>2
  <2> QED
    BY <1>4, <2>1, <2>2, <2>4, <2>5
<1>6. DecodeDescriptor(e) = s
  <2>1. DecodeDescriptor(e) = [name |-> s.name, columns |-> [i \in 1 .. n |-> c[i]]]
    BY <1>2, <1>3, <1>5, Zenon DEF DecodeDescriptor
  <2>2. s = [name |-> s.name, columns |-> c]
    BY DEF SchemaSet
  <2> HIDE DEF c
  <2> QED
    BY <1>1, <2>1, <2>2
<1>7. DescriptorValid(e)
  <2>1. ASSUME NEW i \in 1 .. n
        PROVE e.columns[i].id = i /\ e.columns[i].flags \in {0, 1} /\ (i = e.primary => e.columns[i].flags = 0)
    BY <1>1, <1>2, <1>4, Zenon
  <2> QED
    BY <1>3, <1>6, <2>1 DEF DescriptorValid
<1> QED
  BY <1>6, <1>7 DEF e

\* What follows a prefix.
LEMMA SuffixBytes ==
    ASSUME NEW p \in Bytes, NEW b \in Bytes
    PROVE SubSeq(Cat(p, b), Len(p) + 1, Len(Cat(p, b))) = b
<1> DEFINE d == Cat(p, b)
           m == Len(p)
           n == Len(b)
           u == SubSeq(d, m + 1, Len(d))
<1>1. m \in Nat /\ n \in Nat
  BY BytesType
<1>2. d \in Bytes /\ Len(d) = m + n /\ \A i \in 1 .. n : d[m + i] = b[i]
  BY BytesCat
<1> HIDE DEF d, m
<1>3. u \in Bytes
  BY <1>1, <1>2 DEF Bytes
<1>4. Len(u) = n
  BY <1>1, <1>2 DEF Bytes
<1>5. ASSUME NEW i \in 1 .. n PROVE u[i] = d[m + i]
  BY <1>1, <1>2 DEF Bytes
<1> HIDE DEF u
<1>6. u = b
  BY <1>2, <1>3, <1>4, <1>5, BytesEqual
<1> QED
  BY <1>6 DEF u, d, m

\* encodeRow followed by decodeRow and decodePrimaryKey gives back the row,
\* with nil for the columns it left out.
THEOREM RowInverts ==
    ASSUME NEW s \in SchemaSet, ValidSchema(s), NEW row, row \in [DOMAIN row -> Values],
           RowValid(s, row)
    PROVE /\ FieldsValid(s, EncodeRow(s, row))
          /\ DecodeRow(s, RowBytes(s, row), EncodeRow(s, row)) =
                [name \in Names(s) |-> Field(row, name)]
<1> DEFINE c == s.columns
           n == Len(c)
           p == PrimaryID(s)
           o == OtherColumns(s)
           e == EncodeRow(s, row)
           v(i) == Field(row, c[i].name)
<1>1. /\ n \in Nat /\ DOMAIN c = 1 .. n
      /\ \A i \in 1 .. n : c[i] \in SchemaColumns
      /\ p \in 1 .. n /\ \A i \in 1 .. n : c[i].primaryKey <=> i = p
      /\ c[p].type \in {"int64", "string"}
      /\ \A i, j \in 1 .. n : c[i].name = c[j].name => i = j
  BY SchemaShape, Zenon
<1>2. /\ o = [i \in 1 .. n - 1 |-> IF i < p THEN i ELSE i + 1]
      /\ DOMAIN o = 1 .. n - 1
  BY DEF OtherColumns
<1>3. ASSUME NEW i \in 1 .. n - 1 PROVE o[i] \in 1 .. n /\ o[i] # p
  BY <1>1, <1>2
<1>4. ASSUME NEW i \in 1 .. n, i # p PROVE \E j \in 1 .. n - 1 : o[j] = i
  <2>1. CASE i < p
    BY <1>1, <1>2, <2>1
  <2>2. CASE i > p
    <3>1. i - 1 \in 1 .. n - 1 /\ ~(i - 1 < p) /\ (i - 1) + 1 = i
      BY <1>1, <2>2
    <3>2. o[i - 1] = i
      BY <1>2, <3>1
    <3> QED
      BY <3>1, <3>2
  <2> QED
    BY <1>1, <1>4, <2>1, <2>2
<1>5. /\ e = [i \in 1 .. n - 1 |-> [id |-> o[i], data |-> EncodeValue(c[o[i]], v(o[i]))]]
      /\ DOMAIN e = 1 .. n - 1
  <2>1. e = [i \in DOMAIN o |-> [id |-> o[i], data |-> EncodeValue(c[o[i]], v(o[i]))]]
    BY DEF EncodeRow
  <2> HIDE DEF o, e, v
  <2> QED
    BY <1>2, <2>1, Zenon
<1>6. ASSUME NEW i \in 1 .. n - 1
      PROVE e[i].id = o[i] /\ e[i].data = EncodeValue(c[o[i]], v(o[i]))
  <2>1. e[i] = [id |-> o[i], data |-> EncodeValue(c[o[i]], v(o[i]))]
    BY <1>5
  <2> HIDE DEF o, e, v
  <2> QED
    BY <2>1
<1>7. Len(e) = n - 1
  <2>1. n - 1 \in Nat
    BY <1>1
  <2> HIDE DEF e, o, v, n
  <2> QED
    BY <1>5, <2>1
<1>8. ASSUME NEW i \in 1 .. n PROVE v(i) \in Values /\ EncodeValue(c[i], v(i)) # Invalid
  <2>1. v(i) \in Values
    <3>1. Null \in Values
      BY DEF Values
    <3> DEFINE name == c[i].name
    <3> HIDE DEF name
    <3>2. Field(row, name) \in Values
      BY <3>1 DEF Field
    <3> QED
      BY <3>2 DEF name
  <2> QED
    BY <1>1, <2>1 DEF RowValid
<1> HIDE DEF e, v
<1>9. FieldsValid(s, e)
  <2>1. \A i \in 2 .. Len(e) : e[i - 1].id < e[i].id
    <3> SUFFICES ASSUME NEW i \in 2 .. n - 1 PROVE e[i - 1].id < e[i].id
      BY <1>7
    <3>1. i \in 1 .. n - 1 /\ i - 1 \in 1 .. n - 1
      BY <1>1
    <3>2. e[i - 1].id = o[i - 1] /\ e[i].id = o[i]
      BY <1>6, <3>1
    <3>3. o[i - 1] < o[i]
      BY <1>1, <1>2, <3>1
    <3> QED
      BY <3>2, <3>3
  <2>2. \A i \in DOMAIN e : e[i].id \in DOMAIN c /\ ~c[e[i].id].primaryKey
    BY <1>1, <1>3, <1>5, <1>6
  <2> QED
    BY <1>7, <2>1, <2>2 DEF FieldsValid
<1> DEFINE key == RowBytes(s, row)
           prefix == RowPrefix(s.name)
           k == EncodeValue(c[p], v(p))
<1>10. SubSeq(key, Len(prefix) + 1, Len(key)) = k /\ DecodePrimaryKey(c[p], k) = v(p)
  <2>1. c[p] \in SchemaColumns /\ c[p].primaryKey /\ v(p) \in Values /\ k # Invalid
    BY <1>1, <1>8
  <2>2. k \in Bytes /\ DecodePrimaryKey(c[p], k) = v(p)
    <3> DEFINE a == c[p]
               b == v(p)
    <3>1. a \in SchemaColumns /\ a.primaryKey /\ b \in Values /\ EncodeValue(a, b) # Invalid
      BY <2>1
    <3>2. a.type \in {"int64", "string"}
      BY <1>1
    <3> HIDE DEF a, b
    <3>3. DecodePrimaryKey(a, EncodeValue(a, b)) = b /\ EncodeValue(a, b) \in Bytes
      BY <3>1, <3>2, KeyInverts
    <3> QED
      BY <3>3 DEF a, b
  <2>3. key = Cat(prefix, k)
    BY DEF RowBytes, FindPrimary, Cat, v
  <2>4. prefix \in Bytes
    <3>1. s.name \in Bytes
      BY DEF SchemaSet
    <3>2. prefix = Cat(<<32>>, Escape(s.name))
      BY DEF RowPrefix, Cat
    <3>3. 32 \in Byte
      BY DEF Byte
    <3>4. Escape(s.name) \in Bytes
      BY <3>1, EscapeBytes
    <3> QED
      BY <3>2, <3>3, <3>4, TagBody
  <2> HIDE DEF key, prefix, k
  <2> QED
    BY <2>2, <2>3, <2>4, SuffixBytes
<1> DEFINE F == [name \in Names(s) |-> Field(row, name)]
           names == {c[p].name} \cup {c[e[i].id].name : i \in DOMAIN e}
           value(name) == IF name = c[p].name THEN DecodePrimaryKey(c[p], k)
                          ELSE LET i == CHOOSE i \in DOMAIN e : c[e[i].id].name = name
                               IN DecodeValue(c[e[i].id], e[i].data)
<1>11. DecodeRow(s, key, e) = [name \in names |-> value(name)]
  <2>1. FindPrimary(s) = c[p]
    BY DEF FindPrimary
  <2> DEFINE suffix == SubSeq(key, Len(prefix) + 1, Len(key))
             found(name) == LET i == CHOOSE i \in DOMAIN e : c[e[i].id].name = name
                            IN DecodeValue(c[e[i].id], e[i].data)
             q == FindPrimary(s)
  <2>2. DecodeRow(s, key, e) =
          [name \in {q.name} \cup {c[e[i].id].name : i \in DOMAIN e} |->
              IF name = q.name THEN DecodePrimaryKey(q, suffix) ELSE found(name)]
    BY DEF DecodeRow
  <2>3. q = c[p] /\ suffix = k
    BY <1>10, <2>1
  <2> HIDE DEF q, suffix, k, found, key
  <2>4. DecodeRow(s, key, e) =
          [name \in {c[p].name} \cup {c[e[i].id].name : i \in DOMAIN e} |->
              IF name = c[p].name THEN DecodePrimaryKey(c[p], k) ELSE found(name)]
    BY <2>2, <2>3
  <2> QED
    BY <2>4, Zenon DEF found
<1>12. names = Names(s)
  <2>1. Names(s) = {c[i].name : i \in 1 .. n}
    BY <1>1 DEF Names
  <2>2. names = {c[p].name} \cup {c[o[i]].name : i \in 1 .. n - 1}
    BY <1>5, <1>6
  <2> HIDE DEF names, o, c, p
  <2> QED
    BY <1>1, <1>3, <1>4, <2>1, <2>2
<1>13. ASSUME NEW name \in Names(s) PROVE value(name) = Field(row, name)
  <2>1. PICK i \in 1 .. n : name = c[i].name
    BY <1>1 DEF Names
  <2>2. CASE i = p
    BY <1>10, <2>1, <2>2 DEF v
  <2>3. CASE i # p
    <3> DEFINE j == CHOOSE j \in DOMAIN e : c[e[j].id].name = name
    <3>1. name # c[p].name
      BY <1>1, <2>1, <2>3
    <3>2. \E l \in DOMAIN e : c[e[l].id].name = name
      BY <1>4, <1>5, <1>6, <2>1, <2>3
    <3>3. j \in 1 .. n - 1 /\ c[e[j].id].name = name
      BY <1>5, <3>2, Zenon
    <3>4. value(name) = DecodeValue(c[e[j].id], e[j].data)
      BY <3>1
    <3> HIDE DEF j, value
    <3>5. e[j].id = i /\ e[j].data = EncodeValue(c[i], v(i))
      BY <1>1, <1>3, <1>6, <2>1, <3>3
    <3> DEFINE a == c[i]
               b == v(i)
    <3>6. a \in SchemaColumns /\ ~a.primaryKey /\ b \in Values /\ EncodeValue(a, b) # Invalid
      BY <1>1, <1>8, <2>3
    <3>7. value(name) = DecodeValue(a, EncodeValue(a, b)) /\ b = Field(row, name)
      BY <2>1, <3>4, <3>5 DEF v
    <3> HIDE DEF a, b
    <3>8. DecodeValue(a, EncodeValue(a, b)) = b
      BY <3>6, ValueInverts
    <3> QED
      BY <3>7, <3>8
  <2> QED
    BY <2>2, <2>3, Zenon
<1> HIDE DEF key, value, names
<1>14. DecodeRow(s, key, e) = F
  BY <1>11, <1>12, <1>13
<1> QED
  BY <1>9, <1>14 DEF e, key
=============================================================================
