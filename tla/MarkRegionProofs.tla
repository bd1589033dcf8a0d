--------------------------- MODULE MarkRegionProofs ---------------------------
(***************************************************************************)
(* For a text of any length: the list of regions stays in order            *)
(* (markregion_verify_integrity), and each of its operations is that of    *)
(* DirtyText, where every character has a mark of its own.                 *)
(*                                                                         *)
(* An insertion, a deletion and a change of nothing all do the same: they  *)
(* make one region of the changed text and of what it touches.  The list   *)
(* that results is what is kept of the marks before, up to the start of    *)
(* that region (Opens), and its end with the marks behind, moved (Closes). *)
(***************************************************************************)
EXTENDS MarkRegion, SequenceTheorems, FiniteSetTheorems, TLAPS

Mark == [pos : Int, is_start : BOOLEAN]

\* Starts and ends alternate, each mark is before all that follow, and none is outside a
\* text of n characters.
Sorted(m) == \A i, j \in 1 .. Len(m) : i < j => m[i].pos < m[j].pos
Good(m, n) ==
    /\ m \in Seq(Mark) /\ Sorted(m)
    /\ Len(m) % 2 = 0
    /\ \A i \in 1 .. Len(m) : (m[i].is_start <=> i % 2 = 1) /\ m[i].pos \in 0 .. n

\* Whether character x is in a region.
InRegion(m, x) == \E r \in Regions(m) : r[1] < x /\ x <= r[2]

-----------------------------------------------------------------------------
(* Where a position is in the list                                         *)

\* Induction over the natural numbers, for a set.  The library states it for an
\* operator, which cannot be given here; a set closed under +1 that lacked n would be mapped
\* one-to-one into itself without 0.
LEMMA Induction ==
    ASSUME NEW A, 0 \in A, \A n \in Nat : n \in A => n + 1 \in A
    PROVE  \A n \in Nat : n \in A
<1>. SUFFICES ASSUME NEW n \in Nat, n \notin A
              PROVE  FALSE
  OBVIOUS
<1>. DEFINE S == {k \in 0 .. n : k \in A}
            next == [k \in S |-> k + 1]
<1>1. IsFiniteSet(0 .. n) /\ S \in SUBSET (0 .. n)
  BY FS_Interval
<1>2. IsFiniteSet(S)
  BY <1>1, FS_Subset
<1>3. IsFiniteSet(S \ {0}) /\ Cardinality(S \ {0}) = Cardinality(S) - 1 /\ Cardinality(S) \in Nat
  <2>1. 0 \in S
    OBVIOUS
  <2>. HIDE DEF S
  <2>. QED BY <1>2, <2>1, FS_RemoveElement, FS_CardinalityType
<1>4. \A k \in S : k + 1 \in S \ {0}
  <2>. TAKE k \in S
  <2>1. k # n /\ k \in Nat /\ k + 1 \in A
    OBVIOUS
  <2>. QED BY <2>1
<1>5. next \in [S -> S \ {0}]
  BY <1>4
<1>6. \E x, y \in S : x # y /\ next[x] = next[y]
  <2>. DEFINE T == S \ {0}
  <2>1. IsFiniteSet(T) /\ Cardinality(T) < Cardinality(S) /\ next \in [S -> T]
    BY <1>3, <1>5
  <2>. HIDE DEF S, T, next
  <2>. QED BY <1>2, <2>1, FS_PigeonHole
<1>. QED BY <1>6

LEMMA MaxIsGreatest ==
    ASSUME NEW n \in Nat, NEW S \in SUBSET (0 .. n), 0 \in S
    PROVE  Max(S) \in S /\ \A y \in S : y <= Max(S)
<1>. DEFINE Greatest(U, x) == x \in U /\ \A y \in U : x >= y
            A == {k \in Nat : \A U \in SUBSET (0 .. k) : 0 \in U => \E x \in U : Greatest(U, x)}
<1>1. 0 \in A
  <2>1. \A U \in SUBSET (0 .. 0) : 0 \in U => Greatest(U, 0)
    OBVIOUS
  <2> QED BY <2>1
<1>2. ASSUME NEW k \in Nat, k \in A PROVE k + 1 \in A
  <2>. SUFFICES ASSUME NEW U \in SUBSET (0 .. k + 1), 0 \in U
                PROVE  \E x \in U : Greatest(U, x)
    OBVIOUS
  <2>1. CASE k + 1 \in U
    <3>1. Greatest(U, k + 1)
      BY <2>1
    <3> QED BY <2>1, <3>1
  <2>2. CASE k + 1 \notin U
    <3>1. U \in SUBSET (0 .. k)
      BY <2>2
    <3> QED BY <1>2, <3>1
  <2> QED BY <2>1, <2>2
<1>3. n \in A
  <2>. HIDE DEF A
  <2> QED BY <1>1, <1>2, Induction
<1>4. \E x \in S : \A y \in S : x >= y
  BY <1>3
<1>5. Max(S) \in S /\ \A y \in S : Max(S) >= y
  BY <1>4 DEF Max
<1> QED BY <1>5

LEMMA Marks ==
    ASSUME NEW m \in Seq(Mark)
    PROVE  /\ Len(m) \in Nat /\ DOMAIN m = 1 .. Len(m)
           /\ \A i \in 1 .. Len(m) : /\ m[i] \in Mark /\ m[i].pos \in Int
                                     /\ m[i].is_start \in BOOLEAN
<1>1. Len(m) \in Nat /\ DOMAIN m = 1 .. Len(m) /\ \A i \in 1 .. Len(m) : m[i] \in Mark
  BY LenProperties, ElementOfSeq
<1>2. \A e \in Mark : e.pos \in Int /\ e.is_start \in BOOLEAN
  BY DEF Mark
<1> QED BY <1>1, <1>2

\* The marks up to the one that is found are at or before p, the others behind it.
LEMMA PrevOrEqual ==
    ASSUME NEW m \in Seq(Mark), Sorted(m), NEW p \in Int,
           NEW k, k = find_prev_or_equal_position(m, p)
    PROVE  /\ k \in 0 .. Len(m)
           /\ \A i \in 1 .. k : m[i].pos <= p
           /\ \A i \in k + 1 .. Len(m) : p < m[i].pos
<1>. DEFINE S == {0} \union {i \in 1 .. Len(m) : m[i].pos <= p}
<1>1. Len(m) \in Nat /\ DOMAIN m = 1 .. Len(m) /\ \A i \in 1 .. Len(m) : m[i].pos \in Int
  BY Marks
<1>2. k = Max(S)
  BY <1>1 DEF find_prev_or_equal_position
<1>3. S \in SUBSET (0 .. Len(m)) /\ 0 \in S
  BY <1>1
<1>4. k \in S /\ \A y \in S : y <= k
  <2>. HIDE DEF S
  <2> QED BY <1>1, <1>2, <1>3, MaxIsGreatest
<1>5. k \in 0 .. Len(m)
  BY <1>3, <1>4
<1>6. ASSUME NEW i \in 1 .. k PROVE m[i].pos <= p
  <2>1. k \in 1 .. Len(m) /\ m[k].pos <= p /\ i \in 1 .. Len(m)
    BY <1>1, <1>4, <1>5
  <2>2. i < k => m[i].pos < m[k].pos
    BY <2>1 DEF Sorted
  <2> QED BY <1>1, <2>1, <2>2
<1>7. ASSUME NEW i \in k + 1 .. Len(m) PROVE p < m[i].pos
  <2>1. i \in 1 .. Len(m) /\ ~(i <= k)
    BY <1>1, <1>5
  <2>2. i \notin S
    BY <1>4, <2>1
  <2> QED BY <1>1, <2>1, <2>2
<1> QED BY <1>5, <1>6, <1>7

\* What remains of the list are the marks at or behind p.
LEMMA FromIs ==
    ASSUME NEW m \in Seq(Mark), Sorted(m), NEW p \in Int
    PROVE  \E k \in 0 .. Len(m) :
               /\ \A i \in 1 .. k : m[i].pos < p
               /\ \A i \in k + 1 .. Len(m) : p <= m[i].pos
               /\ From(m, p) = SubSeq(m, k + 1, Len(m))
<1>. DEFINE k == find_prev_or_equal_position(m, p - 1)
            P == {i \in DOMAIN m : \A j \in 1 .. i : m[j].pos < p}
<1>1. Len(m) \in Nat /\ DOMAIN m = 1 .. Len(m) /\ \A i \in 1 .. Len(m) : m[i].pos \in Int
  BY Marks
<1>2. /\ k \in 0 .. Len(m)
      /\ \A i \in 1 .. k : m[i].pos <= p - 1
      /\ \A i \in k + 1 .. Len(m) : p - 1 < m[i].pos
  BY PrevOrEqual
<1>. HIDE DEF k
<1>3. (\A i \in 1 .. k : m[i].pos < p) /\ (\A i \in k + 1 .. Len(m) : p <= m[i].pos)
  BY <1>1, <1>2
<1>4. P = 1 .. k
  BY <1>1, <1>2, <1>3
<1>5. Cardinality(P) = k
  <2>1. Cardinality(1 .. k) = IF 1 > k THEN 0 ELSE k - 1 + 1
    <3>1. k \in Int /\ 1 \in Int
      BY <1>2
    <3> QED BY ONLY <3>1, FS_Interval
  <2>. HIDE DEF P
  <2> QED BY <1>2, <1>4, <2>1
<1>6. From(m, p) = SubSeq(m, k + 1, Len(m))
  <2>1. From(m, p) = SubSeq(m, 1 + Cardinality(P), Len(m))
    BY DEF From
  <2>. HIDE DEF P
  <2>2. 1 + Cardinality(P) = k + 1
    BY <1>2, <1>5
  <2> QED BY <2>1, <2>2
<1> QED BY <1>2, <1>3, <1>6

-----------------------------------------------------------------------------
(* Characters in regions                                                   *)

LEMMA RegionsAre ==
    ASSUME NEW m \in Seq(Mark), NEW x \in Int
    PROVE  InRegion(m, x) <=>
               \E i \in 1 .. Len(m) - 1 : i % 2 = 1 /\ m[i].pos < x /\ x <= m[i + 1].pos
<1>. DEFINE region(i) == <<m[i].pos, m[i + 1].pos>>
            S == {j \in 1 .. Len(m) - 1 : j % 2 = 1}
<1>1. Regions(m) = {region(i) : i \in S}
  BY DEF Regions
<1>2. \A i \in S : region(i)[1] = m[i].pos /\ region(i)[2] = m[i + 1].pos
  OBVIOUS
<1>3. InRegion(m, x) <=> \E i \in S : region(i)[1] < x /\ x <= region(i)[2]
  <2>. HIDE DEF region, S
  <2> QED BY <1>1 DEF InRegion
<1>4. InRegion(m, x) <=> \E i \in S : m[i].pos < x /\ x <= m[i + 1].pos
  <2>. HIDE DEF region, S
  <2> QED BY <1>2, <1>3
<1> QED BY <1>4

LEMMA Parity ==
    /\ \A i \in Int : /\ i % 2 = 1 => (i - 1) % 2 = 0 /\ (i + 1) % 2 = 0
                      /\ i % 2 = 0 => (i - 1) % 2 = 1 /\ (i + 1) % 2 = 1
                      /\ i % 2 = 0 \/ i % 2 = 1
    /\ \A i, j \in Int : i % 2 = j % 2 /\ i < j => i + 1 < j
    /\ \A i, j \in Int : i % 2 # j % 2 /\ i <= j => i + 1 <= j
    /\ \A i, q, b \in Int : i % 2 = 1 /\ q % 2 = 1 /\ b % 2 = 0 => (i + q + 1 - b) % 2 = 1
OBVIOUS

LEMMA Shift ==
    \A a, x, o \in Int : (a + o < x <=> a < x - o) /\ (x <= a + o <=> x - o <= a)
OBVIOUS

\* `kept' is what comes before the text from `start' on, and the start of a region around
\* `start': the one that was there, or a new one.
Opens(m, start, kept) ==
    LET q == Len(kept) IN
    /\ kept \in Seq(Mark) /\ q % 2 = 1 /\ q <= Len(m) + 1
    /\ kept[q].is_start /\ 0 <= kept[q].pos /\ kept[q].pos <= start
    /\ \A i \in 1 .. q - 1 : kept[i] = m[i] /\ m[i].pos < kept[q].pos
    /\ \A i \in q .. Len(m) : kept[q].pos <= m[i].pos
    /\ kept[q].pos < start => q + 1 <= Len(m) /\ m[q].pos = kept[q].pos /\ start <= m[q + 1].pos

\* `rest' is the end of a region around the text up to `end', the one that was there or a
\* new one, and what comes behind; all of it has moved by `offset'.
Closes(m, end, offset, rest) ==
    LET b == Len(m) + 1 - Len(rest) IN
    /\ rest \in Seq(Mark) /\ b % 2 = 0 /\ 1 <= Len(rest) /\ 0 <= b
    /\ ~rest[1].is_start /\ end <= rest[1].pos
    /\ \A i \in 2 .. Len(rest) : /\ rest[i].pos = m[b + i - 1].pos + offset
                                 /\ rest[i].is_start = m[b + i - 1].is_start
                                 /\ rest[1].pos < rest[i].pos
    /\ \A i \in 1 .. b : m[i].pos + offset <= rest[1].pos
    /\ end < rest[1].pos => /\ 2 <= b /\ m[b].pos + offset = rest[1].pos
                            /\ m[b - 1].pos + offset <= end

\* `new' is `kept' and `rest', one after the other.
Joins(new, kept, rest) ==
    /\ new \in Seq(Mark) /\ Len(new) = Len(kept) + Len(rest)
    /\ \A i \in 1 .. Len(new) : new[i] = IF i <= Len(kept) THEN kept[i] ELSE rest[i - Len(kept)]

LEMMA Joining ==
    ASSUME NEW kept \in Seq(Mark), NEW rest \in Seq(Mark)
    PROVE  Joins(kept \o rest, kept, rest)
BY ConcatProperties DEF Joins

\* The text from `start' to `end' and what it touches are one region.
LEMMA Merged ==
    ASSUME NEW m, NEW n \in Nat, Good(m, n), NEW start \in Int, NEW end \in Int, start < end,
           NEW offset \in Int, end <= n + offset,
           NEW kept, Opens(m, start, kept), NEW rest, Closes(m, end, offset, rest),
           NEW new, Joins(new, kept, rest)
    PROVE  /\ Good(new, n + offset)
           /\ \A x \in 1 .. n + offset :
                  InRegion(new, x) <=> IF x <= start THEN InRegion(m, x)
                                       ELSE x <= end \/ InRegion(m, x - offset)
<1>. DEFINE q == Len(kept)
            b == Len(m) + 1 - Len(rest)
            S == kept[q].pos
            E == rest[1].pos
            N == q + Len(rest)
<1>1. /\ m \in Seq(Mark) /\ Sorted(m) /\ Len(m) % 2 = 0
      /\ \A i \in 1 .. Len(m) : (m[i].is_start <=> i % 2 = 1) /\ m[i].pos \in 0 .. n
  BY DEF Good
<1>2. /\ kept \in Seq(Mark) /\ q % 2 = 1 /\ q <= Len(m) + 1
      /\ kept[q].is_start /\ 0 <= S /\ S <= start
      /\ \A i \in 1 .. q - 1 : kept[i] = m[i] /\ m[i].pos < S
      /\ \A i \in q .. Len(m) : S <= m[i].pos
      /\ S < start => q + 1 <= Len(m) /\ m[q].pos = S /\ start <= m[q + 1].pos
  BY DEF Opens
<1>3. /\ rest \in Seq(Mark) /\ b % 2 = 0 /\ 1 <= Len(rest) /\ 0 <= b
      /\ ~rest[1].is_start /\ end <= E
      /\ \A i \in 2 .. Len(rest) : /\ rest[i].pos = m[b + i - 1].pos + offset
                                   /\ rest[i].is_start = m[b + i - 1].is_start
                                   /\ E < rest[i].pos
      /\ \A i \in 1 .. b : m[i].pos + offset <= E
      /\ end < E => 2 <= b /\ m[b].pos + offset = E /\ m[b - 1].pos + offset <= end
  BY DEF Closes
<1>4. /\ Len(m) \in Nat /\ Len(kept) \in Nat /\ Len(rest) \in Nat
      /\ \A i \in 1 .. Len(m) : m[i].pos \in Int /\ m[i].is_start \in BOOLEAN
      /\ \A i \in 1 .. Len(kept) : kept[i].pos \in Int /\ kept[i].is_start \in BOOLEAN
      /\ \A i \in 1 .. Len(rest) : rest[i].pos \in Int /\ rest[i].is_start \in BOOLEAN
  BY <1>1, <1>2, <1>3, Marks
<1>5. /\ new \in Seq(Mark) /\ Len(new) = N
      /\ \A i \in 1 .. N : new[i] = IF i <= q THEN kept[i] ELSE rest[i - q]
  BY DEF Joins
<1>6. S \in Int /\ E \in Int /\ S < E /\ b \in 0 .. Len(m) /\ q \in 1 .. Len(m) + 1 /\ b \in Nat /\ q \in Nat
  BY <1>2, <1>3, <1>4, SMTT(30)
<1>s. S <= start /\ end <= E
  BY <1>2, <1>3
<1>. HIDE DEF S, E
<1>e. N \in Nat /\ N = q + 1 + Len(m) - b /\ q <= Len(m) + 1
  BY <1>4, <1>6
<1>7. /\ \A i \in 1 .. q - 1 : new[i] = m[i]
      /\ new[q].pos = S /\ new[q].is_start
      /\ new[q + 1].pos = E /\ ~new[q + 1].is_start
      /\ \A i \in q + 2 .. N : /\ new[i].pos = m[b + i - q - 1].pos + offset
                               /\ new[i].is_start = m[b + i - q - 1].is_start
                               /\ E < new[i].pos
  <2>0. q \in Nat /\ q >= 1 /\ Len(rest) \in Nat /\ Len(rest) >= 1 /\ N = q + Len(rest)
    BY <1>3, <1>4, <1>6
  <2>2. ASSUME NEW i \in 1 .. q - 1 PROVE new[i] = m[i]
    <3>1. i \in 1 .. N /\ i <= q
      BY <2>0
    <3>2. new[i] = kept[i]
      BY <1>5, <3>1
    <3> QED BY <1>2, <3>2
  <2>3. new[q] = kept[q] /\ new[q + 1] = rest[1]
    <3>1. q \in 1 .. N /\ q + 1 \in 1 .. N /\ ~(q + 1 <= q) /\ q + 1 - q = 1 /\ q <= q
      BY <2>0
    <3>. HIDE DEF q, N
    <3> QED BY <1>5, <3>1
  <2>4. ASSUME NEW i \in q + 2 .. N
        PROVE  /\ new[i].pos = m[b + i - q - 1].pos + offset
               /\ new[i].is_start = m[b + i - q - 1].is_start
               /\ E < new[i].pos
    <3>1. new[i] = rest[i - q] /\ i - q \in 2 .. Len(rest)
      BY <1>4, <1>5, <1>6
    <3>2. b + (i - q) - 1 = b + i - q - 1
      BY <1>4, <1>6
    <3>. HIDE DEF b, q
    <3> QED BY <1>3, <3>1, <3>2
  <2> QED BY <1>2, <1>3, <2>2, <2>3, <2>4 DEF S, E
<1>n. /\ N \in Nat /\ q \in Nat /\ b \in Nat /\ Len(m) \in Nat /\ n \in Nat
      /\ S \in Int /\ E \in Int /\ S < E
      /\ 1 <= q /\ b <= Len(m)
  BY <1>4, <1>6, <1>e
<1>p. q % 2 = 1 /\ b % 2 = 0 /\ Len(m) % 2 = 0
  BY <1>1, <1>2, <1>3
<1>. HIDE DEF b, q, N
<1>a. ASSUME NEW i \in 1 .. q - 1
      PROVE  i \in 1 .. Len(m) /\ new[i] = m[i] /\ m[i].pos < S /\ m[i].pos \in Int
  <2>1. i \in 1 .. Len(m)
    BY <1>n, <1>e
  <2> QED BY <2>1, <1>2, <1>4, <1>7
<1>8. ASSUME NEW i \in 1 .. q PROVE new[i].pos <= S /\ new[i].pos \in Int
  <2>1. CASE i = q
    BY <2>1, <1>7, <1>n
  <2>2. CASE i # q
    <3>1. i \in 1 .. q - 1
      BY <2>2, <1>n
    <3> QED BY ONLY <3>1, <1>a, <1>n
  <2> QED BY <2>1, <2>2
<1>9. ASSUME NEW i \in 1 .. q + 1 PROVE new[i].pos <= E /\ new[i].pos \in Int
  <2>1. CASE i = q + 1
    BY <2>1, <1>7, <1>n
  <2>2. CASE i # q + 1
    <3>1. i \in 1 .. q
      BY <2>2, <1>n
    <3> QED BY ONLY <3>1, <1>8, <1>n
  <2> QED BY <2>1, <2>2
<1>10. Sorted(new)
  <2>. SUFFICES ASSUME NEW i \in 1 .. N, NEW j \in 1 .. N, i < j
                PROVE  new[i].pos < new[j].pos
    BY <1>5 DEF Sorted
  <2>1. CASE j < q
    <3>1. i \in 1 .. q - 1 /\ j \in 1 .. q - 1 /\ i \in 1 .. Len(m) /\ j \in 1 .. Len(m)
      BY <2>1, <1>n, <1>e
    <3>2. m[i].pos < m[j].pos
      BY <1>1, <3>1 DEF Sorted
    <3> QED BY <1>a, <3>1, <3>2
  <2>2. CASE j = q
    <3>1. i \in 1 .. q - 1
      BY <2>2, <1>n
    <3> QED BY <2>2, <3>1, <1>a, <1>7
  <2>3. CASE j = q + 1
    <3>1. i \in 1 .. q
      BY <2>3, <1>n
    <3> QED BY ONLY <2>3, <3>1, <1>n, <1>7, <1>8
  <2>4. CASE j >= q + 2 /\ i < q + 2
    <3>1. i \in 1 .. q + 1 /\ j \in q + 2 .. N
      BY <2>4, <1>n, <1>7
    <3>2. new[i].pos <= E /\ new[i].pos \in Int /\ E < new[j].pos
      BY <3>1, <1>7, <1>9
    <3>3. new[j].pos \in Int
      BY <1>5, Marks
    <3> QED BY ONLY <3>2, <3>3, <1>n
  <2>5. CASE j >= q + 2 /\ i >= q + 2
    <3>1. i \in q + 2 .. N /\ j \in q + 2 .. N
      BY <2>5, <1>n, <1>7
    <3>2. b + i - q - 1 \in 1 .. Len(m) /\ b + j - q - 1 \in 1 .. Len(m) /\ b + i - q - 1 < b + j - q - 1
      BY <3>1, <1>n, <1>e
    <3>3. m[b + i - q - 1].pos < m[b + j - q - 1].pos
      BY <1>1, <3>2 DEF Sorted
    <3>4. m[b + i - q - 1].pos \in Int /\ m[b + j - q - 1].pos \in Int
      BY <1>4, <3>2
    <3>5. /\ new[i].pos = m[b + i - q - 1].pos + offset
          /\ new[j].pos = m[b + j - q - 1].pos + offset
      BY <3>1, <1>7
    <3> QED BY ONLY <3>3, <3>4, <3>5
  <2>6. j < q \/ j = q \/ j = q + 1 \/ (j >= q + 2 /\ i < q + 2) \/ (j >= q + 2 /\ i >= q + 2)
    BY <1>n
  <2> QED BY <2>1, <2>2, <2>3, <2>4, <2>5, <2>6
<1>11. N % 2 = 0
  BY <1>n, <1>e, <1>p
<1>12. ASSUME NEW i \in 1 .. N
       PROVE  (new[i].is_start <=> i % 2 = 1) /\ new[i].pos \in 0 .. n + offset
  <2>0. E <= n + offset
    <3>1. CASE end < E
      <4>1. 2 <= b /\ m[b].pos + offset = E /\ b \in 1 .. Len(m)
        BY <3>1, <1>3, <1>n DEF E
      <4> QED BY ONLY <4>1, <1>1, <1>n
    <3>2. CASE end = E
      BY <3>2
    <3> QED BY <3>1, <3>2, <1>3, <1>n
  <2>1. CASE i < q
    <3>1. i \in 1 .. q - 1
      BY <2>1, <1>n
    <3>2. i \in 1 .. Len(m) /\ new[i] = m[i] /\ m[i].pos < S
      BY <3>1, <1>a
    <3>3. (m[i].is_start <=> i % 2 = 1) /\ m[i].pos \in 0 .. n
      BY <3>2, <1>1
    <3> QED BY ONLY <3>2, <3>3, <2>0, <1>n
  <2>2. CASE i = q
    BY <2>2, <2>0, <1>2, <1>n, <1>7
  <2>3. CASE i = q + 1
    <3>1. i % 2 = 0
      BY <2>3, <1>n, <1>p
    <3>2. E \in 0 .. n + offset
      BY <2>0, <1>2, <1>n
    <3> QED BY <2>3, <3>1, <3>2, <1>7
  <2>4. CASE i > q + 1
    <3>. DEFINE k == b + i - q - 1
    <3>1. i \in q + 2 .. N /\ k \in 1 .. Len(m)
      BY <2>4, <1>4, <1>n, <1>e, <1>7
    <3>2. k % 2 = i % 2
      BY <1>n, <1>p, <3>1
    <3>3. new[i].pos = m[k].pos + offset /\ new[i].is_start = m[k].is_start /\ E < new[i].pos
      BY <3>1, <1>7
    <3>4. (m[k].is_start <=> k % 2 = 1) /\ m[k].pos \in 0 .. n
      BY <1>1, <3>1
    <3>. HIDE DEF k
    <3>5. 0 <= E
      BY <1>2, <1>n
    <3>6. new[i].pos \in 0 .. n + offset
      <4>1. m[k].pos \in Int /\ m[k].pos <= n /\ new[i].pos \in Int
        BY <3>3, <3>4
      <4>2. m[k].pos + offset <= n + offset /\ n + offset \in Int
        BY ONLY <4>1, <1>n
      <4>3. 0 <= new[i].pos
        BY ONLY <3>3, <3>5, <4>1, <1>n
      <4> QED BY <3>3, <4>1, <4>2, <4>3
    <3> QED BY <3>2, <3>3, <3>4, <3>6
  <2> QED BY <2>1, <2>2, <2>3, <2>4, <1>n
<1>13. Good(new, n + offset)
  BY <1>5, <1>10, <1>11, <1>12 DEF Good
<1>14. ASSUME NEW x \in 1 .. n + offset
       PROVE  InRegion(new, x) <=> IF x <= start THEN InRegion(m, x)
                                   ELSE x <= end \/ InRegion(m, x - offset)
  <2>0. \A y \in Int : InRegion(m, y) <=>
            \E i \in 1 .. Len(m) - 1 : i % 2 = 1 /\ m[i].pos < y /\ y <= m[i + 1].pos
    BY <1>1, RegionsAre
  <2>1. InRegion(new, x) <=>
            \E i \in 1 .. N - 1 : i % 2 = 1 /\ new[i].pos < x /\ x <= new[i + 1].pos
    <3>1. x \in Int /\ new \in Seq(Mark) /\ Len(new) = N
      BY <1>5
    <3> QED BY <3>1, RegionsAre
  <2>2. x \in Int /\ x - offset \in Int /\ N - 1 >= q /\ q \in 1 .. N - 1
    BY <1>4, <1>n, <1>e, <1>7
  <2>3. S < x /\ x <= E => InRegion(new, x)
    BY <2>1, <2>2, <1>2, <1>7
  <2>4. ASSUME NEW i \in 1 .. N - 1, i % 2 = 1, new[i].pos < x, x <= new[i + 1].pos
        PROVE  IF x <= start THEN InRegion(m, x) ELSE x <= end \/ InRegion(m, x - offset)
    <3>1. CASE i < q
      <4>1. i \in 1 .. q - 1 /\ i + 1 \in 1 .. q - 1 /\ i \in 1 .. Len(m) - 1
        <5>1. i \in Int /\ 1 <= i /\ i + 1 < q
          BY <3>1, <2>4, <1>p, <1>n, Parity
        <5> QED BY <5>1, <1>n, <1>e
      <4>2. new[i] = m[i] /\ new[i + 1] = m[i + 1] /\ m[i + 1].pos < S /\ m[i + 1].pos \in Int
        BY <4>1, <1>a
      <4>3. InRegion(m, x)
        BY <4>1, <4>2, <2>0, <2>2, <2>4
      <4>4. x <= start
        <5>1. x <= m[i + 1].pos /\ S <= start
          BY <4>2, <2>4, <1>2
        <5>2. m[i + 1].pos < S /\ m[i + 1].pos \in Int
          BY <4>2
        <5> QED BY ONLY <5>1, <5>2, <2>2, <1>n
      <4> QED BY <4>3, <4>4
    <3>2. CASE i = q
      <4>1. S < x /\ x <= E
        BY <3>2, <2>4, <1>7
      <4>2. CASE x <= start
        <5>1. q + 1 <= Len(m) /\ m[q].pos = S /\ start <= m[q + 1].pos
          BY <4>1, <4>2, <1>2, <1>n
        <5>2. q \in 1 .. Len(m) - 1 /\ q + 1 \in 1 .. Len(m)
          BY <5>1, <1>4, <1>n
        <5>3. x <= m[q + 1].pos
          BY ONLY <4>2, <5>1, <5>2, <1>4
        <5> QED BY ONLY <4>1, <4>2, <5>1, <5>2, <5>3, <2>0, <1>2
      <4>3. CASE ~(x <= start) /\ ~(x <= end)
        <5>1. 2 <= b /\ m[b].pos + offset = E /\ m[b - 1].pos + offset <= end
          BY <4>1, <4>3, <1>3, <1>n DEF E
        <5>2. b - 1 \in 1 .. Len(m) - 1 /\ b \in 1 .. Len(m) /\ (b - 1) % 2 = 1
          BY <5>1, <1>p, <1>n, <1>e, Parity
        <5>3. m[b - 1].pos \in Int /\ m[b].pos \in Int
          BY <5>2, <1>4
        <5>4. m[b - 1].pos < x - offset /\ x - offset <= m[b].pos
          <6>1. end < x
            BY <4>3, <2>2
          <6>2. m[b - 1].pos + offset < x /\ x <= m[b].pos + offset
            <7>1. m[b - 1].pos + offset < x
              BY ONLY <5>1, <5>3, <6>1, <2>2
            <7>2. x <= m[b].pos + offset
              BY ONLY <5>1, <4>1
            <7> QED BY <7>1, <7>2
          <6> QED BY <5>3, <6>2, <2>2, Shift
        <5>5. (b - 1) + 1 = b
          BY <1>n
        <5>6. InRegion(m, x - offset)
          BY <5>2, <5>4, <5>5, <2>0, <2>2
        <5> QED BY <5>6, <4>3
      <4> QED BY <4>2, <4>3
    <3>3. CASE i > q
      <4>. DEFINE k == b + i - q - 1
      <4>1. i \in q + 2 .. N /\ i + 1 \in q + 2 .. N
        <5>1. q + 1 < i
          <6>1. q + 1 <= i /\ i # q + 1
            BY <3>3, <2>4, <1>p, <1>n, Parity
          <6> QED BY <6>1, <1>n
        <5> QED BY <5>1, <1>n
      <4>2. k \in 1 .. Len(m) - 1 /\ k + 1 \in 1 .. Len(m) /\ k % 2 = 1
        <5>1. k \in 1 .. Len(m) - 1 /\ k + 1 \in 1 .. Len(m)
          BY ONLY <4>1, <1>n, <1>e
        <5>2. k % 2 = 1
          BY ONLY <2>4, <1>p, <1>n
        <5> QED BY <5>1, <5>2
      <4>3. new[i].pos = m[k].pos + offset /\ E < new[i].pos
        BY <4>1, <1>7
      <4>4. new[i + 1].pos = m[k + 1].pos + offset
        <5>1. b + (i + 1) - q - 1 = k + 1
          BY <1>n
        <5>. HIDE DEF k
        <5>2. new[i + 1].pos = m[b + (i + 1) - q - 1].pos + offset
          BY <4>1, <1>7
        <5> QED BY <5>1, <5>2
      <4>. HIDE DEF k
      <4>5. m[k].pos \in Int /\ m[k + 1].pos \in Int
        BY <4>2, <1>4
      <4>6. m[k].pos < x - offset /\ x - offset <= m[k + 1].pos /\ E < x
        <5>1. new[i].pos < x /\ x <= new[i + 1].pos
          BY <2>4
        <5>2. m[k].pos + offset < x /\ x <= m[k + 1].pos + offset
          BY <4>3, <4>4, <5>1
        <5>3. E < x
          <6>1. new[i].pos \in Int
            BY <4>3, <4>5
          <6> QED BY ONLY <4>3, <5>1, <6>1, <2>2, <1>n
        <5> QED BY <4>5, <5>2, <5>3, <2>2, Shift
      <4>7. InRegion(m, x - offset)
        BY <4>2, <4>6, <2>0, <2>2
      <4>8. start < x
        <5>1. end <= E
          BY <1>3 DEF E
        <5> QED BY <4>6, <5>1, <2>2, <1>n
      <4> QED BY <4>7, <4>8
    <3> QED BY <3>1, <3>2, <3>3, <1>n
  <2>5. ASSUME x <= start, InRegion(m, x) PROVE InRegion(new, x)
    <3>1. CASE S < x
      <4>1. x <= E
        BY <2>5, <1>3, <1>n DEF E
      <4> QED BY <3>1, <4>1, <2>3
    <3>2. CASE x <= S
      <4>1. PICK i \in 1 .. Len(m) - 1 : i % 2 = 1 /\ m[i].pos < x /\ x <= m[i + 1].pos
        BY <2>0, <2>2, <2>5
      <4>2. i < q
        <5>1. i \in 1 .. Len(m) /\ m[i].pos \in Int
          BY <1>4
        <5>2. i >= q => S <= m[i].pos
          BY <5>1, <1>2, <1>n
        <5> QED BY ONLY <3>2, <4>1, <5>1, <5>2, <1>n
      <4>3. i \in 1 .. q - 1 /\ i + 1 \in 1 .. q - 1 /\ i \in 1 .. N - 1
        <5>1. i \in Int /\ 1 <= i /\ i < q /\ i % 2 = 1 /\ q % 2 = 1 /\ q \in Int
          BY <4>1, <4>2, <1>p, <1>n
        <5>2. i + 1 < q
          BY ONLY <5>1, Parity
        <5>3. q <= N
          BY <1>n, <1>e
        <5> QED BY <5>1, <5>2, <5>3, <1>n
      <4>4. new[i] = m[i] /\ new[i + 1] = m[i + 1]
        BY <4>3, <1>a
      <4> QED BY <4>1, <4>3, <4>4, <2>1
    <3> QED BY <3>1, <3>2, <1>n
  <2>6. ASSUME ~(x <= start), x <= end PROVE InRegion(new, x)
    <3>1. S < x /\ x <= E
      BY ONLY <2>6, <1>s, <1>n
    <3> QED BY <3>1, <2>3
  <2>7. ASSUME ~(x <= start), ~(x <= end), InRegion(m, x - offset) PROVE InRegion(new, x)
    <3>0. S < x
      BY <2>7, <1>2, <1>n
    <3>1. CASE x <= E
      BY <3>0, <3>1, <2>3
    <3>2. CASE E < x
      <4>1. PICK i \in 1 .. Len(m) - 1 : /\ i % 2 = 1 /\ m[i].pos < x - offset
                                         /\ x - offset <= m[i + 1].pos
        BY <2>0, <2>2, <2>7
      <4>2. i \in 1 .. Len(m) /\ i + 1 \in 1 .. Len(m) /\ m[i].pos \in Int /\ m[i + 1].pos \in Int
        BY ONLY <1>4
      <4>3. i + 1 > b
        <5>1. i + 1 <= b => m[i + 1].pos + offset <= E
          BY <4>2, <1>3, <1>n DEF E
        <5> QED BY ONLY <3>2, <4>1, <4>2, <5>1, <2>2, <1>n
      <4>. DEFINE j == i + q + 1 - b
      <4>4. j \in q + 2 .. N /\ j + 1 \in q + 2 .. N /\ j \in 1 .. N - 1 /\ j % 2 = 1
        <5>1. b < i /\ i \in Int
          <6>1. b <= i /\ i % 2 # b % 2
            BY <4>1, <4>3, <1>p, <1>n
          <6> QED BY <6>1, <1>n
        <5>2. j \in q + 2 .. N /\ j + 1 \in q + 2 .. N /\ j \in 1 .. N - 1
          BY ONLY <4>1, <5>1, <1>n, <1>e
        <5>3. j % 2 = 1
          BY ONLY <4>1, <5>1, <1>p, <1>n, Parity
        <5> QED BY <5>2, <5>3
      <4>5. b + j - q - 1 = i /\ b + (j + 1) - q - 1 = i + 1
        BY <4>2, <1>n
      <4>. HIDE DEF j
      <4>6. new[j].pos = m[i].pos + offset /\ new[j + 1].pos = m[i + 1].pos + offset
        <5>1. new[j].pos = m[b + j - q - 1].pos + offset
          BY <4>4, <1>7
        <5>2. new[j + 1].pos = m[b + (j + 1) - q - 1].pos + offset
          BY <4>4, <1>7
        <5> QED BY <4>5, <5>1, <5>2
      <4>7. new[j].pos < x /\ x <= new[j + 1].pos
        <5>1. m[i].pos + offset < x /\ x <= m[i + 1].pos + offset
          <6>1. m[i].pos < x - offset /\ x - offset <= m[i + 1].pos
            BY <4>1
          <6>2. x \in Int /\ offset \in Int /\ m[i].pos \in Int /\ m[i + 1].pos \in Int
            BY <2>2, <4>2
          <6> QED BY ONLY <6>1, <6>2, Shift
        <5> QED BY <4>6, <5>1
      <4> QED BY <4>4, <4>7, <2>1
    <3> QED BY <3>1, <3>2, <1>n
  <2> QED BY <2>1, <2>4, <2>5, <2>6, <2>7
<1> QED BY <1>13, <1>14

-----------------------------------------------------------------------------
(* The parts of the list that the operations keep and move                 *)

LEMMA Part ==
    ASSUME NEW m \in Seq(Mark), NEW a \in 1 .. Len(m) + 1, NEW b \in 0 .. Len(m), a <= b + 1,
           NEW part, part = SubSeq(m, a, b)
    PROVE  /\ part \in Seq(Mark) /\ Len(part) = b + 1 - a
           /\ \A i \in 1 .. b + 1 - a : part[i] = m[a + i - 1]
<1>1. Len(m) \in Nat /\ \A i \in 1 .. Len(m) : m[i] \in Mark
  BY Marks
<1>2. a \in Int /\ b \in Int /\ \A i \in a .. b : m[i] \in Mark
  BY <1>1
<1>3. /\ part \in Seq(Mark)
      /\ Len(part) = IF a <= b THEN b - a + 1 ELSE 0
      /\ \A i \in 1 .. b - a + 1 : part[i] = m[a + i - 1]
  BY <1>2, SubSeqProperties
<1> QED BY <1>2, <1>3

LEMMA Prefix ==
    ASSUME NEW m \in Seq(Mark), NEW k \in 0 .. Len(m), NEW part, part = SubSeq(m, 1, k)
    PROVE  part \in Seq(Mark) /\ Len(part) = k /\ \A i \in 1 .. k : part[i] = m[i]
<1>1. Len(m) \in Nat /\ k \in Nat
  BY LenProperties
<1>2. 1 \in 1 .. Len(m) + 1 /\ 1 <= k + 1 /\ k + 1 - 1 = k /\ \A i \in 1 .. k : 1 + i - 1 = i
  BY <1>1
<1>3. part \in Seq(Mark) /\ Len(part) = k + 1 - 1 /\ \A i \in 1 .. k + 1 - 1 : part[i] = m[1 + i - 1]
  BY <1>2, Part
<1> QED BY ONLY <1>2, <1>3

LEMMA Suffix ==
    ASSUME NEW m \in Seq(Mark), NEW k \in 0 .. Len(m), NEW part, part = SubSeq(m, k + 1, Len(m))
    PROVE  /\ part \in Seq(Mark) /\ Len(part) = Len(m) - k
           /\ \A i \in 1 .. Len(m) - k : part[i] = m[k + i]
<1>1. Len(m) \in Nat /\ k \in Nat /\ k <= Len(m)
  BY LenProperties
<1>2. /\ k + 1 \in 1 .. Len(m) + 1 /\ Len(m) \in 0 .. Len(m) /\ k + 1 <= Len(m) + 1
      /\ Len(m) + 1 - (k + 1) = Len(m) - k
      /\ \A i \in 1 .. Len(m) - k : (k + 1) + i - 1 = k + i
  BY <1>1
<1>3. /\ part \in Seq(Mark) /\ Len(part) = Len(m) + 1 - (k + 1)
      /\ \A i \in 1 .. Len(m) + 1 - (k + 1) : part[i] = m[(k + 1) + i - 1]
  BY <1>2, Part
<1> QED BY ONLY <1>2, <1>3

LEMMA Moved ==
    ASSUME NEW m \in Seq(Mark), NEW offset \in Int, NEW moved, moved = update_offset(m, offset)
    PROVE  /\ moved \in Seq(Mark) /\ Len(moved) = Len(m)
           /\ \A i \in 1 .. Len(m) : /\ moved[i].pos = m[i].pos + offset
                                     /\ moved[i].is_start = m[i].is_start
<1>. DEFINE at(i) == [m[i] EXCEPT !.pos = @ + offset]
<1>1. Len(m) \in Nat /\ DOMAIN m = 1 .. Len(m)
      /\ \A i \in 1 .. Len(m) : m[i] \in Mark /\ m[i].pos \in Int
  BY Marks
<1>2. moved = [i \in 1 .. Len(m) |-> at(i)]
  BY <1>1 DEF update_offset
<1>3. ASSUME NEW i \in 1 .. Len(m)
      PROVE  at(i) \in Mark /\ at(i).pos = m[i].pos + offset /\ at(i).is_start = m[i].is_start
  BY <1>1, SMTT(30) DEF Mark
<1>. HIDE DEF at
<1>4. moved \in Seq(Mark) /\ Len(moved) = Len(m)
  BY <1>1, <1>2, <1>3
<1>5. \A i \in 1 .. Len(m) : moved[i] = at(i)
  BY <1>2
<1> QED BY <1>3, <1>4, <1>5

LEMMA One ==
    ASSUME NEW p \in Int
    PROVE  /\ Start(p) \in Mark /\ Start(p).pos = p /\ Start(p).is_start
           /\ End(p) \in Mark /\ End(p).pos = p /\ ~End(p).is_start
           /\ <<Start(p)>> \in Seq(Mark) /\ Len(<<Start(p)>>) = 1 /\ <<Start(p)>>[1] = Start(p)
           /\ <<End(p)>> \in Seq(Mark) /\ Len(<<End(p)>>) = 1 /\ <<End(p)>>[1] = End(p)
<1>1. /\ Start(p) \in Mark /\ Start(p).pos = p /\ Start(p).is_start
      /\ End(p) \in Mark /\ End(p).pos = p /\ ~End(p).is_start
  BY DEF Start, End, Mark
<1> QED BY <1>1

\* What Good says of neighbours.
LEMMA Alternate ==
    ASSUME NEW m, NEW n \in Nat, Good(m, n)
    PROVE  /\ m \in Seq(Mark) /\ Len(m) \in Nat /\ Len(m) % 2 = 0 /\ Sorted(m)
           /\ \A i \in 1 .. Len(m) : /\ m[i] \in Mark /\ m[i].pos \in Int
                                     /\ 0 <= m[i].pos /\ m[i].pos <= n
                                     /\ m[i].is_start <=> i % 2 = 1
           /\ \A i, j \in 1 .. Len(m) : i <= j => m[i].pos <= m[j].pos
<1>1. m \in Seq(Mark) /\ Sorted(m) /\ Len(m) % 2 = 0 /\ Len(m) \in Nat
      /\ \A i \in 1 .. Len(m) : m[i] \in Mark /\ m[i].pos \in Int
  BY Marks DEF Good
<1>2. ASSUME NEW i \in 1 .. Len(m)
      PROVE  0 <= m[i].pos /\ m[i].pos <= n /\ (m[i].is_start <=> i % 2 = 1)
  BY DEF Good
<1>3. ASSUME NEW i \in 1 .. Len(m), NEW j \in 1 .. Len(m), i <= j
      PROVE  m[i].pos <= m[j].pos
  <2>1. CASE i < j
    BY <2>1, <1>1 DEF Sorted
  <2>2. CASE i = j
    BY <2>2, <1>1
  <2> QED BY <2>1, <2>2, <1>1, <1>3
<1> QED BY <1>1, <1>2, <1>3

\* What markregion_insert and markregion_delete keep of the list before `start', with the
\* start of the new region.
Kept(m, start) ==
    LET at == find_prev_or_equal_position(m, start)
    IN IF at # 0 /\ m[at].is_start THEN SubSeq(m, 1, at)
       ELSE IF at # 0 /\ m[at].pos = start THEN SubSeq(m, 1, at - 1)
       ELSE SubSeq(m, 1, at) \o <<Start(start)>>

LEMMA OpensWith ==
    ASSUME NEW m, NEW start, NEW kept \in Seq(Mark), NEW k, Len(kept) = k,
           k % 2 = 1 /\ k <= Len(m) + 1,
           kept[k].is_start /\ 0 <= kept[k].pos /\ kept[k].pos <= start,
           \A i \in 1 .. k - 1 : kept[i] = m[i] /\ m[i].pos < kept[k].pos,
           \A i \in k .. Len(m) : kept[k].pos <= m[i].pos,
           kept[k].pos < start =>
               k + 1 <= Len(m) /\ m[k].pos = kept[k].pos /\ start <= m[k + 1].pos
    PROVE  Opens(m, start, kept)
BY DEF Opens

LEMMA KeptOpens ==
    ASSUME NEW m, NEW n \in Nat, Good(m, n), NEW start \in Nat
    PROVE  Opens(m, start, Kept(m, start))
<1>. DEFINE at == find_prev_or_equal_position(m, start)
            kept == Kept(m, start)
            q == Len(kept)
<1>1. /\ m \in Seq(Mark) /\ Len(m) \in Nat /\ Len(m) % 2 = 0 /\ Sorted(m)
      /\ \A i \in 1 .. Len(m) : /\ m[i] \in Mark /\ m[i].pos \in Int
                                /\ 0 <= m[i].pos /\ m[i].pos <= n
                                /\ m[i].is_start <=> i % 2 = 1
      /\ \A i, j \in 1 .. Len(m) : i <= j => m[i].pos <= m[j].pos
  BY Alternate
<1>2. /\ at \in 0 .. Len(m)
      /\ \A i \in 1 .. at : m[i].pos <= start
      /\ \A i \in at + 1 .. Len(m) : start < m[i].pos
  <2>1. m \in Seq(Mark) /\ Sorted(m) /\ start \in Int
    BY <1>1
  <2> QED BY ONLY <2>1, PrevOrEqual
<1>3. kept = IF at # 0 /\ m[at].is_start THEN SubSeq(m, 1, at)
             ELSE IF at # 0 /\ m[at].pos = start THEN SubSeq(m, 1, at - 1)
             ELSE SubSeq(m, 1, at) \o <<Start(start)>>
  BY DEF Kept
<1>. SUFFICES Opens(m, start, kept)
  OBVIOUS
<1>. HIDE DEF at, kept
<1>4. at \in Nat /\ at <= Len(m) /\ start \in Int /\ 0 <= start
  BY <1>1, <1>2
<1>s. ASSUME kept = SubSeq(m, 1, at) \o <<Start(start)>>, at % 2 = 0,
             \A i \in 1 .. at : m[i].pos < start
      PROVE  Opens(m, start, kept)
  <2>. DEFINE before == SubSeq(m, 1, at)
              new == <<Start(start)>>
  <2>1. before \in Seq(Mark) /\ Len(before) = at /\ \A i \in 1 .. at : before[i] = m[i]
    <3>1. 1 \in 1 .. Len(m) + 1 /\ at \in 0 .. Len(m) /\ 1 <= at + 1
      BY <1>1, <1>4
    <3>2. before \in Seq(Mark) /\ Len(before) = at + 1 - 1 /\ \A i \in 1 .. at + 1 - 1 : before[i] = m[1 + i - 1]
      BY <3>1, <1>1, Part
    <3>3. at + 1 - 1 = at /\ \A i \in 1 .. at : 1 + i - 1 = i
      BY <1>4
    <3>. HIDE DEF before
    <3> QED BY <3>2, <3>3
  <2>2. new \in Seq(Mark) /\ Len(new) = 1 /\ new[1] = Start(start) /\ Start(start).pos = start
        /\ Start(start).is_start
    BY <1>4, One
  <2>3. kept = before \o new
    BY <1>s
  <2>. HIDE DEF before, new
  <2>4. /\ kept \in Seq(Mark) /\ q = at + 1
        /\ \A i \in 1 .. q : kept[i] = IF i <= at THEN before[i] ELSE new[i - at]
    <3>1. Joins(kept, before, new)
      BY <2>1, <2>2, <2>3, Joining
    <3>2. kept \in Seq(Mark) /\ q = at + 1
      BY <2>1, <2>2, <3>1 DEF Joins
    <3> QED BY <2>1, <3>1, <3>2 DEF Joins
  <2>5. /\ \A i \in 1 .. at : kept[i] = m[i] /\ m[i].pos < start
        /\ kept[at + 1].pos = start /\ kept[at + 1].is_start
    <3>1. at + 1 \in 1 .. q /\ ~(at + 1 <= at) /\ at + 1 - at = 1 /\ \A i \in 1 .. at : i \in 1 .. q /\ i <= at
      BY <2>4, <1>4
    <3>. HIDE DEF q
    <3>2. kept[at + 1] = new[1]
      BY <2>4, <3>1, <1>4
    <3> QED BY ONLY <2>1, <2>2, <2>4, <3>1, <3>2, <1>s
  <2>6. \A i \in at + 1 .. Len(m) : start <= m[i].pos
    <3>1. ASSUME NEW i \in at + 1 .. Len(m) PROVE start <= m[i].pos
      <4>1. i \in 1 .. Len(m)
        BY <1>1, <1>4
      <4> QED BY <4>1, <1>1, <1>2, <1>4
    <3> QED BY <3>1
  <2>7. (at + 1) % 2 = 1 /\ at + 1 <= Len(m) + 1 /\ start <= start /\ ~(start < start) /\ at + 1 - 1 = at
    BY <1>4, <1>s, Parity
  <2>8. q = at + 1 /\ kept \in Seq(Mark)
    BY <2>4
  <2>. HIDE DEF q
  <2>. DEFINE k == at + 1
  <2>9. /\ Len(kept) = k /\ k % 2 = 1 /\ k <= Len(m) + 1
        /\ kept[k].is_start /\ kept[k].pos = start
        /\ \A i \in 1 .. k - 1 : kept[i] = m[i] /\ m[i].pos < start
        /\ \A i \in k .. Len(m) : start <= m[i].pos
    <3>1. Len(kept) = k /\ k % 2 = 1 /\ k <= Len(m) + 1
      BY <2>7, <2>8 DEF q
    <3>2. kept[k].is_start /\ kept[k].pos = start
      BY <2>5
    <3>3. \A i \in 1 .. k - 1 : kept[i] = m[i] /\ m[i].pos < start
      <4>1. k - 1 = at
        BY <1>4
      <4>. HIDE DEF k
      <4> QED BY <4>1, <2>5
    <3>4. \A i \in k .. Len(m) : start <= m[i].pos
      BY <2>6
    <3> QED BY <3>1, <3>2, <3>3, <3>4
  <2>. HIDE DEF k
  <2> QED BY <2>7, <2>8, <2>9, <1>4, OpensWith
<1>5. CASE at # 0 /\ m[at].is_start
  <2>1. kept = SubSeq(m, 1, at) /\ at \in 1 .. Len(m) /\ 1 \in 1 .. Len(m) + 1 /\ at \in 0 .. Len(m)
    BY <1>3, <1>4, <1>5, <1>1
  <2>2. kept \in Seq(Mark) /\ q = at /\ \A i \in 1 .. at : kept[i] = m[i]
    <3>1. kept \in Seq(Mark) /\ Len(kept) = at + 1 - 1 /\ \A i \in 1 .. at + 1 - 1 : kept[i] = m[1 + i - 1]
      BY <2>1, <1>1, <1>4, Part
    <3>2. at + 1 - 1 = at /\ \A i \in 1 .. at : 1 + i - 1 = i
      BY <1>4
    <3> QED BY <3>1, <3>2
  <2>3. at % 2 = 1 /\ m[at].pos <= start /\ 0 <= m[at].pos /\ m[at].pos \in Int /\ kept[at] = m[at]
    BY <2>1, <2>2, <1>1, <1>2, <1>5, SMTT(30)
  <2>4. at + 1 <= Len(m) /\ at + 1 \in 1 .. Len(m) /\ start < m[at + 1].pos
    <3>1. at + 1 <= Len(m)
      BY <2>3, <1>1, <1>4, Parity
    <3> QED BY <3>1, <1>2, <1>4
  <2>5. \A i \in 1 .. at - 1 : m[i].pos < m[at].pos
    BY <2>1, <1>1, <1>4, SMTT(30) DEF Sorted
  <2>6. \A i \in at .. Len(m) : m[at].pos <= m[i].pos
    BY <2>1, <1>1, <1>4
  <2>7. start <= m[at + 1].pos
    BY <2>4, <1>1, <1>4
  <2>. HIDE DEF q
  <2>8. \A i \in 1 .. at - 1 : kept[i] = m[i]
    BY <2>2, <1>4
  <2>9. kept[at].is_start /\ 0 <= kept[at].pos /\ kept[at].pos <= start /\ kept[at].pos = m[at].pos
    BY <2>3, <1>5
  <2>10. /\ \A i \in 1 .. at - 1 : kept[i] = m[i] /\ m[i].pos < kept[at].pos
         /\ \A i \in at .. Len(m) : kept[at].pos <= m[i].pos
    BY <2>5, <2>6, <2>8, <2>9
  <2>11. kept[at].pos < start => at + 1 <= Len(m) /\ m[at].pos = kept[at].pos /\ start <= m[at + 1].pos
    BY <2>4, <2>7, <2>9
  <2>12. kept \in Seq(Mark) /\ Len(kept) = at /\ at % 2 = 1 /\ at <= Len(m) + 1
    <3>1. kept \in Seq(Mark) /\ Len(kept) = at
      BY <2>2 DEF q
    <3>2. at <= Len(m) + 1
      BY <1>1, <1>4
    <3> QED BY <3>1, <3>2, <2>3
  <2> QED BY <2>9, <2>10, <2>11, <2>12, OpensWith
<1>6. CASE at # 0 /\ ~m[at].is_start
  <2>1. at \in 1 .. Len(m) /\ at % 2 = 0 /\ at - 1 \in 1 .. Len(m) /\ (at - 1) % 2 = 1 /\ m[at - 1].is_start
    <3>1. at \in 1 .. Len(m)
      BY <1>4, <1>6
    <3>2. at % 2 = 0
      BY <3>1, <1>1, <1>6, <1>4, Parity
    <3>3. (at - 1) % 2 = 1 /\ at - 1 \in 1 .. Len(m)
      BY <3>1, <3>2, <1>4, Parity
    <3> QED BY <3>1, <3>2, <3>3, <1>1
  <2>2. CASE m[at].pos = start
    <3>1. kept = SubSeq(m, 1, at - 1) /\ 1 \in 1 .. Len(m) + 1 /\ at - 1 \in 0 .. Len(m) /\ 1 <= at - 1 + 1
      <4>1. kept = SubSeq(m, 1, at - 1)
        BY <2>2, <1>3, <1>6
      <4> QED BY <4>1, <2>1, <1>1, <1>4
    <3>2. kept \in Seq(Mark) /\ q = at - 1 /\ \A i \in 1 .. at - 1 : kept[i] = m[i]
      <4>1. m \in Seq(Mark)
        BY <1>1
      <4> QED BY ONLY <3>1, <4>1, Prefix
    <3>. DEFINE k == at - 1
    <3>3. k \in 1 .. Len(m) /\ k % 2 = 1 /\ k + 1 = at /\ m[k].is_start /\ q = k /\ k \in Nat
      BY <2>1, <3>2, <1>4
    <3>4. \A i \in 1 .. k : kept[i] = m[i]
      BY <3>2
    <3>. HIDE DEF k
    <3>5. m[k].pos < start /\ 0 <= m[k].pos /\ m[k].pos \in Int /\ kept[k] = m[k]
      BY <2>1, <2>2, <3>3, <3>4, <1>1 DEF Sorted
    <3>6. \A i \in 1 .. k - 1 : kept[i] = m[i] /\ m[i].pos < m[k].pos
      <4>1. ASSUME NEW i \in 1 .. k - 1 PROVE kept[i] = m[i] /\ m[i].pos < m[k].pos
        <5>1. i \in 1 .. k /\ i \in 1 .. Len(m) /\ i < k
          BY <3>3, <1>1
        <5> QED BY <5>1, <3>3, <3>4, <1>1 DEF Sorted
      <4> QED BY <4>1
    <3>7. \A i \in k .. Len(m) : m[k].pos <= m[i].pos
      BY <3>3, <1>1
    <3>8. k + 1 <= Len(m) /\ start <= m[k + 1].pos /\ k <= Len(m) + 1
      BY <2>1, <2>2, <3>3, <1>1
    <3>9. m[k].pos <= start
      BY <3>5
    <3>. HIDE DEF q
    <3>10. kept[k].is_start /\ 0 <= kept[k].pos /\ kept[k].pos <= start /\ kept[k].pos = m[k].pos
      BY <3>3, <3>5, <3>9
    <3> QED BY <3>2, <3>3, <3>5, <3>6, <3>7, <3>8, <3>10, OpensWith DEF q
  <2>3. CASE m[at].pos # start
    <3>1. kept = SubSeq(m, 1, at) \o <<Start(start)>> /\ at % 2 = 0
      BY <2>1, <2>3, <1>3, <1>6
    <3>2. \A i \in 1 .. at : m[i].pos < start
      <4>1. m[at].pos < start
        BY <2>1, <2>3, <1>1, <1>2, <1>4
      <4> QED BY <2>1, <4>1, <1>1, <1>4
    <3> QED BY <3>1, <3>2, <1>s
  <2> QED BY <2>2, <2>3
<1>7. CASE at = 0
  <2>1. kept = SubSeq(m, 1, at) \o <<Start(start)>>
    BY <1>3, <1>7
  <2>2. at % 2 = 0 /\ \A i \in 1 .. at : m[i].pos < start
    BY <1>7
  <2> QED BY <2>1, <2>2, <1>s
<1> QED BY <1>5, <1>6, <1>7 DEF kept

LEMMA ClosesWith ==
    ASSUME NEW m, NEW end, NEW offset, NEW rest \in Seq(Mark), NEW b \in Nat, NEW E,
           Len(rest) \in Nat, Len(m) \in Nat, Len(rest) = Len(m) + 1 - b, b <= Len(m), b % 2 = 0,
           ~rest[1].is_start /\ rest[1].pos = E /\ end <= E,
           \A i \in 2 .. Len(rest) : /\ rest[i].pos = m[b + i - 1].pos + offset
                                     /\ rest[i].is_start = m[b + i - 1].is_start
                                     /\ E < rest[i].pos,
           \A i \in 1 .. b : m[i].pos + offset <= E,
           end < E => 2 <= b /\ m[b].pos + offset = E /\ m[b - 1].pos + offset <= end
    PROVE  Closes(m, end, offset, rest)
<1>1. Len(m) + 1 - Len(rest) = b /\ 1 <= Len(rest) /\ 0 <= b
  OBVIOUS
<1> QED BY <1>1 DEF Closes

\* The end of the region is the first mark that is left ...
LEMMA ClosesAtAnEnd ==
    ASSUME NEW m, NEW n \in Nat, Good(m, n), NEW end \in Int, NEW offset \in Int,
           NEW k \in 1 .. Len(m), k % 2 = 0, end <= m[k].pos + offset,
           m[k - 1].pos + offset <= end,
           NEW rest, rest = update_offset(SubSeq(m, k, Len(m)), offset)
    PROVE  Closes(m, end, offset, rest)
<1>. DEFINE E == m[k].pos + offset
            part == SubSeq(m, k, Len(m))
<1>1. /\ m \in Seq(Mark) /\ Len(m) \in Nat /\ Len(m) % 2 = 0 /\ Sorted(m)
      /\ \A i \in 1 .. Len(m) : /\ m[i] \in Mark /\ m[i].pos \in Int
                                /\ 0 <= m[i].pos /\ m[i].pos <= n
                                /\ m[i].is_start <=> i % 2 = 1
      /\ \A i, j \in 1 .. Len(m) : i <= j => m[i].pos <= m[j].pos
  BY Alternate
<1>2. k \in Nat /\ 1 <= k /\ k <= Len(m) /\ E \in Int
  BY <1>1
<1>3. /\ part \in Seq(Mark) /\ Len(part) = Len(m) + 1 - k
      /\ \A i \in 1 .. Len(m) + 1 - k : part[i] = m[k + i - 1]
  <2>1. k \in 1 .. Len(m) + 1 /\ Len(m) \in 0 .. Len(m) /\ k <= Len(m) + 1
    BY ONLY <1>1, <1>2
  <2> QED BY ONLY <2>1, <1>1, Part
<1>4. /\ rest \in Seq(Mark) /\ Len(rest) = Len(m) + 1 - k
      /\ \A i \in 1 .. Len(m) + 1 - k : /\ rest[i].pos = m[k + i - 1].pos + offset
                                        /\ rest[i].is_start = m[k + i - 1].is_start
  <2>. HIDE DEF part
  <2>1. /\ rest \in Seq(Mark) /\ Len(rest) = Len(part)
        /\ \A i \in 1 .. Len(part) : /\ rest[i].pos = part[i].pos + offset
                                     /\ rest[i].is_start = part[i].is_start
    <3>1. part \in Seq(Mark) /\ rest = update_offset(part, offset)
      BY <1>3 DEF part
    <3>. HIDE DEF part
    <3> QED BY ONLY <3>1, Moved
  <2> QED BY <2>1, <1>3
<1>5. ~rest[1].is_start /\ rest[1].pos = E
  <2>1. 1 \in 1 .. Len(m) + 1 - k /\ k + 1 - 1 = k
    BY <1>1, <1>2
  <2>2. ~m[k].is_start
    BY <1>1
  <2> QED BY <2>1, <2>2, <1>4
<1>6. ASSUME NEW i \in 2 .. Len(rest)
      PROVE  /\ rest[i].pos = m[k + i - 1].pos + offset
             /\ rest[i].is_start = m[k + i - 1].is_start
             /\ E < rest[i].pos
  <2>0. Len(m) \in Nat /\ Len(rest) = Len(m) + 1 - k
    BY <1>1, <1>4
  <2>1. i \in 1 .. Len(m) + 1 - k /\ k + i - 1 \in 1 .. Len(m) /\ k < k + i - 1
    BY ONLY <1>2, <2>0
  <2>2. m[k].pos < m[k + i - 1].pos /\ m[k].pos \in Int /\ m[k + i - 1].pos \in Int
    <3>. DEFINE j == k + i - 1
    <3>1. j \in 1 .. Len(m) /\ k \in 1 .. Len(m) /\ k < j
      BY <2>1
    <3>. HIDE DEF j
    <3>2. m[k].pos < m[j].pos /\ m[k].pos \in Int /\ m[j].pos \in Int
      BY ONLY <3>1, <1>1 DEF Sorted
    <3> QED BY <3>2 DEF j
  <2>3. rest[i].pos = m[k + i - 1].pos + offset /\ rest[i].is_start = m[k + i - 1].is_start
    BY <2>1, <1>4
  <2>4. E < rest[i].pos
    BY ONLY <2>2, <2>3
  <2> QED BY <2>3, <2>4
<1>7. ASSUME NEW i \in 1 .. k PROVE m[i].pos + offset <= E
  <2>0. Len(m) \in Nat
    BY <1>1
  <2>1. i \in 1 .. Len(m) /\ k \in 1 .. Len(m) /\ i <= k
    BY ONLY <1>2, <2>0
  <2>2. m[i].pos <= m[k].pos /\ m[i].pos \in Int /\ m[k].pos \in Int
    BY ONLY <2>1, <1>1
  <2> QED BY <2>2
<1>8. 2 <= k
  BY <1>2, Parity
<1>. HIDE DEF E
<1>9. end <= E /\ (end < E => 2 <= k /\ m[k].pos + offset = E /\ m[k - 1].pos + offset <= end)
  BY <1>8, ZenonT(40) DEF E
<1>10. Len(rest) \in Nat
  BY <1>1, <1>2, <1>4
<1>11. m \in Seq(Mark) /\ Len(m) \in Nat
  BY <1>1
<1> QED BY <1>2, <1>4, <1>5, <1>6, <1>7, <1>9, <1>10, <1>11, ClosesWith, ZenonT(40)

\* ... or a new one, before those that are left.
LEMMA ClosesBefore ==
    ASSUME NEW m, NEW n \in Nat, Good(m, n), NEW end \in Int, NEW offset \in Int,
           NEW b \in 0 .. Len(m), b % 2 = 0,
           \A i \in 1 .. b : m[i].pos + offset <= end,
           \A i \in b + 1 .. Len(m) : end < m[i].pos + offset,
           NEW rest, rest = <<End(end)>> \o update_offset(SubSeq(m, b + 1, Len(m)), offset)
    PROVE  Closes(m, end, offset, rest)
<1>. DEFINE part == SubSeq(m, b + 1, Len(m))
            moved == update_offset(part, offset)
            new == <<End(end)>>
<1>1. /\ m \in Seq(Mark) /\ Len(m) \in Nat
      /\ \A i \in 1 .. Len(m) : m[i].pos \in Int
  BY Alternate
<1>2. b \in Nat /\ b <= Len(m)
  BY <1>1
<1>3. /\ part \in Seq(Mark) /\ Len(part) = Len(m) - b
      /\ \A i \in 1 .. Len(m) - b : part[i] = m[b + i]
  <2>1. b + 1 \in 1 .. Len(m) + 1 /\ Len(m) \in 0 .. Len(m) /\ b + 1 <= Len(m) + 1
    BY <1>1, <1>2
  <2>2. /\ part \in Seq(Mark) /\ Len(part) = Len(m) + 1 - (b + 1)
        /\ \A i \in 1 .. Len(m) + 1 - (b + 1) : part[i] = m[(b + 1) + i - 1]
    BY <2>1, <1>1, Part
  <2>3. Len(m) + 1 - (b + 1) = Len(m) - b /\ \A i \in Int : (b + 1) + i - 1 = b + i
    BY <1>1, <1>2
  <2>. HIDE DEF part
  <2> QED BY <2>2, <2>3, <1>1, <1>2
<1>4. /\ moved \in Seq(Mark) /\ Len(moved) = Len(m) - b
      /\ \A i \in 1 .. Len(m) - b : /\ moved[i].pos = m[b + i].pos + offset
                                    /\ moved[i].is_start = m[b + i].is_start
  <2>. HIDE DEF part
  <2>1. /\ moved \in Seq(Mark) /\ Len(moved) = Len(part)
        /\ \A i \in 1 .. Len(part) : /\ moved[i].pos = part[i].pos + offset
                                     /\ moved[i].is_start = part[i].is_start
    BY ONLY <1>3, Moved
  <2> QED BY <2>1, <1>3
<1>5. new \in Seq(Mark) /\ Len(new) = 1 /\ new[1].pos = end /\ ~new[1].is_start
  BY One
<1>. HIDE DEF moved, new
<1>6. Joins(rest, new, moved)
  BY <1>4, <1>5, Joining DEF moved, new
<1>7. rest \in Seq(Mark) /\ Len(rest) = Len(m) + 1 - b
  BY <1>1, <1>2, <1>4, <1>5, <1>6 DEF Joins
<1>8. rest[1].pos = end /\ ~rest[1].is_start
  <2>1. 1 \in 1 .. Len(rest)
    BY <1>1, <1>2, <1>7
  <2> QED BY <2>1, <1>5, <1>6 DEF Joins
<1>9. ASSUME NEW i \in 2 .. Len(rest)
      PROVE  /\ rest[i].pos = m[b + i - 1].pos + offset
             /\ rest[i].is_start = m[b + i - 1].is_start
             /\ end < rest[i].pos
  <2>1. i \in 1 .. Len(rest) /\ ~(i <= 1) /\ i - 1 \in 1 .. Len(m) - b
    BY <1>1, <1>2, <1>7
  <2>2. rest[i] = moved[i - 1]
    BY <2>1, <1>5, <1>6 DEF Joins
  <2>3. b + (i - 1) = b + i - 1 /\ b + (i - 1) \in b + 1 .. Len(m)
    BY <2>1, <1>1, <1>2
  <2>4. /\ moved[i - 1].pos = m[b + (i - 1)].pos + offset
        /\ moved[i - 1].is_start = m[b + (i - 1)].is_start
    BY <2>1, <1>4
  <2> QED BY <2>2, <2>3, <2>4
<1>10. Len(rest) \in Nat /\ end <= end /\ ~(end < end)
  BY <1>1, <1>2, <1>7
<1> QED BY <1>1, <1>2, <1>7, <1>8, <1>9, <1>10, ClosesWith

LEMMA FromPart ==
    ASSUME NEW m \in Seq(Mark), Sorted(m), NEW at \in 0 .. Len(m), NEW p \in Int
    PROVE  \E k \in at .. Len(m) :
               /\ \A i \in at + 1 .. k : m[i].pos < p
               /\ \A i \in k + 1 .. Len(m) : p <= m[i].pos
               /\ From(SubSeq(m, at + 1, Len(m)), p) = SubSeq(m, k + 1, Len(m))
<1>. DEFINE part == SubSeq(m, at + 1, Len(m))
<1>1. Len(m) \in Nat /\ at \in Nat /\ at <= Len(m) /\ \A i \in 1 .. Len(m) : m[i].pos \in Int
  BY Marks
<1>2. /\ part \in Seq(Mark) /\ Len(part) = Len(m) - at
      /\ \A i \in 1 .. Len(m) - at : part[i] = m[at + i]
  <2>1. at + 1 \in 1 .. Len(m) + 1 /\ Len(m) \in 0 .. Len(m) /\ at + 1 <= Len(m) + 1
    BY <1>1
  <2>2. /\ part \in Seq(Mark) /\ Len(part) = Len(m) + 1 - (at + 1)
        /\ \A i \in 1 .. Len(m) + 1 - (at + 1) : part[i] = m[(at + 1) + i - 1]
    BY <2>1, Part
  <2>3. Len(m) + 1 - (at + 1) = Len(m) - at /\ \A i \in Int : (at + 1) + i - 1 = at + i
    BY <1>1
  <2>. HIDE DEF part
  <2> QED BY <2>2, <2>3, <1>1
<1>. HIDE DEF part
<1>3. Sorted(part)
  <2>. SUFFICES ASSUME NEW i \in 1 .. Len(part), NEW j \in 1 .. Len(part), i < j
                PROVE  part[i].pos < part[j].pos
    BY DEF Sorted
  <2>1. at + i \in 1 .. Len(m) /\ at + j \in 1 .. Len(m) /\ at + i < at + j
    BY <1>1, <1>2
  <2> QED BY <2>1, <1>2 DEF Sorted
<1>4. PICK j \in 0 .. Len(part) :
          /\ \A i \in 1 .. j : part[i].pos < p
          /\ \A i \in j + 1 .. Len(part) : p <= part[i].pos
          /\ From(part, p) = SubSeq(part, j + 1, Len(part))
  BY <1>2, <1>3, FromIs
<1>. DEFINE k == at + j
<1>5. k \in at .. Len(m) /\ j \in Nat /\ j <= Len(m) - at /\ k \in 0 .. Len(m) /\ Len(part) \in Nat
  BY <1>1, <1>2, <1>4
<1>6. ASSUME NEW i \in at + 1 .. k PROVE m[i].pos < p
  <2>1. i - at \in 1 .. j /\ i - at \in 1 .. Len(m) - at /\ at + (i - at) = i
    BY <1>1, <1>5
  <2> QED BY <2>1, <1>2, <1>4
<1>7. ASSUME NEW i \in k + 1 .. Len(m) PROVE p <= m[i].pos
  <2>1. i - at \in j + 1 .. Len(part) /\ i - at \in 1 .. Len(m) - at /\ at + (i - at) = i
    BY <1>1, <1>2, <1>5
  <2> QED BY <2>1, <1>2, <1>4
<1>8. SubSeq(part, j + 1, Len(part)) = SubSeq(m, k + 1, Len(m))
  <2>. DEFINE s == SubSeq(part, j + 1, Len(part))
              t == SubSeq(m, k + 1, Len(m))
  <2>1. /\ s \in Seq(Mark) /\ Len(s) = Len(part) + 1 - (j + 1)
        /\ \A i \in 1 .. Len(part) + 1 - (j + 1) : s[i] = part[(j + 1) + i - 1]
    <3>1. j + 1 \in 1 .. Len(part) + 1 /\ Len(part) \in 0 .. Len(part) /\ j + 1 <= Len(part) + 1
      BY <1>2, <1>5, <1>1
    <3> QED BY <3>1, <1>2, Part
  <2>2. /\ t \in Seq(Mark) /\ Len(t) = Len(m) + 1 - (k + 1)
        /\ \A i \in 1 .. Len(m) + 1 - (k + 1) : t[i] = m[(k + 1) + i - 1]
    <3>1. k + 1 \in 1 .. Len(m) + 1 /\ Len(m) \in 0 .. Len(m) /\ k + 1 <= Len(m) + 1
      BY <1>1, <1>5
    <3>. HIDE DEF k
    <3> QED BY <3>1, Part
  <2>. HIDE DEF s, t
  <2>3. Len(s) = Len(t) /\ Len(t) = Len(m) - k /\ Len(s) = Len(m) - k
    <3>1. Len(s) = Len(m) - at + 1 - (j + 1)
      BY <2>1, <1>2
    <3>2. Len(t) = Len(m) + 1 - (at + j + 1)
      BY <2>2
    <3> QED BY <3>1, <3>2, <1>1, <1>5
  <2>4. ASSUME NEW i \in 1 .. Len(s) PROVE s[i] = t[i]
    <3>1. /\ i \in 1 .. Len(part) + 1 - (j + 1) /\ i \in 1 .. Len(m) + 1 - (k + 1)
          /\ (j + 1) + i - 1 \in 1 .. Len(m) - at
          /\ at + ((j + 1) + i - 1) = (k + 1) + i - 1
      BY <2>3, <1>1, <1>2, <1>5
    <3>. HIDE DEF k
    <3>2. s[i] = part[(j + 1) + i - 1] /\ t[i] = m[(k + 1) + i - 1]
      BY <3>1, <2>1, <2>2
    <3>3. part[(j + 1) + i - 1] = m[at + ((j + 1) + i - 1)]
      BY <3>1, <1>2
    <3> QED BY <3>1, <3>2, <3>3
  <2>5. s = t
    BY <2>1, <2>2, <2>3, <2>4, SeqEqual
  <2> QED BY <2>5 DEF s, t
<1>. HIDE DEF k
<1> QED BY <1>4, <1>5, <1>6, <1>7, <1>8 DEF part

LEMMA TailMoved ==
    ASSUME NEW m \in Seq(Mark), NEW offset \in Int, NEW k \in 1 .. Len(m)
    PROVE  Tail(update_offset(SubSeq(m, k, Len(m)), offset)) =
               update_offset(SubSeq(m, k + 1, Len(m)), offset)
<1>. DEFINE L == Len(m)
            s == SubSeq(m, k, L)
            t == SubSeq(m, k + 1, L)
            ms == update_offset(s, offset)
            mt == update_offset(t, offset)
<1>1. L \in Nat /\ k \in Nat /\ 1 <= k /\ k <= L
  BY Marks
<1>2. s \in Seq(Mark) /\ Len(s) = L + 1 - k /\ \A i \in 1 .. L + 1 - k : s[i] = m[k + i - 1]
  <2>1. k \in 1 .. Len(m) + 1 /\ L \in 0 .. Len(m) /\ k <= L + 1
    BY <1>1
  <2> QED BY <2>1, Part
<1>3. t \in Seq(Mark) /\ Len(t) = L + 1 - (k + 1) /\ \A i \in 1 .. L + 1 - (k + 1) : t[i] = m[(k + 1) + i - 1]
  <2>1. k + 1 \in 1 .. Len(m) + 1 /\ L \in 0 .. Len(m) /\ k + 1 <= L + 1
    BY <1>1
  <2> QED BY <2>1, Part
<1>. HIDE DEF L, s, t
<1>4. \A i \in 1 .. L - k : t[i] = s[i + 1] /\ i + 1 \in 1 .. Len(s) /\ i \in 1 .. Len(t)
  <2>. SUFFICES ASSUME NEW i \in 1 .. L - k
                PROVE  t[i] = s[i + 1] /\ i + 1 \in 1 .. Len(s) /\ i \in 1 .. Len(t)
    OBVIOUS
  <2>1. /\ i + 1 \in 1 .. L + 1 - k /\ i \in 1 .. L + 1 - (k + 1)
        /\ k + (i + 1) - 1 = (k + 1) + i - 1
    BY <1>1
  <2>2. s[i + 1] = m[k + (i + 1) - 1] /\ t[i] = m[(k + 1) + i - 1]
    BY <2>1, <1>2, <1>3
  <2> QED BY <2>1, <2>2, <1>2, <1>3
<1>5. DOMAIN s = 1 .. Len(s) /\ DOMAIN t = 1 .. Len(t) /\ Len(t) = L - k /\ Len(s) = L - k + 1
  BY <1>1, <1>2, <1>3, Marks
<1>6. ms \in Seq(Mark) /\ Len(ms) = L - k + 1 /\ mt \in Seq(Mark) /\ Len(mt) = L - k
  <2>1. ms \in Seq(Mark) /\ Len(ms) = Len(s)
    BY <1>2, Moved
  <2>2. mt \in Seq(Mark) /\ Len(mt) = Len(t)
    BY <1>3, Moved
  <2>. HIDE DEF ms, mt
  <2> QED BY <2>1, <2>2, <1>5
<1>7. \A i \in 1 .. L - k : mt[i] = ms[i + 1]
  BY <1>4, <1>5 DEF update_offset
<1>. HIDE DEF ms, mt
<1>8. ms # <<>>
  BY <1>1, <1>6
<1>9. Tail(ms) \in Seq(Mark) /\ Len(Tail(ms)) = L - k /\ \A i \in 1 .. L - k : Tail(ms)[i] = ms[i + 1]
  BY <1>1, <1>6, <1>8, HeadTailProperties
<1>10. Tail(ms) = mt
  BY <1>6, <1>7, <1>9, SeqEqual
<1> QED BY <1>10 DEF ms, mt, s, t, L

-----------------------------------------------------------------------------
(* The operations                                                          *)

LEMMA InsertIs ==
    ASSUME NEW m, NEW n \in Nat, Good(m, n), NEW p \in 0 .. n, NEW k \in Nat \ {0},
           NEW new, new = markregion_insert(m, p, p + k)
    PROVE  /\ Good(new, n + k)
           /\ \A x \in 1 .. n + k :
                  InRegion(new, x) <=> IF x <= p THEN InRegion(m, x)
                                       ELSE x <= p + k \/ InRegion(m, x - k)
<1>. DEFINE at == find_prev_or_equal_position(m, p)
            end == p + k
            after == update_offset(SubSeq(m, at + 1, Len(m)), end - p)
            kept == Kept(m, p)
            E == <<End(end)>>
            A == SubSeq(m, 1, at)
            S == <<Start(p)>>
<1>1. /\ m \in Seq(Mark) /\ Len(m) \in Nat /\ Len(m) % 2 = 0 /\ Sorted(m)
      /\ \A i \in 1 .. Len(m) : /\ m[i] \in Mark /\ m[i].pos \in Int
                                /\ m[i].is_start <=> i % 2 = 1
  BY Alternate
<1>2. /\ at \in 0 .. Len(m)
      /\ \A i \in 1 .. at : m[i].pos <= p
      /\ \A i \in at + 1 .. Len(m) : p < m[i].pos
  <2>1. p \in Int
    OBVIOUS
  <2> QED BY <2>1, <1>1, PrevOrEqual
<1>3. /\ kept = IF at # 0 /\ m[at].is_start THEN A
                ELSE IF at # 0 /\ m[at].pos = p THEN SubSeq(m, 1, at - 1)
                ELSE A \o S
      /\ new = IF p = end THEN m
               ELSE IF at # 0 /\ m[at].is_start THEN A \o after
               ELSE IF at # 0 /\ m[at].pos = p THEN SubSeq(m, 1, at - 1) \o E \o after
               ELSE A \o <<Start(p), End(end)>> \o after
  BY DEF Kept, markregion_insert
<1>4. p # end /\ p < end /\ end - p = k /\ end \in Int /\ p \in Int /\ k \in Int /\ p \in Nat
      /\ end <= n + k
  OBVIOUS
<1>5. Opens(m, p, kept)
  BY <1>4, KeptOpens
<1>6. kept \in Seq(Mark)
  BY <1>5 DEF Opens
<1>. HIDE DEF at, end, kept
<1>7. at \in Nat /\ at <= Len(m) /\ (at # 0 => at \in 1 .. Len(m))
  BY <1>1, <1>2
<1>8. A \in Seq(Mark) /\ S \in Seq(Mark) /\ E \in Seq(Mark) /\ <<Start(p), End(end)>> = S \o E
  <2>1. A \in Seq(Mark)
    <3>1. 1 \in 1 .. Len(m) + 1 /\ 1 <= at + 1
      BY <1>1, <1>7
    <3> QED BY <3>1, <1>1, <1>2, Part
  <2> QED BY <2>1, <1>4, One
<1>9. after \in Seq(Mark)
  <2>1. at + 1 \in 1 .. Len(m) + 1 /\ Len(m) \in 0 .. Len(m) /\ at + 1 <= Len(m) + 1
    BY <1>1, <1>7
  <2>2. SubSeq(m, at + 1, Len(m)) \in Seq(Mark)
    BY <2>1, <1>1, Part
  <2> QED BY <2>2, <1>4, Moved
<1>10. ASSUME NEW rest, Closes(m, end, k, rest), new = kept \o rest
       PROVE  /\ Good(new, n + k)
              /\ \A x \in 1 .. n + k :
                     InRegion(new, x) <=> IF x <= p THEN InRegion(m, x)
                                          ELSE x <= end \/ InRegion(m, x - k)
  <2>1. Joins(new, kept, rest)
    <3>1. rest \in Seq(Mark)
      BY <1>10 DEF Closes
    <3> QED BY <3>1, <1>6, <1>10, Joining
  <2> QED BY <2>1, <1>4, <1>5, <1>10, Merged
<1>. SUFFICES \E rest : Closes(m, end, k, rest) /\ new = kept \o rest
  BY <1>10 DEF end
<1>11. CASE at # 0 /\ m[at].is_start
  <2>. DEFINE j == at + 1
  <2>1. at \in 1 .. Len(m) /\ at % 2 = 1
    BY <1>1, <1>7, <1>11
  <2>2. j \in 1 .. Len(m) /\ j % 2 = 0 /\ j - 1 = at /\ j \in at + 1 .. Len(m)
    <3>1. at < Len(m)
      BY <2>1, <1>1, <1>7
    <3> QED BY <3>1, <2>1, <1>1, <1>7, Parity
  <2>3. p < m[j].pos /\ m[j].pos \in Int /\ m[at].pos <= p /\ m[at].pos \in Int
    <3>1. at \in 1 .. at
      BY <1>7, <1>11
    <3> QED BY <2>1, <2>2, <3>1, <1>1, <1>2
  <2>4. after = update_offset(SubSeq(m, j, Len(m)), k)
    BY <1>4
  <2>. HIDE DEF after, j
  <2>5. end <= m[j].pos + k /\ m[at].pos + k <= end
    <3>1. end = p + k
      BY DEF end
    <3> QED BY <3>1, <2>3, <1>4
  <2>6. m[j - 1].pos + k <= end
    BY <2>2, <2>5
  <2>7. Closes(m, end, k, after)
    BY <2>2, <2>4, <2>5, <2>6, <1>4, ClosesAtAnEnd
  <2>8. new = kept \o after
    BY <1>3, <1>4, <1>11
  <2> QED BY <2>7, <2>8
<1>12. CASE ~(at # 0 /\ m[at].is_start)
  <2>1. Closes(m, end, k, E \o after)
    <3>1. at % 2 = 0
      BY <1>1, <1>7, <1>12, Parity
    <3>2. E \o after = <<End(end)>> \o update_offset(SubSeq(m, at + 1, Len(m)), k)
      BY <1>4
    <3>3. ASSUME NEW i \in 1 .. at PROVE m[i].pos + k <= end
      <4>1. m[i].pos <= p /\ m[i].pos \in Int
        <5>1. i \in 1 .. Len(m)
          BY <1>7
        <5>2. m[i].pos \in Int
          BY <5>1, <1>1
        <5> QED BY <5>2, <1>2
      <4> QED BY <4>1, <1>4 DEF end
    <3>4. ASSUME NEW i \in at + 1 .. Len(m) PROVE end < m[i].pos + k
      <4>1. p < m[i].pos /\ m[i].pos \in Int
        BY <1>1, <1>2, <1>7
      <4> QED BY <4>1, <1>4 DEF end
    <3>. HIDE DEF E, after
    <3> QED BY <3>1, <3>2, <3>3, <3>4, <1>2, <1>4, ClosesBefore
  <2>2. new = kept \o (E \o after)
    <3>0. (kept \o E) \o after = kept \o (E \o after)
      <4>. HIDE DEF E, after
      <4>1. kept \in Seq(Mark) /\ E \in Seq(Mark) /\ after \in Seq(Mark)
        BY <1>6, <1>8, <1>9
      <4> QED BY ONLY <4>1, ConcatAssociative
    <3>1. CASE at # 0 /\ m[at].pos = p
      <4>1. kept = SubSeq(m, 1, at - 1) /\ new = kept \o E \o after
        BY <3>1, <1>3, <1>4, <1>12
      <4>. HIDE DEF E, after
      <4> QED BY <3>0, <4>1
    <3>2. CASE ~(at # 0 /\ m[at].pos = p)
      <4>1. kept = A \o S /\ new = A \o <<Start(p), End(end)>> \o after
        BY <3>2, <1>3, <1>4, <1>12
      <4>. HIDE DEF A, S, E, after
      <4>2. A \o (S \o E) = (A \o S) \o E
        BY ONLY <1>8, ConcatAssociative
      <4>3. new = kept \o E \o after
        <5>1. new = (A \o (S \o E)) \o after
          BY ONLY <4>1, <1>8
        <5>2. A \o (S \o E) = kept \o E
          BY ONLY <4>1, <4>2
        <5> QED BY ONLY <5>1, <5>2
      <4> QED BY <3>0, <4>3
    <3> QED BY <3>1, <3>2
  <2> QED BY <2>1, <2>2
<1> QED BY <1>11, <1>12

LEMMA DeleteIs ==
    ASSUME NEW m, NEW n \in Nat, Good(m, n), NEW start \in Nat, NEW end \in Int, start < end,
           NEW offset \in Int, offset <= 0, end <= n + offset,
           NEW new, new = markregion_delete(m, start, end, offset)
    PROVE  /\ Good(new, n + offset)
           /\ \A x \in 1 .. n + offset :
                  InRegion(new, x) <=> IF x <= start THEN InRegion(m, x)
                                       ELSE x <= end \/ InRegion(m, x - offset)
<1>. DEFINE L == Len(m)
            at == find_prev_or_equal_position(m, start)
            kept == Kept(m, start)
            rest == From(SubSeq(m, at + 1, L), end - offset)
            moved == update_offset(rest, offset)
            E == <<End(end)>>
<1>1. /\ m \in Seq(Mark) /\ L \in Nat /\ L % 2 = 0 /\ Sorted(m)
      /\ \A i \in 1 .. L : /\ m[i] \in Mark /\ m[i].pos \in Int
                           /\ m[i].is_start <=> i % 2 = 1
      /\ \A i, j \in 1 .. L : i <= j => m[i].pos <= m[j].pos
  BY Alternate
<1>2. at \in 0 .. L /\ \A i \in 1 .. at : m[i].pos <= start
  BY <1>1, PrevOrEqual
<1>3. new = IF start = end THEN (IF start = 0 THEN From(m, end - offset + 1) ELSE m)
            ELSE IF rest = <<>> THEN kept \o E
            ELSE IF rest[1].is_start /\ rest[1].pos = end - offset THEN kept \o Tail(moved)
            ELSE IF rest[1].is_start THEN kept \o E \o moved
            ELSE kept \o moved
  BY DEF Kept, markregion_delete
<1>4. Opens(m, start, kept)
  BY KeptOpens
<1>5. kept \in Seq(Mark)
  BY <1>4 DEF Opens
<1>. HIDE DEF kept
<1>6. PICK k \in at .. L :
          /\ \A i \in at + 1 .. k : m[i].pos < end - offset
          /\ \A i \in k + 1 .. L : end - offset <= m[i].pos
          /\ rest = SubSeq(m, k + 1, L)
  <2>. HIDE DEF at
  <2>1. end - offset \in Int
    OBVIOUS
  <2> QED BY <2>1, <1>1, <1>2, FromPart
<1>. HIDE DEF at, rest
<1>7. k \in Nat /\ L \in Nat /\ k <= L /\ at \in Nat /\ at <= k /\ start \in Int
  BY <1>1, <1>2, <1>6
<1>8. ASSUME NEW i \in 1 .. k PROVE i \in 1 .. L /\ m[i].pos \in Int /\ m[i].pos + offset < end
  <2>1. i \in 1 .. L /\ m[i].pos \in Int
    BY <1>1, <1>7
  <2>2. CASE i <= at
    <3>1. m[i].pos <= start
      BY <2>2, <1>2, <1>7
    <3> QED BY <2>1, <3>1, <1>7
  <2>3. CASE ~(i <= at)
    <3>1. m[i].pos < end - offset
      BY <2>3, <1>6, <1>7
    <3> QED BY <2>1, <3>1
  <2> QED BY <2>2, <2>3
<1>9. ASSUME NEW i \in k + 1 .. L PROVE i \in 1 .. L /\ m[i].pos \in Int /\ end <= m[i].pos + offset
  <2>1. i \in 1 .. L /\ m[i].pos \in Int /\ end - offset <= m[i].pos
    BY <1>1, <1>6, <1>7
  <2> QED BY <2>1
<1>10. ASSUME NEW r, Closes(m, end, offset, r), new = kept \o r
       PROVE  /\ Good(new, n + offset)
              /\ \A x \in 1 .. n + offset :
                     InRegion(new, x) <=> IF x <= start THEN InRegion(m, x)
                                          ELSE x <= end \/ InRegion(m, x - offset)
  <2>1. Joins(new, kept, r)
    <3>1. r \in Seq(Mark)
      BY <1>10 DEF Closes
    <3> QED BY <3>1, <1>5, <1>10, Joining
  <2> QED BY <2>1, <1>4, <1>7, <1>10, Merged
<1>. SUFFICES \E r : Closes(m, end, offset, r) /\ new = kept \o r
  BY <1>10
<1>11. rest \in Seq(Mark) /\ Len(rest) = L - k /\ (k < L => rest # <<>> /\ rest[1] = m[k + 1])
  <2>1. k + 1 \in 1 .. L + 1 /\ L \in 0 .. L /\ k + 1 <= L + 1
    BY <1>1, <1>7
  <2>2. /\ rest \in Seq(Mark) /\ Len(rest) = L + 1 - (k + 1)
        /\ \A i \in 1 .. L + 1 - (k + 1) : rest[i] = m[(k + 1) + i - 1]
    BY <2>1, <1>1, <1>6, Part, SMTT(30)
  <2>3. Len(rest) = L - k
    <3>1. Len(rest) = L + 1 - (k + 1)
      BY <2>2
    <3> QED BY <3>1, <1>7
  <2>4. ASSUME k < L PROVE rest # <<>> /\ rest[1] = m[k + 1]
    <3>1. 1 \in 1 .. L + 1 - (k + 1) /\ (k + 1) + 1 - 1 = k + 1
      BY <2>4, <1>1, <1>7
    <3>2. Len(rest) # 0
      BY <2>3, <2>4, <1>1, <1>7
    <3> QED BY <2>2, <3>1, <3>2
  <2> QED BY <2>2, <2>3, <2>4
<1>12. ASSUME k % 2 = 0, \A i \in k + 1 .. L : end < m[i].pos + offset
       PROVE  Closes(m, end, offset, E \o moved)
  <2>1. E \o moved = <<End(end)>> \o update_offset(SubSeq(m, k + 1, L), offset)
    BY <1>6
  <2>2. \A i \in 1 .. k : m[i].pos + offset <= end
    BY <1>8
  <2>3. k \in 0 .. L
    BY <1>1, <1>7
  <2>. HIDE DEF E, moved
  <2> QED BY <2>1, <2>2, <2>3, <1>12, ClosesBefore
<1>13. CASE k = L
  <2>1. rest = <<>>
    <3>1. Len(rest) = 0
      BY <1>11, <1>13, <1>1
    <3> QED BY <3>1, <1>11, EmptySeq
  <2>2. moved = <<>>
    <3>1. moved \in Seq(Mark) /\ Len(moved) = Len(rest)
      BY <1>11, Moved
    <3>2. Len(moved) = 0
      BY <3>1, <1>11, <1>13, <1>1
    <3>. HIDE DEF moved
    <3> QED BY <3>1, <3>2, EmptySeq
  <2>3. E \o moved = E
    <3>1. E \in Seq(Mark)
      BY One
    <3>. HIDE DEF E, moved
    <3> QED BY <2>2, <3>1, ConcatEmptySeq
  <2>4. k % 2 = 0 /\ \A i \in k + 1 .. L : end < m[i].pos + offset
    BY <1>1, <1>7, <1>13
  <2>5. Closes(m, end, offset, E)
    <3>. HIDE DEF E, moved
    <3> QED BY <2>3, <2>4, <1>12
  <2>6. new = kept \o E
    BY <2>1, <1>3
  <2> QED BY <2>5, <2>6
<1>14. CASE k < L /\ m[k + 1].is_start
  <2>1. k + 1 \in 1 .. L /\ (k + 1) % 2 = 1 /\ k % 2 = 0 /\ m[k + 1].pos \in Int
    <3>1. k + 1 \in 1 .. L
      BY <1>1, <1>7, <1>14
    <3>2. (k + 1) % 2 = 1
      BY <3>1, <1>1, <1>14
    <3> QED BY <3>1, <3>2, <1>1, <1>7, Parity
  <2>2. CASE m[k + 1].pos = end - offset
    <3>1. new = kept \o Tail(moved)
      <4>1. rest # <<>> /\ rest[1].is_start /\ rest[1].pos = end - offset /\ start # end
        BY <2>2, <1>11, <1>14
      <4>. HIDE DEF moved
      <4> QED BY <4>1, <1>3
    <3>2. Tail(moved) = update_offset(SubSeq(m, k + 2, L), offset)
      <4>1. (k + 1) + 1 = k + 2
        BY <1>7
      <4>2. moved = update_offset(SubSeq(m, k + 1, L), offset)
        BY <1>6
      <4>. HIDE DEF moved
      <4> QED BY <2>1, <4>1, <4>2, <1>1, TailMoved
    <3>. HIDE DEF moved
    <3>. DEFINE j == k + 2
    <3>3. j \in 1 .. L /\ j % 2 = 0 /\ j \in k + 1 .. L /\ j - 1 = k + 1
      <4>1. k + 1 < L
        BY ONLY <2>1, <1>1, <1>7
      <4>2. L \in Nat /\ k \in Nat /\ (k + 1) % 2 = 1
        BY <2>1, <1>1, <1>7
      <4> QED BY ONLY <4>1, <4>2
    <3>4. end <= m[j].pos + offset
      BY <3>3, <1>9
    <3>5. m[j - 1].pos + offset <= end
      BY <3>3, <2>1, <2>2
    <3>6. Tail(moved) = update_offset(SubSeq(m, j, L), offset)
      BY <3>2
    <3>. HIDE DEF j
    <3>7. Closes(m, end, offset, Tail(moved))
      BY <3>3, <3>4, <3>5, <3>6, ClosesAtAnEnd
    <3> QED BY <3>1, <3>7
  <2>3. CASE m[k + 1].pos # end - offset
    <3>1. new = kept \o E \o moved
      <4>1. rest # <<>> /\ rest[1].is_start /\ rest[1].pos # end - offset /\ start # end
        BY <2>3, <1>11, <1>14
      <4>. HIDE DEF moved
      <4> QED BY <4>1, <1>3
    <3>2. ASSUME NEW i \in k + 1 .. L PROVE end < m[i].pos + offset
      <4>1. k + 1 \in k + 1 .. L
        BY <2>1, <1>1, <1>7
      <4>2. end < m[k + 1].pos + offset
        <5>1. end <= m[k + 1].pos + offset /\ m[k + 1].pos \in Int
          BY <4>1, <1>9
        <5> QED BY <5>1, <2>3
      <4>3. m[k + 1].pos <= m[i].pos /\ m[i].pos \in Int
        <5>1. i \in 1 .. L /\ k + 1 <= i
          BY <1>1, <1>7
        <5> QED BY <5>1, <2>1, <1>1
      <4> QED BY ONLY <4>2, <4>3, <2>1
    <3>3. Closes(m, end, offset, E \o moved)
      BY <3>2, <2>1, <1>12
    <3>4. E \in Seq(Mark) /\ moved \in Seq(Mark)
      BY One, <1>11, Moved
    <3>. HIDE DEF E, moved
    <3>5. new = kept \o (E \o moved)
      BY <3>1, <3>4, <1>5, ConcatAssociative
    <3> QED BY <3>3, <3>5
  <2> QED BY <2>2, <2>3
<1>15. CASE k < L /\ ~m[k + 1].is_start
  <2>1. new = kept \o moved
    <3>1. rest # <<>> /\ ~rest[1].is_start /\ start # end
      BY <1>11, <1>15
    <3>. HIDE DEF moved
    <3> QED BY <3>1, <1>3
  <2>2. moved = update_offset(SubSeq(m, k + 1, L), offset)
    BY <1>6
  <2>. HIDE DEF moved
  <2>. DEFINE j == k + 1
  <2>3. j \in 1 .. L /\ j \in k + 1 .. L /\ j - 1 = k
    BY <1>1, <1>7, <1>15
  <2>4. j % 2 = 0 /\ k \in 1 .. k
    <3>1. ~(j % 2 = 1)
      BY <2>3, <1>1, <1>15
    <3>2. j % 2 = 0
      BY <3>1, <1>7, Parity
    <3>3. k # 0
      BY <3>2
    <3> QED BY <3>2, <3>3, <1>7
  <2>5. end <= m[j].pos + offset
    BY <2>3, <1>9
  <2>6. m[j - 1].pos + offset <= end
    BY <2>3, <2>4, <1>8
  <2>7. moved = update_offset(SubSeq(m, j, L), offset)
    BY <2>2
  <2>. HIDE DEF j
  <2>8. Closes(m, end, offset, moved)
    BY <2>3, <2>4, <2>5, <2>6, <2>7, ClosesAtAnEnd
  <2> QED BY <2>1, <2>8
<1>16. k = L \/ k < L
  BY <1>7
<1> QED BY <1>13, <1>14, <1>15, <1>16

LEMMA DoneIs ==
    ASSUME NEW m, NEW n \in Nat, Good(m, n), NEW end \in Nat,
           NEW new, new = markregion_region_done(m, end)
    PROVE  /\ Good(new, n)
           /\ \A x \in 1 .. n : InRegion(new, x) <=> x > end /\ InRegion(m, x)
<1>. DEFINE L == Len(m)
            rest == From(m, end + 1)
            S == <<Start(end)>>
<1>1. /\ m \in Seq(Mark) /\ L \in Nat /\ L % 2 = 0 /\ Sorted(m)
      /\ \A i \in 1 .. L : /\ m[i] \in Mark /\ m[i].pos \in Int
                           /\ 0 <= m[i].pos /\ m[i].pos <= n
                           /\ m[i].is_start <=> i % 2 = 1
      /\ \A i, j \in 1 .. L : i <= j => m[i].pos <= m[j].pos
  BY Alternate
<1>2. new = IF rest # <<>> /\ ~rest[1].is_start THEN S \o rest ELSE rest
  BY DEF markregion_region_done
<1>3. PICK k \in 0 .. L :
          /\ \A i \in 1 .. k : m[i].pos < end + 1
          /\ \A i \in k + 1 .. L : end + 1 <= m[i].pos
          /\ rest = SubSeq(m, k + 1, L)
  <2>1. end + 1 \in Int /\ m \in Seq(Mark) /\ Sorted(m)
    BY <1>1
  <2> QED BY <2>1, FromIs
<1>. HIDE DEF rest
<1>4. k \in Nat /\ L \in Nat /\ k <= L /\ end \in Int
  BY <1>1, <1>3
<1>5. /\ rest \in Seq(Mark) /\ Len(rest) = L - k
      /\ \A i \in 1 .. L - k : rest[i] = m[k + i]
  <2>1. m \in Seq(Mark) /\ rest = SubSeq(m, k + 1, Len(m)) /\ k \in 0 .. Len(m)
    BY <1>1, <1>3
  <2> QED BY <2>1, Suffix
<1>6. L % 2 = 0
  BY <1>1
\* The new list is the marks from b + 1 on, or a start at `end' and the marks from b + 2 on.
<1>7. \E b \in 0 .. L :
          /\ b % 2 = 0 /\ new \in Seq(Mark) /\ Len(new) = L - b
          /\ \A i \in 1 .. L - b : new[i].is_start <=> m[b + i].is_start
          /\ \A i \in 2 .. L - b : new[i].pos = m[b + i].pos
          /\ b < L => new[1].pos = IF m[b + 1].pos > end THEN m[b + 1].pos ELSE end
          /\ b + 2 <= L => end < m[b + 2].pos
          /\ \A i \in 1 .. b : m[i].pos <= end
  <2>1. CASE k % 2 = 0
    <3>1. new = rest
      <4>1. CASE k = L
        <5>1. Len(rest) = 0
          BY <4>1, <1>4, <1>5
        <5>2. rest = <<>>
          BY <5>1, <1>5, EmptySeq
        <5> QED BY <5>2, <1>2
      <4>2. CASE k < L
        <5>1. k + 1 \in 1 .. L /\ 1 \in 1 .. L - k /\ (k + 1) % 2 = 1
          BY <4>2, <2>1, <1>4, Parity
        <5>2. rest[1].is_start
          BY <5>1, <1>1, <1>5
        <5> QED BY <5>2, <1>2
      <4> QED BY <4>1, <4>2, <1>4
    <3>2. /\ \A i \in 1 .. L - k : new[i].is_start <=> m[k + i].is_start
          /\ \A i \in 2 .. L - k : new[i].pos = m[k + i].pos
          /\ new \in Seq(Mark) /\ Len(new) = L - k
      <4>1. \A i \in 2 .. L - k : i \in 1 .. L - k
        BY <1>4
      <4> QED BY <4>1, <3>1, <1>5
    <3>3. ASSUME k < L PROVE new[1].pos = IF m[k + 1].pos > end THEN m[k + 1].pos ELSE end
      <4>1. k + 1 \in k + 1 .. L /\ k + 1 \in 1 .. L /\ 1 \in 1 .. L - k
        BY <3>3, <1>4
      <4>2. end + 1 <= m[k + 1].pos /\ m[k + 1].pos \in Int /\ new[1] = m[k + 1]
        BY <4>1, <3>1, <1>1, <1>3, <1>5
      <4> QED BY <4>2, <1>4
    <3>4. ASSUME k + 2 <= L PROVE end < m[k + 2].pos
      <4>1. k + 2 \in k + 1 .. L /\ k + 2 \in 1 .. L
        BY <3>4, <1>4
      <4>2. end + 1 <= m[k + 2].pos /\ m[k + 2].pos \in Int
        BY <4>1, <1>1, <1>3
      <4> QED BY <4>2, <1>4
    <3>5. ASSUME NEW i \in 1 .. k PROVE m[i].pos <= end
      <4>1. m[i].pos < end + 1 /\ m[i].pos \in Int
        <5>1. i \in 1 .. L
          BY <1>4
        <5> QED BY <5>1, <1>1, <1>3
      <4> QED BY <4>1, <1>4
    <3> QED BY <2>1, <3>2, <3>3, <3>4, <3>5, <1>3
  <2>2. CASE k % 2 # 0
    <3>. DEFINE b == k - 1
    <3>1. k < L /\ 1 <= k /\ k % 2 = 1 /\ b % 2 = 0 /\ b \in 0 .. L /\ b \in Nat /\ k = b + 1
      <4>1. k # L /\ k # 0 /\ k % 2 = 1
        BY <2>2, <1>4, <1>6, Parity
      <4>2. k < L /\ 1 <= k
        BY <4>1, <1>4
      <4> QED BY <4>1, <4>2, <1>4, Parity
    <3>2. k + 1 \in 1 .. L /\ 1 \in 1 .. L - k /\ (k + 1) % 2 = 0 /\ k + 1 \in k + 1 .. L
      BY <3>1, <1>4, Parity
    <3>3. rest # <<>> /\ ~rest[1].is_start
      <4>1. rest[1] = m[k + 1]
        BY <3>2, <1>5
      <4>2. ~m[k + 1].is_start
        BY <3>2, <1>1
      <4>3. Len(rest) # 0
        BY <3>1, <1>4, <1>5
      <4> QED BY <4>1, <4>2, <4>3
    <3>4. new = S \o rest
      BY <3>3, <1>2
    <3>5. S \in Seq(Mark) /\ Len(S) = 1 /\ S[1].pos = end /\ S[1].is_start
      BY <1>4, One
    <3>. HIDE DEF S
    <3>6. Joins(new, S, rest)
      BY <3>4, <3>5, <1>5, Joining
    <3>7. new \in Seq(Mark) /\ Len(new) = L - b
      BY <3>5, <3>6, <1>4, <1>5 DEF Joins
    <3>. HIDE DEF b
    <3>8. L - b \in Nat /\ 1 \in 1 .. L - b /\ L - k = L - b - 1 /\ b < L
      BY <3>1, <1>4
    <3>9. new[1].pos = end /\ new[1].is_start
      BY <3>5, <3>6, <3>7, <3>8 DEF Joins
    <3>10. ASSUME NEW i \in 2 .. L - b PROVE new[i] = m[b + i]
      <4>1. i \in 1 .. L - b /\ ~(i <= 1) /\ i - 1 \in 1 .. L - k /\ k + (i - 1) = b + i
        BY <3>1, <3>8, <1>4
      <4>2. new[i] = rest[i - 1]
        BY <4>1, <3>5, <3>6, <3>7 DEF Joins
      <4>3. rest[i - 1] = m[k + (i - 1)]
        BY <4>1, <1>5
      <4> QED BY <4>1, <4>2, <4>3
    <3>11. m[b + 1].is_start /\ m[b + 1].pos <= end /\ m[b + 1].pos \in Int
      <4>1. k \in 1 .. L /\ k \in 1 .. k
        BY <3>1, <1>4
      <4>2. m[k].is_start
        BY <4>1, <3>1, <1>1
      <4>3. m[k].pos < end + 1 /\ m[k].pos \in Int
        BY <4>1, <1>1, <1>3
      <4>4. m[k].pos <= end
        BY <4>3, <1>4
      <4> QED BY <4>2, <4>3, <4>4, <3>1
    <3>12. ASSUME NEW i \in 1 .. L - b PROVE new[i].is_start <=> m[b + i].is_start
      <4>1. CASE i = 1
        BY <4>1, <3>9, <3>11
      <4>2. CASE i # 1
        <5>1. i \in 2 .. L - b
          BY <4>2, <3>8
        <5> QED BY <5>1, <3>10
      <4> QED BY <4>1, <4>2
    <3>13. new[1].pos = IF m[b + 1].pos > end THEN m[b + 1].pos ELSE end
      BY <3>9, <3>11, <1>4
    <3>14. end < m[b + 2].pos
      <4>1. end + 1 <= m[k + 1].pos /\ m[k + 1].pos \in Int /\ k + 1 = b + 2
        BY <3>1, <3>2, <1>1, <1>3
      <4> QED BY <4>1, <1>4
    <3>15. ASSUME NEW i \in 1 .. b PROVE m[i].pos <= end
      <4>1. i \in 1 .. k
        BY <3>1
      <4>2. m[i].pos < end + 1 /\ m[i].pos \in Int
        <5>1. i \in 1 .. L
          BY <4>1, <1>4
        <5> QED BY <4>1, <5>1, <1>1, <1>3
      <4> QED BY <4>2, <1>4
    <3>16. \A i \in 2 .. L - b : new[i].pos = m[b + i].pos
      BY <3>10
    <3> QED BY <3>1, <3>7, <3>12, <3>13, <3>14, <3>15, <3>16
  <2> QED BY <2>1, <2>2
<1>8. PICK b \in 0 .. L :
          /\ b % 2 = 0 /\ new \in Seq(Mark) /\ Len(new) = L - b
          /\ \A i \in 1 .. L - b : new[i].is_start <=> m[b + i].is_start
          /\ \A i \in 2 .. L - b : new[i].pos = m[b + i].pos
          /\ b < L => new[1].pos = IF m[b + 1].pos > end THEN m[b + 1].pos ELSE end
          /\ b + 2 <= L => end < m[b + 2].pos
          /\ \A i \in 1 .. b : m[i].pos <= end
  BY <1>7
<1>9. b \in Nat /\ b <= L /\ L - b \in Nat /\ b % 2 = 0
  BY <1>4, <1>8
<1>. HIDE DEF L
<1>10. ASSUME NEW i \in 2 .. L - b
       PROVE  /\ b + i \in 1 .. L /\ new[i].pos = m[b + i].pos /\ m[b + i].pos \in Int
              /\ end < m[b + i].pos
  <2>1. b + i \in 1 .. L /\ b + 2 \in 1 .. L /\ b + 2 <= L /\ b + 2 <= b + i
    BY <1>4, <1>9
  <2>2. m[b + 2].pos <= m[b + i].pos /\ m[b + i].pos \in Int /\ m[b + 2].pos \in Int
    BY <2>1, <1>1
  <2>3. end < m[b + 2].pos
    BY <2>1, <1>8, SMTT(30)
  <2> QED BY <2>1, <2>2, <2>3, <1>4, <1>8, SMTT(30)
<1>11. ASSUME b < L
       PROVE  /\ b + 1 \in 1 .. L /\ b + 2 \in 1 .. L /\ 2 \in 2 .. L - b
              /\ new[1].pos \in Int /\ m[b + 1].pos \in Int /\ m[b + 2].pos \in Int
              /\ m[b + 1].pos <= new[1].pos /\ end <= new[1].pos
              /\ new[1].pos < m[b + 2].pos
              /\ \A x \in Int : m[b + 1].pos < x /\ end < x => new[1].pos < x
  <2>1. b + 2 <= L
    <3>1. b + 1 <= L /\ b + 1 # L
      BY <1>4, <1>6, <1>9, <1>11, Parity
    <3> QED BY <3>1, <1>4, <1>9
  <2>2. b + 1 \in 1 .. L /\ b + 2 \in 1 .. L /\ 2 \in 2 .. L - b /\ b + 1 < b + 2
    BY <2>1, <1>4, <1>9
  <2>3. m[b + 1].pos < m[b + 2].pos /\ m[b + 1].pos \in Int /\ m[b + 2].pos \in Int
    BY <2>2, <1>1 DEF Sorted, L
  <2>4. end < m[b + 2].pos /\ new[1].pos = IF m[b + 1].pos > end THEN m[b + 1].pos ELSE end
    BY <2>1, <1>8, <1>11
  <2> QED BY <2>2, <2>3, <2>4, <1>4
<1>12. ASSUME NEW i \in 1 .. L - b, NEW j \in 1 .. L - b, i < j
       PROVE  new[i].pos < new[j].pos
  <2>1. j \in 2 .. L - b /\ b < L /\ b + i \in 1 .. L
    BY <1>4, <1>9, <1>12
  <2>2. b + j \in 1 .. L /\ new[j].pos = m[b + j].pos /\ m[b + j].pos \in Int
    BY <2>1, <1>10
  <2>3. CASE i = 1
    <3>1. b + 2 <= b + j /\ b + 2 \in 1 .. L
      BY <2>1, <1>4, <1>9
    <3>2. m[b + 2].pos <= m[b + j].pos
      BY <2>2, <3>1, <1>1
    <3>3. new[1].pos < m[b + 2].pos /\ new[1].pos \in Int /\ m[b + 2].pos \in Int
      BY <2>1, <1>11
    <3> QED BY <2>2, <2>3, <3>2, <3>3
  <2>4. CASE i # 1
    <3>1. i \in 2 .. L - b /\ b + i < b + j
      BY <2>4, <1>4, <1>9, <1>12
    <3>2. new[i].pos = m[b + i].pos
      BY <3>1, <1>10
    <3>3. m[b + i].pos < m[b + j].pos
      BY <2>1, <2>2, <3>1, <1>1 DEF Sorted, L
    <3> QED BY <2>2, <3>2, <3>3
  <2> QED BY <2>3, <2>4
<1>13. ASSUME NEW i \in 1 .. L - b
       PROVE  (new[i].is_start <=> i % 2 = 1) /\ new[i].pos \in 0 .. n
  <2>1. b + i \in 1 .. L /\ b < L /\ i \in Int
    BY <1>4, <1>9
  <2>2. (b + i) % 2 = i % 2
    BY <2>1, <1>9
  <2>3. new[i].is_start <=> i % 2 = 1
    BY <2>1, <2>2, <1>1, <1>8
  <2>4. CASE i = 1
    <3>1. new[1].pos < m[b + 2].pos /\ end <= new[1].pos /\ new[1].pos \in Int /\ b + 2 \in 1 .. L
      BY <2>1, <1>11
    <3>2. m[b + 2].pos <= n /\ m[b + 2].pos \in Int
      BY <3>1, <1>1
    <3> QED BY <2>3, <2>4, <3>1, <3>2, <1>4
  <2>5. CASE i # 1
    <3>1. i \in 2 .. L - b
      BY <2>5, <1>9
    <3>2. new[i].pos = m[b + i].pos /\ m[b + i].pos \in Int /\ 0 <= m[b + i].pos /\ m[b + i].pos <= n
      BY <2>1, <3>1, <1>1, <1>10
    <3> QED BY <2>3, <3>2
  <2> QED BY <2>4, <2>5
<1>14. Good(new, n)
  <2>1. (L - b) % 2 = 0
    BY <1>4, <1>6, <1>9
  <2> QED BY <2>1, <1>8, <1>12, <1>13 DEF Good, Sorted
<1>15. ASSUME NEW x \in 1 .. n PROVE InRegion(new, x) <=> x > end /\ InRegion(m, x)
  <2>0. x \in Int
    OBVIOUS
  <2>1. InRegion(new, x) <=>
            \E i \in 1 .. L - b - 1 : i % 2 = 1 /\ new[i].pos < x /\ x <= new[i + 1].pos
    BY <2>0, <1>8, RegionsAre
  <2>2. InRegion(m, x) <=>
            \E i \in 1 .. L - 1 : i % 2 = 1 /\ m[i].pos < x /\ x <= m[i + 1].pos
    BY <2>0, <1>1, RegionsAre DEF L
  <2>3. ASSUME NEW i \in 1 .. L - b - 1, i % 2 = 1, new[i].pos < x, x <= new[i + 1].pos
        PROVE  x > end /\ InRegion(m, x)
    <3>. DEFINE j == b + i
    <3>1. /\ i \in 1 .. L - b /\ i + 1 \in 2 .. L - b /\ b < L
          /\ j \in 1 .. L - 1 /\ j \in 1 .. L /\ b + (i + 1) = j + 1 /\ j % 2 = 1
      BY <2>3, <1>4, <1>9
    <3>. HIDE DEF j
    <3>2. x <= m[j + 1].pos
      BY <3>1, <2>3, <1>10
    <3>3. end < x /\ m[j].pos < x
      <4>1. CASE i = 1
        <5>1. j = b + 1
          BY <4>1 DEF j
        <5>2. m[j].pos <= new[1].pos /\ end <= new[1].pos /\ new[1].pos \in Int /\ m[j].pos \in Int
          BY <3>1, <5>1, <1>11
        <5> QED BY <4>1, <5>2, <2>0, <2>3, <1>4
      <4>2. CASE i # 1
        <5>1. i \in 2 .. L - b
          BY <3>1, <4>2, <1>9
        <5>2. new[i].pos = m[j].pos /\ m[j].pos \in Int /\ end < m[j].pos
          BY <5>1, <1>10 DEF j
        <5> QED BY <5>2, <2>0, <2>3, <1>4
      <4> QED BY <4>1, <4>2
    <3> QED BY <3>1, <3>2, <3>3, <2>2
  <2>4. ASSUME x > end, InRegion(m, x) PROVE InRegion(new, x)
    <3>1. PICK i \in 1 .. L - 1 : i % 2 = 1 /\ m[i].pos < x /\ x <= m[i + 1].pos
      BY <2>2, <2>4
    <3>2. i \in 1 .. L /\ i + 1 \in 1 .. L /\ m[i].pos \in Int /\ m[i + 1].pos \in Int /\ i \in Nat
      <4>1. i \in 1 .. L /\ i + 1 \in 1 .. L /\ i \in Nat
        BY <1>4
      <4> QED BY <4>1, <1>1
    <3>3. b < i
      <4>1. i + 1 > b
        <5>1. i + 1 <= b => m[i + 1].pos <= end
          BY <3>2, <1>8, <1>9
        <5> QED BY <3>1, <3>2, <5>1, <2>0, <2>4, <1>4, <1>9
      <4>2. i # b
        BY <3>1, <1>9
      <4> QED BY <3>2, <4>1, <4>2, <1>9
    <3>. DEFINE j == i - b
    <3>4. /\ j \in 1 .. L - b - 1 /\ j + 1 \in 2 .. L - b /\ b + j = i /\ b + (j + 1) = i + 1
          /\ j % 2 = 1 /\ b < L
      BY <3>1, <3>2, <3>3, <1>4, <1>9
    <3>. HIDE DEF j
    <3>5. x <= new[j + 1].pos
      BY <3>1, <3>4, <1>10
    <3>6. new[j].pos < x
      <4>1. CASE j = 1
        <5>1. m[b + 1].pos < x
          BY <3>1, <3>4, <4>1
        <5> QED BY <4>1, <5>1, <3>4, <2>0, <2>4, <1>4, <1>11
      <4>2. CASE j # 1
        <5>1. j \in 2 .. L - b
          BY <3>4, <4>2, <1>9
        <5> QED BY <5>1, <3>1, <3>4, <1>10
      <4> QED BY <4>1, <4>2
    <3> QED BY <3>4, <3>5, <3>6, <2>1
  <2> QED BY <2>1, <2>3, <2>4
<1> QED BY <1>14, <1>15

-----------------------------------------------------------------------------
(* The actions                                                             *)

IInv == length \in 0 .. MaxText /\ Good(marks, length)

\* The whole list behind its last mark: nothing is left of it.
LEMMA FromBehind ==
    ASSUME NEW m, NEW n \in Nat, Good(m, n)
    PROVE  From(m, n + 1) = <<>>
<1>1. /\ m \in Seq(Mark) /\ Len(m) \in Nat /\ Sorted(m)
      /\ \A i \in 1 .. Len(m) : m[i].pos \in Int /\ m[i].pos <= n
  BY Alternate
<1>2. PICK k \in 0 .. Len(m) :
          /\ \A i \in k + 1 .. Len(m) : n + 1 <= m[i].pos
          /\ From(m, n + 1) = SubSeq(m, k + 1, Len(m))
  <2>1. n + 1 \in Int
    OBVIOUS
  <2> QED BY <1>1, <2>1, FromIs
<1>3. k = Len(m)
  <2>1. k < Len(m) => n + 1 <= m[Len(m)].pos
    BY <1>1, <1>2
  <2>2. k < Len(m) => m[Len(m)].pos \in Int /\ m[Len(m)].pos <= n
    BY <1>1
  <2> QED BY <1>1, <2>1, <2>2
<1>4. From(m, n + 1) \in Seq(Mark) /\ Len(From(m, n + 1)) = 0
  BY <1>1, <1>2, <1>3, SubSeqProperties
<1> QED BY <1>4, EmptySeq

LEMMA EmptyIsGood == Good(<<>>, 0) /\ \A x \in Int : ~InRegion(<<>>, x)
<1>1. <<>> \in Seq(Mark) /\ Len(<<>>) = 0
  BY EmptySeq
<1>2. Good(<<>>, 0)
  BY <1>1 DEF Good, Sorted
<1>3. ASSUME NEW x \in Int PROVE ~InRegion(<<>>, x)
  <2>1. 1 .. Len(<<>>) - 1 = {}
    BY <1>1
  <2> QED BY <1>1, <2>1, RegionsAre
<1> QED BY <1>2, <1>3

\* What each action makes of the regions.
LEMMA InsertTextIs ==
    ASSUME MaxText \in Nat, IInv, NEW p \in 0 .. length, NEW n \in 1 .. MaxText, AfterInsert(p, n)
    PROVE  /\ IInv' /\ length' = length + n
           /\ \A x \in 1 .. length' :
                  InRegion(marks', x) <=> IF x <= p THEN InRegion(marks, x)
                                          ELSE x <= p + n \/ InRegion(marks, x - n)
<1>1. /\ length \in Nat /\ n \in Nat \ {0} /\ Good(marks, length) /\ length + n <= MaxText
      /\ length' = length + n /\ marks' = markregion_insert(marks, p, p + n)
  BY DEF IInv, AfterInsert
<1>2. /\ Good(marks', length + n)
      /\ \A x \in 1 .. length + n :
             InRegion(marks', x) <=> IF x <= p THEN InRegion(marks, x)
                                     ELSE x <= p + n \/ InRegion(marks, x - n)
  BY <1>1, InsertIs
<1>3. length' \in 0 .. MaxText
  BY <1>1
<1> QED BY <1>1, <1>2, <1>3 DEF IInv

LEMMA DeleteRangeIs ==
    ASSUME MaxText \in Nat, IInv, NEW so \in 0 .. length, NEW eo \in 0 .. length,
           NEW mso \in 0 .. length, NEW meo \in 0 .. length,
           mso <= so, eo <= meo, AfterDelete(so, eo, mso, meo)
    PROVE  /\ IInv' /\ so < eo /\ length' = length - (eo - so)
           /\ \A x \in 1 .. length' :
                  InRegion(marks', x) <=> IF x <= mso THEN InRegion(marks, x)
                                          ELSE x <= meo + so - eo \/ InRegion(marks, x + (eo - so))
<1>. DEFINE end == meo + so - eo
            offset == so - eo
<1>1. /\ length \in Nat /\ MaxText \in Nat /\ length <= MaxText /\ Good(marks, length)
      /\ so < eo /\ length' = length - (eo - so)
      /\ marks' = markregion_delete(marks, mso, end, offset)
      /\ mso < so \/ (mso = 0 /\ so = 0)
      /\ meo > eo \/ (meo = length /\ eo = length)
  BY DEF IInv, AfterDelete
<1>2. /\ so \in Nat /\ eo \in Nat /\ mso \in Nat /\ meo \in Nat
      /\ eo <= length /\ meo <= length /\ end \in Int /\ offset \in Int /\ offset <= 0
      /\ end <= length + offset /\ length' = length + offset
      /\ length' \in 0 .. MaxText
  BY <1>1
<1>3. CASE mso < end
  <2>. HIDE DEF end, offset
  <2>1. /\ Good(marks', length + offset)
        /\ \A x \in 1 .. length + offset :
               InRegion(marks', x) <=> IF x <= mso THEN InRegion(marks, x)
                                       ELSE x <= end \/ InRegion(marks, x - offset)
    BY <1>1, <1>2, <1>3, DeleteIs
  <2>2. \A x \in 1 .. length' : x - offset = x + (eo - so)
    BY <1>2 DEF offset
  <2> QED BY <1>1, <1>2, <2>1, <2>2 DEF IInv, end
<1>4. CASE ~(mso < end)
  <2>1. /\ mso = 0 /\ so = 0 /\ eo = length /\ meo = length /\ end = 0 /\ offset = 0 - length
        /\ length' = 0 /\ end - offset + 1 = length + 1
    BY <1>1, <1>2, <1>4
  <2>2. marks' = From(marks, length + 1)
    <3>. HIDE DEF end, offset
    <3>1. marks' = From(marks, end - offset + 1)
      BY <1>1, <2>1 DEF markregion_delete
    <3> QED BY <3>1, <2>1
  <2>3. marks' = <<>>
    BY <1>1, <2>2, FromBehind
  <2>4. Good(marks', length') /\ 1 .. length' = {}
    BY <2>1, <2>3, EmptyIsGood
  <2> QED BY <1>1, <1>2, <2>4 DEF IInv
<1> QED BY <1>3, <1>4

\* A scan is done up to `at' and leaves the text up to `end'.
LEMMA RunScannerIs ==
    ASSUME MaxText \in Nat, IInv, NEW at \in 0 .. length, NEW end \in 0 .. length, RunEnds(at, end)
    PROVE  /\ IInv' /\ length' = length
           /\ \A x \in 1 .. length :
                  InRegion(marks', x) <=> x > at /\ (x <= end \/ InRegion(marks, x))
<1>. DEFINE done == markregion_region_done(marks, at)
<1>1. /\ length \in Nat /\ Good(marks, length) /\ at \in Nat /\ end \in Nat /\ at <= end
      /\ end <= length /\ length' = length
      /\ marks' = IF at < end THEN markregion_delete(done, at, end, 0) ELSE done
  BY DEF IInv, RunEnds, markregion_nochange
<1>. HIDE DEF done
<1>2. /\ Good(done, length)
      /\ \A x \in 1 .. length : InRegion(done, x) <=> x > at /\ InRegion(marks, x)
  BY <1>1, DoneIs DEF done
<1>3. CASE at < end
  <2>1. end <= length + 0 /\ length + 0 = length /\ 0 \in Int /\ 0 <= 0 /\ end \in Int
        /\ \A x \in 1 .. length : x - 0 = x
    BY <1>1
  <2>2. /\ Good(marks', length + 0)
        /\ \A x \in 1 .. length + 0 :
               InRegion(marks', x) <=> IF x <= at THEN InRegion(done, x)
                                       ELSE x <= end \/ InRegion(done, x - 0)
    BY <1>1, <1>2, <1>3, <2>1, DeleteIs
  <2>3. ASSUME NEW x \in 1 .. length
        PROVE  InRegion(marks', x) <=> x > at /\ (x <= end \/ InRegion(marks, x))
    <3>1. (x <= at <=> ~(x > at)) /\ x - 0 = x
      BY <1>1
    <3>2. InRegion(marks', x) <=> IF x <= at THEN InRegion(done, x)
                                  ELSE x <= end \/ InRegion(done, x)
      BY <2>1, <2>2, <3>1
    <3> QED BY <1>2, <3>1, <3>2
  <2> QED BY <1>1, <2>1, <2>2, <2>3 DEF IInv
<1>4. CASE ~(at < end)
  <2>1. at = end /\ marks' = done
    BY <1>1, <1>4
  <2>2. \A x \in 1 .. length : x > at => ~(x <= end)
    BY <1>1, <2>1
  <2> QED BY <1>1, <1>2, <2>1, <2>2 DEF IInv
<1> QED BY <1>3, <1>4

LEMMA RunSpellcheckIs ==
    ASSUME MaxText \in Nat, IInv, NEW at \in 0 .. length, RunSpellcheck(at)
    PROVE  /\ IInv' /\ length' = length
           /\ \A x \in 1 .. length : InRegion(marks', x) <=> x > at /\ InRegion(marks, x)
<1>1. /\ length \in Nat /\ Good(marks, length) /\ at \in Nat /\ length' = length
      /\ marks' = markregion_region_done(marks, at)
  BY DEF IInv, RunSpellcheck
<1>2. /\ Good(marks', length)
      /\ \A x \in 1 .. length : InRegion(marks', x) <=> x > at /\ InRegion(marks, x)
  BY <1>1, DoneIs
<1> QED BY <1>1, <1>2 DEF IInv

LEMMA CleanupIs ==
    ASSUME MaxText \in Nat, IInv, Cleanup
    PROVE  /\ IInv' /\ length' = length
           /\ \A x \in 1 .. length : ~InRegion(marks', x)
<1>1. /\ length \in Nat /\ length <= MaxText /\ Good(marks, length) /\ length' = length
      /\ marks' = markregion_region_done(marks, MaxText)
  BY DEF IInv, Cleanup
<1>2. /\ Good(marks', length)
      /\ \A x \in 1 .. length : InRegion(marks', x) <=> x > MaxText /\ InRegion(marks, x)
  BY <1>1, DoneIs
<1>3. \A x \in 1 .. length : ~(x > MaxText)
  BY <1>1
<1> QED BY <1>1, <1>2, <1>3 DEF IInv

LEMMA MarkNeedscanningIs ==
    ASSUME MaxText \in Nat, IInv, NEW start \in 0 .. length, NEW end \in 1 .. MaxText + 1, start <= end,
           NeedsScan(start, end)
    PROVE  /\ IInv' /\ length' = length
           /\ \/ marks' = marks
              \/ \E b \in 0 .. length :
                     \A x \in 1 .. length :
                         InRegion(marks', x) <=> (x > start /\ x <= b) \/ InRegion(marks, x)
<1>. DEFINE b == IF end > length THEN length ELSE end
<1>1. /\ length \in Nat /\ Good(marks, length) /\ length' = length
      /\ marks' = IF b <= start /\ end > length THEN marks ELSE markregion_delete(marks, start, b, 0)
  BY DEF IInv, NeedsScan, markregion_nochange
<1>2. /\ start \in Nat /\ b \in 0 .. length /\ b \in Int
      /\ ~(b <= start /\ end > length) => start < b \/ (start = b /\ start # 0)
  BY <1>1
<1>. HIDE DEF b
<1>3. CASE b <= start /\ end > length
  BY <1>1, <1>3 DEF IInv
<1>4. CASE start = b /\ start # 0
  <2>1. markregion_delete(marks, start, b, 0) = marks
    BY <1>4 DEF markregion_delete
  <2> QED BY <1>1, <2>1 DEF IInv
<1>5. CASE ~(b <= start /\ end > length) /\ start < b
  <2>1. b <= length + 0 /\ length + 0 = length /\ 0 \in Int /\ 0 <= 0
        /\ \A x \in 1 .. length : x - 0 = x
    BY <1>1, <1>2
  <2>2. /\ Good(marks', length + 0)
        /\ \A x \in 1 .. length + 0 :
               InRegion(marks', x) <=> IF x <= start THEN InRegion(marks, x)
                                       ELSE x <= b \/ InRegion(marks, x - 0)
    BY <1>1, <1>2, <1>5, <2>1, DeleteIs
  <2>3. ASSUME NEW x \in 1 .. length
        PROVE  InRegion(marks', x) <=> (x > start /\ x <= b) \/ InRegion(marks, x)
    <3>1. (x <= start <=> ~(x > start)) /\ x - 0 = x
      BY <1>1, <1>2
    <3>2. InRegion(marks', x) <=> IF x <= start THEN InRegion(marks, x)
                                  ELSE x <= b \/ InRegion(marks, x)
      BY <2>1, <2>2, <3>1
    <3> QED BY <3>1, <3>2
  <2> QED BY <1>1, <1>2, <2>1, <2>2, <2>3 DEF IInv
<1> QED BY <1>2, <1>3, <1>4, <1>5

LEMMA InitSound == MaxText \in Nat /\ RegionInit => IInv
BY EmptyIsGood DEF RegionInit, IInv

LEMMA StepSound == MaxText \in Nat /\ IInv /\ [RegionNext]_regionVars => IInv'
<1>. SUFFICES ASSUME MaxText \in Nat, IInv, [RegionNext]_regionVars
              PROVE  IInv'
  OBVIOUS
<1>1. ASSUME NEW p \in 0 .. length, NEW n \in 1 .. MaxText, AfterInsert(p, n) PROVE IInv'
  BY <1>1, InsertTextIs
<1>2. ASSUME NEW so \in 0 .. length, NEW eo \in 0 .. length,
             NEW mso \in 0 .. length, NEW meo \in 0 .. length,
             mso <= so, eo <= meo, AfterDelete(so, eo, mso, meo)
      PROVE  IInv'
  BY <1>2, DeleteRangeIs
<1>3. ASSUME NEW at \in 0 .. length, NEW end \in 0 .. length, RunEnds(at, end) PROVE IInv'
  BY <1>3, RunScannerIs
<1>4. ASSUME NEW at \in 0 .. length, RunSpellcheck(at) PROVE IInv'
  BY <1>4, RunSpellcheckIs
<1>5. ASSUME NEW start \in 0 .. length, NEW end \in 1 .. MaxText + 1, start <= end,
             NeedsScan(start, end)
      PROVE  IInv'
  BY <1>5, MarkNeedscanningIs
<1>6. CASE Cleanup
  BY <1>6, CleanupIs
<1>7. CASE UNCHANGED regionVars
  BY <1>7 DEF regionVars, IInv, Good
<1> QED BY <1>1, <1>2, <1>3, <1>4, <1>5, <1>6, <1>7 DEF RegionNext

\* What is proved of the list is what markregion_verify_integrity looks at.
LEMMA SoundInOrder == MaxText \in Nat /\ IInv => InOrder
<1>. SUFFICES ASSUME MaxText \in Nat, IInv
              PROVE  InOrder
  OBVIOUS
<1>1. /\ length \in 0 .. MaxText /\ length \in Nat
      /\ marks \in Seq(Mark) /\ DOMAIN marks = 1 .. Len(marks) /\ Len(marks) \in Nat
      /\ Sorted(marks) /\ Len(marks) % 2 = 0
      /\ \A i \in 1 .. Len(marks) : /\ marks[i] \in Mark
                                    /\ (marks[i].is_start <=> i % 2 = 1)
                                    /\ marks[i].pos \in 0 .. length
  BY Marks DEF IInv, Good
<1>2. RegionTypeOK
  <2>1. \A e \in Mark : e.pos \in 0 .. MaxText => e \in [pos : 0 .. MaxText, is_start : BOOLEAN]
    BY DEF Mark
  <2>2. \A i \in 1 .. Len(marks) : marks[i].pos \in 0 .. MaxText
    BY <1>1
  <2> QED BY <1>1, <2>1, <2>2 DEF RegionTypeOK
<1>3. \A i \in DOMAIN marks : i > 1 => marks[i - 1].pos < marks[i].pos
  <2>. TAKE i \in DOMAIN marks
  <2>. HAVE i > 1
  <2>1. i - 1 \in 1 .. Len(marks) /\ i \in 1 .. Len(marks) /\ i - 1 < i
    BY <1>1
  <2> QED BY <1>1, <2>1 DEF Sorted
<1>4. \A i \in DOMAIN marks : marks[i].pos <= length
  BY <1>1
<1>5. Integrity
  BY <1>1, <1>3, <1>4 DEF Integrity
<1> QED BY <1>2, <1>5 DEF InOrder

LEMMA SpecSound == RegionSpec => []IInv
<1>1. MaxText \in Nat
  BY MaxTextAssumption
<1>2. RegionInit => IInv
  BY <1>1, InitSound
<1>3. IInv /\ [RegionNext]_regionVars => IInv'
  BY <1>1, StepSound
<1> QED BY <1>2, <1>3, PTL DEF RegionSpec

\* For a text of any length, after any sequence of edits, scans and marks: the starts and
\* the ends of the regions alternate in the order of the text, none is empty, none touches
\* another and none is outside the text (markregion_verify_integrity).
THEOREM SpecInOrder == RegionSpec => []InOrder
<1>1. IInv => InOrder
  BY MaxTextAssumption, SoundInOrder
<1> QED BY <1>1, SpecSound, PTL

-----------------------------------------------------------------------------
(* The list is a text where each character has a mark of its own           *)

\* The text that the regions of m stand for.
Bits(m, n) == [x \in 1 .. n |-> InRegion(m, x)]

LEMMA BitsAre ==
    ASSUME NEW m, NEW n \in Nat
    PROVE  /\ Bits(m, n) \in Seq(BOOLEAN) /\ Len(Bits(m, n)) = n
           /\ Bits(m, n) \in [1 .. n -> BOOLEAN]
           /\ \A x \in 1 .. n : Bits(m, n)[x] = InRegion(m, x)
<1>1. \A x \in 1 .. n : InRegion(m, x) \in BOOLEAN
  BY DEF InRegion
<1>2. Bits(m, n) \in [1 .. n -> BOOLEAN] /\ \A x \in 1 .. n : Bits(m, n)[x] = InRegion(m, x)
  BY <1>1 DEF Bits
<1>3. Bits(m, n) \in Seq(BOOLEAN) /\ Len(Bits(m, n)) = n
  BY <1>2, SeqDef, LenProperties
<1> QED BY <1>2, <1>3

LEMMA DirtyIs == Dirty = Bits(marks, length)
BY DEF Dirty, Bits, InRegion

LEMMA DirtyIsPrimed == Dirty' = Bits(marks', length')
BY DEF Dirty, Bits, InRegion, Regions

Fill(v, k) == [i \in 1 .. k |-> v]

\* e is d with k times v in between, behind p.
Spreads(e, d, p, k, v) ==
    /\ \A x \in 1 .. p : e[x] = d[x]
    /\ \A x \in p + 1 .. p + k : e[x] = v
    /\ \A x \in p + k + 1 .. Len(d) + k : e[x] = d[x - k]

LEMMA Spread ==
    ASSUME NEW V, NEW v \in V, NEW d \in Seq(V), NEW p \in 0 .. Len(d), NEW k \in Nat,
           NEW e \in [1 .. Len(d) + k -> V], Spreads(e, d, p, k, v)
    PROVE  e = SubSeq(d, 1, p) \o Fill(v, k) \o SubSeq(d, p + 1, Len(d))
<1>. DEFINE A == SubSeq(d, 1, p)
            B == Fill(v, k)
            C == SubSeq(d, p + 1, Len(d))
            AB == A \o B
            L == Len(d)
<1>1. L \in Nat /\ p \in Nat /\ p <= L
  BY LenProperties
<1>2. A \in Seq(V) /\ Len(A) = p /\ \A i \in 1 .. p : A[i] = d[i]
  <2>1. 1 \in 1 .. L + 1 /\ p \in 0 .. L /\ 1 <= p + 1
    BY <1>1
  <2>2. A \in Seq(V) /\ Len(A) = p + 1 - 1 /\ \A i \in 1 .. p + 1 - 1 : A[i] = d[1 + i - 1]
    BY <2>1, SubSeqProperties
  <2>3. p + 1 - 1 = p /\ \A i \in 1 .. p : 1 + i - 1 = i
    BY <1>1
  <2> QED BY <2>2, <2>3
<1>3. B \in Seq(V) /\ Len(B) = k /\ \A i \in 1 .. k : B[i] = v
  <2>1. B \in [1 .. k -> V] /\ \A i \in 1 .. k : B[i] = v
    BY DEF Fill
  <2>2. B \in Seq(V) /\ DOMAIN B = 1 .. k
    BY <2>1, SeqDef
  <2>. HIDE DEF B
  <2>3. Len(B) \in Nat /\ 1 .. Len(B) = 1 .. k
    BY <2>2, LenProperties
  <2>4. Len(B) = k
    BY <2>3
  <2> QED BY <2>1, <2>2, <2>4
<1>4. C \in Seq(V) /\ Len(C) = L - p /\ \A i \in 1 .. L - p : C[i] = d[p + i]
  <2>1. p + 1 \in 1 .. L + 1 /\ L \in 0 .. L /\ p + 1 <= L + 1
    BY <1>1
  <2>2. /\ C \in Seq(V) /\ Len(C) = L + 1 - (p + 1)
        /\ \A i \in 1 .. L + 1 - (p + 1) : C[i] = d[p + 1 + i - 1]
    BY <2>1, SubSeqProperties
  <2>3. L + 1 - (p + 1) = L - p /\ \A i \in 1 .. L - p : p + 1 + i - 1 = p + i
    BY <1>1
  <2> QED BY <2>2, <2>3
<1>. HIDE DEF A, B, C, L
<1>5. /\ AB \in Seq(V) /\ Len(AB) = p + k
      /\ \A i \in 1 .. p + k : AB[i] = IF i <= p THEN A[i] ELSE B[i - p]
  <2>1. /\ AB \in Seq(V) /\ Len(AB) = Len(A) + Len(B)
        /\ \A i \in 1 .. Len(A) + Len(B) : AB[i] = IF i <= Len(A) THEN A[i] ELSE B[i - Len(A)]
    <3>1. A \in Seq(V) /\ B \in Seq(V)
      BY <1>2, <1>3
    <3>2. AB = A \o B
      OBVIOUS
    <3>. HIDE DEF AB
    <3> QED BY <3>1, <3>2, ConcatProperties
  <2> QED BY <2>1, <1>2, <1>3
<1>. HIDE DEF AB
<1>6. /\ AB \o C \in Seq(V) /\ Len(AB \o C) = L + k
      /\ \A i \in 1 .. L + k : (AB \o C)[i] = IF i <= p + k THEN AB[i] ELSE C[i - (p + k)]
  <2>1. /\ AB \o C \in Seq(V) /\ Len(AB \o C) = Len(AB) + Len(C)
        /\ \A i \in 1 .. Len(AB) + Len(C) :
               (AB \o C)[i] = IF i <= Len(AB) THEN AB[i] ELSE C[i - Len(AB)]
    BY <1>4, <1>5, ConcatProperties
  <2>2. Len(AB) = p + k /\ Len(AB) + Len(C) = L + k
    BY <1>1, <1>4, <1>5
  <2> QED BY <2>1, <2>2
<1>7. e \in Seq(V) /\ Len(e) = L + k
  <2>1. L + k \in Nat /\ e \in [1 .. L + k -> V]
    BY <1>1 DEF L
  <2>2. e \in Seq(V) /\ DOMAIN e = 1 .. L + k
    BY <2>1, SeqDef
  <2>3. Len(e) \in Nat /\ 1 .. Len(e) = 1 .. L + k
    BY <2>2, LenProperties
  <2> QED BY <2>1, <2>2, <2>3
<1>8. /\ \A x \in 1 .. p : e[x] = d[x]
      /\ \A x \in p + 1 .. p + k : e[x] = v
      /\ \A x \in p + k + 1 .. L + k : e[x] = d[x - k]
  BY DEF Spreads, L
<1>9. ASSUME NEW i \in 1 .. L + k PROVE e[i] = (AB \o C)[i]
  <2>1. CASE i <= p
    <3>1. i \in 1 .. p /\ i \in 1 .. p + k /\ i <= p + k
      BY <1>1, <2>1
    <3> QED BY <3>1, <2>1, <1>2, <1>5, <1>6, <1>8
  <2>2. CASE i > p /\ i <= p + k
    <3>1. i \in p + 1 .. p + k /\ i \in 1 .. p + k /\ i - p \in 1 .. k /\ ~(i <= p)
      BY <1>1, <2>2
    <3>2. e[i] = v /\ B[i - p] = v /\ AB[i] = B[i - p]
      BY <3>1, <1>3, <1>5, <1>8
    <3> QED BY <3>2, <2>2, <1>6
  <2>3. CASE i > p + k
    <3>1. /\ i \in p + k + 1 .. L + k /\ i - (p + k) \in 1 .. L - p /\ ~(i <= p + k)
          /\ p + (i - (p + k)) = i - k
      BY <1>1, <2>3
    <3>2. e[i] = d[i - k]
      BY <3>1, <1>8
    <3>3. C[i - (p + k)] = d[i - k]
      BY <3>1, <1>4
    <3> QED BY <3>1, <3>2, <3>3, <1>6
  <2>4. i <= p \/ (i > p /\ i <= p + k) \/ i > p + k
    BY <1>1
  <2> QED BY <2>1, <2>2, <2>3, <2>4
<1>10. e = AB \o C
  BY <1>6, <1>7, <1>9, SeqEqual
<1> QED BY <1>10 DEF AB, A, B, C, L

\* e is d without what is behind so, up to eo.
Cuts(e, d, so, eo) ==
    /\ \A x \in 1 .. so : e[x] = d[x]
    /\ \A x \in so + 1 .. Len(d) - (eo - so) : e[x] = d[x + (eo - so)]

LEMMA Cut ==
    ASSUME NEW V, NEW d \in Seq(V), NEW so \in 0 .. Len(d), NEW eo \in 0 .. Len(d), so <= eo,
           NEW e \in [1 .. Len(d) - (eo - so) -> V], Cuts(e, d, so, eo)
    PROVE  e = SubSeq(d, 1, so) \o SubSeq(d, eo + 1, Len(d))
<1>. DEFINE A == SubSeq(d, 1, so)
            C == SubSeq(d, eo + 1, Len(d))
            L == Len(d)
            N == L - (eo - so)
<1>1. L \in Nat /\ so \in Nat /\ so <= L /\ eo \in Nat /\ eo <= L /\ N \in Nat /\ so <= N
  BY LenProperties
<1>2. A \in Seq(V) /\ Len(A) = so /\ \A i \in 1 .. so : A[i] = d[i]
  <2>1. 1 \in 1 .. L + 1 /\ so \in 0 .. L /\ 1 <= so + 1
    BY <1>1
  <2>2. A \in Seq(V) /\ Len(A) = so + 1 - 1 /\ \A i \in 1 .. so + 1 - 1 : A[i] = d[1 + i - 1]
    BY <2>1, SubSeqProperties
  <2>3. so + 1 - 1 = so /\ \A i \in 1 .. so : 1 + i - 1 = i
    BY <1>1
  <2> QED BY <2>2, <2>3
<1>3. C \in Seq(V) /\ Len(C) = L - eo /\ \A i \in 1 .. L - eo : C[i] = d[eo + i]
  <2>1. eo + 1 \in 1 .. L + 1 /\ L \in 0 .. L /\ eo + 1 <= L + 1
    BY <1>1
  <2>2. /\ C \in Seq(V) /\ Len(C) = L + 1 - (eo + 1)
        /\ \A i \in 1 .. L + 1 - (eo + 1) : C[i] = d[eo + 1 + i - 1]
    BY <2>1, SubSeqProperties
  <2>3. L + 1 - (eo + 1) = L - eo /\ \A i \in 1 .. L - eo : eo + 1 + i - 1 = eo + i
    BY <1>1
  <2> QED BY <2>2, <2>3
<1>4. /\ e \in [1 .. N -> V] /\ (\A x \in 1 .. so : e[x] = d[x])
      /\ \A x \in so + 1 .. N : e[x] = d[x + (eo - so)]
  BY DEF Cuts
<1>. HIDE DEF A, C
<1>5. /\ A \o C \in Seq(V) /\ Len(A \o C) = N
      /\ \A i \in 1 .. N : (A \o C)[i] = IF i <= so THEN A[i] ELSE C[i - so]
  <2>1. /\ A \o C \in Seq(V) /\ Len(A \o C) = Len(A) + Len(C)
        /\ \A i \in 1 .. Len(A) + Len(C) :
               (A \o C)[i] = IF i <= Len(A) THEN A[i] ELSE C[i - Len(A)]
    BY <1>2, <1>3, ConcatProperties
  <2>2. Len(A) = so /\ Len(A) + Len(C) = N
    BY <1>1, <1>2, <1>3
  <2> QED BY <2>1, <2>2
<1>. HIDE DEF L, N
<1>6. e \in Seq(V) /\ Len(e) = N
  <2>2. e \in Seq(V) /\ DOMAIN e = 1 .. N
    BY <1>1, <1>4, SeqDef
  <2>3. Len(e) \in Nat /\ 1 .. Len(e) = 1 .. N
    BY <2>2, LenProperties
  <2> QED BY <1>1, <2>2, <2>3
<1>7. ASSUME NEW i \in 1 .. N PROVE e[i] = (A \o C)[i]
  <2>1. CASE i <= so
    <3>1. i \in 1 .. so
      BY <1>1, <2>1
    <3> QED BY <3>1, <2>1, <1>2, <1>4, <1>5
  <2>2. CASE i > so
    <3>1. /\ i \in so + 1 .. N /\ i - so \in 1 .. L - eo /\ ~(i <= so)
          /\ eo + (i - so) = i + (eo - so)
      BY <1>1, <2>2 DEF N
    <3>2. e[i] = d[i + (eo - so)]
      BY <3>1, <1>4
    <3>3. C[i - so] = d[i + (eo - so)]
      BY <3>1, <1>3
    <3> QED BY <3>1, <3>2, <3>3, <1>5
  <2>3. i <= so \/ i > so
    BY <1>1
  <2> QED BY <2>1, <2>2, <2>3
<1>8. e = A \o C
  BY <1>5, <1>6, <1>7, SeqEqual
<1> QED BY <1>8 DEF A, C

LEMMA MarkedIs ==
    ASSUME NEW V, NEW v \in V, NEW n \in Nat, NEW d \in [1 .. n -> V], NEW a, NEW b
    PROVE  /\ Implements!Marked(d, a, b, v) \in [1 .. n -> V]
           /\ \A x \in 1 .. n : Implements!Marked(d, a, b, v)[x] = IF x > a /\ x <= b THEN v ELSE d[x]
BY DEF Implements!Marked

\* One text and the next, by the regions of the one and those of the other.
LEMMA InsertTextMaps ==
    ASSUME MaxText \in Nat, IInv, NEW p \in 0 .. length, NEW n \in 1 .. MaxText, AfterInsert(p, n)
    PROVE  Implements!Next
<1>. DEFINE d == Bits(marks, length)
            e == Bits(marks', length')
<1>1. /\ length \in Nat /\ p \in Nat /\ n \in Nat /\ n > 0 /\ p <= length /\ length + n <= MaxText
      /\ length' = length + n
  BY DEF IInv, AfterInsert
<1>2. \A x \in 1 .. length + n :
          InRegion(marks', x) <=> IF x <= p THEN InRegion(marks, x)
                                  ELSE x <= p + n \/ InRegion(marks, x - n)
  BY <1>1, InsertTextIs
<1>3. /\ d \in Seq(BOOLEAN) /\ Len(d) = length
      /\ \A x \in 1 .. length : d[x] = InRegion(marks, x)
  BY <1>1, BitsAre
<1>4. /\ e \in [1 .. length + n -> BOOLEAN]
      /\ \A x \in 1 .. length + n : e[x] = InRegion(marks', x)
  <2>1. length' \in Nat /\ length' = length + n
    BY <1>1
  <2>2. /\ e \in [1 .. length' -> BOOLEAN]
        /\ \A x \in 1 .. length' : e[x] = InRegion(marks', x)
    BY <2>1, BitsAre
  <2> QED BY <2>1, <2>2
<1>5. Dirty = d /\ Dirty' = e
  BY DirtyIs, DirtyIsPrimed
<1>6. \A m, x : InRegion(m, x) \in BOOLEAN
  BY DEF InRegion
<1>. HIDE DEF d, e
<1>7. ASSUME NEW x \in 1 .. p PROVE e[x] = d[x]
  <2>1. x \in 1 .. length + n /\ x \in 1 .. length /\ x <= p
    BY <1>1
  <2>2. InRegion(marks', x) <=> InRegion(marks, x)
    BY <1>2, <2>1
  <2>3. InRegion(marks', x) = InRegion(marks, x)
    BY <2>2, <1>6
  <2> QED BY <2>1, <2>3, <1>3, <1>4
<1>8. ASSUME NEW x \in p + 1 .. p + n PROVE e[x] = TRUE
  <2>1. x \in 1 .. length + n /\ ~(x <= p) /\ x <= p + n
    BY <1>1
  <2>2. InRegion(marks', x)
    BY <1>2, <2>1
  <2> QED BY <2>1, <2>2, <1>4, <1>6
<1>9. ASSUME NEW x \in p + n + 1 .. length + n PROVE e[x] = d[x - n]
  <2>1. x \in 1 .. length + n /\ x - n \in 1 .. length /\ ~(x <= p) /\ ~(x <= p + n)
    BY <1>1
  <2>2. InRegion(marks', x) <=> InRegion(marks, x - n)
    BY <1>2, <2>1
  <2>3. InRegion(marks', x) = InRegion(marks, x - n)
    BY <2>2, <1>6
  <2> QED BY <2>1, <2>3, <1>3, <1>4
<1>10. e = SubSeq(d, 1, p) \o [i \in 1 .. n |-> TRUE] \o SubSeq(d, p + 1, Len(d))
  <2>1. p \in 0 .. Len(d) /\ e \in [1 .. Len(d) + n -> BOOLEAN] /\ Len(d) + n = length + n
    BY <1>1, <1>3, <1>4
  <2>2. ASSUME NEW V, V = BOOLEAN, NEW v \in V, v = TRUE
        PROVE  e = SubSeq(d, 1, p) \o Fill(v, n) \o SubSeq(d, p + 1, Len(d))
    <3>1. Spreads(e, d, p, n, v)
      BY <2>1, <2>2, <1>7, <1>8, <1>9 DEF Spreads
    <3>2. v \in V /\ d \in Seq(V) /\ n \in Nat /\ p \in 0 .. Len(d) /\ e \in [1 .. Len(d) + n -> V]
      BY <2>1, <2>2, <1>1, <1>3
    <3> QED BY ONLY <3>1, <3>2, Spread
  <2> QED BY <2>2 DEF Fill
<1>11. Implements!Insert(p, n)
  BY <1>5, <1>10 DEF Implements!Insert
<1>12. p \in 0 .. Len(Dirty) /\ n \in 1 .. MaxText - Len(Dirty)
  BY <1>1, <1>3, <1>5
<1> QED BY <1>11, <1>12 DEF Implements!Next

LEMMA DeleteRangeMaps ==
    ASSUME MaxText \in Nat, IInv, NEW so \in 0 .. length, NEW eo \in 0 .. length,
           NEW mso \in 0 .. length, NEW meo \in 0 .. length,
           mso <= so, eo <= meo, AfterDelete(so, eo, mso, meo)
    PROVE  Implements!Next
<1>. DEFINE d == Bits(marks, length)
            e == Bits(marks', length')
            c == Implements!Marked(d, mso, meo, TRUE)
            k == eo - so
            N == length - k
<1>1. /\ length \in Nat /\ so \in Nat /\ eo \in Nat /\ mso \in Nat /\ meo \in Nat
      /\ mso <= so /\ eo <= meo /\ meo <= length /\ so < eo /\ k \in Nat /\ N \in Nat /\ so <= N
      /\ length' = N
  BY DEF IInv, AfterDelete
<1>2. \A x \in 1 .. N :
          InRegion(marks', x) <=> IF x <= mso THEN InRegion(marks, x)
                                  ELSE x <= meo + so - eo \/ InRegion(marks, x + (eo - so))
  BY <1>1, DeleteRangeIs
<1>3. /\ d \in Seq(BOOLEAN) /\ Len(d) = length /\ d \in [1 .. length -> BOOLEAN]
      /\ \A x \in 1 .. length : d[x] = InRegion(marks, x)
  BY <1>1, BitsAre
<1>4. /\ e \in [1 .. N -> BOOLEAN]
      /\ \A x \in 1 .. N : e[x] = InRegion(marks', x)
  <2>1. length' \in Nat /\ length' = N
    BY <1>1
  <2>2. /\ e \in [1 .. length' -> BOOLEAN]
        /\ \A x \in 1 .. length' : e[x] = InRegion(marks', x)
    BY <2>1, BitsAre
  <2> QED BY <2>1, <2>2
<1>5. Dirty = d /\ Dirty' = e
  BY DirtyIs, DirtyIsPrimed
<1>6. \A m, x : InRegion(m, x) \in BOOLEAN
  BY DEF InRegion
<1>. HIDE DEF d, e
<1>7. /\ c \in [1 .. length -> BOOLEAN]
      /\ \A x \in 1 .. length : c[x] = IF x > mso /\ x <= meo THEN TRUE ELSE d[x]
  <2>1. ASSUME NEW V, V = BOOLEAN, NEW v \in V, v = TRUE
        PROVE  /\ Implements!Marked(d, mso, meo, v) \in [1 .. length -> V]
               /\ \A x \in 1 .. length :
                      Implements!Marked(d, mso, meo, v)[x] = IF x > mso /\ x <= meo THEN v ELSE d[x]
    <3>1. d \in [1 .. length -> V]
      BY <2>1, <1>3
    <3> QED BY <3>1, <2>1, ZenonT(40) DEF Implements!Marked
  <2> QED BY <2>1, ZenonT(40)
<1>8. c \in Seq(BOOLEAN) /\ Len(c) = length
  <2>1. c \in Seq(BOOLEAN) /\ DOMAIN c = 1 .. length
    BY <1>1, <1>7, SeqDef
  <2>. HIDE DEF c
  <2>2. Len(c) \in Nat /\ 1 .. Len(c) = 1 .. length
    BY <2>1, LenProperties
  <2> QED BY <1>1, <2>1, <2>2
<1>. HIDE DEF c
<1>9. ASSUME NEW x \in 1 .. so PROVE e[x] = c[x]
  <2>1. x \in 1 .. N /\ x \in 1 .. length /\ x <= meo + so - eo /\ x <= meo
        /\ (x > mso <=> ~(x <= mso))
    BY <1>1
  <2>2. CASE x <= mso
    <3>1. InRegion(marks', x) = InRegion(marks, x)
      BY <1>2, <2>1, <2>2, <1>6
    <3> QED BY <2>1, <2>2, <3>1, <1>3, <1>4, <1>7
  <2>3. CASE ~(x <= mso)
    <3>1. InRegion(marks', x)
      BY <1>2, <2>1, <2>3
    <3>2. c[x] = TRUE
      BY <1>7, <2>1, <2>3
    <3> QED BY <2>1, <3>1, <3>2, <1>4, <1>6
  <2> QED BY <2>2, <2>3
<1>10. ASSUME NEW x \in so + 1 .. N PROVE e[x] = c[x + (eo - so)]
  <2>1. /\ x \in 1 .. N /\ x + (eo - so) \in 1 .. length /\ ~(x <= mso) /\ x + (eo - so) > mso
        /\ (x <= meo + so - eo <=> x + (eo - so) <= meo)
    BY <1>1
  <2>2. CASE x <= meo + so - eo
    <3>1. InRegion(marks', x)
      BY <1>2, <2>1, <2>2
    <3>2. c[x + (eo - so)] = TRUE
      BY <1>7, <2>1, <2>2
    <3> QED BY <2>1, <3>1, <3>2, <1>4, <1>6
  <2>3. CASE ~(x <= meo + so - eo)
    <3>1. InRegion(marks', x) <=> InRegion(marks, x + (eo - so))
      BY <1>2, <2>1, <2>3
    <3>2. InRegion(marks', x) = InRegion(marks, x + (eo - so))
      BY <3>1, <1>6
    <3>3. c[x + (eo - so)] = d[x + (eo - so)]
      BY <1>7, <2>1, <2>3
    <3> QED BY <2>1, <3>2, <3>3, <1>3, <1>4
  <2> QED BY <2>2, <2>3
<1>11. e = SubSeq(c, 1, so) \o SubSeq(c, eo + 1, Len(c))
  <2>1. so \in 0 .. Len(c) /\ eo \in 0 .. Len(c) /\ so <= eo
    BY <1>1, <1>8
  <2>2. ASSUME NEW V, V = BOOLEAN
        PROVE  e = SubSeq(c, 1, so) \o SubSeq(c, eo + 1, Len(c))
    <3>1. Cuts(e, c, so, eo)
      BY <1>1, <1>8, <1>9, <1>10 DEF Cuts
    <3>2. c \in Seq(V) /\ e \in [1 .. Len(c) - (eo - so) -> V]
      BY <2>2, <1>1, <1>4, <1>8
    <3> QED BY <2>1, <3>1, <3>2, Cut
  <2> QED BY <2>2
<1>12. Implements!Delete(so, eo, mso, meo)
  BY <1>5, <1>11 DEF Implements!Delete, c
<1>13. so \in 0 .. Len(Dirty) /\ eo \in 0 .. Len(Dirty)
       /\ mso \in 0 .. Len(Dirty) /\ meo \in 0 .. Len(Dirty)
  BY <1>1, <1>3, <1>5
<1> QED BY <1>1, <1>12, <1>13 DEF Implements!Next

\* A part of the text is marked or done, and its characters stay where they are.
LEMMA MarkedTwice ==
    ASSUME NEW n \in Nat, NEW d \in [1 .. n -> BOOLEAN], NEW at \in Int, NEW end \in Int,
           NEW e \in [1 .. n -> BOOLEAN],
           \A x \in 1 .. n : e[x] <=> x > at /\ (x <= end \/ d[x])
    PROVE  e = Implements!Marked(Implements!Marked(d, 0, at, FALSE), at, end, TRUE)
<1>. DEFINE c == Implements!Marked(d, 0, at, FALSE)
            m == Implements!Marked(c, at, end, TRUE)
<1>1. c \in [1 .. n -> BOOLEAN] /\ \A x \in 1 .. n : c[x] = IF x > 0 /\ x <= at THEN FALSE ELSE d[x]
  BY DEF Implements!Marked
<1>. HIDE DEF c
<1>2. m \in [1 .. n -> BOOLEAN] /\ \A x \in 1 .. n : m[x] = IF x > at /\ x <= end THEN TRUE ELSE c[x]
  BY <1>1 DEF Implements!Marked
<1>. HIDE DEF m
<1>3. ASSUME NEW x \in 1 .. n PROVE e[x] = m[x]
  <2>1. e[x] \in BOOLEAN /\ m[x] \in BOOLEAN /\ c[x] \in BOOLEAN
    BY <1>1, <1>2
  <2>2. e[x] <=> x > at /\ (x <= end \/ d[x])
    OBVIOUS
  <2>3. CASE x <= at
    <3>1. ~(x > at) /\ x > 0
      BY <2>3
    <3>2. ~m[x]
      BY <1>1, <1>2, <2>3, <3>1
    <3> QED BY <2>1, <2>2, <3>1, <3>2
  <2>4. CASE ~(x <= at) /\ x <= end
    <3>1. x > at
      BY <2>4
    <3>2. m[x]
      BY <1>2, <2>4, <3>1
    <3> QED BY <2>1, <2>2, <2>4, <3>1, <3>2
  <2>5. CASE ~(x <= at) /\ ~(x <= end)
    <3>1. x > at
      BY <2>5
    <3>2. m[x] = d[x]
      BY <1>1, <1>2, <2>5
    <3> QED BY <2>1, <2>2, <2>5, <3>1, <3>2
  <2> QED BY <2>3, <2>4, <2>5
<1>4. e = m
  BY <1>2, <1>3
<1> QED BY <1>4 DEF c, m

\* e is d with the characters behind a, up to b, marked.
MarksMore(e, d, n, a, b) == \A x \in 1 .. n : e[x] <=> (x > a /\ x <= b) \/ d[x]

LEMMA MarkedOnce ==
    ASSUME NEW n \in Nat, NEW d \in [1 .. n -> BOOLEAN], NEW a \in Int, NEW b \in Int,
           NEW e \in [1 .. n -> BOOLEAN],
           MarksMore(e, d, n, a, b)
    PROVE  e = Implements!Marked(d, a, b, TRUE)
<1>. DEFINE m == Implements!Marked(d, a, b, TRUE)
<1>1. m \in [1 .. n -> BOOLEAN] /\ \A x \in 1 .. n : m[x] = IF x > a /\ x <= b THEN TRUE ELSE d[x]
  BY DEF Implements!Marked
<1>. HIDE DEF m
<1>2. ASSUME NEW x \in 1 .. n PROVE e[x] = m[x]
  <2>1. e[x] \in BOOLEAN /\ m[x] \in BOOLEAN
    BY <1>1
  <2>2. e[x] <=> (x > a /\ x <= b) \/ d[x]
    BY DEF MarksMore
  <2>3. CASE x > a /\ x <= b
    BY <1>1, <2>1, <2>2, <2>3
  <2>4. CASE ~(x > a /\ x <= b)
    <3>1. m[x] = d[x]
      BY <1>1, <2>4
    <3> QED BY <2>1, <2>2, <2>4, <3>1
  <2> QED BY <2>3, <2>4
<1>3. e = m
  BY <1>1, <1>2
<1> QED BY <1>3 DEF m

\* The text before and after a step that moves no character.
LEMMA InPlace ==
    ASSUME length \in Nat, length' = length
    PROVE  /\ Dirty \in [1 .. length -> BOOLEAN] /\ Dirty' \in [1 .. length -> BOOLEAN]
           /\ Len(Dirty) = length
           /\ \A x \in 1 .. length : (Dirty[x] <=> InRegion(marks, x))
                                     /\ (Dirty'[x] <=> InRegion(marks', x))
<1>. DEFINE d == Bits(marks, length)
            e == Bits(marks', length')
<1>1. /\ d \in [1 .. length -> BOOLEAN] /\ Len(d) = length
      /\ \A x \in 1 .. length : d[x] = InRegion(marks, x)
  BY BitsAre
<1>2. /\ e \in [1 .. length' -> BOOLEAN]
      /\ \A x \in 1 .. length' : e[x] = InRegion(marks', x)
  BY BitsAre
<1>. HIDE DEF d, e
<1>3. Dirty = d /\ Dirty' = e
  BY DirtyIs, DirtyIsPrimed DEF d, e
<1>4. /\ e \in [1 .. length -> BOOLEAN]
      /\ \A x \in 1 .. length : e[x] = InRegion(marks', x)
  BY <1>2
<1>5. \A m, x : InRegion(m, x) \in BOOLEAN
  BY DEF InRegion
<1>6. ASSUME NEW x \in 1 .. length
      PROVE  (d[x] <=> InRegion(marks, x)) /\ (e[x] <=> InRegion(marks', x))
  BY <1>1, <1>4, <1>5
<1> QED BY <1>1, <1>3, <1>4, <1>6

LEMMA ScanMaps ==
    ASSUME IInv, length' = length, NEW at \in 0 .. length, NEW end \in 0 .. length,
           \A x \in 1 .. length : InRegion(marks', x) <=> x > at /\ (x <= end \/ InRegion(marks, x))
    PROVE  Implements!Next
<1>1. length \in Nat /\ at \in Int /\ end \in Int
  BY DEF IInv
<1>2. /\ Dirty \in [1 .. length -> BOOLEAN] /\ Dirty' \in [1 .. length -> BOOLEAN]
      /\ Len(Dirty) = length
      /\ \A x \in 1 .. length : (Dirty[x] <=> InRegion(marks, x))
                                /\ (Dirty'[x] <=> InRegion(marks', x))
  BY <1>1, InPlace
<1>3. \A x \in 1 .. length : Dirty'[x] <=> x > at /\ (x <= end \/ Dirty[x])
  BY <1>2
<1>4. ASSUME NEW d, NEW e, d = Dirty, e = Dirty'
      PROVE  e = Implements!Marked(Implements!Marked(d, 0, at, FALSE), at, end, TRUE)
  <2>1. /\ d \in [1 .. length -> BOOLEAN] /\ e \in [1 .. length -> BOOLEAN]
        /\ \A x \in 1 .. length : e[x] <=> x > at /\ (x <= end \/ d[x])
    BY <1>2, <1>3, <1>4
  <2> QED BY <1>1, <2>1, MarkedTwice
<1>5. Implements!Scanned(at, end)
  BY <1>4 DEF Implements!Scanned
<1> QED BY <1>2, <1>5 DEF Implements!Next

LEMMA MarkMaps ==
    ASSUME IInv, length' = length, NEW a \in 0 .. length, NEW b \in 0 .. length,
           \A x \in 1 .. length : InRegion(marks', x) <=> (x > a /\ x <= b) \/ InRegion(marks, x)
    PROVE  Implements!Next
<1>1. length \in Nat /\ a \in Int /\ b \in Int
  BY DEF IInv
<1>2. /\ Dirty \in [1 .. length -> BOOLEAN] /\ Dirty' \in [1 .. length -> BOOLEAN]
      /\ Len(Dirty) = length
      /\ \A x \in 1 .. length : (Dirty[x] <=> InRegion(marks, x))
                                /\ (Dirty'[x] <=> InRegion(marks', x))
  BY <1>1, InPlace
<1>3. \A x \in 1 .. length : Dirty'[x] <=> (x > a /\ x <= b) \/ Dirty[x]
  BY <1>2
<1>4. ASSUME NEW d, NEW e, d = Dirty, e = Dirty'
      PROVE  e = Implements!Marked(d, a, b, TRUE)
  <2>1. /\ d \in [1 .. length -> BOOLEAN] /\ e \in [1 .. length -> BOOLEAN]
        /\ MarksMore(e, d, length, a, b)
    BY <1>2, <1>3, <1>4 DEF MarksMore
  <2> QED BY <1>1, <2>1, MarkedOnce
<1>5. Implements!Mark(a, b)
  BY <1>4 DEF Implements!Mark
<1> QED BY <1>2, <1>5 DEF Implements!Next

LEMMA InitMaps == RegionInit => Implements!Init
<1>. SUFFICES ASSUME RegionInit
              PROVE  Implements!Init
  OBVIOUS
<1>1. length = 0 /\ Dirty = Bits(marks, length)
  BY DirtyIs DEF RegionInit
<1>2. Dirty \in Seq(BOOLEAN) /\ Len(Dirty) = 0
  <2>1. length \in Nat
    BY <1>1
  <2> QED BY <1>1, <2>1, BitsAre
<1>3. Dirty = <<>>
  BY <1>2, EmptySeq
<1> QED BY <1>3 DEF Implements!Init

LEMMA StepMaps == MaxText \in Nat /\ IInv /\ [RegionNext]_regionVars => [Implements!Next]_Dirty
<1>. SUFFICES ASSUME MaxText \in Nat, IInv, [RegionNext]_regionVars
              PROVE  [Implements!Next]_Dirty
  OBVIOUS
<1>0. length \in Nat /\ length <= MaxText
  BY DEF IInv
<1>1. ASSUME NEW p \in 0 .. length, NEW n \in 1 .. MaxText, AfterInsert(p, n)
      PROVE  Implements!Next
  BY <1>1, InsertTextMaps
<1>2. ASSUME NEW so \in 0 .. length, NEW eo \in 0 .. length,
             NEW mso \in 0 .. length, NEW meo \in 0 .. length,
             mso <= so, eo <= meo, AfterDelete(so, eo, mso, meo)
      PROVE  Implements!Next
  BY <1>2, DeleteRangeMaps
<1>3. ASSUME NEW at \in 0 .. length, NEW end \in 0 .. length, RunEnds(at, end)
      PROVE  Implements!Next
  BY <1>3, RunScannerIs, ScanMaps
<1>4. ASSUME NEW at \in 0 .. length, RunSpellcheck(at)
      PROVE  Implements!Next
  <2>1. /\ length' = length
        /\ \A x \in 1 .. length : InRegion(marks', x) <=> x > at /\ InRegion(marks, x)
    BY <1>4, RunSpellcheckIs
  <2>2. \A x \in 1 .. length : x > at => ~(x <= at)
    BY <1>0
  <2>3. \A x \in 1 .. length : InRegion(marks', x) <=> x > at /\ (x <= at \/ InRegion(marks, x))
    BY <2>1, <2>2
  <2> QED BY <2>1, <2>3, ScanMaps
<1>5. ASSUME NEW start \in 0 .. length, NEW end \in 1 .. MaxText + 1, start <= end,
             NeedsScan(start, end)
      PROVE  Implements!Next \/ Dirty' = Dirty
  <2>1. /\ length' = length
        /\ \/ marks' = marks
           \/ \E b \in 0 .. length :
                  \A x \in 1 .. length :
                      InRegion(marks', x) <=> (x > start /\ x <= b) \/ InRegion(marks, x)
    BY <1>5, MarkNeedscanningIs
  <2>2. CASE marks' = marks
    BY <2>1, <2>2, DirtyIs, DirtyIsPrimed
  <2>3. ASSUME NEW b \in 0 .. length,
               \A x \in 1 .. length :
                   InRegion(marks', x) <=> (x > start /\ x <= b) \/ InRegion(marks, x)
        PROVE  Implements!Next
    BY <2>1, <2>3, MarkMaps
  <2> QED BY <2>1, <2>2, <2>3
<1>6. CASE Cleanup
  <2>1. length' = length /\ \A x \in 1 .. length : ~InRegion(marks', x)
    BY <1>6, CleanupIs
  <2>2. length \in 0 .. length /\ \A x \in 1 .. length : ~(x > length)
    BY <1>0
  <2>3. \A x \in 1 .. length :
            InRegion(marks', x) <=> x > length /\ (x <= length \/ InRegion(marks, x))
    BY <2>1, <2>2
  <2> QED BY <2>1, <2>2, <2>3, ScanMaps
<1>7. CASE UNCHANGED regionVars
  BY <1>7, DirtyIs, DirtyIsPrimed DEF regionVars
<1> QED BY <1>1, <1>2, <1>3, <1>4, <1>5, <1>6, <1>7 DEF RegionNext

\* For a text of any length the list of regions is the text where each character has a mark
\* of its own: an insertion, a deletion with the text around it, a part of a scan and a
\* request for one change exactly the marks of the characters they are about, and all
\* others keep theirs wherever they move (bftextview2_markregion.c).
THEOREM SpecDirtySpec == RegionSpec => DirtySpec
<1>1. RegionInit => Implements!Init
  BY InitMaps
<1>2. IInv /\ [RegionNext]_regionVars => [Implements!Next]_Dirty
  BY MaxTextAssumption, StepMaps
<1> QED BY <1>1, <1>2, SpecSound, PTL DEF RegionSpec, DirtySpec, Implements!Spec
=============================================================================
