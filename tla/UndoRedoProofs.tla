--------------------------- MODULE UndoRedoProofs ---------------------------
(***************************************************************************)
(* Undo and redo, for any characters, any texts typed and inserted, any    *)
(* number of undo levels and any length of the lists.                      *)
(*                                                                         *)
(* What makes them correct is that the entries of a group record one       *)
(* change: Spans(entries, a, b), they lead from b back to a and from a to  *)
(* b.  An insertion, a deletion and the merge with the newest entry keep   *)
(* it (InsertIsEdit, DeleteIsEdit, MergedLinks), and replaying a group     *)
(* uses it (SpansUndone, SpansRedone).  So a document has a history        *)
(* (Trail): texts behind it and ahead of it, one at the end of each group; *)
(* every operation, whole, keeps one and moves along it in one of five     *)
(* ways (Moves).  The invariant says that there is a history, and that a   *)
(* flag that is not set is on the text that was saved (Honest): with it    *)
(* RedoKept, CleanMeansSaved and the refinement of UndoHistory follow.     *)
(***************************************************************************)
EXTENDS UndoRedo, SequenceTheorems, FiniteSetTheorems, TLAPS

-----------------------------------------------------------------------------
(* Texts: what an insertion and a deletion give, place by place.           *)

\* Two texts one after the other, place by place.
LEMMA Joined ==
    ASSUME NEW x \in Seq(Chars), NEW y \in Seq(Chars), NEW z, z = x \o y
    PROVE  /\ z \in Seq(Chars) /\ Len(x) \in Nat /\ Len(y) \in Nat
           /\ Len(z) = Len(x) + Len(y)
           /\ \A i \in 1 .. Len(z) : z[i] = IF i <= Len(x) THEN x[i] ELSE y[i - Len(x)]
BY ConcatProperties, LenProperties

\* A text with t put in at p, place by place.
LEMMA InsertedIs ==
    ASSUME NEW b \in Seq(Chars), NEW p \in 0 .. Len(b), NEW t \in Seq(Chars)
    PROVE  /\ Inserted(b, p, t) \in Seq(Chars)
           /\ Len(Inserted(b, p, t)) = Len(b) + Len(t)
           /\ \A i \in 1 .. Len(b) + Len(t) :
                Inserted(b, p, t)[i] = IF i <= p THEN b[i]
                                       ELSE IF i <= p + Len(t) THEN t[i - p] ELSE b[i - Len(t)]
<1> DEFINE l == SubSeq(b, 1, p)
           r == SubSeq(b, p + 1, Len(b))
           c == l \o t
           d == Inserted(b, p, t)
<1>1. Len(b) \in Nat /\ Len(t) \in Nat /\ Offset(b, p) = p
  BY LenProperties DEF Offset
<1>2. d = c \o r
  BY <1>1 DEF Inserted
<1>3. l \in Seq(Chars) /\ Len(l) = p /\ \A i \in 1 .. p : l[i] = b[i]
  BY SubSeqProperties
<1>4. r \in Seq(Chars) /\ Len(r) = Len(b) - p /\ \A i \in 1 .. Len(b) - p : r[i] = b[i + p]
  BY SubSeqProperties
<1>5. c = l \o t
  OBVIOUS
<1> HIDE DEF l, r, c, d
<1>6. c \in Seq(Chars) /\ Len(c) = p + Len(t)
      /\ \A i \in 1 .. Len(c) : c[i] = IF i <= p THEN l[i] ELSE t[i - p]
  BY <1>3, <1>5, Joined
<1>7. d \in Seq(Chars) /\ Len(d) = Len(b) + Len(t)
      /\ \A i \in 1 .. Len(d) : d[i] = IF i <= Len(c) THEN c[i] ELSE r[i - Len(c)]
  <2>1. d \in Seq(Chars) /\ Len(d) = Len(c) + Len(r)
        /\ \A i \in 1 .. Len(d) : d[i] = IF i <= Len(c) THEN c[i] ELSE r[i - Len(c)]
    <3>1. c \in Seq(Chars) /\ r \in Seq(Chars) /\ d = c \o r
      BY <1>2, <1>4, <1>6
    <3> QED BY <3>1, Joined
  <2> QED BY <1>1, <1>4, <1>6, <2>1
<1>8. ASSUME NEW i \in 1 .. Len(b) + Len(t)
      PROVE  d[i] = IF i <= p THEN b[i] ELSE IF i <= p + Len(t) THEN t[i - p] ELSE b[i - Len(t)]
  <2>1. CASE i <= p + Len(t)
    <3>1. d[i] = c[i] /\ i \in 1 .. Len(c)
      BY <1>1, <1>6, <1>7, <1>8, <2>1
    <3> QED BY <1>1, <1>3, <1>6, <1>8, <2>1, <3>1
  <2>2. CASE ~(i <= p + Len(t))
    <3>0. i \in Int /\ p \in Int /\ p <= Len(b) /\ i <= Len(b) + Len(t) /\ Len(t) \in Int /\ Len(b) \in Int
      BY <1>1, <1>8
    <3> DEFINE k == i - (p + Len(t))
    <3>1. k \in 1 .. Len(b) - p /\ k + p = i - Len(t)
      BY <2>2, <3>0
    <3>2. d[i] = r[k]
      BY <1>1, <1>6, <1>7, <1>8, <2>2
    <3> HIDE DEF k
    <3>3. r[k] = b[k + p]
      BY <1>4, <3>1
    <3>4. ~(i <= p)
      BY <1>1, <1>8, <2>2
    <3> QED BY <2>2, <3>1, <3>2, <3>3, <3>4
  <2> QED BY <2>1, <2>2
<1> QED BY <1>7, <1>8 DEF d

\* A text without the part from s to e, place by place.
LEMMA DeletedIs ==
    ASSUME NEW b \in Seq(Chars), NEW e \in 0 .. Len(b), NEW s \in 0 .. e
    PROVE  /\ Deleted(b, s, e) \in Seq(Chars)
           /\ Len(Deleted(b, s, e)) = Len(b) - (e - s)
           /\ \A i \in 1 .. Len(b) - (e - s) :
                Deleted(b, s, e)[i] = IF i <= s THEN b[i] ELSE b[i + (e - s)]
<1> DEFINE l == SubSeq(b, 1, s)
           r == SubSeq(b, e + 1, Len(b))
           d == Deleted(b, s, e)
<1>1. Len(b) \in Nat /\ Offset(b, s) = s /\ Offset(b, e) = e
  BY LenProperties DEF Offset
<1>2. d = l \o r
  BY <1>1 DEF Deleted
<1>3. l \in Seq(Chars) /\ Len(l) = s /\ \A i \in 1 .. s : l[i] = b[i]
  BY <1>1, SubSeqProperties
<1>4. r \in Seq(Chars) /\ Len(r) = Len(b) - e /\ \A i \in 1 .. Len(b) - e : r[i] = b[i + e]
  BY <1>1, SubSeqProperties
<1> HIDE DEF l, r, d
<1>5. d \in Seq(Chars) /\ Len(d) = Len(l) + Len(r)
      /\ \A i \in 1 .. Len(d) : d[i] = IF i <= Len(l) THEN l[i] ELSE r[i - Len(l)]
  <2>1. l \in Seq(Chars) /\ r \in Seq(Chars)
    BY <1>3, <1>4
  <2> QED BY <1>2, <2>1, Joined
<1>6. Len(d) = Len(b) - (e - s)
  BY <1>1, <1>3, <1>4, <1>5
<1>7. ASSUME NEW i \in 1 .. Len(b) - (e - s)
      PROVE  d[i] = IF i <= s THEN b[i] ELSE b[i + (e - s)]
  <2>1. CASE i <= s
    BY <1>1, <1>3, <1>5, <1>6, <1>7, <2>1
  <2>2. CASE ~(i <= s)
    <3>1. PICK k \in 1 .. Len(b) - e : k = i - s
      BY <1>1, <1>7, <2>2
    <3>2. d[i] = r[k]
      BY <1>1, <1>3, <1>5, <1>6, <1>7, <2>2, <3>1
    <3>3. r[k] = b[k + e] /\ k + e = i + (e - s)
      BY <1>1, <1>4, <1>7, <3>1
    <3> QED BY <2>2, <3>2, <3>3
  <2> QED BY <2>1, <2>2
<1> QED BY <1>5, <1>6, <1>7 DEF d

\* A part of a text, place by place.
LEMMA SliceIs ==
    ASSUME NEW b \in Seq(Chars), NEW e \in 0 .. Len(b), NEW s \in 0 .. e
    PROVE  /\ Slice(b, s, e) \in Seq(Chars)
           /\ Len(Slice(b, s, e)) = e - s
           /\ \A i \in 1 .. e - s : Slice(b, s, e)[i] = b[i + s]
BY SubSeqProperties DEF Slice

\* Two texts of the same length that agree in each place are the same text.
LEMMA SameText ==
    ASSUME NEW a \in Seq(Chars), NEW b \in Seq(Chars), Len(a) = Len(b),
           \A i \in 1 .. Len(a) : a[i] = b[i]
    PROVE  a = b
BY SeqEqual

-----------------------------------------------------------------------------
(* An entry and the two texts it lies between.                             *)

\* b is the text a with t put in at s.
Grown(a, b, s, t) ==
    /\ a \in Seq(Chars) /\ b \in Seq(Chars) /\ t \in Seq(Chars)
    /\ s \in 0 .. Len(a)
    /\ Len(b) = Len(a) + Len(t)
    /\ \A i \in 1 .. Len(b) :
          b[i] = IF i <= s THEN a[i] ELSE IF i <= s + Len(t) THEN t[i - s] ELSE a[i - Len(t)]

\* The change that the entry records made b of a.
Links(entry, a, b) ==
    /\ entry \in Entry
    /\ entry.end = entry.start + Len(entry.text)
    /\ entry.op = "UndoInsert" => Grown(a, b, entry.start, entry.text)
    /\ entry.op = "UndoDelete" => Grown(b, a, entry.start, entry.text)

\* An insertion grows the text.
LEMMA InsertGrows ==
    ASSUME NEW a \in Seq(Chars), NEW s \in 0 .. Len(a), NEW t \in Seq(Chars)
    PROVE  Grown(a, Inserted(a, s, t), s, t)
BY InsertedIs, LenProperties DEF Grown

\* A deletion is undone by putting the deleted part in again.
LEMMA DeleteShrinks ==
    ASSUME NEW b \in Seq(Chars), NEW e \in 0 .. Len(b), NEW s \in 0 .. e
    PROVE  Grown(Deleted(b, s, e), b, s, Slice(b, s, e)) /\ e = s + Len(Slice(b, s, e))
<1> DEFINE a == Deleted(b, s, e)
           t == Slice(b, s, e)
<1>1. a \in Seq(Chars) /\ Len(a) = Len(b) - (e - s)
      /\ \A i \in 1 .. Len(b) - (e - s) : a[i] = IF i <= s THEN b[i] ELSE b[i + (e - s)]
  BY DeletedIs
<1>2. t \in Seq(Chars) /\ Len(t) = e - s /\ \A i \in 1 .. e - s : t[i] = b[i + s]
  BY SliceIs
<1>3. Len(b) \in Nat
  BY LenProperties
<1> HIDE DEF a, t
<1>4. ASSUME NEW i \in 1 .. Len(b)
      PROVE  b[i] = IF i <= s THEN a[i] ELSE IF i <= s + Len(t) THEN t[i - s] ELSE a[i - Len(t)]
  <2>1. CASE i <= s
    BY <1>1, <1>3, <1>4, <2>1
  <2>2. CASE ~(i <= s) /\ i <= e
    <3> DEFINE k == i - s
    <3>1. k \in 1 .. e - s /\ k + s = i
      BY <1>3, <1>4, <2>2
    <3>2. i <= s + Len(t)
      BY <1>2, <1>3, <1>4, <2>2
    <3> HIDE DEF k
    <3>3. t[k] = b[i]
      BY <1>2, <3>1
    <3> QED BY <2>2, <3>2, <3>3 DEF k
  <2>3. CASE ~(i <= e)
    <3> DEFINE k == i - Len(t)
    <3>1. k \in 1 .. Len(b) - (e - s) /\ k + (e - s) = i /\ ~(k <= s)
      BY <1>2, <1>3, <1>4, <2>3
    <3>2. ~(i <= s + Len(t)) /\ ~(i <= s)
      BY <1>2, <1>3, <1>4, <2>3
    <3> HIDE DEF k
    <3>3. a[k] = b[i]
      BY <1>1, <3>1
    <3> QED BY <3>2, <3>3 DEF k
  <2> QED BY <1>4, <2>1, <2>2, <2>3
<1> QED BY <1>1, <1>2, <1>3, <1>4 DEF Grown, a, t

\* Putting the part in again gives the grown text,
LEMMA GrownInserted ==
    ASSUME NEW a, NEW b, NEW s, NEW t, Grown(a, b, s, t)
    PROVE  Inserted(a, s, t) = b
<1> DEFINE d == Inserted(a, s, t)
<1>1. a \in Seq(Chars) /\ b \in Seq(Chars) /\ t \in Seq(Chars) /\ s \in 0 .. Len(a)
      /\ Len(b) = Len(a) + Len(t)
  BY DEF Grown
<1>2. d \in Seq(Chars) /\ Len(d) = Len(b)
      /\ \A i \in 1 .. Len(b) :
            d[i] = IF i <= s THEN a[i] ELSE IF i <= s + Len(t) THEN t[i - s] ELSE a[i - Len(t)]
  <2>1. d \in Seq(Chars) /\ Len(d) = Len(a) + Len(t)
    BY <1>1, InsertedIs
  <2>2. \A i \in 1 .. Len(a) + Len(t) :
            d[i] = IF i <= s THEN a[i] ELSE IF i <= s + Len(t) THEN t[i - s] ELSE a[i - Len(t)]
    BY <1>1, InsertedIs
  <2> HIDE DEF d
  <2> QED BY <1>1, <2>1, <2>2
<1> HIDE DEF d
<1>3. \A i \in 1 .. Len(b) : d[i] = b[i]
  BY <1>2 DEF Grown
<1>4. d = b
  BY <1>1, <1>2, <1>3, SameText
<1> QED BY <1>4 DEF d

\* and taking it out gives the text it was put in.
LEMMA GrownDeleted ==
    ASSUME NEW a, NEW b, NEW s, NEW t, Grown(a, b, s, t)
    PROVE  Deleted(b, s, s + Len(t)) = a
<1> DEFINE e == s + Len(t)
           d == Deleted(b, s, e)
<1>1. a \in Seq(Chars) /\ b \in Seq(Chars) /\ Len(a) \in Nat /\ Len(t) \in Nat /\ Len(b) = Len(a) + Len(t)
  BY LenProperties DEF Grown
<1>2. s \in 0 .. Len(a)
  BY DEF Grown
<1>3. s \in 0 .. e /\ e \in 0 .. Len(b) /\ Len(b) - (e - s) = Len(a) /\ e - s = Len(t)
  BY <1>1, <1>2
<1> HIDE DEF e
<1>4. d \in Seq(Chars) /\ Len(d) = Len(b) - (e - s)
      /\ \A i \in 1 .. Len(b) - (e - s) : d[i] = IF i <= s THEN b[i] ELSE b[i + (e - s)]
  BY <1>1, <1>3, DeletedIs
<1> HIDE DEF d
<1>5. ASSUME NEW i \in 1 .. Len(d) PROVE d[i] = a[i]
  <2>1. i \in 1 .. Len(a) /\ i \in 1 .. Len(b) /\ i + Len(t) \in 1 .. Len(b) /\ i + Len(t) - Len(t) = i
    BY <1>1, <1>3, <1>4, <1>5
  <2>2. CASE i <= s
    <3>1. b[i] = a[i]
      BY <2>1, <2>2 DEF Grown
    <3> QED BY <1>3, <1>4, <2>1, <2>2, <3>1
  <2>3. CASE ~(i <= s)
    <3> DEFINE k == i + Len(t)
    <3>1. ~(k <= s) /\ ~(k <= s + Len(t)) /\ k \in 1 .. Len(b) /\ k - Len(t) = i
      BY <1>1, <1>2, <2>1, <2>3
    <3> HIDE DEF k
    <3>2. b[k] = a[i]
      BY <3>1 DEF Grown
    <3> QED BY <1>3, <1>4, <2>1, <2>3, <3>2 DEF k
  <2> QED BY <2>2, <2>3
<1>6. d = a
  BY <1>1, <1>3, <1>4, <1>5, SameText
<1> QED BY <1>6 DEF d, e

\* Two insertions, the second directly behind the first, are one of both texts.
LEMMA GrownBehind ==
    ASSUME NEW a, NEW b, NEW c, NEW s, NEW t, NEW u, Grown(a, b, s, t), Grown(b, c, s + Len(t), u)
    PROVE  Grown(a, c, s, t \o u)
<1> DEFINE v == t \o u
           m == Len(t)
           n == Len(u)
           l == Len(a)
<1>1. a \in Seq(Chars) /\ b \in Seq(Chars) /\ c \in Seq(Chars) /\ t \in Seq(Chars) /\ u \in Seq(Chars)
  BY DEF Grown
<1>2. m \in Nat /\ n \in Nat /\ l \in Nat /\ s \in 0 .. l /\ Len(b) = l + m /\ Len(c) = l + m + n
  BY <1>1, LenProperties DEF Grown
<1>3. v = t \o u
  OBVIOUS
<1>4. \A i \in 1 .. l + m : b[i] = IF i <= s THEN a[i] ELSE IF i <= s + m THEN t[i - s] ELSE a[i - m]
  BY <1>2 DEF Grown
<1>5. \A i \in 1 .. l + m + n :
         c[i] = IF i <= s + m THEN b[i] ELSE IF i <= s + m + n THEN u[i - (s + m)] ELSE b[i - n]
  BY <1>2 DEF Grown
<1> HIDE DEF v
<1>6. v \in Seq(Chars) /\ Len(v) = m + n
      /\ \A i \in 1 .. m + n : v[i] = IF i <= m THEN t[i] ELSE u[i - m]
  BY <1>1, <1>3, Joined
<1> HIDE DEF m, n, l
<1>7. ASSUME NEW i \in 1 .. l + m + n
      PROVE  c[i] = IF i <= s THEN a[i] ELSE IF i <= s + (m + n) THEN v[i - s] ELSE a[i - (m + n)]
  <2>1. CASE i <= s
    BY <1>2, <1>4, <1>5, <1>7, <2>1
  <2>2. CASE ~(i <= s) /\ i <= s + m
    <3> DEFINE k == i - s
    <3>1. k \in 1 .. m + n /\ k <= m /\ i \in 1 .. l + m /\ i <= s + (m + n)
      BY <1>2, <1>7, <2>2
    <3>2. c[i] = t[k]
      BY <1>2, <1>4, <1>5, <1>7, <2>2, <3>1
    <3> HIDE DEF k
    <3>3. v[k] = t[k]
      BY <1>6, <3>1
    <3> QED BY <2>2, <3>1, <3>2, <3>3 DEF k
  <2>3. CASE ~(i <= s + m) /\ i <= s + m + n
    <3> DEFINE k == i - s
    <3>1. k \in 1 .. m + n /\ ~(k <= m) /\ i <= s + (m + n) /\ ~(i <= s) /\ i - (s + m) = k - m
      BY <1>2, <1>7, <2>3
    <3>2. c[i] = u[k - m]
      BY <1>5, <1>7, <2>3, <3>1
    <3> HIDE DEF k
    <3>3. v[k] = u[k - m]
      BY <1>6, <3>1
    <3> QED BY <3>1, <3>2, <3>3 DEF k
  <2>4. CASE ~(i <= s + m + n)
    <3> DEFINE k == i - n
    <3>1. k \in 1 .. l + m /\ ~(k <= s) /\ ~(k <= s + m) /\ k - m = i - (m + n)
          /\ ~(i <= s) /\ ~(i <= s + (m + n)) /\ ~(i <= s + m)
      BY <1>2, <1>7, <2>4
    <3>2. c[i] = b[k]
      BY <1>5, <1>7, <2>4, <3>1
    <3> HIDE DEF k
    <3>3. b[k] = a[k - m]
      BY <1>4, <3>1
    <3> QED BY <3>1, <3>2, <3>3
  <2> QED BY <1>7, <1>2, <2>1, <2>2, <2>3, <2>4
<1>8. Len(c) = l + Len(v) /\ s \in 0 .. l
  BY <1>2, <1>6
<1> QED
  <2>1. \A i \in 1 .. Len(c) :
           c[i] = IF i <= s THEN a[i] ELSE IF i <= s + Len(v) THEN v[i - s] ELSE a[i - Len(v)]
    BY <1>2, <1>6, <1>7
  <2> QED BY <1>1, <1>6, <1>8, <2>1 DEF Grown, l, v

\* Two insertions at the same place are one, the second text in front of the first.
LEMMA GrownBefore ==
    ASSUME NEW a, NEW b, NEW c, NEW s, NEW t, NEW u, Grown(a, b, s, t), Grown(b, c, s, u)
    PROVE  Grown(a, c, s, u \o t)
<1> DEFINE v == u \o t
           m == Len(t)
           n == Len(u)
           l == Len(a)
<1>1. a \in Seq(Chars) /\ b \in Seq(Chars) /\ c \in Seq(Chars) /\ t \in Seq(Chars) /\ u \in Seq(Chars)
  BY DEF Grown
<1>2. m \in Nat /\ n \in Nat /\ l \in Nat /\ s \in 0 .. l /\ Len(b) = l + m /\ Len(c) = l + m + n
  BY <1>1, LenProperties DEF Grown
<1>3. v = u \o t
  OBVIOUS
<1>4. \A i \in 1 .. l + m : b[i] = IF i <= s THEN a[i] ELSE IF i <= s + m THEN t[i - s] ELSE a[i - m]
  BY <1>2 DEF Grown
<1>5. \A i \in 1 .. l + m + n :
         c[i] = IF i <= s THEN b[i] ELSE IF i <= s + n THEN u[i - s] ELSE b[i - n]
  BY <1>2 DEF Grown
<1> HIDE DEF v
<1>6. v \in Seq(Chars) /\ Len(v) = m + n
      /\ \A i \in 1 .. m + n : v[i] = IF i <= n THEN u[i] ELSE t[i - n]
  <2>1. Len(v) = n + m /\ n + m = m + n
    BY <1>1, <1>2, <1>3, Joined
  <2> QED BY <1>1, <1>3, <2>1, Joined
<1> HIDE DEF m, n, l
<1>7. ASSUME NEW i \in 1 .. l + m + n
      PROVE  c[i] = IF i <= s THEN a[i] ELSE IF i <= s + (m + n) THEN v[i - s] ELSE a[i - (m + n)]
  <2>1. CASE i <= s
    BY <1>2, <1>4, <1>5, <1>7, <2>1
  <2>2. CASE ~(i <= s) /\ i <= s + n
    <3> DEFINE k == i - s
    <3>1. k \in 1 .. m + n /\ k <= n /\ i <= s + (m + n)
      BY <1>2, <1>7, <2>2
    <3>2. c[i] = u[k]
      BY <1>2, <1>5, <1>7, <2>2
    <3> HIDE DEF k
    <3>3. v[k] = u[k]
      BY <1>6, <3>1
    <3> QED BY <2>2, <3>1, <3>2, <3>3 DEF k
  <2>3. CASE ~(i <= s + n) /\ i <= s + m + n
    <3> DEFINE k == i - s
               j == i - n
    <3>1. k \in 1 .. m + n /\ ~(k <= n) /\ i <= s + (m + n) /\ ~(i <= s) /\ j - s = k - n
          /\ j \in 1 .. l + m /\ ~(j <= s) /\ j <= s + m
      BY <1>2, <1>7, <2>3
    <3>2. c[i] = b[j]
      BY <1>5, <1>7, <2>3, <3>1
    <3> HIDE DEF k, j
    <3>3. v[k] = t[k - n]
      BY <1>6, <3>1
    <3>4. b[j] = t[k - n]
      BY <1>4, <3>1
    <3> QED BY <3>1, <3>2, <3>3, <3>4 DEF k
  <2>4. CASE ~(i <= s + m + n)
    <3> DEFINE k == i - n
    <3>1. k \in 1 .. l + m /\ ~(k <= s) /\ ~(k <= s + m) /\ k - m = i - (m + n)
          /\ ~(i <= s) /\ ~(i <= s + (m + n)) /\ ~(i <= s + n)
      BY <1>2, <1>7, <2>4
    <3>2. c[i] = b[k]
      BY <1>5, <1>7, <2>4, <3>1
    <3> HIDE DEF k
    <3>3. b[k] = a[k - m]
      BY <1>4, <3>1
    <3> QED BY <3>1, <3>2, <3>3
  <2> QED BY <1>7, <1>2, <2>1, <2>2, <2>3, <2>4
<1>8. Len(c) = l + Len(v) /\ s \in 0 .. l
  BY <1>2, <1>6
<1> QED
  <2>1. \A i \in 1 .. Len(c) :
           c[i] = IF i <= s THEN a[i] ELSE IF i <= s + Len(v) THEN v[i - s] ELSE a[i - Len(v)]
    BY <1>2, <1>6, <1>7
  <2> QED BY <1>1, <1>6, <1>8, <2>1 DEF Grown, l, v

\* An entry takes one of its texts to the other, and back.
LEMMA LinksBothWays ==
    ASSUME NEW entry, NEW a, NEW b, Links(entry, a, b)
    PROVE  /\ a \in Seq(Chars) /\ b \in Seq(Chars)
           /\ Repeated(a, entry) = b
           /\ Reverted(b, entry) = a
<1>1. entry.op \in {"UndoInsert", "UndoDelete"}
  BY DEF Links, Entry
<1>2. CASE entry.op = "UndoInsert"
  <2>1. Grown(a, b, entry.start, entry.text)
    BY <1>2 DEF Links
  <2>2. a \in Seq(Chars) /\ b \in Seq(Chars)
    BY <2>1 DEF Grown
  <2>3. Inserted(a, entry.start, entry.text) = b
    BY <2>1, GrownInserted
  <2>4. Deleted(b, entry.start, entry.start + Len(entry.text)) = a
    BY <2>1, GrownDeleted
  <2>5. entry.end = entry.start + Len(entry.text)
    BY DEF Links
  <2> QED BY <1>2, <2>2, <2>3, <2>4, <2>5 DEF Repeated, Reverted
<1>3. CASE entry.op = "UndoDelete"
  <2>1. Grown(b, a, entry.start, entry.text)
    BY <1>3 DEF Links
  <2>2. a \in Seq(Chars) /\ b \in Seq(Chars)
    BY <2>1 DEF Grown
  <2>3. Inserted(b, entry.start, entry.text) = a
    BY <2>1, GrownInserted
  <2>4. Deleted(a, entry.start, entry.start + Len(entry.text)) = b
    BY <2>1, GrownDeleted
  <2>5. entry.end = entry.start + Len(entry.text)
    BY DEF Links
  <2> QED BY <1>3, <2>2, <2>3, <2>4, <2>5 DEF Repeated, Reverted
<1> QED BY <1>1, <1>2, <1>3

\* An entry that takes the next change in still lies between its two texts.
LEMMA MergedLinks ==
    ASSUME NEW entry, NEW new, NEW a, NEW b, NEW c, Links(entry, a, b), Links(new, b, c),
           Merges(entry, new.op, new.start, new.end)
    PROVE  Links(Merged(entry, new.op, new.start, new.end, new.text), a, c)
<1> DEFINE m == Merged(entry, new.op, new.start, new.end, new.text)
<1>1. entry \in Entry /\ new \in Entry /\ entry.op = new.op
      /\ entry.end = entry.start + Len(entry.text) /\ new.end = new.start + Len(new.text)
  BY DEF Links, Merges
<1>2. /\ entry.start \in Nat /\ new.start \in Nat /\ entry.end \in Nat /\ new.end \in Nat
      /\ entry.text \in Seq(Chars) /\ new.text \in Seq(Chars)
      /\ Len(entry.text) \in Nat /\ Len(new.text) \in Nat
      /\ new.op \in {"UndoInsert", "UndoDelete"}
  BY <1>1, LenProperties DEF Entry
<1>6. /\ entry.start \in Nat /\ new.start \in Nat
      /\ Len(entry.text) \in Nat /\ Len(new.text) \in Nat
  BY <1>2
<1>7. \A x, y, z \in Nat : (x + y) + z = x + (y + z)
  OBVIOUS
<1>3. CASE new.op = "UndoInsert"
  <2> DEFINE v == entry.text \o new.text
  <2>1. m = [entry EXCEPT !.text = v, !.end = new.end]
    BY <1>3 DEF Merged
  <2>2. v \in Seq(Chars) /\ Len(v) = Len(entry.text) + Len(new.text)
    BY <1>2, Joined
  <2>3. Grown(a, b, entry.start, entry.text)
    BY <1>1, <1>3 DEF Links
  <2>4. Grown(b, c, entry.start + Len(entry.text), new.text)
    BY <1>1, <1>3 DEF Links, Merges
  <2>5. Grown(a, c, entry.start, v)
    BY <2>3, <2>4, GrownBehind
  <2> HIDE DEF v
  <2>6. /\ m \in Entry /\ m.op = "UndoInsert" /\ m.start = entry.start /\ m.text = v
        /\ m.end = new.end
    BY <1>1, <1>2, <1>3, <2>1, <2>2 DEF Entry
  <2>7. m.end = m.start + Len(m.text)
    <3>1. Len(m.text) = Len(entry.text) + Len(new.text)
      BY <2>2, <2>6
    <3>2. entry.end = new.start
      BY <1>1, <1>3 DEF Merges
    <3> HIDE DEF m
    <3>3. new.end = (entry.start + Len(entry.text)) + Len(new.text)
      BY <1>1, <3>2
    <3>4. (entry.start + Len(entry.text)) + Len(new.text) = entry.start + (Len(entry.text) + Len(new.text))
      BY <1>6, <1>7
    <3> QED BY <2>6, <3>1, <3>3, <3>4
  <2> HIDE DEF m
  <2>8. Links(m, a, c)
    BY <2>5, <2>6, <2>7 DEF Links
  <2> QED BY <2>8 DEF m
<1>4. CASE new.op = "UndoDelete" /\ entry.start = new.end
  <2> DEFINE v == new.text \o entry.text
  <2>1. m = [entry EXCEPT !.text = v, !.start = new.start]
    BY <1>4 DEF Merged
  <2>2. v \in Seq(Chars) /\ Len(v) = Len(new.text) + Len(entry.text)
    BY <1>2, Joined
  <2>3. Grown(b, a, new.start + Len(new.text), entry.text)
    BY <1>1, <1>4 DEF Links
  <2>4. Grown(c, b, new.start, new.text)
    BY <1>4 DEF Links
  <2>5. Grown(c, a, new.start, v)
    BY <2>3, <2>4, GrownBehind
  <2> HIDE DEF v
  <2>6. /\ m \in Entry /\ m.op = "UndoDelete" /\ m.start = new.start /\ m.text = v
        /\ m.end = entry.end
    BY <1>1, <1>2, <1>4, <2>1, <2>2 DEF Entry
  <2>7. m.end = m.start + Len(m.text)
    <3>1. Len(m.text) = Len(new.text) + Len(entry.text)
      BY <2>2, <2>6
    <3> HIDE DEF m
    <3>2. entry.end = (new.start + Len(new.text)) + Len(entry.text)
      BY <1>1, <1>4
    <3>3. (new.start + Len(new.text)) + Len(entry.text) = new.start + (Len(new.text) + Len(entry.text))
      BY <1>6, <1>7
    <3> QED BY <2>6, <3>1, <3>2, <3>3
  <2> HIDE DEF m
  <2>8. Links(m, a, c)
    BY <2>5, <2>6, <2>7 DEF Links
  <2> QED BY <2>8 DEF m
<1>5. CASE new.op = "UndoDelete" /\ entry.start # new.end
  <2> DEFINE v == entry.text \o new.text
  <2>1. m = [entry EXCEPT !.text = v, !.end = @ + (new.end - new.start)]
    BY <1>5 DEF Merged
  <2>2. v \in Seq(Chars) /\ Len(v) = Len(entry.text) + Len(new.text)
    BY <1>2, Joined
  <2>3. entry.start = new.start
    BY <1>1, <1>5 DEF Merges
  <2>4. Grown(b, a, entry.start, entry.text)
    BY <1>1, <1>5 DEF Links
  <2>5. Grown(c, b, entry.start, new.text)
    BY <1>5, <2>3 DEF Links
  <2>6. Grown(c, a, entry.start, v)
    BY <2>4, <2>5, GrownBefore
  <2> HIDE DEF v
  <2>7. entry.end + (new.end - new.start) \in Nat
    BY <1>1, <1>2
  <2>8. /\ m \in Entry /\ m.op = "UndoDelete" /\ m.start = entry.start /\ m.text = v
        /\ m.end = entry.end + (new.end - new.start)
    BY <1>1, <1>2, <1>5, <2>1, <2>2, <2>7 DEF Entry
  <2>9. m.end = m.start + Len(m.text)
    <3>1. Len(m.text) = Len(entry.text) + Len(new.text)
      BY <2>2, <2>8
    <3> HIDE DEF m
    <3>2. (new.start + Len(new.text)) - new.start = Len(new.text)
      <4>1. \A x, y \in Nat : (x + y) - x = y
        OBVIOUS
      <4> QED BY <1>6, <4>1
    <3>3. m.end = (entry.start + Len(entry.text)) + Len(new.text)
      BY <1>1, <2>8, <3>2
    <3>4. (entry.start + Len(entry.text)) + Len(new.text)
            = entry.start + (Len(entry.text) + Len(new.text))
      BY <1>6, <1>7
    <3> QED BY <2>8, <3>1, <3>3, <3>4
  <2> HIDE DEF m
  <2>10. Links(m, a, c)
    BY <2>6, <2>8, <2>9 DEF Links
  <2> QED BY <2>10 DEF m
<1> QED BY <1>2, <1>3, <1>4, <1>5

-----------------------------------------------------------------------------
(* A group: what Along gives when its entries lie between texts in a row.  *)

\* Induction over the natural numbers, for a set.  The library states it for an
\* operator, which cannot be given here; a set closed under +1 that lacked n would be mapped
\* one-to-one into itself without 0.
LEMMA Induction ==
    ASSUME NEW A, 0 \in A, \A n \in Nat : n \in A => n + 1 \in A
    PROVE  \A n \in Nat : n \in A
<1>. SUFFICES ASSUME NEW n \in Nat, n \notin A
              PROVE  FALSE
  OBVIOUS
<1>. DEFINE S == {k \in 0 .. n : k \in A}
            next == [k \in S |-> k + 1]
<1>1. IsFiniteSet(0 .. n) /\ S \in SUBSET (0 .. n)
  BY FS_Interval
<1>2. IsFiniteSet(S)
  BY <1>1, FS_Subset
<1>3. IsFiniteSet(S \ {0}) /\ Cardinality(S \ {0}) = Cardinality(S) - 1 /\ Cardinality(S) \in Nat
  <2>1. 0 \in S
    OBVIOUS
  <2>. HIDE DEF S
  <2>. QED BY <1>2, <2>1, FS_RemoveElement, FS_CardinalityType
<1>4. \A k \in S : k + 1 \in S \ {0}
  <2>. TAKE k \in S
  <2>1. k # n /\ k \in Nat /\ k + 1 \in A
    OBVIOUS
  <2>. QED BY <2>1
<1>5. next \in [S -> S \ {0}]
  BY <1>4
<1>6. \E x, y \in S : x # y /\ next[x] = next[y]
  <2>. DEFINE T == S \ {0}
  <2>1. IsFiniteSet(T) /\ Cardinality(T) < Cardinality(S) /\ next \in [S -> T]
    BY <1>3, <1>5
  <2>. HIDE DEF S, T, next
  <2>. QED BY <1>2, <2>1, FS_PigeonHole
<1>. QED BY <1>6

\* Reverting a list of entries visits the texts T.
LEMMA AlongReverted ==
    ASSUME NEW entries \in Seq(Entry), NEW T, DOMAIN T = 0 .. Len(entries),
           \A i \in 1 .. Len(entries) : T[i] = Reverted(T[i - 1], entries[i]), NEW b, b = T[0],
           NEW S, T \in [0 .. Len(entries) -> S]
    PROVE  Along(Reverted, b, entries) = T[Len(entries)]
<1> DEFINE n == Len(entries)
           Is(f) == f = [i \in 0 .. n |-> IF i = 0 THEN b ELSE Reverted(f[i - 1], entries[i])]
           text == CHOOSE f : Is(f)
<1>1. n \in Nat
  BY LenProperties
<1>2. Along(Reverted, b, entries) = text[n]
  BY DEF Along
<1>3. Is(T)
  BY <1>1
<1>4. Is(text)
  <2> HIDE DEF Is
  <2> QED BY <1>3
<1>5. \A i \in 0 .. n : text[i] = IF i = 0 THEN b ELSE Reverted(text[i - 1], entries[i])
  BY <1>4
<1> DEFINE A == {k \in Nat : k <= n => text[k] = T[k]}
<1> HIDE DEF text, n
<1>6. 0 \in A
  BY <1>1, <1>5
<1>7. ASSUME NEW k \in Nat, k \in A PROVE k + 1 \in A
  <2>1. CASE k + 1 <= n
    <3>1. text[k + 1] = Reverted(text[k], entries[k + 1])
      BY <1>1, <1>5, <2>1
    <3>2. T[k + 1] = Reverted(T[k], entries[k + 1])
      BY <1>1, <2>1 DEF n
    <3> QED BY <1>1, <1>7, <2>1, <3>1, <3>2
  <2> QED BY <1>1, <1>7, <2>1
<1>8. n \in A
  <2> HIDE DEF A
  <2> QED BY <1>1, <1>6, <1>7, Induction
<1> QED BY <1>1, <1>2, <1>8 DEF n

\* Repeating a list of entries visits the texts T.
LEMMA AlongRepeated ==
    ASSUME NEW entries \in Seq(Entry), NEW T, DOMAIN T = 0 .. Len(entries),
           \A i \in 1 .. Len(entries) : T[i] = Repeated(T[i - 1], entries[i]), NEW b, b = T[0],
           NEW S, T \in [0 .. Len(entries) -> S]
    PROVE  Along(Repeated, b, entries) = T[Len(entries)]
<1> DEFINE n == Len(entries)
           Is(f) == f = [i \in 0 .. n |-> IF i = 0 THEN b ELSE Repeated(f[i - 1], entries[i])]
           text == CHOOSE f : Is(f)
<1>1. n \in Nat
  BY LenProperties
<1>2. Along(Repeated, b, entries) = text[n]
  BY DEF Along
<1>3. Is(T)
  BY <1>1
<1>4. Is(text)
  <2> HIDE DEF Is
  <2> QED BY <1>3
<1>5. \A i \in 0 .. n : text[i] = IF i = 0 THEN b ELSE Repeated(text[i - 1], entries[i])
  BY <1>4
<1> DEFINE A == {k \in Nat : k <= n => text[k] = T[k]}
<1> HIDE DEF text, n
<1>6. 0 \in A
  BY <1>1, <1>5
<1>7. ASSUME NEW k \in Nat, k \in A PROVE k + 1 \in A
  <2>1. CASE k + 1 <= n
    <3>1. text[k + 1] = Repeated(text[k], entries[k + 1])
      BY <1>1, <1>5, <2>1
    <3>2. T[k + 1] = Repeated(T[k], entries[k + 1])
      BY <1>1, <2>1 DEF n
    <3> QED BY <1>1, <1>7, <2>1, <3>1, <3>2
  <2> QED BY <1>1, <1>7, <2>1
<1>8. n \in A
  <2> HIDE DEF A
  <2> QED BY <1>1, <1>6, <1>7, Induction
<1> QED BY <1>1, <1>2, <1>8 DEF n

\* A list of entries, the newest first, made b of a.
Spans(entries, a, b) ==
    \E T \in [0 .. Len(entries) -> Seq(Chars)] :
        /\ T[0] = b /\ T[Len(entries)] = a
        /\ \A i \in 1 .. Len(entries) : Links(entries[i], T[i], T[i - 1])

\* Undo of a group gives the text it began with,
LEMMA SpansUndone ==
    ASSUME NEW group, group.entries \in Seq(Entry), NEW a, NEW b, Spans(group.entries, a, b)
    PROVE  Undone(b, group) = a
<1> DEFINE entries == group.entries
<1>1. PICK T \in [0 .. Len(entries) -> Seq(Chars)] :
        /\ T[0] = b /\ T[Len(entries)] = a
        /\ \A i \in 1 .. Len(entries) : Links(entries[i], T[i], T[i - 1])
  BY DEF Spans
<1>2. ASSUME NEW i \in 1 .. Len(entries) PROVE T[i] = Reverted(T[i - 1], entries[i])
  <2>1. Links(entries[i], T[i], T[i - 1])
    BY <1>1
  <2> QED BY <2>1, LinksBothWays
<1>3. DOMAIN T = 0 .. Len(entries) /\ entries \in Seq(Entry)
  OBVIOUS
<1> HIDE DEF entries
<1>4. Along(Reverted, b, entries) = T[Len(entries)]
  BY <1>1, <1>2, <1>3, AlongReverted
<1> QED BY <1>1, <1>4 DEF Undone, entries

\* and redo the text it ended with.
LEMMA SpansRedone ==
    ASSUME NEW group, group.entries \in Seq(Entry), NEW a, NEW b, Spans(group.entries, a, b)
    PROVE  Redone(a, group) = b
<1> DEFINE entries == group.entries
           n == Len(entries)
           turned == Reverse(entries)
<1>1. PICK T \in [0 .. n -> Seq(Chars)] :
        /\ T[0] = b /\ T[n] = a
        /\ \A i \in 1 .. n : Links(entries[i], T[i], T[i - 1])
  BY DEF Spans
<1>2. n \in Nat /\ entries \in Seq(Entry)
  BY LenProperties
<1>3. turned = [i \in 1 .. n |-> entries[(n - i) + 1]]
  BY DEF Reverse
<1>4. turned \in Seq(Entry) /\ Len(turned) = n
  <2>1. turned \in [1 .. n -> Entry]
    <3>1. \A i \in 1 .. n : entries[i] \in Entry
      BY <1>2, ElementOfSeq
    <3> HIDE DEF n, turned, entries
    <3>2. \A i \in 1 .. n : (n - i) + 1 \in 1 .. n
      BY <1>2
    <3> QED BY <1>2, <1>3, <3>1, <3>2
  <2> HIDE DEF n, turned
  <2> QED BY <1>2, <2>1, IsASeq, LenProperties
<1> DEFINE R == [i \in 0 .. n |-> T[n - i]]
<1>5. DOMAIN R = 0 .. Len(turned) /\ R \in [0 .. Len(turned) -> Seq(Chars)]
  <2> HIDE DEF n, turned
  <2> QED BY <1>1, <1>2, <1>4
<1>6. ASSUME NEW i \in 1 .. Len(turned) PROVE R[i] = Repeated(R[i - 1], turned[i])
  <2> DEFINE m == (n - i) + 1
  <2> HIDE DEF n, turned
  <2>1. i \in 1 .. n /\ m \in 1 .. n /\ m - 1 = n - i /\ m = n - (i - 1)
    BY <1>2, <1>4, <1>6
  <2>2. R[i] = T[m - 1] /\ R[i - 1] = T[m] /\ turned[i] = entries[m]
    BY <1>2, <1>3, <2>1
  <2>3. Links(entries[m], T[m], T[m - 1])
    BY <1>1, <2>1
  <2> HIDE DEF m
  <2>4. Repeated(T[m], entries[m]) = T[m - 1]
    BY <2>3, LinksBothWays
  <2> QED BY <2>2, <2>4
<1>7. R[0] = a /\ R[n] = b
  <2> HIDE DEF n
  <2> QED BY <1>1, <1>2
<1> HIDE DEF n, turned, R
<1>8. Along(Repeated, a, turned) = R[Len(turned)]
  BY <1>4, <1>5, <1>6, <1>7, AlongRepeated
<1> QED BY <1>4, <1>7, <1>8 DEF Redone, turned, n

\* A group with no entries made no change.
LEMMA SpansNone == ASSUME NEW a \in Seq(Chars) PROVE Spans(<<>>, a, a)
<1> DEFINE T == [i \in 0 .. 0 |-> a]
<1> DEFINE none == <<>>
<1>1. T \in [0 .. 0 -> Seq(Chars)] /\ T[0] = a
  OBVIOUS
<1>2. Len(none) = 0 /\ 1 .. 0 = {}
  OBVIOUS
<1> HIDE DEF T, none
<1>3. Spans(none, a, a)
  BY <1>1, <1>2 DEF Spans
<1> QED BY <1>3 DEF none

\* Both ends are texts.
LEMMA SpansTexts ==
    ASSUME NEW entries \in Seq(Entry), NEW a, NEW b, Spans(entries, a, b)
    PROVE  a \in Seq(Chars) /\ b \in Seq(Chars)
BY LenProperties DEF Spans

\* One more entry.
LEMMA SpansMore ==
    ASSUME NEW entries \in Seq(Entry), NEW a, NEW b, NEW c, Spans(entries, a, b),
           NEW new, Links(new, b, c)
    PROVE  Spans(<<new>> \o entries, a, c)
<1> DEFINE n == Len(entries)
           more == <<new>> \o entries
<1>1. PICK T \in [0 .. n -> Seq(Chars)] :
        /\ T[0] = b /\ T[n] = a
        /\ \A i \in 1 .. n : Links(entries[i], T[i], T[i - 1])
  BY DEF Spans
<1>2. n \in Nat /\ new \in Entry /\ c \in Seq(Chars)
  BY LinksBothWays, LenProperties DEF Links
<1>3. Len(more) = n + 1 /\ more[1] = new /\ \A i \in 1 .. n : more[i + 1] = entries[i]
  BY <1>2, ConcatProperties
<1> DEFINE R == [i \in 0 .. n + 1 |-> IF i = 0 THEN c ELSE T[i - 1]]
<1> HIDE DEF n, more
<1>4. R \in [0 .. Len(more) -> Seq(Chars)] /\ R[0] = c /\ R[Len(more)] = a
  BY <1>1, <1>2, <1>3
<1>5. ASSUME NEW i \in 1 .. Len(more) PROVE Links(more[i], R[i], R[i - 1])
  <2>1. CASE i = 1
    BY <1>1, <1>2, <1>3, <2>1
  <2>2. CASE i # 1
    <3> DEFINE k == i - 1
    <3>1. k \in 1 .. n /\ i = k + 1 /\ R[i] = T[k] /\ R[i - 1] = T[k - 1]
      BY <1>2, <1>3, <1>5, <2>2
    <3> HIDE DEF k, R
    <3>2. more[i] = entries[k] /\ Links(entries[k], T[k], T[k - 1])
      BY <1>1, <1>3, <3>1
    <3> QED BY <3>1, <3>2
  <2> QED BY <2>1, <2>2
<1> QED BY <1>4, <1>5 DEF Spans, more

\* The newest entry replaced by one that ends with another text.
LEMMA SpansOther ==
    ASSUME NEW entries \in Seq(Entry), entries # <<>>, NEW a, NEW b, NEW c, Spans(entries, a, b),
           NEW new, \A x : Links(Head(entries), x, b) => Links(new, x, c)
    PROVE  Spans([entries EXCEPT ![1] = new], a, c) /\ new \in Entry /\ c \in Seq(Chars)
<1> DEFINE n == Len(entries)
           other == [entries EXCEPT ![1] = new]
<1>1. PICK T \in [0 .. n -> Seq(Chars)] :
        /\ T[0] = b /\ T[n] = a
        /\ \A i \in 1 .. n : Links(entries[i], T[i], T[i - 1])
  BY DEF Spans
<1>2. n \in Nat /\ n # 0 /\ Head(entries) = entries[1] /\ DOMAIN entries = 1 .. n
  BY LenProperties, EmptySeq
<1>3. Links(new, T[1], c)
  <2>1. Links(entries[1], T[1], T[0])
    <3> HIDE DEF n
    <3>1. 1 \in 1 .. n /\ 1 - 1 = 0
      BY <1>2
    <3> QED BY <1>1, <3>1
  <2> QED BY <1>1, <1>2, <2>1
<1>4. new \in Entry /\ c \in Seq(Chars)
  BY <1>3, LinksBothWays DEF Links
<1>5. other \in Seq(Entry) /\ Len(other) = n /\ other[1] = new /\ \A i \in 2 .. n : other[i] = entries[i]
  BY <1>2, <1>4, ExceptSeq
<1> DEFINE R == [T EXCEPT ![0] = c]
<1> HIDE DEF n, other
<1>6. R \in [0 .. n -> Seq(Chars)] /\ R[0] = c /\ R[n] = a /\ \A i \in 1 .. n : R[i] = T[i]
  BY <1>1, <1>2, <1>4
<1> HIDE DEF R
<1>7. ASSUME NEW i \in 1 .. n PROVE Links(other[i], R[i], R[i - 1])
  <2>1. CASE i = 1
    <3>1. R[1] = T[1]
      BY <1>6, <1>7, <2>1
    <3> QED BY <1>3, <1>5, <1>6, <2>1, <3>1
  <2>2. CASE i # 1
    <3>1. i \in 2 .. n /\ i - 1 \in 1 .. n
      BY <1>2, <1>7, <2>2
    <3>2. R[i] = T[i] /\ R[i - 1] = T[i - 1] /\ other[i] = entries[i]
      BY <1>5, <1>6, <1>7, <3>1
    <3> QED BY <1>1, <1>7, <3>2
  <2> QED BY <2>1, <2>2
<1>8. Spans(other, a, c)
  BY <1>5, <1>6, <1>7 DEF Spans
<1> QED BY <1>4, <1>8 DEF other

-----------------------------------------------------------------------------
(* A document: the line of texts it stands on.                             *)

\* The groups that undo would take, the next one first.
Behind(D) ==
    (IF D.unre.current.entries = <<>> THEN <<>> ELSE <<D.unre.current>>) \o D.unre.first

Shape(D) ==
    /\ D \in [buffer : Seq(Chars), modified : BOOLEAN, unre : Unre]
    /\ D.unre.redofirst # <<>> => D.unre.current.entries = <<>>

\* Q are texts that undo of the groups gives, from the first one on.
Back(groups, Q) ==
    /\ Q \in Seq(Seq(Chars)) /\ Len(Q) = Len(groups) + 1
    /\ \A i \in 1 .. Len(groups) : Spans(groups[i].entries, Q[i + 1], Q[i])

\* F are texts that redo of the groups gives.
Ahead(groups, F) ==
    /\ F \in Seq(Seq(Chars)) /\ Len(F) = Len(groups) + 1
    /\ \A i \in 1 .. Len(groups) : Spans(groups[i].entries, F[i], F[i + 1])

\* Q are the text of the document and those behind it, F the text and those ahead.
Trail(D, Q, F) ==
    /\ Back(Behind(D), Q) /\ Q[1] = D.buffer
    /\ Ahead(D.unre.redofirst, F) /\ F[1] = D.buffer

\* A group that undo restores the flag FALSE of began with the text d.
BackTo(groups, Q, d) == \A i \in 1 .. Len(groups) : ~groups[i].changed => Q[i + 1] = d
AheadOf(groups, F, d) == \A i \in 1 .. Len(groups) : ~groups[i].changed => F[i] = d

\* Where doc->modified is or would be FALSE, the text is d, the text of the file.
Honest(D, Q, F, d) ==
    /\ ~D.modified => D.buffer = d
    /\ BackTo(Behind(D), Q, d)
    /\ AheadOf(D.unre.redofirst, F, d)

\* A group that is begun now would have the flag that it should.
InStep(D) == D.unre.current.entries = <<>> => D.unre.current.changed = D.modified

\* R are the same texts, but some of those far behind are forgotten;
Forgets(Q, R) ==
    /\ Len(R) \in 1 .. Len(Q) /\ (Len(R) = Len(Q) \/ Len(R) > NumUndoLevels)
    /\ \A i \in 1 .. Len(R) : R[i] = Q[i]

\* another text with the old ones, or enough of them, behind it;
Starts(Q, R) ==
    /\ Len(R) - 1 \in 0 .. Len(Q) /\ (Len(R) - 1 = Len(Q) \/ Len(R) - 1 >= NumUndoLevels)
    /\ \A i \in 1 .. Len(R) - 1 : R[i + 1] = Q[i]

\* or another text in the place of the first one.
Continues(Q, R) ==
    /\ Len(R) = Len(Q) /\ Len(Q) \in Nat /\ Len(Q) >= 2
    /\ \A i \in 2 .. Len(Q) : R[i] = Q[i]

\* The parts of a document of the right shape.
LEMMA ShapeParts ==
    ASSUME NEW D, Shape(D)
    PROVE  /\ D.buffer \in Seq(Chars) /\ D.modified \in BOOLEAN /\ D.unre \in Unre
           /\ D.unre.current \in Group /\ D.unre.first \in Seq(Group)
           /\ D.unre.redofirst \in Seq(Group)
           /\ D.unre.current.entries \in Seq(Entry) /\ D.unre.current.changed \in BOOLEAN
BY DEF Shape, Unre, Group

\* What undo would take, group by group.
LEMMA BehindIs ==
    ASSUME NEW D, Shape(D)
    PROVE  /\ Behind(D) \in Seq(Group) /\ Len(D.unre.first) \in Nat /\ Len(Behind(D)) \in Nat
           /\ D.unre.current.entries = <<>> => Behind(D) = D.unre.first
           /\ D.unre.current.entries # <<>> =>
                /\ Behind(D) = <<D.unre.current>> \o D.unre.first
                /\ Len(Behind(D)) = Len(D.unre.first) + 1
                /\ Behind(D)[1] = D.unre.current
                /\ \A i \in 1 .. Len(D.unre.first) : Behind(D)[i + 1] = D.unre.first[i]
<1>1. D.unre.current \in Group /\ D.unre.first \in Seq(Group)
  BY ShapeParts
<1>2. Len(D.unre.first) \in Nat
  BY <1>1, LenProperties
<1>3. CASE D.unre.current.entries = <<>>
  <2>1. Behind(D) = D.unre.first
    BY <1>1, <1>3, ConcatEmptySeq DEF Behind
  <2> QED BY <1>1, <1>2, <1>3, <2>1
<1>4. CASE D.unre.current.entries # <<>>
  <2> DEFINE c == <<D.unre.current>>
             f == D.unre.first
             q == c \o f
  <2>1. c \in Seq(Group) /\ Len(c) = 1 /\ c[1] = D.unre.current
    BY <1>1
  <2>2. Behind(D) = q
    BY <1>4 DEF Behind
  <2> HIDE DEF c
  <2>3. q \in Seq(Group) /\ Len(q) = Len(c) + Len(f)
        /\ \A i \in 1 .. Len(c) + Len(f) : q[i] = IF i <= Len(c) THEN c[i] ELSE f[i - Len(c)]
    BY <1>1, <2>1, ConcatProperties
  <2> HIDE DEF q, f
  <2>4. Len(f) \in Nat
    BY <1>2 DEF f
  <2>5. q[1] = c[1] /\ \A i \in 1 .. Len(f) : q[i + 1] = f[i]
    BY <2>1, <2>3, <2>4
  <2> QED BY <1>4, <2>1, <2>2, <2>3, <2>4, <2>5 DEF f, c, q
<1> QED BY <1>3, <1>4

\* The first n groups and their texts.
LEMMA BackFirst ==
    ASSUME NEW groups \in Seq(Group), NEW Q, Back(groups, Q), NEW n \in 0 .. Len(groups)
    PROVE  /\ SubSeq(groups, 1, n) \in Seq(Group) /\ Len(SubSeq(groups, 1, n)) = n
           /\ Back(SubSeq(groups, 1, n), SubSeq(Q, 1, n + 1))
           /\ SubSeq(Q, 1, n + 1)[1] = Q[1]
           /\ \A d : BackTo(groups, Q, d) => BackTo(SubSeq(groups, 1, n), SubSeq(Q, 1, n + 1), d)
<1> DEFINE g == SubSeq(groups, 1, n)
           q == SubSeq(Q, 1, n + 1)
<1>1. Len(groups) \in Nat /\ Q \in Seq(Seq(Chars)) /\ Len(Q) = Len(groups) + 1
  BY LenProperties DEF Back
<1>2. g \in Seq(Group) /\ Len(g) = n /\ \A i \in 1 .. n : g[i] = groups[i]
  BY <1>1, SubSeqProperties
<1>3. q \in Seq(Seq(Chars)) /\ Len(q) = n + 1 /\ \A i \in 1 .. n + 1 : q[i] = Q[i]
  <2>1. 1 \in 1 .. Len(Q) + 1 /\ n + 1 \in 1 - 1 .. Len(Q)
    BY <1>1
  <2> QED BY <1>1, <2>1, SubSeqProperties
<1> HIDE DEF g, q
<1>4. ASSUME NEW i \in 1 .. n
      PROVE  i \in 1 .. Len(groups) /\ g[i] = groups[i] /\ q[i] = Q[i] /\ q[i + 1] = Q[i + 1]
  BY <1>1, <1>2, <1>3
<1>5. Back(g, q)
  BY <1>2, <1>3, <1>4 DEF Back
<1>6. ASSUME NEW d, BackTo(groups, Q, d) PROVE BackTo(g, q, d)
  BY <1>2, <1>4, <1>6 DEF BackTo
<1>7. q[1] = Q[1]
  BY <1>1, <1>3
<1> QED BY <1>2, <1>5, <1>6, <1>7 DEF g, q

\* doc_unre_new_group: the texts stay, but for one that is too far behind.
LEMMA NewGroupStep ==
    ASSUME NEW D, NEW Q, NEW F, Shape(D), Trail(D, Q, F), NEW E, E = NewGroup(D)
    PROVE  /\ Shape(E) /\ E.unre.current.entries = <<>> /\ E.unre.redofirst = D.unre.redofirst
           /\ E.buffer = D.buffer /\ E.modified = D.modified
           /\ InStep(D) => InStep(E)
           /\ \E R : /\ Forgets(Q, R) /\ Trail(E, R, F)
                     /\ \A d : Honest(D, Q, F, d) => Honest(E, R, F, d)
<1>1. /\ D \in [buffer : Seq(Chars), modified : BOOLEAN, unre : Unre]
      /\ D.unre.current \in Group /\ D.unre.first \in Seq(Group)
      /\ D.unre.redofirst \in Seq(Group) /\ D.modified \in BOOLEAN /\ D.buffer \in Seq(Chars)
  BY ShapeParts DEF Shape
<1>2. Behind(D) \in Seq(Group) /\ Len(Behind(D)) \in Nat
  BY BehindIs
<1>3. Back(Behind(D), Q) /\ Q[1] = D.buffer /\ Ahead(D.unre.redofirst, F) /\ F[1] = D.buffer
  BY DEF Trail
<1>4. Len(Q) = Len(Behind(D)) + 1 /\ Q \in Seq(Seq(Chars))
  BY <1>3 DEF Back
<1>5. CASE D.unre.current.entries = <<>>
  <2>1. E = D
    BY <1>1, <1>5 DEF NewGroup, doc_unre_new_group
  <2>2. Forgets(Q, Q)
    BY <1>2, <1>4 DEF Forgets
  <2> QED BY <1>5, <2>1, <2>2
<1>6. CASE D.unre.current.entries # <<>>
  <2> DEFINE groups == Behind(D)
             l == Len(groups)
             first == IF l > NumUndoLevels THEN SubSeq(groups, 1, l - 1) ELSE groups
             n == IF l > NumUndoLevels THEN l - 1 ELSE l
             R == SubSeq(Q, 1, n + 1)
  <2>1. groups = <<D.unre.current>> \o D.unre.first /\ l \in Nat /\ l > 0
    BY <1>6, BehindIs
  <2>2. E = [D EXCEPT !.unre = [D.unre EXCEPT !.current = unregroup_new(D.modified), !.first = first]]
    BY <1>6, <2>1 DEF NewGroup, doc_unre_new_group, Front
  <2>3. first = SubSeq(groups, 1, n) /\ n \in 0 .. l
    <3>1. CASE l > NumUndoLevels
      BY <2>1, <3>1
    <3>2. CASE ~(l > NumUndoLevels)
      BY <1>2, <2>1, <3>2, SubSeqFull
    <3> QED BY <3>1, <3>2
  <2>4. first \in Seq(Group) /\ Back(first, R) /\ R[1] = Q[1]
        /\ \A d : BackTo(groups, Q, d) => BackTo(first, R, d)
    <3> HIDE DEF n, first, R
    <3>1. n \in 0 .. Len(groups) /\ R = SubSeq(Q, 1, n + 1)
      BY <2>3 DEF R
    <3> HIDE DEF groups
    <3> QED BY <1>2, <1>3, <2>3, <3>1, BackFirst DEF groups
  <2>5. Forgets(Q, R)
    <3>1. n + 1 \in 1 .. Len(Q) /\ (n + 1 = Len(Q) \/ n + 1 > NumUndoLevels)
      BY <1>4, <2>1, <2>3, LevelsAssumption
    <3> HIDE DEF n
    <3>2. Len(R) = n + 1 /\ \A i \in 1 .. n + 1 : R[i] = Q[i]
      <4>1. Len(Q) \in Nat /\ 1 \in 1 .. Len(Q) + 1 /\ n + 1 \in 1 - 1 .. Len(Q)
        BY <1>4, <1>2, <3>1
      <4> QED BY <1>4, <4>1, SubSeqProperties
    <3> QED BY <3>1, <3>2 DEF Forgets
  <2> HIDE DEF first, R, groups, l, n
  <2>6. /\ E.buffer = D.buffer /\ E.modified = D.modified /\ E.unre.first = first
        /\ E.unre.redofirst = D.unre.redofirst
        /\ E.unre.current = [entries |-> <<>>, changed |-> D.modified]
    BY <1>1, <2>2 DEF unregroup_new, Unre
  <2>7. Shape(E)
    <3>1. unregroup_new(D.modified) \in Group
      BY <1>1 DEF unregroup_new, Group
    <3>2. E.unre \in Unre /\ E \in [buffer : Seq(Chars), modified : BOOLEAN, unre : Unre]
      BY <1>1, <2>2, <2>4, <3>1 DEF Unre
    <3> QED BY <2>6, <3>2 DEF Shape
  <2>8. Behind(E) = first
    <3>1. E.unre.current.entries = <<>>
      BY <2>6
    <3> QED BY <2>6, <2>7, <3>1, BehindIs
  <2>9. Trail(E, R, F)
    BY <1>3, <2>4, <2>6, <2>8 DEF Trail
  <2>10. ASSUME NEW d, Honest(D, Q, F, d) PROVE Honest(E, R, F, d)
    BY <2>4, <2>6, <2>8, <2>10 DEF Honest, groups
  <2> QED BY <2>5, <2>6, <2>7, <2>9, <2>10 DEF InStep
<1> QED BY <1>5, <1>6

\* The group that is being built has these entries, and nothing is ahead.
Built(U, entries) ==
    [U EXCEPT !.current = [entries |-> entries, changed |-> U.current.changed], !.redofirst = <<>>]

\* doc_unre_add: the list of entries of the group grows or its newest entry does.
LEMMA AddEntry ==
    ASSUME NEW U \in Unre, U.redofirst # <<>> => U.current.entries = <<>>,
           NEW new, NEW a, NEW b, NEW c, Spans(U.current.entries, a, b), Links(new, b, c)
    PROVE  \E entries \in Seq(Entry) :
              /\ entries # <<>> /\ Spans(entries, a, c)
              /\ doc_unre_add(U, new.op, new.start, new.end, new.text) = Built(U, entries)
<1> DEFINE V == doc_unre_add(U, new.op, new.start, new.end, new.text)
           old == U.current.entries
           o == new.op
           s == new.start
           e == new.end
           t == new.text
<1>1. old \in Seq(Entry) /\ U.current \in [entries : Seq(Entry), changed : BOOLEAN]
  BY DEF Unre, Group
<1>2. new \in Entry /\ new = [op |-> o, start |-> s, end |-> e, text |-> t]
  BY DEF Links, Entry
<1>3. CASE old # <<>> /\ Merges(Head(old), o, s, e)
  <2> DEFINE m == Merged(Head(old), o, s, e, t)
             entries == [old EXCEPT ![1] = m]
  <2>1. Head(old) = old[1] /\ Len(old) \in Nat /\ Len(old) # 0 /\ DOMAIN old = 1 .. Len(old)
    BY <1>1, <1>3, LenProperties, EmptySeq
  <2>2. ASSUME NEW x, Links(Head(old), x, b) PROVE Links(m, x, c)
    BY <1>3, <2>2, MergedLinks
  <2> HIDE DEF m
  <2>3. Spans(entries, a, c) /\ m \in Entry
    <3> HIDE DEF old
    <3>1. Spans(old, a, b)
      BY DEF old
    <3> QED BY <1>1, <1>3, <2>2, <3>1, SpansOther
  <2>4. entries \in Seq(Entry) /\ entries # <<>>
    <3>1. entries \in Seq(Entry) /\ Len(entries) = Len(old)
      BY <1>1, <2>1, <2>3, ExceptSeq
    <3> HIDE DEF entries
    <3> QED BY <2>1, <3>1, EmptySeq
  <2>5. V = [U EXCEPT !.current.entries[1] = m]
    BY <1>3, <2>1 DEF doc_unre_add, m
  <2>6. U.redofirst = <<>>
    BY <1>3
  <2>7. V = Built(U, entries)
    <3>1. [U.current EXCEPT !.entries = entries] = [entries |-> entries, changed |-> U.current.changed]
      <4> HIDE DEF entries, old
      <4> QED BY <1>1
    <3>2. V = [U EXCEPT !.current = [U.current EXCEPT !.entries = entries]]
      BY <2>5, <2>1
    <3> HIDE DEF entries, old
    <3> QED BY <2>6, <3>1, <3>2 DEF Unre, Built
  <2> HIDE DEF entries, old
  <2> QED BY <2>3, <2>4, <2>7
<1>4. CASE ~(old # <<>> /\ Merges(Head(old), o, s, e))
  <2> DEFINE entries == <<new>> \o old
  <2>1. Spans(entries, a, c)
    BY <1>1, SpansMore
  <2>2. entries \in Seq(Entry) /\ entries # <<>>
    <3>1. <<new>> \in Seq(Entry) /\ Len(<<new>>) = 1
      BY <1>2
    <3> DEFINE n == <<new>>
    <3> HIDE DEF n
    <3>2. n \o old \in Seq(Entry) /\ Len(n \o old) = Len(n) + Len(old) /\ Len(old) \in Nat
      BY <1>1, <3>1, ConcatProperties, LenProperties DEF n
    <3>3. Len(n \o old) # 0
      BY <3>1, <3>2 DEF n
    <3>4. n \o old # <<>>
      BY <3>2, <3>3, EmptySeq
    <3> QED BY <3>2, <3>4 DEF n
  <2>3. V = [U EXCEPT !.current.entries = entries, !.redofirst = <<>>]
    BY <1>2, <1>4 DEF doc_unre_add
  <2> HIDE DEF entries, old
  <2>4. V = Built(U, entries)
    BY <1>1, <2>3 DEF Unre, Built
  <2> QED BY <2>1, <2>2, <2>4
<1> QED BY <1>3, <1>4

\* A sequence with one more in front.
LEMMA ConsIs ==
    ASSUME NEW S, NEW x \in S, NEW s \in Seq(S)
    PROVE  /\ Cons(x, s) \in Seq(S) /\ Len(s) \in Nat /\ Len(Cons(x, s)) = Len(s) + 1
           /\ Cons(x, s)[1] = x
           /\ \A i \in 1 .. Len(s) : Cons(x, s)[i + 1] = s[i]
<1> DEFINE g == <<x>>
           c == g \o s
<1>1. g \in Seq(S) /\ Len(g) = 1 /\ g[1] = x /\ Len(s) \in Nat
  BY LenProperties
<1> HIDE DEF g
<1>2. c \in Seq(S) /\ Len(c) = Len(g) + Len(s)
      /\ \A i \in 1 .. Len(g) + Len(s) : c[i] = IF i <= Len(g) THEN g[i] ELSE s[i - Len(g)]
  BY <1>1, ConcatProperties
<1>3. Cons(x, s) = c
  BY DEF Cons, c, g
<1> HIDE DEF c
<1>4. Len(c) = Len(s) + 1 /\ c[1] = x
  BY <1>1, <1>2
<1>5. ASSUME NEW i \in 1 .. Len(s) PROVE c[i + 1] = s[i]
  <2>1. i + 1 \in 1 .. Len(g) + Len(s) /\ ~(i + 1 <= Len(g)) /\ (i + 1) - Len(g) = i
    BY <1>1
  <2> QED BY <1>2, <2>1
<1> QED BY <1>1, <1>2, <1>3, <1>4, <1>5

\* One text more behind the others.
LEMMA BackMore ==
    ASSUME NEW groups \in Seq(Group), NEW Q, Back(groups, Q), NEW group \in Group, NEW c \in Seq(Chars),
           Spans(group.entries, Q[1], c)
    PROVE  /\ Cons(group, groups) \in Seq(Group) /\ Back(Cons(group, groups), Cons(c, Q))
           /\ Cons(c, Q)[1] = c
           /\ \A d : BackTo(groups, Q, d) /\ (~group.changed => Q[1] = d)
                      => BackTo(Cons(group, groups), Cons(c, Q), d)
<1> DEFINE l == Len(groups)
           more == Cons(group, groups)
           R == Cons(c, Q)
<1>1. l \in Nat /\ Q \in Seq(Seq(Chars)) /\ Len(Q) = l + 1
  BY LenProperties DEF Back
<1>2. more \in Seq(Group) /\ Len(more) = l + 1 /\ more[1] = group
      /\ \A i \in 1 .. l : more[i + 1] = groups[i]
  BY ConsIs
<1>3. R \in Seq(Seq(Chars)) /\ Len(R) = l + 2 /\ R[1] = c
      /\ \A i \in 1 .. l + 1 : R[i + 1] = Q[i]
  <2>1. R \in Seq(Seq(Chars)) /\ Len(R) = Len(Q) + 1 /\ R[1] = c
        /\ \A i \in 1 .. Len(Q) : R[i + 1] = Q[i]
    <3> DEFINE T == Seq(Chars)
    <3>1. c \in T /\ Q \in Seq(T)
      BY <1>1
    <3> HIDE DEF T
    <3>2. R \in Seq(T) /\ Len(R) = Len(Q) + 1 /\ R[1] = c
          /\ \A i \in 1 .. Len(Q) : R[i + 1] = Q[i]
      BY <3>1, ConsIs
    <3> QED BY <3>2 DEF T
  <2> HIDE DEF R, l
  <2> QED BY <1>1, <2>1
<1> HIDE DEF l, more, R
<1>4. ASSUME NEW i \in 1 .. l + 1
      PROVE  /\ i = 1 => R[i] = c /\ R[i + 1] = Q[1] /\ more[i] = group
             /\ i # 1 => /\ R[i] = Q[i - 1] /\ R[i + 1] = Q[(i - 1) + 1]
                         /\ more[i] = groups[i - 1] /\ i - 1 \in 1 .. l
  <2>1. CASE i = 1
    BY <1>1, <1>2, <1>3, <2>1
  <2>2. CASE i # 1
    <3> DEFINE k == i - 1
    <3>1. k \in 1 .. l /\ k \in 1 .. l + 1 /\ i = k + 1 /\ i \in 1 .. l + 1 /\ k + 1 \in 1 .. l + 1
      BY <1>1, <1>4, <2>2
    <3> HIDE DEF k
    <3>2. R[i] = Q[k] /\ R[i + 1] = Q[k + 1] /\ more[i] = groups[k]
      BY <1>2, <1>3, <3>1
    <3> QED BY <2>2, <3>1, <3>2 DEF k
  <2> QED BY <2>1, <2>2
<1>5. ASSUME NEW i \in 1 .. l + 1 PROVE Spans(more[i].entries, R[i + 1], R[i])
  BY <1>4, <1>5 DEF Back, l
<1>6. Back(more, R)
  <2>1. Len(R) = Len(more) + 1
    BY <1>1, <1>2, <1>3
  <2> QED BY <1>2, <1>3, <1>5, <2>1 DEF Back
<1>7. ASSUME NEW d, BackTo(groups, Q, d) /\ (~group.changed => Q[1] = d) PROVE BackTo(more, R, d)
  <2>1. ASSUME NEW i \in 1 .. l + 1, ~more[i].changed PROVE R[i + 1] = d
    BY <1>4, <1>7, <2>1 DEF BackTo, l
  <2> QED BY <1>2, <2>1 DEF BackTo
<1> QED BY <1>2, <1>3, <1>6, <1>7 DEF more, R

\* The groups but the newest.
LEMMA BackTail ==
    ASSUME NEW groups \in Seq(Group), groups # <<>>, NEW Q, Back(groups, Q)
    PROVE  /\ Tail(groups) \in Seq(Group) /\ Back(Tail(groups), Tail(Q)) /\ Tail(Q)[1] = Q[2]
           /\ groups[1] \in Group /\ Head(groups) = groups[1]
           /\ Spans(groups[1].entries, Q[2], Q[1])
           /\ \A d : BackTo(groups, Q, d) => BackTo(Tail(groups), Tail(Q), d)
<1> DEFINE g == Tail(groups)
           q == Tail(Q)
           l == Len(groups)
<1>1. l \in Nat /\ l # 0 /\ Q \in Seq(Seq(Chars)) /\ Len(Q) = l + 1
  BY LenProperties, EmptySeq DEF Back
<1>2. g \in Seq(Group) /\ Len(g) = l - 1 /\ \A i \in 1 .. l - 1 : g[i] = groups[i + 1]
  BY <1>1, HeadTailProperties
<1>3. q \in Seq(Seq(Chars)) /\ Len(q) = l /\ \A i \in 1 .. l : q[i] = Q[i + 1]
  <2>1. Q # <<>>
    BY <1>1, EmptySeq
  <2>2. q \in Seq(Seq(Chars)) /\ Len(q) = Len(Q) - 1 /\ \A i \in 1 .. Len(Q) - 1 : q[i] = Q[i + 1]
    BY <1>1, <2>1, HeadTailProperties
  <2> HIDE DEF q, l
  <2> QED BY <1>1, <2>2
<1>4. groups[1] \in Group /\ Head(groups) = groups[1] /\ Spans(groups[1].entries, Q[2], Q[1])
  <2>1. 1 \in 1 .. l /\ 1 + 1 = 2
    BY <1>1
  <2> QED BY <2>1, ElementOfSeq DEF Back
<1> HIDE DEF g, q
<1>5. ASSUME NEW i \in 1 .. l - 1
      PROVE  g[i] = groups[i + 1] /\ q[i] = Q[i + 1] /\ q[i + 1] = Q[(i + 1) + 1] /\ i + 1 \in 1 .. l
  <2> HIDE DEF l
  <2>1. i \in 1 .. l /\ i + 1 \in 1 .. l
    BY <1>1, <1>5
  <2> QED BY <1>2, <1>3, <1>5, <2>1
<1>6. Back(g, q)
  <2>1. \A i \in 1 .. l - 1 : Spans(g[i].entries, q[i + 1], q[i])
    BY <1>5 DEF Back
  <2>2. Len(q) = Len(g) + 1
    BY <1>1, <1>2, <1>3
  <2> QED BY <1>2, <1>3, <2>1, <2>2 DEF Back
<1>7. ASSUME NEW d, BackTo(groups, Q, d) PROVE BackTo(g, q, d)
  BY <1>2, <1>5, <1>7 DEF BackTo
<1>8. q[1] = Q[2]
  BY <1>1, <1>3
<1> QED BY <1>2, <1>4, <1>6, <1>7, <1>8 DEF g, q

\* One text more ahead, in front of the others.
LEMMA AheadMore ==
    ASSUME NEW groups \in Seq(Group), NEW Q, Ahead(groups, Q), NEW group \in Group, NEW c \in Seq(Chars),
           Spans(group.entries, c, Q[1])
    PROVE  /\ Cons(group, groups) \in Seq(Group) /\ Ahead(Cons(group, groups), Cons(c, Q))
           /\ Cons(c, Q)[1] = c
           /\ \A d : AheadOf(groups, Q, d) /\ (~group.changed => c = d)
                      => AheadOf(Cons(group, groups), Cons(c, Q), d)
<1> DEFINE l == Len(groups)
           more == Cons(group, groups)
           R == Cons(c, Q)
<1>1. l \in Nat /\ Q \in Seq(Seq(Chars)) /\ Len(Q) = l + 1
  BY LenProperties DEF Ahead
<1>2. more \in Seq(Group) /\ Len(more) = l + 1 /\ more[1] = group
      /\ \A i \in 1 .. l : more[i + 1] = groups[i]
  BY ConsIs
<1>3. R \in Seq(Seq(Chars)) /\ Len(R) = l + 2 /\ R[1] = c
      /\ \A i \in 1 .. l + 1 : R[i + 1] = Q[i]
  <2>1. R \in Seq(Seq(Chars)) /\ Len(R) = Len(Q) + 1 /\ R[1] = c
        /\ \A i \in 1 .. Len(Q) : R[i + 1] = Q[i]
    <3> DEFINE T == Seq(Chars)
    <3>1. c \in T /\ Q \in Seq(T)
      BY <1>1
    <3> HIDE DEF T
    <3>2. R \in Seq(T) /\ Len(R) = Len(Q) + 1 /\ R[1] = c
          /\ \A i \in 1 .. Len(Q) : R[i + 1] = Q[i]
      BY <3>1, ConsIs
    <3> QED BY <3>2 DEF T
  <2> HIDE DEF R, l
  <2> QED BY <1>1, <2>1
<1> HIDE DEF l, more, R
<1>4. ASSUME NEW i \in 1 .. l + 1
      PROVE  /\ i = 1 => R[i] = c /\ R[i + 1] = Q[1] /\ more[i] = group
             /\ i # 1 => /\ R[i] = Q[i - 1] /\ R[i + 1] = Q[(i - 1) + 1]
                         /\ more[i] = groups[i - 1] /\ i - 1 \in 1 .. l
  <2>1. CASE i = 1
    BY <1>1, <1>2, <1>3, <2>1
  <2>2. CASE i # 1
    <3> DEFINE k == i - 1
    <3>1. k \in 1 .. l /\ k \in 1 .. l + 1 /\ i = k + 1 /\ i \in 1 .. l + 1 /\ k + 1 \in 1 .. l + 1
      BY <1>1, <1>4, <2>2
    <3> HIDE DEF k
    <3>2. R[i] = Q[k] /\ R[i + 1] = Q[k + 1] /\ more[i] = groups[k]
      BY <1>2, <1>3, <3>1
    <3> QED BY <2>2, <3>1, <3>2 DEF k
  <2> QED BY <2>1, <2>2
<1>5. ASSUME NEW i \in 1 .. l + 1 PROVE Spans(more[i].entries, R[i], R[i + 1])
  BY <1>4, <1>5 DEF Ahead, l
<1>6. Ahead(more, R)
  <2>1. Len(R) = Len(more) + 1
    BY <1>1, <1>2, <1>3
  <2> QED BY <1>2, <1>3, <1>5, <2>1 DEF Ahead
<1>7. ASSUME NEW d, AheadOf(groups, Q, d) /\ (~group.changed => c = d) PROVE AheadOf(more, R, d)
  <2>1. ASSUME NEW i \in 1 .. l + 1, ~more[i].changed PROVE R[i] = d
    BY <1>4, <1>7, <2>1 DEF AheadOf, l
  <2> QED BY <1>2, <2>1 DEF AheadOf
<1> QED BY <1>2, <1>3, <1>6, <1>7 DEF more, R

\* The groups that redo takes, but the next one.
LEMMA AheadTail ==
    ASSUME NEW groups \in Seq(Group), groups # <<>>, NEW Q, Ahead(groups, Q)
    PROVE  /\ Tail(groups) \in Seq(Group) /\ Ahead(Tail(groups), Tail(Q)) /\ Tail(Q)[1] = Q[2]
           /\ groups[1] \in Group /\ Head(groups) = groups[1]
           /\ Spans(groups[1].entries, Q[1], Q[2])
           /\ \A d : AheadOf(groups, Q, d) => AheadOf(Tail(groups), Tail(Q), d)
<1> DEFINE g == Tail(groups)
           q == Tail(Q)
           l == Len(groups)
<1>1. l \in Nat /\ l # 0 /\ Q \in Seq(Seq(Chars)) /\ Len(Q) = l + 1
  BY LenProperties, EmptySeq DEF Ahead
<1>2. g \in Seq(Group) /\ Len(g) = l - 1 /\ \A i \in 1 .. l - 1 : g[i] = groups[i + 1]
  BY <1>1, HeadTailProperties
<1>3. q \in Seq(Seq(Chars)) /\ Len(q) = l /\ \A i \in 1 .. l : q[i] = Q[i + 1]
  <2>1. Q # <<>>
    BY <1>1, EmptySeq
  <2>2. q \in Seq(Seq(Chars)) /\ Len(q) = Len(Q) - 1 /\ \A i \in 1 .. Len(Q) - 1 : q[i] = Q[i + 1]
    BY <1>1, <2>1, HeadTailProperties
  <2> HIDE DEF q, l
  <2> QED BY <1>1, <2>2
<1>4. groups[1] \in Group /\ Head(groups) = groups[1] /\ Spans(groups[1].entries, Q[1], Q[2])
  <2>1. 1 \in 1 .. l /\ 1 + 1 = 2
    BY <1>1
  <2> QED BY <2>1, ElementOfSeq DEF Ahead
<1> HIDE DEF g, q
<1>5. ASSUME NEW i \in 1 .. l - 1
      PROVE  g[i] = groups[i + 1] /\ q[i] = Q[i + 1] /\ q[i + 1] = Q[(i + 1) + 1] /\ i + 1 \in 1 .. l
  <2> HIDE DEF l
  <2>1. i \in 1 .. l /\ i + 1 \in 1 .. l
    BY <1>1, <1>5
  <2> QED BY <1>2, <1>3, <1>5, <2>1
<1>6. Ahead(g, q)
  <2>1. \A i \in 1 .. l - 1 : Spans(g[i].entries, q[i], q[i + 1])
    BY <1>5 DEF Ahead
  <2>2. Len(q) = Len(g) + 1
    BY <1>1, <1>2, <1>3
  <2> QED BY <1>2, <1>3, <2>1, <2>2 DEF Ahead
<1>7. ASSUME NEW d, AheadOf(groups, Q, d) PROVE AheadOf(g, q, d)
  BY <1>2, <1>5, <1>7 DEF AheadOf
<1>8. q[1] = Q[2]
  BY <1>1, <1>3
<1> QED BY <1>2, <1>4, <1>6, <1>7, <1>8 DEF g, q

\* D with its text changed to c, which the entry `new' records.
Edit(D, new, c) ==
    [buffer |-> c, modified |-> TRUE,
     unre |-> doc_unre_add(D.unre, new.op, new.start, new.end, new.text)]

\* The group that is being built has entries, and nothing is ahead.
Open(D) == D.unre.current.entries # <<>> /\ D.unre.redofirst = <<>>

\* The texts that lay behind when the group was begun.
Older(D, Q) == IF D.unre.current.entries = <<>> THEN Q ELSE Tail(Q)

\* An insertion or a deletion: the next text, ahead of it nothing.
LEMMA EditStep ==
    ASSUME NEW D, NEW Q, NEW F, Shape(D), Trail(D, Q, F), NEW new, NEW c, Links(new, D.buffer, c)
    PROVE  /\ Shape(Edit(D, new, c)) /\ Open(Edit(D, new, c)) /\ InStep(Edit(D, new, c))
           /\ Trail(Edit(D, new, c), Cons(c, Older(D, Q)), <<c>>)
           /\ \A d : Honest(D, Q, F, d) /\ InStep(D)
                      => Honest(Edit(D, new, c), Cons(c, Older(D, Q)), <<c>>, d)
<1> DEFINE E == Edit(D, new, c)
           R == Cons(c, Older(D, Q))
<1>0. E = [buffer |-> c, modified |-> TRUE,
           unre |-> doc_unre_add(D.unre, new.op, new.start, new.end, new.text)]
  BY DEF Edit
<1> HIDE DEF E
<1> DEFINE old == D.unre.current.entries
           first == D.unre.first
           S == IF old = <<>> THEN Q ELSE Tail(Q)
<1>1. /\ D.buffer \in Seq(Chars) /\ D.modified \in BOOLEAN /\ D.unre \in Unre
      /\ D.unre.current \in Group /\ first \in Seq(Group) /\ old \in Seq(Entry)
      /\ D.unre.current.changed \in BOOLEAN /\ D.unre.redofirst \in Seq(Group)
      /\ D.unre.redofirst # <<>> => old = <<>>
  BY ShapeParts DEF Shape
<1>2. c \in Seq(Chars)
  BY LinksBothWays
<1>3. Back(Behind(D), Q) /\ Q[1] = D.buffer
  BY DEF Trail
<1>4. /\ Back(first, S) /\ Spans(old, S[1], D.buffer)
      /\ \A d : BackTo(Behind(D), Q, d) => BackTo(first, S, d)
      /\ \A d : BackTo(Behind(D), Q, d) /\ old # <<>> /\ ~D.unre.current.changed => S[1] = d
      /\ (old = <<>> => S[1] = D.buffer)
  <2>1. CASE old = <<>>
    <3>1. Behind(D) = first /\ S = Q
      BY <2>1, BehindIs
    <3>2. Spans(old, D.buffer, D.buffer)
      BY <1>1, <2>1, SpansNone
    <3> QED BY <1>3, <2>1, <3>1, <3>2
  <2>2. CASE old # <<>>
    <3> DEFINE groups == Behind(D)
    <3>1. groups \in Seq(Group) /\ groups = <<D.unre.current>> \o first /\ groups[1] = D.unre.current
          /\ Len(groups) = Len(first) + 1 /\ Len(first) \in Nat
      BY <2>2, BehindIs
    <3>2. groups # <<>> /\ Tail(groups) = first
      <4>1. groups # <<>>
        <5> HIDE DEF groups
        <5> QED BY <3>1, EmptySeq
      <4>2. \A i \in 1 .. Len(first) : groups[i + 1] = first[i]
        BY <2>2, BehindIs
      <4>3. Tail(groups) \in Seq(Group) /\ Len(Tail(groups)) = Len(groups) - 1
            /\ \A i \in 1 .. Len(groups) - 1 : Tail(groups)[i] = groups[i + 1]
        <5> HIDE DEF groups
        <5> QED BY <3>1, <4>1, HeadTailProperties
      <4> DEFINE g == Tail(groups)
      <4> HIDE DEF g
      <4>4. g \in Seq(Group) /\ Len(g) = Len(first) /\ \A i \in 1 .. Len(g) : g[i] = first[i]
        <5>1. Len(groups) - 1 = Len(first)
          BY <3>1
        <5> QED BY <4>2, <4>3, <5>1 DEF g
      <4> QED BY <1>1, <4>1, <4>4, SeqEqual DEF g
    <3>3. S = Tail(Q)
      BY <2>2
    <3> HIDE DEF groups, S, first, old
    <3>4. Back(first, S) /\ S[1] = Q[2] /\ Spans(groups[1].entries, Q[2], Q[1])
          /\ \A d : BackTo(groups, Q, d) => BackTo(first, S, d)
      BY <1>3, <3>1, <3>2, <3>3, BackTail DEF groups
    <3>5. Spans(old, S[1], D.buffer)
      BY <1>3, <3>1, <3>4 DEF old
    <3>6. ASSUME NEW d, BackTo(groups, Q, d), ~D.unre.current.changed PROVE S[1] = d
      <4>1. 1 \in 1 .. Len(groups) /\ 1 + 1 = 2
        BY <3>1
      <4> QED BY <3>1, <3>4, <3>6, <4>1 DEF BackTo
    <3> QED BY <2>2, <3>4, <3>5, <3>6 DEF groups
  <2> QED BY <2>1, <2>2
<1> HIDE DEF S
<1>5. PICK entries \in Seq(Entry) :
        entries # <<>> /\ Spans(entries, S[1], c) /\ E.unre = Built(D.unre, entries)
  <2>1. Spans(D.unre.current.entries, S[1], D.buffer)
    BY <1>4
  <2>2. E.unre = doc_unre_add(D.unre, new.op, new.start, new.end, new.text)
    BY <1>0
  <2>3. D.unre \in Unre /\ (D.unre.redofirst # <<>> => D.unre.current.entries = <<>>)
    BY <1>1
  <2> DEFINE U == D.unre
             V == E.unre
             b == D.buffer
             a == S[1]
  <2>4. /\ U \in Unre /\ (U.redofirst # <<>> => U.current.entries = <<>>)
        /\ Spans(U.current.entries, a, b) /\ Links(new, b, c)
        /\ V = doc_unre_add(U, new.op, new.start, new.end, new.text)
    BY <2>1, <2>2, <2>3
  <2> HIDE DEF U, V, a, b
  <2>5. \E entries \in Seq(Entry) :
              entries # <<>> /\ Spans(entries, a, c) /\ V = Built(U, entries)
    BY <2>4, AddEntry
  <2> QED BY <2>5 DEF U, V, a
<1> DEFINE group == [entries |-> entries, changed |-> D.unre.current.changed]
<1>6. /\ E.unre.current = group /\ E.unre.first = first /\ E.unre.redofirst = <<>>
      /\ E.buffer = c /\ E.modified = TRUE /\ group \in Group /\ group.entries = entries
      /\ group.changed = D.unre.current.changed
  BY <1>0, <1>1, <1>5 DEF Unre, Group, Built
<1>7. E.unre.current.entries # <<>>
  BY <1>5, <1>6
<1> HIDE DEF first, old
<1>8. Shape(E)
  <2>1. E.unre \in Unre
    <3>1. E.unre = [D.unre EXCEPT !.current = group, !.redofirst = <<>>] /\ group \in Group
      BY <1>5, <1>6 DEF Built
    <3>2. <<>> \in Seq(Group)
      OBVIOUS
    <3>3. D.unre \in [current : Group, first : Seq(Group), redofirst : Seq(Group)]
      BY <1>1 DEF Unre
    <3> HIDE DEF group
    <3>4. E.unre \in [current : Group, first : Seq(Group), redofirst : Seq(Group)]
      BY <3>1, <3>2, <3>3
    <3> QED BY <3>4 DEF Unre
  <2>2. E \in [buffer : Seq(Chars), modified : BOOLEAN, unre : Unre]
    BY <1>0, <1>2, <2>1
  <2> QED BY <1>6, <2>2 DEF Shape
<1>9. Behind(E) = Cons(group, first)
  BY <1>6, <1>7, <1>8, BehindIs DEF Cons
<1>10. R = Cons(c, S)
  BY DEF S, old, Older
<1> HIDE DEF R
<1> HIDE DEF group
<1>11. Back(Behind(E), R) /\ R[1] = c
       /\ \A d : BackTo(first, S, d) /\ (~group.changed => S[1] = d) => BackTo(Behind(E), R, d)
  <2>1. Spans(group.entries, S[1], c) /\ group \in Group
    BY <1>5, <1>6
  <2>2. first \in Seq(Group) /\ Back(first, S)
    BY <1>1, <1>4
  <2>3. Back(Cons(group, first), R) /\ R[1] = c
    BY <1>2, <1>10, <2>1, <2>2, BackMore
  <2>4. \A d : BackTo(first, S, d) /\ (~group.changed => S[1] = d) => BackTo(Cons(group, first), R, d)
    BY <1>2, <1>10, <2>1, <2>2, BackMore
  <2> QED BY <1>9, <2>3, <2>4
<1>12. Ahead(<<>>, <<c>>) /\ <<c>>[1] = c /\ \A d : AheadOf(<<>>, <<c>>, d)
  <2> DEFINE none == <<>>
             F1 == <<c>>
  <2>1. Len(none) = 0 /\ 1 .. 0 = {} /\ F1 \in Seq(Seq(Chars)) /\ Len(F1) = 1 /\ F1[1] = c
    BY <1>2
  <2> HIDE DEF none, F1
  <2>2. Ahead(none, F1) /\ \A d : AheadOf(none, F1, d)
    BY <2>1 DEF Ahead, AheadOf
  <2> QED BY <2>1, <2>2 DEF none, F1
<1>13. Trail(E, R, <<c>>)
  BY <1>6, <1>11, <1>12 DEF Trail
<1>14. ASSUME NEW d, Honest(D, Q, F, d), InStep(D) PROVE Honest(E, R, <<c>>, d)
  <2>1. BackTo(Behind(D), Q, d) /\ (~D.modified => D.buffer = d)
    BY <1>14 DEF Honest
  <2>2. ~group.changed => S[1] = d
    <3>1. CASE old = <<>>
      <4>1. S[1] = D.buffer
        BY <1>4, <3>1, Zenon
      <4>2. D.unre.current.changed = D.modified
        BY <1>14, <3>1 DEF InStep, old
      <4> QED BY <1>6, <2>1, <4>1, <4>2
    <3>2. CASE old # <<>>
      BY <1>4, <1>6, <2>1, <3>2
    <3> QED BY <3>1, <3>2
  <2>3. BackTo(Behind(E), R, d)
    BY <1>4, <1>11, <2>1, <2>2
  <2> QED BY <1>6, <1>12, <2>3 DEF Honest
<1>15. InStep(E)
  BY <1>7 DEF InStep
<1>16. Open(E)
  BY <1>6, <1>7 DEF Open
<1> QED BY <1>8, <1>13, <1>14, <1>15, <1>16 DEF E, R

\* Forgetting goes together with a change that is started after it,
LEMMA ForgetsStarts ==
    ASSUME NEW P, NEW Q \in Seq(Seq(Chars)), Forgets(P, Q), Len(P) \in Nat, NEW c \in Seq(Chars)
    PROVE  Starts(P, Cons(c, Q))
<1> DEFINE R == Cons(c, Q)
           T == Seq(Chars)
<1>1. c \in T /\ Q \in Seq(T)
  OBVIOUS
<1> HIDE DEF T
<1>2. Len(Q) \in Nat /\ Len(R) = Len(Q) + 1 /\ \A i \in 1 .. Len(Q) : R[i + 1] = Q[i]
  BY <1>1, ConsIs
<1> HIDE DEF R
<1>3. Starts(P, R)
  BY <1>2, LevelsAssumption DEF Forgets, Starts
<1> QED BY <1>3 DEF R

\* and with one that was started before.
LEMMA StartsForgets ==
    ASSUME NEW P, NEW Q, NEW R, Starts(P, Q), Forgets(Q, R), Len(P) \in Nat, Len(Q) \in Nat
    PROVE  Starts(P, R)
<1>1. Len(R) \in Nat /\ Len(R) <= Len(Q) /\ Len(R) >= 1
  BY DEF Forgets
<1>2. ASSUME NEW i \in 1 .. Len(R) - 1 PROVE R[i + 1] = P[i]
  <2>1. i + 1 \in 1 .. Len(R) /\ i \in 1 .. Len(Q) - 1
    BY <1>1, <1>2
  <2> QED BY <2>1 DEF Forgets, Starts
<1>3. Len(R) - 1 \in 0 .. Len(P) /\ (Len(R) - 1 = Len(P) \/ Len(R) - 1 >= NumUndoLevels)
  BY <1>1, LevelsAssumption DEF Forgets, Starts
<1> QED BY <1>2, <1>3 DEF Starts

\* A change that is continued is still the one that was started.
LEMMA StartsContinues ==
    ASSUME NEW P, NEW Q, NEW R, Starts(P, Q), Continues(Q, R), Len(P) \in Nat
    PROVE  Starts(P, R)
<1>1. Len(R) \in Nat /\ Len(R) = Len(Q) /\ Len(R) >= 2
  BY DEF Continues
<1>2. ASSUME NEW i \in 1 .. Len(R) - 1 PROVE R[i + 1] = P[i]
  <2>1. i + 1 \in 2 .. Len(Q) /\ i \in 1 .. Len(Q) - 1
    BY <1>1, <1>2
  <2> QED BY <2>1 DEF Continues, Starts
<1> QED BY <1>1, <1>2 DEF Starts

\* Another text in front of all but the first one continues the change.
LEMMA TailContinues ==
    ASSUME NEW Q \in Seq(Seq(Chars)), Len(Q) >= 2, NEW c \in Seq(Chars)
    PROVE  Continues(Q, Cons(c, Tail(Q)))
<1> DEFINE T == Seq(Chars)
           q == Tail(Q)
           R == Cons(c, q)
<1>1. Q \in Seq(T) /\ c \in T /\ Len(Q) \in Nat /\ Q # <<>>
  BY LenProperties, EmptySeq
<1> HIDE DEF T
<1>2. q \in Seq(T) /\ Len(q) = Len(Q) - 1 /\ \A i \in 1 .. Len(Q) - 1 : q[i] = Q[i + 1]
  BY <1>1, HeadTailProperties
<1> HIDE DEF q
<1>3. Len(R) = Len(q) + 1 /\ \A i \in 1 .. Len(q) : R[i + 1] = q[i]
  BY <1>1, <1>2, ConsIs
<1> HIDE DEF R
<1>4. ASSUME NEW i \in 2 .. Len(Q) PROVE R[i] = Q[i]
  <2> DEFINE k == i - 1
  <2>1. k \in 1 .. Len(q) /\ k \in 1 .. Len(Q) - 1 /\ i = k + 1
    BY <1>1, <1>2, <1>4
  <2> HIDE DEF k
  <2> QED BY <1>2, <1>3, <2>1
<1>5. Continues(Q, R)
  BY <1>1, <1>2, <1>3, <1>4 DEF Continues
<1> QED BY <1>5 DEF R, q

-----------------------------------------------------------------------------
(* The operations on a document.                                           *)

\* E is D with one insertion or deletion.
IsEdit(D, E) == \E new, c : Links(new, D.buffer, c) /\ E = Edit(D, new, c)

\* E is D with its group closed.
Closed(D, Q, F, E) ==
    /\ Shape(E) /\ E.unre.current.entries = <<>> /\ E.buffer = D.buffer /\ E.modified = D.modified
    /\ InStep(D) => InStep(E)
    /\ \E R : /\ Trail(E, R, F) /\ Forgets(Q, R)
              /\ \A d : Honest(D, Q, F, d) => Honest(E, R, F, d)

\* E is D with one change more.
Started(D, Q, F, E) ==
    /\ Shape(E) /\ InStep(E) /\ E.unre.redofirst = <<>>
    /\ \E R : /\ Trail(E, R, <<E.buffer>>) /\ Starts(Q, R)
              /\ \A d : Honest(D, Q, F, d) /\ InStep(D) => Honest(E, R, <<E.buffer>>, d)

\* E is D with its last change continued.
Continued(D, Q, F, E) ==
    /\ Shape(E) /\ InStep(E) /\ E.unre.redofirst = <<>>
    /\ \E R : /\ Trail(E, R, <<E.buffer>>) /\ Continues(Q, R)
              /\ \A d : Honest(D, Q, F, d) /\ InStep(D) => Honest(E, R, <<E.buffer>>, d)

\* The texts behind are a sequence of texts.
LEMMA TrailTexts ==
    ASSUME NEW D, NEW Q, NEW F, Shape(D), Trail(D, Q, F)
    PROVE  /\ Q \in Seq(Seq(Chars)) /\ Len(Q) \in Nat /\ Q[1] = D.buffer
           /\ F \in Seq(Seq(Chars)) /\ Len(F) \in Nat /\ F[1] = D.buffer
           /\ Len(Q) = Len(Behind(D)) + 1 /\ Len(F) = Len(D.unre.redofirst) + 1
BY LenProperties DEF Trail, Back, Ahead

\* An insertion in the text is an edit, with an entry that records it.
LEMMA InsertIsEdit ==
    ASSUME NEW D, D.buffer \in Seq(Chars), NEW pos \in 0 .. Len(D.buffer), NEW t \in Seq(Chars)
    PROVE  IsEdit(D, Insert(D, pos, t))
<1> DEFINE c == Inserted(D.buffer, pos, t)
           new == [op |-> "UndoInsert", start |-> pos, end |-> pos + Len(t), text |-> t]
<1>1. Grown(D.buffer, c, pos, t)
  BY InsertGrows
<1>2. Len(D.buffer) \in Nat /\ Len(t) \in Nat
  BY LenProperties
<1>3. new \in Entry
  <2>1. pos \in Nat /\ pos + Len(t) \in Nat
    BY <1>2
  <2> QED BY <2>1 DEF Entry
<1>4. Links(new, D.buffer, c)
  <2> HIDE DEF c
  <2> QED BY <1>1, <1>3 DEF Links
<1>5. Insert(D, pos, t) = Edit(D, new, c)
  BY DEF Insert, Edit
<1> HIDE DEF new, c
<1> QED BY <1>4, <1>5 DEF IsEdit

\* A deletion of a part of the text is one too.
LEMMA DeleteIsEdit ==
    ASSUME NEW D, D.buffer \in Seq(Chars), NEW e \in 0 .. Len(D.buffer), NEW s \in 0 .. e
    PROVE  IsEdit(D, Delete(D, s, e))
<1> DEFINE c == Deleted(D.buffer, s, e)
           t == Slice(D.buffer, s, e)
           new == [op |-> "UndoDelete", start |-> s, end |-> e, text |-> t]
<1>1. Grown(c, D.buffer, s, t) /\ e = s + Len(t)
  BY DeleteShrinks
<1>2. Len(D.buffer) \in Nat
  BY LenProperties
<1> HIDE DEF c, t
<1>3. new \in Entry
  <2>1. s \in Nat /\ e \in Nat /\ t \in Seq(Chars)
    BY <1>1, <1>2 DEF Grown
  <2> QED BY <2>1 DEF Entry
<1>4. Links(new, D.buffer, c)
  BY <1>1, <1>3 DEF Links
<1>5. Delete(D, s, e) = Edit(D, new, c)
  BY DEF Delete, Edit, c, t
<1> HIDE DEF new
<1> QED BY <1>4, <1>5 DEF IsEdit

\* The texts behind E, which is D with an edit, by whether the group of D was empty.
EditTrail(D, Q, F, E, R) ==
    /\ Trail(E, R, <<E.buffer>>)
    /\ D.unre.current.entries = <<>> => R = Cons(E.buffer, Q)
    /\ D.unre.current.entries # <<>> => Continues(Q, R)
    /\ \A d : Honest(D, Q, F, d) /\ InStep(D) => Honest(E, R, <<E.buffer>>, d)

\* An edit of D.
LEMMA EditIs ==
    ASSUME NEW D, NEW Q, NEW F, Shape(D), Trail(D, Q, F), NEW E, IsEdit(D, E)
    PROVE  /\ Shape(E) /\ E.unre.current.entries # <<>> /\ E.unre.redofirst = <<>> /\ InStep(E)
           /\ E.buffer \in Seq(Chars) /\ E.modified = TRUE
           /\ \E R : EditTrail(D, Q, F, E, R)
<1>1. PICK new, c : Links(new, D.buffer, c) /\ E = Edit(D, new, c)
  BY DEF IsEdit
<1> DEFINE R == Cons(c, Older(D, Q))
<1>2. /\ Shape(E) /\ E.unre.current.entries # <<>> /\ E.unre.redofirst = <<>>
      /\ E.buffer = c /\ E.modified = TRUE /\ InStep(E)
      /\ Trail(E, R, <<c>>)
      /\ \A d : Honest(D, Q, F, d) /\ InStep(D) => Honest(E, R, <<c>>, d)
  <2> DEFINE C == Edit(D, new, c)
  <2>1. /\ Shape(C) /\ C.unre.current.entries # <<>> /\ C.unre.redofirst = <<>>
        /\ C.buffer = c /\ C.modified = TRUE /\ InStep(C)
    <3>1. Links(new, D.buffer, c)
      BY <1>1
    <3>2. Shape(C)
      BY <3>1, EditStep
    <3>3. Open(C)
      BY <3>1, EditStep
    <3>4. C.unre.current.entries # <<>> /\ C.unre.redofirst = <<>>
      BY <3>3 DEF Open
    <3>5. C.buffer = c /\ C.modified = TRUE
      BY DEF Edit
    <3>6. InStep(C)
      BY <3>1, EditStep
    <3> QED BY <3>2, <3>3, <3>4, <3>5, <3>6
  <2>2. Trail(C, R, <<c>>)
    BY <1>1, EditStep
  <2>3. \A d : Honest(D, Q, F, d) /\ InStep(D) => Honest(C, R, <<c>>, d)
    BY <1>1, EditStep
  <2>4. E = C
    BY <1>1
  <2> HIDE DEF C, R
  <2> QED BY <2>1, <2>2, <2>3, <2>4
<1>3. c \in Seq(Chars)
  BY <1>1, LinksBothWays
<1>4. D.unre.current.entries = <<>> => R = Cons(E.buffer, Q)
  BY <1>2 DEF Older
<1>5. ASSUME D.unre.current.entries # <<>> PROVE Continues(Q, R)
  <2>1. Q \in Seq(Seq(Chars)) /\ Len(Q) = Len(Behind(D)) + 1
    BY TrailTexts
  <2>2. Len(Behind(D)) = Len(D.unre.first) + 1 /\ Len(D.unre.first) \in Nat
    BY <1>5, BehindIs
  <2>3. Len(Q) >= 2
    BY <2>1, <2>2
  <2> QED BY <1>3, <1>5, <2>1, <2>3, TailContinues DEF Older
<1> HIDE DEF R
<1>6. EditTrail(D, Q, F, E, R)
  BY <1>2, <1>4, <1>5 DEF EditTrail
<1> QED BY <1>2, <1>3, <1>6

\* doc_unre_new_group closes the group.
LEMMA NewGroupCloses ==
    ASSUME NEW D, NEW Q, NEW F, Shape(D), Trail(D, Q, F)
    PROVE  Closed(D, Q, F, NewGroup(D))
BY NewGroupStep DEF Closed

\* After that an edit starts a change,
LEMMA EditClosed ==
    ASSUME NEW D, NEW Q, NEW F, Shape(D), Trail(D, Q, F), NEW E, Closed(D, Q, F, E),
           NEW C, IsEdit(E, C)
    PROVE  Started(D, Q, F, C) /\ C.unre.current.entries # <<>>
<1>1. PICK P : /\ Trail(E, P, F) /\ Forgets(Q, P)
               /\ \A d : Honest(D, Q, F, d) => Honest(E, P, F, d)
  BY DEF Closed
<1>2. Shape(E) /\ E.unre.current.entries = <<>> /\ (InStep(D) => InStep(E))
  BY DEF Closed
<1>3. /\ Shape(C) /\ C.unre.current.entries # <<>> /\ C.unre.redofirst = <<>> /\ InStep(C)
      /\ C.buffer \in Seq(Chars)
  BY <1>1, <1>2, EditIs
<1>4. PICK R : EditTrail(E, P, F, C, R)
  BY <1>1, <1>2, EditIs
<1>5. Starts(Q, R)
  <2>1. P \in Seq(Seq(Chars)) /\ Len(Q) \in Nat
    BY <1>1, <1>2, TrailTexts
  <2> QED BY <1>1, <1>2, <1>3, <1>4, <2>1, ForgetsStarts DEF EditTrail
<1>6. \A d : Honest(D, Q, F, d) /\ InStep(D) => Honest(C, R, <<C.buffer>>, d)
  BY <1>1, <1>2, <1>4 DEF EditTrail
<1> QED BY <1>3, <1>4, <1>5, <1>6 DEF Started, EditTrail

\* another edit continues it,
LEMMA EditStarted ==
    ASSUME NEW D, NEW Q, NEW F, Shape(D), Trail(D, Q, F), NEW E, Started(D, Q, F, E),
           E.unre.current.entries # <<>>, NEW C, IsEdit(E, C)
    PROVE  Started(D, Q, F, C) /\ C.unre.current.entries # <<>>
<1>1. PICK P : /\ Trail(E, P, <<E.buffer>>) /\ Starts(Q, P)
               /\ \A d : Honest(D, Q, F, d) /\ InStep(D) => Honest(E, P, <<E.buffer>>, d)
  BY DEF Started
<1>2. Shape(E) /\ InStep(E)
  BY DEF Started
<1>3. /\ Shape(C) /\ C.unre.current.entries # <<>> /\ C.unre.redofirst = <<>> /\ InStep(C)
  BY <1>1, <1>2, EditIs
<1>4. PICK R : EditTrail(E, P, <<E.buffer>>, C, R)
  BY <1>1, <1>2, EditIs
<1>5. Starts(Q, R)
  <2>1. Len(Q) \in Nat
    BY TrailTexts
  <2> QED BY <1>1, <1>2, <1>4, <2>1, StartsContinues DEF EditTrail
<1>6. \A d : Honest(D, Q, F, d) /\ InStep(D) => Honest(C, R, <<C.buffer>>, d)
  BY <1>1, <1>2, <1>4 DEF EditTrail
<1> QED BY <1>3, <1>4, <1>5, <1>6 DEF Started, EditTrail

\* and doc_unre_new_group closes it.
LEMMA NewGroupStarted ==
    ASSUME NEW D, NEW Q, NEW F, Shape(D), Trail(D, Q, F), NEW E, Started(D, Q, F, E)
    PROVE  Started(D, Q, F, NewGroup(E))
<1> DEFINE C == NewGroup(E)
<1>1. PICK P : /\ Trail(E, P, <<E.buffer>>) /\ Starts(Q, P)
               /\ \A d : Honest(D, Q, F, d) /\ InStep(D) => Honest(E, P, <<E.buffer>>, d)
  BY DEF Started
<1>2. Shape(E) /\ InStep(E) /\ E.unre.redofirst = <<>>
  BY DEF Started
<1>3. Shape(C) /\ C.unre.redofirst = <<>> /\ C.buffer = E.buffer /\ InStep(C)
  BY <1>1, <1>2, NewGroupStep
<1>4. PICK R : /\ Forgets(P, R) /\ Trail(C, R, <<E.buffer>>)
               /\ \A d : Honest(E, P, <<E.buffer>>, d) => Honest(C, R, <<E.buffer>>, d)
  BY <1>1, <1>2, NewGroupStep
<1> HIDE DEF C
<1>5. Starts(Q, R)
  <2>1. Len(Q) \in Nat /\ Len(P) \in Nat
    BY <1>1, <1>2, TrailTexts
  <2> QED BY <1>1, <1>4, <2>1, StartsForgets
<1>6. \A d : Honest(D, Q, F, d) /\ InStep(D) => Honest(C, R, <<E.buffer>>, d)
  BY <1>1, <1>2, <1>4
<1> QED BY <1>3, <1>4, <1>5, <1>6 DEF Started, C

\* An edit of a document as it is.
LEMMA EditAsItIs ==
    ASSUME NEW D, NEW Q, NEW F, Shape(D), Trail(D, Q, F), NEW C, IsEdit(D, C)
    PROVE  Started(D, Q, F, C) \/ Continued(D, Q, F, C)
<1>1. /\ Shape(C) /\ C.unre.current.entries # <<>> /\ C.unre.redofirst = <<>> /\ InStep(C)
      /\ C.buffer \in Seq(Chars)
  BY EditIs
<1>2. PICK R : EditTrail(D, Q, F, C, R)
  BY EditIs
<1>3. CASE D.unre.current.entries = <<>>
  <2>1. Q \in Seq(Seq(Chars)) /\ Len(Q) \in Nat /\ Len(Q) = Len(Behind(D)) + 1 /\ Len(Behind(D)) \in Nat
    BY TrailTexts, BehindIs
  <2>2. Forgets(Q, Q)
    BY <2>1 DEF Forgets
  <2>3. Starts(Q, R)
    BY <1>1, <1>2, <1>3, <2>1, <2>2, ForgetsStarts DEF EditTrail
  <2> QED BY <1>1, <1>2, <2>3 DEF Started, EditTrail
<1>4. CASE D.unre.current.entries # <<>>
  BY <1>1, <1>2, <1>4 DEF Continued, EditTrail
<1> QED BY <1>3, <1>4

\* A document whose group is empty stays as it is.
LEMMA NewGroupOfClosed ==
    ASSUME NEW E, Shape(E), E.unre.current.entries = <<>>
    PROVE  NewGroup(E) = E
<1>1. E \in [buffer : Seq(Chars), modified : BOOLEAN, unre : Unre]
  BY DEF Shape
<1> QED BY <1>1 DEF NewGroup, doc_unre_new_group

\* What an operation that edits, or only closes the group, may do to a document.
Result(D, Q, F, E) ==
    /\ Shape(E)
    /\ \E R, G : /\ Trail(E, R, G)
                 /\ \/ Forgets(Q, R) /\ G = F
                    \/ (Starts(Q, R) \/ Continues(Q, R)) /\ G = <<E.buffer>>
                 /\ \A d : Honest(D, Q, F, d) /\ InStep(D) => Honest(E, R, G, d)

\* Closing the group is one of these,
LEMMA ClosedResult == ASSUME NEW D, NEW Q, NEW F, NEW E, Closed(D, Q, F, E) PROVE Result(D, Q, F, E)
<1>1. PICK R : /\ Trail(E, R, F) /\ Forgets(Q, R)
               /\ \A d : Honest(D, Q, F, d) => Honest(E, R, F, d)
  BY DEF Closed
<1>2. Shape(E)
  BY DEF Closed
<1> QED BY <1>1, <1>2 DEF Result

\* and so is a change.
LEMMA StartedResult ==
    ASSUME NEW D, NEW Q, NEW F, NEW E, Started(D, Q, F, E) \/ Continued(D, Q, F, E)
    PROVE  Result(D, Q, F, E)
<1>1. PICK R : /\ Trail(E, R, <<E.buffer>>) /\ (Starts(Q, R) \/ Continues(Q, R))
               /\ \A d : Honest(D, Q, F, d) /\ InStep(D) => Honest(E, R, <<E.buffer>>, d)
  BY DEF Started, Continued
<1>2. Shape(E)
  BY DEF Started, Continued
<1> QED BY <1>1, <1>2 DEF Result

\* The text and the flag of a document and its lists of groups make its history: the
\* flag of an empty group does not.
LEMMA SameHistory ==
    ASSUME NEW C, NEW E, Shape(C), Shape(E), E.buffer = C.buffer,
           E.unre.current.entries = C.unre.current.entries,
           E.unre.current.entries # <<>> => E.unre.current = C.unre.current,
           E.unre.first = C.unre.first, E.unre.redofirst = C.unre.redofirst
    PROVE  /\ \A R, G : Trail(C, R, G) => Trail(E, R, G)
           /\ \A R, G, d : Honest(C, R, G, d) /\ (E.modified = C.modified \/ E.modified = TRUE)
                            => Honest(E, R, G, d)
<1>1. Behind(E) = Behind(C)
  BY DEF Behind
<1> QED BY <1>1 DEF Trail, Honest

\* The flag may become TRUE in the end.
LEMMA ResultModified ==
    ASSUME NEW D, NEW Q, NEW F, NEW C, Result(D, Q, F, C), NEW E, Shape(E), E.buffer = C.buffer,
           E.unre.current.entries = C.unre.current.entries,
           E.unre.current.entries # <<>> => E.unre.current = C.unre.current,
           E.unre.first = C.unre.first, E.unre.redofirst = C.unre.redofirst, E.modified = TRUE
    PROVE  Result(D, Q, F, E)
<1>1. PICK R, G : /\ Trail(C, R, G)
                  /\ \/ Forgets(Q, R) /\ G = F
                     \/ (Starts(Q, R) \/ Continues(Q, R)) /\ G = <<C.buffer>>
                  /\ \A d : Honest(D, Q, F, d) /\ InStep(D) => Honest(C, R, G, d)
  BY DEF Result
<1>2. Shape(C)
  BY DEF Result
<1>3. Trail(E, R, G)
  BY <1>1, <1>2, SameHistory
<1>4. \A d : Honest(C, R, G, d) => Honest(E, R, G, d)
  BY <1>2, SameHistory
<1> QED BY <1>1, <1>3, <1>4 DEF Result

\* Typed text.
LEMMA TypeResult ==
    ASSUME NEW D, NEW Q, NEW F, Shape(D), Trail(D, Q, F),
           NEW pos \in 0 .. Len(D.buffer), NEW t \in Seq(Chars)
    PROVE  Result(D, Q, F, doc_buffer_insert_text_lcb(D, pos, t))
<1> DEFINE C == NewGroup(D)
           E == doc_buffer_insert_text_lcb(D, pos, t)
<1>1. D.buffer \in Seq(Chars)
  BY ShapeParts
<1>2. Closed(D, Q, F, C)
  BY NewGroupCloses
<1>3. E = Insert(C, pos, t) \/ E = Insert(D, pos, t)
  BY DEF doc_buffer_insert_text_lcb
<1>4. C.buffer = D.buffer
  BY <1>2 DEF Closed
<1> HIDE DEF C, E
<1>5. CASE E = Insert(C, pos, t)
  <2>1. IsEdit(C, E)
    BY <1>1, <1>4, <1>5, InsertIsEdit
  <2> QED BY <1>2, <2>1, EditClosed, StartedResult DEF E
<1>6. CASE E = Insert(D, pos, t)
  <2>1. IsEdit(D, E)
    BY <1>1, <1>6, InsertIsEdit
  <2> QED BY <2>1, EditAsItIs, StartedResult DEF E
<1> QED BY <1>3, <1>5, <1>6

\* A deletion, of a document and of one whose group is closed.
LEMMA DeleteResult ==
    ASSUME NEW D, NEW Q, NEW F, Shape(D), Trail(D, Q, F),
           NEW end \in 1 .. Len(D.buffer), NEW start \in 0 .. end - 1
    PROVE  Result(D, Q, F, doc_buffer_delete_range_lcb(D, start, end))
<1> DEFINE C == NewGroup(D)
           E == doc_buffer_delete_range_lcb(D, start, end)
<1>1. D.buffer \in Seq(Chars) /\ end \in 0 .. Len(D.buffer) /\ start \in 0 .. end
  BY ShapeParts
<1>2. Closed(D, Q, F, C)
  BY NewGroupCloses
<1>3. E = Delete(C, start, end) \/ E = Delete(D, start, end)
  BY DEF doc_buffer_delete_range_lcb
<1>4. C.buffer = D.buffer
  BY <1>2 DEF Closed
<1> HIDE DEF C, E
<1>5. CASE E = Delete(C, start, end)
  <2>1. IsEdit(C, E)
    BY <1>1, <1>4, <1>5, DeleteIsEdit
  <2> QED BY <1>2, <2>1, EditClosed, StartedResult DEF E
<1>6. CASE E = Delete(D, start, end)
  <2>1. IsEdit(D, E)
    BY <1>1, <1>6, DeleteIsEdit
  <2> QED BY <2>1, EditAsItIs, StartedResult DEF E
<1> QED BY <1>3, <1>5, <1>6

\* A cut, which closes the group before and after.
LEMMA CutResult ==
    ASSUME NEW D, NEW Q, NEW F, Shape(D), Trail(D, Q, F),
           NEW end \in 0 .. Len(D.buffer), NEW start \in 0 .. end
    PROVE  Result(D, Q, F, doc_cut(D, start, end))
<1> DEFINE C == NewGroup(D)
           E == doc_buffer_delete_range_lcb(C, start, end)
<1>1. Closed(D, Q, F, C)
  BY NewGroupCloses
<1>2. Shape(C) /\ C.unre.current.entries = <<>> /\ C.buffer = D.buffer
  BY <1>1 DEF Closed
<1>3. NewGroup(C) = C
  BY <1>2, NewGroupOfClosed
<1>4. CASE start < end
  <2>1. E = Delete(C, start, end)
    <3> HIDE DEF C
    <3> QED BY <1>3 DEF doc_buffer_delete_range_lcb
  <2>2. doc_cut(D, start, end) = NewGroup(E)
    BY <1>4 DEF doc_cut
  <2>3. D.buffer \in Seq(Chars)
    BY ShapeParts
  <2> HIDE DEF C, E
  <2>4. IsEdit(C, E)
    BY <1>2, <2>1, <2>3, DeleteIsEdit
  <2>5. Started(D, Q, F, E)
    BY <1>1, <2>4, EditClosed
  <2>6. Started(D, Q, F, NewGroup(E))
    BY <2>5, NewGroupStarted
  <2> QED BY <2>2, <2>6, StartedResult
<1>5. CASE ~(start < end)
  <2>1. doc_cut(D, start, end) = C
    BY <1>3, <1>5 DEF doc_cut
  <2> QED BY <1>1, <2>1, ClosedResult
<1> QED BY <1>4, <1>5

\* A deletion, if there is something to delete, and an insertion after it, in a document
\* whose group is closed.
LEMMA DeleteInsert ==
    ASSUME NEW D, NEW Q, NEW F, Shape(D), Trail(D, Q, F), NEW C, Closed(D, Q, F, C),
           NEW end \in 0 .. Len(D.buffer), NEW start \in 0 .. end, NEW t \in Seq(Chars)
    PROVE  /\ Started(D, Q, F, Insert(C, start, t))
           /\ Started(D, Q, F, Delete(C, start, end))
           /\ Started(D, Q, F, Insert(Delete(C, start, end), start, t))
<1>1. C.buffer = D.buffer /\ D.buffer \in Seq(Chars) /\ Len(D.buffer) \in Nat
  BY ShapeParts, LenProperties DEF Closed
<1> DEFINE E == Delete(C, start, end)
<1>2. IsEdit(C, E)
  BY <1>1, DeleteIsEdit
<1>3. Started(D, Q, F, E) /\ E.unre.current.entries # <<>>
  BY <1>2, EditClosed
<1>4. IsEdit(C, Insert(C, start, t))
  <2>1. start \in 0 .. Len(C.buffer)
    BY <1>1
  <2> QED BY <1>1, <2>1, InsertIsEdit
<1>5. E.buffer \in Seq(Chars) /\ start \in 0 .. Len(E.buffer)
  <2>1. E.buffer = Deleted(D.buffer, start, end)
    BY <1>1 DEF Delete
  <2>2. Deleted(D.buffer, start, end) \in Seq(Chars)
        /\ Len(Deleted(D.buffer, start, end)) = Len(D.buffer) - (end - start)
    BY <1>1, DeletedIs
  <2> HIDE DEF E
  <2>3. Len(E.buffer) = Len(D.buffer) - (end - start) /\ E.buffer \in Seq(Chars)
    BY <2>1, <2>2
  <2> QED BY <1>1, <2>3
<1> HIDE DEF E
<1>6. IsEdit(E, Insert(E, start, t))
  BY <1>5, InsertIsEdit
<1>7. Started(D, Q, F, Insert(E, start, t))
  BY <1>3, <1>6, EditStarted
<1>8. Started(D, Q, F, Insert(C, start, t))
  BY <1>4, EditClosed
<1> QED BY <1>3, <1>7, <1>8 DEF E

\* A paste.
LEMMA PasteResult ==
    ASSUME NEW D, NEW Q, NEW F, Shape(D), Trail(D, Q, F),
           NEW end \in 0 .. Len(D.buffer), NEW start \in 0 .. end, NEW t \in Seq(Chars)
    PROVE  Result(D, Q, F, doc_paste(D, start, end, t))
<1> DEFINE C == NewGroup(D)
<1>1. Closed(D, Q, F, C)
  BY NewGroupCloses
<1>2. \/ doc_paste(D, start, end, t) = NewGroup(Insert(C, start, t))
      \/ doc_paste(D, start, end, t) = NewGroup(Insert(Delete(C, start, end), start, t))
  BY DEF doc_paste
<1> HIDE DEF C
<1>3. /\ Started(D, Q, F, Insert(C, start, t))
      /\ Started(D, Q, F, Insert(Delete(C, start, end), start, t))
  BY <1>1, DeleteInsert
<1>4. /\ Started(D, Q, F, NewGroup(Insert(C, start, t)))
      /\ Started(D, Q, F, NewGroup(Insert(Delete(C, start, end), start, t)))
  BY <1>3, NewGroupStarted
<1> QED BY <1>2, <1>4, StartedResult

\* The flag of a document may be set, and its history has the same shape.
LEMMA SetModified ==
    ASSUME NEW C, Shape(C), NEW m \in BOOLEAN, NEW E, E = [C EXCEPT !.modified = m]
    PROVE  Shape(E) /\ E.buffer = C.buffer /\ E.unre = C.unre /\ E.modified = m
<1>1. C \in [buffer : Seq(Chars), modified : BOOLEAN, unre : Unre]
  BY DEF Shape
<1> QED BY <1>1 DEF Shape

\* A replacement, the last part of which is to set the flag.
LEMMA ReplaceResult ==
    ASSUME NEW D, NEW Q, NEW F, Shape(D), Trail(D, Q, F),
           NEW end \in 0 .. Len(D.buffer), NEW start \in 0 .. end, NEW t \in Seq(Chars)
    PROVE  Result(D, Q, F, doc_replace_text(D, t, start, end))
<1> DEFINE C == NewGroup(D)
           E == doc_replace_text_backend(C, t, start, end)
<1>1. Closed(D, Q, F, C)
  BY NewGroupCloses
<1>2. doc_replace_text(D, t, start, end) = NewGroup(E)
  BY DEF doc_replace_text
<1>3. /\ Started(D, Q, F, Insert(C, start, t)) /\ Started(D, Q, F, Delete(C, start, end))
      /\ Started(D, Q, F, Insert(Delete(C, start, end), start, t))
  <2> HIDE DEF C
  <2> QED BY <1>1, DeleteInsert
<1>4. CASE t # <<>>
  <2>1. E = Insert(C, start, t) \/ E = Insert(Delete(C, start, end), start, t)
    <3>1. CASE start < end
      <4> HIDE DEF C
      <4> QED BY <1>4, <3>1 DEF doc_replace_text_backend
    <3>2. CASE ~(start < end)
      <4>1. start = end
        BY <3>2, ShapeParts, LenProperties
      <4> HIDE DEF C
      <4> QED BY <1>4, <3>2, <4>1 DEF doc_replace_text_backend
    <3> QED BY <3>1, <3>2
  <2> HIDE DEF C, E
  <2>2. Started(D, Q, F, E)
    BY <1>3, <2>1
  <2> QED BY <1>2, <2>2, NewGroupStarted, StartedResult
<1>5. CASE t = <<>> /\ start < end
  <2> DEFINE M == Delete(C, start, end)
  <2>1. E = [M EXCEPT !.modified = TRUE]
    <3> HIDE DEF C
    <3> QED BY <1>5 DEF doc_replace_text_backend
  <2>2. M = [M EXCEPT !.modified = TRUE]
    <3>1. M.modified = TRUE
      BY DEF Delete
    <3>2. Shape(M)
      BY <1>3 DEF Started
    <3> HIDE DEF M
    <3>3. M \in [buffer : Seq(Chars), modified : BOOLEAN, unre : Unre]
      BY <3>2 DEF Shape
    <3> QED BY <3>1, <3>3
  <2> HIDE DEF C, E
  <2>3. Started(D, Q, F, E)
    BY <1>3, <2>1, <2>2
  <2> QED BY <1>2, <2>3, NewGroupStarted, StartedResult
<1>6. CASE t = <<>> /\ ~(start < end)
  <2>1. E = [C EXCEPT !.modified = TRUE]
    <3> HIDE DEF C
    <3> QED BY <1>6 DEF doc_replace_text_backend
  <2> HIDE DEF C, E
  <2>2. Shape(C) /\ C.unre.current.entries = <<>>
    BY <1>1 DEF Closed
  <2>3. Shape(E) /\ E.buffer = C.buffer /\ E.unre = C.unre /\ E.modified = TRUE
    BY <2>1, <2>2, SetModified
  <2>4. NewGroup(E) = E
    BY <2>2, <2>3, NewGroupOfClosed
  <2>5. Result(D, Q, F, C)
    BY <1>1, ClosedResult
  <2>6. Result(D, Q, F, E)
    BY <2>3, <2>5, ResultModified
  <2> QED BY <1>2, <2>4, <2>6
<1> QED BY <1>4, <1>5, <1>6

\* The insertion of two strings, which closes the group before it sets the flag.
LEMMA TwoStringsResult ==
    ASSUME NEW D, NEW Q, NEW F, Shape(D), Trail(D, Q, F),
           NEW end \in 0 .. Len(D.buffer), NEW start \in 0 .. end,
           NEW before \in Seq(Chars), NEW after \in Seq(Chars)
    PROVE  Result(D, Q, F, doc_insert_two_strings(D, before, after, start, end))
<1> DEFINE C == NewGroup(D)
           first == Insert(C, start, IF start = end THEN before \o after ELSE before)
           both == IF start = end THEN first ELSE Insert(first, end + Len(before), after)
           unmarked == [both EXCEPT !.modified = D.modified]
           grouped == NewGroup(unmarked)
           E == [grouped EXCEPT !.modified = TRUE]
<1>1. doc_insert_two_strings(D, before, after, start, end) = E
  BY DEF doc_insert_two_strings
<1>2. Closed(D, Q, F, C) /\ C.buffer = D.buffer /\ D.buffer \in Seq(Chars) /\ D.modified \in BOOLEAN
  BY NewGroupCloses, ShapeParts DEF Closed
<1> HIDE DEF C
<1>3. Len(D.buffer) \in Nat /\ Len(before) \in Nat
  BY <1>2, LenProperties
<1>4. ASSUME NEW t \in Seq(Chars)
      PROVE  IsEdit(C, Insert(C, start, t))
  <2>1. start \in 0 .. Len(C.buffer)
    BY <1>2, <1>3
  <2> QED BY <1>2, <2>1, InsertIsEdit
<1>5. Started(D, Q, F, both) /\ both.unre.current.entries # <<>>
  <2>1. CASE start = end
    <3> DEFINE t == before \o after
    <3>1. t \in Seq(Chars)
      BY Joined
    <3>2. both = Insert(C, start, t)
      BY <2>1
    <3> HIDE DEF t, both
    <3> QED BY <1>2, <1>4, <3>1, <3>2, EditClosed
  <2>2. CASE start # end
    <3> DEFINE B == Insert(C, start, before)
    <3>1. both = Insert(B, end + Len(before), after)
      BY <2>2
    <3>2. Started(D, Q, F, B) /\ B.unre.current.entries # <<>>
      <4>1. IsEdit(C, B)
        BY <1>4
      <4> HIDE DEF B
      <4> QED BY <1>2, <4>1, EditClosed
    <3>3. B.buffer \in Seq(Chars) /\ Len(B.buffer) = Len(D.buffer) + Len(before)
      <4>1. B.buffer = Inserted(D.buffer, start, before) /\ start \in 0 .. Len(D.buffer)
        BY <1>2, <1>3 DEF Insert
      <4> DEFINE b == Inserted(D.buffer, start, before)
      <4>2. b \in Seq(Chars) /\ Len(b) = Len(D.buffer) + Len(before)
        BY <1>2, <4>1, InsertedIs
      <4> HIDE DEF B, b
      <4> QED BY <4>1, <4>2 DEF b
    <3> HIDE DEF B, both
    <3>4. end + Len(before) \in 0 .. Len(B.buffer)
      BY <1>3, <3>3
    <3>5. IsEdit(B, both)
      BY <3>1, <3>3, <3>4, InsertIsEdit
    <3> QED BY <3>2, <3>5, EditStarted
  <2> QED BY <2>1, <2>2
<1> HIDE DEF both
<1>6. Shape(both)
  BY <1>5 DEF Started
<1>7. Shape(unmarked) /\ unmarked.buffer = both.buffer /\ unmarked.unre = both.unre
      /\ unmarked.modified = D.modified
  BY <1>2, <1>6, SetModified
<1> HIDE DEF unmarked
<1> DEFINE G == NewGroup(both)
<1>8. Started(D, Q, F, G) /\ Shape(G)
  BY <1>5, NewGroupStarted DEF Started
<1>9. /\ grouped.buffer = G.buffer /\ grouped.unre.current.entries = <<>>
      /\ G.unre.current.entries = <<>> /\ grouped.unre.first = G.unre.first
      /\ grouped.unre.redofirst = G.unre.redofirst /\ Shape(grouped)
  <2>1. /\ both.unre \in [current : Group, first : Seq(Group), redofirst : Seq(Group)]
        /\ both \in [buffer : Seq(Chars), modified : BOOLEAN, unre : Unre]
        /\ unmarked \in [buffer : Seq(Chars), modified : BOOLEAN, unre : Unre]
    BY <1>6, <1>7 DEF Shape, Unre
  <2> DEFINE groups == <<both.unre.current>> \o both.unre.first
             newer == IF Len(groups) > NumUndoLevels THEN Front(groups) ELSE groups
             U(m) == [both.unre EXCEPT !.current = unregroup_new(m), !.first = newer]
  <2>2. doc_unre_new_group(both.unre, both.modified) = U(both.modified)
        /\ doc_unre_new_group(both.unre, D.modified) = U(D.modified)
    <3> HIDE DEF both
    <3> QED BY <1>5 DEF doc_unre_new_group
  <2>3. G.unre = U(both.modified) /\ G.buffer = both.buffer
    BY <2>1, <2>2 DEF NewGroup
  <2>4. grouped.unre = U(D.modified) /\ grouped.buffer = both.buffer
    BY <1>7, <2>1, <2>2 DEF NewGroup
  <2>5. \E R : Trail(both, R, <<both.buffer>>)
    BY <1>5 DEF Started
  <2>6. Shape(grouped)
    <3>1. PICK R : Trail(both, R, <<both.buffer>>)
      BY <2>5
    <3>2. Trail(unmarked, R, <<both.buffer>>)
      BY <1>6, <1>7, <3>1, SameHistory
    <3> QED BY <1>7, <3>2, NewGroupStep
  <2> HIDE DEF newer, groups
  <2>7. ASSUME NEW m PROVE /\ U(m).current.entries = <<>> /\ U(m).first = newer
                           /\ U(m).redofirst = both.unre.redofirst
    BY <2>1 DEF unregroup_new
  <2> HIDE DEF U, grouped, G
  <2> QED BY <2>3, <2>4, <2>6, <2>7
<1> HIDE DEF grouped, G
<1>10. Shape(E) /\ E.buffer = grouped.buffer /\ E.unre = grouped.unre /\ E.modified = TRUE
  BY <1>9, SetModified
<1> HIDE DEF E
<1>11. Result(D, Q, F, G)
  BY <1>8, StartedResult
<1>12. Result(D, Q, F, E)
  BY <1>9, <1>10, <1>11, ResultModified
<1> QED BY <1>1, <1>12

\* Undo goes to the next text behind, redo to the next one ahead.
UndoneTo(D, Q, F, E) ==
    /\ Shape(E) /\ Trail(E, Tail(Q), Cons(Q[2], F)) /\ Len(Behind(E)) = Len(Behind(D)) - 1
    /\ \A d : Honest(D, Q, F, d) => Honest(E, Tail(Q), Cons(Q[2], F), d)

RedoneTo(D, Q, F, E) ==
    /\ Shape(E) /\ Trail(E, Cons(F[2], Q), Tail(F))
    /\ Len(E.unre.redofirst) = Len(D.unre.redofirst) - 1
    /\ \A d : Honest(D, Q, F, d) => Honest(E, Cons(F[2], Q), Tail(F), d)

\* The groups but the first one.
LEMMA TailOfCons == ASSUME NEW S, NEW x \in S, NEW s \in Seq(S) PROVE Tail(Cons(x, s)) = s
<1> DEFINE c == Cons(x, s)
           t == Tail(c)
<1>1. c \in Seq(S) /\ Len(s) \in Nat /\ Len(c) = Len(s) + 1 /\ \A i \in 1 .. Len(s) : c[i + 1] = s[i]
  BY ConsIs
<1> HIDE DEF c
<1>2. c # <<>>
  BY <1>1, EmptySeq
<1>3. t \in Seq(S) /\ Len(t) = Len(c) - 1 /\ \A i \in 1 .. Len(c) - 1 : t[i] = c[i + 1]
  BY <1>1, <1>2, HeadTailProperties
<1> HIDE DEF t
<1>4. Len(t) = Len(s) /\ \A i \in 1 .. Len(t) : t[i] = s[i]
  BY <1>1, <1>3
<1>5. t = s
  BY <1>3, <1>4, SeqEqual
<1> QED BY <1>5 DEF t, c

\* doc_undo, where there is something to undo.
LEMMA UndoStep ==
    ASSUME NEW D, NEW Q, NEW F, Shape(D), Trail(D, Q, F), Behind(D) # <<>>
    PROVE  UndoneTo(D, Q, F, doc_undo(D))
<1> DEFINE E == doc_undo(D)
           groups == Behind(D)
           group == groups[1]
           U == D.unre
           pending == U.current.entries # <<>>
           first == IF pending THEN U.first ELSE Tail(U.first)
<1>1. /\ D.buffer \in Seq(Chars) /\ U.current \in Group /\ U.first \in Seq(Group)
      /\ U.redofirst \in Seq(Group)
  BY ShapeParts
<1>2. groups \in Seq(Group) /\ Back(groups, Q) /\ Q[1] = D.buffer
      /\ Ahead(U.redofirst, F) /\ F[1] = D.buffer
  BY BehindIs DEF Trail
<1>3. group \in Group /\ first = Tail(groups) /\ first \in Seq(Group)
      /\ group = (IF pending THEN U.current ELSE Head(U.first)) /\ ~(~pending /\ U.first = <<>>)
  <2>1. CASE pending
    <3>1. groups = Cons(U.current, U.first)
      BY <2>1, BehindIs DEF Cons
    <3>2. groups[1] = U.current
      BY <2>1, BehindIs
    <3> HIDE DEF groups
    <3>3. Tail(groups) = U.first
      BY <1>1, <3>1, TailOfCons
    <3> QED BY <1>1, <2>1, <3>2, <3>3
  <2>2. CASE ~pending
    <3>1. groups = U.first
      BY <2>2, BehindIs
    <3>2. U.first # <<>>
      BY <3>1
    <3>3. Head(U.first) = U.first[1] /\ U.first[1] \in Group /\ Tail(U.first) \in Seq(Group)
      BY <1>1, <3>2, HeadTailProperties, EmptySeq, ElementOfSeq
    <3> HIDE DEF groups
    <3> QED BY <2>2, <3>1, <3>2, <3>3
  <2> QED BY <2>1, <2>2
<1>4. E = [buffer |-> Undone(D.buffer, group), modified |-> group.changed,
           unre |-> [current |-> [entries |-> <<>>, changed |-> group.changed],
                     first |-> first, redofirst |-> Cons(group, U.redofirst)]]
  BY <1>3, Zenon DEF doc_undo, Cons
<1> HIDE DEF E, first, pending
<1>5. /\ Tail(groups) \in Seq(Group) /\ Back(Tail(groups), Tail(Q)) /\ Tail(Q)[1] = Q[2]
      /\ Spans(group.entries, Q[2], Q[1])
      /\ \A d : BackTo(groups, Q, d) => BackTo(Tail(groups), Tail(Q), d)
  <2> HIDE DEF groups
  <2> QED BY <1>2, BackTail DEF groups
<1> HIDE DEF groups
<1>6. group.entries \in Seq(Entry) /\ group.changed \in BOOLEAN
  BY <1>3 DEF Group
<1> HIDE DEF group
<1>7. Undone(D.buffer, group) = Q[2] /\ Q[2] \in Seq(Chars)
  BY <1>2, <1>5, <1>6, SpansUndone, SpansTexts
<1>8. /\ Cons(group, U.redofirst) \in Seq(Group)
      /\ Ahead(Cons(group, U.redofirst), Cons(Q[2], F)) /\ Cons(Q[2], F)[1] = Q[2]
      /\ \A d : AheadOf(U.redofirst, F, d) /\ (~group.changed => Q[2] = d)
                 => AheadOf(Cons(group, U.redofirst), Cons(Q[2], F), d)
  <2>1. Spans(group.entries, Q[2], F[1])
    BY <1>2, <1>5
  <2> HIDE DEF U
  <2> QED BY <1>1, <1>2, <1>3, <1>7, <2>1, AheadMore
<1>9. /\ E.buffer = Q[2] /\ E.modified = group.changed /\ E.unre.current.entries = <<>>
      /\ E.unre.first = first /\ E.unre.redofirst = Cons(group, U.redofirst)
  BY <1>4, <1>7
<1>10. Shape(E)
  <2>1. [entries |-> <<>>, changed |-> group.changed] \in Group
    BY <1>6 DEF Group
  <2>2. E.unre \in Unre
    BY <1>3, <1>4, <1>8, <2>1 DEF Unre
  <2>3. E \in [buffer : Seq(Chars), modified : BOOLEAN, unre : Unre]
    BY <1>4, <1>6, <1>7, <2>2
  <2> QED BY <1>9, <2>3 DEF Shape
<1>11. Behind(E) = Tail(groups)
  BY <1>3, <1>9, <1>10, BehindIs
<1>12. Trail(E, Tail(Q), Cons(Q[2], F))
  BY <1>5, <1>8, <1>9, <1>11 DEF Trail
<1>13. ASSUME NEW d, Honest(D, Q, F, d) PROVE Honest(E, Tail(Q), Cons(Q[2], F), d)
  <2>1. BackTo(groups, Q, d) /\ AheadOf(U.redofirst, F, d)
    BY <1>13 DEF Honest, groups
  <2>2. ~group.changed => Q[2] = d
    <3>1. 1 \in 1 .. Len(groups) /\ 1 + 1 = 2
      BY <1>2, LenProperties, EmptySeq DEF groups
    <3> QED BY <2>1, <3>1 DEF BackTo, group
  <2>3. BackTo(Behind(E), Tail(Q), d) /\ AheadOf(E.unre.redofirst, Cons(Q[2], F), d)
    BY <1>5, <1>8, <1>9, <1>11, <2>1, <2>2
  <2>4. ~E.modified => E.buffer = d
    BY <1>9, <2>2
  <2> QED BY <2>3, <2>4 DEF Honest
<1>14. Len(Behind(E)) = Len(groups) - 1
  BY <1>2, <1>11, HeadTailProperties DEF groups
<1> QED BY <1>10, <1>12, <1>13, <1>14 DEF UndoneTo, E, groups

\* doc_redo, where there is something to redo.
LEMMA RedoStep ==
    ASSUME NEW D, NEW Q, NEW F, Shape(D), Trail(D, Q, F), D.unre.redofirst # <<>>
    PROVE  RedoneTo(D, Q, F, doc_redo(D))
<1> DEFINE E == doc_redo(D)
           U == D.unre
           group == U.redofirst[1]
           later == Tail(U.redofirst)
           m == IF later = <<>> THEN TRUE ELSE Head(later).changed
<1>1. /\ D.buffer \in Seq(Chars) /\ U.current \in Group /\ U.first \in Seq(Group)
      /\ U.redofirst \in Seq(Group) /\ U \in Unre /\ U.current.entries = <<>>
  BY ShapeParts DEF Shape
<1>2. Behind(D) = U.first /\ Back(U.first, Q) /\ Q[1] = D.buffer
      /\ Ahead(U.redofirst, F) /\ F[1] = D.buffer
  BY <1>1, BehindIs DEF Trail
<1>3. E = [buffer |-> Redone(D.buffer, Head(U.redofirst)), modified |-> m,
           unre |-> [U EXCEPT !.first = Cons(Head(U.redofirst), U.first), !.redofirst = later]]
  BY <1>1 DEF doc_redo, doc_unre_new_group, Cons
<1>4. /\ later \in Seq(Group) /\ Ahead(later, Tail(F)) /\ Tail(F)[1] = F[2]
      /\ group \in Group /\ Head(U.redofirst) = group /\ Spans(group.entries, F[1], F[2])
      /\ \A d : AheadOf(U.redofirst, F, d) => AheadOf(later, Tail(F), d)
  <2> HIDE DEF U
  <2> QED BY <1>1, <1>2, AheadTail DEF U
<1> HIDE DEF E, later, m
<1>5. group.entries \in Seq(Entry) /\ group.changed \in BOOLEAN
  BY <1>4 DEF Group
<1> HIDE DEF group
<1>6. Redone(D.buffer, group) = F[2] /\ F[2] \in Seq(Chars)
  BY <1>2, <1>4, <1>5, SpansRedone, SpansTexts
<1>7. m \in BOOLEAN /\ (~m => later # <<>> /\ ~later[1].changed /\ 1 \in 1 .. Len(later))
  <2>1. CASE later = <<>>
    BY <2>1 DEF m
  <2>2. CASE later # <<>>
    <3>1. Head(later) = later[1] /\ 1 \in 1 .. Len(later) /\ later[1] \in Group
      BY <1>4, <2>2, HeadTailProperties, EmptySeq, ElementOfSeq, LenProperties
    <3>2. later[1].changed \in BOOLEAN
      BY <3>1 DEF Group
    <3> QED BY <2>2, <3>1, <3>2 DEF m
  <2> QED BY <2>1, <2>2
<1>8. /\ Cons(group, U.first) \in Seq(Group)
      /\ Back(Cons(group, U.first), Cons(F[2], Q)) /\ Cons(F[2], Q)[1] = F[2]
      /\ \A d : BackTo(U.first, Q, d) /\ (~group.changed => Q[1] = d)
                 => BackTo(Cons(group, U.first), Cons(F[2], Q), d)
  <2>1. Spans(group.entries, Q[1], F[2])
    BY <1>2, <1>4
  <2> HIDE DEF U
  <2> QED BY <1>1, <1>2, <1>4, <1>6, <2>1, BackMore
<1>9. /\ E.buffer = F[2] /\ E.modified = m /\ E.unre.current.entries = <<>>
      /\ E.unre.first = Cons(group, U.first) /\ E.unre.redofirst = later
  BY <1>1, <1>3, <1>4, <1>6 DEF Unre
<1>10. Shape(E)
  <2>1. E.unre \in Unre
    BY <1>1, <1>3, <1>4, <1>8 DEF Unre
  <2>2. E \in [buffer : Seq(Chars), modified : BOOLEAN, unre : Unre]
    BY <1>3, <1>4, <1>6, <1>7, <2>1
  <2> QED BY <1>9, <2>2 DEF Shape
<1>11. Behind(E) = Cons(group, U.first)
  BY <1>9, <1>10, BehindIs
<1>12. Trail(E, Cons(F[2], Q), Tail(F))
  BY <1>4, <1>8, <1>9, <1>11 DEF Trail
<1>13. ASSUME NEW d, Honest(D, Q, F, d) PROVE Honest(E, Cons(F[2], Q), Tail(F), d)
  <2>1. BackTo(U.first, Q, d) /\ AheadOf(U.redofirst, F, d)
    BY <1>2, <1>13 DEF Honest
  <2>2. ~group.changed => Q[1] = d
    <3>1. 1 \in 1 .. Len(U.redofirst)
      BY <1>1, LenProperties, EmptySeq
    <3> QED BY <1>2, <2>1, <3>1 DEF AheadOf, group
  <2>3. AheadOf(later, Tail(F), d)
    BY <1>4, <2>1
  <2>4. BackTo(Behind(E), Cons(F[2], Q), d) /\ AheadOf(E.unre.redofirst, Tail(F), d)
    BY <1>8, <1>9, <1>11, <2>1, <2>2, <2>3
  <2>5. ~E.modified => E.buffer = d
    BY <1>4, <1>7, <1>9, <2>3 DEF AheadOf
  <2> QED BY <2>4, <2>5 DEF Honest
<1>14. Len(E.unre.redofirst) = Len(U.redofirst) - 1
  BY <1>1, <1>9, HeadTailProperties DEF later
<1> QED BY <1>10, <1>12, <1>13, <1>14 DEF RedoneTo, E

\* From P, with P2 on the other side, n steps were taken to R, with R2 on the other side.
Went(P, P2, R, R2, n) ==
    /\ R \in Seq(Seq(Chars)) /\ R2 \in Seq(Seq(Chars))
    /\ Len(R) = Len(P) - n /\ Len(R2) = Len(P2) + n
    /\ \A i \in 1 .. Len(R) : R[i] = P[i + n]
    /\ \A i \in 1 .. n : R2[i] = P[(n + 2) - i]
    /\ \A i \in 1 .. Len(P2) : R2[i + n] = P2[i]

\* One step more.
LEMMA WentOn ==
    ASSUME NEW P \in Seq(Seq(Chars)), NEW P2 \in Seq(Seq(Chars)), P[1] = P2[1],
           NEW R, NEW R2, NEW n \in Nat, Went(P, P2, R, R2, n), Len(R) >= 2
    PROVE  Went(P, P2, Tail(R), Cons(R[2], R2), n + 1)
<1> DEFINE T == Seq(Chars)
           S == Tail(R)
           S2 == Cons(R[2], R2)
<1>1. /\ Len(P) \in Nat /\ Len(P2) \in Nat /\ R \in Seq(T) /\ R2 \in Seq(T)
      /\ Len(R) \in Nat /\ Len(R) = Len(P) - n /\ Len(R2) = Len(P2) + n
  BY LenProperties DEF Went
<1>2. R # <<>> /\ R[2] \in T
  <2> HIDE DEF T
  <2> QED BY <1>1, EmptySeq, ElementOfSeq
<1> HIDE DEF T
<1>3. S \in Seq(T) /\ Len(S) = Len(R) - 1 /\ \A i \in 1 .. Len(R) - 1 : S[i] = R[i + 1]
  BY <1>1, <1>2, HeadTailProperties
<1>4. /\ S2 \in Seq(T) /\ Len(S2) = Len(R2) + 1 /\ S2[1] = R[2]
      /\ \A i \in 1 .. Len(R2) : S2[i + 1] = R2[i]
  <2> DEFINE x == R[2]
  <2>1. x \in T /\ R2 \in Seq(T)
    BY <1>1, <1>2
  <2> HIDE DEF x
  <2>2. /\ Cons(x, R2) \in Seq(T) /\ Len(Cons(x, R2)) = Len(R2) + 1 /\ Cons(x, R2)[1] = x
        /\ \A i \in 1 .. Len(R2) : Cons(x, R2)[i + 1] = R2[i]
    BY <2>1, ConsIs
  <2> QED BY <2>2 DEF x
<1> HIDE DEF S, S2
<1>5. ASSUME NEW i \in 1 .. Len(S) PROVE S[i] = P[i + (n + 1)]
  <2> DEFINE k == i + 1
  <2>1. k \in 1 .. Len(R) /\ i \in 1 .. Len(R) - 1 /\ k + n = i + (n + 1)
    BY <1>1, <1>3, <1>5
  <2>2. S[i] = R[k]
    BY <1>3, <2>1
  <2> HIDE DEF k
  <2>3. R[k] = P[k + n]
    BY <2>1 DEF Went
  <2> QED BY <2>1, <2>2, <2>3
<1>6. ASSUME NEW i \in 1 .. n + 1 PROVE S2[i] = P[((n + 1) + 2) - i]
  <2>1. CASE i = 1
    <3>1. 2 \in 1 .. Len(R) /\ 2 + n = ((n + 1) + 2) - i
      BY <1>1, <2>1
    <3>2. R[2] = P[2 + n]
      BY <3>1 DEF Went
    <3> QED BY <1>4, <2>1, <3>1, <3>2
  <2>2. CASE i # 1
    <3> DEFINE k == i - 1
    <3>1. k \in 1 .. n /\ k \in 1 .. Len(R2) /\ i = k + 1 /\ (n + 2) - k = ((n + 1) + 2) - i
      BY <1>1, <1>6, <2>2
    <3> HIDE DEF k
    <3>2. S2[i] = R2[k] /\ R2[k] = P[(n + 2) - k]
      BY <1>4, <3>1 DEF Went
    <3> QED BY <3>1, <3>2
  <2> QED BY <2>1, <2>2
<1>7. ASSUME NEW i \in 1 .. Len(P2) PROVE S2[i + (n + 1)] = P2[i]
  <2> DEFINE k == i + n
  <2>1. k \in 1 .. Len(R2) /\ i + (n + 1) = k + 1
    BY <1>1, <1>7, SMTT(60)
  <2>2. R2[k] = P2[i]
    BY <1>7 DEF Went
  <2> HIDE DEF k
  <2> QED BY <1>4, <2>1, <2>2
<1>8. Len(S) = Len(P) - (n + 1) /\ Len(S2) = Len(P2) + (n + 1)
  BY <1>1, <1>3, <1>4
<1>9. Went(P, P2, S, S2, n + 1)
  BY <1>3, <1>4, <1>5, <1>6, <1>7, <1>8 DEF Went, T
<1> QED BY <1>9 DEF S, S2

\* No step.
LEMMA WentNowhere ==
    ASSUME NEW P \in Seq(Seq(Chars)), NEW P2 \in Seq(Seq(Chars))
    PROVE  Went(P, P2, P, P2, 0)
<1>1. Len(P) \in Nat /\ Len(P2) \in Nat
  BY LenProperties
<1>2. Len(P) = Len(P) - 0 /\ Len(P2) = Len(P2) + 0 /\ 1 .. 0 = {}
  BY <1>1
<1>3. \A i \in 1 .. Len(P) : P[i] = P[i + 0]
  BY <1>1
<1>4. \A i \in 1 .. Len(P2) : P2[i + 0] = P2[i]
  BY <1>1
<1> QED BY <1>2, <1>3, <1>4 DEF Went

\* E is D after n times undo, or redo.
WentBack(D, Q, F, E, n) ==
    /\ Shape(E)
    /\ \E R, G : /\ Trail(E, R, G) /\ Went(Q, F, R, G, n)
                 /\ \A d : Honest(D, Q, F, d) => Honest(E, R, G, d)

WentAhead(D, Q, F, E, n) ==
    /\ Shape(E)
    /\ \E R, G : /\ Trail(E, R, G) /\ Went(F, Q, G, R, n)
                 /\ \A d : Honest(D, Q, F, d) => Honest(E, R, G, d)

\* One more doc_undo.
LEMMA WentBackOn ==
    ASSUME NEW D, NEW Q, NEW F, Shape(D), Trail(D, Q, F), NEW E, NEW n \in Nat,
           n < Len(Behind(D)), WentBack(D, Q, F, E, n)
    PROVE  WentBack(D, Q, F, doc_undo(E), n + 1)
<1>1. PICK R, G : /\ Trail(E, R, G) /\ Went(Q, F, R, G, n)
                  /\ \A d : Honest(D, Q, F, d) => Honest(E, R, G, d)
  BY DEF WentBack
<1>2. Shape(E)
  BY DEF WentBack
<1>3. /\ Q \in Seq(Seq(Chars)) /\ F \in Seq(Seq(Chars)) /\ Q[1] = F[1]
      /\ Len(Q) \in Nat /\ Len(Q) = Len(Behind(D)) + 1
  BY TrailTexts
<1>4. Len(R) = Len(Behind(E)) + 1 /\ Len(Behind(E)) \in Nat /\ Len(R) = Len(Q) - n
  BY <1>1, <1>2, TrailTexts, BehindIs DEF Went
<1>5. Len(R) >= 2 /\ Len(Behind(E)) # 0
  BY <1>3, <1>4
<1>6. Behind(E) # <<>>
  BY <1>2, <1>5, BehindIs, EmptySeq
<1> DEFINE C == doc_undo(E)
<1>7. UndoneTo(E, R, G, C)
  BY <1>1, <1>2, <1>6, UndoStep
<1> HIDE DEF C
<1>8. /\ Shape(C) /\ Trail(C, Tail(R), Cons(R[2], G))
      /\ \A d : Honest(E, R, G, d) => Honest(C, Tail(R), Cons(R[2], G), d)
  BY <1>7 DEF UndoneTo
<1>9. Went(Q, F, Tail(R), Cons(R[2], G), n + 1)
  BY <1>1, <1>3, <1>5, WentOn
<1>10. \A d : Honest(D, Q, F, d) => Honest(C, Tail(R), Cons(R[2], G), d)
  BY <1>1, <1>8
<1> QED BY <1>8, <1>9, <1>10 DEF WentBack, C

\* One more doc_redo.
LEMMA WentAheadOn ==
    ASSUME NEW D, NEW Q, NEW F, Shape(D), Trail(D, Q, F), NEW E, NEW n \in Nat,
           n < Len(D.unre.redofirst), WentAhead(D, Q, F, E, n)
    PROVE  WentAhead(D, Q, F, doc_redo(E), n + 1)
<1>1. PICK R, G : /\ Trail(E, R, G) /\ Went(F, Q, G, R, n)
                  /\ \A d : Honest(D, Q, F, d) => Honest(E, R, G, d)
  BY DEF WentAhead
<1>2. Shape(E)
  BY DEF WentAhead
<1>3. /\ Q \in Seq(Seq(Chars)) /\ F \in Seq(Seq(Chars)) /\ Q[1] = F[1]
      /\ Len(F) \in Nat /\ Len(F) = Len(D.unre.redofirst) + 1 /\ Len(D.unre.redofirst) \in Nat
  BY TrailTexts, ShapeParts, LenProperties
<1>4. Len(G) = Len(E.unre.redofirst) + 1 /\ Len(E.unre.redofirst) \in Nat /\ Len(G) = Len(F) - n
  BY <1>1, <1>2, TrailTexts, ShapeParts, LenProperties DEF Went
<1> DEFINE f == Len(F)
           g == Len(G)
           a == Len(D.unre.redofirst)
           e == Len(E.unre.redofirst)
<1>0. /\ f \in Nat /\ a \in Nat /\ e \in Nat /\ f = a + 1
      /\ g = e + 1 /\ g = f - n /\ n < a
  BY <1>3, <1>4
<1>5. Len(G) >= 2 /\ Len(E.unre.redofirst) # 0
  <2> HIDE DEF f, g, a, e
  <2>1. g >= 2 /\ e # 0
    BY <1>0
  <2> QED BY <2>1 DEF g, e
<1> HIDE DEF f, g, a, e
<1>6. E.unre.redofirst # <<>>
  BY <1>2, <1>5, ShapeParts, EmptySeq
<1> DEFINE C == doc_redo(E)
<1>7. RedoneTo(E, R, G, C)
  BY <1>1, <1>2, <1>6, RedoStep
<1> HIDE DEF C
<1>8. /\ Shape(C) /\ Trail(C, Cons(G[2], R), Tail(G))
      /\ \A d : Honest(E, R, G, d) => Honest(C, Cons(G[2], R), Tail(G), d)
  BY <1>7 DEF RedoneTo
<1>9. Went(F, Q, Tail(G), Cons(G[2], R), n + 1)
  BY <1>1, <1>3, <1>5, WentOn
<1>10. \A d : Honest(D, Q, F, d) => Honest(C, Cons(G[2], R), Tail(G), d)
  BY <1>1, <1>8
<1> QED BY <1>8, <1>9, <1>10 DEF WentAhead, C

\* Undo, n times.
LEMMA RepeatWentBack ==
    ASSUME NEW D, NEW Q, NEW F, Shape(D), Trail(D, Q, F), NEW n \in Nat, n <= Len(Behind(D))
    PROVE  WentBack(D, Q, F, Repeat(doc_undo, D, n), n)
<1> DEFINE Is(f, m) == f = [i \in 0 .. m |-> IF i = 0 THEN D ELSE doc_undo(f[i - 1])]
           A == {m \in Nat : \E f : Is(f, m)}
           after == CHOOSE f : Is(f, n)
<1>1. Repeat(doc_undo, D, n) = after[n]
  BY DEF Repeat
<1>2. 0 \in A
  <2>1. Is([i \in 0 .. 0 |-> D], 0)
    OBVIOUS
  <2> HIDE DEF Is
  <2> QED BY <2>1
<1>3. ASSUME NEW m \in Nat, m \in A PROVE m + 1 \in A
  <2>1. PICK f : Is(f, m)
    BY <1>3
  <2>2. \A i \in 0 .. m : f[i] = IF i = 0 THEN D ELSE doc_undo(f[i - 1])
    BY <2>1
  <2> DEFINE g == [i \in 0 .. m + 1 |-> IF i = m + 1 THEN doc_undo(f[m]) ELSE f[i]]
  <2>3. ASSUME NEW i \in 0 .. m + 1 PROVE g[i] = IF i = 0 THEN D ELSE doc_undo(g[i - 1])
    <3>1. CASE i = m + 1
      <4>1. g[i] = doc_undo(f[m]) /\ i # 0 /\ i - 1 = m /\ m \in 0 .. m + 1 /\ m # m + 1
        BY <3>1
      <4>2. g[m] = f[m]
        BY <4>1
      <4> HIDE DEF g
      <4> QED BY <4>1, <4>2
    <3>2. CASE i # m + 1
      <4>1. i \in 0 .. m /\ g[i] = f[i] /\ (i # 0 => i - 1 \in 0 .. m + 1 /\ i - 1 # m + 1)
        BY <2>3, <3>2
      <4>2. i # 0 => g[i - 1] = f[i - 1]
        BY <4>1
      <4> HIDE DEF g
      <4> QED BY <2>2, <4>1, <4>2
    <3> QED BY <3>1, <3>2
  <2>4. g = [i \in 0 .. m + 1 |-> g[i]]
    OBVIOUS
  <2> HIDE DEF g
  <2>5. Is(g, m + 1)
    <3>1. [i \in 0 .. m + 1 |-> g[i]] = [i \in 0 .. m + 1 |-> IF i = 0 THEN D ELSE doc_undo(g[i - 1])]
      BY <2>3
    <3> QED BY <2>4, <3>1
  <2> HIDE DEF Is
  <2> QED BY <2>5
<1>4. Is(after, n)
  <2> HIDE DEF Is
  <2>1. n \in A
    <3> HIDE DEF A
    <3> QED BY <1>2, <1>3, Induction
  <2> QED BY <2>1
<1>5. \A i \in 0 .. n : after[i] = IF i = 0 THEN D ELSE doc_undo(after[i - 1])
  BY <1>4
<1> HIDE DEF after, A, Is
<1> DEFINE B == {m \in Nat : m <= n => WentBack(D, Q, F, after[m], m)}
<1>6. 0 \in B
  <2>1. after[0] = D
    BY <1>5
  <2>2. Q \in Seq(Seq(Chars)) /\ F \in Seq(Seq(Chars))
    BY TrailTexts
  <2>3. Went(Q, F, Q, F, 0) /\ Went(F, Q, F, Q, 0)
    BY <2>2, WentNowhere
  <2>4. WentBack(D, Q, F, D, 0)
    BY <2>3 DEF WentBack
  <2> QED BY <2>1, <2>4
<1>7. ASSUME NEW m \in Nat, m \in B PROVE m + 1 \in B
  <2>1. CASE m + 1 <= n
    <3>1. after[m + 1] = doc_undo(after[m])
      BY <1>5, <2>1
    <3>2. m < Len(Behind(D)) /\ WentBack(D, Q, F, after[m], m)
      <4>1. Len(Behind(D)) \in Nat
        BY BehindIs, ShapeParts, LenProperties
      <4> QED BY <1>7, <2>1, <4>1
    <3>3. WentBack(D, Q, F, doc_undo(after[m]), m + 1)
      BY <3>2, WentBackOn
    <3> QED BY <3>1, <3>3
  <2> QED BY <2>1
<1>8. n \in B
  <2> HIDE DEF B
  <2> QED BY <1>6, <1>7, Induction
<1> QED BY <1>1, <1>8

\* Redo, n times.
LEMMA RepeatWentAhead ==
    ASSUME NEW D, NEW Q, NEW F, Shape(D), Trail(D, Q, F), NEW n \in Nat, n <= Len(D.unre.redofirst)
    PROVE  WentAhead(D, Q, F, Repeat(doc_redo, D, n), n)
<1> DEFINE Is(f, m) == f = [i \in 0 .. m |-> IF i = 0 THEN D ELSE doc_redo(f[i - 1])]
           A == {m \in Nat : \E f : Is(f, m)}
           after == CHOOSE f : Is(f, n)
<1>1. Repeat(doc_redo, D, n) = after[n]
  BY DEF Repeat
<1>2. 0 \in A
  <2>1. Is([i \in 0 .. 0 |-> D], 0)
    OBVIOUS
  <2> HIDE DEF Is
  <2> QED BY <2>1
<1>3. ASSUME NEW m \in Nat, m \in A PROVE m + 1 \in A
  <2>1. PICK f : Is(f, m)
    BY <1>3
  <2>2. \A i \in 0 .. m : f[i] = IF i = 0 THEN D ELSE doc_redo(f[i - 1])
    BY <2>1
  <2> DEFINE g == [i \in 0 .. m + 1 |-> IF i = m + 1 THEN doc_redo(f[m]) ELSE f[i]]
  <2>3. ASSUME NEW i \in 0 .. m + 1 PROVE g[i] = IF i = 0 THEN D ELSE doc_redo(g[i - 1])
    <3>1. CASE i = m + 1
      <4>1. g[i] = doc_redo(f[m]) /\ i # 0 /\ i - 1 = m /\ m \in 0 .. m + 1 /\ m # m + 1
        BY <3>1
      <4>2. g[m] = f[m]
        BY <4>1
      <4> HIDE DEF g
      <4> QED BY <4>1, <4>2
    <3>2. CASE i # m + 1
      <4>1. i \in 0 .. m /\ g[i] = f[i] /\ (i # 0 => i - 1 \in 0 .. m + 1 /\ i - 1 # m + 1)
        BY <2>3, <3>2
      <4>2. i # 0 => g[i - 1] = f[i - 1]
        BY <4>1
      <4> HIDE DEF g
      <4> QED BY <2>2, <4>1, <4>2
    <3> QED BY <3>1, <3>2
  <2>4. g = [i \in 0 .. m + 1 |-> g[i]]
    OBVIOUS
  <2> HIDE DEF g
  <2>5. Is(g, m + 1)
    <3>1. [i \in 0 .. m + 1 |-> g[i]] = [i \in 0 .. m + 1 |-> IF i = 0 THEN D ELSE doc_redo(g[i - 1])]
      BY <2>3
    <3> QED BY <2>4, <3>1
  <2> HIDE DEF Is
  <2> QED BY <2>5
<1>4. Is(after, n)
  <2> HIDE DEF Is
  <2>1. n \in A
    <3> HIDE DEF A
    <3> QED BY <1>2, <1>3, Induction
  <2> QED BY <2>1
<1>5. \A i \in 0 .. n : after[i] = IF i = 0 THEN D ELSE doc_redo(after[i - 1])
  BY <1>4
<1> HIDE DEF after, A, Is
<1> DEFINE B == {m \in Nat : m <= n => WentAhead(D, Q, F, after[m], m)}
<1>6. 0 \in B
  <2>1. after[0] = D
    BY <1>5
  <2>2. Q \in Seq(Seq(Chars)) /\ F \in Seq(Seq(Chars))
    BY TrailTexts
  <2>3. Went(Q, F, Q, F, 0) /\ Went(F, Q, F, Q, 0)
    BY <2>2, WentNowhere
  <2>4. WentAhead(D, Q, F, D, 0)
    BY <2>3 DEF WentAhead
  <2> QED BY <2>1, <2>4
<1>7. ASSUME NEW m \in Nat, m \in B PROVE m + 1 \in B
  <2>1. CASE m + 1 <= n
    <3>1. after[m + 1] = doc_redo(after[m])
      BY <1>5, <2>1
    <3>2. m < Len(D.unre.redofirst) /\ WentAhead(D, Q, F, after[m], m)
      <4>1. Len(D.unre.redofirst) \in Nat
        BY BehindIs, ShapeParts, LenProperties
      <4> QED BY <1>7, <2>1, <4>1
    <3>3. WentAhead(D, Q, F, doc_redo(after[m]), m + 1)
      BY <3>2, WentAheadOn
    <3> QED BY <3>1, <3>3
  <2> QED BY <2>1
<1>8. n \in B
  <2> HIDE DEF B
  <2> QED BY <1>6, <1>7, Induction
<1> QED BY <1>1, <1>8

\* A closed group leaves the rest of the document alone.
LEMMA NewGroupUnre ==
    ASSUME NEW D, Shape(D)
    PROVE  NewGroup(D).unre = doc_unre_new_group(D.unre, D.modified)
BY DEF NewGroup, Shape

\* All of it, as far as there is a closed group.
LEMMA UndoAllWent ==
    ASSUME NEW D, NEW Q, NEW F, Shape(D), Trail(D, Q, F)
    PROVE  \E n \in Nat : n <= Len(Behind(D)) /\ WentBack(D, Q, F, undo_all(D), n)
<1> DEFINE n == IF D.unre.first = <<>> THEN 0
                ELSE Len(D.unre.first) + (IF D.unre.current.entries = <<>> THEN 0 ELSE 1)
<1>1. undo_all(D) = Repeat(doc_undo, D, n)
  BY DEF undo_all
<1>2. n \in Nat /\ n <= Len(Behind(D))
  <2>1. /\ Len(D.unre.first) \in Nat /\ Len(Behind(D)) \in Nat
        /\ D.unre.current.entries = <<>> => Behind(D) = D.unre.first
        /\ D.unre.current.entries # <<>> => Len(Behind(D)) = Len(D.unre.first) + 1
    BY BehindIs
  <2>2. CASE D.unre.current.entries = <<>>
    <3>1. n = 0 \/ n = Len(D.unre.first)
      BY <2>1, <2>2
    <3> HIDE DEF n
    <3> QED BY <2>1, <2>2, <3>1
  <2>3. CASE D.unre.current.entries # <<>>
    <3>1. n = 0 \/ n = Len(D.unre.first) + 1
      BY <2>1, <2>3
    <3> HIDE DEF n
    <3> QED BY <2>1, <2>3, <3>1
  <2> QED BY <2>2, <2>3
<1> HIDE DEF n
<1>3. WentBack(D, Q, F, Repeat(doc_undo, D, n), n)
  BY <1>2, RepeatWentBack
<1> QED BY <1>1, <1>2, <1>3

\* All that was undone, again.
LEMMA RedoAllWent ==
    ASSUME NEW D, NEW Q, NEW F, Shape(D), Trail(D, Q, F)
    PROVE  \E n \in Nat : n <= Len(D.unre.redofirst) /\ WentAhead(D, Q, F, redo_all(D), n)
<1> DEFINE n == Len(D.unre.redofirst)
<1>1. redo_all(D) = Repeat(doc_redo, D, n)
  BY DEF redo_all
<1>2. n \in Nat
  BY ShapeParts, LenProperties
<1>3. WentAhead(D, Q, F, Repeat(doc_redo, D, n), n)
  BY <1>2, RepeatWentAhead
<1> QED BY <1>1, <1>2, <1>3

\* One change, or none.
LEMMA UndoWent ==
    ASSUME NEW D, NEW Q, NEW F, Shape(D), Trail(D, Q, F)
    PROVE  \E n \in Nat : n <= Len(Behind(D)) /\ WentBack(D, Q, F, doc_undo(D), n)
<1>1. Q \in Seq(Seq(Chars)) /\ F \in Seq(Seq(Chars)) /\ Len(Behind(D)) \in Nat
  BY TrailTexts, BehindIs
<1>2. WentBack(D, Q, F, D, 0)
  BY <1>1, WentNowhere DEF WentBack
<1>3. CASE Behind(D) = <<>>
  <2>1. D.unre.current.entries = <<>>
    <3>1. Len(Behind(D)) = 0
      BY <1>3, EmptySeq
    <3>2. D.unre.current.entries # <<>> => Len(Behind(D)) = Len(D.unre.first) + 1 /\ Len(D.unre.first) \in Nat
      BY BehindIs
    <3> QED BY <3>1, <3>2
  <2>3. D.unre.first = <<>>
    BY <1>3, <2>1, BehindIs
  <2>2. doc_undo(D) = D
    BY <2>1, <2>3, Zenon DEF doc_undo
  <2> QED BY <1>1, <1>2, <2>2
<1>4. CASE Behind(D) # <<>>
  <2>1. 0 < Len(Behind(D))
    BY <1>1, <1>4, BehindIs, EmptySeq
  <2>2. WentBack(D, Q, F, doc_undo(D), 0 + 1)
    BY <1>2, <2>1, WentBackOn
  <2> QED BY <1>1, <2>1, <2>2
<1> QED BY <1>3, <1>4

\* The same ahead.
LEMMA RedoWent ==
    ASSUME NEW D, NEW Q, NEW F, Shape(D), Trail(D, Q, F)
    PROVE  \E n \in Nat : n <= Len(D.unre.redofirst) /\ WentAhead(D, Q, F, doc_redo(D), n)
<1>1. Q \in Seq(Seq(Chars)) /\ F \in Seq(Seq(Chars)) /\ Len(D.unre.redofirst) \in Nat
      /\ D.unre.redofirst \in Seq(Group)
  BY TrailTexts, ShapeParts, LenProperties
<1>2. WentAhead(D, Q, F, D, 0)
  BY <1>1, WentNowhere DEF WentAhead
<1>3. CASE D.unre.redofirst = <<>>
  <2>1. doc_redo(D) = D
    <3> DEFINE U == doc_unre_new_group(D.unre, D.modified)
               later == Tail(U.redofirst)
               group == Head(U.redofirst)
               done == [buffer |-> Redone(D.buffer, group),
                        modified |-> IF later = <<>> THEN TRUE ELSE Head(later).changed,
                        unre |-> [U EXCEPT !.first = <<group>> \o @, !.redofirst = later]]
    <3>1. doc_redo(D) = IF U.redofirst = <<>> THEN D ELSE done
      BY DEF doc_redo
    <3>2. U.redofirst = D.unre.redofirst
      <4>1. D.unre.redofirst = NewGroup(D).unre.redofirst
        BY NewGroupStep
      <4>2. NewGroup(D).unre = U
        BY NewGroupUnre
      <4> QED BY <4>1, <4>2
    <3> HIDE DEF done, U
    <3> QED BY <1>3, <3>1, <3>2
  <2> QED BY <1>1, <1>2, <2>1
<1>4. CASE D.unre.redofirst # <<>>
  <2>1. 0 < Len(D.unre.redofirst)
    BY <1>1, <1>4, EmptySeq
  <2>2. WentAhead(D, Q, F, doc_redo(D), 0 + 1)
    BY <1>2, <2>1, WentAheadOn
  <2> QED BY <1>1, <2>1, <2>2
<1> QED BY <1>3, <1>4

-----------------------------------------------------------------------------

\* The document has a history: texts Q behind it and F ahead of it that its
\* groups lead to, and that are the saved text wherever a flag says so.
Kept(Q, F) == Trail(Doc, Q, F) /\ (met = {} => Honest(Doc, Q, F, disk))

\* How one step takes the history Q, F to R, G, with the text c.
Moves(Q, F, R, G, c) ==
    \/ Forgets(Q, R) /\ G = F /\ R[1] = Q[1]
    \/ (Starts(Q, R) \/ Continues(Q, R)) /\ G = <<c>>
    \/ \E n \in Nat : Went(Q, F, R, G, n)
    \/ \E n \in Nat : Went(F, Q, G, R, n)
    \/ R = <<c>> /\ G = <<c>> /\ c = Q[1]

Sound == Shape(Doc) /\ disk \in Seq(Chars) /\ mix \in Mixes /\ met \subseteq Situations

IInv == Sound /\ \E Q, F : Kept(Q, F)

\* A step that gives the document D with the history R, G.
LEMMA DocStep ==
    ASSUME Sound, NEW D, Doc' = D, Shape(D), disk' \in Seq(Chars), mix' = mix, met' \subseteq Situations,
           NEW R, NEW G, Trail(D, R, G), met' = {} => Honest(D, R, G, disk')
    PROVE  Sound' /\ Kept(R, G)'
BY DEF Sound, Kept

\* Become takes the document to D.
LEMMA BecomeDoc ==
    ASSUME NEW D, Shape(D), Become(D)
    PROVE  Doc' = D /\ buffer' = D.buffer /\ disk' = disk /\ mix' = mix
<1>1. buffer' = D.buffer /\ modified' = D.modified /\ unre' = D.unre /\ disk' = disk /\ mix' = mix
  BY DEF Become
<1>2. D = [buffer |-> D.buffer, modified |-> D.modified, unre |-> D.unre]
  BY DEF Shape
<1> QED BY <1>1, <1>2 DEF Doc

\* Where a step takes the history of a document.
Stepped(Q, F) == Sound' /\ \E R, G : Kept(R, G)' /\ Moves(Q, F, R, G, buffer')

\* An operation that edits.
LEMMA ChangedStep ==
    ASSUME Sound, NEW Q, NEW F, Kept(Q, F), NEW D, Changed(D), Result(Doc, Q, F, D)
    PROVE  Stepped(Q, F)
<1>1. Shape(D)
  BY DEF Result
<1>2. PICK R, G : /\ Trail(D, R, G)
                  /\ \/ Forgets(Q, R) /\ G = F
                     \/ (Starts(Q, R) \/ Continues(Q, R)) /\ G = <<D.buffer>>
                  /\ \A d : Honest(Doc, Q, F, d) /\ InStep(Doc) => Honest(D, R, G, d)
  BY DEF Result
<1>3. Doc' = D /\ buffer' = D.buffer /\ disk' = disk /\ mix' = mix
  BY <1>1, BecomeDoc DEF Changed
<1>4. met' = met \union (IF FlagBehind /\ D # Doc THEN {"flag behind"} ELSE {})
  BY DEF Changed
<1>5. disk \in Seq(Chars) /\ met \subseteq Situations /\ Shape(Doc)
  BY DEF Sound
<1>6. met' \subseteq Situations
  BY <1>4, <1>5 DEF Situations
<1>7. Trail(Doc, Q, F) /\ (met = {} => Honest(Doc, Q, F, disk))
  BY DEF Kept
<1>8. CASE D = Doc
  <2>1. met' = met
    BY <1>4, <1>8
  <2>2. Sound' /\ Kept(Q, F)'
    BY <1>1, <1>3, <1>5, <1>6, <1>7, <1>8, <2>1, DocStep
  <2>3. Moves(Q, F, Q, F, buffer')
    <3>1. Q \in Seq(Seq(Chars)) /\ F \in Seq(Seq(Chars))
      BY <1>5, <1>7, TrailTexts
    <3>2. Went(Q, F, Q, F, 0)
      BY <3>1, WentNowhere
    <3> QED BY <3>2 DEF Moves
  <2> QED BY <2>2, <2>3 DEF Stepped
<1>9. CASE D # Doc
  <2>1. met' = {} => met = {} /\ InStep(Doc)
    BY <1>4, <1>9 DEF FlagBehind, InStep, Doc
  <2>2. met' = {} => Honest(D, R, G, disk)
    BY <1>2, <1>7, <2>1
  <2>3. Sound' /\ Kept(R, G)'
    BY <1>1, <1>2, <1>3, <1>5, <1>6, <2>2, DocStep
  <2>4. Moves(Q, F, R, G, buffer')
    <3>1. CASE Forgets(Q, R) /\ G = F
      <4>1. R[1] = Q[1]
        BY <3>1 DEF Forgets
      <4> QED BY <3>1, <4>1 DEF Moves
    <3>2. CASE (Starts(Q, R) \/ Continues(Q, R)) /\ G = <<D.buffer>>
      BY <1>3, <3>2 DEF Moves
    <3> QED BY <1>2, <3>1, <3>2
  <2> QED BY <2>3, <2>4 DEF Stepped
<1> QED BY <1>8, <1>9

\* Undo and redo.
LEMMA BackStep ==
    ASSUME Sound, NEW Q, NEW F, Kept(Q, F), NEW D, Become(D), UNCHANGED met,
           NEW n \in Nat, WentBack(Doc, Q, F, D, n) \/ WentAhead(Doc, Q, F, D, n)
    PROVE  Stepped(Q, F)
<1>1. PICK R, G : /\ Trail(D, R, G) /\ (Went(Q, F, R, G, n) \/ Went(F, Q, G, R, n))
                  /\ \A d : Honest(Doc, Q, F, d) => Honest(D, R, G, d)
  BY DEF WentBack, WentAhead
<1>2. Shape(D)
  BY DEF WentBack, WentAhead
<1>3. Doc' = D /\ buffer' = D.buffer /\ disk' = disk /\ mix' = mix
  BY <1>2, BecomeDoc
<1>4. disk \in Seq(Chars) /\ met \subseteq Situations /\ met' = met
  BY DEF Sound
<1>5. met = {} => Honest(Doc, Q, F, disk)
  BY DEF Kept
<1>6. Sound' /\ Kept(R, G)'
  BY <1>1, <1>2, <1>3, <1>4, <1>5, DocStep
<1>7. Moves(Q, F, R, G, buffer')
  BY <1>1 DEF Moves
<1> QED BY <1>6, <1>7 DEF Stepped

\* A selection lies in the text.
LEMMA Selected ==
    ASSUME Sound, NEW r \in Selections
    PROVE  r[1] \in 0 .. r[2] /\ r[2] \in 0 .. Len(Doc.buffer)
<1>1. mix \in Mixes /\ MaxLen \in Nat
  BY MixesAssumption DEF Sound, MaxLen
<1>2. buffer \in Seq(Chars) /\ Doc.buffer = buffer
  BY ShapeParts DEF Sound, Doc
<1>3. Len(buffer) \in Nat
  BY <1>2, LenProperties
<1>4. r[1] \in 0 .. MaxLen /\ r[2] \in 0 .. MaxLen /\ r[1] <= r[2] /\ r[2] <= Len(buffer)
  BY DEF Selections
<1> HIDE DEF MaxLen
<1> QED BY <1>1, <1>2, <1>3, <1>4

\* The operations that edit,
LEMMA EditsStep ==
    ASSUME Sound, NEW Q, NEW F, Kept(Q, F),
           Type \/ DeleteRange \/ Cut \/ Paste \/ Replace \/ InsertTwoStrings
    PROVE  Stepped(Q, F)
<1>1. Shape(Doc) /\ Trail(Doc, Q, F)
  BY DEF Sound, Kept
<1>2. \A t \in Snippets \union {<<>>} : t \in Seq(Chars)
  BY CharsAssumption, EmptySeq
<1>3. CASE Type
  <2>1. PICK r \in Selections, t \in Snippets :
          r[1] = r[2] /\ Changed(doc_buffer_insert_text_lcb(Doc, r[1], t))
    BY <1>3 DEF Type
  <2>2. Result(Doc, Q, F, doc_buffer_insert_text_lcb(Doc, r[1], t))
    <3>1. r[1] \in 0 .. Len(Doc.buffer) /\ t \in Seq(Chars)
      BY <1>2, <2>1, Selected
    <3> QED BY <1>1, <3>1, TypeResult
  <2> QED BY <2>1, <2>2, ChangedStep
<1>4. CASE DeleteRange
  <2>1. PICK r \in Selections :
          r[1] < r[2] /\ Changed(doc_buffer_delete_range_lcb(Doc, r[1], r[2]))
    BY <1>4 DEF DeleteRange
  <2>2. Result(Doc, Q, F, doc_buffer_delete_range_lcb(Doc, r[1], r[2]))
    <3>1. r[1] \in 0 .. r[2] /\ r[2] \in 0 .. Len(Doc.buffer) /\ Len(Doc.buffer) \in Nat
      BY <1>1, <2>1, Selected, ShapeParts, LenProperties
    <3>2. r[2] \in 1 .. Len(Doc.buffer) /\ r[1] \in 0 .. r[2] - 1
      BY <2>1, <3>1
    <3> QED BY <1>1, <3>2, DeleteResult
  <2> QED BY <2>1, <2>2, ChangedStep
<1>5. CASE Cut
  <2>1. PICK r \in Selections : Changed(doc_cut(Doc, r[1], r[2]))
    BY <1>5 DEF Cut
  <2>2. Result(Doc, Q, F, doc_cut(Doc, r[1], r[2]))
    BY <1>1, <2>1, Selected, CutResult
  <2> QED BY <2>1, <2>2, ChangedStep
<1>6. CASE Paste
  <2>1. PICK r \in Selections, t \in Snippets : Changed(doc_paste(Doc, r[1], r[2], t))
    BY <1>6 DEF Paste
  <2>2. Result(Doc, Q, F, doc_paste(Doc, r[1], r[2], t))
    BY <1>1, <1>2, <2>1, Selected, PasteResult
  <2> QED BY <2>1, <2>2, ChangedStep
<1>7. CASE Replace
  <2>1. PICK r \in Selections, t \in Snippets \union {<<>>} :
          Changed(doc_replace_text(Doc, t, r[1], r[2]))
    BY <1>7 DEF Replace
  <2>2. Result(Doc, Q, F, doc_replace_text(Doc, t, r[1], r[2]))
    BY <1>1, <1>2, <2>1, Selected, ReplaceResult
  <2> QED BY <2>1, <2>2, ChangedStep
<1>8. CASE InsertTwoStrings
  <2>1. PICK r \in Selections, c, d \in Chars :
          Changed(doc_insert_two_strings(Doc, <<c>>, <<d>>, r[1], r[2]))
    BY <1>8 DEF InsertTwoStrings
  <2>2. Result(Doc, Q, F, doc_insert_two_strings(Doc, <<c>>, <<d>>, r[1], r[2]))
    <3>1. <<c>> \in Seq(Chars) /\ <<d>> \in Seq(Chars)
      BY <2>1
    <3> QED BY <1>1, <2>1, <3>1, Selected, TwoStringsResult
  <2> QED BY <2>1, <2>2, ChangedStep
<1> QED BY <1>3, <1>4, <1>5, <1>6, <1>7, <1>8

\* those that replay,
LEMMA ReplayStep ==
    ASSUME Sound, NEW Q, NEW F, Kept(Q, F), Undo \/ Redo \/ UndoAll \/ RedoAll
    PROVE  Stepped(Q, F)
<1>1. Shape(Doc) /\ Trail(Doc, Q, F)
  BY DEF Sound, Kept
<1>2. CASE Undo
  <2>1. PICK n \in Nat : WentBack(Doc, Q, F, doc_undo(Doc), n)
    BY <1>1, UndoWent
  <2> QED BY <1>2, <2>1, BackStep DEF Undo
<1>3. CASE Redo
  <2>1. PICK n \in Nat : WentAhead(Doc, Q, F, doc_redo(Doc), n)
    BY <1>1, RedoWent
  <2> QED BY <1>3, <2>1, BackStep DEF Redo
<1>4. CASE UndoAll
  <2>1. PICK n \in Nat : WentBack(Doc, Q, F, undo_all(Doc), n)
    BY <1>1, UndoAllWent
  <2> QED BY <1>4, <2>1, BackStep DEF UndoAll
<1>5. CASE RedoAll
  <2>1. PICK n \in Nat : WentAhead(Doc, Q, F, redo_all(Doc), n)
    BY <1>1, RedoAllWent
  <2> QED BY <1>5, <2>1, BackStep DEF RedoAll
<1> QED BY <1>2, <1>3, <1>4, <1>5

\* A document without groups.
LEMMA Emptied ==
    ASSUME NEW b \in Seq(Chars), NEW m \in BOOLEAN, NEW D,
           D = [buffer |-> b, modified |-> FALSE, unre |-> doc_unre_init(m)]
    PROVE  Shape(D) /\ Trail(D, <<b>>, <<b>>) /\ Honest(D, <<b>>, <<b>>, b)
<1>1. /\ D.buffer = b /\ D.modified = FALSE /\ D.unre.current.entries = <<>>
      /\ D.unre.first = <<>> /\ D.unre.redofirst = <<>>
      /\ D \in [buffer : Seq(Chars), modified : BOOLEAN, unre : Unre]
  <2>1. <<>> \in Seq(Entry) /\ <<>> \in Seq(Group)
    BY EmptySeq
  <2> QED BY <2>1 DEF doc_unre_init, unregroup_new, Unre, Group
<1>2. Shape(D)
  BY <1>1 DEF Shape
<1>3. Behind(D) = <<>>
  BY <1>1, <1>2, BehindIs
<1>4. /\ <<b>> \in Seq(Seq(Chars)) /\ Len(<<b>>) = 1 /\ <<b>>[1] = b
      /\ \A i \in 1 .. 0 : FALSE
  OBVIOUS
<1>5. Len(<<>>) = 0
  BY EmptySeq
<1>6. Trail(D, <<b>>, <<b>>)
  <2> DEFINE Q == <<b>>
             none == <<>>
  <2>1. Q \in Seq(Seq(Chars)) /\ Len(Q) = 0 + 1 /\ Q[1] = b /\ Len(none) = 0
    BY <1>4, <1>5
  <2>2. Behind(D) = none /\ D.unre.redofirst = none
    BY <1>1, <1>3
  <2> HIDE DEF Q, none
  <2>3. Back(none, Q) /\ Ahead(none, Q)
    BY <2>1 DEF Back, Ahead
  <2>4. Trail(D, Q, Q)
    BY <1>1, <2>1, <2>2, <2>3 DEF Trail
  <2> QED BY <2>4 DEF Q
<1>7. Honest(D, <<b>>, <<b>>, b)
  BY <1>1, <1>3, <1>4, <1>5 DEF Honest, BackTo, AheadOf
<1> QED BY <1>2, <1>6, <1>7

\* A group with another flag.
LEMMA SetChanged ==
    ASSUME NEW e, NEW c, NEW d
    PROVE  [[entries |-> e, changed |-> c] EXCEPT !.changed = d] = [entries |-> e, changed |-> d]
<1> DEFINE g == [entries |-> e, changed |-> c]
           h == [g EXCEPT !.changed = d]
<1>1. g \in [entries : {e}, changed : {c, d}]
  OBVIOUS
<1> HIDE DEF g
<1>2. h \in [entries : {e}, changed : {c, d}] /\ h.entries = g.entries /\ h.changed = d
  BY <1>1
<1> HIDE DEF h
<1>3. h = [entries |-> h.entries, changed |-> h.changed] /\ h.entries = e
  BY <1>2
<1> QED BY <1>2, <1>3 DEF h, g

\* The groups of a document after a save: the closed ones say that undoing them
\* leads away from the saved text.
Saved(D) == [D EXCEPT !.modified = FALSE, !.unre = doc_unre_clear_not_modified(@)]

\* A save leaves the history as it is, and what it marks is true of it when the group
\* is empty and nothing can be redone.
LEMMA SavedStep ==
    ASSUME NEW D, NEW Q, NEW F, Shape(D), Trail(D, Q, F)
    PROVE  /\ Shape(Saved(D)) /\ Trail(Saved(D), Q, F)
           /\ D.unre.current.entries = <<>> /\ D.unre.redofirst = <<>>
                => Honest(Saved(D), Q, F, D.buffer)
<1> DEFINE E == Saved(D)
           U == D.unre
           was == U.first
           now == [i \in DOMAIN was |-> [was[i] EXCEPT !.changed = TRUE]]
<1>1. /\ D.buffer \in Seq(Chars) /\ U \in Unre /\ U.current \in Group /\ was \in Seq(Group)
      /\ U.redofirst \in Seq(Group) /\ U.current.entries \in Seq(Entry)
  BY ShapeParts
<1>2. Len(was) \in Nat /\ DOMAIN was = 1 .. Len(was) /\ \A i \in 1 .. Len(was) : was[i] \in Group
  BY <1>1, LenProperties, ElementOfSeq
<1>3. /\ E.buffer = D.buffer /\ E.modified = FALSE /\ E.unre.first = now
      /\ E.unre.redofirst = U.redofirst
      /\ E.unre.current = [entries |-> U.current.entries, changed |-> FALSE]
      /\ E = [buffer |-> E.buffer, modified |-> E.modified, unre |-> E.unre]
      /\ E.unre = [current |-> E.unre.current, first |-> E.unre.first, redofirst |-> E.unre.redofirst]
  <2>1. /\ D = [buffer |-> D.buffer, modified |-> D.modified, unre |-> U]
        /\ U = [current |-> U.current, first |-> was, redofirst |-> U.redofirst]
        /\ U.current = [entries |-> U.current.entries, changed |-> U.current.changed]
    BY <1>1 DEF Shape, Unre, Group
  <2> DEFINE V == doc_unre_clear_not_modified(U)
             C == [entries |-> U.current.entries, changed |-> FALSE]
  <2>2. [U.current EXCEPT !.changed = FALSE] = C
    <3>1. PICK e, c : U.current = [entries |-> e, changed |-> c]
      BY <2>1, Zenon
    <3>2. [[entries |-> e, changed |-> c] EXCEPT !.changed = FALSE] = [entries |-> e, changed |-> FALSE]
      BY SetChanged
    <3>3. U.current.entries = e
      BY <3>1
    <3> QED BY <3>1, <3>2, <3>3, Zenon
  <2> HIDE DEF now
  <2>3. V = [U EXCEPT !.first = now, !.current.changed = FALSE]
    BY DEF doc_unre_clear_not_modified, now
  <2>4. V = [current |-> C, first |-> now, redofirst |-> U.redofirst]
    BY <2>1, <2>2, <2>3
  <2> HIDE DEF V
  <2>5. E = [buffer |-> D.buffer, modified |-> FALSE, unre |-> V]
    <3>1. E = [D EXCEPT !.modified = FALSE, !.unre = V]
      BY DEF Saved, V
    <3>2. D \in [buffer : Seq(Chars), modified : BOOLEAN, unre : {U, V}]
      BY DEF Shape
    <3> HIDE DEF E, U
    <3>3. /\ E \in [buffer : Seq(Chars), modified : BOOLEAN, unre : {U, V}]
          /\ E.buffer = D.buffer /\ E.modified = FALSE /\ E.unre = V
      BY <3>1, <3>2
    <3> QED BY <3>3
  <2> HIDE DEF E
  <2> QED BY <2>4, <2>5
<1>4. \A i \in 1 .. Len(was) : /\ now[i] \in Group /\ now[i].changed = TRUE
                               /\ now[i].entries = was[i].entries
  BY <1>2 DEF Group
<1>5. now \in Seq(Group) /\ Len(now) = Len(was)
  <2>1. now = [i \in 1 .. Len(was) |-> now[i]]
    BY <1>2
  <2> HIDE DEF now
  <2>2. now \in [1 .. Len(was) -> Group]
    BY <1>4, <2>1
  <2>3. now \in Seq(Group)
    BY <1>2, <2>2, SeqDef
  <2> QED BY <1>2, <2>2, <2>3, LenProperties
<1> HIDE DEF now
<1>6. Shape(E)
  <2>1. E.unre.current \in Group
    BY <1>1, <1>3 DEF Group
  <2>2. E.unre \in Unre
    BY <1>1, <1>3, <1>5, <2>1 DEF Unre
  <2>3. E \in [buffer : Seq(Chars), modified : BOOLEAN, unre : Unre]
    BY <1>1, <1>3, <2>2
  <2>4. E.unre.redofirst # <<>> => E.unre.current.entries = <<>>
    BY <1>3 DEF Shape
  <2> QED BY <2>3, <2>4 DEF Shape
<1>7. /\ Len(Behind(E)) = Len(Behind(D))
      /\ \A i \in 1 .. Len(Behind(D)) : Behind(E)[i].entries = Behind(D)[i].entries
      /\ U.current.entries = <<>> => Behind(E) = now
  <2>1. CASE U.current.entries = <<>>
    <3>1. E.unre.current.entries = <<>>
      BY <1>3, <2>1
    <3>2. Behind(D) = was /\ Behind(E) = now
      BY <1>3, <1>6, <2>1, <3>1, BehindIs
    <3> QED BY <1>4, <1>5, <3>2
  <2>2. CASE U.current.entries # <<>>
    <3>1. E.unre.current.entries # <<>>
      BY <1>3, <2>2
    <3>2. /\ Len(Behind(D)) = Len(was) + 1 /\ Behind(D)[1] = U.current
          /\ \A i \in 1 .. Len(was) : Behind(D)[i + 1] = was[i]
      BY <2>2, BehindIs
    <3>3. /\ Len(Behind(E)) = Len(now) + 1 /\ Behind(E)[1] = E.unre.current
          /\ \A i \in 1 .. Len(now) : Behind(E)[i + 1] = now[i]
      BY <1>3, <1>6, <3>1, BehindIs
    <3>4. ASSUME NEW i \in 1 .. Len(Behind(D)) PROVE Behind(E)[i].entries = Behind(D)[i].entries
      <4>1. CASE i = 1
        BY <1>3, <3>2, <3>3, <4>1
      <4>2. CASE i # 1
        <5> DEFINE k == i - 1
        <5>1. k \in 1 .. Len(was) /\ k + 1 = i
          BY <1>2, <3>2, <3>4, <4>2
        <5> HIDE DEF k
        <5>2. Behind(D)[k + 1] = was[k] /\ Behind(E)[k + 1] = now[k]
          BY <1>5, <3>2, <3>3, <5>1
        <5>3. now[k].entries = was[k].entries
          BY <1>4, <5>1
        <5> QED BY <5>1, <5>2, <5>3
      <4> QED BY <4>1, <4>2
    <3> QED BY <1>5, <2>2, <3>2, <3>3, <3>4
  <2> QED BY <2>1, <2>2
<1>8. Trail(E, Q, F)
  <2>1. Back(Behind(E), Q)
    BY <1>7 DEF Trail, Back
  <2>2. Ahead(E.unre.redofirst, F)
    BY <1>3 DEF Trail
  <2> QED BY <1>3, <2>1, <2>2 DEF Trail
<1>9. ASSUME U.current.entries = <<>>, U.redofirst = <<>> PROVE Honest(E, Q, F, D.buffer)
  <2>1. BackTo(Behind(E), Q, D.buffer)
    BY <1>4, <1>5, <1>7, <1>9 DEF BackTo
  <2>2. AheadOf(E.unre.redofirst, F, D.buffer)
    <3>1. E.unre.redofirst = <<>> /\ Len(<<>>) = 0
      BY <1>3, <1>9, EmptySeq
    <3> QED BY <3>1 DEF AheadOf
  <2> QED BY <1>3, <2>1, <2>2 DEF Honest
<1> QED BY <1>6, <1>8, <1>9

\* and the end of a save.
LEMMA SaveStep ==
    ASSUME Sound, NEW Q, NEW F, Kept(Q, F), SaveFinished
    PROVE  Stepped(Q, F)
<1>1. /\ Shape(Doc) /\ Trail(Doc, Q, F) /\ met \subseteq Situations
      /\ buffer \in Seq(Chars) /\ modified \in BOOLEAN /\ Doc.buffer = buffer /\ Doc.modified = modified
      /\ Doc.unre = unre
  BY ShapeParts DEF Sound, Kept, Doc
<1>2. /\ disk' = buffer /\ modified' = FALSE /\ buffer' = buffer /\ mix' = mix
      /\ met' = met \union {s \in Situations :
                             \/ s = "save in a group" /\ unre.current.entries # <<>>
                             \/ s = "save before redo" /\ unre.redofirst # <<>>}
      /\ unre' = IF ClearOnSave THEN doc_unre_init(modified) ELSE doc_unre_clear_not_modified(unre)
  BY DEF SaveFinished
<1>3. met' \subseteq Situations
  BY <1>1, <1>2
<1>4. CASE ClearOnSave
  <2>1. Doc' = [buffer |-> buffer, modified |-> FALSE, unre |-> doc_unre_init(modified)]
    BY <1>2, <1>4 DEF Doc
  <2>2. /\ Shape(Doc') /\ Trail(Doc', <<buffer>>, <<buffer>>)
        /\ Honest(Doc', <<buffer>>, <<buffer>>, buffer)
    BY <1>1, <2>1, Emptied
  <2>3. Sound' /\ Kept(<<buffer>>, <<buffer>>)'
    BY <1>1, <1>2, <1>3, <2>2 DEF Sound, Kept
  <2>5. PICK R : R = <<buffer>>
    OBVIOUS
  <2>6. Kept(R, R)'
    BY <1>2, <2>3, <2>5
  <2>4. Moves(Q, F, R, R, buffer')
    <3>1. Q[1] = buffer
      BY <1>1, TrailTexts
    <3> QED BY <1>2, <2>5, <3>1 DEF Moves
  <2> QED BY <2>3, <2>4, <2>6 DEF Stepped
<1>5. CASE ~ClearOnSave
  <2>1. Doc' = Saved(Doc)
    <3>1. doc_unre_clear_not_modified(Doc.unre) = unre'
      BY <1>1, <1>2, <1>5
    <3>2. Saved(Doc) = [Doc EXCEPT !.modified = FALSE, !.unre = doc_unre_clear_not_modified(Doc.unre)]
      BY DEF Saved, Doc
    <3>3. Doc = [buffer |-> buffer, modified |-> modified, unre |-> unre]
          /\ Doc' = [buffer |-> buffer', modified |-> modified', unre |-> unre']
      BY DEF Doc
    <3>4. Doc \in [buffer : Seq(Chars), modified : BOOLEAN, unre : {unre, unre'}]
      BY <1>1, <3>3
    <3> DEFINE E == Saved(Doc)
    <3> HIDE DEF E
    <3>5. /\ E \in [buffer : Seq(Chars), modified : BOOLEAN, unre : {unre, unre'}]
          /\ E.buffer = Doc.buffer /\ E.modified = FALSE /\ E.unre = unre'
      BY <3>1, <3>2, <3>4 DEF E
    <3>6. E = [buffer |-> buffer, modified |-> FALSE, unre |-> unre']
      BY <1>1, <3>5
    <3>7. Doc' = E
      BY <1>2, <3>3, <3>6
    <3> QED BY <3>7 DEF E
  <2>2. /\ Shape(Saved(Doc)) /\ Trail(Saved(Doc), Q, F)
        /\ unre.current.entries = <<>> /\ unre.redofirst = <<>> => Honest(Saved(Doc), Q, F, buffer)
    BY <1>1, SavedStep
  <2>3. met' = {} => unre.current.entries = <<>> /\ unre.redofirst = <<>>
    BY <1>2 DEF Situations
  <2>4. Sound' /\ Kept(Q, F)'
    BY <1>1, <1>2, <1>3, <2>1, <2>2, <2>3, DocStep
  <2>5. Moves(Q, F, Q, F, buffer')
    <3>1. Q \in Seq(Seq(Chars)) /\ F \in Seq(Seq(Chars))
      BY <1>1, TrailTexts
    <3>2. Went(Q, F, Q, F, 0)
      BY <3>1, WentNowhere
    <3> QED BY <3>2 DEF Moves
  <2> QED BY <2>4, <2>5 DEF Stepped
<1> QED BY <1>4, <1>5

\* Every step keeps a history, and moves along it in one of the five ways.
LEMMA NextStepped ==
    ASSUME Sound, NEW Q, NEW F, Kept(Q, F), [Next]_vars
    PROVE  Stepped(Q, F)
<1>1. CASE UNCHANGED vars
  <2>1. /\ Shape(Doc) /\ Trail(Doc, Q, F) /\ disk \in Seq(Chars) /\ met \subseteq Situations
        /\ (met = {} => Honest(Doc, Q, F, disk))
    BY DEF Sound, Kept
  <2>2. /\ Doc' = Doc /\ disk' = disk /\ mix' = mix /\ met' = met
    BY <1>1 DEF vars, Doc
  <2>3. Sound' /\ Kept(Q, F)'
    BY <2>1, <2>2, DocStep
  <2>4. Q \in Seq(Seq(Chars)) /\ F \in Seq(Seq(Chars))
    BY <2>1, TrailTexts
  <2>5. Went(Q, F, Q, F, 0)
    BY <2>4, WentNowhere
  <2> QED BY <2>3, <2>5 DEF Stepped, Moves
<1>2. CASE Next
  BY <1>2, EditsStep, ReplayStep, SaveStep DEF Next
<1> QED BY <1>1, <1>2

\* A document that was opened has its text as its history.
LEMMA InitIInv == Init => IInv
<1> SUFFICES ASSUME Init PROVE IInv
  OBVIOUS
<1>1. /\ buffer = File /\ disk = File /\ mix \in Mixes /\ met = {}
      /\ Doc = [buffer |-> File, modified |-> FALSE, unre |-> doc_unre_init(FALSE)]
  BY DEF Init, Doc
<1>2. Shape(Doc) /\ Trail(Doc, <<File>>, <<File>>) /\ Honest(Doc, <<File>>, <<File>>, File)
  BY <1>1, FileAssumption, Emptied
<1>3. Sound
  BY <1>1, <1>2, FileAssumption DEF Sound
<1>4. Kept(<<File>>, <<File>>)
  BY <1>1, <1>2 DEF Kept
<1> QED BY <1>3, <1>4 DEF IInv

\* Every step keeps the invariant.
LEMMA NextIInv == IInv /\ [Next]_vars => IInv'
<1> SUFFICES ASSUME IInv, [Next]_vars PROVE IInv'
  OBVIOUS
<1>1. PICK Q, F : Kept(Q, F)
  BY DEF IInv
<1>2. Stepped(Q, F)
  BY <1>1, NextStepped DEF IInv
<1> QED BY <1>2 DEF Stepped, IInv

\* The invariant always holds.
LEMMA SpecIInv == Spec => []IInv
BY InitIInv, NextIInv, PTL DEF Spec

\* The undo history always has its type, and whenever there is something to redo the
\* group being built is empty: what can be redone was undone directly before
\* (doc_undo, doc_redo, doc_unre_add).
THEOREM SpecRedoKept == Spec => []RedoKept
<1>1. IInv => RedoKept
  BY ShapeParts DEF IInv, Sound, Shape, Doc, RedoKept, TypeOK, RedoOnlyAfterUndo
<1> QED BY <1>1, SpecIInv, PTL

\* A document that is shown as unmodified has the text of its file, as long as none of
\* the three situations was met: whatever was typed, undone, redone and saved, the
\* flags of the groups lead back to the saved text (doc_undo, doc_redo,
\* doc_unre_clear_not_modified).
THEOREM SpecCleanMeansSaved == Spec => []CleanMeansSaved
<1>1. IInv => CleanMeansSaved
  BY DEF IInv, Kept, Honest, Doc, CleanMeansSaved
<1> QED BY <1>1, SpecIInv, PTL

-----------------------------------------------------------------------------

\* Undoing a list of groups visits the texts T,
LEMMA AlongUndone ==
    ASSUME NEW groups \in Seq(Group), NEW T, DOMAIN T = 0 .. Len(groups),
           \A i \in 1 .. Len(groups) : T[i] = Undone(T[i - 1], groups[i]), NEW b, b = T[0],
           NEW S, T \in [0 .. Len(groups) -> S]
    PROVE  Along(Undone, b, groups) = T[Len(groups)]
<1> DEFINE n == Len(groups)
           Is(f) == f = [i \in 0 .. n |-> IF i = 0 THEN b ELSE Undone(f[i - 1], groups[i])]
           text == CHOOSE f : Is(f)
<1>1. n \in Nat
  BY LenProperties
<1>2. Along(Undone, b, groups) = text[n]
  BY DEF Along
<1>3. Is(T)
  BY <1>1
<1>4. Is(text)
  <2> HIDE DEF Is
  <2> QED BY <1>3
<1>5. \A i \in 0 .. n : text[i] = IF i = 0 THEN b ELSE Undone(text[i - 1], groups[i])
  BY <1>4
<1> DEFINE A == {k \in Nat : k <= n => text[k] = T[k]}
<1> HIDE DEF text, n
<1>6. 0 \in A
  BY <1>1, <1>5
<1>7. ASSUME NEW k \in Nat, k \in A PROVE k + 1 \in A
  <2>1. CASE k + 1 <= n
    <3>1. text[k + 1] = Undone(text[k], groups[k + 1])
      BY <1>1, <1>5, <2>1
    <3>2. T[k + 1] = Undone(T[k], groups[k + 1])
      BY <1>1, <2>1 DEF n
    <3> QED BY <1>1, <1>7, <2>1, <3>1, <3>2
  <2> QED BY <1>1, <1>7, <2>1
<1>8. n \in A
  <2> HIDE DEF A
  <2> QED BY <1>1, <1>6, <1>7, Induction
<1> QED BY <1>1, <1>2, <1>8 DEF n

\* and redoing one does.
LEMMA AlongRedone ==
    ASSUME NEW groups \in Seq(Group), NEW T, DOMAIN T = 0 .. Len(groups),
           \A i \in 1 .. Len(groups) : T[i] = Redone(T[i - 1], groups[i]), NEW b, b = T[0],
           NEW S, T \in [0 .. Len(groups) -> S]
    PROVE  Along(Redone, b, groups) = T[Len(groups)]
<1> DEFINE n == Len(groups)
           Is(f) == f = [i \in 0 .. n |-> IF i = 0 THEN b ELSE Redone(f[i - 1], groups[i])]
           text == CHOOSE f : Is(f)
<1>1. n \in Nat
  BY LenProperties
<1>2. Along(Redone, b, groups) = text[n]
  BY DEF Along
<1>3. Is(T)
  BY <1>1
<1>4. Is(text)
  <2> HIDE DEF Is
  <2> QED BY <1>3
<1>5. \A i \in 0 .. n : text[i] = IF i = 0 THEN b ELSE Redone(text[i - 1], groups[i])
  BY <1>4
<1> DEFINE A == {k \in Nat : k <= n => text[k] = T[k]}
<1> HIDE DEF text, n
<1>6. 0 \in A
  BY <1>1, <1>5
<1>7. ASSUME NEW k \in Nat, k \in A PROVE k + 1 \in A
  <2>1. CASE k + 1 <= n
    <3>1. text[k + 1] = Redone(text[k], groups[k + 1])
      BY <1>1, <1>5, <2>1
    <3>2. T[k + 1] = Redone(T[k], groups[k + 1])
      BY <1>1, <2>1 DEF n
    <3> QED BY <1>1, <1>7, <2>1, <3>1, <3>2
  <2> QED BY <1>1, <1>7, <2>1
<1>8. n \in A
  <2> HIDE DEF A
  <2> QED BY <1>1, <1>6, <1>7, Induction
<1> QED BY <1>1, <1>2, <1>8 DEF n

\* The texts of Q but the one the document has.
After(Q) == [i \in 1 .. Len(Q) - 1 |-> Q[i + 1]]

\* Undo shows the texts behind the document, one after the other,
LEMMA TextsBehind ==
    ASSUME NEW groups \in Seq(Group), NEW Q, Back(groups, Q), NEW b, b = Q[1]
    PROVE  Texts(Undone, b, groups) = After(Q)
<1>1. Q \in Seq(Seq(Chars)) /\ Len(Q) = Len(groups) + 1 /\ Len(groups) \in Nat
  BY LenProperties DEF Back
<1>2. ASSUME NEW i \in 1 .. Len(groups) PROVE Along(Undone, b, SubSeq(groups, 1, i)) = Q[i + 1]
  <2> DEFINE some == SubSeq(groups, 1, i)
             T == [k \in 0 .. i |-> Q[k + 1]]
  <2>1. some \in Seq(Group) /\ Len(some) = i /\ \A k \in 1 .. i : some[k] = groups[k]
    <3>1. /\ some \in Seq(Group)
          /\ Len(some) = IF 1 <= i THEN i - 1 + 1 ELSE 0
          /\ \A k \in 1 .. i - 1 + 1 : some[k] = groups[1 + k - 1]
      <4>1. 1 \in 1 .. Len(groups) + 1 /\ i \in 0 .. Len(groups)
        BY <1>1, <1>2
      <4> QED BY <1>1, <4>1, SubSeqProperties
    <3>2. i \in Nat /\ 1 <= i /\ i - 1 + 1 = i /\ \A k \in 1 .. i : 1 + k - 1 = k
      BY <1>1, <1>2
    <3> HIDE DEF some
    <3> QED BY <3>1, <3>2
  <2>2. T \in [0 .. i -> Seq(Chars)] /\ DOMAIN T = 0 .. i /\ i \in Nat
    <3>1. \A k \in 0 .. i : Q[k + 1] \in Seq(Chars)
      <4> DEFINE C == Seq(Chars)
      <4>1. Q \in Seq(C) /\ \A k \in 0 .. i : k + 1 \in 1 .. Len(Q)
        BY <1>1, <1>2
      <4> HIDE DEF C
      <4>2. \A k \in 1 .. Len(Q) : Q[k] \in C
        BY <4>1, ElementOfSeq
      <4>3. \A k \in 0 .. i : Q[k + 1] \in C
        BY <4>1, <4>2
      <4> QED BY <4>3 DEF C
    <3> QED BY <1>1, <1>2, <3>1
  <2>3. ASSUME NEW k \in 1 .. i PROVE T[k] = Undone(T[k - 1], some[k])
    <3>1. /\ T[k] = Q[k + 1] /\ T[k - 1] = Q[k] /\ k \in 1 .. Len(groups)
      BY <1>1, <1>2, <2>3
    <3>2. Spans(groups[k].entries, Q[k + 1], Q[k]) /\ groups[k] \in Group
      BY <3>1, ElementOfSeq DEF Back
    <3>3. Undone(Q[k], groups[k]) = Q[k + 1]
      BY <3>2, SpansUndone DEF Group
    <3> QED BY <2>1, <2>3, <3>1, <3>3
  <2>4. b = T[0] /\ T[i] = Q[i + 1]
    BY <2>2
  <2> HIDE DEF some, T
  <2>5. Along(Undone, b, some) = T[Len(some)]
    BY <2>1, <2>2, <2>3, <2>4, AlongUndone
  <2> QED BY <2>1, <2>4, <2>5 DEF some
<1>3. Texts(Undone, b, groups) = [i \in 1 .. Len(groups) |-> Q[i + 1]]
  BY <1>2 DEF Texts
<1> QED BY <1>1, <1>3 DEF After

\* and redo the texts ahead of it.
LEMMA TextsAhead ==
    ASSUME NEW groups \in Seq(Group), NEW Q, Ahead(groups, Q), NEW b, b = Q[1]
    PROVE  Texts(Redone, b, groups) = After(Q)
<1>1. Q \in Seq(Seq(Chars)) /\ Len(Q) = Len(groups) + 1 /\ Len(groups) \in Nat
  BY LenProperties DEF Ahead
<1>2. ASSUME NEW i \in 1 .. Len(groups) PROVE Along(Redone, b, SubSeq(groups, 1, i)) = Q[i + 1]
  <2> DEFINE some == SubSeq(groups, 1, i)
             T == [k \in 0 .. i |-> Q[k + 1]]
  <2>1. some \in Seq(Group) /\ Len(some) = i /\ \A k \in 1 .. i : some[k] = groups[k]
    <3>1. /\ some \in Seq(Group)
          /\ Len(some) = IF 1 <= i THEN i - 1 + 1 ELSE 0
          /\ \A k \in 1 .. i - 1 + 1 : some[k] = groups[1 + k - 1]
      <4>1. 1 \in 1 .. Len(groups) + 1 /\ i \in 0 .. Len(groups)
        BY <1>1, <1>2
      <4> QED BY <1>1, <4>1, SubSeqProperties
    <3>2. i \in Nat /\ 1 <= i /\ i - 1 + 1 = i /\ \A k \in 1 .. i : 1 + k - 1 = k
      BY <1>1, <1>2
    <3> HIDE DEF some
    <3> QED BY <3>1, <3>2
  <2>2. T \in [0 .. i -> Seq(Chars)] /\ DOMAIN T = 0 .. i /\ i \in Nat
    <3>1. \A k \in 0 .. i : Q[k + 1] \in Seq(Chars)
      <4> DEFINE C == Seq(Chars)
      <4>1. Q \in Seq(C) /\ \A k \in 0 .. i : k + 1 \in 1 .. Len(Q)
        BY <1>1, <1>2
      <4> HIDE DEF C
      <4>2. \A k \in 1 .. Len(Q) : Q[k] \in C
        BY <4>1, ElementOfSeq
      <4>3. \A k \in 0 .. i : Q[k + 1] \in C
        BY <4>1, <4>2
      <4> QED BY <4>3 DEF C
    <3> QED BY <1>1, <1>2, <3>1
  <2>3. ASSUME NEW k \in 1 .. i PROVE T[k] = Redone(T[k - 1], some[k])
    <3>1. /\ T[k] = Q[k + 1] /\ T[k - 1] = Q[k] /\ k \in 1 .. Len(groups)
      BY <1>1, <1>2, <2>3
    <3>2. Spans(groups[k].entries, Q[k], Q[k + 1]) /\ groups[k] \in Group
      BY <3>1, ElementOfSeq DEF Ahead
    <3>3. Redone(Q[k], groups[k]) = Q[k + 1]
      BY <3>2, SpansRedone DEF Group
    <3> QED BY <2>1, <2>3, <3>1, <3>3
  <2>4. b = T[0] /\ T[i] = Q[i + 1]
    BY <2>2
  <2> HIDE DEF some, T
  <2>5. Along(Redone, b, some) = T[Len(some)]
    BY <2>1, <2>2, <2>3, <2>4, AlongRedone
  <2> QED BY <2>1, <2>4, <2>5 DEF some
<1>3. Texts(Redone, b, groups) = [i \in 1 .. Len(groups) |-> Q[i + 1]]
  BY <1>2 DEF Texts
<1> QED BY <1>1, <1>3 DEF After

\* The texts as a sequence.
LEMMA AfterIs ==
    ASSUME NEW Q \in Seq(Seq(Chars)), Len(Q) >= 1
    PROVE  /\ After(Q) \in Seq(Seq(Chars)) /\ Len(After(Q)) = Len(Q) - 1 /\ Len(Q) \in Nat
           /\ \A i \in 1 .. Len(Q) - 1 : After(Q)[i] = Q[i + 1]
<1> DEFINE T == Seq(Chars)
           m == Len(Q) - 1
<1>1. Q \in Seq(T) /\ Len(Q) \in Nat /\ m \in Nat
  BY LenProperties
<1> HIDE DEF T
<1>2. \A i \in 1 .. Len(Q) : Q[i] \in T
  BY <1>1, ElementOfSeq
<1>3. \A i \in 1 .. m : Q[i + 1] \in T
  BY <1>1, <1>2
<1> DEFINE A == [i \in 1 .. m |-> Q[i + 1]]
<1>4. A \in [1 .. m -> T] /\ \A i \in 1 .. m : A[i] = Q[i + 1]
  BY <1>3
<1>5. After(Q) = A
  BY DEF After
<1> HIDE DEF m, A
<1>6. A \in Seq(T) /\ Len(A) = m
  BY <1>1, <1>4, SeqDef, LenProperties
<1> QED BY <1>1, <1>4, <1>5, <1>6 DEF T, m

\* A part of a list of texts.
LEMMA PartIs ==
    ASSUME NEW s \in Seq(Seq(Chars)), NEW i \in 1 .. Len(s) + 1, NEW j \in i - 1 .. Len(s)
    PROVE  /\ SubSeq(s, i, j) \in Seq(Seq(Chars)) /\ Len(SubSeq(s, i, j)) = (j - i) + 1
           /\ \A k \in 1 .. (j - i) + 1 : SubSeq(s, i, j)[k] = s[(i + k) - 1]
<1> DEFINE T == Seq(Chars)
           p == SubSeq(s, i, j)
<1>1. s \in Seq(T) /\ Len(s) \in Nat
  BY LenProperties
<1> HIDE DEF T
<1>2. i \in Int /\ j \in Int /\ i .. j \subseteq 1 .. Len(s) /\ j >= i - 1
  BY <1>1
<1>3. \A k \in i .. j : s[k] \in T
  BY <1>1, <1>2, ElementOfSeq
<1>4. /\ p \in Seq(T) /\ Len(p) = IF i <= j THEN j - i + 1 ELSE 0
      /\ \A k \in 1 .. j - i + 1 : p[k] = s[i + k - 1]
  BY <1>2, <1>3, SubSeqProperties
<1> HIDE DEF p
<1>5. Len(p) = (j - i) + 1
  BY <1>2, <1>4
<1> QED BY <1>4, <1>5 DEF p, T

\* A list of texts is known by its texts.
LEMMA SameTexts ==
    ASSUME NEW s \in Seq(Seq(Chars)), NEW t \in Seq(Seq(Chars)), Len(s) = Len(t),
           \A i \in 1 .. Len(s) : s[i] = t[i]
    PROVE  s = t
<1> DEFINE T == Seq(Chars)
<1>1. s \in Seq(T) /\ t \in Seq(T)
  OBVIOUS
<1> HIDE DEF T
<1> QED BY <1>1, SeqEqual

\* A list of texts turned round.
LEMMA TurnedIs ==
    ASSUME NEW s \in Seq(Seq(Chars))
    PROVE  /\ Reverse(s) \in Seq(Seq(Chars)) /\ Len(Reverse(s)) = Len(s)
           /\ \A i \in 1 .. Len(s) : Reverse(s)[i] = s[(Len(s) - i) + 1]
<1> DEFINE T == Seq(Chars)
           n == Len(s)
           r == [i \in 1 .. n |-> s[(n - i) + 1]]
<1>1. s \in Seq(T) /\ n \in Nat
  BY LenProperties
<1> HIDE DEF T
<1>2. \A i \in 1 .. n : s[i] \in T
  BY <1>1, ElementOfSeq
<1> HIDE DEF n
<1>3. \A i \in 1 .. n : s[(n - i) + 1] \in T
  <2> TAKE i \in 1 .. n
  <2>1. (n - i) + 1 \in 1 .. n
    BY <1>1
  <2> QED BY <1>2, <2>1
<1>4. r \in [1 .. n -> T] /\ \A i \in 1 .. n : r[i] = s[(n - i) + 1]
  BY <1>3
<1>5. Reverse(s) = r
  BY DEF Reverse, n
<1> HIDE DEF r
<1>6. r \in Seq(T) /\ Len(r) = n
  BY <1>1, <1>4, SeqDef, LenProperties
<1> QED BY <1>4, <1>5, <1>6 DEF T, n

\* A walk of n steps, n > 0, leads to the n-th text on this side; those before it and
\* the text that was left are on the other side then.
Walked(P, P2, R, R2, n) ==
    /\ n \in 1 .. Len(After(P)) /\ R[1] = After(P)[n]
    /\ After(R) = SubSeq(After(P), n + 1, Len(After(P)))
    /\ After(R2) = Reverse(SubSeq(After(P), 1, n - 1)) \o <<P2[1]>> \o After(P2)

\* That is where n steps lead.
LEMMA WentTexts ==
    ASSUME NEW P \in Seq(Seq(Chars)), NEW P2 \in Seq(Seq(Chars)),
           NEW R \in Seq(Seq(Chars)), NEW R2 \in Seq(Seq(Chars)), NEW n \in Nat \ {0},
           Went(P, P2, R, R2, n), Len(R) >= 1, Len(P2) >= 1
    PROVE  Walked(P, P2, R, R2, n)
<1> DEFINE p == Len(P)
           p2 == Len(P2)
<1>1. /\ p \in Nat /\ p2 \in Nat /\ p2 >= 1 /\ p - n >= 1 /\ Len(R) = p - n /\ Len(R2) = p2 + n
      /\ \A i \in 1 .. p - n : R[i] = P[i + n]
      /\ \A i \in 1 .. n : R2[i] = P[(n + 2) - i]
      /\ \A i \in 1 .. p2 : R2[i + n] = P2[i]
  BY LenProperties DEF Went
<1>2. p >= 1 /\ Len(R2) >= 1 /\ n \in 1 .. p - 1 /\ p - 1 \in Nat
  <2> HIDE DEF p, p2
  <2> QED BY <1>1
<1> DEFINE A == After(P)
           A2 == After(P2)
<1>3. /\ A \in Seq(Seq(Chars)) /\ Len(A) = p - 1 /\ \A i \in 1 .. p - 1 : A[i] = P[i + 1]
      /\ A2 \in Seq(Seq(Chars)) /\ Len(A2) = p2 - 1 /\ \A i \in 1 .. p2 - 1 : A2[i] = P2[i + 1]
      /\ After(R) \in Seq(Seq(Chars)) /\ Len(After(R)) = (p - n) - 1
      /\ \A i \in 1 .. (p - n) - 1 : After(R)[i] = R[i + 1]
      /\ After(R2) \in Seq(Seq(Chars)) /\ Len(After(R2)) = (p2 + n) - 1
      /\ \A i \in 1 .. (p2 + n) - 1 : After(R2)[i] = R2[i + 1]
  BY <1>1, <1>2, AfterIs
<1> HIDE DEF p, p2, A, A2
<1>4. n \in 1 .. Len(A) /\ R[1] = A[n]
  <2>1. 1 \in 1 .. p - n /\ 1 + n = n + 1
    BY <1>1
  <2>2. R[1] = P[n + 1]
    BY <1>1, <2>1
  <2> QED BY <1>2, <1>3, <2>2
<1>5. After(R) = SubSeq(A, n + 1, Len(A))
  <2> DEFINE S == SubSeq(A, n + 1, Len(A))
  <2>1. n + 1 \in 1 .. Len(A) + 1 /\ Len(A) \in (n + 1) - 1 .. Len(A)
    <3> DEFINE a == Len(A)
    <3>1. a = p - 1 /\ n \in 1 .. p - 1 /\ p \in Nat
      BY <1>1, <1>2, <1>3
    <3> HIDE DEF a
    <3>2. n + 1 \in 1 .. a + 1 /\ a \in (n + 1) - 1 .. a
      BY <3>1
    <3> QED BY <3>2 DEF a
  <2>2. /\ S \in Seq(Seq(Chars)) /\ Len(S) = (Len(A) - (n + 1)) + 1
        /\ \A k \in 1 .. (Len(A) - (n + 1)) + 1 : S[k] = A[((n + 1) + k) - 1]
    BY <1>3, <2>1, PartIs
  <2> HIDE DEF S
  <2>3. Len(S) = Len(After(R)) /\ Len(S) = (p - n) - 1
    BY <1>1, <1>3, <2>2
  <2>4. ASSUME NEW i \in 1 .. Len(S) PROVE S[i] = After(R)[i]
    <3>1. /\ i \in 1 .. (Len(A) - (n + 1)) + 1 /\ ((n + 1) + i) - 1 = i + n
          /\ i + n \in 1 .. p - 1 /\ (i + n) + 1 = (i + 1) + n
          /\ i \in 1 .. (p - n) - 1 /\ i + 1 \in 1 .. p - n
      BY <1>1, <1>3, <2>2, <2>3
    <3>2. S[i] = A[i + n]
      BY <2>2, <3>1
    <3>3. A[i + n] = P[(i + 1) + n]
      BY <1>3, <3>1
    <3>4. After(R)[i] = R[i + 1]
      BY <1>3, <3>1
    <3>5. R[i + 1] = P[(i + 1) + n]
      BY <1>1, <3>1
    <3> QED BY <3>2, <3>3, <3>4, <3>5
  <2>5. S = After(R)
    BY <1>3, <2>2, <2>3, <2>4, SameTexts
  <2> QED BY <2>5 DEF S
<1>6. After(R2) = Reverse(SubSeq(A, 1, n - 1)) \o <<P2[1]>> \o A2
  <2> DEFINE S == SubSeq(A, 1, n - 1)
             V == Reverse(S)
             one == <<P2[1]>>
             left == V \o one
             all == left \o A2
  <2>1. 1 \in 1 .. Len(A) + 1 /\ n - 1 \in 1 - 1 .. Len(A) /\ n - 1 \in Nat /\ ((n - 1) - 1) + 1 = n - 1
    BY <1>1, <1>2, <1>3
  <2>2. S \in Seq(Seq(Chars)) /\ Len(S) = n - 1 /\ \A k \in 1 .. n - 1 : S[k] = A[k]
    <3>1. /\ S \in Seq(Seq(Chars)) /\ Len(S) = ((n - 1) - 1) + 1
          /\ \A k \in 1 .. ((n - 1) - 1) + 1 : S[k] = A[(1 + k) - 1]
      BY <1>3, <2>1, PartIs
    <3>2. \A k \in 1 .. n - 1 : (1 + k) - 1 = k
      OBVIOUS
    <3> HIDE DEF S
    <3> QED BY <2>1, <3>1, <3>2
  <2> HIDE DEF S
  <2>3. V \in Seq(Seq(Chars)) /\ Len(V) = n - 1 /\ \A i \in 1 .. n - 1 : V[i] = S[((n - 1) - i) + 1]
    <3> DEFINE m == n - 1
    <3>1. S \in Seq(Seq(Chars)) /\ Len(S) = m
      BY <2>2
    <3> HIDE DEF m, V
    <3>2. /\ Reverse(S) \in Seq(Seq(Chars)) /\ Len(Reverse(S)) = Len(S)
          /\ \A i \in 1 .. Len(S) : Reverse(S)[i] = S[(Len(S) - i) + 1]
      BY <3>1, TurnedIs
    <3>3. V = Reverse(S)
      BY DEF V
    <3>4. V \in Seq(Seq(Chars)) /\ Len(V) = m /\ \A i \in 1 .. m : V[i] = S[(m - i) + 1]
      BY <3>1, <3>2, <3>3
    <3> QED BY <3>4 DEF m
  <2> HIDE DEF V
  <2>4. one \in Seq(Seq(Chars)) /\ Len(one) = 1 /\ one[1] = P2[1]
    <3>1. P2[1] \in Seq(Chars)
      <4> DEFINE T == Seq(Chars)
      <4>1. P2 \in Seq(T) /\ 1 \in 1 .. Len(P2)
        BY <1>1 DEF p2
      <4> HIDE DEF T
      <4>2. P2[1] \in T
        BY <4>1, ElementOfSeq
      <4> QED BY <4>2 DEF T
    <3> QED BY <3>1
  <2> HIDE DEF one
  <2>5. /\ left \in Seq(Seq(Chars)) /\ Len(left) = n
        /\ \A i \in 1 .. n - 1 : left[i] = V[i]
        /\ left[n] = P2[1]
    <3>1. /\ left \in Seq(Seq(Chars)) /\ Len(left) = Len(V) + Len(one)
          /\ \A i \in 1 .. Len(V) + Len(one) :
               left[i] = IF i <= Len(V) THEN V[i] ELSE one[i - Len(V)]
      <4> DEFINE T == Seq(Chars)
      <4>1. V \in Seq(T) /\ one \in Seq(T)
        BY <2>3, <2>4
      <4> HIDE DEF T
      <4>2. /\ left \in Seq(T) /\ Len(left) = Len(V) + Len(one)
            /\ \A i \in 1 .. Len(V) + Len(one) :
                 left[i] = IF i <= Len(V) THEN V[i] ELSE one[i - Len(V)]
        BY <4>1, ConcatProperties
      <4> QED BY <4>2 DEF T
    <3> HIDE DEF left
    <3>2. Len(V) + Len(one) = n /\ n \in 1 .. n /\ ~(n <= n - 1) /\ n - (n - 1) = 1
      BY <2>3, <2>4
    <3>3. left[n] = one[1]
      BY <2>3, <3>1, <3>2
    <3>4. ASSUME NEW i \in 1 .. n - 1 PROVE left[i] = V[i]
      <4>1. i \in 1 .. n /\ i <= n - 1
        OBVIOUS
      <4> QED BY <2>3, <3>1, <3>2, <4>1
    <3> QED BY <2>4, <3>1, <3>2, <3>3, <3>4
  <2> HIDE DEF left
  <2>6. /\ all \in Seq(Seq(Chars)) /\ Len(all) = n + (p2 - 1)
        /\ \A i \in 1 .. n + (p2 - 1) : all[i] = IF i <= n THEN left[i] ELSE A2[i - n]
    <3> DEFINE T == Seq(Chars)
    <3>1. left \in Seq(T) /\ A2 \in Seq(T) /\ Len(left) = n /\ Len(A2) = p2 - 1
      BY <1>3, <2>5
    <3> HIDE DEF T
    <3>2. /\ all \in Seq(T) /\ Len(all) = Len(left) + Len(A2)
          /\ \A i \in 1 .. Len(left) + Len(A2) :
               all[i] = IF i <= Len(left) THEN left[i] ELSE A2[i - Len(left)]
      <4> DEFINE x == left
                 y == A2
      <4>1. x \in Seq(T) /\ y \in Seq(T)
        BY <3>1
      <4> HIDE DEF x, y
      <4>2. /\ x \o y \in Seq(T) /\ Len(x \o y) = Len(x) + Len(y)
            /\ \A i \in 1 .. Len(x) + Len(y) : (x \o y)[i] = IF i <= Len(x) THEN x[i] ELSE y[i - Len(x)]
        BY <4>1, ConcatProperties
      <4> QED BY <4>2 DEF x, y
    <3> QED BY <3>1, <3>2 DEF T
  <2> HIDE DEF all
  <2>7. Len(all) = Len(After(R2)) /\ Len(all) = (p2 + n) - 1
    BY <1>1, <1>3, <2>6
  <2>8. ASSUME NEW i \in 1 .. Len(all) PROVE all[i] = After(R2)[i]
    <3>1. After(R2)[i] = R2[i + 1] /\ i \in 1 .. n + (p2 - 1)
      BY <1>1, <1>3, <2>7, <2>6
    <3>2. CASE i < n
      <4>1. /\ i <= n /\ i \in 1 .. n - 1 /\ i + 1 \in 1 .. n
            /\ ((n - 1) - i) + 1 \in 1 .. n - 1 /\ ((n - 1) - i) + 1 \in 1 .. p - 1
            /\ (((n - 1) - i) + 1) + 1 = (n + 2) - (i + 1)
        BY <1>1, <3>1, <3>2
      <4>2. all[i] = V[i]
        BY <2>5, <2>6, <3>1, <4>1
      <4>3. V[i] = S[((n - 1) - i) + 1]
        BY <2>3, <4>1
      <4>4. S[((n - 1) - i) + 1] = A[((n - 1) - i) + 1]
        BY <2>2, <4>1
      <4>5. A[((n - 1) - i) + 1] = P[(n + 2) - (i + 1)]
        BY <1>3, <4>1
      <4>6. R2[i + 1] = P[(n + 2) - (i + 1)]
        BY <1>1, <4>1
      <4> QED BY <3>1, <4>2, <4>3, <4>4, <4>5, <4>6
    <3>3. CASE i = n
      <4>1. i <= n /\ i + 1 = 1 + n /\ 1 \in 1 .. p2
        BY <1>1, <3>3
      <4>2. all[i] = P2[1]
        BY <2>5, <2>6, <3>1, <3>3, <4>1
      <4>3. R2[1 + n] = P2[1]
        BY <1>1, <4>1
      <4> QED BY <3>1, <4>1, <4>2, <4>3
    <3>4. CASE i > n
      <4> DEFINE k == i - n
      <4>1. ~(i <= n) /\ k \in 1 .. p2 - 1 /\ k + 1 \in 1 .. p2 /\ (k + 1) + n = i + 1
        BY <1>1, <3>1, <3>4
      <4>2. all[i] = A2[k]
        BY <2>6, <3>1, <4>1
      <4> HIDE DEF k
      <4>3. A2[k] = P2[k + 1]
        BY <1>3, <4>1
      <4>4. R2[(k + 1) + n] = P2[k + 1]
        BY <1>1, <4>1
      <4> QED BY <3>1, <4>1, <4>2, <4>3, <4>4
    <3> QED BY <1>1, <3>1, <3>2, <3>3, <3>4
  <2>9. all = After(R2)
    BY <1>3, <2>6, <2>7, <2>8, SameTexts
  <2> QED BY <2>9 DEF all, left, one, V, S
<1> QED BY <1>4, <1>5, <1>6 DEF A, A2, Walked

\* What is behind the document and ahead of it, in the words of UndoHistory.
Lines(Q, F) ==
    /\ Q \in Seq(Seq(Chars)) /\ Len(Q) >= 1 /\ buffer = Q[1]
    /\ F \in Seq(Seq(Chars)) /\ Len(F) >= 1 /\ buffer = F[1]
    /\ Texts(Undone, buffer, UndoGroups) = After(Q)
    /\ Texts(Redone, buffer, unre.redofirst) = After(F)

\* A history gives them.
LEMMA KeptLines == \A Q, F : Sound /\ Kept(Q, F) => Lines(Q, F)
<1> SUFFICES ASSUME NEW Q, NEW F, Sound, Kept(Q, F) PROVE Lines(Q, F)
  OBVIOUS
<1>1. Shape(Doc) /\ Trail(Doc, Q, F) /\ Doc.buffer = buffer /\ Doc.unre = unre
  BY DEF Sound, Kept, Doc
<1>2. /\ Q \in Seq(Seq(Chars)) /\ F \in Seq(Seq(Chars)) /\ buffer = Q[1] /\ buffer = F[1]
      /\ Len(Q) = Len(Behind(Doc)) + 1 /\ Len(F) = Len(unre.redofirst) + 1
      /\ Behind(Doc) \in Seq(Group) /\ unre.redofirst \in Seq(Group)
      /\ Len(Behind(Doc)) \in Nat /\ Len(unre.redofirst) \in Nat
  BY <1>1, TrailTexts, BehindIs, ShapeParts, LenProperties
<1>3. UndoGroups = Behind(Doc)
  BY <1>1 DEF UndoGroups, Behind
<1>4. Back(Behind(Doc), Q) /\ Ahead(unre.redofirst, F)
  BY <1>1 DEF Trail
<1>5. Texts(Undone, buffer, UndoGroups) = After(Q)
  BY <1>2, <1>3, <1>4, TextsBehind
<1>6. Texts(Redone, buffer, unre.redofirst) = After(F)
  BY <1>2, <1>4, TextsAhead
<1> QED BY <1>2, <1>5, <1>6 DEF Lines

\* A walk of no steps.
LEMMA WentNowhereIs ==
    ASSUME NEW P \in Seq(Seq(Chars)), NEW P2 \in Seq(Seq(Chars)),
           NEW R \in Seq(Seq(Chars)), NEW R2 \in Seq(Seq(Chars)), Went(P, P2, R, R2, 0)
    PROVE  R = P /\ R2 = P2
<1>1. /\ Len(P) \in Nat /\ Len(P2) \in Nat /\ Len(R) = Len(P) /\ Len(R2) = Len(P2)
      /\ \A i \in 1 .. Len(R) : R[i] = P[i + 0]
      /\ \A i \in 1 .. Len(P2) : R2[i + 0] = P2[i]
  BY LenProperties DEF Went
<1>2. \A i \in 1 .. Len(R) : R[i] = P[i]
  BY <1>1
<1>3. \A i \in 1 .. Len(R2) : R2[i] = P2[i]
  BY <1>1
<1> QED BY <1>1, <1>2, <1>3, SameTexts

\* The moves are those of UndoHistory.
LEMMA MovesAllowed ==
    ASSUME NEW Q, NEW F, NEW R, NEW G, Lines(Q, F), Lines(R, G)', Moves(Q, F, R, G, buffer')
    PROVE  [H!Next]_(H!vars)
<1> DEFINE P == After(Q)
           N == After(F)
<1>1. /\ Q \in Seq(Seq(Chars)) /\ Len(Q) >= 1 /\ buffer = Q[1]
      /\ F \in Seq(Seq(Chars)) /\ Len(F) >= 1 /\ buffer = F[1]
      /\ R \in Seq(Seq(Chars)) /\ Len(R) >= 1 /\ buffer' = R[1]
      /\ G \in Seq(Seq(Chars)) /\ Len(G) >= 1 /\ buffer' = G[1]
  BY DEF Lines
<1>2. /\ Texts(Undone, buffer, UndoGroups) = P /\ Texts(Redone, buffer, unre.redofirst) = N
      /\ Texts(Undone, buffer, UndoGroups)' = After(R) /\ Texts(Redone, buffer, unre.redofirst)' = After(G)
  BY DEF Lines
<1>3. /\ P \in Seq(Seq(Chars)) /\ Len(P) = Len(Q) - 1 /\ Len(Q) \in Nat
      /\ \A i \in 1 .. Len(Q) - 1 : P[i] = Q[i + 1]
      /\ N \in Seq(Seq(Chars)) /\ Len(N) = Len(F) - 1 /\ Len(F) \in Nat
      /\ After(R) \in Seq(Seq(Chars)) /\ Len(After(R)) = Len(R) - 1 /\ Len(R) \in Nat
      /\ \A i \in 1 .. Len(R) - 1 : After(R)[i] = R[i + 1]
      /\ After(G) \in Seq(Seq(Chars)) /\ Len(After(G)) = Len(G) - 1
  BY <1>1, AfterIs
<1> HIDE DEF P, N
<1>4. CASE Forgets(Q, R) /\ G = F /\ R[1] = Q[1]
  <2> DEFINE n == Len(R) - 1
  <2>1. n \in 0 .. Len(P) /\ (n = Len(P) \/ n >= NumUndoLevels) /\ n \in Nat /\ (n - 1) + 1 = n
    BY <1>1, <1>3, <1>4, LevelsAssumption DEF Forgets
  <2>2. After(R) = SubSeq(P, 1, n)
    <3> DEFINE S == SubSeq(P, 1, n)
    <3>1. S \in Seq(Seq(Chars)) /\ Len(S) = n /\ \A k \in 1 .. n : S[k] = P[k]
      <4>1. 1 \in 1 .. Len(P) + 1 /\ n \in 1 - 1 .. Len(P)
        BY <1>1, <1>3, <2>1
      <4> HIDE DEF n
      <4>2. /\ S \in Seq(Seq(Chars)) /\ Len(S) = (n - 1) + 1
            /\ \A k \in 1 .. (n - 1) + 1 : S[k] = P[(1 + k) - 1]
        BY <1>3, <4>1, PartIs
      <4>3. \A k \in 1 .. n : (1 + k) - 1 = k
        BY <2>1
      <4> HIDE DEF S
      <4> QED BY <2>1, <4>2, <4>3
    <3> HIDE DEF S
    <3>2. ASSUME NEW k \in 1 .. n PROVE S[k] = After(R)[k]
      <4>1. k + 1 \in 1 .. Len(R) /\ k \in 1 .. Len(Q) - 1 /\ k \in 1 .. Len(R) - 1
        BY <1>3, <2>1
      <4>2. R[k + 1] = Q[k + 1]
        BY <1>4, <4>1 DEF Forgets
      <4> QED BY <1>3, <3>1, <4>1, <4>2
    <3>3. S = After(R)
      BY <1>3, <3>1, <3>2, SameTexts
    <3> QED BY <3>3 DEF S
  <2> HIDE DEF n
  <2>3. H!Remember(Texts(Undone, buffer, UndoGroups))
    <3>1. \E k \in 0 .. Len(P) : (k = Len(P) \/ k >= NumUndoLevels) /\ After(R) = SubSeq(P, 1, k)
      BY <2>1, <2>2
    <3> QED BY <1>2, <3>1 DEF H!Remember
  <2>4. buffer' = buffer /\ Texts(Redone, buffer, unre.redofirst)' = Texts(Redone, buffer, unre.redofirst)
    BY <1>1, <1>2, <1>4 DEF N
  <2>5. H!Forget
    BY <2>3, <2>4 DEF H!Forget
  <2> QED BY <2>5 DEF H!Next
<1>5. CASE (Starts(Q, R) \/ Continues(Q, R)) /\ G = <<buffer'>>
  <2>1. After(G) = <<>>
    <3>1. Len(G) = 1
      BY <1>5
    <3> QED BY <1>3, <3>1, EmptySeq
  <2>2. CASE Starts(Q, R)
    <3> DEFINE n == Len(R) - 1
               all == <<buffer>> \o P
    <3>1. n \in 0 .. Len(Q) /\ (n = Len(Q) \/ n >= NumUndoLevels) /\ n \in Nat /\ (n - 1) + 1 = n
          /\ \A i \in 1 .. n : R[i + 1] = Q[i]
      BY <1>3, <2>2 DEF Starts
    <3>2. all = Q
      <4> DEFINE T == Seq(Chars)
                 one == <<buffer>>
      <4>1. buffer \in T
        <5>1. Q \in Seq(T) /\ 1 \in 1 .. Len(Q)
          BY <1>1, <1>3
        <5> HIDE DEF T
        <5> QED BY <1>1, <5>1, ElementOfSeq
      <4> HIDE DEF T
      <4>2. one \in Seq(T) /\ Len(one) = 1 /\ one[1] = buffer /\ P \in Seq(T) /\ Q \in Seq(T)
        BY <1>1, <1>3, <4>1 DEF T
      <4> HIDE DEF one
      <4>3. /\ one \o P \in Seq(T) /\ Len(one \o P) = Len(one) + Len(P)
            /\ \A i \in 1 .. Len(one) + Len(P) :
                 (one \o P)[i] = IF i <= Len(one) THEN one[i] ELSE P[i - Len(one)]
        BY <4>2, ConcatProperties
      <4> DEFINE c == one \o P
      <4> HIDE DEF c
      <4>4. Len(one) + Len(P) = Len(Q)
        BY <1>3, <4>2
      <4>5. ASSUME NEW i \in 1 .. Len(Q) PROVE c[i] = Q[i]
        <5>1. CASE i = 1
          <6>1. 1 \in 1 .. Len(one) + Len(P) /\ 1 <= Len(one)
            BY <1>1, <1>3, <4>2, <4>4
          <6>2. (one \o P)[1] = one[1]
            BY <4>3, <6>1
          <6> QED BY <1>1, <4>2, <5>1, <6>2 DEF c
        <5>2. CASE i # 1
          <6> DEFINE k == i - 1
          <6>1. ~(i <= 1) /\ k \in 1 .. Len(Q) - 1 /\ k + 1 = i
            BY <1>3, <4>5, <5>2
          <6>2. c[i] = P[k]
            BY <4>2, <4>3, <4>4, <4>5, <6>1 DEF c
          <6> HIDE DEF k
          <6>3. P[k] = Q[k + 1]
            BY <1>3, <6>1
          <6> QED BY <6>1, <6>2, <6>3
        <5> QED BY <5>1, <5>2
      <4>6. c = Q
        BY <4>2, <4>3, <4>4, <4>5, SeqEqual DEF c
      <4> QED BY <4>6 DEF c, one
    <3>3. After(R) = SubSeq(Q, 1, n)
      <4> DEFINE S == SubSeq(Q, 1, n)
      <4>1. S \in Seq(Seq(Chars)) /\ Len(S) = n /\ \A k \in 1 .. n : S[k] = Q[k]
        <5>1. 1 \in 1 .. Len(Q) + 1 /\ n \in 1 - 1 .. Len(Q)
          BY <1>1, <1>3, <3>1
        <5> HIDE DEF n
        <5>2. /\ S \in Seq(Seq(Chars)) /\ Len(S) = (n - 1) + 1
              /\ \A k \in 1 .. (n - 1) + 1 : S[k] = Q[(1 + k) - 1]
          BY <1>1, <5>1, PartIs
        <5>3. \A k \in 1 .. n : (1 + k) - 1 = k
          BY <3>1
        <5> HIDE DEF S
        <5> QED BY <3>1, <5>2, <5>3
      <4> HIDE DEF S
      <4>2. ASSUME NEW k \in 1 .. n PROVE S[k] = After(R)[k]
        <5>1. k \in 1 .. Len(R) - 1
          BY <1>3, <3>1
        <5> QED BY <1>3, <3>1, <4>1, <5>1
      <4>3. S = After(R)
        BY <1>3, <4>1, <4>2, SameTexts
      <4> QED BY <4>3 DEF S
    <3> HIDE DEF n, all
    <3>4. H!Remember(<<buffer>> \o Texts(Undone, buffer, UndoGroups))
      <4>1. \E k \in 0 .. Len(all) : (k = Len(all) \/ k >= NumUndoLevels) /\ After(R) = SubSeq(all, 1, k)
        BY <3>1, <3>2, <3>3
      <4>2. <<buffer>> \o Texts(Undone, buffer, UndoGroups) = all
        BY <1>2 DEF all
      <4> QED BY <1>2, <4>1, <4>2 DEF H!Remember
    <3>5. H!StartChange
      BY <1>2, <2>1, <3>4 DEF H!StartChange
    <3> QED BY <3>5 DEF H!Next
  <2>3. CASE Continues(Q, R)
    <3>1. Len(R) = Len(Q) /\ Len(Q) >= 2 /\ \A i \in 2 .. Len(Q) : R[i] = Q[i]
      BY <2>3 DEF Continues
    <3>2. P # <<>>
      <4> DEFINE q == Len(Q)
                 k == Len(P)
      <4>1. Len(P) # 0
        <5>1. k = q - 1 /\ q \in Nat /\ q >= 2
          BY <1>3, <3>1
        <5> HIDE DEF q, k
        <5>2. k # 0
          BY <5>1
        <5> QED BY <5>2 DEF k
      <4> HIDE DEF q, k
      <4> QED BY <1>3, <4>1, EmptySeq
    <3>3. After(R) = P
      <4>1. Len(After(R)) = Len(P)
        BY <1>3, <3>1
      <4>2. ASSUME NEW i \in 1 .. Len(P) PROVE P[i] = After(R)[i]
        <5>1. i \in 1 .. Len(Q) - 1 /\ i \in 1 .. Len(R) - 1 /\ i + 1 \in 2 .. Len(Q)
          BY <1>3, <3>1, <4>2
        <5> QED BY <1>3, <3>1, <5>1
      <4> QED BY <1>3, <4>1, <4>2, SameTexts
    <3>4. H!ContinueChange
      BY <1>2, <2>1, <3>2, <3>3 DEF H!ContinueChange
    <3> QED BY <3>4 DEF H!Next
  <2> QED BY <1>5, <2>2, <2>3
<1>6. ASSUME NEW n \in Nat, Went(Q, F, R, G, n) PROVE [H!Next]_(H!vars)
  <2>1. CASE n = 0
    <3>1. R = Q /\ G = F
      BY <1>1, <1>6, <2>1, WentNowhereIs
    <3> QED BY <1>1, <1>2, <3>1 DEF H!vars, P, N
  <2>2. CASE n # 0
    <3>1. /\ n \in 1 .. Len(P) /\ R[1] = P[n]
          /\ After(R) = SubSeq(P, n + 1, Len(P))
          /\ After(G) = Reverse(SubSeq(P, 1, n - 1)) \o <<F[1]>> \o N
      <4>1. n \in Nat \ {0}
        BY <1>6, <2>2
      <4>2. Walked(Q, F, R, G, n)
        BY <1>1, <1>6, <4>1, WentTexts
      <4> QED BY <4>2, Zenon DEF P, N, Walked
    <3>2. H!Undo(n)
      <4>1. /\ buffer' = Texts(Undone, buffer, UndoGroups)[n]
            /\ Texts(Undone, buffer, UndoGroups)'
                 = SubSeq(Texts(Undone, buffer, UndoGroups), n + 1, Len(Texts(Undone, buffer, UndoGroups)))
        BY <1>1, <1>2, <3>1
      <4>2. Texts(Redone, buffer, unre.redofirst)'
              = Reverse(SubSeq(P, 1, n - 1)) \o <<buffer>> \o Texts(Redone, buffer, unre.redofirst)
        BY <1>1, <1>2, <3>1
      <4> QED BY <1>2, <4>1, <4>2 DEF H!Undo, H!Reverse, Reverse
    <3> QED BY <1>2, <3>1, <3>2 DEF H!Next
  <2> QED BY <2>1, <2>2
<1>7. ASSUME NEW n \in Nat, Went(F, Q, G, R, n) PROVE [H!Next]_(H!vars)
  <2>1. CASE n = 0
    <3>1. R = Q /\ G = F
      BY <1>1, <1>7, <2>1, WentNowhereIs
    <3> QED BY <1>1, <1>2, <3>1 DEF H!vars, P, N
  <2>2. CASE n # 0
    <3>1. /\ n \in 1 .. Len(N) /\ G[1] = N[n]
          /\ After(G) = SubSeq(N, n + 1, Len(N))
          /\ After(R) = Reverse(SubSeq(N, 1, n - 1)) \o <<Q[1]>> \o P
      <4>1. n \in Nat \ {0}
        BY <1>7, <2>2
      <4>2. Walked(F, Q, G, R, n)
        BY <1>1, <1>7, <4>1, WentTexts
      <4> QED BY <4>2, Zenon DEF P, N, Walked
    <3>2. H!Redo(n)
      <4>1. /\ buffer' = Texts(Redone, buffer, unre.redofirst)[n]
            /\ Texts(Redone, buffer, unre.redofirst)'
                 = SubSeq(Texts(Redone, buffer, unre.redofirst), n + 1, Len(Texts(Redone, buffer, unre.redofirst)))
        BY <1>1, <1>2, <3>1
      <4>2. Texts(Undone, buffer, UndoGroups)'
              = Reverse(SubSeq(N, 1, n - 1)) \o <<buffer>> \o Texts(Undone, buffer, UndoGroups)
        BY <1>1, <1>2, <3>1
      <4> QED BY <1>2, <4>1, <4>2 DEF H!Redo, H!Reverse, Reverse
    <3> QED BY <1>2, <3>1, <3>2 DEF H!Next
  <2> QED BY <2>1, <2>2
<1>8. CASE R = <<buffer'>> /\ G = <<buffer'>> /\ buffer' = Q[1]
  <2>1. Len(R) = 1 /\ Len(G) = 1 /\ buffer' = buffer
    BY <1>1, <1>8
  <2>2. After(R) = <<>> /\ After(G) = <<>>
    BY <1>3, <2>1, EmptySeq
  <2>3. H!Clear
    BY <1>2, <2>1, <2>2 DEF H!Clear
  <2> QED BY <2>3 DEF H!Next
<1> QED BY <1>4, <1>5, <1>6, <1>7, <1>8 DEF Moves

\* Undo and redo walk along a line of texts (UndoHistory): whatever was edited, what
\* they show are exactly the texts between the changes, the last NumUndoLevels are never
\* forgotten, and only an edit cuts off what is ahead (undo_redo.c).
THEOREM SpecHistory == Spec => History
<1>1. Init => H!Init
  <2> SUFFICES ASSUME Init PROVE H!Init
    OBVIOUS
  <2>1. buffer = File /\ unre.first = <<>> /\ unre.redofirst = <<>> /\ unre.current.entries = <<>>
    BY DEF Init, doc_unre_init, unregroup_new
  <2>2. Len(UndoGroups) = 0 /\ Len(unre.redofirst) = 0
    BY <2>1 DEF UndoGroups
  <2>3. Texts(Undone, buffer, UndoGroups) = <<>> /\ Texts(Redone, buffer, unre.redofirst) = <<>>
    BY <2>2 DEF Texts
  <2> QED BY <2>1, <2>3, FileAssumption DEF H!Init
<1>2. (\A Q, F : Sound /\ Kept(Q, F) => Lines(Q, F))'
  BY KeptLines, PTL
<1>3. IInv /\ [Next]_vars => [H!Next]_(H!vars)
  <2> SUFFICES ASSUME IInv, [Next]_vars PROVE [H!Next]_(H!vars)
    OBVIOUS
  <2>1. PICK Q, F : Kept(Q, F)
    BY DEF IInv
  <2>2. Stepped(Q, F) /\ Sound
    BY <2>1, NextStepped DEF IInv
  <2>3. PICK R, G : Kept(R, G)' /\ Moves(Q, F, R, G, buffer')
    BY <2>2 DEF Stepped
  <2>4. Lines(Q, F)
    BY <2>1, <2>2, KeptLines
  <2>5. Lines(R, G)'
    BY <1>2, <2>2, <2>3 DEF Stepped
  <2> QED BY <2>3, <2>4, <2>5, MovesAllowed
<1> QED BY <1>1, <1>3, SpecIInv, PTL DEF Spec, History, H!Spec

=============================================================================
