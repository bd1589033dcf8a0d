----------------------------- MODULE DirtyText ------------------------------
(***************************************************************************)
(* What the list of regions promises: which characters of a text need to be*)
(* looked at again.  Every character carries a mark of its own, which it   *)
(* keeps wherever it moves.                                                *)
(***************************************************************************)
EXTENDS Integers, Sequences

CONSTANT MaxLen   \* bound: the length of the text

VARIABLE dirty    \* for every character of the text, whether it needs a scan

\* `text' with the characters from a up to b marked as v
Marked(text, a, b, v) == [i \in DOMAIN text |-> IF i > a /\ i <= b THEN v ELSE text[i]]

TypeOK == dirty \in UNION {[1 .. n -> BOOLEAN] : n \in 0 .. MaxLen}

Init == dirty = <<>>

Insert(p, n) ==
    dirty' = SubSeq(dirty, 1, p) \o [i \in 1 .. n |-> TRUE] \o SubSeq(dirty, p + 1, Len(dirty))

\* The characters from so up to eo go; those that stay of ms up to me are marked.
Delete(so, eo, ms, me) ==
    LET marked == Marked(dirty, ms, me, TRUE)
    IN dirty' = SubSeq(marked, 1, so) \o SubSeq(marked, eo + 1, Len(marked))

\* A scan is done up to `at'; it leaves the part up to `end' to be done.
Scanned(at, end) == dirty' = Marked(Marked(dirty, 0, at, FALSE), at, end, TRUE)

Mark(a, b) == dirty' = Marked(dirty, a, b, TRUE)

Next ==
    LET n == Len(dirty) IN
    \/ \E p \in 0 .. n : \E k \in 1 .. MaxLen - n : Insert(p, k)
    \/ \E so \in 0 .. n, eo \in 0 .. n, ms \in 0 .. n, me \in 0 .. n :
           ms <= so /\ so < eo /\ eo <= me /\ Delete(so, eo, ms, me)
    \/ \E at \in 0 .. n, end \in 0 .. n : Scanned(at, end)
    \/ \E a \in 0 .. n, b \in 0 .. n : Mark(a, b)

Spec == Init /\ [][Next]_dirty
=============================================================================
