------------------------------ MODULE Regions -------------------------------
(***************************************************************************)
(* The operations of bftextview2_markregion.c on a list of regions: two    *)
(* marks for every stretch of text that has to be scanned (or spell        *)
(* checked) again, one where it starts and one where it ends, in the order *)
(* of the text.  `last', the entry where the next search begins, makes the *)
(* code faster and changes no result; it is left out.  So is the shortcut  *)
(* for a region before or after all others (markregion_handle_generic).    *)
(***************************************************************************)
EXTENDS Integers, Sequences, FiniteSets, FiniteSetsExt

Start(p) == [pos |-> p, is_start |-> TRUE]
End(p) == [pos |-> p, is_start |-> FALSE]

update_offset(marks, offset) ==
    [i \in DOMAIN marks |-> [marks[i] EXCEPT !.pos = @ + offset]]

\* The index of the last mark at or before p; 0 when there is none.
find_prev_or_equal_position(marks, p) == Max({0} \union {i \in DOMAIN marks : marks[i].pos <= p})

\* What is left of the list when the marks before p are removed from its head.
From(marks, p) ==
    SubSeq(marks, 1 + Cardinality({i \in DOMAIN marks : \A j \in 1 .. i : marks[j].pos < p}),
           Len(marks))

\* A scan got as far as `end'.
markregion_region_done(marks, end) ==
    LET rest == From(marks, end + 1) IN
    IF rest # <<>> /\ ~rest[1].is_start THEN <<Start(end)>> \o rest ELSE rest

\* Variant: text inserted in a region does not move its end.
markregion_insert_inside(marks, start, end) ==
    LET at == find_prev_or_equal_position(marks, start)
        after == SubSeq(marks, at + 1, Len(marks))
    IN IF at # 0 /\ marks[at].is_start THEN marks
       ELSE SubSeq(marks, 1, at) \o <<Start(start), End(end)>> \o update_offset(after, end - start)

\* Text was inserted from start to end: it needs scanning, and the rest moves.
markregion_insert(marks, start, end) ==
    LET at == find_prev_or_equal_position(marks, start)
        after == update_offset(SubSeq(marks, at + 1, Len(marks)), end - start)
    IN IF start = end THEN marks
       ELSE IF at # 0 /\ marks[at].is_start
            THEN SubSeq(marks, 1, at) \o after
       ELSE IF at # 0 /\ marks[at].pos = start
            THEN SubSeq(marks, 1, at - 1) \o <<End(end)>> \o after
       ELSE SubSeq(marks, 1, at) \o <<Start(start), End(end)>> \o after

\* Variant: the offset is applied to the start of the deletion too.
markregion_delete_twice(marks, start, end, offset) ==
    LET at == find_prev_or_equal_position(marks, start)
        kept == IF at # 0 /\ marks[at].is_start THEN SubSeq(marks, 1, at)
                ELSE SubSeq(marks, 1, at) \o <<Start(start)>>
        rest == From(SubSeq(marks, at + 1, Len(marks)), start)
    IN IF start = end THEN marks
       ELSE kept \o update_offset(<<End(end)>> \o rest, offset)

\* Variant: a region that begins where the deleted text ends is not merged.
markregion_delete_apart(marks, start, end, offset) ==
    LET comparepos == end - offset
        at == find_prev_or_equal_position(marks, start)
        kept == IF at # 0 /\ marks[at].is_start THEN SubSeq(marks, 1, at)
                ELSE IF at # 0 /\ marks[at].pos = start THEN SubSeq(marks, 1, at - 1)
                ELSE SubSeq(marks, 1, at) \o <<Start(start)>>
        rest == From(SubSeq(marks, at + 1, Len(marks)), comparepos)
    IN IF start = end THEN (IF start = 0 THEN From(marks, comparepos + 1) ELSE marks)
       ELSE IF rest = <<>> THEN kept \o <<End(end)>>
       ELSE kept \o (IF rest[1].is_start THEN <<End(end)>> ELSE <<>>) \o update_offset(rest, offset)

\* Text was deleted: what is now from start to end needs scanning, and all that
\* was beyond end - offset moves by offset.
markregion_delete(marks, start, end, offset) ==
    LET comparepos == end - offset
        at == find_prev_or_equal_position(marks, start)
        kept == IF at # 0 /\ marks[at].is_start THEN SubSeq(marks, 1, at)
                ELSE IF at # 0 /\ marks[at].pos = start THEN SubSeq(marks, 1, at - 1)
                ELSE SubSeq(marks, 1, at) \o <<Start(start)>>
        rest == From(SubSeq(marks, at + 1, Len(marks)), comparepos)
        moved == update_offset(rest, offset)
    IN IF start = end THEN (IF start = 0 THEN From(marks, comparepos + 1) ELSE marks)
       ELSE IF rest = <<>> THEN kept \o <<End(end)>>
       ELSE IF rest[1].is_start /\ rest[1].pos = comparepos THEN kept \o Tail(moved)
       ELSE IF rest[1].is_start THEN kept \o <<End(end)>> \o moved
       ELSE kept \o moved

\* What the scanner found to need another scan, without a change of the text.
markregion_nochange(marks, start, end) == markregion_delete(marks, start, end, 0)

\* The regions that markregion_get_region gives out, in turn.
Regions(marks) == {<<marks[i].pos, marks[i + 1].pos>> : i \in {j \in 1 .. Len(marks) - 1 : j % 2 = 1}}
=============================================================================
