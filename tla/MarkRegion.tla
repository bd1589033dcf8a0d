----------------------------- MODULE MarkRegion -----------------------------
(***************************************************************************)
(* A text and its regions to scan (btv->scanning; btv->spellcheck has the  *)
(* same life), as the signals of the text buffer (bftextview2.c), the      *)
(* scanner (bftextview2_scanner.c) and the spell checker change them.      *)
(*                                                                         *)
(* The list of marks implements DirtyText.                                 *)
(***************************************************************************)
EXTENDS Regions

CONSTANT MaxText   \* bound: the length of the text

ASSUME MaxTextAssumption == MaxText \in Nat

VARIABLES
    length,     \* of the text
    marks       \* the list of regions

regionVars == <<length, marks>>

RegionInit == length = 0 /\ marks = <<>>

\* bftextview2_insert_text_after_lcb
AfterInsert(p, n) ==
    /\ p <= length /\ length + n <= MaxText
    /\ length' = length + n
    /\ marks' = markregion_insert(marks, p, p + n)

\* bftextview2_delete_range_lcb: the surroundings of the deleted text, up to a
\* space or 32 characters and at least one where there is one, are marked as well.
AfterDelete(so, eo, mso, meo) ==
    /\ so < eo
    /\ mso < so \/ (mso = 0 /\ so = 0)
    /\ meo > eo \/ (meo = length /\ eo = length)
    /\ length' = length - (eo - so)
    /\ marks' = markregion_delete(marks, mso, meo + so - eo, so - eo)

\* Where bftextview2_run_scanner may stop: the first region, with those close behind
\* it (markregion_find_region2scan), enlarged as the scan goes on.
Reach(end) == \E r \in Regions(marks) : end >= r[2] /\ end <= length

\* bftextview2_run_scanner, at the end of a run that came from the first region to
\* `at' of `end'; spellcheck_region stops at `at' likewise, without more to mark.
RunEnds(at, end) ==
    /\ marks # <<>> /\ Reach(end) /\ at <= end
    /\ LET done == markregion_region_done(marks, at)
       IN marks' = IF at < end THEN markregion_nochange(done, at, end) ELSE done
    /\ UNCHANGED length

\* spellcheck_region
RunSpellcheck(at) ==
    /\ marks # <<>> /\ at <= length
    /\ marks' = markregion_region_done(marks, at)
    /\ UNCHANGED length

\* mark_needscanning, and the whole text in bluefish_text_view_rescan.
NeedsScan(start, end) ==
    /\ end > 0 /\ start <= length
    /\ LET bufferend == IF end > length THEN length ELSE end
       IN marks' = IF bufferend <= start /\ end > length THEN marks
                   ELSE markregion_nochange(marks, start, bufferend)
    /\ UNCHANGED length

\* cleanup_scanner
Cleanup ==
    /\ marks # <<>>
    /\ marks' = markregion_region_done(marks, MaxText)
    /\ UNCHANGED length

RegionNext ==
    \/ \E p \in 0 .. length, n \in 1 .. MaxText : AfterInsert(p, n)
    \/ \E so \in 0 .. length, eo \in 0 .. length, mso \in 0 .. length, meo \in 0 .. length :
           mso <= so /\ eo <= meo /\ AfterDelete(so, eo, mso, meo)
    \/ \E at \in 0 .. length, end \in 0 .. length : RunEnds(at, end)
    \/ \E at \in 0 .. length : RunSpellcheck(at)
    \/ \E start \in 0 .. length, end \in 1 .. MaxText + 1 : start <= end /\ NeedsScan(start, end)
    \/ Cleanup

RegionSpec == RegionInit /\ [][RegionNext]_regionVars

-----------------------------------------------------------------------------

RegionTypeOK ==
    /\ length \in 0 .. MaxText
    /\ \A i \in DOMAIN marks : marks[i] \in [pos : 0 .. MaxText, is_start : BOOLEAN]

\* markregion_verify_integrity: starts and ends alternate, from a start to an end,
\* and every mark is before the next one; so no region is empty and none touches the
\* next.  None is outside the text.
Integrity ==
    /\ Len(marks) % 2 = 0
    /\ \A i \in DOMAIN marks :
        /\ marks[i].is_start <=> i % 2 = 1
        /\ i > 1 => marks[i - 1].pos < marks[i].pos
        /\ marks[i].pos <= length

\* The characters in a region.
Dirty == [i \in 1 .. length |-> \E r \in Regions(marks) : r[1] < i /\ i <= r[2]]

\* Every step of the list is the step of the text where each character has its
\* own mark: no edit and no part of a scan loses a character that has to be looked
\* at, or moves the need for it to another one.
Implements == INSTANCE DirtyText WITH dirty <- Dirty, MaxLen <- MaxText
DirtySpec == Implements!Spec

\* markregion.c after any sequence of changes: a list of the regions that is in order.
InOrder == RegionTypeOK /\ Integrity

=============================================================================
