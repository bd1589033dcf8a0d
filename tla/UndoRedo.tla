------------------------------ MODULE UndoRedo ------------------------------
(***************************************************************************)
(* The undo history of one document (undo_redo.c) with the text buffer it  *)
(* replays on and the modified flag it restores: the signal handlers and   *)
(* the programmatic edits of document.c feed it, undo, redo and their -all *)
(* forms replay it, the end of a save re-labels it.                        *)
(*                                                                         *)
(* A group is undone or redone as one change.  It keeps its entries newest *)
(* first and in `changed' what doc->modified is to become when the group   *)
(* is undone.  The lists of groups are sequences, num_groups is the length *)
(* of the first.                                                           *)
(***************************************************************************)
EXTENDS Integers, Sequences, SequencesExt

CONSTANTS
    Chars,          \* the characters
    Snippets,       \* the texts that are typed or inserted in one go
    Blanks,         \* those that start a new group when typed or deleted
    NumUndoLevels,  \* main_v->props.num_undo_levels
    ClearOnSave,    \* main_v->props.clear_undo_on_save
    File,           \* the text of the file that was opened
    Mixes,          \* what a behaviour may consist of: records of a set of
                    \* operations and a bound for the length of the buffer
    MaxGroups       \* bound: the length of either list of groups

AllOps == {"type", "delete", "cut", "paste", "replace", "twostrings",
           "undo", "redo", "undo_all", "redo_all", "save"}

ASSUME CharsAssumption == Blanks \subseteq Chars /\ Snippets \subseteq Seq(Chars) \ {<<>>}
ASSUME FileAssumption == File \in Seq(Chars)
ASSUME LevelsAssumption == NumUndoLevels \in Nat \ {0}
ASSUME MixesAssumption == \A m \in Mixes : m.ops \subseteq AllOps /\ m.maxLen \in Nat
ASSUME BoundsAssumption == ClearOnSave \in BOOLEAN /\ MaxGroups \in Nat

VARIABLES
    buffer,    \* the text of the document
    modified,  \* doc->modified
    unre,      \* doc->unre: the group being built, the undo and the redo list
    disk,      \* the text of the file
    mix,       \* the mix of operations of this behaviour
    met        \* the situations met that the flags do not provide for

vars == <<buffer, modified, unre, disk, mix, met>>

\* A save while the group being built has entries, or while there is something
\* to redo; a change whose group began with a `changed' that is not doc->modified
\* (redo and the insertion of two strings leave an empty group like that).
Situations == {"save in a group", "save before redo", "flag behind"}

MaxLen == mix.maxLen

Entry == [op : {"UndoInsert", "UndoDelete"}, start : Nat, end : Nat, text : Seq(Chars)]
Group == [entries : Seq(Entry), changed : BOOLEAN]
Unre == [current : Group, first : Seq(Group), redofirst : Seq(Group)]

-----------------------------------------------------------------------------
(* GtkTextBuffer: an offset past the end is the end.                       *)

Offset(b, n) == IF n > Len(b) THEN Len(b) ELSE n

Slice(b, s, e) == SubSeq(b, s + 1, e)

Inserted(b, pos, t) ==
    LET p == Offset(b, pos) IN SubSeq(b, 1, p) \o t \o SubSeq(b, p + 1, Len(b))

Deleted(b, s, e) ==
    SubSeq(b, 1, Offset(b, s)) \o SubSeq(b, Offset(b, e) + 1, Len(b))

-----------------------------------------------------------------------------
(* undo_redo.c                                                             *)

unregroup_new(mod) == [entries |-> <<>>, changed |-> mod]

doc_unre_init(mod) ==
    [current |-> unregroup_new(mod), first |-> <<>>, redofirst |-> <<>>]

doc_unre_new_group(U, mod) ==
    LET groups == <<U.current>> \o U.first IN
    IF U.current.entries = <<>> THEN U
    ELSE [U EXCEPT !.current = unregroup_new(mod),
                   !.first = IF Len(groups) > NumUndoLevels THEN Front(groups) ELSE groups]

Merges(entry, op, start, end) ==
    \/ entry.end = start /\ entry.op = "UndoInsert" /\ op = "UndoInsert"
    \/ (entry.start = end \/ start = entry.start) /\ entry.op = "UndoDelete" /\ op = "UndoDelete"

MergedOneTooFar(entry, op, start, end, text) ==
    IF op = "UndoInsert" THEN [entry EXCEPT !.text = @ \o text, !.end = end]
    ELSE IF entry.start = end THEN [entry EXCEPT !.text = text \o @, !.start = start - 1]
    ELSE [entry EXCEPT !.text = @ \o text, !.end = @ + (end - start)]

\* A run of typing grows one entry; backspaces grow it to the left, deletes
\* to the right.
Merged(entry, op, start, end, text) ==
    IF op = "UndoInsert" THEN [entry EXCEPT !.text = @ \o text, !.end = end]
    ELSE IF entry.start = end THEN [entry EXCEPT !.text = text \o @, !.start = start]
    ELSE [entry EXCEPT !.text = @ \o text, !.end = @ + (end - start)]

doc_unre_addKeepsRedo(U, op, start, end, text) ==
    LET old == U.current.entries IN
    IF old # <<>> /\ Merges(Head(old), op, start, end)
    THEN [U EXCEPT !.current.entries[1] = Merged(@, op, start, end, text)]
    ELSE [U EXCEPT !.current.entries =
            <<[op |-> op, start |-> start, end |-> end, text |-> text]>> \o @]

doc_unre_add(U, op, start, end, text) ==
    LET old == U.current.entries IN
    IF old # <<>> /\ Merges(Head(old), op, start, end)
    THEN [U EXCEPT !.current.entries[1] = Merged(@, op, start, end, text)]
    ELSE [U EXCEPT !.current.entries =
            <<[op |-> op, start |-> start, end |-> end, text |-> text]>> \o @,
                   !.redofirst = <<>>]

\* doc_unre_test_last_entry, with one side, "start" or "end", to be tested
LastEntryIs(U, op, side, pos) ==
    \/ U.current.entries = <<>>
    \/ Head(U.current.entries).op = op /\ Head(U.current.entries)[side] = pos

\* Op applied along the entries of a group, or the groups of a list.
Along(Op(_, _), b, seq) ==
    LET text[i \in 0 .. Len(seq)] == IF i = 0 THEN b ELSE Op(text[i - 1], seq[i])
    IN text[Len(seq)]

\* unregroup_activate, one entry
Reverted(b, entry) ==
    IF entry.op = "UndoInsert" THEN Deleted(b, entry.start, entry.end)
    ELSE Inserted(b, entry.start, entry.text)
Repeated(b, entry) ==
    IF entry.op = "UndoInsert" THEN Inserted(b, entry.start, entry.text)
    ELSE Deleted(b, entry.start, entry.end)

UndoneOldestFirst(b, group) == Along(Reverted, b, Reverse(group.entries))

\* unregroup_activate of a whole group: undo from the newest entry to the
\* oldest, redo the other way.
Undone(b, group) == Along(Reverted, b, group.entries)
Redone(b, group) == Along(Repeated, b, Reverse(group.entries))

-----------------------------------------------------------------------------
(* Operations take a document, a record of its three variables,        *)
(* and return it changed.                                                  *)

Doc == [buffer |-> buffer, modified |-> modified, unre |-> unre]

Become(D) ==
    /\ Len(D.buffer) <= MaxLen
    /\ Len(D.unre.first) <= MaxGroups
    /\ buffer' = D.buffer
    /\ modified' = D.modified
    /\ unre' = D.unre
    /\ UNCHANGED <<disk, mix>>

FlagBehind == unre.current.entries = <<>> /\ unre.current.changed # modified

Changed(D) ==
    /\ Become(D)
    /\ met' = met \union (IF FlagBehind /\ D # Doc THEN {"flag behind"} ELSE {})

NewGroup(D) == [D EXCEPT !.unre = doc_unre_new_group(@, D.modified)]

\* gtk_text_buffer_insert with doc_unre_add, and doc_set_modified(doc, 1)
Insert(D, pos, t) ==
    [buffer |-> Inserted(D.buffer, pos, t), modified |-> TRUE,
     unre |-> doc_unre_add(D.unre, "UndoInsert", pos, pos + Len(t), t)]
Delete(D, s, e) ==
    [buffer |-> Deleted(D.buffer, s, e), modified |-> TRUE,
     unre |-> doc_unre_add(D.unre, "UndoDelete", s, e, Slice(D.buffer, s, e))]

doc_buffer_insert_text_lcb(D, pos, t) ==
    LET follows == LastEntryIs(D.unre, "UndoInsert", "end", pos) IN
    Insert(IF ~follows \/ Head(t) \in Blanks THEN NewGroup(D) ELSE D, pos, t)

doc_buffer_delete_range_lcb(D, start, end) ==
    LET delete == LastEntryIs(D.unre, "UndoDelete", "start", start)
        backspace == LastEntryIs(D.unre, "UndoDelete", "start", end)
        alone == end - start > 1 \/ D.buffer[end] \in Blanks
    IN Delete(IF alone \/ ~(delete \/ backspace) THEN NewGroup(D) ELSE D, start, end)

doc_cut(D, start, end) ==
    NewGroup(IF start < end THEN doc_buffer_delete_range_lcb(NewGroup(D), start, end)
             ELSE NewGroup(D))

\* Over a selection, with in_paste_operation set.
doc_paste(D, start, end, t) ==
    LET cleared == IF start < end THEN Delete(NewGroup(D), start, end) ELSE NewGroup(D)
    IN NewGroup(Insert(cleared, start, t))

doc_replace_text_backend(D, t, start, end) ==
    LET cleared == IF start < end THEN Delete(D, start, end) ELSE D
        at == IF start < end THEN start ELSE end
    IN IF t = <<>> THEN [cleared EXCEPT !.modified = TRUE] ELSE Insert(cleared, at, t)

doc_replace_text(D, t, start, end) ==
    NewGroup(doc_replace_text_backend(NewGroup(D), t, start, end))

\* The group is closed before the document is marked modified.
doc_insert_two_strings(D, before, after, start, end) ==
    LET first == Insert(NewGroup(D), start, IF start = end THEN before \o after ELSE before)
        both == IF start = end THEN first ELSE Insert(first, end + Len(before), after)
    IN [NewGroup([both EXCEPT !.modified = D.modified]) EXCEPT !.modified = TRUE]

doc_undo(D) ==
    LET U == D.unre
        pending == U.current.entries # <<>>
        group == IF pending THEN U.current ELSE Head(U.first)
    IN IF ~pending /\ U.first = <<>> THEN D
       ELSE [buffer |-> Undone(D.buffer, group), modified |-> group.changed,
             unre |-> [current |-> [entries |-> <<>>, changed |-> group.changed],
                       first |-> IF pending THEN U.first ELSE Tail(U.first),
                       redofirst |-> <<group>> \o U.redofirst]]

doc_redo(D) ==
    LET U == doc_unre_new_group(D.unre, D.modified)
        group == Head(U.redofirst)
        later == Tail(U.redofirst)
    IN IF U.redofirst = <<>> THEN D
       ELSE [buffer |-> Redone(D.buffer, group),
             modified |-> IF later = <<>> THEN TRUE ELSE Head(later).changed,
             unre |-> [U EXCEPT !.first = <<group>> \o @, !.redofirst = later]]

Repeat(Op(_), D, n) ==
    LET after[i \in 0 .. n] == IF i = 0 THEN D ELSE Op(after[i - 1]) IN after[n]

\* while (unre.first) doc_undo: the group being built counts only when there
\* are closed ones.
undo_all(D) ==
    LET U == D.unre IN
    Repeat(doc_undo, D, IF U.first = <<>> THEN 0
                        ELSE Len(U.first) + (IF U.current.entries = <<>> THEN 0 ELSE 1))

redo_all(D) == Repeat(doc_redo, D, Len(D.unre.redofirst))

\* Variant: the closed groups keep their flags.
doc_unre_clear_current(U) == [U EXCEPT !.current.changed = FALSE]

doc_unre_clear_not_modified(U) ==
    [U EXCEPT !.first = [i \in DOMAIN @ |-> [@[i] EXCEPT !.changed = TRUE]],
              !.current.changed = FALSE]

-----------------------------------------------------------------------------

Init ==
    /\ buffer = File
    /\ modified = FALSE
    /\ unre = doc_unre_init(FALSE)
    /\ disk = buffer
    /\ mix \in Mixes
    /\ met = {}

Can(op) == op \in mix.ops

\* What may be selected in the buffer: empty when start = end.
Selections == {r \in (0 .. MaxLen) \X (0 .. MaxLen) : r[1] <= r[2] /\ r[2] <= Len(buffer)}

\* Typing, and a paste whose text arrives after in_paste_operation was reset.
Type ==
    /\ Can("type")
    /\ \E r \in Selections, t \in Snippets :
         r[1] = r[2] /\ Changed(doc_buffer_insert_text_lcb(Doc, r[1], t))

DeleteRange ==
    /\ Can("delete")
    /\ \E r \in Selections :
         r[1] < r[2] /\ Changed(doc_buffer_delete_range_lcb(Doc, r[1], r[2]))

Cut == Can("cut") /\ \E r \in Selections : Changed(doc_cut(Doc, r[1], r[2]))

Paste ==
    /\ Can("paste")
    /\ \E r \in Selections, t \in Snippets : Changed(doc_paste(Doc, r[1], r[2], t))

Replace ==
    /\ Can("replace")
    /\ \E r \in Selections, t \in Snippets \union {<<>>} :
         Changed(doc_replace_text(Doc, t, r[1], r[2]))

InsertTwoStrings ==
    /\ Can("twostrings")
    /\ \E r \in Selections, c, d \in Chars :
         Changed(doc_insert_two_strings(Doc, <<c>>, <<d>>, r[1], r[2]))

Undo == Can("undo") /\ Become(doc_undo(Doc)) /\ UNCHANGED met
Redo == Can("redo") /\ Become(doc_redo(Doc)) /\ UNCHANGED met
UndoAll == Can("undo_all") /\ Become(undo_all(Doc)) /\ UNCHANGED met
RedoAll == Can("redo_all") /\ Become(redo_all(Doc)) /\ UNCHANGED met

\* doc_checkNsave_lcb, CHECKANDSAVE_FINISHED of a save that is not a copy
SaveFinished ==
    /\ Can("save")
    /\ disk' = buffer
    /\ unre' = IF ClearOnSave THEN doc_unre_init(modified)
               ELSE doc_unre_clear_not_modified(unre)
    /\ modified' = FALSE
    /\ met' = met \union {s \in Situations :
                           \/ s = "save in a group" /\ unre.current.entries # <<>>
                           \/ s = "save before redo" /\ unre.redofirst # <<>>}
    /\ UNCHANGED <<buffer, mix>>

Next == \/ Type \/ DeleteRange \/ Cut \/ Paste \/ Replace \/ InsertTwoStrings
        \/ Undo \/ Redo \/ UndoAll \/ RedoAll \/ SaveFinished

Spec == Init /\ [][Next]_vars

-----------------------------------------------------------------------------

TypeOK ==
    /\ buffer \in Seq(Chars)
    /\ disk \in Seq(Chars)
    /\ modified \in BOOLEAN
    /\ unre \in Unre
    /\ mix \in Mixes
    /\ met \subseteq Situations

\* Text can be redone only directly after undo and redo: the group being
\* built is empty then (doc_unre_add drops the redo list with the first entry
\* it starts, and not with one it merges).
RedoOnlyAfterUndo ==
    unre.redofirst # <<>> => unre.current.entries = <<>>

\* A document that is shown as unmodified, and is closed without a question,
\* has the text of its file: undo and redo restore doc->modified from the groups,
\* a save re-labels them.  The three situations break it.
CleanMeansSaved == ~modified => buffer = disk \/ met # {}

\* What can be redone is what was undone last, in a history of the right shape.
RedoKept == TypeOK /\ RedoOnlyAfterUndo

\* The texts that undo (redo) would show one after the other.
Texts(Op(_, _), b, groups) ==
    [i \in 1 .. Len(groups) |-> Along(Op, b, SubSeq(groups, 1, i))]

UndoGroups == (IF unre.current.entries = <<>> THEN <<>> ELSE <<unre.current>>) \o unre.first

\* Undo and redo walk along a line of texts (UndoHistory): replaying
\* the recorded entries on the buffer gives back exactly the texts the
\* document had between the changes, and the last NumUndoLevels are kept.
H == INSTANCE UndoHistory WITH
        past <- Texts(Undone, buffer, UndoGroups),
        text <- buffer,
        future <- Texts(Redone, buffer, unre.redofirst)
History == H!Spec
=============================================================================
