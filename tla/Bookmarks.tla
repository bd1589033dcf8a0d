----------------------------- MODULE Bookmarks -----------------------------
(***************************************************************************)
(* Bookmarks (bookmark.c): a tree of files and their bookmarks, a hash     *)
(* table from the uri of a file to its row in the tree, marks in the text  *)
(* of the documents that are open, and the list of the session in which    *)
(* the permanent ones are kept until the next start.                       *)
(*                                                                         *)
(* All of it runs in the main loop; each action is one handler.  The tree, *)
(* the hash table and the pointers of the documents are one record, the    *)
(* functions of bookmark.c are operators on it.  A line of a text is one   *)
(* letter and a newline; a document has no two equal lines.  Left out:     *)
(* names and descriptions, the view and its filter, projects, which take   *)
(* over the bookmarks of a window, and a selection as the text.            *)
(***************************************************************************)
EXTENDS Integers, Sequences, FiniteSets, SequencesExt

CONSTANTS
    Docs, Uris, Letters,
    Wide,           \* the letters that are two bytes long
    InitDisk,       \* [Uris -> Seq(Letters)]
    NoDoc, Gone,    \* no document; one that was freed
    NoRow, Dangling,
    NoBmark, Unstored,
    MaxBookmarks, MaxLines,  \* bounds
    MaxEvents,      \* bound: how often documents are opened, edited, renamed and changed on disk
    MaxUpset        \* bound: so often something happens that the code does not handle

VARIABLES
    docs,     \* the documents: their state, name and lines
    disk,     \* the lines of each file
    bd,       \* the Tbmarkdata, the Tbmark's and the bmark_parent of each document
    (* what has happened: *)
    events, upset

vars == <<docs, disk, bd, events, upset>>

NoMark == -1
Newline == "\n"
BmarkIds == 1 .. MaxBookmarks
RowIds == 1 .. MaxBookmarks
Closed == [state |-> "closed", uri |-> NoDoc, text |-> << >>]
NoBookmarks == [rows |-> << >>, hash |-> << >>, parent |-> [d \in Docs |-> NoRow],
                bm |-> << >>, misuse |-> FALSE]

-----------------------------------------------------------------------------
(* Texts *)

CharCount(lines) == 2 * Len(lines)
Chars(lines) == [i \in 1 .. CharCount(lines) |-> IF i % 2 = 1 THEN lines[(i + 1) \div 2] ELSE Newline]
Clamp(n, last) == IF n > last THEN last ELSE n
Between(lines, from, to) ==
    IF from >= CharCount(lines) THEN << >>
    ELSE SubSeq(Chars(lines), from + 1, Clamp(to, CharCount(lines)))
LineOf(offset) == offset \div 2

\* strlen: offsets are counted in characters, the length of a text in bytes
Bytes(chars) == Len(chars) + Len(SelectSeq(chars, LAMBDA c : c \in Wide))

\* at the end of a line, gtk_text_iter_forward_to_line_end goes to that of the next
TextForOffset(lines, offset) ==
    Between(lines, offset, IF offset % 2 = 0 THEN offset + 1 ELSE offset + 2)

TmpName(kind, n) == <<kind, n>>
IsTmp(uri) == uri \notin Uris
Without(f, gone) == [x \in DOMAIN f \ gone |-> f[x]]
With(f, x, v) == [y \in DOMAIN f \union {x} |-> IF y = x THEN v ELSE f[y]]
Fresh(f, ids) == CHOOSE i \in ids \ DOMAIN f : \A j \in ids \ DOMAIN f : i <= j

-----------------------------------------------------------------------------
(* The functions of bookmark.c that others are built from *)

\* bmark_update_offset_from_textmark
Updated(S, b) ==
    LET m == S.bm[b] IN
    IF m.doc = NoDoc \/ m.mark = NoMark THEN S
    ELSE IF m.doc = Gone THEN [S EXCEPT !.misuse = TRUE]
    ELSE [S EXCEPT !.bm[b] = [m EXCEPT !.offset = m.mark,
                !.text = Between(docs[m.doc].text, m.mark, m.mark + Bytes(m.text))]]

\* where a bookmark is, once its offset is updated
Place(S, b) == IF S.bm[b].mark = NoMark THEN S.bm[b].offset ELSE S.bm[b].mark

\* bmark_find_bookmark_before_offset: the children up to the first behind the offset
\* are updated; "at" is the place of the one before it in the row, or 0
FindBefore(S, row, offset) ==
    LET ch == S.rows[row].children
        behind == {i \in DOMAIN ch : Place(S, ch[i]) > offset}
        last == IF behind = {} THEN Len(ch) ELSE Min(behind)
    IN [S |-> FoldLeft(Updated, S, SubSeq(ch, 1, last)),
        at |-> IF behind = {} THEN last ELSE last - 1]

UsesFreed(S, d) == S.parent[d] # NoRow /\ S.parent[d] \notin DOMAIN S.rows

\* bmark_get_bmark_at_iter
BmarkAt(S, d, offset) ==
    IF S.parent[d] = NoRow THEN [S |-> S, b |-> NoBmark]
    ELSE LET f == FindBefore(S, S.parent[d], offset)
             ch == S.rows[S.parent[d]].children
             here(i) == i \in DOMAIN ch /\ LineOf(S.bm[ch[i]].mark) = LineOf(offset)
         IN [S |-> f.S, b |-> IF here(f.at) THEN ch[f.at]
                              ELSE IF here(f.at + 1) THEN ch[f.at + 1] ELSE NoBmark]

\* the sort function of the tree: a bookmark comes before the first with a larger offset
Sorted(S, ch, b) ==
    LET larger == {i \in DOMAIN ch : S.bm[ch[i]].offset > S.bm[b].offset}
    IN InsertAt(ch, IF larger = {} THEN Len(ch) + 1 ELSE Min(larger), b)

\* Variant: the document is not told of its row.
ToldNot(S, d, row) == S.parent

\* the document of a new row keeps a pointer to it
Told(S, d, row) == IF d = NoDoc THEN S.parent ELSE [S.parent EXCEPT ![d] = row]

\* bmark_get_iter_at_tree_position, for a new bookmark m
Inserted(S, b, m) ==
    LET known == m.uri \in DOMAIN S.hash
        row == IF known THEN S.hash[m.uri] ELSE Fresh(S.rows, RowIds)
        rows == IF known THEN S.rows ELSE With(S.rows, row, [doc |-> m.doc, children |-> << >>])
        bm == With(S.bm, b, [m EXCEPT !.row = row])
    IN [S EXCEPT !.bm = bm,
                 !.hash = With(@, m.uri, row),
                 !.parent = IF known THEN @ ELSE Told(S, m.doc, row),
                 !.rows = [rows EXCEPT ![row].children = Sorted([S EXCEPT !.bm = bm], @, b)]]

\* bmark_unstore
Unstore(S, b) == [S EXCEPT !.bm[b].stored = Unstored]

\* bmark_store: of what is in the session already, the text stays as it was
Store(S, b) ==
    LET m == S.bm[b]
        len == IF m.doc \in Docs THEN CharCount(docs[m.doc].text) ELSE m.len
    IN IF m.temp THEN S
       ELSE IF IsTmp(m.uri) THEN Unstore(S, b)
       ELSE [S EXCEPT !.bm[b] = [m EXCEPT !.len = len, !.stored =
                [uri |-> IF m.stored = Unstored THEN m.uri ELSE m.stored.uri,
                 text |-> IF m.stored = Unstored THEN m.text ELSE m.stored.text,
                 offset |-> m.offset, len |-> len, seen |-> m.seen]]]

\* Variant: the document keeps its pointer.
CheckRemoveForgets(S, b) ==
    LET m == S.bm[b] IN
    IF Len(S.rows[m.row].children) > 1
    THEN [S EXCEPT !.rows[m.row].children = SelectSeq(@, LAMBDA c : c # b)]
    ELSE [S EXCEPT !.rows = Without(@, {m.row}), !.hash = Without(@, {m.uri}),
                   !.parent = [d \in Docs |-> IF @[d] = m.row THEN Dangling ELSE @[d]]]

\* bmark_check_remove: with its last bookmark goes the row of a file, and its entry
\* in the hash table, which frees the iter that the document points to as well
CheckRemove(S, b) ==
    LET m == S.bm[b]
        last == Len(S.rows[m.row].children) = 1
        found == m.uri \in DOMAIN S.hash
        freed == {m.row} \union (IF found THEN {S.hash[m.uri]} ELSE {})
    IN IF ~last THEN [S EXCEPT !.rows[m.row].children = SelectSeq(@, LAMBDA c : c # b)]
       ELSE [S EXCEPT !.rows = Without(@, {m.row}),
                      !.hash = Without(@, {m.uri}),
                      !.misuse = @ \/ (found /\ m.doc = Gone),
                      !.parent = [d \in Docs |-> IF found /\ d = m.doc THEN NoRow
                                                 ELSE IF @[d] \in freed THEN Dangling ELSE @[d]]]

\* bmark_free
Free(S, b) == [S EXCEPT !.bm = Without(@, {b}), !.misuse = @ \/ S.bm[b].doc = Gone]

Removed(S, b) == Free(Unstore(CheckRemove(S, b), b), b)

\* bmark_add_backend
Add(S, d, offset, temp) ==
    LET b == Fresh(S.bm, BmarkIds)
        m == [row |-> NoRow, uri |-> docs[d].uri, doc |-> d, mark |-> offset, offset |-> offset,
              text |-> TextForOffset(docs[d].text, offset), len |-> 0, temp |-> temp,
              stored |-> Unstored, seen |-> << >>]
    IN Store(Inserted(S, b, m), b)

\* Variant: the entry of the old name is not removed.
RekeyedTwice(hash, old, uri, row) == With(hash, uri, row)

\* the entry of the old name goes, its row is now found under the new one
Rekeyed(hash, old, uri, row) == With(Without(hash, {old}), uri, row)

\* bmark_doc_renamed: the document has its new name already; the pointer moves from
\* the entry of the old name to that of the new one
Renamed(S, d, uri) ==
    LET row == S.parent[d]
        ch == S.rows[row].children
        old == S.bm[ch[1]].uri
        replaced == IF uri \in DOMAIN S.hash THEN {S.hash[uri]} ELSE {}
        under(m) == [m EXCEPT !.uri = uri,
                              !.stored = IF @ = Unstored THEN @ ELSE [@ EXCEPT !.uri = uri]]
    IN IF row = NoRow THEN S
       ELSE IF UsesFreed(S, d) THEN [S EXCEPT !.misuse = TRUE]
       ELSE IF old = uri THEN S
       ELSE [S EXCEPT !.hash = Rekeyed(@, old, uri, row),
                      !.bm = [b \in DOMAIN @ |-> IF Contains(ch, b) THEN under(@[b]) ELSE @[b]],
                      !.parent = [e \in Docs |-> IF e # d /\ @[e] \in replaced THEN Dangling ELSE @[e]]]

\* Variant: the marks are deleted, but the bookmarks keep them.
CleanedKeeps(S, d) ==
    LET row == S.parent[d]
        ch == S.rows[row].children
    IN IF row = NoRow THEN S
       ELSE [S EXCEPT !.rows[row].doc = NoDoc, !.parent[d] = NoRow,
                      !.bm = [b \in DOMAIN @ |-> IF Contains(ch, b) THEN [@[b] EXCEPT !.doc = NoDoc] ELSE @[b]]]

\* bmark_clean_for_doc; the file information is there when the document has a file
\* ("seen" only records the lines of the document then)
Cleaned(S, d) ==
    LET clean(T, b) ==
            LET m == Updated(T, b).bm[b]
            IN Store([T EXCEPT !.bm[b] = [m EXCEPT !.mark = NoMark, !.doc = NoDoc,
                        !.seen = docs[d].text,
                        !.len = IF IsTmp(docs[d].uri) THEN @ ELSE CharCount(docs[d].text)]], b)
        row == S.parent[d]
    IN IF row = NoRow THEN S
       ELSE [FoldLeft(clean, S, S.rows[row].children)
                EXCEPT !.rows[row].doc = NoDoc, !.parent[d] = NoRow]

\* Variant: what the file has grown is not taken into account.
RepositionedAround(m, lines) ==
    LET size == Len(m.text)
        near == {p \in Max({0, m.offset - 1}) .. m.offset + 1 : Between(lines, p, p + size) = m.text}
    IN IF near = {} THEN m.offset ELSE Min(near)

\* bookmark_needs_repositioning and bookmark_reposition: the text is searched in a band
\* around the offset, moved by what the file has grown, that is doubled until it is
\* longer than the text
Repositioned(m, lines) ==
    LET count == CharCount(lines)
        diff == count - m.len
        size == Len(m.text)
        first == Max({2 * diff, -2 * diff, 5 * Bytes(m.text)})
        width(k) == first * 2 ^ k
        start(k) == Max({0, m.offset + diff - width(k) \div 2})
        foundIn(k) == {p \in start(k) .. count - size :
                          p + size <= start(k) + width(k) /\ Between(lines, p, p + size) = m.text}
        tried == {k \in 0 .. count : \A j \in 0 .. k - 1 : width(j) <= count}
        hits == {k \in tried : foundIn(k) # {}}
    IN IF Between(lines, m.offset, m.offset + Bytes(m.text)) = m.text \/ hits = {} THEN m.offset
       ELSE Min(foundIn(Min(hits)))

\* bmark_set_for_doc, with the text that was loaded
SetForDoc(S, d, lines) ==
    LET uri == docs[d].uri
        row == S.hash[uri]
        ch == S.rows[row].children
        set(m) == LET offset == Repositioned(m, lines) IN
                  [m EXCEPT !.doc = d, !.offset = offset, !.seen = << >>, !.mark = Clamp(offset, CharCount(lines))]
    IN IF IsTmp(uri) \/ S.parent[d] # NoRow \/ uri \notin DOMAIN S.hash THEN S
       ELSE [S EXCEPT !.parent[d] = row, !.rows[row].doc = d,
                      !.bm = [b \in DOMAIN @ |-> IF Contains(ch, b) THEN set(@[b]) ELSE @[b]]]

-----------------------------------------------------------------------------
(* What the code does not handle *)

\* the bookmarks of a file are not in the order of their marks: at a repositioning they
\* are not sorted, and when one is edited it is sorted by offsets of different age
Misordered(S) ==
    \E r \in DOMAIN S.rows : S.rows[r].doc \in Docs /\
        \E i, j \in DOMAIN S.rows[r].children :
            i < j /\ S.bm[S.rows[r].children[i]].mark > S.bm[S.rows[r].children[j]].mark

Bookkeeping(S, reasons) ==
    /\ bd' = S
    /\ upset' = upset \union reasons \union (IF Misordered(S) THEN {"reordered"} ELSE {})

-----------------------------------------------------------------------------
(* Actions on documents *)

Event == events < MaxEvents /\ events' = events + 1

New(d) ==
    /\ docs[d] = Closed /\ Event
    /\ docs' = [docs EXCEPT ![d] = [state |-> "loaded", uri |-> TmpName("Untitled", events), text |-> << >>]]
    /\ UNCHANGED <<disk, bd, upset>>

Open(d, u) ==
    /\ docs[d] = Closed /\ Event /\ \A e \in Docs : docs[e].uri # u
    /\ docs' = [docs EXCEPT ![d] = [state |-> "loading", uri |-> u, text |-> << >>]]
    /\ UNCHANGED <<disk, bd, upset>>

\* the file is read, and the bookmarks are set
LoadEnds(d) ==
    /\ docs[d].state = "loading"
    /\ LET lines == disk[docs[d].uri] IN
       /\ docs' = [docs EXCEPT ![d].state = "loaded", ![d].text = lines]
       /\ Bookkeeping(SetForDoc(bd, d, lines), {})
    /\ UNCHANGED <<disk, events>>

\* doc_reload
Reload(d) ==
    /\ docs[d].state = "loaded" /\ docs[d].uri \in Uris /\ Event
    /\ Bookkeeping(Cleaned(bd, d), {})
    /\ docs' = [docs EXCEPT ![d].state = "loading", ![d].text = << >>]
    /\ UNCHANGED disk

\* doc_destroy: a bookmark that points to it still, keeps the pointer
Close(d) ==
    /\ docs[d] # Closed
    /\ LET S == Cleaned(bd, d)
       IN Bookkeeping([S EXCEPT !.bm = [b \in DOMAIN @ |-> IF @[b].doc = d THEN [@[b] EXCEPT !.doc = Gone]
                                                           ELSE @[b]]], {})
    /\ docs' = [docs EXCEPT ![d] = Closed]
    /\ UNCHANGED <<disk, events>>

\* the marks of a document have left gravity: they stay before what is inserted
Moved(S, d, to(_)) ==
    [S EXCEPT !.bm = [b \in DOMAIN @ |-> IF @[b].doc = d THEN [@[b] EXCEPT !.mark = to(@)] ELSE @[b]]]

\* a line is inserted before line i: at its start, or at the end of the line before
InsertLine(d, i, c, offset) ==
    LET to(mark) == IF mark > offset THEN mark + 2 ELSE mark IN
    /\ docs[d].state = "loaded" /\ Event /\ Len(docs[d].text) < MaxLines
    /\ ~Contains(docs[d].text, c)
    /\ docs' = [docs EXCEPT ![d].text = InsertAt(@, i, c)]
    /\ Bookkeeping(Moved(bd, d, to), {})
    /\ UNCHANGED disk

DeleteLine(d, i) ==
    LET offset == 2 * (i - 1)
        to(mark) == IF mark > offset + 2 THEN mark - 2 ELSE IF mark > offset THEN offset ELSE mark IN
    /\ docs[d].state = "loaded" /\ Event
    /\ docs' = [docs EXCEPT ![d].text = RemoveAt(@, i)]
    /\ Bookkeeping(Moved(bd, d, to), {})
    /\ UNCHANGED disk

Edit(d) ==
    \/ \E i \in 1 .. Len(docs[d].text) + 1, c \in Letters, back \in {2, 3} :
          2 * i >= back /\ InsertLine(d, i, c, 2 * i - back)
    \/ \E i \in DOMAIN docs[d].text : DeleteLine(d, i)

Save(d) ==
    /\ docs[d].state = "loaded" /\ docs[d].uri \in Uris /\ disk[docs[d].uri] # docs[d].text
    /\ disk' = [disk EXCEPT ![docs[d].uri] = docs[d].text]
    /\ UNCHANGED <<docs, bd, events, upset>>

\* doc_save_backend with a new name: a document that has it loses it
\* (ask_new_filename, document_unset_filename), then doc_set_uri
SaveAs(d, u) ==
    LET others == {e \in Docs : docs[e].uri = u}
        name == TmpName("Previously", u)
        S == IF others = {} THEN bd ELSE Renamed(bd, CHOOSE e \in others : TRUE, name)
    IN
    /\ docs[d].state = "loaded" /\ docs[d].uri # u /\ Event
    /\ \A e \in others : docs[e].state = "loaded"
    /\ docs' = [e \in Docs |-> IF e = d THEN [docs[e] EXCEPT !.uri = u]
                               ELSE IF e \in others THEN [docs[e] EXCEPT !.uri = name] ELSE docs[e]]
    /\ disk' = [disk EXCEPT ![u] = docs[d].text]
    /\ Bookkeeping(Renamed(S, d, u),
           (IF u \in DOMAIN S.hash THEN {"overwritten"} ELSE {}) \union
           (IF others # {} /\ (name \in DOMAIN bd.hash \/ \E e \in Docs : docs[e].uri = name)
            THEN {"same name"} ELSE {}))

\* texts without two equal lines
Texts == {lines \in BoundedSeq(Letters, MaxLines) : IsInjective(lines)}

\* another program writes a file
DiskChanges(u) ==
    /\ Event
    /\ \E lines \in Texts \ {disk[u]} : disk' = [disk EXCEPT ![u] = lines]
    /\ UNCHANGED <<docs, bd, upset>>

-----------------------------------------------------------------------------
(* Actions on bookmarks *)

UnchangedDocs == UNCHANGED <<docs, disk, events>>

\* Variant: a bookmark of the line is looked for in front of the offset only.
ToggleBefore(d, offset, temp) ==
    LET f == IF bd.parent[d] = NoRow THEN [S |-> bd, at |-> 0] ELSE FindBefore(bd, bd.parent[d], offset)
        b == IF f.at = 0 THEN NoBmark ELSE bd.rows[bd.parent[d]].children[f.at]
    IN
    /\ docs[d] # Closed
    /\ IF b # NoBmark /\ LineOf(bd.bm[b].mark) = LineOf(offset) THEN Bookkeeping(Removed(f.S, b), {})
       ELSE BmarkIds \ DOMAIN bd.bm # {} /\ Bookkeeping(Add(f.S, d, offset, temp), {})
    /\ UnchangedDocs

\* bmark_toggle; without a row of its own, a document does not find its bookmarks
Toggle(d, offset, temp) ==
    LET f == BmarkAt(bd, d, offset) IN
    /\ docs[d] # Closed
    /\ IF f.b # NoBmark THEN Bookkeeping(Removed(f.S, f.b), {})
       ELSE /\ BmarkIds \ DOMAIN bd.bm # {}
            /\ Bookkeeping(Add(f.S, d, offset, temp),
                   IF bd.parent[d] = NoRow /\ docs[d].uri \in DOMAIN bd.hash
                   THEN {"added while loading"} ELSE {})
    /\ UnchangedDocs

\* bmark_margin_get_initial_bookmark: the margin is drawn from a line on
DrawMargin(d, line) ==
    /\ docs[d] # Closed /\ bd.parent[d] # NoRow
    /\ Bookkeeping(FindBefore(bd, bd.parent[d], 2 * line).S, {})
    /\ UnchangedDocs

\* popup_menu_delete
Delete(b) == Bookkeeping(Removed(bd, b), {}) /\ UnchangedDocs

\* bmark_del_children_backend, for one file or for all
DeleteRows(rows) ==
    /\ Bookkeeping(FoldLeft(Removed, bd,
           SetToSortSeq({b \in DOMAIN bd.bm : bd.bm[b].row \in rows}, LAMBDA x, y : x < y)), {})
    /\ UnchangedDocs

\* Variant: what becomes temporary stays in the session.
EditBookmarkStays(b, temp) ==
    /\ bd' = IF temp THEN [bd EXCEPT !.bm[b].temp = TRUE] ELSE Store([bd EXCEPT !.bm[b].temp = FALSE], b)
    /\ upset' = upset
    /\ UnchangedDocs

\* bmark_add_rename_dialog: the bookmark is sorted and stored with the offset it had
EditBookmark(b, temp) ==
    LET m == bd.bm[b]
        ch == bd.rows[m.row].children
        i == CHOOSE k \in DOMAIN ch : ch[k] = b
        inPlace == /\ i > 1 => bd.bm[ch[i - 1]].offset <= m.offset
                   /\ i < Len(ch) => m.offset <= bd.bm[ch[i + 1]].offset
        S == [bd EXCEPT !.bm[b].temp = temp,
                        !.rows[m.row].children = IF inPlace THEN @ ELSE Sorted(bd, RemoveAt(@, i), b)]
    IN /\ Bookkeeping(IF temp THEN Unstore(S, b) ELSE Store(S, b), {})
       /\ UnchangedDocs

\* bmark_store_all: for the documents that are open
StoreAll ==
    LET storing == {b \in DOMAIN bd.bm : ~bd.bm[b].temp /\ bd.rows[bd.bm[b].row].doc # NoDoc}
        one(S, b) == Store(Updated(S, b), b)
    IN /\ Bookkeeping(FoldLeft(one, bd, SetToSeq(storing)), {})
       /\ UnchangedDocs

\* bmark_reload at the next start, from the list of the session
Reloaded(S) ==
    LET kept == {b \in DOMAIN S.bm : S.bm[b].stored # Unstored}
        one(T, b) == LET s == S.bm[b].stored IN
                     Inserted(T, b, [row |-> NoRow, uri |-> s.uri, doc |-> NoDoc, mark |-> NoMark,
                                     offset |-> s.offset, text |-> s.text, len |-> s.len,
                                     temp |-> FALSE, stored |-> s, seen |-> s.seen])
    IN FoldLeft(one, NoBookmarks, SetToSortSeq(kept, LAMBDA x, y : x < y))

Restart ==
    /\ \A d \in Docs : docs[d] = Closed
    /\ Bookkeeping(Reloaded(bd), {})
    /\ UnchangedDocs

-----------------------------------------------------------------------------
Init ==
    /\ docs = [d \in Docs |-> Closed] /\ disk = InitDisk
    /\ bd = NoBookmarks
    /\ events = 0 /\ upset = {}

OnDocuments ==
    \E d \in Docs :
        \/ New(d) \/ LoadEnds(d) \/ Reload(d) \/ Close(d) \/ Edit(d) \/ Save(d)
        \/ \E u \in Uris : Open(d, u) \/ SaveAs(d, u)

OnBookmarks ==
    \/ \E d \in Docs :
          \/ \E offset \in 0 .. CharCount(docs[d].text), temp \in BOOLEAN : Toggle(d, offset, temp)
          \/ \E line \in 0 .. Len(docs[d].text) : DrawMargin(d, line)
    \/ \E b \in DOMAIN bd.bm : Delete(b) \/ \E temp \in BOOLEAN : EditBookmark(b, temp)
    \/ \E r \in DOMAIN bd.rows : DeleteRows({r})
    \/ DeleteRows(DOMAIN bd.rows)
    \/ StoreAll
    \/ Restart

\* nothing can be said of what follows when freed memory was used
Next ==
    /\ ~bd.misuse /\ \A d \in Docs : ~UsesFreed(bd, d)
    /\ OnDocuments \/ OnBookmarks \/ \E u \in Uris : DiskChanges(u)
    /\ Cardinality(upset') <= MaxUpset

Spec == Init /\ [][Next]_vars

-----------------------------------------------------------------------------
(* Properties *)

\* The state is one that the C types allow: a bookmark is in one row, its mark in the
\* text of its document, and the ids of rows and bookmarks are those in use.
TypeOK ==
    /\ \A d \in Docs : docs[d].state \in {"closed", "loading", "loaded"} /\ Len(docs[d].text) <= MaxLines
    /\ \A u \in Uris : Len(disk[u]) <= MaxLines
    /\ DOMAIN bd.rows \subseteq RowIds /\ DOMAIN bd.bm \subseteq BmarkIds
    /\ \A b \in DOMAIN bd.bm :
          LET m == bd.bm[b] IN
          /\ m.offset >= 0 /\ m.len >= 0 /\ m.temp \in BOOLEAN
          /\ m.doc \in Docs \union {NoDoc, Gone}
          /\ m.doc \in Docs => m.mark \in 0 .. CharCount(docs[m.doc].text)
          /\ m.doc = NoDoc => m.mark = NoMark

\* The tree and the hash table agree: each row is the entry of one uri, it has a bookmark,
\* and its bookmarks, and no others, are of that file; the document in its second column
\* is the one whose bmark_parent it is (bmark_get_iter_at_tree_position,
\* bmark_check_remove, bmark_doc_renamed, bmark_clean_for_doc, bmark_set_for_doc).
HashAgrees ==
    /\ {bd.hash[u] : u \in DOMAIN bd.hash} = DOMAIN bd.rows
    /\ \A u, w \in DOMAIN bd.hash : bd.hash[u] = bd.hash[w] => u = w
    /\ \A u \in DOMAIN bd.hash :
          LET ch == bd.rows[bd.hash[u]].children IN
          /\ ch # << >> /\ IsInjective(ch)
          /\ ToSet(ch) = {b \in DOMAIN bd.bm : bd.bm[b].uri = u /\ bd.bm[b].row = bd.hash[u]}
    /\ \A b \in DOMAIN bd.bm : bd.bm[b].uri \in DOMAIN bd.hash
    /\ \A r \in DOMAIN bd.rows, d \in Docs : bd.rows[r].doc = d <=> bd.parent[d] = r

\* A document that is loaded has a mark for every bookmark of its file, and one that is
\* closed for none: what the editor shows is what the list says.
Attached ==
    /\ \A b \in DOMAIN bd.bm :
          LET m == bd.bm[b] IN m.doc \in Docs => docs[m.doc].uri = m.uri /\ bd.parent[m.doc] = m.row
    /\ \A d \in Docs : docs[d].state = "loaded" =>
          \A b \in DOMAIN bd.bm : bd.bm[b].uri = docs[d].uri => bd.bm[b].doc = d

\* No freed document, row or iter is used or kept: the value of the hash table is shared
\* with bmark_parent of the document, and freed with the entry.
NoUseAfterFree ==
    /\ ~bd.misuse
    /\ \A d \in Docs : bd.parent[d] # Dangling /\ ~UsesFreed(bd, d)
    /\ \A b \in DOMAIN bd.bm : bd.bm[b].doc # Gone

\* What is kept for the next start is right: a permanent bookmark of a file that is closed
\* is in the session with its place, one that is temporary or has no file never is.
PermanentStored ==
    \A b \in DOMAIN bd.bm :
        LET m == bd.bm[b] IN
        /\ m.temp => m.stored = Unstored
        /\ m.stored # Unstored /\ ~IsTmp(m.uri) => m.stored.uri = m.uri
        /\ m.doc = NoDoc /\ ~m.temp =>
              IF IsTmp(m.uri) THEN m.stored = Unstored
              ELSE m.stored # Unstored /\ m.stored.offset = m.offset /\ m.stored.len = m.len

\* bmark_toggle adds a bookmark only to a line that has none: what is on the line is
\* found, wherever on it the mark and the cursor are and however the text was edited.
TogglesOff ==
    [][\A b \in DOMAIN bd'.bm \ DOMAIN bd.bm :
          LET new == bd'.bm[b] IN
          \A a \in DOMAIN bd.bm : bd.bm[a].doc = new.doc => LineOf(bd.bm[a].mark) # LineOf(new.mark)]_vars

\* A bookmark finds its line again: when a file is loaded in which what was on its line from
\* the mark on, when it was last looked at, is still there, the mark is before it
\* (bookmark_reposition).  Not so when the text that is remembered is not what was there, as
\* after a restart, when it is that of the day the bookmark was set, or has a character of
\* several bytes: then each update of the text takes more of what follows, and the bookmark
\* is lost with that.
BookmarkReturns ==
    [][\A b \in DOMAIN bd.bm \intersect DOMAIN bd'.bm :
          LET old == bd.bm[b]
              new == bd'.bm[b]
              line == TextForOffset(old.seen, old.offset)
              lines == docs'[new.doc].text
              Here(text, p, what) == Between(text, p, p + Len(what)) = what
          IN (/\ old.doc = NoDoc /\ new.doc \in Docs
              /\ Len(line) > 0
              /\ IsPrefix(line, old.text) /\ Here(old.seen, old.offset, old.text)
              /\ Bytes(old.text) = Len(old.text)
              /\ \E p \in 0 .. CharCount(lines) : Here(lines, p, line))
             => Here(lines, new.mark, line)]_vars

\* The rows, the hash table, the marks, the documents and the session agree, and none of
\* them leads to what was freed.
Agree == TypeOK /\ HashAgrees /\ Attached /\ NoUseAfterFree /\ PermanentStored

=============================================================================
