--------------------------- MODULE FileTreemodel ----------------------------
(***************************************************************************)
(* The tree of files behind the file browser (file_treemodel.c), with the  *)
(* calls filebrowser2.c makes: directories are read asynchronously while   *)
(* the disk changes, files are opened and directories are shown.           *)
(*                                                                         *)
(* A record (UriRecord) is a number; what is freed loses its number, and   *)
(* a pointer to it becomes Freed.  The order of the rows, icons, weights   *)
(* and the entry " " that makes the expander appear are left out.  Each    *)
(* action is one callback of the main loop; a directory is read in one     *)
(* chunk (bound: 256 entries), the next read tells that it is over.  No    *)
(* base directory of a window is among the directories that fail, and no   *)
(* file is displayed with the name of another.                             *)
(***************************************************************************)
EXTENDS Integers, FiniteSets

CONSTANTS
    Uris,        \* the files and directories that there can be
    Root,        \* the toplevel, always a directory
    Parent,      \* [Uris \ {Root} -> Uris]
    Kinds,       \* [Uris -> SUBSET {"none", "file", "dir"}], what each can be
    MayBeOdd,    \* files and directories whose display name need not be their name
    IoErrors,    \* directories may be unreadable
    MaxRecords,  \* bound: records in memory
    MaxChanges   \* bound: changes of the disk by other programs

ASSUME OddAssumption == MayBeOdd \subseteq Uris \ {Root}

VARIABLES
    odd,         \* what is displayed with another name than its own
    disk,        \* what is there
    changes,     \* how often that changed
    record,      \* the records: uri, parent, isdir, possibly_deleted, and whether their
                 \* name is a display name that differs from the name of the file
    alluri,      \* the hash table, from uris to records
    refreshing,  \* uri_in_refresh: of each directory its precord, its stage, and whether
                 \* its entries are still those it had when the refresh began
    uri_to_refresh, \* the directory of the delayed refresh, or None
    (* what has happened: *)
    replaced,    \* what is or was a file on the disk and a directory in a record, or vice versa
    struck,      \* directories in refreshing whose record the disk or an error took away
    current,     \* directories with a refresh that ended, and the same entries since it began,
                 \* of which no error took a record away
    misuse       \* a freed record was used, or an assertion reached: nothing can be said
                 \* of what follows

None == "none"
Freed == 0
tree == <<record, alluri>>
history == <<struck, current, misuse>>
files == <<odd, disk, changes>>
vars == <<files, tree, refreshing, uri_to_refresh, replaced, history>>

Above[u \in Uris] == IF u = Root THEN {} ELSE {Parent[u]} \union Above[Parent[u]]
Below(u) == {v \in Uris : u \in Above[v]}
Depth(u) == Cardinality(Above[u])
In(d) == {u \in Uris \ {Root} : Parent[u] = d /\ disk[u] # None}

-----------------------------------------------------------------------------
(* Records *)

New(uri, parent, isdir) ==
    [uri |-> uri, parent |-> parent, isdir |-> isdir, possibly_deleted |-> FALSE, odd |-> FALSE]

\* fill_uri: the record gets the display name
NewDisplayed(uri, parent, isdir) == [New(uri, parent, isdir) EXCEPT !.odd = uri \in odd]
ChildrenOf(rs, r) == {c \in DOMAIN rs : rs[c].parent = r}
Nth(s, n) == CHOOSE i \in s : Cardinality({k \in s : k < i}) = n - 1

\* the n-th free number
Free(rs, n) == Nth((1 .. MaxRecords) \ DOMAIN rs, n)
Room(rs, n) == Cardinality(DOMAIN rs) + n <= MaxRecords

\* convert_record_to_directory
AsDirectory(rs, r) == IF r \in DOMAIN rs THEN [rs EXCEPT ![r].isdir = TRUE] ELSE rs

\* Variant: nothing is marked.
MarkedNot(rs, r) == rs

\* mark_children_refresh
Marked(rs, r) ==
    [c \in DOMAIN rs |-> [rs[c] EXCEPT !.possibly_deleted = @ \/ rs[c].parent = r]]

\* Variant: the children stay.
FreedAlone(rs, r) == {r}

\* the records ftm_remove frees with r
FreedWith(rs, r) ==
    LET all[p \in DOMAIN rs] == {p} \union UNION {all[c] : c \in ChildrenOf(rs, p)} IN all[r]

\* Variant: the hash table keeps its entries.
RemoveKeeps(gone, rf) ==
    LET dead == UNION {FreedWith(record, r) : r \in gone} IN
    /\ record' = [r \in DOMAIN record \ dead |-> record[r]]
    /\ refreshing' = [u \in DOMAIN rf |->
                        IF rf[u].precord \in dead THEN [rf[u] EXCEPT !.precord = Freed] ELSE rf[u]]
    /\ UNCHANGED alluri

\* ftm_remove of the records in gone, and the pointers in the refreshes rf to them
Remove(gone, rf) ==
    LET dead == UNION {FreedWith(record, r) : r \in gone} IN
    /\ record' = [r \in DOMAIN record \ dead |-> record[r]]
    /\ alluri' = [u \in DOMAIN alluri \ {record[r].uri : r \in dead} |-> alluri[u]]
    /\ refreshing' = [u \in DOMAIN rf |->
                        IF rf[u].precord \in dead THEN [rf[u] EXCEPT !.precord = Freed] ELSE rf[u]]

\* filetreemodel_build_dir: what is missing of u and the directories above it, and then
\* the records and the hash table
Missing(u) ==
    LET path == {u} \union Above[u]
    IN {a \in path : \A b \in path : Depth(b) >= Depth(a) => b \notin DOMAIN alluri}
Built(u) ==
    LET missing == Missing(u)
        top == Depth(u) - Cardinality(missing)
        at(a) == IF a \in missing THEN Free(record, Depth(a) - top) ELSE alluri[a]
        uriof(r) == CHOOSE a \in missing : at(a) = r
        new == {at(a) : a \in missing}
        parent(a) == IF a = Root THEN 0 ELSE at(Parent[a])
        base == {parent(a) : a \in missing} \ new
    IN [record |-> [r \in DOMAIN record \union new |->
                      IF r \in new THEN New(uriof(r), parent(uriof(r)), TRUE)
                      ELSE IF r \in base THEN [record[r] EXCEPT !.isdir = TRUE] ELSE record[r]],
        alluri |-> [a \in DOMAIN alluri \union missing |-> at(a)]]

\* refresh_dir_async, when the records are rs and the hash table is all
RefreshDir(rs, all, u) ==
    IF u \notin DOMAIN all \/ u \in DOMAIN refreshing
    THEN record' = rs /\ UNCHANGED <<refreshing, struck>>
    ELSE /\ record' = Marked(rs, all[u])
         /\ refreshing' = [v \in DOMAIN refreshing \union {u} |->
                             IF v = u THEN [precord |-> all[u], stage |-> "open", same |-> TRUE]
                             ELSE refreshing[v]]
         /\ struck' = IF disk[u] = "dir" THEN struck \ {u} ELSE struck \union {u}

-----------------------------------------------------------------------------
(* What the file browser calls *)

\* filetreemodel_refresh_uri_async: a row is expanded, or the directory refreshed
RefreshUri(u) ==
    /\ u \in DOMAIN alluri \ DOMAIN refreshing /\ record[alluri[u]].isdir
    /\ RefreshDir(record, alluri, u)
    /\ UNCHANGED <<files, alluri, uri_to_refresh, current, misuse>>

\* switch_to_directory, which may be gone (bound: what it is in is not)
SwitchToDirectory(u) ==
    /\ \A a \in Above[u] : disk[a] = "dir"
    /\ u \in DOMAIN alluri => record[alluri[u]].isdir
    /\ Room(record, Cardinality(Missing(u)))
    /\ alluri' = Built(u).alluri
    /\ RefreshDir(Built(u).record, Built(u).alluri, u)
    /\ UNCHANGED <<files, uri_to_refresh, current, misuse>>

\* filetreemodel_add_file, for a document that was opened (fb2_file_is_opened)
AddFile(f) ==
    /\ disk[f] = "file" /\ f \notin DOMAIN alluri
    /\ Room(record, Cardinality(Missing(Parent[f])) + 1)
    /\ LET b == Built(Parent[f])
           p == b.alluri[Parent[f]]
           r == Free(b.record, 1)
       IN /\ record' = [i \in DOMAIN b.record \union {r} |->
                          IF i = r THEN New(f, p, FALSE) ELSE AsDirectory(b.record, p)[i]]
          /\ alluri' = [a \in DOMAIN b.alluri \union {f} |-> IF a = f THEN r ELSE b.alluri[a]]
    /\ UNCHANGED <<files, refreshing, uri_to_refresh, history>>

\* fb2_follow_uri, for the file of the document that becomes active: change_focus_to_uri,
\* which asserts that the directory of a file is known, and register_delayed_refresh
FollowUri(f) ==
    LET d == Parent[f]
        unknown == f \notin DOMAIN alluri /\ d \notin DOMAIN alluri
    IN /\ disk[f] = "file"
       /\ IF unknown
          THEN /\ Room(record, Cardinality(Missing(d)))
               /\ alluri' = Built(d).alluri
               /\ RefreshDir(Built(d).record, Built(d).alluri, d)
          ELSE UNCHANGED <<tree, refreshing, struck>>
       /\ misuse' = IF f \in DOMAIN alluri /\ d \notin DOMAIN alluri
                    THEN misuse \union {f} ELSE misuse
       /\ uri_to_refresh' = IF d \notin DOMAIN refreshing' THEN d
                            ELSE IF uri_to_refresh = d THEN None ELSE uri_to_refresh
       /\ UNCHANGED <<files, current>>

\* Variant: the timeout stays.
DelayedRefreshAgain ==
    /\ uri_to_refresh # None
    /\ RefreshDir(record, alluri, uri_to_refresh)
    /\ UNCHANGED <<files, alluri, uri_to_refresh, current, misuse>>

\* delayed_refresh_cb
DelayedRefresh ==
    /\ uri_to_refresh # None
    /\ RefreshDir(record, alluri, uri_to_refresh)
    /\ uri_to_refresh' = None
    /\ UNCHANGED <<files, alluri, current, misuse>>

-----------------------------------------------------------------------------
(* The callbacks of a refresh *)

At(u, stage) == u \in DOMAIN refreshing /\ refreshing[u].stage = stage
Without(u) == [v \in DOMAIN refreshing \ {u} |-> refreshing[v]]
Dangling(u) == refreshing[u].precord = Freed
Misused(u) == misuse' = misuse \union {u} /\ UNCHANGED <<tree, refreshing, struck, current>>

\* enumerate_children_lcb (and fill_dir_async_low_priority, which starts it)
Opened(u) ==
    /\ At(u, "open") /\ disk[u] = "dir"
    /\ refreshing' = [refreshing EXCEPT ![u].stage = "read"]
    /\ UNCHANGED <<files, tree, uri_to_refresh, history>>

\* the errors with which a directory is opened: permission denied, not a directory, or any other
OpenErrors(u) ==
    CASE disk[u] = "dir" -> IF IoErrors THEN {"denied", "other"} ELSE {}
      [] disk[u] = "file" -> {"not a directory"} \union (IF IoErrors THEN {"other"} ELSE {})
      [] disk[u] = None -> {"other"}

\* Variant: an error leaves the children.
OpenFailsLeaves(u, error) ==
    /\ At(u, "open")
    /\ IF Dangling(u) THEN Misused(u)
       ELSE /\ refreshing' = Without(u)
            /\ UNCHANGED <<tree, history>>
    /\ UNCHANGED <<files, uri_to_refresh>>

\* enumerate_children_lcb with an error.  Any other error removes the directory, even one
\* that is there: what it is in no longer shows what is on the disk.
OpenFails(u, error) ==
    /\ At(u, "open")
    /\ IF Dangling(u) THEN Misused(u)
       ELSE LET r == refreshing[u].precord
                gone == CASE error = "denied" -> ChildrenOf(record, r)
                          [] error = "not a directory" -> IF record[r].isdir THEN {r} ELSE {}
                          [] error = "other" -> {r}
                lost == IF error = "other" /\ u # Root /\ disk[u] # None THEN {Parent[u]} ELSE {}
                rest == [v \in DOMAIN Without(u) |->
                           [refreshing[v] EXCEPT !.same = @ /\ v \notin lost]]
            IN /\ Remove(gone, rest)
               /\ struck' = DOMAIN refreshing' \intersect (struck \union Below(u))
               /\ current' = (current \ ({u} \union lost)) \intersect DOMAIN alluri'
               /\ UNCHANGED misuse
    /\ UNCHANGED <<files, uri_to_refresh>>

\* Variant: what is there already is not marked as existing.
KeptNot(p, pick) == {}

\* the children of the record p that are found again (pick: bsearch finds one of each)
Kept(p, pick) == {pick[v] : v \in DOMAIN pick}

\* enumerate_next_files_lcb with the entries of the directory: add_multiple_uris looks for
\* the name of each among the names of the rows, which are display names
AddMultipleUris(u) ==
    /\ At(u, "read") /\ In(u) # {}
    /\ IF Dangling(u) THEN Misused(u)
       ELSE LET p == refreshing[u].precord
                like(v) == {c \in ChildrenOf(record, p) :
                              /\ record[c].uri = v /\ ~record[c].odd
                              /\ record[c].isdir = (disk[v] = "dir")}
                known == {v \in In(u) : like(v) # {}}
                new == In(u) \ known
                order == CHOOSE n \in [new -> 1 .. Cardinality(new)] :
                           \A v, w \in new : n[v] = n[w] => v = w
            IN \E pick \in [known -> DOMAIN record] :
                 LET id(v) == Free(record, order[v])
                     old == AsDirectory(record, p)
                 IN
                 /\ Room(record, Cardinality(new))
                 /\ \A v \in known : pick[v] \in like(v)
                 /\ record' = [r \in DOMAIN record \union {id(v) : v \in new} |->
                                 IF r \notin DOMAIN record
                                 THEN LET v == CHOOSE w \in new : id(w) = r
                                      IN NewDisplayed(v, p, disk[v] = "dir")
                                 ELSE [old[r] EXCEPT !.possibly_deleted = @ /\ r \notin Kept(p, pick)]]
                 /\ alluri' = [v \in DOMAIN alluri \union new |-> IF v \in new THEN id(v) ELSE alluri[v]]
                 /\ refreshing' = [refreshing EXCEPT ![u].stage = "end"]
                 /\ UNCHANGED <<struck, current, misuse>>
    /\ UNCHANGED <<files, uri_to_refresh>>

\* enumerate_next_files_lcb with an error: it returns, and u stays in uri_in_refresh
NextFilesFails(u) ==
    /\ At(u, "read") \/ At(u, "end")
    /\ refreshing' = [refreshing EXCEPT ![u].stage = "lost"]
    /\ UNCHANGED <<files, tree, uri_to_refresh, history>>

\* enumerate_next_files_lcb when there is nothing more
NextFilesEnds(u) ==
    /\ At(u, "end") \/ (At(u, "read") /\ In(u) = {})
    /\ refreshing' = [refreshing EXCEPT ![u].stage = "close"]
    /\ UNCHANGED <<files, tree, uri_to_refresh, history>>

\* Variant: the refresh stays registered.
EnumeratorCloseStays(u) ==
    /\ At(u, "close")
    /\ refreshing' = [refreshing EXCEPT ![u].stage = "closed"]
    /\ UNCHANGED <<files, tree, uri_to_refresh, history>>

\* enumerator_close_lcb: what was not found again is removed
EnumeratorClose(u) ==
    /\ At(u, "close")
    /\ IF Dangling(u) THEN Misused(u)
       ELSE /\ Remove({c \in ChildrenOf(record, refreshing[u].precord) : record[c].possibly_deleted},
                      Without(u))
            /\ struck' = DOMAIN refreshing' \intersect
                            (IF refreshing[u].same THEN struck ELSE struck \union Below(u))
            /\ current' = (IF refreshing[u].same THEN current \union {u} ELSE current)
                             \intersect DOMAIN alluri'
            /\ UNCHANGED misuse
    /\ UNCHANGED <<files, uri_to_refresh>>

-----------------------------------------------------------------------------
(* The disk, changed by other programs *)

Change(u, kind) ==
    /\ u # Root /\ kind \in Kinds[u] \ {disk[u]}
    /\ changes < MaxChanges /\ changes' = changes + 1
    /\ kind # None => disk[Parent[u]] = "dir"
    /\ disk' = [v \in Uris |-> IF v = u THEN kind
                               ELSE IF v \in Below(u) THEN None ELSE disk[v]]
    /\ struck' = struck \union {d \in DOMAIN refreshing : disk'[d] # "dir"}
    /\ LET touched == {Parent[v] : v \in {w \in Uris \ {Root} : disk'[w] # disk[w]}} IN
       /\ current' = current \ touched
       /\ refreshing' = [d \in DOMAIN refreshing |->
                           [refreshing[d] EXCEPT !.same = @ /\ d \notin touched]]
    /\ UNCHANGED <<odd, tree, uri_to_refresh, misuse>>

Init ==
    /\ odd \in SUBSET MayBeOdd
    /\ disk \in {k \in [Uris -> {"none", "file", "dir"}] :
                   /\ k[Root] = "dir"
                   /\ \A u \in Uris \ {Root} :
                        k[u] \in Kinds[u] /\ (k[u] # None => k[Parent[u]] = "dir")}
    /\ changes = 0 /\ record = << >> /\ alluri = << >> /\ refreshing = << >>
    /\ uri_to_refresh = None
    /\ replaced = {} /\ struck = {} /\ current = {} /\ misuse = {}

MayBeDir == {u \in Uris : "dir" \in Kinds[u]}

Callback(u) ==
    \/ Opened(u)
    \/ \E error \in OpenErrors(u) : OpenFails(u, error)
    \/ AddMultipleUris(u)
    \/ IoErrors /\ NextFilesFails(u)
    \/ NextFilesEnds(u) \/ EnumeratorClose(u)

Browse ==
    \/ \E u \in MayBeDir : RefreshUri(u) \/ SwitchToDirectory(u)
    \/ \E f \in Uris \ {Root} : AddFile(f) \/ FollowUri(f)

\* a record says one kind of thing, the disk another
Mismatched ==
    {u \in Uris : disk[u] # None /\ \E r \in DOMAIN record :
                    record[r].uri = u /\ record[r].isdir # (disk[u] = "dir")}

Step(A) == misuse = {} /\ A /\ replaced' = replaced \union Mismatched'

Next ==
    \/ \E u \in MayBeDir : Step(Callback(u))
    \/ Step(DelayedRefresh)
    \* bound: once a file was replaced by a directory, or the other way round, only the
    \* callbacks go on
    \/ replaced = {} /\ Step(Browse)
    \/ replaced = {} /\ \E u \in Uris : \E kind \in Kinds[u] : Step(Change(u, kind))

\* Fairness: the main loop calls each callback that is due, whatever else happens.  A
\* callback moves its refresh on, ends it, or uses what was freed; no other step looks like it.
CallbackRan(u) ==
    /\ u \in DOMAIN refreshing
    /\ misuse' # {} \/ u \notin DOMAIN refreshing' \/ refreshing'[u].stage # refreshing[u].stage
Due(u) == misuse = {} /\ \E stage \in {"open", "read", "end", "close"} : At(u, stage)
RefreshDue == misuse = {} /\ uri_to_refresh # None

Spec ==
    /\ Init /\ [][Next]_vars
    /\ \A u \in MayBeDir : []<>~Due(u) \/ []<><<CallbackRan(u)>>_vars
    /\ []<>~RefreshDue \/ []<><<Step(DelayedRefresh)>>_vars

-----------------------------------------------------------------------------
(* Properties *)

TypeOK ==
    /\ DOMAIN record \subseteq 1 .. MaxRecords
    /\ \A r \in DOMAIN record : /\ record[r].parent \in {0} \union DOMAIN record
                                /\ record[r].parent = 0 <=> record[r].uri = Root
    /\ DOMAIN alluri \subseteq Uris /\ \A u \in DOMAIN alluri : alluri[u] \in DOMAIN record
    /\ \A u \in DOMAIN refreshing : refreshing[u].precord \in {Freed} \union DOMAIN record
    /\ uri_to_refresh \in {None} \union Uris

\* The hash table and the tree agree: every record is found under its uri, and its
\* parent is the record of the directory it is in, so the assertion of
\* change_focus_to_uri holds.  Unless a file was replaced by a directory, or the other
\* way round: the new record takes the entry and loses it when the old one is removed; or
\* its display name is not its name: every refresh takes it for a new one.
RecordsFindable ==
    \A r \in DOMAIN record :
        LET u == record[r].uri IN
        (replaced \union odd) \intersect ({u} \union Above[u]) = {} =>
            /\ u \in DOMAIN alluri /\ alluri[u] = r
            /\ u # Root => /\ Parent[u] \in DOMAIN alluri
                           /\ record[r].parent = alluri[Parent[u]]

\* A refresh never uses the record of its directory after it was freed, as long as the
\* directory and those above it stay where they are, can be read and are displayed with
\* their names.
NoUseAfterFree ==
    misuse # {} => replaced # {} \/ misuse \subseteq struck \union odd \union UNION {Below(u) : u \in odd}

\* A directory that was refreshed, and has not changed since that began, is shown as it is,
\* unless an error in reading one of its subdirectories took that away; only directories
\* that are being read themselves, or not displayed with their name, may be gone.
ListsDisk ==
    \A d \in current : (/\ replaced \intersect ({d} \union Below(d) \union Above[d]) = {}
                         /\ odd \intersect ({d} \union Above[d]) = {}) =>
        LET shown == {record[r].uri : r \in ChildrenOf(record, alluri[d])}
            stale == DOMAIN refreshing \union (odd \intersect MayBeDir)
        IN In(d) \subseteq shown /\ shown \subseteq In(d) \union stale

\* Every refresh comes to an end, so that the directory can be refreshed again; unless
\* reading it fails after it was opened.
RefreshEnds ==
    \A u \in Uris : u \in DOMAIN refreshing ~>
        (u \notin DOMAIN refreshing \/ At(u, "lost") \/ misuse # {})

\* A directory that is to be refreshed later is, or another takes its place.
DelayedRefreshEnds ==
    \A u \in Uris : uri_to_refresh = u ~> (uri_to_refresh # u \/ misuse # {})

\* The tree and alluri: every record can be found, and none is used after it was freed.
TreeSound == TypeOK /\ RecordsFindable /\ NoUseAfterFree

\* A refresh ends, at once or after its delay.
EveryRefreshEnds == RefreshEnds /\ DelayedRefreshEnds

=============================================================================
