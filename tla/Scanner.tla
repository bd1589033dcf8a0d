------------------------------ MODULE Scanner -------------------------------
(***************************************************************************)
(* A document that is edited while its syntax is scanned (bftextview2.c    *)
(* and bftextview2_scanner.c).  Edits only note how offsets change, mark   *)
(* their surroundings and see to it that a callback will scan; a run of    *)
(* the callback corrects the cache for the edits before it, then scans the *)
(* first region.  The scanner is on for the current document only; a       *)
(* callback that finds it off ends.                                        *)
(***************************************************************************)
EXTENDS FoundCache

CONSTANTS
    Alphabet,   \* the characters of a text; "n" is the end of a line
    Languages   \* the languages: [context -> [character -> pattern]]

VARIABLES
    language,   \* btv->bflang, chosen for ever
    text,
    scanning,   \* btv->scanning
    updates,    \* btv->scancache.offsetupdates
    cache,      \* btv->scancache.foundcaches
    blocks,     \* the Tfoundblocks, by the name of their memory
    contexts,   \* the Tfoundcontexts
    misused,    \* a block or context was used after it was freed
    shown,      \* the document is "current"; or its page was "left", or another
                \* document "activated" (last_activated_doc) since
    highlight,  \* doc->highlightstate
    enabled,    \* btv->enable_scanner
    callback,   \* the callback that scans: "none", "immediate" or "idle"
    stranded    \* the scanner was switched on without a callback

found == <<cache, blocks, contexts, misused>>
view == <<shown, highlight, enabled>>
schedule == <<callback, stranded>>
scanVars == <<language, text, scanning, updates, found, view, schedule>>

Idle == updates = <<>> /\ scanning = <<>>

Cache == [cache |-> cache, blocks |-> blocks, contexts |-> contexts, misused |-> misused,
          marks |-> scanning, n |-> Len(text), lang |-> language,
          curfblock |-> NULL, curfcontext |-> NULL]

Becomes(c) == /\ cache' = c.cache /\ blocks' = c.blocks
              /\ contexts' = c.contexts /\ misused' = c.misused

\* bftextview2_schedule_scanning, for the new value of enable_scanner
Schedule ==
    /\ callback' = IF callback = "immediate" \/ enabled' THEN "immediate" ELSE "none"
    /\ stranded' = (stranded /\ ~enabled')

\* foundcache_update_offsets
UpdateOffsets(c, startpos, offset) ==
    LET n == Len(updates)
        new == <<[startpos |-> startpos, offset |-> offset]>>
        last == updates[n]
    IN IF n > 0 /\ last.startpos = startpos /\ (last.offset < 0 <=> offset < 0)
       THEN [c |-> c, us |-> [updates EXCEPT ![n].offset = @ + offset]]
       ELSE IF n > 0 /\ (last.startpos > startpos \/ (last.startpos = startpos /\ last.offset > 0))
       THEN [c |-> ProcessOffsetUpdates(c, updates), us |-> new]
       ELSE [c |-> c, us |-> updates \o new]

\* Bound: an edit comes when the edits before it are scanned, or inserts what replaces
\* the text just deleted; nothing is inserted before the first entry of the cache.
MayInsert(p) ==
    /\ Idle \/ (Len(updates) = 1 /\ updates[1].startpos = p /\ updates[1].offset < 0)
    /\ cache # <<>> => p >= cache[1].charoffset

\* bftextview2_insert_text_lcb and, after the insertion, bftextview2_insert_text_after_lcb
InsertText(p, ch) ==
    /\ MayInsert(p) /\ Len(text) < MaxScanned
    /\ \E r \in {UpdateOffsets(Cache, p, 1)} :
       /\ Becomes(r.c)
       /\ updates' = r.us
       /\ scanning' = markregion_insert(r.c.marks, p, p + 1)
    /\ text' = InsertAt(text, p + 1, ch)
    /\ UNCHANGED <<language, view>>
    /\ Schedule

\* bftextview2_delete_range_lcb and bftextview2_delete_range_after_lcb: the surroundings
\* up to a space, at least one character on each side, are marked.
DeleteText(so, eo) ==
    /\ Idle /\ so < eo
    /\ LET n == Len(text)
           back == {k \in 0 .. so - 1 : k = 0 \/ text[k + 1] = "n"}
           on == {k \in eo + 1 .. n : k = n \/ text[k + 1] = "n"}
           mso == IF so = 0 THEN 0 ELSE Max(back)
           meo == IF eo = n THEN n ELSE Min(on)
       IN \E r \in {UpdateOffsets(Cache, so, so - eo)} :
          /\ Becomes(r.c)
          /\ updates' = r.us
          /\ scanning' = markregion_delete(r.c.marks, mso, meo + so - eo, so - eo)
    /\ text' = SubSeq(text, 1, so) \o SubSeq(text, eo + 1, Len(text))
    /\ UNCHANGED <<language, view>>
    /\ Schedule

\* Variant: the scanned region is marked to be scanned again.
RunScannerAgain(more) ==
    /\ updates' = <<>>
    /\ \E c \in {ProcessOffsetUpdates(Cache, updates)} :
         \/ c.marks = <<>> /\ Becomes(c) /\ scanning' = <<>> /\ ~more
         \/ \E r \in Regions(c.marks) :
            \E s \in {Turns(StartRun(c, text, c.marks[1].pos, r[2]), text)} :
               /\ Becomes(s)
               /\ scanning' = markregion_region_done(s.marks, c.marks[1].pos)
               /\ more

\* bftextview2_run_scanner: the pending offsets first, then the first region and those
\* that are near it.  `more' is what it returns.
RunScanner(more) ==
    /\ updates' = <<>>
    /\ \E c \in {ProcessOffsetUpdates(Cache, updates)} :
         \/ c.marks = <<>> /\ Becomes(c) /\ scanning' = <<>> /\ ~more
         \/ \E r \in Regions(c.marks) :
            \E s \in {Turns(StartRun(c, text, c.marks[1].pos, r[2]), text)} :
               /\ Becomes(s)
               /\ scanning' = markregion_region_done(s.marks, s.iter)
               /\ more = (s.iter < s.n)

\* bftextview2_scanner_idle and bftextview2_scanner_scan
ScannerIdle ==
    /\ callback # "none"
    /\ \/ /\ ~enabled
          /\ callback' = "none"
          /\ UNCHANGED <<scanning, updates, found>>
       \/ \E more \in BOOLEAN :
          /\ enabled
          /\ RunScanner(more)
          /\ callback' = IF more THEN "idle" ELSE "none"
    /\ UNCHANGED <<language, text, view, stranded>>

\* bluefish_text_view_rescan and bluefish_text_view_scan_cleanup: cleanup_scanner
\* leaves the pending offsets.
CleanUp ==
    /\ cache' = <<>> /\ blocks' = <<>> /\ contexts' = <<>>
    /\ UNCHANGED <<language, text, updates, misused>>
Rescan ==
    /\ CleanUp
    /\ scanning' = markregion_nochange(<<>>, 0, Len(text))
    /\ Schedule

\* doc_toggle_highlighting
ToggleHighlighting ==
    /\ shown = "current"
    /\ highlight' = ~highlight
    /\ enabled' = highlight'
    /\ UNCHANGED shown
    /\ IF highlight' THEN Rescan ELSE CleanUp /\ scanning' = <<>> /\ UNCHANGED schedule

\* doc_update_highlighting
UpdateHighlighting ==
    /\ shown = "current"
    /\ enabled' = TRUE
    /\ UNCHANGED <<shown, highlight>>
    /\ Rescan

\* bfwin_notebook_changed, another page is shown
Leave ==
    /\ shown = "current"
    /\ shown' = "left"
    /\ enabled' = FALSE
    /\ UNCHANGED <<language, text, scanning, updates, found, highlight, schedule>>

\* doc_activate of the other document
OtherActivated ==
    /\ shown = "left"
    /\ shown' = "activated"
    /\ UNCHANGED <<language, text, scanning, updates, found, highlight, enabled, schedule>>

\* Variant: the scanner is only switched on, whatever was activated.
ActivateUnscheduled ==
    /\ shown # "current"
    /\ shown' = "current"
    /\ enabled' = (highlight \/ shown = "left")
    /\ stranded' = (shown = "left" /\ callback = "none" /\ ~Idle)
    /\ UNCHANGED <<language, text, scanning, updates, found, highlight, callback>>

\* doc_activate, the page is shown again: if no other document was activated, the
\* scanner is only switched on.
Activate ==
    /\ shown # "current"
    /\ shown' = "current"
    /\ enabled' = (highlight \/ shown = "left")
    /\ UNCHANGED <<language, text, scanning, updates, found, highlight>>
    /\ IF shown = "activated" /\ highlight THEN Schedule
       ELSE /\ stranded' = (shown = "left" /\ callback = "none" /\ ~Idle)
            /\ UNCHANGED callback

\* A document that was loaded in the background and not scanned yet.
ScanInit ==
    /\ language \in Languages
    /\ text \in SeqOf(Alphabet, MaxScanned)
    /\ scanning = markregion_nochange(<<>>, 0, Len(text))
    /\ updates = <<>> /\ cache = <<>>
    /\ blocks = <<>> /\ contexts = <<>>
    /\ misused = FALSE
    /\ shown = "activated" /\ highlight = TRUE /\ enabled = FALSE
    /\ callback = "none" /\ stranded = FALSE

ScanNext ==
    \/ \E p \in 0 .. Len(text), ch \in Alphabet : InsertText(p, ch)
    \/ \E so \in 0 .. Len(text), eo \in 0 .. Len(text) : DeleteText(so, eo)
    \/ ScannerIdle
    \/ ToggleHighlighting
    \/ UpdateHighlighting
    \/ Leave
    \/ OtherActivated
    \/ Activate

\* The main loop runs a callback that is due.  This is WF_scanVars(ScannerIdle) written out:
\* it is enabled while there is a callback, and no other step looks like it.
CallbackRan ==
    /\ callback # "none" /\ callback' # "immediate"
    /\ UNCHANGED <<text, view>>
Fairness == []<>(callback = "none") \/ []<><<CallbackRan>>_scanVars

ScanSpec == ScanInit /\ [][ScanNext]_scanVars /\ Fairness

-----------------------------------------------------------------------------
Places == 0 .. MaxScanned

ScanTypeOK ==
    /\ language \in Languages
    /\ text \in SeqOf(Alphabet, MaxScanned)
    /\ DOMAIN blocks \subseteq Names /\ DOMAIN contexts \subseteq Names
    /\ \A i \in DOMAIN cache : /\ cache[i].fblock \in {NULL, Freed} \union Names
                              /\ cache[i].fcontext \in {NULL, Freed} \union Names
    /\ \A b \in DOMAIN blocks : {blocks[b].start1, blocks[b].end1} \subseteq Places
                            /\ {blocks[b].start2, blocks[b].end2} \subseteq Places \union {Undefined}
    /\ \A x \in DOMAIN contexts : contexts[x].end \in Places \union {Undefined}
    /\ shown \in {"current", "left", "activated"}
    /\ callback \in {"none", "immediate", "idle"}
    /\ highlight \in BOOLEAN /\ enabled \in BOOLEAN /\ stranded \in BOOLEAN

\* No block or context that the removal of its entry freed is followed any more, not
\* from another entry, not from the stacks of a run.
NoUseAfterFree == ~misused

\* scancache_check_integrity: the stacks before entry i, as the entries push and pop them
RECURSIVE Stacks(_, _)
Stacks(c, i) ==
    IF i = 1 THEN [b |-> <<>>, x |-> <<>>]
    ELSE LET f == c.cache[i - 1]
             st == Stacks(c, i - 1)
             moved(s, n, top) ==
                IF n > 0 THEN <<top>> \o s
                ELSE SubSeq(s, 1 - n, Len(s))
         IN [b |-> moved(st.b, f.numblockchange, f.fblock),
             x |-> moved(st.x, f.numcontextchange, f.fcontext)]
TopOf(s) == IF s = <<>> THEN NULL ELSE s[1]
CheckIntegrity(c) ==
    \A i \in DOMAIN c.cache :
        LET f == c.cache[i]
            prev == IF i = 1 THEN 0 ELSE c.cache[i - 1].charoffset
            st == Stacks(c, i)
            b == c.blocks[f.fblock]
            x == c.contexts[f.fcontext]
        IN /\ f.charoffset > prev
           /\ IF f.numcontextchange > 0
              THEN /\ x.parent = TopOf(st.x)
                   /\ x.start >= prev /\ x.end >= x.start /\ x.end >= f.charoffset
              ELSE f.fcontext = TopOf(st.x)
           /\ IF f.numblockchange > 0
              THEN /\ b.parent = TopOf(st.b)
                   /\ b.start1 >= prev /\ b.end1 >= f.charoffset /\ b.end1 >= b.start1
                   /\ b.start2 >= b.end1 /\ b.end2 >= b.start2
              ELSE f.fblock = TopOf(st.b)

\* What scancache_check_integrity asserts when a scan is finished: the entries are in
\* the order of their places, and each one has the block and the context that the
\* entries before it left on top; every block and context ends after it begins.
CacheIntegrity == Idle => CheckIntegrity(Cache)

\* When all is scanned, every entry of the cache stands at a character that has its
\* pattern in its context: no edit leaves an entry where its match is not any more.
NoStaleEntry ==
    Idle => \A i \in DOMAIN cache :
        LET f == cache[i]
            x == f.fcontext
            context == Context(contexts, IF f.numcontextchange > 0 THEN contexts[x].parent ELSE x)
            pat == language[context][text[f.charoffset]]
        IN /\ f.charoffset \in DOMAIN text
           /\ f.numblockchange > 0 <=> pat.starts
           /\ f.numblockchange < 0 => pat.ends
           /\ f.numcontextchange < 0 => pat.next = f.numcontextchange
           /\ f.numcontextchange > 0 => pat.next = contexts[x].context

\* What is changed in the current document is scanned at last, for there is always a callback
\* due that does it; unless doc_activate switched the scanner on after the callback had
\* found it off.
EventuallyScanned == ~Idle ~> (Idle \/ ~enabled \/ stranded)

\* The cache of bftextview2_scanner.c is one the program's own check accepts, tells of the
\* text as it is now, and never leads to what was freed.
CacheRight == ScanTypeOK /\ NoUseAfterFree /\ CacheIntegrity /\ NoStaleEntry

=============================================================================
