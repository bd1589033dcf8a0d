------------------------------ MODULE FoundCache ----------------------------
(***************************************************************************)
(* The scanner of bftextview2_scanner.c as operators: its cache, how edits *)
(* correct the cache, and what a run does to it.                           *)
(*                                                                         *)
(* The cache has an entry (Tfound) for every match that begins or ends a   *)
(* block or a context, with the block and the context that were on top of  *)
(* their stacks; an entry that begins one owns it.                         *)
(*                                                                         *)
(* A language is a table of one-character patterns per context.  Tags,     *)
(* identifiers, conditions and stretched blocks are left out.              *)
(***************************************************************************)
EXTENDS Regions, SequencesExt

CONSTANT
    MaxScanned  \* bound: the length of a text

Undefined == 1000   \* BF_POSITION_UNDEFINED, beyond every position
Names == 1 .. MaxScanned + 2
NULL == 0
Freed == -1         \* a pointer to memory that was freed

-----------------------------------------------------------------------------
(* A cache c is a record of cache, blocks, contexts, misused and marks, of *)
(* the tops of the stacks of a run, and of n, the length of the text.  An  *)
(* entry is named by its index.                                            *)

\* The memory of a block or context is given back: what still points to it points
\* nowhere.
Release(c, b, x) ==
    LET to(p, gone) == IF p = gone /\ gone # NULL THEN Freed ELSE p IN
    [c EXCEPT
        !.misused = @ \/ (b # NULL /\ c.curfblock = b) \/ (x # NULL /\ c.curfcontext = x),
        !.curfblock = to(@, b), !.curfcontext = to(@, x),
        !.blocks = [k \in DOMAIN @ \ {b} |-> [@[k] EXCEPT !.parent = to(@, b)]],
        !.contexts = [k \in DOMAIN @ \ {x} |-> [@[k] EXCEPT !.parent = to(@, x)]],
        !.cache = [i \in DOMAIN @ |-> [@[i] EXCEPT !.fblock = to(@, b), !.fcontext = to(@, x)]]]

\* found_free_lcb and g_sequence_remove
RemoveFound(c, i) ==
    LET f == c.cache[i]
        gone == [c EXCEPT !.cache = RemoveAt(@, i)]
    IN Release(gone, IF f.numblockchange = 1 THEN f.fblock ELSE NULL,
                     IF f.numcontextchange > 0 THEN f.fcontext ELSE NULL)

\* The pointers from x down its stack, to the last one that can be followed.
RECURSIVE Stack(_, _)
Stack(heap, x) == IF x \in DOMAIN heap THEN <<x>> \o Stack(heap, heap[x].parent) ELSE <<>>

\* pop_blocks and pop_contexts: the pointer after n (<= 0) are popped
RECURSIVE Popped(_, _, _)
Popped(heap, x, n) ==
    IF n < 0 /\ x \in DOMAIN heap THEN Popped(heap, heap[x].parent, n + 1) ELSE x

\* Whether following n pointers from x meets one to freed memory
Dangles(heap, x, n) == \E k \in 0 .. n - 1 : Popped(heap, x, -k) = Freed

OpenEnd(c, bs) ==
    [c EXCEPT !.blocks = [b \in DOMAIN @ |->
        IF b \in bs THEN [@[b] EXCEPT !.start2 = Undefined, !.end2 = Undefined] ELSE @[b]]]
OpenContext(c, xs) ==
    [c EXCEPT !.contexts = [x \in DOMAIN @ |->
        IF x \in xs THEN [@[x] EXCEPT !.end = Undefined] ELSE @[x]]]

\* the first n of a sequence, as a set
FirstOf(s, n) == {s[i] : i \in {j \in DOMAIN s : j <= n}}

\* The end of the blocks and contexts that entry f popped is not known any more;
\* with a stack given (stb, stx not NULL), of those on it.
ForgetPopped(c, f, stb, stx) ==
    LET bs == FirstOf(Stack(c.blocks, f.fblock), -f.numblockchange)
        xs == FirstOf(Stack(c.contexts, f.fcontext), -f.numcontextchange)
        bad == \/ f.numblockchange < 0 /\ Dangles(c.blocks, f.fblock, -f.numblockchange)
               \/ f.numcontextchange < 0 /\ Dangles(c.contexts, f.fcontext, -f.numcontextchange)
        onb == IF stb = NULL THEN bs ELSE bs \intersect ToSet(Stack(c.blocks, stb))
        onx == IF stx = NULL THEN xs ELSE xs \intersect ToSet(Stack(c.contexts, stx))
    IN [OpenContext(OpenEnd(c, IF f.numblockchange < 0 THEN onb ELSE {}),
                    IF f.numcontextchange < 0 THEN onx ELSE {})
            EXCEPT !.misused = @ \/ bad]

\* remove_cache_entry, the loop: the entries after i go, until what entry i began is
\* ended again.
RECURSIVE RemoveChildren(_, _, _, _, _)
RemoveChildren(c, i, nb, nx, invalid) ==
    IF i >= Len(c.cache) \/ ~(nb > 0 \/ nx > 0) THEN [c |-> c, invalid |-> invalid]
    ELSE LET f == c.cache[i + 1]
             nb2 == nb + f.numblockchange
             nx2 == nx + f.numcontextchange
             st == Stack(c.blocks, c.cache[i].fblock)
             before(k) == \A j \in 1 .. k : c.blocks[st[j]].end2 <= f.charoffset
             deep == {st[k] : k \in {j \in DOMAIN st : before(j)}}
             c2 == IF f.numblockchange < 0 /\ nb2 < 0 THEN OpenEnd(c, deep) ELSE c
         IN RemoveChildren(RemoveFound(c2, i + 1), i, nb2, nx2, f.charoffset)

\* Variant: only the entry itself.
RemoveEntryOnly(c, i, stb, stx) ==
    [c |-> RemoveFound(ForgetPopped(c, c.cache[i], stb, stx), i), invalid |-> c.cache[i].charoffset]

\* remove_cache_entry: the entry i and, if it begins a block or context, all up to the
\* end of that.  The next entry is at i then.
RemoveEntry(c, i, stb, stx) ==
    LET f == c.cache[i]
        removed(r) == [c |-> RemoveFound(r.c, i), invalid |-> r.invalid]
    IN removed(RemoveChildren(ForgetPopped(c, f, stb, stx), i,
                              IF f.numblockchange > 0 THEN f.numblockchange ELSE 0,
                              IF f.numcontextchange > 0 THEN f.numcontextchange ELSE 0,
                              f.charoffset))

\* mark_needscanning
MarkNeedscanning(c, start, end) ==
    LET s == IF start < 0 THEN 0 ELSE start
        e == IF end > c.n THEN c.n ELSE end
    IN IF end <= 0 \/ (end > c.n /\ e <= s) THEN c
       ELSE [c EXCEPT !.marks = markregion_nochange(@, s, e)]

\* get_foundcache_at_offset: the last entry at or before o, or the first one
FoundAt(c, o) ==
    LET before == {i \in DOMAIN c.cache : c.cache[i].charoffset <= o}
    IN IF before # {} THEN CHOOSE i \in before : \A j \in before : j <= i
       ELSE IF c.cache = <<>> THEN NULL ELSE 1

-----------------------------------------------------------------------------
(* The delayed correction of the offsets.  u is the Tscancache_offset_update*)
(* that is carried from one update to the next: prevpos, prevoffset, and   *)
(* the entry `found', which is corrected already.                          *)

\* The ends of the blocks and contexts on the stack of entry i move.
MoveEnds(c, i, startpos, offset) ==
    LET comparepos == IF offset < 0 THEN startpos - offset ELSE startpos
        bs == ToSet(Stack(c.blocks, c.cache[i].fblock))
        xs == ToSet(Stack(c.contexts, c.cache[i].fcontext))
        moved(k) ==
            IF k.start2 = Undefined THEN k
            ELSE IF offset < 0 /\ k.start2 < comparepos /\ k.end2 >= comparepos
            THEN [k EXCEPT !.start2 = Undefined, !.end2 = Undefined]
            ELSE [k EXCEPT !.start2 = IF @ >= startpos THEN @ + offset ELSE @,
                           !.end2 = IF @ > startpos THEN @ + offset ELSE @]
    IN [c EXCEPT
        !.blocks = [b \in DOMAIN @ |-> IF b \in bs THEN moved(@[b]) ELSE @[b]],
        !.contexts = [x \in DOMAIN @ |->
            IF x \in xs /\ @[x].end > startpos /\ @[x].end # Undefined
            THEN [@[x] EXCEPT !.end = @ + offset] ELSE @[x]]]

\* What a block or context that is removed had enclosed is scanned again, unless it
\* was in the deleted text completely.
MarkEnclosed(c, start, end, prevoffset, startpos, deleteoffset) ==
    IF end + prevoffset > startpos - deleteoffset
    THEN MarkNeedscanning(c,
            IF start + prevoffset <= startpos THEN start + prevoffset
            ELSE start + prevoffset + deleteoffset,
            IF end = Undefined THEN Undefined ELSE end + prevoffset + deleteoffset)
    ELSE c

\* The entries from i on that are in the deleted text are removed.
RECURSIVE RemoveDeleted(_, _, _, _, _)
RemoveDeleted(c, i, prevoffset, startpos, deleteoffset) ==
    IF i > Len(c.cache) \/ c.cache[i].charoffset + deleteoffset + prevoffset > startpos THEN c
    ELSE IF c.cache[i].charoffset + prevoffset <= startpos
    THEN RemoveDeleted(c, i + 1, prevoffset, startpos, deleteoffset)
    ELSE LET f == c.cache[i]
             enclosed(d, begins, start, end) ==
                IF begins THEN MarkEnclosed(d, start, end, prevoffset, startpos, deleteoffset) ELSE d
             block == c.blocks[f.fblock]
             context == c.contexts[f.fcontext]
             marked == enclosed(enclosed(c, f.numblockchange > 0, block.start1, block.end2),
                                f.numcontextchange > 0, context.start, context.end)
             last(d) == IF i > Len(d.cache) /\ f.numblockchange < 0
                        THEN MarkNeedscanning(d, startpos, Undefined) ELSE d
         IN RemoveDeleted(last(RemoveEntry(marked, i, NULL, NULL).c), i,
                          prevoffset, startpos, deleteoffset)

\* Variant: an end that is not known moves too.
MoveFoundBlindly(c, i, offset) ==
    LET f == c.cache[i]
        by(o) == o + offset
        moveb(b) == [b EXCEPT !.start1 = by(@), !.end1 = by(@), !.start2 = by(@), !.end2 = by(@)]
        movex(x) == [x EXCEPT !.start = by(@), !.end = by(@)]
    IN [c EXCEPT
        !.cache[i].charoffset = @ + offset,
        !.blocks = IF f.numblockchange = 1 THEN [@ EXCEPT ![f.fblock] = moveb(@)] ELSE @,
        !.contexts = IF f.numcontextchange > 0 THEN [@ EXCEPT ![f.fcontext] = movex(@)] ELSE @]

\* Variant: only what the entry begins moves.
MoveFoundBegun(c, i, offset) ==
    LET f == c.cache[i]
        by(o) == IF o = Undefined THEN o ELSE o + offset
        moveb(b) == [b EXCEPT !.start1 = by(@), !.end1 = by(@), !.start2 = by(@), !.end2 = by(@)]
        movex(x) == [x EXCEPT !.start = by(@), !.end = by(@)]
    IN [c EXCEPT
        !.blocks = IF f.numblockchange = 1 THEN [@ EXCEPT ![f.fblock] = moveb(@)] ELSE @,
        !.contexts = IF f.numcontextchange > 0 THEN [@ EXCEPT ![f.fcontext] = movex(@)] ELSE @]

\* Entry i, and the block and context it begins, move.
MoveFound(c, i, offset) ==
    LET f == c.cache[i]
        by(o) == IF o = Undefined THEN o ELSE o + offset
        moveb(b) == [b EXCEPT !.start1 = by(@), !.end1 = by(@), !.start2 = by(@), !.end2 = by(@)]
        movex(x) == [x EXCEPT !.start = by(@), !.end = by(@)]
    IN [c EXCEPT
        !.cache[i].charoffset = @ + offset,
        !.blocks = IF f.numblockchange = 1 THEN [@ EXCEPT ![f.fblock] = moveb(@)] ELSE @,
        !.contexts = IF f.numcontextchange > 0 THEN [@ EXCEPT ![f.fcontext] = movex(@)] ELSE @]

\* The entries from i up to nextpos move.
RECURSIVE MoveFrom(_, _, _, _, _, _)
MoveFrom(c, u, i, handle, offset, nextpos) ==
    IF c.cache[i].charoffset + handle >= nextpos THEN [c |-> c, u |-> [u EXCEPT !.found = i]]
    ELSE LET c1 == MoveFound(c, i, handle)
             next == i + 1
             more == next <= Len(c.cache)
             h == IF more /\ c1.cache[next].charoffset > u.prevpos /\ handle = u.prevoffset
                  THEN handle + offset ELSE handle
         IN IF ~more \/ c1.cache[next].charoffset + h >= nextpos
            THEN [c |-> c1, u |-> [u EXCEPT !.found = i]]
            ELSE MoveFrom(c1, u, next, h, offset, nextpos)

\* scancache_update_single_offset, from its second loop: the entries after at, which is
\* corrected, move.
MoveRest(c, u, at, startpos, offset, nextpos) ==
    LET next == at + 1
        handle == IF c.cache[next].charoffset + u.prevoffset = startpos
                  THEN u.prevoffset ELSE u.prevoffset + offset
        passed(r) == [c |-> r.c,
                      u |-> [r.u EXCEPT !.prevoffset = @ + offset,
                                        !.prevpos = IF r.c.cache[r.u.found].charoffset < nextpos
                                                    THEN r.c.cache[r.u.found].charoffset ELSE @]]
    IN IF next > Len(c.cache) \/ c.cache[next].charoffset + handle >= nextpos
       THEN [c |-> c, u |-> [found |-> at, prevoffset |-> u.prevoffset + offset,
                             prevpos |-> IF at = NULL THEN 0 ELSE c.cache[at].charoffset]]
       ELSE passed(MoveFrom(c, u, next, handle, offset, nextpos))

Undeleted(c, from, u, startpos, deleteoffset) ==
    IF deleteoffset < 0 THEN RemoveDeleted(c, from, u.prevoffset, startpos, deleteoffset) ELSE c

\* scancache_update_single_offset, for the entry `at'
UpdateFrom(c, u, at, startpos, offset, deleteoffset, nextpos) ==
    IF at = NULL THEN [c |-> c, u |-> u]
    ELSE IF c.cache[at].charoffset <= startpos
    THEN MoveRest(Undeleted(MoveEnds(c, at, startpos, offset), at + 1, u, startpos, deleteoffset),
                  u, at, startpos, offset, nextpos)
    ELSE IF c.cache[at].charoffset + offset >= nextpos
    THEN [c |-> c, u |-> [u EXCEPT !.found = at, !.prevoffset = @ + offset]]
    ELSE MoveRest(Undeleted(c, at, u, startpos, deleteoffset),
                  u, IF deleteoffset < 0 THEN NULL ELSE at, startpos, offset, nextpos)

\* scancache_update_single_offset
UpdateSingleOffset(c, u, startpos, offset, deleteoffset, nextpos) ==
    UpdateFrom(c, u, IF u.found = NULL THEN FoundAt(c, startpos) ELSE u.found,
               startpos, offset, deleteoffset, nextpos)

\* foundcache_process_offsetupdates: a deletion and the insertion after it at the same
\* place are one update.
RECURSIVE Process(_, _, _)
Process(c, u, us) ==
    IF us = <<>> THEN c
    ELSE LET pair == Len(us) > 1 /\ us[2].startpos = us[1].startpos
             rest == IF pair THEN SubSeq(us, 3, Len(us)) ELSE Tail(us)
             offset == IF pair THEN us[1].offset + us[2].offset ELSE us[1].offset
             deleted == IF pair /\ us[2].offset < us[1].offset THEN us[2].offset ELSE us[1].offset
             nextpos == IF rest = <<>> THEN Undefined ELSE rest[1].startpos
             updated(r) == Process(r.c, r.u, rest)
         IN updated(UpdateSingleOffset(c, u, us[1].startpos, offset, deleted, nextpos))

ProcessOffsetUpdates(c, us) == Process(c, [prevpos |-> 0, prevoffset |-> 0, found |-> NULL], us)

-----------------------------------------------------------------------------
(* One run of the scanner.  s is the Tscanning with the local variables of *)
(* bftextview2_run_scanner: the cache, iter, mstart, end, the pattern that *)
(* pos has come to, the tops of the stacks, and the index of nextfound.    *)

NoPattern == [starts |-> FALSE, ends |-> FALSE, next |-> 0]
Context(heap, x) == IF x \in DOMAIN heap THEN heap[x].context ELSE 1
HasNext(s) == s.nextfound <= Len(s.cache)

\* The end of the text is the farthest that an iterator comes.
Enlarge(s, o) == [s EXCEPT !.end = IF o <= @ THEN @ ELSE IF o > s.n THEN s.n ELSE o]

\* Variant: what the entry begins may be on any stack.
NextcacheValidLoosely(s) ==
    /\ HasNext(s)
    /\ LET f == s.cache[s.nextfound] IN
       /\ f.numblockchange <= 0 => f.fblock = s.curfblock
       /\ f.numcontextchange <= 0 => f.fcontext = s.curfcontext

\* nextcache_valid
NextcacheValid(s) ==
    /\ HasNext(s)
    /\ LET f == s.cache[s.nextfound] IN
       /\ f.numblockchange <= 0 => f.fblock = s.curfblock
       /\ f.numcontextchange <= 0 => f.fcontext = s.curfcontext
       /\ f.numcontextchange > 0 => s.contexts[f.fcontext].parent = s.curfcontext
       /\ f.numblockchange > 0 => s.blocks[f.fblock].parent = s.curfblock

\* cached_found_is_valid
CachedFoundIsValid(s, pat) ==
    /\ NextcacheValid(s)
    /\ LET f == s.cache[s.nextfound] IN
       /\ f.numblockchange = 1 => pat.starts
       /\ f.numblockchange < 0 => pat.ends
       /\ f.numcontextchange > 0 => pat.next > 0 /\ s.contexts[f.fcontext].context = pat.next
       /\ f.numcontextchange < 0 => pat.next = f.numcontextchange

\* remove_invalid_cache
RECURSIVE RemoveInvalid(_, _, _)
RemoveInvalid(s, o, invalid) ==
    LET on(t, most) ==
          IF HasNext(t) /\ (t.cache[t.nextfound].charoffset <= o \/ ~NextcacheValid(t))
          THEN RemoveInvalid(t, o, most)
          ELSE Enlarge(t, IF HasNext(t) THEN most ELSE t.n)
        removed(r) == on(r.c, IF r.invalid > invalid THEN r.invalid ELSE invalid)
    IN removed(RemoveEntry(s, s.nextfound, s.curfblock, s.curfcontext))

New(heap, current) == CHOOSE k \in Names : k \notin DOMAIN heap \union {current}

\* found_start_of_block
StartBlock(s, start, end) ==
    LET b == New(s.blocks, s.curfblock)
        block == [start1 |-> start, end1 |-> end, start2 |-> Undefined, end2 |-> Undefined,
                  parent |-> s.curfblock]
    IN [s EXCEPT !.blocks = @ @@ (b :> block), !.curfblock = b]

\* found_end_of_block: an end that the block had beyond this one is not its end any
\* more, and neither are the entries up to there valid.
EndBlock(s, start, end) ==
    LET b == s.curfblock
        old == s.blocks[b].end2
        longer == s.blocks[b].start2 # Undefined /\ old >= end
        at == FoundAt(s, old)
        there == longer /\ at # NULL /\ s.cache[at].charoffset = old
        s1 == IF longer THEN Enlarge(s, old) ELSE s
        RECURSIVE Cut(_, _)
        Cut(t, k) == IF k < t.nextfound THEN t ELSE Cut(RemoveFound(t, k), k - 1)
        s2 == IF there THEN Cut(s1, at) ELSE s1
    IN [s2 EXCEPT !.blocks[b].start2 = start, !.blocks[b].end2 = end,
                  !.curfblock = s2.blocks[b].parent]

\* found_context_change
ChangeContext(s, pat, start, end) ==
    IF pat.next < 0
    THEN [s EXCEPT !.contexts = [x \in DOMAIN @ |->
                       IF x \in FirstOf(Stack(@, s.curfcontext), -pat.next)
                       THEN [@[x] EXCEPT !.end = start] ELSE @[x]],
                   !.curfcontext = Popped(s.contexts, @, pat.next)]
    ELSE LET x == New(s.contexts, s.curfcontext)
         IN [s EXCEPT !.contexts = @ @@ (x :> [start |-> end, end |-> Undefined,
                                               context |-> pat.next, parent |-> s.curfcontext]),
                      !.curfcontext = x]

\* found_match, the entry in the cache agrees
Agreed(s, pat, start) ==
    LET f == s.cache[s.nextfound] IN
    [s EXCEPT
        !.contexts = IF f.numcontextchange < 0
                     THEN [x \in DOMAIN @ |->
                              IF x \in FirstOf(Stack(@, s.curfcontext), -pat.next)
                              THEN [@[x] EXCEPT !.end = start] ELSE @[x]] ELSE @,
        !.curfcontext = IF f.numcontextchange >= 0 THEN f.fcontext
                        ELSE Popped(s.contexts, @, pat.next),
        !.curfblock = IF f.numblockchange < 0 THEN Popped(s.blocks, @, f.numblockchange)
                      ELSE f.fblock,
        !.nextfound = @ + 1]

\* What the match does to the stacks of s: blocks and contexts pushed (1) or popped
EndsBlock(s, pat) == ~pat.starts /\ pat.ends /\ s.curfblock \in DOMAIN s.blocks
BlockChange(s, pat) == IF pat.starts THEN 1 ELSE IF EndsBlock(s, pat) THEN -1 ELSE 0
Changes(s, pat) == pat.next \notin {0, Context(s.contexts, s.curfcontext)}
ContextChange(s, pat) ==
    IF ~Changes(s, pat) THEN 0
    ELSE IF pat.next > 0 THEN 1
    ELSE -Cardinality(FirstOf(Stack(s.contexts, s.curfcontext), -pat.next))

WithBlock(s, pat, start, end) ==
    IF pat.starts THEN StartBlock(s, start, end)
    ELSE IF EndsBlock(s, pat) THEN EndBlock(s, start, end) ELSE s
WithContext(s, pat, start, end) ==
    IF Changes(s, pat) THEN ChangeContext(s, pat, start, end) ELSE s

\* The entry for a match that ends at `end', with the changes nb and nx of the stacks;
\* the block and the context it names may be gone from s since.
WithEntry(s, end, nb, nx, fblock, fcontext) ==
    LET alive(p, heap) == IF p \in DOMAIN heap \union {NULL} THEN p ELSE Freed
        found == [charoffset |-> end, numblockchange |-> nb, numcontextchange |-> nx,
                  fblock |-> alive(fblock, s.blocks), fcontext |-> alive(fcontext, s.contexts)]
        k == 1 + Cardinality({i \in DOMAIN s.cache : s.cache[i].charoffset <= end})
    IN [s EXCEPT !.cache = InsertAt(@, k, found), !.nextfound = IF k <= @ THEN @ + 1 ELSE @]

\* found_match, the match is not in the cache; obsolete: nextfound is before it
InsertedFound(s, pat, start, end, obsolete) ==
    LET put(s2, nb, nx) ==
          IF nb = 0 /\ nx = 0 THEN s2
          ELSE WithEntry(IF obsolete /\ HasNext(s2) THEN RemoveInvalid(s2, end, 0) ELSE s2,
                         end, nb, nx,
                         IF nb = 1 THEN s2.curfblock ELSE s.curfblock,
                         IF nx = 1 THEN s2.curfcontext ELSE s.curfcontext)
    IN put(WithContext(WithBlock(IF HasNext(s) THEN s ELSE Enlarge(s, s.n), pat, start, end),
                       pat, start, end),
           BlockChange(s, pat), ContextChange(s, pat))

\* found_match
FoundMatch(s, pat, start, end) ==
    LET next == s.cache[s.nextfound]
        ahead == HasNext(s) /\ next.charoffset > end
    IN IF ~pat.starts /\ ~pat.ends /\ ~Changes(s, pat) THEN s
       ELSE IF HasNext(s) /\ next.charoffset = end /\ CachedFoundIsValid(s, pat)
       THEN Agreed(s, pat, start)
       ELSE InsertedFound(IF ahead THEN Enlarge(s, next.charoffset) ELSE s, pat, start, end,
                     HasNext(s) /\ ~ahead)

\* One turn of the loop of bftextview2_run_scanner: the pattern after the next
\* character; it is a match when that is none, and the turn comes with the entries
\* that were passed without one at last.
NextPattern(s, txt) ==
    IF s.last \/ s.iter = s.n \/ s.pos # NoPattern THEN NoPattern
    ELSE s.lang[Context(s.contexts, s.curfcontext)][txt[s.iter + 1]]

Stale(s) == (s.last \/ s.iter = s.n) /\ HasNext(s) /\ s.cache[s.nextfound].charoffset <= s.iter
Resumed(s, end) == IF s.end > end THEN [s EXCEPT !.last = FALSE] ELSE s
Matched(s) ==
    IF s.pos # NoPattern THEN FoundMatch(s, s.pos, s.mstart, s.iter)
    ELSE IF Stale(s) THEN Resumed(RemoveInvalid(s, s.iter, 0), s.end)
    ELSE s
Checked(s) == IF s.last /\ HasNext(s) /\ ~NextcacheValid(s) THEN RemoveInvalid(s, 0, 0) ELSE s

Advanced(s, pat) ==
    LET on == pat # NoPattern
        iter == IF ~s.last /\ s.iter < s.n /\ (on \/ s.mstart = s.iter) THEN s.iter + 1 ELSE s.iter
        last == IF iter = s.end \/ s.last THEN ~s.last ELSE FALSE
    IN [s EXCEPT !.iter = iter, !.mstart = IF on THEN @ ELSE iter, !.pos = pat,
                 !.last = last, !.more = iter # s.end \/ last]

Turn(s, txt) ==
    LET turn(pat) == Advanced(IF pat # NoPattern THEN s ELSE Checked(Matched(s)), pat)
    IN turn(NextPattern(s, txt))

\* The loop; bound: it ends within the time of one run.
RECURSIVE Turns(_, _)
Turns(s, txt) == IF s.more THEN Turns(Turn(s, txt), txt) ELSE s

\* The start of the line of o, and of the line after it
LineStart(txt, o) ==
    LET ls == {k \in 0 .. o : k = 0 \/ txt[k] = "n"} IN CHOOSE k \in ls : \A j \in ls : j <= k
NextLine(txt, o) ==
    LET ls == {k \in o + 1 .. Len(txt) : k = Len(txt) \/ txt[k] = "n"}
    IN IF ls = {} THEN Len(txt) ELSE CHOOSE k \in ls : \A j \in ls : k <= j

\* bftextview2_run_scanner, to the begin of its loop, for the region of start and end;
\* reconstruct_scanning finds the stacks.
StartRun(c, txt, start, end) ==
    LET at == FoundAt(c, start - 1)
        rebuilt == start > 0 /\ at # NULL /\ c.cache[at].charoffset <= start - 1
        f == c.cache[at]
        line == LineStart(txt, start - 1)
        from == IF start = 0 THEN 0
                ELSE IF rebuilt /\ f.charoffset > line THEN f.charoffset ELSE line
        nl == NextLine(txt, from)
    IN [cache |-> c.cache, blocks |-> c.blocks, contexts |-> c.contexts, misused |-> c.misused,
        marks |-> c.marks, n |-> c.n, lang |-> c.lang,
        curfblock |-> IF ~rebuilt THEN NULL
                      ELSE IF f.numblockchange < 0 THEN Popped(c.blocks, f.fblock, f.numblockchange)
                      ELSE f.fblock,
        curfcontext |-> IF ~rebuilt THEN NULL
                        ELSE IF f.numcontextchange < 0
                        THEN Popped(c.contexts, f.fcontext, f.numcontextchange)
                        ELSE f.fcontext,
        nextfound |-> IF rebuilt THEN at + 1 ELSE 1,
        iter |-> from, mstart |-> from, pos |-> NoPattern, last |-> FALSE, more |-> TRUE,
        end |-> IF end < c.n /\ nl >= end THEN nl ELSE end]
=============================================================================
