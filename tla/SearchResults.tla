--------------------------- MODULE SearchResults ----------------------------
(***************************************************************************)
(* The search of the advanced dialog in open documents (snr3.c): it runs   *)
(* in pieces from an idle callback, one document after the other, fills a  *)
(* list of results, and keeps it valid while documents are edited, shown   *)
(* and closed, and results are replaced.                                   *)
(*                                                                         *)
(* The Tsnr3run is one record, on which the functions of snr3.c are        *)
(* operators; each action is one callback of the main loop.  Left out:     *)
(* highlights, the texts shown in the dialog, bookmarks, search in files   *)
(* (SearchFiles), the simple search of the main window, what becomes of    *)
(* documents that are still loading (that there are some makes a search of *)
(* all documents stop), and patterns other than a fixed text.              *)
(***************************************************************************)
EXTENDS Integers, Sequences, FiniteSets, SequencesExt

CONSTANTS
    Docs,         \* 1 .. n, in the order of documentlist
    Query,        \* the text that is searched
    Replacement,  \* and the one it is replaced by
    InitText,     \* [Docs -> Seq(STRING)]
    Options,      \* type, scope, and the region so .. eo, that can be chosen
    Letters,      \* what the user types
    MaxEdits, MaxRuns, MaxLength,  \* bounds: edits, searches, length of a document
    MaxUpset      \* bound: what the code does not handle happens as often before all stops

VARIABLES
    text,              \* of each document
    documents,         \* those that are open
    current_document,
    s3,                \* the Tsnr3run
    alive,             \* it is not freed
    (* what has happened: *)
    edits, runs,
    goal,              \* what the last search is for, and the texts it should lead to
    upset,             \* what happened that the code does not handle
    misuse             \* freed memory was used: nothing can be said of what follows

vars == <<text, documents, current_document, s3, alive, edits, runs, goal, upset, misuse>>

NoDoc == 0
NoOption == [type |-> "none", scope |-> "none", so |-> 0, eo |-> 0]
\* s3run->scope; a search that was aborted has none
Scope(S) == IF S.aborted THEN "none" ELSE S.option.scope
NoLoop == [doc |-> NoDoc, so |-> 0, eo |-> 0, update |-> FALSE]
Dangling == -1      \* the current result was freed
ToEnd == -1

-----------------------------------------------------------------------------
(* Texts *)

Chars(t, so, eo) == SubSeq(t, so + 1, IF eo = ToEnd \/ eo > Len(t) THEN Len(t) ELSE eo)
Replaced(t, so, eo, by) == SubSeq(t, 1, so) \o by \o SubSeq(t, eo + 1, Len(t))

\* where the query is found from an offset on, one after the other
Found(t, from) ==
    LET here(i) == Chars(t, i, i + Len(Query)) = Query
        first(i) == {j \in i .. Len(t) : here(j) /\ \A k \in i .. j - 1 : ~here(k)}
        all[i \in 0 .. Len(t)] ==
            IF first(i) = {} THEN << >>
            ELSE LET j == CHOOSE k \in first(i) : TRUE IN <<j>> \o all[j + Len(Query)]
    IN IF from > Len(t) THEN << >> ELSE all[from]

\* the text after a replacement of every occurrence in so .. eo
AllReplacedText(t, so, eo) ==
    LET part == Chars(t, so, eo)
        by(i, r) == Replaced(r, Found(part, 0)[i], Found(part, 0)[i] + Len(Query), Replacement)
        n == Len(Found(part, 0))
        \* from the last to the first, so that the offsets stay right
        done[i \in 0 .. n] == IF i = 0 THEN part ELSE by(n + 1 - i, done[i - 1])
    IN Replaced(t, so, so + Len(part), done[n])

-----------------------------------------------------------------------------
(* The list of results *)

Result(doc, so, eo) == [doc |-> doc, so |-> so, eo |-> eo]
Kept(S, gone) == {i \in DOMAIN S.results : ~gone[i]}
Without(S, gone) == [k \in 1 .. Cardinality(Kept(S, gone)) |->
    S.results[CHOOSE i \in Kept(S, gone) : Cardinality({j \in Kept(S, gone) : j <= i}) = k]]
FirstDoc(S) == IF S.results = << >> THEN NoDoc ELSE S.results[1].doc
Rank(S, gone, i) == Cardinality({j \in Kept(S, gone) : j <= i})
Gone(S, Test(_)) == [i \in DOMAIN S.results |-> Test(S.results[i])]

\* Variant: the current result stays where it is.
DeleteResultsOnly(S, gone) == [S EXCEPT !.results = Without(S, gone)]

\* delete_result_from_list of each of them: the current result moves to the next one
DeleteResults(S, gone) ==
    LET later == {i \in Kept(S, gone) : i >= S.current} IN
    [S EXCEPT !.results = Without(S, gone),
              !.current = IF @ <= 0 THEN @ ELSE IF later = {} THEN 0
                          ELSE Rank(S, gone, CHOOSE i \in later : \A j \in later : i <= j)]

\* snr3run_resultcleanup
ResultCleanup(S) ==
    [S EXCEPT !.results = << >>, !.current = 0, !.curposition = 0, !.curoffset = 0]

\* snr3run_update_offsets
UpdateOffsets(S, doc, startpos, offset) ==
    LET hit(r) == r.doc = doc /\ r.eo >= startpos
        beyond(r) == r.so > (IF offset < 0 THEN startpos - offset ELSE startpos)
        T == [S EXCEPT !.results =
                [i \in DOMAIN @ |-> IF hit(@[i]) /\ beyond(@[i])
                                    THEN Result(doc, @[i].so + offset, @[i].eo + offset) ELSE @[i]]]
        deleted(r) == hit(r) /\ ~beyond(r) /\ offset < 0
                      /\ (r.so >= startpos \/ r.eo <= startpos - offset)
    IN DeleteResults(T, Gone(S, deleted))

-----------------------------------------------------------------------------
(* The queue and the cancel; txt are the texts of the documents *)

\* Variant: an update starts at the change.
UpdateFromChange(S, rii) == rii.so

\* where snr3_queue_run starts an update: the end of the last result that is left
UpdateFrom(S, rii) == IF S.results = << >> THEN 0 ELSE Last(S.results).eo

\* snr3_queue_run
QueueRun(S, rii, txt) ==
    LET stale(r) == r.doc = rii.doc /\ r.so >= rii.so
        T == IF rii.update THEN DeleteResults(S, Gone(S, stale)) ELSE S
        so == IF rii.update THEN UpdateFrom(T, rii) ELSE rii.so
    IN [T EXCEPT !.curdoc = rii.doc, !.curoffset = 0, !.curposition = 0, !.so = so, !.eo = rii.eo,
                 !.curbuf = Chars(txt[rii.doc], so, rii.eo), !.loop = rii, !.idle_id = TRUE]

\* snr3_run_in_doc, with queue_push
RunInDoc(S, rii, txt) ==
    LET T == [S EXCEPT !.runcount = @ + 1,
                       !.callback = IF rii.update THEN "update_callback" ELSE @]
    IN IF ~S.query THEN S
       ELSE IF T.loop = NoLoop THEN QueueRun(T, rii, txt)
       ELSE [T EXCEPT !.waiting = Append(@, rii)]

\* queue_worker_ready
WorkerReady(S, txt) ==
    IF S.waiting = << >> THEN [S EXCEPT !.loop = NoLoop]
    ELSE QueueRun([S EXCEPT !.waiting = Tail(@), !.loop = NoLoop], Head(S.waiting), txt)

\* Variant: the count is left alone.
CancelRunUncounted(S, txt) ==
    LET T == IF S.idle_id THEN [WorkerReady(S, txt) EXCEPT !.idle_id = FALSE, !.curdoc = NoDoc]
             ELSE S
    IN IF T.changed_idle_id THEN [T EXCEPT !.changes = Front(@), !.changed_idle_id = FALSE] ELSE T

\* Variant: the id of the idle callback is kept.
CancelRunKeepsId(S, txt) ==
    LET T == IF S.idle_id
             THEN [WorkerReady(S, txt) EXCEPT !.runcount = 0, !.idle_id = FALSE, !.curdoc = NoDoc]
             ELSE S
    IN IF T.changed_idle_id THEN [T EXCEPT !.changes = Front(@)] ELSE T

\* snr3_cancel_run
CancelRun(S, txt) ==
    LET T == IF S.idle_id
             THEN [WorkerReady(S, txt) EXCEPT !.runcount = 0, !.idle_id = FALSE, !.curdoc = NoDoc]
             ELSE S
    IN IF T.changed_idle_id THEN [T EXCEPT !.changes = Front(@), !.changed_idle_id = FALSE] ELSE T

-----------------------------------------------------------------------------
(* Changes of a document *)

\* Variant: only results that begin after the change are removed.
StruckAfter(r, doc, pos) == r.doc = doc /\ r.so > pos

\* the results handle_changed_in_snr3doc removes
Struck(r, doc, pos) == r.doc = doc /\ r.eo > pos

\* handle_changed_in_snr3doc, for len characters inserted (deleted, when negative) at pos
Ignored(S, doc) ==
    IF Scope(S) # "alldocs" THEN FirstDoc(S) \notin {NoDoc, doc}
    ELSE \E i \in DOMAIN S.waiting : S.waiting[i].doc = doc
HandleChanged(S, doc, pos, len, txt) ==
    LET comparepos == IF len > 0 THEN pos ELSE pos - len
        so == IF S.so > comparepos THEN S.so + len ELSE S.so
        eo == IF S.eo # ToEnd /\ S.eo > comparepos THEN S.eo + len ELSE S.eo
        gone(r) == Struck(r, doc, pos)
        T == DeleteResults([S EXCEPT !.so = so, !.eo = eo], Gone(S, gone))
        from == IF S.curposition < pos THEN S.curposition ELSE pos
        U == IF S.curdoc = doc THEN CancelRun(T, txt) ELSE T
        full == S.curdoc = doc /\ U.callback # "update_callback"
    IN IF Ignored(S, doc) \/ (S.eo > 0 /\ S.eo < pos) THEN S
       ELSE [U EXCEPT !.changes = Append(@, [doc |-> doc, so |-> IF from < so THEN so ELSE from,
                                             eo |-> IF full THEN U.eo ELSE eo, update |-> ~full]),
                      !.changed_idle_id = TRUE]

-----------------------------------------------------------------------------
(* What the code does not handle; nothing is said of the results after it. *)

\* a cancel while documents wait: the next one is started, but its idle callback and its
\* document are forgotten
Orphan(S) == IF S.idle_id /\ S.waiting # << >> THEN {"orphan"} ELSE {}

\* a cancel forgets the last change only
Forgotten(S, doc) ==
    (IF S.changed_idle_id /\ Last(S.changes).doc # doc THEN {"unfinished"} ELSE {})
LeftOver(S) == IF CancelRun(S, text).changes # << >> THEN {"change"} ELSE {}

\* an update starts behind the results of another document, or before the region
Mixed(S, rii) ==
    LET stale(r) == r.doc = rii.doc /\ r.so >= rii.so
        T == DeleteResults(S, Gone(S, stale))
    IN IF rii.update /\ (IF T.results = << >> THEN goal.so > 0 ELSE Last(T.results).doc # rii.doc)
       THEN {"mixed"} ELSE {}

\* a change in a document that was not searched, when nothing was found; a change while
\* replacing; one in the part of a document that was searched already, or in a document
\* that is searched from an offset on, or one that moves the offset of another document
Unforeseen(S, doc, pos) ==
    IF Ignored(S, doc) \/ (S.eo > 0 /\ S.eo < pos) THEN {}
    ELSE (IF Scope(S) # "alldocs" /\ goal.docs # {doc} THEN {"other document"} ELSE {})
         \union (IF S.replaceall THEN {"replace"} ELSE {})
         \union (IF S.loop # NoLoop /\ S.curdoc # doc /\ S.so > pos THEN {"moved"} ELSE {})
         \union (IF S.curdoc = doc THEN Orphan(S) \union Forgotten(S, doc) ELSE {})
         \union (IF S.curdoc = doc /\ S.callback # "update_callback"
                    /\ (S.so > 0 \/ (S.curposition > pos /\ Len(Query) > 1))
                 THEN {"searched before"} ELSE {})

-----------------------------------------------------------------------------
(* The user *)

\* a search that begins in a document that is gone
Uses(S) == S.loop # NoLoop /\ S.loop # s3.loop /\ S.loop.doc \notin documents

\* nothing is said of the results
NoGoal == [kind |-> "none", docs |-> {}, so |-> 0, eo |-> 0, text |-> [d \in Docs |-> << >>]]

\* Variant: a search without a selection leaves the buttons off.
AbortedOff(S) == [S EXCEPT !.aborted = TRUE]

\* snr3_run without a selection, or with documents that are still loading
Aborted(S) ==
    [S EXCEPT !.aborted = TRUE,
              !.buttons = @ \/ (S.replaceall /\ S.option.scope = "selection")]

\* snr3_run of the documents in the scope
Run(S, callback) ==
    LET o == S.option
        T == [S EXCEPT !.callback = callback]
        scope == IF o.scope = "alldocs" THEN documents ELSE {current_document}
        rii(d) == [doc |-> d, so |-> o.so, eo |-> o.eo, update |-> FALSE]
        go[d \in {0} \union Docs] ==
            IF d = 0 THEN T
            ELSE IF d \in scope THEN RunInDoc(go[d - 1], rii(d), text) ELSE go[d - 1]
    IN /\ runs < MaxRuns /\ runs' = runs + 1
       /\ IF ~S.query THEN s3' = S /\ goal' = NoGoal
          ELSE IF S.aborted THEN s3' = T /\ goal' = NoGoal
          ELSE \/ o.scope \in {"selection", "alldocs"} /\ s3' = Aborted(T) /\ goal' = NoGoal
               \/ /\ s3' = go[Cardinality(Docs)]
                  /\ goal' = [kind |-> IF S.replaceall THEN "replace" ELSE "find", docs |-> scope,
                              so |-> o.so, eo |-> o.eo,
                              text |-> [d \in Docs |-> IF S.replaceall /\ d \in scope
                                            THEN AllReplacedText(text[d], o.so, o.eo) ELSE << >>]]

\* snr3run_init_from_gui takes the options of the dialog
InitFromGui(o) == ~s3.replaceall

\* snrwin_guichange: other options (or the same after a search that was aborted), and a
\* search with them
ChangeOption(o) ==
    /\ InitFromGui(o) /\ (o # s3.option \/ s3.aborted \/ ~s3.query)
    /\ Run([ResultCleanup(CancelRun(s3, text)) EXCEPT !.option = o, !.aborted = FALSE,
                                                      !.query = TRUE], "ready")
    /\ upset' = upset \union Orphan(s3) \union LeftOver(s3)
    /\ UNCHANGED <<text, documents, current_document, alive, edits, misuse>>

\* the query is emptied, or made a pattern that does not compile: the results stay
ChangeToInvalid ==
    /\ s3.option # NoOption /\ InitFromGui(s3.option) /\ s3.query
    /\ s3' = [CancelRun(s3, text) EXCEPT !.query = FALSE, !.aborted = FALSE]
    /\ goal' = NoGoal
    /\ runs < MaxRuns /\ runs' = runs + 1   \* bound: it counts as a search
    /\ upset' = upset \union Orphan(s3) \union LeftOver(s3)
    /\ UNCHANGED <<text, documents, current_document, alive, edits, misuse>>

\* snr3_advanced_response when the results are those of another document
SearchAgain ==
    /\ s3.buttons /\ Scope(s3) # "alldocs"
    /\ FirstDoc(s3) \notin {NoDoc, current_document}
    /\ Run(ResultCleanup(s3), "ready")
    /\ upset' = IF s3.loop # NoLoop \/ s3.changes # << >> THEN upset \union {"again"} ELSE upset
    /\ UNCHANGED <<text, documents, current_document, alive, edits, misuse>>

Responds ==
    /\ s3.buttons /\ s3.option # NoOption /\ InitFromGui(s3.option) /\ s3.query
    /\ Scope(s3) = "alldocs" \/ FirstDoc(s3) \in {NoDoc, current_document}

\* snr3_advanced_response, Replace All
ResponseReplaceAll ==
    /\ Responds
    /\ LET S == ResultCleanup([CancelRun(s3, text) EXCEPT !.replaceall = TRUE, !.buttons = FALSE,
                                                          !.aborted = FALSE])
       IN Run(S, "threaded_all_ready")
    /\ upset' = upset \union Orphan(s3) \union LeftOver(s3)
    /\ UNCHANGED <<text, documents, current_document, alive, edits, misuse>>

\* snr3_advanced_response, Replace, after a search that was aborted: its scope is taken
\* again, but nothing is searched
ReplaceAborted ==
    /\ Responds /\ s3.aborted
    /\ s3' = [ResultCleanup(CancelRun(s3, text)) EXCEPT !.aborted = FALSE]
    /\ goal' = NoGoal
    /\ upset' = upset \union Orphan(s3) \union LeftOver(s3)
    /\ UNCHANGED <<text, documents, current_document, alive, edits, runs, misuse>>

\* scroll_to_result
ScrollTo(i) ==
    LET shown == i \in DOMAIN s3'.results /\ s3'.results[i].doc \in documents IN
    /\ current_document' = IF shown THEN s3'.results[i].doc ELSE current_document
    /\ misuse' = (misuse \/ ~shown)

\* snr3_run_go; with no current result the cursor decides
Go(forward) ==
    /\ Responds /\ ~s3.aborted /\ s3.results # << >>
    /\ \E i \in DOMAIN s3.results :
         /\ IF s3.current > 0
            THEN i = IF forward THEN (s3.current % Len(s3.results)) + 1
                     ELSE IF s3.current = 1 THEN Len(s3.results) ELSE s3.current - 1
            ELSE \/ i = IF forward THEN 1 ELSE Len(s3.results)
                 \/ s3.results[i].doc = current_document
         /\ s3' = [s3 EXCEPT !.current = i]
         /\ IF s3.current = Dangling THEN misuse' = TRUE /\ UNCHANGED current_document
            ELSE ScrollTo(i)
    /\ UNCHANGED <<text, documents, alive, edits, runs, goal, upset>>

\* snr3_advanced_response, Replace, with a current result: s3run_replace_current
ReplaceCurrent ==
    /\ Responds /\ ~s3.aborted /\ s3.current > 0
    /\ LET r == s3.results[s3.current]
           offset == Len(Replacement) - (r.eo - r.so)
           gone == [i \in DOMAIN s3.results |-> i = s3.current]
           S == DeleteResults(s3, gone)
       IN /\ r.doc \in documents   \* the current result was shown
          /\ Len(text[r.doc]) + offset <= MaxLength
          /\ text' = [text EXCEPT ![r.doc] = Replaced(@, r.so, r.eo, Replacement)]
          /\ s3' = IF offset = 0 THEN S ELSE UpdateOffsets(S, r.doc, r.eo, offset)
          /\ IF s3'.current > 0 THEN ScrollTo(s3'.current) ELSE UNCHANGED <<current_document, misuse>>
          /\ upset' = upset
               \union (IF goal.kind = "replace" THEN {"replaced before"} ELSE {})
               \union (IF \E i \in DOMAIN s3.results : s3.results[i].doc = r.doc /\ s3.results[i].so = r.eo
                       THEN {"adjacent"} ELSE {})
               \union (IF s3.loop # NoLoop \/ s3.changes # << >> THEN {"replaced early"} ELSE {})
    /\ goal' = [goal EXCEPT !.kind = "replace one"]
    /\ UNCHANGED <<documents, alive, edits, runs>>

\* snr3win_destroy_cb: snr3run_free
CloseDialog ==
    /\ s3' = CancelRun(s3, text) /\ alive' = FALSE
    /\ upset' = upset \union Orphan(s3) \union LeftOver(s3)
    /\ UNCHANGED <<text, documents, current_document, edits, runs, goal, misuse>>

-----------------------------------------------------------------------------
(* The documents *)

\* the user types or deletes a character of the current document
Edit(pos, len, letter) ==
    LET d == current_document
        t == text[d]
    IN /\ edits < MaxEdits /\ edits' = edits + 1
       /\ Len(t) + len <= MaxLength /\ pos <= Len(t) /\ (len < 0 => pos - len <= Len(t))
       /\ text' = [text EXCEPT ![d] = IF len > 0 THEN Replaced(t, pos, pos, <<letter>>)
                                      ELSE Replaced(t, pos, pos - len, << >>)]
       /\ IF alive /\ s3.option # NoOption
          THEN /\ s3' = HandleChanged(s3, d, pos, len, text)
               /\ upset' = upset \union Unforeseen(s3, d, pos)
          ELSE UNCHANGED <<s3, upset>>
       /\ goal' = LET moved(o) == IF d \in goal.docs /\ o # ToEnd
                                      /\ o > (IF len > 0 THEN pos ELSE pos - len)
                                   THEN o + len ELSE o
                  IN [goal EXCEPT !.kind = IF @ = "replace" THEN "edited" ELSE @,
                                  !.so = moved(@), !.eo = moved(@)]
       /\ UNCHANGED <<documents, current_document, alive, runs, misuse>>

SwitchDocument(d) ==
    /\ d \in documents \ {current_document} /\ current_document' = d
    /\ UNCHANGED <<text, documents, s3, alive, edits, runs, goal, upset, misuse>>

\* Variant: the results stay.
DocDestroyKeeps(S, d, txt) ==
    IF S.curdoc = d \/ Scope(S) = "alldocs" THEN CancelRun(S, txt) ELSE S

\* snr3_docdestroy_cb (the current result is compared with the wrong pointer)
DocDestroy(S, d, txt) ==
    LET T == IF S.curdoc = d \/ Scope(S) = "alldocs" THEN CancelRun(S, txt) ELSE S
        of(r) == r.doc = d
        gone == Gone(T, of)
    IN [T EXCEPT !.results = Without(T, gone),
                 !.current = IF @ <= 0 THEN @ ELSE IF gone[@] THEN Dangling ELSE Rank(T, gone, @)]

\* doc_destroy
Close(d) ==
    /\ d \in documents /\ documents' = documents \ {d}
    /\ current_document' \in documents' /\ (current_document # d => current_document' = current_document)
    /\ documents' # {}   \* bound: a document stays open
    /\ s3' = IF alive THEN DocDestroy(s3, d, text) ELSE s3
    /\ goal' = [goal EXCEPT !.docs = @ \ {d}]
    /\ LET cancels == s3.curdoc = d \/ Scope(s3) = "alldocs" IN
       upset' = IF ~alive THEN upset
                ELSE upset \union (IF cancels THEN Orphan(s3) \union Forgotten(s3, d) ELSE {})
                           \union (IF s3'.current = Dangling THEN {"dangling"} ELSE {})
                           \union (IF cancels /\ s3.idle_id THEN {"unfinished"} ELSE {})
                           \union (IF \E i \in DOMAIN s3'.changes : s3'.changes[i].doc = d
                                   THEN {"change"} ELSE {})
                           \union (IF \E i \in DOMAIN s3'.waiting : s3'.waiting[i].doc = d
                                   THEN {"closed waiting"} ELSE {})
    /\ UNCHANGED <<text, alive, edits, runs, misuse>>

-----------------------------------------------------------------------------
(* The idle callbacks *)

\* Variant: the difference of the lengths is forgotten.
OffsetForgotten(n) == 0 * n

\* curoffset after n replacements
Offset(n) == n * (Len(Replacement) - Len(Query))

\* backend_string_loop and backend_pcre_loop, which find the next n matches; the position of
\* a string is counted from the start of the document, and used from the start of curbuf
Left == Found(s3.curbuf, s3.curposition)
MatchAt(i) ==
    Left[i] + s3.so + s3.curoffset + (IF s3.replaceall THEN Offset(i - 1) ELSE 0)
Matched(n) ==
    [s3 EXCEPT
       !.results = @ \o [i \in 1 .. n |-> Result(s3.curdoc, MatchAt(i), MatchAt(i) + Len(Query))],
       !.curoffset = IF s3.replaceall THEN @ + Offset(n) ELSE @,
       !.curposition = IF n = 0 THEN @
                       ELSE Left[n] + Len(Query) + (IF s3.option.type = "string" THEN s3.so ELSE 0)]

\* the documents when the matches are replaced as they are found
Texts(n) ==
    LET put[i \in 0 .. n] ==
            IF i = 0 THEN text[s3.curdoc]
            ELSE Replaced(put[i - 1], MatchAt(i), MatchAt(i) + Len(Query), Replacement)
    IN IF s3.replaceall /\ n > 0 /\ s3.curdoc # NoDoc
       THEN [text EXCEPT ![s3.curdoc] = put[n]] ELSE text

\* replacing in no document
Crashes(n) == s3.replaceall /\ n > 0 /\ s3.curdoc = NoDoc

\* snr3_run_loop_idle_func, out of time after n matches
LoopPauses(n) ==
    /\ s3.loop # NoLoop
    /\ n \in 1 .. Len(Left) - (IF s3.option.type = "pcre" THEN 1 ELSE 0)
    /\ s3' = Matched(n) /\ text' = Texts(n)
    /\ misuse' = (~alive \/ Crashes(n))
    /\ upset' = IF s3.option.type = "string" /\ s3.so > 0 THEN upset \union {"skips"} ELSE upset
    /\ UNCHANGED <<documents, current_document, alive, edits, runs, goal>>

\* Variant: the count is looked at before it is lowered.
CalledBackBefore(S) == S.runcount = 0

\* snr3run_unrun
CalledBack(S) == S.runcount = 1
Unrun(S) ==
    LET T == [S EXCEPT !.runcount = @ - 1] IN
    IF ~CalledBack(S) \/ S.callback = "update_callback" THEN T
    ELSE IF S.callback = "ready" THEN [T EXCEPT !.curdoc = NoDoc]
    ELSE [T EXCEPT !.curdoc = NoDoc, !.buttons = TRUE, !.replaceall = FALSE]

\* snr3_run_loop_idle_func, which finds the last matches in time
LoopEnds ==
    LET n == Len(Left)
        S == [Matched(n) EXCEPT !.curbuf = << >>, !.idle_id = FALSE]
    IN /\ s3.loop # NoLoop
       /\ text' = Texts(n)
       /\ s3' = Unrun(WorkerReady(S, text'))
       /\ misuse' = (~alive \/ Crashes(n) \/ Uses(s3'))
       /\ upset' = IF S.waiting = << >> THEN upset ELSE upset \union Mixed(S, Head(S.waiting))
       /\ UNCHANGED <<documents, current_document, alive, edits, runs, goal>>

\* changed_idle_cb: the main loop runs all that are due, when no search is running
ChangedIdle ==
    LET S == [s3 EXCEPT !.changes = << >>, !.changed_idle_id = FALSE]
        go[i \in 0 .. Len(s3.changes)] ==
            IF i = 0 THEN S ELSE RunInDoc(go[i - 1], s3.changes[i], text)
    IN /\ s3.changes # << >> /\ s3.loop = NoLoop
       /\ s3' = IF alive THEN go[Len(s3.changes)] ELSE S
       /\ misuse' = (~alive \/ Uses(s3'))
       /\ upset' = IF s3.query THEN upset \union Mixed(S, s3.changes[1]) ELSE upset
       /\ UNCHANGED <<text, documents, current_document, alive, edits, runs, goal>>

-----------------------------------------------------------------------------
Init ==
    /\ text = InitText /\ documents = Docs /\ current_document \in Docs
    /\ s3 = [option |-> NoOption, aborted |-> FALSE, query |-> FALSE,
             replaceall |-> FALSE, buttons |-> TRUE, callback |-> "none",
             runcount |-> 0, curdoc |-> NoDoc, so |-> 0, eo |-> 0, curposition |-> 0,
             curoffset |-> 0, curbuf |-> << >>, results |-> << >>, current |-> 0,
             waiting |-> << >>, loop |-> NoLoop, idle_id |-> FALSE,
             changes |-> << >>, changed_idle_id |-> FALSE]
    /\ alive = TRUE /\ edits = 0 /\ runs = 0 /\ upset = {} /\ misuse = FALSE
    /\ goal = NoGoal

Idle == (\E n \in 1 .. MaxLength : LoopPauses(n)) \/ LoopEnds \/ ChangedIdle

Dialog ==
    \/ \E o \in Options : ChangeOption(o)
    \/ ChangeToInvalid \/ SearchAgain
    \/ ResponseReplaceAll \/ ReplaceAborted \/ ReplaceCurrent \/ CloseDialog
    \/ \E forward \in BOOLEAN : Go(forward)

Documents ==
    \/ \E pos \in 0 .. MaxLength, len \in {-1, 1}, letter \in Letters : Edit(pos, len, letter)
    \/ \E d \in Docs : SwitchDocument(d) \/ Close(d)

Next == ~misuse /\ Cardinality(upset) <= MaxUpset /\ (Idle \/ (alive /\ Dialog) \/ Documents)

\* the main loop runs the idle callbacks: WF_vars of them, with what enables them written out
IdleDue ==
    /\ ~misuse /\ Cardinality(upset) <= MaxUpset
    /\ s3.loop # NoLoop \/ s3.changes # << >>
Fairness == []<>~IdleDue \/ []<><<Idle>>_vars

Spec == Init /\ [][Next]_vars /\ Fairness

-----------------------------------------------------------------------------
(* Properties *)

TypeOK ==
    /\ documents \subseteq Docs /\ current_document \in documents
    /\ \A i \in DOMAIN s3.results : /\ s3.results[i].doc \in {NoDoc} \union Docs
                                    /\ s3.results[i].so <= s3.results[i].eo
    /\ s3.idle_id => s3.loop # NoLoop
    /\ s3.changed_idle_id => s3.changes # << >>
    /\ s3.waiting # << >> => s3.loop # NoLoop

Quiet == s3.loop = NoLoop /\ s3.waiting = << >> /\ s3.changes = << >>
Fine == alive /\ upset = {}

\* What is in the list is in the document at that place, at any moment: while a document
\* is edited, searched, or results are replaced one by one.
ResultsAreMatches ==
    Fine /\ goal.kind \in {"find", "replace one"} =>
        \A i \in DOMAIN s3.results :
            LET r == s3.results[i] IN Chars(text[r.doc], r.so, r.eo) = Query

\* When the search is ready the list has everything that there is to find, in order, also
\* after edits, which lead to a search of the part that they change.
ResultsRight ==
    Fine /\ Quiet /\ goal.kind = "find" =>
        \A d \in goal.docs :
            LET of(r) == r.doc = d
                all == Found(Chars(text[d], goal.so, goal.eo), 0)
            IN SelectSeq(s3.results, of)
               = [i \in DOMAIN all |-> Result(d, all[i] + goal.so, all[i] + goal.so + Len(Query))]

\* Replace All leads to the text in which each occurrence is replaced once, however the
\* search is cut into pieces.
AllReplaced ==
    Fine /\ Quiet /\ goal.kind = "replace" => \A d \in goal.docs : text[d] = goal.text[d]

\* The current result is one of the list.
CurrentFound == s3.current \in 0 .. Len(s3.results) \/ "dangling" \in upset

\* runcount is the number of documents that are searched or wait for that.
RuncountMatches ==
    "orphan" \notin upset =>
        s3.runcount = Len(s3.waiting) + (IF s3.loop = NoLoop THEN 0 ELSE 1)

\* No document, result or Tsnr3run is used after it was freed.
NoUseAfterFree == misuse => upset \intersect {"orphan", "dangling", "change", "closed waiting"} # {}

\* After Replace All the buttons of the dialog come back, and it takes options again: unless
\* it was aborted, for want of a selection (it never takes options then) or because documents
\* are still loading (nor do the buttons come back).
NeverReturns == s3.replaceall /\ s3.aborted
ButtonsReturn ==
    /\ ~s3.buttons ~> (s3.buttons \/ (NeverReturns /\ s3.option.scope = "alldocs") \/ ~Fine)
    /\ s3.replaceall ~> (~s3.replaceall \/ NeverReturns \/ ~Fine)

\* The list of results is a list of matches of the search, and of all of them.
ListRight == TypeOK /\ ResultsAreMatches /\ ResultsRight

\* The run: the result the dialog stands on is on the list, what is left to do is counted,
\* and nothing of it is used after it was freed.
RunSound == CurrentFound /\ RuncountMatches /\ NoUseAfterFree

\* Both: the list is what there is to find, and the run that makes it is in order.
SearchSound == ListRight /\ RunSound

=============================================================================
