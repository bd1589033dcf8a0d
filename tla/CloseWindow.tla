----------------------------- MODULE CloseWindow -----------------------------
(***************************************************************************)
(* The documents of one window, its project, and the ways to close them:   *)
(* one document, all, the project, the window (file_dialogs.c, bfwin.c,    *)
(* project.c, document.c).                                                 *)
(*                                                                         *)
(* A handler that opens a dialog is suspended in it: a frame on the stack  *)
(* says where.  The dialog runs the main loop, so callbacks come, and may  *)
(* open dialogs of their own above it; the user can answer the topmost     *)
(* only.  A handler that walks along a copy of the list of documents is a  *)
(* frame too, and goes on whenever it is on top.                           *)
(*                                                                         *)
(* The handlers are operators on the record W of the state.  What a        *)
(* callback does with a document or a window that was freed is not         *)
(* modelled: it does not happen here, and NothingDangling says that it     *)
(* would.                                                                  *)
(*                                                                         *)
(* Simplified: a load that is still queued is cancelled like one that is   *)
(* read; the idle callback that goes to a line after a load is left out,   *)
(* as are check and reload all, the loads of a recovery, and switching by  *)
(* control and tab; the dialogs that doc_buffer_to_textbox may open one    *)
(* after another are one dialog; doc->autosave_uri is set only while a     *)
(* document is modified (doc_set_modified), so nothing tests it here;      *)
(* last_activated_doc counts as no document once its document is gone; the *)
(* name given in a dialog is one that nobody has.                          *)
(***************************************************************************)
EXTENDS Integers, Sequences, FiniteSets, SequencesExt

CONSTANTS
    Docs, NoDoc,
    Opened,      \* the documents that are there at first, in their order
    Kinds,       \* what they may be: sequences of names of InitialKinds
    MaxActs      \* bound: what the user does but answer dialogs

ASSUME DocsAssumption == NoDoc \notin Docs /\ IsFiniteSet(Docs) /\ MaxActs \in Nat
ASSUME OpenedAssumption == Opened \in Seq(Docs) /\ IsInjective(Opened) /\ Opened # <<>>

VARIABLES
    doc,         \* the documents
    list,        \* documentlist, in the order of the pages of the notebook
    recent,      \* recentdoclist
    page,        \* the page that the notebook shows
    last,        \* last_notebook_page
    current,     \* current_document
    activated,   \* last_activated_doc
    activate,    \* notebook_changed_doc_activate_id # 0
    project,     \* "none", "open", or "close" when project->close is set
    window,      \* "open" or "destroyed"
    frames,      \* the handlers in a dialog or a loop, the topmost first
    acts,
    agreed,      \* history: "project", "window": what the user closed, and did not cancel
    leaving,     \* history: nothing but callbacks has to come before the window goes
    met          \* history: the situations that occurred

closeVars == <<doc, list, recent, page, last, current, activated, activate, project, window,
               frames, acts, agreed, leaving, met>>

\* load: doc->load of a file that is being read, of one that was read and waits for the idle
\* callback that puts it in the document, is put there by one that is in a dialog, or of one
\* whose reading was cancelled.  retry: a load to which doc->load does not point.  foreign: the
\* text has a character that its encoding has not.  empty: the save writes no text.  dirty:
\* history, the document has a text that was not saved and that the user did not give up.
Blank == [state |-> "none", named |-> FALSE, text |-> FALSE, modified |-> FALSE,
          dirty |-> FALSE, status |-> "complete", save |-> FALSE, load |-> "none",
          retry |-> FALSE, readonly |-> FALSE, foreign |-> FALSE, empty |-> FALSE,
          info |-> FALSE, check |-> "none", idle |-> FALSE, close_doc |-> FALSE, close_window |-> FALSE]

Situations ==
    {"close while saving", "close while checking", "retry", "closed twice",
     "save while fetching",   \* the file info
     "save while loading",    \* what is not loaded yet is written as it is: empty
     "load dropped",          \* a close cancels a load that has no callback left
     "window forgotten",      \* a document is closed by itself, the window having been closed
     "reentered",             \* in a dialog, what a suspended handler uses is closed or saved
     "empty left",            \* by the close of the project, which then may not come about
     "read-only",             \* a document that is closed with a save cannot be saved
     "saved empty",           \* in UTF-8, as its encoding does not do: of length 0
     "closed by callback",    \* which goes on to use the document
     "emptied",               \* all documents go while the user is asked about all of them
     "stayed",                \* a new document while the project or the window is being closed
     "per file",              \* choose_per_file does not look what is shown afterwards
     "project marked",        \* project->close is set, and the user did not agree
     "window marked",         \* so is close_window of a document, or of a loop
     "kept"}                  \* a close fails or is cancelled when it had been put off

When(holds, situation) == IF holds THEN {situation} ELSE {}

W == [doc |-> doc, list |-> list, recent |-> recent, page |-> page, last |-> last,
      current |-> current, activated |-> activated, activate |-> activate,
      project |-> project, window |-> window, frames |-> frames, agreed |-> agreed,
      leaving |-> leaving, met |-> met]

Become(V) ==
    /\ doc' = V.doc /\ list' = V.list /\ recent' = V.recent /\ page' = V.page
    /\ last' = V.last /\ current' = V.current /\ activated' = V.activated
    /\ activate' = V.activate /\ project' = V.project /\ window' = V.window
    /\ frames' = V.frames /\ agreed' = V.agreed /\ leaving' = V.leaving /\ met' = V.met

-----------------------------------------------------------------------------
(* Dialogs and loops                                                       *)

Dialogs == {"all", "one", "close", "name", "encoding", "in progress", "save failed", "overwrite",
            "text", "load failed", "changed", "gone"}
Loops == {"per file", "close each", "save each", "callback"}
Frame(kind, d) == [kind |-> kind, doc |-> d, rest |-> <<>>, delay |-> FALSE, close |-> FALSE,
                   close_window |-> FALSE, from |-> ""]

\* The documents that a callback may close
Loading(D) == D.load \notin {"none", "putting"} \/ D.retry
MayClose(D) == Loading(D) \/ D.idle \/ (D.close_doc /\ (D.save \/ D.info))
Pending(V) == {d \in ToSet(V.list) : MayClose(V.doc[d])}

\* The documents that the handlers in these frames will use
UsedBy(fs) == UNION {{fs[i].doc} \union ToSet(fs[i].rest) : i \in 1 .. Len(fs)}

\* gtk_dialog_run.  The end of choose_per_file needs the project.
Ask(V, f) ==
    LET fs == <<f>> \o V.frames
        used == UsedBy(fs) \intersect Pending(V)
        finished == \E d \in Pending(V) : V.doc[d].close_window
        needed == V.project = "close" /\ \E i \in 1 .. Len(fs) : fs[i].from = "project"
    IN [V EXCEPT !.frames = fs,
                 !.met = @ \union When(used # {} \/ (Pending(V) # {} /\ (finished \/ needed)),
                                       "reentered")]
Loop(V, f) == [V EXCEPT !.frames = <<f>> \o @]
Return(V) == [V EXCEPT !.frames = Tail(@)]

-----------------------------------------------------------------------------
(* The notebook and the current document                                   *)

Index(s, d) == IF \E i \in 1 .. Len(s) : s[i] = d THEN (CHOOSE i \in 1 .. Len(s) : s[i] = d) ELSE 0

IsEmptyNonModifiedAndNameless(V, d) ==
    ~V.doc[d].modified /\ ~V.doc[d].named /\ V.doc[d].status = "complete" /\ ~V.doc[d].text

\* Variant: an edited document counts as empty.
TestOnlyNamelessDocLeft(V) == Len(V.list) = 0 \/ (Len(V.list) = 1 /\ ~V.doc[V.list[1]].named)

TestOnlyEmptyDocLeft(V) ==
    Len(V.list) = 0 \/ (Len(V.list) = 1 /\ IsEmptyNonModifiedAndNameless(V, V.list[1]))

HaveModifiedDocuments(V) == \E i \in 1 .. Len(V.list) : V.doc[V.list[i]].modified

\* doc_start_modified_check, of a file whose info was fetched
StartModifiedCheck(V, d) ==
    IF V.doc[d].named /\ ~V.doc[d].info /\ ~V.doc[d].save /\ V.doc[d].check = "none"
    THEN [V EXCEPT !.doc[d].check = "on"] ELSE V

\* doc_activate
Activate(V, d) ==
    IF d = V.activated \/ V.doc[d].close_doc \/ V.doc[d].status = "loading" THEN V
    ELSE IF V.doc[d].status = "error" THEN Ask(V, Frame("load failed", d))
    ELSE StartModifiedCheck([V EXCEPT !.activated = d,
                                      !.recent = <<d>> \o SelectSeq(@, LAMBDA r : r # d)], d)
ForceActivate(V, d) == Activate([V EXCEPT !.activated = NoDoc], d)

\* project_final_close
FinalClose(V) == [V EXCEPT !.project = "none"]
FinalCloseIfMarked(V) == IF V.project = "close" THEN FinalClose(V) ELSE V

\* bfwin_notebook_changed from the test of cur >= doclistlen on
Show(V, cur) ==
    IF cur >= Len(V.list) THEN [V EXCEPT !.last = -2]
    ELSE [V EXCEPT !.current = V.list[cur + 1], !.last = cur, !.activate = TRUE]

\* doc_new in an empty window; the first page of a notebook is shown, which calls
\* bfwin_notebook_changed once more.
Spare(V) == {d \in Docs : V.doc[d].state = "none"}
DocNew(V) ==
    LET d == CHOOSE d \in Spare(V) : TRUE
        there == [V EXCEPT !.doc[d].state = "open", !.list = <<d>>, !.recent = <<d>>,
                           !.page = d]
    IN IF Spare(V) = {} THEN [V EXCEPT !.last = 1]
       ELSE [Show(there, 0) EXCEPT !.current = d, !.last = 1]

NotebookChanged(V, newpage) ==
    LET cur == IF newpage = -1 THEN Index(V.list, V.page) - 1 ELSE newpage IN
    IF V.last = cur /\ V.current # NoDoc /\ cur + 1 \in 1 .. Len(V.list) /\ V.list[cur + 1] = V.current
    THEN FinalCloseIfMarked(V)
    ELSE IF cur = -1 /\ V.list # <<>> THEN [V EXCEPT !.last = -2]
    ELSE IF V.list = <<>> THEN DocNew(FinalCloseIfMarked(V))
    ELSE Show(V, cur)

\* bfwin_switch_to_document_by_pointer: the notebook tells only of another page.
SwitchTo(V, d) ==
    IF V.page = d \/ Index(V.list, d) = 0 THEN V
    ELSE NotebookChanged([V EXCEPT !.page = d], Index(V.list, d) - 1)

-----------------------------------------------------------------------------
(* Closing and saving one document                                         *)

\* A freed document that an operation or a handler will use is not Blank.
Freed(V, d) ==
    LET D == V.doc[d] IN
    IF D.save \/ Loading(D) \/ D.dirty \/ D.info \/ D.check # "none" \/ D.idle \/ d \in UsedBy(V.frames)
    THEN [V EXCEPT !.doc[d] = [D EXCEPT !.state = "freed"],
                   !.met = @ \union When(\E i \in 1 .. Len(V.frames) : V.frames[i].kind = "callback"
                                                                      /\ V.frames[i].doc = d,
                                         "closed by callback")]
    ELSE [V EXCEPT !.doc[d] = Blank]

\* doc_destroy; the notebook shows the next page, or else the one before.
DocDestroy(V, d, delay) ==
    LET i == Index(V.list, d)
        n == Len(V.list)
        left == RemoveAt(V.list, i)
        next == Index(V.recent, d) + 1
        removed == [V EXCEPT !.list = left,
                             !.recent = SelectSeq(@, LAMBDA r : r # d),
                             !.page = IF @ # d THEN @ ELSE IF i < n THEN V.list[i + 1]
                                      ELSE IF i > 1 THEN V.list[i - 1] ELSE NoDoc,
                             !.current = IF @ = d THEN NoDoc ELSE @,
                             !.activated = IF @ = d THEN NoDoc ELSE @]
        shown == IF next <= n THEN SwitchTo(removed, V.recent[next]) ELSE removed
    IN Freed(IF V.current = d /\ ~delay THEN NotebookChanged(shown, -1) ELSE removed, d)

\* bfwin_destroy_and_cleanup and bfwin_destroy_event; at most one document is left.
BfwinDestroyAndCleanup(V) ==
    LET empty == IF V.list = <<>> THEN V ELSE DocDestroy(V, V.list[1], TRUE)
    IN [FinalClose(empty) EXCEPT !.window = "destroyed", !.activate = FALSE]

\* the end of doc_close_single_backend
Destroy(V, d, delay, close_window) ==
    LET destroyed == DocDestroy(V, d, close_window \/ delay)
    IN IF close_window /\ destroyed.list = <<>> THEN BfwinDestroyAndCleanup(destroyed)
       ELSE destroyed

\* file2doc_cancel
Stopped(load) == CASE load \in {"read", "putting"} -> "none" [] load = "reading" -> "cancelled"
                   [] OTHER -> load

\* Variant: close_window is not noted, so the callback closes the document alone.
CancelledAlone(V, d, close_window) ==
    [V EXCEPT !.doc[d].close_doc = TRUE,
              !.doc[d].load = Stopped(@),
              !.met = @ \union When(V.doc[d].load \in {"read", "putting"} /\ ~V.doc[d].info,
                                    "load dropped")]

\* What is in flight for a document that is closed: loads and fetches are cancelled.
Cancelled(V, d, close_window) ==
    LET D == V.doc[d] IN
    [V EXCEPT !.doc[d].close_doc = TRUE,
              !.doc[d].close_window = close_window,
              !.doc[d].load = Stopped(@),
              !.met = @ \union When(D.load \in {"read", "putting"} /\ ~D.info, "load dropped")
                        \union When(D.close_doc /\ D.close_window /\ ~close_window,
                                    "window forgotten")]

\* Saves are not cancelled, and the callbacks of checks come all the same.
CheckCancelled(V, d) == [V EXCEPT !.doc[d].check = IF @ = "none" THEN @ ELSE "cancelled"]
Noted(V, d) ==
    LET D == V.doc[d] IN
    [V EXCEPT !.met = @ \union When(D.save, "close while saving")
                        \union When(D.check # "none", "close while checking")
                        \union When(D.idle, "closed twice")]

\* the part of doc_close_single_backend when nothing is in flight
CloseNow(V, d, delay, close_window) ==
    IF IsEmptyNonModifiedAndNameless(V, d) /\ Len(V.list) <= 1
    THEN IF close_window THEN BfwinDestroyAndCleanup(V)
         ELSE [V EXCEPT !.met = @ \union When(V.project = "close", "empty left")]
    ELSE IF V.doc[d].modified
    THEN Ask(V, [Frame("close", d) EXCEPT !.delay = delay, !.close_window = close_window])
    ELSE Destroy(V, d, delay, close_window)

\* Variant: the fetch of the file info is not waited for.
DocCloseSingleBackendNow(V, d, delay, close_window) ==
    IF V.doc[d].load # "none" THEN Cancelled(CheckCancelled(V, d), d, close_window)
    ELSE CloseNow(Noted(CheckCancelled(V, d), d), d, delay, close_window)

\* doc_close_single_backend.  The callback of what is cancelled comes here again.
DocCloseSingleBackend(V, d, delay, close_window) ==
    IF V.doc[d].load # "none" \/ V.doc[d].info
    THEN Cancelled(CheckCancelled(V, d), d, close_window)
    ELSE CloseNow(Noted(CheckCancelled(V, d), d), d, delay, close_window)

\* The user does not want to close the project or the window any more.
Withdraw(V) ==
    [V EXCEPT !.leaving = FALSE, !.agreed = {},
              !.met = @ \union When(V.project = "close", "project marked")
                        \union When(\/ \E d \in ToSet(V.list) : V.doc[d].close_window
                                    \/ \E i \in 1 .. Len(V.frames) : V.frames[i].close_window,
                                    "window marked")]

\* The user, or an error, stopped what was to be closed.
Kept(V) == [Withdraw(V) EXCEPT !.met = @ \union {"kept"}]

\* doc_save_backend from file_checkNsave_uri_async on; first: the document had no name
StartSave(V, d, close, close_window, first) ==
    LET D == V.doc[d]
        saving == [V EXCEPT !.doc[d].save = TRUE,
                            !.doc[d].close_doc = close,
                            !.doc[d].close_window = close_window,
                            !.met = @ \union When(D.status # "complete", "save while loading")
                                      \union When(D.info, "save while fetching")
                                      \union When(close /\ D.check # "none", "close while checking")]
    IN IF first THEN ForceActivate(saving, d) ELSE saving

\* doc_get_buffer_in_encoding, and what follows
SaveText(V, d, close, close_window, first) ==
    IF V.doc[d].foreign
    THEN Ask(V, [Frame("encoding", d) EXCEPT !.close = close, !.close_window = close_window,
                                             !.from = IF first THEN "name" ELSE ""])
    ELSE StartSave(V, d, close, close_window, first)

\* doc_save_backend, docsave_normal
DocSaveBackend(V, d, close, close_window) ==
    IF V.doc[d].readonly THEN [V EXCEPT !.met = @ \union When(close, "read-only")]
    ELSE IF V.doc[d].save
    THEN Ask(IF close THEN Kept(V) ELSE V, Frame("in progress", NoDoc))
    ELSE IF ~V.doc[d].named
    THEN Ask(V, [Frame("name", d) EXCEPT !.close = close, !.close_window = close_window])
    ELSE SaveText(V, d, close, close_window, FALSE)

-----------------------------------------------------------------------------
(* Closing several documents                                               *)

\* project_save_and_mark_closed; the project has a file.
ProjectSaveAndMarkClosed(V) ==
    IF V.project = "none" THEN V ELSE [V EXCEPT !.project = "close"]

\* doc_close_multiple_backend, and doc_save_all_close, which is the same with close_window
DocCloseMultipleBackend(V, close_window, mode) ==
    Loop(V, [Frame("close each", NoDoc) EXCEPT !.rest = V.list, !.close_window = close_window,
                                              !.from = mode])
ChoosePerFile(V, close_window, from) ==
    Loop([V EXCEPT !.met = @ \union {"per file"}],
         [Frame("per file", NoDoc) EXCEPT !.rest = V.list, !.close_window = close_window,
                                         !.from = from])

\* The user wants to close all documents, the project or the window.
Agree(V, from) ==
    [V EXCEPT !.agreed = @ \union ({from} \ {"all"}), !.leaving = from = "window"]

\* bfwin_delete_event, project_save_and_close of the only window, file_close_all
CloseAll(V, from) ==
    LET marked == IF from = "all" THEN V ELSE ProjectSaveAndMarkClosed(V)
        asked == IF from = "project"
                 THEN [marked EXCEPT !.met = @ \union When(V.agreed = {}, "project marked")] ELSE V
    IN IF V.list = <<>> /\ from = "window" THEN BfwinDestroyAndCleanup(Agree(V, from))
       ELSE IF V.list = <<>> /\ from = "project" THEN FinalClose(Agree(marked, from))
       ELSE IF HaveModifiedDocuments(V) THEN Ask(asked, [Frame("all", NoDoc) EXCEPT !.from = from])
       ELSE DocCloseMultipleBackend(Agree(marked, from), from = "window", "close_all")

GiveUp(V, ds) == [V EXCEPT !.doc = [d \in Docs |-> IF d \in ds THEN [@[d] EXCEPT !.dirty = FALSE]
                                                   ELSE @[d]]]

\* multiple_files_modified_dialog is answered.
AllAnswered(V, f, answer) ==
    LET marked == IF f.from = "window" THEN ProjectSaveAndMarkClosed(V) ELSE V
        agreed_to == [Agree(marked, f.from) EXCEPT !.met = @ \union When(V.list = <<>>, "emptied")]
        window_too == f.from = "window"
    IN CASE answer = "cancel" -> V
         [] answer = "per file" -> ChoosePerFile(agreed_to, window_too, f.from)
         [] answer = "close_all" ->
              DocCloseMultipleBackend(GiveUp(agreed_to, ToSet(V.list)), window_too, "close_all")
         [] answer = "save_all" -> DocCloseMultipleBackend(agreed_to, window_too, "save_all")

\* doc_modified_dialog in choose_per_file; the frame of the loop is below.
OneAnswered(V, f, answer) ==
    LET loop == V.frames[1]
        ended == Return(V)
        unmarked == IF loop.from = "window" /\ V.project # "none"
                    THEN [ended EXCEPT !.project = "open"] ELSE ended
    IN CASE answer = "close" ->
              DocCloseSingleBackend([GiveUp(V, {f.doc}) EXCEPT !.doc[f.doc].modified = FALSE],
                                    f.doc, TRUE, loop.close_window)
         [] answer = "save" -> DocSaveBackend(V, f.doc, TRUE, loop.close_window)
         [] answer = "cancel" -> Withdraw(unmarked)

\* doc_modified_dialog in doc_close_single_backend
CloseAnswered(V, f, answer) ==
    LET D == V.doc[f.doc]
        end(U) == IF f.close_window /\ U.list = <<>> THEN BfwinDestroyAndCleanup(U) ELSE U
    IN CASE answer = "close" -> Destroy(Noted(GiveUp(V, {f.doc}), f.doc), f.doc, f.delay, f.close_window)
         [] answer = "save" -> end(DocSaveBackend(V, f.doc, TRUE, f.close_window))
         [] answer = "cancel" -> IF D.close_doc \/ f.close_window THEN Kept(V) ELSE V

\* ask_new_filename
NameAnswered(V, f, answer) ==
    IF answer = "cancel" THEN IF f.close THEN Kept(V) ELSE V
    ELSE SaveText([V EXCEPT !.doc[f.doc].named = TRUE], f.doc, f.close, f.close_window, TRUE)

\* The question of doc_get_buffer_in_encoding.  In UTF-8 the length is left as it was, 0, and
\* the text is given a note of its encoding.
EncodingAnswered(V, f, answer) ==
    IF answer = "abort" THEN IF f.close THEN Kept(V) ELSE V
    ELSE StartSave([V EXCEPT !.doc[f.doc].modified = TRUE, !.doc[f.doc].empty = TRUE,
                             !.met = @ \union {"saved empty"}],
                   f.doc, f.close, f.close_window, f.from = "name")

InUse(V, ds) == When(UsedBy(V.frames) \intersect ds # {}, "reentered")

\* After the dialog of doc_activate the idle callback that called it is done.
Retry(V, ds) ==
    [V EXCEPT !.doc = [d \in Docs |-> IF d \in ds THEN [@[d] EXCEPT !.status = "loading",
                                                                   !.retry = TRUE] ELSE @[d]],
              !.met = @ \union {"retry"} \union InUse(V, ds)]
CloseIdle(V, ds) ==
    [V EXCEPT !.doc = [d \in Docs |-> IF d \in ds THEN [@[d] EXCEPT !.idle = TRUE] ELSE @[d]],
              !.met = @ \union When(\E d \in ds : V.doc[d].idle, "closed twice")
                        \union InUse(V, ds)]
LoadFailedAnswered(V, f, answer) ==
    LET failed == {d \in ToSet(V.list) : V.doc[d].status = "error"}
        ended == [V EXCEPT !.activate = IF f.from = "idle" THEN FALSE ELSE @]
    IN CASE answer = "retry" -> Retry(ended, {f.doc})
         [] answer = "retry all" -> Retry(ended, failed)
         [] answer = "close" -> CloseIdle(ended, {f.doc})
         [] answer = "close all" -> CloseIdle(ended, failed)

\* The questions of doc_activate_modified_lcb; doc_reload, document_unset_filename
ChangedAnswered(V, f, answer) ==
    LET ended == [V EXCEPT !.doc[f.doc].check = "none"] IN
    IF answer = "ignore" THEN ended
    ELSE [GiveUp(ended, {f.doc}) EXCEPT !.doc[f.doc].modified = FALSE, !.doc[f.doc].text = FALSE,
                                        !.doc[f.doc].status = "loading",
                                        !.doc[f.doc].load = "reading",
                                        !.met = @ \union InUse(V, {f.doc})]
GoneAnswered(V, f, answer) ==
    LET ended == [V EXCEPT !.doc[f.doc].check = "none"] IN
    IF answer = "save"
    THEN DocSaveBackend([ended EXCEPT !.met = @ \union InUse(V, {f.doc})], f.doc, FALSE, FALSE)
    ELSE [ended EXCEPT !.doc[f.doc].named = FALSE, !.doc[f.doc].modified = TRUE,
                       !.doc[f.doc].dirty = TRUE]

\* A callback that may close its document, and then uses it: file2doc_cleanup writes doc->load,
\* fill_fileinfo_cleanup doc->info.
InCallback(V, d) == Loop(V, Frame("callback", d))
Cleanup(V, d) ==
    LET ended == Return(V)
        D == V.doc[d]
    IN IF D.state = "freed" /\ d \notin UsedBy(ended.frames)
          /\ ~(D.save \/ Loading(D) \/ D.dirty \/ D.info \/ D.check # "none" \/ D.idle)
       THEN [ended EXCEPT !.doc[d] = Blank] ELSE ended
CloseInCallback(V, d, close_window) ==
    LET U == DocCloseSingleBackend(InCallback(V, d), d, FALSE, close_window) IN
    IF U.frames # <<>> /\ U.frames[1].kind = "callback" THEN Cleanup(U, d) ELSE U

\* file2doc_finished_idle_lcb, from doc_buffer_to_textbox on.  It may switch to the document.
Ended(V, d) == [V EXCEPT !.doc[d].load = "none", !.doc[d].retry = FALSE]
TextPut(V, d) ==
    LET put == [Ended(V, d) EXCEPT !.doc[d].status = "complete", !.doc[d].text = TRUE] IN
    IF V.current = d THEN {ForceActivate(put, d)} ELSE {put, SwitchTo(put, d)}
NoText(V, d) == CloseInCallback([Ended(V, d) EXCEPT !.doc[d].status = "error"], d, FALSE)

\* The dialogs of doc_buffer_to_textbox: the file is no text, what of it cannot be kept is
\* replaced, its lines are too long.
TextAnswered(V, f, answer) ==
    CASE answer = "close" -> {NoText(V, f.doc)}
      [] answer = "put" -> TextPut(V, f.doc)
      [] answer = "replaced" -> TextPut([V EXCEPT !.doc[f.doc].readonly = TRUE], f.doc)

\* The questions of doc_checkNsave_lcb
SaveStopped(V, d) ==
    LET stopped == [V EXCEPT !.doc[d].save = FALSE, !.doc[d].empty = FALSE] IN
    IF V.doc[d].close_doc THEN Kept(stopped) ELSE stopped
OverwriteAnswered(V, f, answer) == IF answer = "continue" THEN V ELSE SaveStopped(V, f.doc)

-----------------------------------------------------------------------------
(* The state machine                                                       *)

InitialKinds == [
    loading  |-> [Blank EXCEPT !.named = TRUE, !.status = "loading", !.load = "reading",
                               !.info = TRUE],
    clean    |-> [Blank EXCEPT !.named = TRUE, !.text = TRUE],
    edited   |-> [Blank EXCEPT !.named = TRUE, !.text = TRUE, !.modified = TRUE, !.dirty = TRUE],
    draft    |-> [Blank EXCEPT !.text = TRUE, !.modified = TRUE, !.dirty = TRUE],
    untitled |-> Blank,
    foreign  |-> [Blank EXCEPT !.named = TRUE, !.text = TRUE, !.modified = TRUE, !.dirty = TRUE,
                               !.foreign = TRUE],
    readonly |-> [Blank EXCEPT !.named = TRUE, !.text = TRUE, !.readonly = TRUE],
    failed   |-> [Blank EXCEPT !.named = TRUE, !.status = "error"]]

ASSUME KindsAssumption == Kinds \subseteq [1 .. Len(Opened) -> DOMAIN InitialKinds]

Init ==
    /\ \E kind \in Kinds :
         doc = [d \in Docs |-> IF d \in ToSet(Opened)
                               THEN [InitialKinds[kind[Index(Opened, d)]] EXCEPT !.state = "open"]
                               ELSE Blank]
    /\ list = Opened /\ recent = Opened
    /\ page = Opened[1] /\ last = 0 /\ current = Opened[1]
    /\ activated = IF doc[Opened[1]].status = "complete" THEN Opened[1] ELSE NoDoc
    /\ activate = FALSE
    /\ project \in {"none", "open"}
    /\ window = "open" /\ frames = <<>> /\ acts = 0
    /\ agreed = {} /\ leaving = FALSE /\ met = {}

Top == frames[1]
Up(kind) == frames # <<>> /\ Top.kind = kind
Asked(kinds, d) == \E i \in 1 .. Len(frames) : frames[i].kind \in kinds /\ frames[i].doc = d

\* bound: a document is at hand for doc_new
Alive == window = "open" /\ Spare(W) # {}
Open(d) == Alive /\ doc[d].state = "open"

\* The user answers the topmost dialog.
Answer ==
    /\ frames # <<>> /\ Alive
    /\ Top.doc # NoDoc => Open(Top.doc)
    /\ LET V == Return(W) IN
       \E U \in CASE Top.kind = "all" -> {AllAnswered(V, Top, a) : a \in {"cancel", "per file", "close_all", "save_all"}}
                  [] Top.kind = "one" -> {OneAnswered(V, Top, a) : a \in {"close", "save", "cancel"}}
                  [] Top.kind = "close" -> {CloseAnswered(V, Top, a) : a \in {"close", "save", "cancel"}}
                  [] Top.kind = "name" -> {NameAnswered(V, Top, a) : a \in {"cancel", "ok"}}
                  [] Top.kind = "encoding" -> {EncodingAnswered(V, Top, a) : a \in {"abort", "continue"}}
                  [] Top.kind = "text" ->
                       IF Top.from = "retry" \/ doc[Top.doc].load = "putting"
                       THEN UNION {TextAnswered(V, Top, a) : a \in {"close", "put", "replaced"}} ELSE {}
                  [] Top.kind = "in progress" -> {V}
                  [] Top.kind = "save failed" -> {SaveStopped(V, Top.doc)}
                  [] Top.kind = "overwrite" -> {OverwriteAnswered(V, Top, a) : a \in {"stop", "continue"}}
                  [] Top.kind = "load failed" ->
                       {LoadFailedAnswered(V, Top, a) : a \in {"retry", "retry all", "close", "close all"}}
                  [] Top.kind = "changed" -> {ChangedAnswered(V, Top, a) : a \in {"ignore", "reload"}}
                  [] Top.kind = "gone" -> {GoneAnswered(V, Top, a) : a \in {"save", "unset"}}
                  [] OTHER -> {} :
         Become(U)
    /\ UNCHANGED acts

\* The loop on top takes the next document.
Next1 == Head(Top.rest)
Advanced == [W EXCEPT !.frames[1].rest = Tail(@)]

\* choose_per_file
PerFile ==
    /\ Up("per file")
    /\ IF Top.rest # <<>>
       THEN /\ Open(Next1)
            /\ Become(IF doc[Next1].modified THEN Ask(Advanced, Frame("one", Next1))
                      ELSE DocCloseSingleBackend(Advanced, Next1, TRUE, Top.close_window))
       ELSE IF Top.from = "project"
       THEN project # "none" /\ Become([Return(W) EXCEPT !.project = "close"])
       ELSE Become(Return(W))
    /\ UNCHANGED acts

\* doc_close_multiple_backend, doc_save_all_close
CloseEach ==
    /\ Up("close each")
    /\ IF Top.rest # <<>>
       THEN /\ Open(Next1)
            /\ Become(IF Top.from = "close_all"
                      THEN DocCloseSingleBackend([Advanced EXCEPT !.doc[Next1].modified = FALSE],
                                                 Next1, TRUE, Top.close_window)
                      ELSE DocSaveBackend(Advanced, Next1, TRUE, Top.close_window))
       ELSE IF Top.close_window THEN Become(Return(W))
       ELSE Alive /\ Become(NotebookChanged(Return(W), -1))
    /\ UNCHANGED acts

\* file_save_all_cb walks along the list itself: to the next of the document that was saved.
SaveEach ==
    /\ Up("save each") /\ Open(Top.doc)
    /\ LET i == Index(list, Top.doc) IN
       Become(IF Top.rest # <<>>
              THEN IF doc[Top.doc].modified THEN DocSaveBackend(Advanced, Top.doc, FALSE, FALSE)
                   ELSE Advanced
              ELSE IF i = Len(list) THEN Return(W)
              ELSE [W EXCEPT !.frames[1].doc = list[i + 1], !.frames[1].rest = <<list[i + 1]>>])
    /\ UNCHANGED acts

\* A callback goes on after a dialog of doc_close_single_backend.
CallbackEnds == Up("callback") /\ Become(Cleanup(W, Top.doc)) /\ UNCHANGED acts

\* Callbacks come while no handler runs, or while one is in a dialog.
MainLoop(d) == Open(d) /\ (frames # <<>> => Top.kind \in Dialogs)
With(d, field, value) == [W EXCEPT !.doc[d][field] = value]

\* doc_checkNsave_lcb, CHECKANDSAVE_FINISHED
SaveFinished(d) ==
    /\ MainLoop(d) /\ doc[d].save /\ ~Asked({"save failed", "overwrite"}, d)
    /\ LET saved == [W EXCEPT !.doc[d].save = FALSE, !.doc[d].empty = FALSE,
                              !.doc[d].dirty = @ /\ doc[d].empty]
           destroyed == DocDestroy(saved, d, doc[d].close_window)
       IN Become(IF ~doc[d].close_doc
                 THEN [saved EXCEPT !.doc[d].modified = FALSE, !.doc[d].info = TRUE]
                 ELSE IF doc[d].close_window /\ TestOnlyEmptyDocLeft(destroyed)
                 THEN BfwinDestroyAndCleanup(destroyed)
                 ELSE destroyed)
    /\ UNCHANGED acts
\* the other results: the user is told or asked
SaveAsks(d) ==
    /\ MainLoop(d) /\ doc[d].save /\ ~Asked({"save failed", "overwrite"}, d)
    /\ \E kind \in {"save failed", "overwrite"} : Become(Ask(W, Frame(kind, d)))
    /\ UNCHANGED acts

\* file2doc_lcb, OPENFILE_FINISHED
LoadRead(d) ==
    /\ MainLoop(d) /\ doc[d].load = "reading"
    /\ Become(With(d, "load", "read")) /\ UNCHANGED acts

\* file2doc_finished_idle_lcb
LoadPut(d) ==
    /\ MainLoop(d) /\ (doc[d].load = "read" \/ (doc[d].retry /\ doc[d].load = "none"))
    /\ \E U \in TextPut(W, d)
                \union {Ask([W EXCEPT !.doc[d].load = IF @ = "read" THEN "putting" ELSE @,
                                      !.doc[d].retry = @ /\ doc[d].load = "read"],
                            [Frame("text", d) EXCEPT !.from = IF doc[d].load = "read" THEN "load" ELSE "retry"])} :
         Become(U)
    /\ UNCHANGED acts

\* file2doc_lcb, OPENFILE_ERROR and OPENFILE_ERROR_CANCELLED
LoadStopped(d) ==
    /\ MainLoop(d)
    /\ doc[d].load \in {"reading", "cancelled"} \/ (doc[d].retry /\ doc[d].load = "none")
    /\ Become(IF doc[d].close_doc \/ doc[d].load = "cancelled"
              THEN CloseInCallback(Ended(W, d), d, doc[d].close_window)
              ELSE [Ended(W, d) EXCEPT !.doc[d].status = "error"])
    /\ UNCHANGED acts

\* fill_fileinfo_lcb
InfoEnds(d) ==
    /\ MainLoop(d) /\ doc[d].info
    /\ LET ended == With(d, "info", FALSE) IN
       Become(IF doc[d].close_doc THEN CloseInCallback(ended, d, doc[d].close_window) ELSE ended)
    /\ UNCHANGED acts

\* doc_activate_modified_lcb, CHECKMODIFIED_OK and CHECKMODIFIED_CANCELLED; that another
\* program writes or deletes the file counts as an act.
CheckEnds(d) ==
    /\ MainLoop(d) /\ doc[d].check # "none" /\ ~Asked({"changed", "gone"}, d)
    /\ Become(With(d, "check", "none")) /\ UNCHANGED acts
CheckAsks(d) ==
    /\ MainLoop(d) /\ doc[d].check = "on" /\ ~Asked({"changed", "gone"}, d) /\ acts < MaxActs
    /\ \E kind \in {"changed", "gone"} : Become(Ask(W, Frame(kind, d)))
    /\ acts' = acts + 1

\* notebook_changed_activate_current_document, which is not called again in its dialog
Activating == \E i \in 1 .. Len(frames) : frames[i].from = "idle"
ActivateDue == activate /\ Alive /\ (frames # <<>> => Top.kind \in Dialogs) /\ ~Activating
ActivateCurrent ==
    /\ ActivateDue
    /\ IF current # NoDoc /\ current # activated /\ ~doc[current].close_doc
          /\ doc[current].status = "error"
       THEN Become(Ask(W, [Frame("load failed", current) EXCEPT !.from = "idle"]))
       ELSE Become([(IF current = NoDoc THEN W ELSE Activate(W, current)) EXCEPT !.activate = FALSE])
    /\ UNCHANGED acts

\* doc_close_from_activate, of a lower priority than the callback above
DocCloseFromActivate(d) ==
    /\ MainLoop(d) /\ doc[d].idle
    /\ activate => Activating
    /\ Become(DocCloseSingleBackend(With(d, "idle", FALSE), d, FALSE, FALSE))
    /\ UNCHANGED acts

\* What the user does in the window.  It delays the end of the window, or prevents it.
Act(V) ==
    /\ frames = <<>> /\ Alive /\ acts < MaxActs
    /\ Become(V) /\ acts' = acts + 1
Stay == [W EXCEPT !.leaving = FALSE]

Edit ==
    /\ page # NoDoc /\ Open(page) /\ doc[page].status = "complete" /\ ~doc[page].save /\ ~doc[page].readonly
    /\ Act([Stay EXCEPT !.doc[page].text = TRUE, !.doc[page].modified = TRUE,
                        !.doc[page].dirty = TRUE])
FileSave == current # NoDoc /\ Act(DocSaveBackend(Stay, current, FALSE, FALSE))
FileSaveAll ==
    list # <<>> /\ Act(Loop(Stay, [Frame("save each", list[1]) EXCEPT !.rest = <<list[1]>>]))
FileClose == current # NoDoc /\ Act(DocCloseSingleBackend(Stay, current, FALSE, FALSE))
CloseTab(d) == Open(d) /\ Act(DocCloseSingleBackend(Stay, d, FALSE, FALSE))
FileCloseAll == \E from \in {"all", "project", "window"} :
    (from = "project" => project # "none") /\ Act(CloseAll(Stay, from))
SwitchTab(d) == Open(d) /\ page # d /\ Act(SwitchTo(Stay, d))
\* bound: FileNew leaves a document for doc_new.
FileNew ==
    /\ Cardinality(Spare(W)) > 1 /\ list # <<>>
    /\ LET d == CHOOSE d \in Spare(W) : TRUE
           there == [Stay EXCEPT !.doc[d].state = "open", !.list = Append(@, d),
                                 !.recent = Append(@, d),
                                 !.met = @ \union When(\/ project = "close"
                                                       \/ \E e \in ToSet(list) : doc[e].close_window,
                                                       "stayed")]
       IN Act(SwitchTo(there, d))

DocStep(d) ==
    \/ SaveFinished(d) \/ SaveAsks(d) \/ LoadRead(d) \/ LoadPut(d) \/ LoadStopped(d)
    \/ InfoEnds(d) \/ CheckEnds(d) \/ CheckAsks(d) \/ DocCloseFromActivate(d)
    \/ CloseTab(d) \/ SwitchTab(d)

Next ==
    \/ Answer \/ CallbackEnds \/ PerFile \/ CloseEach \/ SaveEach \/ ActivateCurrent
    \/ Edit \/ FileSave \/ FileSaveAll \/ FileClose \/ FileCloseAll \/ FileNew
    \/ \E d \in Docs : DocStep(d)

\* A callback or a step of a loop is possible.
Due ==
    \/ /\ frames # <<>> /\ Top.kind \in Loops
       /\ IF Top.kind = "callback" THEN TRUE
          ELSE IF Top.kind = "save each" THEN Open(Top.doc)
          ELSE IF Top.rest # <<>> THEN Open(Next1)
          ELSE IF Top.kind = "per file" THEN Top.from = "project" => project # "none"
          ELSE Top.close_window \/ Alive
    \/ ActivateDue
    \/ \E d \in Docs : /\ MainLoop(d)
                       /\ \/ Loading(doc[d]) \/ doc[d].info
                          \/ doc[d].save /\ ~Asked({"save failed", "overwrite"}, d)
                          \/ doc[d].check # "none" /\ ~Asked({"changed", "gone"}, d)
                          \/ doc[d].idle /\ (activate => Activating)

\* The main loop and the loops of the handlers go on; the user need not answer.
Fairness == []<>~Due \/ []<><<TRUE>>_closeVars

Spec == Init /\ [][Next]_closeVars /\ Fairness

-----------------------------------------------------------------------------
(* Properties                                                              *)

Unmet(S) == met \intersect S = {}

TypeOK ==
    /\ \A d \in Docs : /\ doc[d].state \in {"none", "open", "freed"}
                       /\ doc[d].status \in {"complete", "loading", "error"}
                       /\ doc[d].load \in {"none", "reading", "read", "putting", "cancelled"}
    /\ \A d \in Docs : (doc[d].state = "open") <=> (d \in ToSet(list))
    /\ IsInjective(list) /\ IsInjective(recent) /\ ToSet(recent) = ToSet(list)
    /\ page \in ToSet(list) \union {NoDoc} /\ current \in ToSet(list) \union {NoDoc}
    /\ project \in {"none", "open", "close"} /\ window \in {"open", "destroyed"}
    /\ met \subseteq Situations /\ acts \in 0 .. MaxActs

\* No callback will use a document that was freed, and no handler that is suspended in a
\* dialog or a loop, nor a window that is gone, but in the situations where the code does
\* not see to it (doc_close_single_backend, doc_checkNsave_lcb, choose_per_file), and but for
\* the end of the callback that has closed the document ("closed by callback").
NothingDangling ==
    /\ Unmet({"reentered"}) => \A d \in {d \in Docs : doc[d].state = "freed"} :
         /\ Loading(doc[d]) => ~Unmet({"save while loading", "retry"})
         /\ doc[d].info => ~Unmet({"close while saving", "save while fetching", "retry"})
         /\ doc[d].save => ~Unmet({"close while saving"})
         /\ doc[d].check # "none" => ~Unmet({"close while checking"})
         /\ doc[d].idle => ~Unmet({"closed twice", "save while loading"})
         /\ d \in UsedBy(frames) => frames[1] = Frame("callback", d) /\ d \notin UsedBy(Tail(frames))
    /\ window = "destroyed" => frames = <<>> \/ (Len(frames) = 1 /\ Top.kind \in Loops /\ Top.rest = <<>>)
                               \/ ~Unmet({"reentered"})

Quiet ==
    /\ frames = <<>> /\ window = "open" /\ ~activate
    /\ \A d \in ToSet(list) : ~(doc[d].save \/ Loading(doc[d]) \/ doc[d].info \/ doc[d].idle)

\* A close that was put off does not come about, and nobody cancelled it.
CloseLost == {"load dropped", "window forgotten", "save while loading", "save while fetching",
              "close while saving", "emptied", "read-only"}

\* When nothing is going on the window shows a document, which is the current one, and no
\* document or project waits for a close that nobody will finish.
Settled ==
    Quiet /\ Unmet(CloseLost \union {"kept"}) =>
        /\ Unmet({"per file", "stayed"}) => list # <<>> /\ current = page /\ current # NoDoc
        /\ Unmet({"project marked", "empty left", "stayed"}) => project # "close"
        /\ \A d \in ToSet(list) : ~doc[d].close_doc

WindowSound == TypeOK /\ NothingDangling /\ Settled

\* No document goes with a text that was neither saved nor given up by the user, unless it
\* was saved as nothing, and the project and the window are closed only if the user closed
\* them and did not cancel.
AskedFirst ==
    [][/\ \A d \in Docs : doc'[d].state = "freed" /\ doc'[d].dirty => "saved empty" \in met'
       /\ project # "none" /\ project' = "none" =>
             agreed' # {} \/ ~Unmet({"project marked", "window marked"})
       /\ window # window' => "window" \in agreed' \/ ~Unmet({"window marked"})]_closeVars

\* A window that the user closed goes, as soon as what is in flight for its documents has
\* come to its end, unless a dialog comes up or a close fails.
WindowCloses ==
    (leaving /\ frames = <<>>) ~> \/ window = "destroyed" \/ ~leaving \/ frames # <<>>
                                  \/ ~Unmet(CloseLost \union {"retry"})

=============================================================================
