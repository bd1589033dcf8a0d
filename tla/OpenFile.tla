------------------------------ MODULE OpenFile ------------------------------
(***************************************************************************)
(* Loading documents (file.c): every document has an open job on ofqueue   *)
(* (Topenfile, with the Tfile2doc that puts the text into the document     *)
(* from an idle callback) and a job on fiqueue that fetches its file info. *)
(* A file on a volume that is not mounted waits for the one mount          *)
(* operation at a time.  doc_close_single_backend (file_dialogs.c) cancels *)
(* both jobs and leaves the close to their callbacks.                      *)
(*                                                                         *)
(* Each action is one callback of the main loop.  The documents here are   *)
(* not modified, not recovered and not retried; closing a modified one is  *)
(* the subject of DocSave.                                                 *)
(***************************************************************************)
EXTENDS AsyncQueue, FiniteSets

CONSTANTS
    Docs,             \* the documents opened during a behaviour
    RemoteDocs,       \* those on the volume that has to be mounted
    ClosedDocs,       \* those that the user may close
    IoErrors          \* reading and mounting may fail

ASSUME DocsAssumption == IsFiniteSet(Docs) /\ RemoteDocs \cup ClosedDocs \subseteq Docs
ASSUME IoErrorsAssumption == IoErrors \in BOOLEAN

VARIABLES
    doc_status,  \* doc->status; "new" before the open, "gone" after doc_destroy
    load,        \* where the load is: see Stages
    loadCancel,  \* its GCancellable is cancelled
    info,        \* where the fetch of the file info is
    infoCancel,  \* its GCancellable is cancelled
    close_doc,   \* doc->close_doc
    ofqueue,     \* the queue of opens
    fiqueue,     \* the queue of file infos
    gmo,         \* the mount operation is in progress
    mounted,     \* the volume is mounted
    openfile_wait_for_mount, fileinfo_wait_for_mount,  \* the waiting jobs
    num_docs_not_completed,  \* of the window
    unread,      \* history: the documents whose file could not be read
    closedIn     \* history: the situations a document was closed in

openVars == <<doc_status, load, loadCancel, info, infoCancel, close_doc, ofqueue, fiqueue, gmo,
          mounted, openfile_wait_for_mount, fileinfo_wait_for_mount,
          num_docs_not_completed, unread, closedIn>>

\* "idle": the text is read, file2doc_finished_idle_lcb is pending; "goto": so is
\* file2doc_goto_idle_cb; "lost": taken off the queue, nobody will call back.
Stages == {"none", "queued", "io", "mount", "wait", "idle", "goto", "lost"}
InfoStages == {"none", "queued", "io", "mount", "wait"}

\* Closes that have consequences.  "slot": of an open that waits for a mount, whose
\* openfile_cleanup gives back a slot that it does not have any more.  "silent": nobody
\* calls back, neither for a queued open or a pending idle callback nor for a file info
\* that is mounting or waits for it.
CloseSituations == {"slot", "silent"}

LoadIn(stages) == {d \in Docs : load[d] \in stages}
InfoIn(stages) == {d \in Docs : info[d] \in stages}

-----------------------------------------------------------------------------
(* The functions of file.c, on a record of all variables.                  *)

State == [status |-> doc_status, load |-> load, loadCancel |-> loadCancel, info |-> info,
          infoCancel |-> infoCancel, close_doc |-> close_doc, ofqueue |-> ofqueue,
          fiqueue |-> fiqueue, gmo |-> gmo, mounted |-> mounted,
          openWait |-> openfile_wait_for_mount, infoWait |-> fileinfo_wait_for_mount,
          incomplete |-> num_docs_not_completed, unread |-> unread, closedIn |-> closedIn]

\* \E, so that TLC computes the record once
Become(S) == \E R \in {S} :
    /\ doc_status' = R.status
    /\ load' = R.load
    /\ loadCancel' = R.loadCancel
    /\ info' = R.info
    /\ infoCancel' = R.infoCancel
    /\ close_doc' = R.close_doc
    /\ ofqueue' = R.ofqueue
    /\ fiqueue' = R.fiqueue
    /\ gmo' = R.gmo
    /\ mounted' = R.mounted
    /\ openfile_wait_for_mount' = R.openWait
    /\ fileinfo_wait_for_mount' = R.infoWait
    /\ num_docs_not_completed' = R.incomplete
    /\ unread' = R.unread
    /\ closedIn' = R.closedIn

\* queue_run on ofqueue: openfile_run starts the read.  Likewise fiqueue.
RunOpens(S, Q) ==
    [S EXCEPT !.ofqueue = Run(Q),
              !.load = [d \in Docs |-> IF d \in Started(Q) THEN "io" ELSE @[d]]]
RunInfos(S, Q) ==
    [S EXCEPT !.fiqueue = Run(Q),
              !.info = [d \in Docs |-> IF d \in Started(Q) THEN "io" ELSE @[d]]]

PushOpen(S, d) == RunOpens([S EXCEPT !.load[d] = "queued"], Push(S.ofqueue, d))
PushInfo(S, d) == RunInfos([S EXCEPT !.info[d] = "queued"], Push(S.fiqueue, d))

openfile_cleanupNotReady(S) == S

openfile_cleanup(S) == RunOpens(S, WorkerReady(S.ofqueue))

fiqueue_readySkipped(S) == S

fiqueue_ready(S) == RunInfos(S, WorkerReady(S.fiqueue))

doc_destroyCounts(S, d) == [S EXCEPT !.status[d] = "gone", !.incomplete = @ - 1]

doc_destroy(S, d) ==
    [S EXCEPT !.status[d] = "gone",
              !.incomplete = IF S.status[d] = "loading" THEN @ - 1 ELSE @]

file2doc_cancelForgets(S, d) == [S EXCEPT !.load[d] = "none"]

\* file2doc_cancel, with openfile_cancel.  queue_remove takes a queued open off
\* the queue but returns FALSE (RemoveReturns), so the branch that would call
\* back is never taken.
file2doc_cancel(S, d) ==
    IF S.load[d] \in {"idle", "goto"} THEN [S EXCEPT !.load[d] = "none"]
    ELSE [S EXCEPT !.ofqueue = Remove(@, d),
                   !.load[d] = IF @ = "queued" THEN "lost" ELSE @,
                   !.loadCancel[d] = TRUE]

\* doc_close_single_backend, of a document that is not modified
doc_close_single_backend(S, d) ==
    LET infoCancelled == IF S.info[d] = "none" THEN S
                         ELSE [S EXCEPT !.infoCancel[d] = TRUE]
        situation == {s \in CloseSituations :
            \/ s = "slot" /\ S.load[d] = "wait"
            \/ s = "silent" /\ (S.load[d] \in {"queued", "idle", "goto"}
                                \/ S.info[d] \in {"mount", "wait"})}
        cancelled == IF S.load[d] = "none" THEN infoCancelled
                     ELSE file2doc_cancel(infoCancelled, d)
    IN IF S.load[d] = "none" /\ S.info[d] = "none" THEN doc_destroy(S, d)
       ELSE [cancelled EXCEPT !.close_doc[d] = TRUE, !.closedIn = @ \union situation]

\* file2doc_lcb
file2doc_lcb(S, d, result) ==
    LET unloaded == [S EXCEPT !.load[d] = "none"] IN
    CASE result = "FINISHED" -> [S EXCEPT !.load[d] = "idle"]
      [] result = "CANCELLED" -> doc_close_single_backend(unloaded, d)
      [] result = "ERROR" -> IF S.close_doc[d] THEN doc_close_single_backend(unloaded, d)
                             ELSE [unloaded EXCEPT !.status[d] = "error", !.unread = @ \union {d}]

\* One waiting open, one waiting file info of resume_after_wait_for_mount.
ResumeOpen(S, d) ==
    IF S.loadCancel[d] THEN openfile_cleanup(file2doc_lcb(S, d, "CANCELLED"))
    ELSE PushOpen(S, d)
ResumeInfo(S, d) ==
    IF S.infoCancel[d] THEN [S EXCEPT !.info[d] = "none"] ELSE PushInfo(S, d)

ForEach(Op(_, _), S, list) ==
    LET after[i \in 0 .. Len(list)] == IF i = 0 THEN S ELSE Op(after[i - 1], list[i])
    IN after[Len(list)]

MountEndsSilently(S) == [S EXCEPT !.gmo = FALSE]

MountEndsKeepsLists(S) ==
    ForEach(ResumeInfo, ForEach(ResumeOpen, [S EXCEPT !.gmo = FALSE], S.openWait), S.infoWait)

\* gmo = NULL; resume_after_wait_for_mount()
MountEnds(S) ==
    LET opens == ForEach(ResumeOpen, [S EXCEPT !.gmo = FALSE], S.openWait)
        infos == ForEach(ResumeInfo, [opens EXCEPT !.openWait = <<>>], S.infoWait)
    IN [infos EXCEPT !.infoWait = <<>>]

openfile_done(S, d, result) == openfile_cleanup(file2doc_lcb(S, d, result))

fill_fileinfo_done(S, d) ==
    LET unlinked == [S EXCEPT !.info[d] = "none"]
        closed == IF S.close_doc[d] THEN doc_close_single_backend(unlinked, d) ELSE unlinked
    IN fiqueue_ready(closed)

-----------------------------------------------------------------------------

OpenInit ==
    /\ doc_status = [d \in Docs |-> "new"]
    /\ load = [d \in Docs |-> "none"]
    /\ loadCancel = [d \in Docs |-> FALSE]
    /\ info = [d \in Docs |-> "none"]
    /\ infoCancel = [d \in Docs |-> FALSE]
    /\ close_doc = [d \in Docs |-> FALSE]
    /\ ofqueue = EmptyQueue
    /\ fiqueue = EmptyQueue
    /\ gmo = FALSE
    /\ mounted = FALSE
    /\ openfile_wait_for_mount = <<>>
    /\ fileinfo_wait_for_mount = <<>>
    /\ num_docs_not_completed = 0
    /\ unread = {}
    /\ closedIn = {}

\* file_doc_from_uri, without recovery
DocFromUri(d) ==
    /\ doc_status[d] = "new"
    /\ Become(PushInfo(PushOpen([State EXCEPT !.status[d] = "loading", !.incomplete = @ + 1], d), d))

NotMounted(d) == d \in RemoteDocs /\ ~mounted

\* openfile_async_lcb.  A cancelled read ends in an error.
OpenfileAsync(d) ==
    /\ load[d] = "io"
    /\ \/ /\ loadCancel[d] \/ (IoErrors /\ ~NotMounted(d))
          /\ Become(openfile_done(State, d, "ERROR"))
       \/ /\ ~loadCancel[d] /\ ~NotMounted(d)
          /\ Become(openfile_done(State, d, "FINISHED"))
       \/ /\ ~loadCancel[d] /\ NotMounted(d) /\ ~gmo
          /\ Become([State EXCEPT !.load[d] = "mount", !.gmo = TRUE])
       \/ /\ ~loadCancel[d] /\ NotMounted(d) /\ gmo
          /\ Become(openfile_cleanup([State EXCEPT !.load[d] = "wait", !.openWait = <<d>> \o @]))

OpenfileAsyncMount(d) ==
    /\ load[d] = "mount"
    /\ \/ /\ ~loadCancel[d]
          /\ Become(MountEnds([State EXCEPT !.load[d] = "io", !.mounted = TRUE]))
       \/ /\ loadCancel[d] \/ IoErrors
          /\ Become(MountEnds(openfile_done(State, d, "ERROR")))

\* The text goes into the document; then the cursor is placed, at once or from
\* another idle callback, or the conversion fails and the document is closed.
File2docFinishedIdle(d) ==
    /\ load[d] = "idle"
    /\ LET done == [State EXCEPT !.incomplete = @ - 1] IN
       \/ \E next \in {"none", "goto"} :
            Become([done EXCEPT !.status[d] = "complete", !.load[d] = next])
       \/ /\ IoErrors
          /\ Become(doc_close_single_backend(
                       [done EXCEPT !.status[d] = "error", !.load[d] = "none"], d))

File2docGotoIdle(d) ==
    /\ load[d] = "goto"
    /\ Become([State EXCEPT !.load[d] = "none"])

\* fill_fileinfo_lcb
FillFileinfo(d) ==
    /\ info[d] = "io"
    /\ \/ /\ infoCancel[d] \/ ~NotMounted(d)
          /\ Become(fill_fileinfo_done(State, d))
       \/ /\ ~infoCancel[d] /\ NotMounted(d) /\ ~gmo
          /\ Become([State EXCEPT !.info[d] = "mount", !.gmo = TRUE])
       \/ /\ ~infoCancel[d] /\ NotMounted(d) /\ gmo
          /\ Become(fiqueue_ready([State EXCEPT !.info[d] = "wait", !.infoWait = <<d>> \o @]))

FillFileinfoMount(d) ==
    /\ info[d] = "mount"
    /\ \/ /\ ~infoCancel[d]
          /\ Become(MountEnds([State EXCEPT !.info[d] = "io", !.mounted = TRUE]))
       \/ /\ infoCancel[d] \/ IoErrors
          /\ Become(MountEnds(fiqueue_ready([State EXCEPT !.info[d] = "none"])))

\* The user closes the document, or the window it is in.
CloseDocument(d) ==
    /\ d \in ClosedDocs /\ doc_status[d] \in {"loading", "complete", "error"}
    /\ Become(doc_close_single_backend(State, d))

LoadCallback(d) ==
    OpenfileAsync(d) \/ OpenfileAsyncMount(d) \/ File2docFinishedIdle(d) \/ File2docGotoIdle(d)
InfoCallback(d) == FillFileinfo(d) \/ FillFileinfoMount(d)

OpenNext == \E d \in Docs : DocFromUri(d) \/ LoadCallback(d) \/ InfoCallback(d) \/ CloseDocument(d)

OpenSpec == OpenInit /\ [][OpenNext]_openVars

\* The documents for whose load, or file info, a callback is to come
LoadDue(d) == load[d] \in {"io", "mount", "idle", "goto"}
InfoDue(d) == info[d] \in {"io", "mount"}

-----------------------------------------------------------------------------

DocQueue == [q : Seq(Docs), worknum : 0 .. WordSize - 1]

OpenTypeOK ==
    /\ doc_status \in [Docs -> {"new", "loading", "complete", "error", "gone"}]
    /\ load \in [Docs -> Stages]
    /\ info \in [Docs -> InfoStages]
    /\ loadCancel \in [Docs -> BOOLEAN]
    /\ infoCancel \in [Docs -> BOOLEAN]
    /\ close_doc \in [Docs -> BOOLEAN]
    /\ ofqueue \in DocQueue
    /\ fiqueue \in DocQueue
    /\ gmo \in BOOLEAN /\ mounted \in BOOLEAN
    /\ openfile_wait_for_mount \in Seq(Docs)
    /\ fileinfo_wait_for_mount \in Seq(Docs)
    /\ num_docs_not_completed \in Nat
    /\ unread \subseteq Docs
    /\ closedIn \subseteq CloseSituations

\* "number of elements that are being worked on": a slot for every open that is
\* being read or mounted for, none for one that waits or ended.
OpenSlotsMatch == "slot" \notin closedIn => ofqueue.worknum = Cardinality(LoadIn({"io", "mount"}))

\* The same for the file infos.
InfoSlotsMatch == fiqueue.worknum = Cardinality(InfoIn({"io", "mount"}))

\* One mount operation at a time (the comment at gmo), and jobs wait only while
\* there is one whose end will resume them.
OneMountOperation ==
    /\ Cardinality(LoadIn({"mount"})) + Cardinality(InfoIn({"mount"})) = IF gmo THEN 1 ELSE 0
    /\ (LoadIn({"wait"}) # {} \/ InfoIn({"wait"}) # {}) => gmo

\* Where a waiting job is kept agrees with where it is thought to be, so that it
\* is resumed, and resumed once.
WaitersListed ==
    /\ \A d \in Docs :
         /\ load[d] = "wait" <=> \E i \in DOMAIN openfile_wait_for_mount :
                                    openfile_wait_for_mount[i] = d
         /\ info[d] = "wait" <=> \E i \in DOMAIN fileinfo_wait_for_mount :
                                    fileinfo_wait_for_mount[i] = d
    /\ Len(openfile_wait_for_mount) = Cardinality(LoadIn({"wait"}))
    /\ Len(fileinfo_wait_for_mount) = Cardinality(InfoIn({"wait"}))

\* A document that is being opened becomes complete or shows its error, or is gone.
EveryLoadEnds == \A d \in Docs : doc_status[d] = "loading" ~> (doc_status[d] # "loading" \/ closedIn # {})

\* A close that was put off because of a load or a file info comes about.
EveryCloseEnds == \A d \in Docs : close_doc[d] ~> (doc_status[d] = "gone" \/ closedIn # {})

\* A load ends, and so does a close that waits for it, whatever fails meanwhile.
LoadsAndClosesEnd == EveryLoadEnds /\ EveryCloseEnds

\* The documents of the window that are still to be completed, for which a search in all
\* documents waits: those that are being loaded, once each, and for ever those whose file
\* could not be read, for neither file2doc_lcb nor doc_destroy takes them off.
IncompleteCounted ==
    num_docs_not_completed = Cardinality({d \in Docs : doc_status[d] = "loading"} \union unread)

\* What is counted agrees with what is in progress: the slots and the window's counter.
Slots == OpenTypeOK /\ OpenSlotsMatch /\ InfoSlotsMatch /\ IncompleteCounted

\* Who waits for the volume is listed, and waits for a mount that is in progress.
Mounting == OneMountOperation /\ WaitersListed

=============================================================================
