------------------------------ MODULE Autosave ------------------------------
(***************************************************************************)
(* The recovery of modified documents (file_autosave.c).  Every period     *)
(* run_autosave hands the text of each document that needs it to the       *)
(* asynchronous save; autosave_complete_lcb registers the file in the      *)
(* journal, which is written to disk when the last save of the period is   *)
(* done.  A document that is saved, closed or undone to its clean state    *)
(* leaves the journal and its autosave file is deleted.  After a crash     *)
(* autosave_init recovers what the journal on disk lists, and deletes the  *)
(* journal; without a journal it deletes every autosave file.              *)
(*                                                                         *)
(* The slots of the save queue are the subject of CheckNSave; here a save  *)
(* waits, writes, and calls back in any order.  The autosave files are in  *)
(* ~/.bluefish/autosave (location mode 0) and the documents have the same  *)
(* name, so that they compete for the names of the autosave files.         *)
(***************************************************************************)
EXTENDS Naturals, FiniteSets

CONSTANTS
    Docs,      \* documents, each the same one before and after a crash
    Names,     \* the names unique_path can find for autosave files
    Contents,  \* texts that are not empty
    MaxSaves,  \* bound: the number of saves of autosave files under way
    MaxMet,    \* bound: the number of Situations met
    Null       \* NULL, and a file that does not exist

\* What an operation may meet that its code does not see to.
Situations ==
    {"write fails",       \* the autosave file cannot be written
     "empty text",        \* a document has no text when it is to be autosaved
     "close cancelled",   \* the user cancels the question about unsaved changes
     "preferences",       \* are applied while the journal waits to be written
     "write cancelled",   \* a save is cancelled while it writes
     "delete pending",    \* a name is chosen whose file is about to be deleted
     "crash again",       \* before the recovered documents are in the journal
     "journal write fails",   \* put_stringlist fails, and autosave_save_journal does not look
     "journal read fails",    \* get_list fails, and the journal is deleted all the same
     "original is gone"}  \* the file of a document to recover

ASSUME DocsAssumption == IsFiniteSet(Docs) /\ IsFiniteSet(Names)
ASSUME NullAssumption ==
    Null \notin Names /\ \A listed \in SUBSET [doc : Docs, file : Names] : listed # Null
ASSUME TextAssumption == "empty" \notin Contents /\ Null \notin Contents \union {"empty"}

VARIABLES
    up,        \* the program runs
    status,    \* "closed", "open" or "recovering"
    text,      \* the text of each document while it is modified
    modified,  \* doc->modified
    need,      \* main_v->need_autosave, doc->need_autosave
    progress,  \* main_v->autosave_progress, doc->autosave_progress
    action,    \* doc->autosave_action: Null, the "save" under way, or "freed"
    uri,       \* doc->autosave_uri
    journal,   \* main_v->autosave_journal, doc->autosaved
    unsaved,   \* main_v->autosave_need_journal_save
    saves,     \* the saves of autosave files (two that are alike count once)
    deletes,   \* the files that file_delete_async will delete
    files,     \* the autosave files on disk
    disk,      \* the journal on disk: documents with their autosave files; Null
    owed,      \* what a crash owes the user: the text of each document, or Null
    met        \* the Situations met so far

vars == <<up, status, text, modified, need, progress, action, uri, journal, unsaved,
          saves, deletes, files, disk, owed, met>>
docs == <<status, text, modified>>
memory == <<need, progress, action, uri, journal, unsaved>>
outside == <<saves, deletes, files, disk>>

Texts == Contents \union {"empty"}

When(holds, situation) == IF holds THEN {situation} ELSE {}

Meets(S) == met' = met \union S /\ Cardinality(met') <= MaxMet

Entries(listed) == {[doc |-> d, file |-> uri[d]] : d \in listed}

-----------------------------------------------------------------------------

Init ==
    /\ up = TRUE
    /\ status = [d \in Docs |-> "closed"]
    /\ text = [d \in Docs |-> "empty"] /\ modified = [d \in Docs |-> FALSE]
    /\ need = {} /\ progress = {} /\ action = [d \in Docs |-> Null]
    /\ uri = [d \in Docs |-> Null] /\ journal = {} /\ unsaved = FALSE
    /\ saves = {} /\ deletes = {} /\ files = [n \in Names |-> Null] /\ disk = Null
    /\ owed = [d \in Docs |-> Null] /\ met = {}

Open(d) ==
    /\ up /\ status[d] = "closed"
    /\ status' = [status EXCEPT ![d] = "open"]
    /\ UNCHANGED <<up, text, modified, memory, outside, owed, met>>

\* doc_set_modified TRUE, need_autosave
Edit(d) ==
    /\ up /\ status[d] = "open"
    /\ \E t \in Texts : text' = [text EXCEPT ![d] = t]
    /\ modified' = [modified EXCEPT ![d] = TRUE]
    /\ need' = need \union {d}
    /\ owed' = [owed EXCEPT ![d] = Null]
    /\ UNCHANGED <<up, status, progress, action, uri, journal, unsaved, outside, met>>

\* The save of doc->autosave_action, which is cancelled.
Current(d, s) == s.doc = d /\ ~s.cancelled /\ d \in progress /\ action[d] = "save"

\* remove_autosave.  A save that waits is taken off the queue at once.
remove_autosave(d, destroyed, meets) ==
    LET waits(s) == Current(d, s) /\ s.stage = "waits"
    IN /\ need' = need \ {d}
       /\ progress' = progress \ {d}
       /\ action' = IF d \in progress \/ destroyed THEN [action EXCEPT ![d] = Null] ELSE action
       /\ uri' = [uri EXCEPT ![d] = Null]
       /\ journal' = journal \ {d}
       /\ unsaved' = (unsaved \/ d \in journal)
       /\ saves' = {[s EXCEPT !.cancelled = @ \/ Current(d, s)]
                      : s \in {s \in saves : ~waits(s)}}
       /\ deletes' = deletes \union ({uri[d]} \ {Null})
       /\ Meets(meets \union When(\E s \in saves : Current(d, s) /\ ~waits(s), "write cancelled"))
       /\ UNCHANGED <<files, disk>>

\* The document is saved, or undone to its clean state: doc_set_modified FALSE.
SetUnmodified(d) ==
    /\ up /\ status[d] = "open" /\ modified[d]
    /\ modified' = [modified EXCEPT ![d] = FALSE]
    /\ text' = [text EXCEPT ![d] = "empty"]
    /\ remove_autosave(d, FALSE, {})
    /\ owed' = [owed EXCEPT ![d] = Null]
    /\ UNCHANGED <<up, status>>

\* doc_close_single_backend, doc_destroy
Close(d) ==
    /\ up /\ status[d] = "open"
    /\ remove_autosave(d, TRUE, {})
    /\ status' = [status EXCEPT ![d] = "closed"]
    /\ text' = [text EXCEPT ![d] = "empty"]
    /\ modified' = [modified EXCEPT ![d] = FALSE]
    /\ owed' = [owed EXCEPT ![d] = Null]
    /\ UNCHANGED up

\* doc_close_single_backend while it asks about unsaved changes, and after the
\* user said "Cancel": the autosave is removed before the question.
CloseCancelled(d) ==
    /\ up /\ status[d] = "open" /\ modified[d]
    /\ d \in need \union progress \union journal
    /\ remove_autosave(d, FALSE, {"close cancelled"})
    /\ UNCHANGED <<up, docs, owed>>

\* Variant: the names chosen in this period are not kept apart.
PathsAlike(fresh) == [fresh -> {n \in Names : files[n] = Null}]

\* The names unique_path finds free, whichever it tries first.  The hash table
\* keeps apart only the names that are chosen in the same period.
Paths(fresh) ==
    {path \in [fresh -> {n \in Names : files[n] = Null}] :
        \A d, e \in fresh : path[d] = path[e] => d = e}

\* Variant: an empty text is saved too.
StartedAll == need

\* autosave returns without a save if the text is empty.
Started == {d \in need : text[d] # "empty"}

\* run_autosave, autosave
RunAutosave ==
    /\ up /\ progress = {} /\ need # {}
    /\ Cardinality(saves) + Cardinality(need) <= MaxSaves
    /\ LET fresh == {d \in need : uri[d] = Null}
       IN \E path \in Paths(fresh) :
            /\ uri' = [d \in Docs |-> IF d \in fresh THEN path[d] ELSE uri[d]]
            /\ saves' = saves \union
                 {[doc |-> d, file |-> uri'[d], text |-> text[d], stage |-> "waits",
                   cancelled |-> FALSE] : d \in Started}
            /\ Meets(When(Started # need, "empty text")
                       \union When(\E d \in fresh : path[d] \in deletes, "delete pending"))
    /\ action' = [d \in Docs |-> IF d \in Started THEN "save" ELSE action[d]]
    /\ progress' = need
    /\ need' = {}
    /\ UNCHANGED <<up, docs, journal, unsaved, deletes, files, disk, owed>>

\* autosave_save_journal.  If the write fails the old journal stays on disk and
\* the new one is not tried again.
SaveJournal(listed) ==
    /\ unsaved' = FALSE
    /\ \/ disk' = Entries(listed) /\ UNCHANGED met
       \/ Meets({"journal write fails"}) /\ UNCHANGED disk

\* run_autosave when there is only a journal to write
RunAutosaveJournal ==
    /\ up /\ progress = {} /\ need = {} /\ unsaved
    /\ SaveJournal(journal)
    /\ UNCHANGED <<up, docs, need, progress, action, uri, journal, saves, deletes, files,
                   owed>>

\* The save queue starts a save ...
Start(s) ==
    /\ s \in saves /\ s.stage = "waits"
    /\ saves' = (saves \ {s}) \union {[s EXCEPT !.stage = "writes"]}
    /\ UNCHANGED <<up, docs, memory, deletes, files, disk, owed, met>>

\* ... which replaces the file, or not; a cancelled one may still do either.
Write(s) ==
    /\ s \in saves /\ s.stage = "writes"
    /\ \/ /\ saves' = (saves \ {s}) \union {[s EXCEPT !.stage = "written"]}
          /\ files' = [files EXCEPT ![s.file] = s.text]
          /\ UNCHANGED met
       \/ /\ saves' = (saves \ {s}) \union {[s EXCEPT !.stage = "failed"]}
          /\ Meets(When(~s.cancelled, "write fails"))
          /\ UNCHANGED files
    /\ UNCHANGED <<up, docs, memory, deletes, disk, owed>>

\* Variant: a save that fails leaves the document in progress.
ProgressAfterFinished(s) ==
    IF s.cancelled \/ s.stage = "failed" THEN progress ELSE progress \ {s.doc}

ProgressAfter(s) == IF s.cancelled THEN progress ELSE progress \ {s.doc}

JournalAfter(s) ==
    IF s.cancelled \/ s.stage = "failed" THEN journal ELSE journal \union {s.doc}

\* Variant: a new entry does not ask for the journal to be written.
UnsavedAfterNot(s) == unsaved

\* register_autosave_journal
UnsavedAfter(s) == unsaved \/ JournalAfter(s) # journal

\* autosave_complete_lcb.  A cancelled save does not touch the document, but it
\* too writes the journal if no document is in progress.
Complete(s) ==
    /\ s \in saves /\ s.stage \in {"written", "failed"}
    /\ saves' = saves \ {s}
    /\ progress' = ProgressAfter(s)
    /\ journal' = JournalAfter(s)
    /\ action' = IF s.cancelled THEN action
                 ELSE [action EXCEPT ![s.doc] = IF s.stage = "failed" THEN "freed" ELSE Null]
    /\ IF progress' = {} /\ UnsavedAfter(s)
       THEN SaveJournal(journal')
       ELSE unsaved' = UnsavedAfter(s) /\ UNCHANGED <<disk, met>>
    /\ UNCHANGED <<up, docs, need, uri, deletes, files, owed>>

\* file_delete_async
Delete(n) ==
    /\ n \in deletes
    /\ deletes' = deletes \ {n}
    /\ files' = [files EXCEPT ![n] = Null]
    /\ UNCHANGED <<up, docs, memory, saves, disk, owed, met>>

\* The preferences are applied: autosave_init without recovery.
ApplyPreferences ==
    /\ up
    /\ Meets(When(unsaved, "preferences"))
    /\ unsaved' = FALSE
    /\ UNCHANGED <<up, docs, need, progress, action, uri, journal, outside, owed>>

-----------------------------------------------------------------------------

\* What an autosave that is done promises of a modified document.
Autosaved(d) ==
    /\ status[d] = "open" /\ modified[d]
    /\ d \notin need \union progress /\ ~unsaved

Forget ==
    /\ up' = FALSE
    /\ status' = [d \in Docs |-> "closed"] /\ modified' = [d \in Docs |-> FALSE]
    /\ need' = {} /\ progress' = {} /\ action' = [d \in Docs |-> Null]
    /\ uri' = [d \in Docs |-> Null] /\ journal' = {} /\ unsaved' = FALSE
    /\ saves' = {} /\ deletes' = {}
    /\ text' = [d \in Docs |-> "empty"]
    /\ UNCHANGED files

Crash ==
    /\ up
    /\ Forget
    /\ owed' = [d \in Docs |-> IF Autosaved(d) THEN text[d] ELSE owed[d]]
    /\ Meets(When(\E d \in Docs : owed[d] # Null /\ (disk = Null \/ ~\E e \in disk : e.doc = d),
                  "crash again"))
    /\ UNCHANGED disk

\* autosave_cleanup, when all documents are closed
Quit ==
    /\ up /\ \A d \in Docs : status[d] = "closed"
    /\ Forget
    /\ disk' = Null
    /\ UNCHANGED <<owed, met>>

\* The entries of the journal on disk whose file exists.
Found == IF disk = Null THEN {} ELSE {e \in disk : files[e.file] # Null}

\* Variant: the files are deleted although there is a journal.
FilesLeftNone == [n \in Names |-> Null]

\* Without a journal the files are deleted, in an idle callback that runs
\* before the first period ends.
FilesLeft == IF disk = Null THEN [n \in Names |-> Null] ELSE files

\* autosave_recover loads the files of the journal in the background, or
\* nothing when the journal cannot be read.
RecoverEntries(entries) ==
    /\ status' = [d \in Docs |-> IF \E e \in entries : e.doc = d THEN "recovering" ELSE "closed"]
    /\ uri' = [d \in Docs |-> IF \E e \in entries : e.doc = d
                              THEN (CHOOSE e \in entries : e.doc = d).file ELSE Null]

\* autosave_init: a journal is deleted whether it was read or not.
AutosaveInit ==
    /\ ~up
    /\ up' = TRUE
    /\ \/ RecoverEntries(Found) /\ UNCHANGED met
       \/ disk # Null /\ RecoverEntries({}) /\ Meets({"journal read fails"})
    /\ disk' = Null
    /\ files' = FilesLeft
    /\ UNCHANGED <<text, modified, need, progress, action, journal, unsaved, saves, deletes,
                   owed>>

\* file2doc_finished_idle_lcb with recovery_status 2
Recovered(d) ==
    /\ up /\ status[d] = "recovering" /\ files[uri[d]] # Null
    /\ status' = [status EXCEPT ![d] = "open"]
    /\ text' = [text EXCEPT ![d] = files[uri[d]]]
    /\ modified' = [modified EXCEPT ![d] = TRUE]
    /\ need' = need \union {d}
    /\ journal' = journal \union {d}
    /\ unsaved' = TRUE
    /\ UNCHANGED <<up, progress, action, uri, outside, owed, met>>

\* file2doc_lcb when the original file, which is loaded first, or the autosave
\* file cannot be read: the document stays open, in error, unless it was to be
\* closed or its load was cancelled.
NotRecovered(d) ==
    /\ up /\ status[d] = "recovering"
    /\ \E after \in {"open", "closed"} : status' = [status EXCEPT ![d] = after]
    /\ uri' = [uri EXCEPT ![d] = Null]
    /\ Meets(When(files[uri[d]] # Null, "original is gone"))
    /\ UNCHANGED <<up, text, modified, need, progress, action, journal, unsaved, outside, owed>>

Next ==
    \/ \E d \in Docs : \/ Open(d) \/ Edit(d) \/ SetUnmodified(d) \/ Close(d) \/ CloseCancelled(d)
                       \/ Recovered(d) \/ NotRecovered(d)
    \/ RunAutosave \/ RunAutosaveJournal
    \/ \E s \in saves : Start(s) \/ Write(s) \/ Complete(s)
    \/ \E n \in Names : Delete(n)
    \/ ApplyPreferences \/ Crash \/ Quit \/ AutosaveInit

Spec == Init /\ [][Next]_vars

-----------------------------------------------------------------------------

Save == [doc : Docs, file : Names, text : Contents,
         stage : {"waits", "writes", "written", "failed"}, cancelled : BOOLEAN]

TypeOK ==
    /\ up \in BOOLEAN
    /\ status \in [Docs -> {"closed", "open", "recovering"}]
    /\ text \in [Docs -> Texts] /\ modified \in [Docs -> BOOLEAN]
    /\ need \subseteq Docs /\ progress \subseteq Docs
    /\ action \in [Docs -> {Null, "save", "freed"}]
    /\ uri \in [Docs -> Names \union {Null}] /\ journal \subseteq Docs /\ unsaved \in BOOLEAN
    /\ saves \subseteq Save /\ deletes \subseteq Names
    /\ files \in [Names -> Contents \union {Null}]
    /\ disk = Null \/ disk \subseteq [doc : Docs, file : Names]
    /\ owed \in [Docs -> Texts \union {Null}] /\ met \subseteq Situations

Unmet(S) == met \cap S = {}

\* Every document in progress has the save that will end it (autosave,
\* autosave_complete_lcb), and which remove_autosave can cancel: unless its text
\* was empty.
ProgressEnds ==
    Unmet({"empty text"}) =>
        \A d \in progress : action[d] = "save" /\ \E s \in saves : Current(d, s)

\* No two documents are autosaved to the same file (unique_path and the hash
\* table of the names in use).
FilesApart ==
    Unmet({"write fails", "delete pending"}) =>
        \A d, e \in Docs : d # e /\ uri[d] # Null => uri[d] # uri[e]

\* "Enable recovery of modified documents": once the period is over, what the
\* journal on disk lists for a modified document is its text.
ModifiedIsRecoverable ==
    \A d \in Docs : up /\ Autosaved(d) =>
        disk # Null /\ \E e \in disk : e.doc = d /\ files[e.file] = text[d]
ModifiedIsRecoverableUnless ==
    Unmet({"write fails", "close cancelled", "preferences", "write cancelled",
           "delete pending", "journal write fails"}) => ModifiedIsRecoverable

\* After a crash, and another one, the user gets the text back.
CrashIsRepaid ==
    Unmet({"write fails", "close cancelled", "preferences", "write cancelled",
           "delete pending", "crash again", "original is gone", "journal write fails",
           "journal read fails"}) =>
        \A d \in Docs : up /\ owed[d] # Null =>
            \/ status[d] = "recovering" /\ files[uri[d]] = owed[d]
            \/ status[d] = "open" /\ text[d] = owed[d]

\* Two documents never share an autosave file, on disk or in the journal, and none stays in
\* progress without the save that ends it.
JournalSound == TypeOK /\ FilesApart /\ ProgressEnds

=============================================================================
