------------------------------ MODULE DocSave ------------------------------
(***************************************************************************)
(* Saving and closing one document (file_dialogs.c) against the file on    *)
(* disk: doc_save_backend hands the text to the asynchronous save of       *)
(* file.c, doc_checkNsave_lcb gets the result, asks about a file that was  *)
(* modified and has the file info fetched again, doc_close_single_backend  *)
(* asks about unsaved changes and waits for the fetch.  Meanwhile the      *)
(* user goes on and another program may write the same files.              *)
(*                                                                         *)
(* A text is known by who wrote it and when; the etag of a file is when it *)
(* was last written, 0 if it does not exist.  A dialog runs the main loop, *)
(* so callbacks fire while it is up; here at most one dialog is up.        *)
(* Backups are the subject of CheckNSave, loading that of OpenFile.        *)
(***************************************************************************)
EXTENDS Integers, FiniteSets

CONSTANTS
    Files,       \* the files the document can be saved to
    check_for_modified_on_disk,  \* the preference: FALSE if it is "Never"
    MaxClock,    \* bound: the number of edits, writes and ends of saves
    Null         \* NULL

Modes == {"normal", "copy", "saveas", "move"}

\* What an operation may meet that its code does not see to.
Situations ==
    {"edit while saving",         \* by a menu item or undo: the view is not editable
     "close while saving",
     "save while fetching",       \* the file info, after the previous save
     "another writes unnoticed",  \* between our write and the end of the fetch, or
                                  \* from the question on to the second write
     "save as fails",
     "saved empty",               \* a text that cannot be converted, continued in UTF-8:
                                  \* its length is not set
     "query fails",               \* for a file that was modified and is still there
     "close while asked",         \* about the encoding: the fetch that close waited for
     "move stale",                \* a document whose file another wrote meanwhile
     "move back"}                 \* to a file whose deletion has not happened yet

Results == {"ENCODING", "FINISHED", "ERROR", "ERROR_MODIFIED"}

\* "ENCODING" stands for the question about the encoding, before the save begins.
ASSUME NullAssumption == Null \notin Results /\ Null \notin Nat
ASSUME FilesAssumption == IsFiniteSet(Files) /\ Files # {} /\ MaxClock \in Nat \ {0}
ASSUME PreferenceAssumption == check_for_modified_on_disk \in BOOLEAN

VARIABLES
    clock,      \* the number of edits, writes and ends of saves so far
    text,       \* the text of the document
    modified,   \* doc->modified
    uri,        \* doc->uri
    fileinfo,   \* the etag in doc->fileinfo; Null
    state,      \* "open"; "closed" or "discarded" after doc_destroy
    close_doc,  \* doc->close_doc
    readonly,   \* doc->readonly
    save,       \* doc->save, with the write it waits for, or the write that waits for the
                \* answer about the encoding; Null
    fetches,    \* the file infos being fetched
    info,       \* doc->info: the fetch it points to; Null
    dialog,     \* "none", "close" (doc_modified_dialog), "encoding" or "overwrite"
    disk,       \* the files
    unlinks,    \* the files that file_delete_async will delete
    told,       \* the files whose present text, of another program, the user has seen
    touched,    \* a callback has used the document after doc_destroy
    met         \* the Situations met so far

vars == <<clock, text, modified, uri, fileinfo, state, close_doc, readonly, save, fetches,
          info, dialog, disk, unlinks, told, touched, met>>
docVars == <<text, modified, uri, fileinfo, state, close_doc, readonly, save, info>>

Ours(n) == [by |-> "us", at |-> n]
Others(n) == [by |-> "another", at |-> n]
NoText == [by |-> "nobody", at |-> 0]

Tick == clock < MaxClock /\ clock' = clock + 1

When(holds, situation) == IF holds THEN {situation} ELSE {}

-----------------------------------------------------------------------------
(* The document and its callbacks, on a record of its fields.              *)

Doc == [text |-> text, modified |-> modified, uri |-> uri, fileinfo |-> fileinfo,
        state |-> state, close_doc |-> close_doc, readonly |-> readonly, save |-> save,
        info |-> info, fetches |-> fetches, dialog |-> dialog]

Become(D) ==
    /\ text' = D.text
    /\ modified' = D.modified
    /\ uri' = D.uri
    /\ fileinfo' = D.fileinfo
    /\ state' = D.state
    /\ close_doc' = D.close_doc
    /\ readonly' = D.readonly
    /\ save' = D.save
    /\ info' = D.info
    /\ fetches' = D.fetches
    /\ dialog' = D.dialog

doc_destroy(D, how) == [D EXCEPT !.state = how]

\* file_doc_fill_fileinfo; n tells the fetches apart
file_doc_fill_fileinfo(D, n) ==
    [D EXCEPT !.info = n,
              !.fetches = @ \union {[id |-> n, uri |-> D.uri, etag |-> Null, cancelled |-> FALSE]}]

\* Variant: the etag is forgotten.
WriteUnchecked(D, mode, dest, close, converts) ==
    [text |-> D.text, dest |-> dest, mode |-> mode, close |-> close, etag |-> Null,
     result |-> IF converts THEN Null ELSE "ENCODING",
     unlink |-> IF mode = "move" THEN D.uri ELSE Null]

\* What doc_save_backend hands to file_checkNsave_uri_async, at once or when it was
\* answered about the encoding: only a normal save is checked against the etag.
\* converts: g_convert can convert the text to the encoding that the user chose.
Write(D, mode, dest, close, converts) ==
    [text |-> D.text, dest |-> dest, mode |-> mode, close |-> close,
     etag |-> IF mode = "normal" /\ check_for_modified_on_disk THEN D.fileinfo ELSE Null,
     result |-> IF converts THEN Null ELSE "ENCODING",
     unlink |-> IF mode = "move" THEN D.uri ELSE Null]

\* doc_save_backend after doc_get_buffer_in_encoding
Begun(D) ==
    [D EXCEPT !.close_doc = D.save.close,
              !.readonly = @ /\ D.save.mode \in {"normal", "copy"}]

\* doc_save_backend, for a document that has a uri.  While a save is in progress, or for
\* a document that is read-only, it only says so.  doc_get_buffer_in_encoding asks about
\* a text that it cannot convert when the document has its new uri already.
doc_save_backend(D, mode, dest, close, converts) ==
    LET write == Write(D, mode, dest, close, converts)
        named == [D EXCEPT !.save = write,
                           !.uri = IF mode \in {"saveas", "move"} THEN dest ELSE @]
    IN IF D.save # Null \/ (D.readonly /\ mode = "normal") THEN D
       ELSE IF write.result = "ENCODING" THEN [named EXCEPT !.dialog = "encoding"]
       ELSE Begun(named)

\* Variants: the fetch is not waited for; the user is not asked.
doc_close_single_backendAtOnce(D) ==
    IF D.modified THEN [D EXCEPT !.dialog = "close"] ELSE doc_destroy(D, "closed")
doc_close_single_backendUnasked(D) ==
    IF D.info # Null THEN [D EXCEPT !.close_doc = TRUE] ELSE doc_destroy(D, "closed")

doc_close_single_backend(D) ==
    IF D.info # Null
    THEN [D EXCEPT !.close_doc = TRUE,
                   !.fetches = {[i EXCEPT !.cancelled = @ \/ i.id = D.info] : i \in D.fetches}]
    ELSE IF D.modified THEN [D EXCEPT !.dialog = "close"]
    ELSE doc_destroy(D, "closed")

\* Variant: doc->info keeps its value.
FetchedStillThere(D, i) ==
    [D EXCEPT !.fetches = @ \ {i},
              !.fileinfo = IF i.cancelled \/ i.etag = 0 THEN @ ELSE i.etag]

\* fill_fileinfo_lcb up to its test of close_doc; an error leaves the file info
Fetched(D, i) ==
    [D EXCEPT !.fetches = @ \ {i},
              !.info = Null,
              !.fileinfo = IF i.cancelled \/ i.etag = 0 THEN @ ELSE i.etag]

\* doc_checkNsave_lcb, CHECKANDSAVE_FINISHED
SaveFinished(D, n) ==
    LET saved == [D EXCEPT !.save = Null] IN
    CASE D.close_doc -> doc_destroy(saved, "closed")
      [] ~D.close_doc /\ D.save.mode = "copy" -> saved
      [] OTHER -> file_doc_fill_fileinfo([saved EXCEPT !.fileinfo = Null, !.modified = FALSE], n)

-----------------------------------------------------------------------------

Init ==
    /\ clock = 1
    /\ text = Ours(0) /\ modified = FALSE
    /\ uri \in Files
    /\ disk = [f \in Files |-> IF f = uri THEN [text |-> Ours(0), etag |-> 1]
                               ELSE [text |-> NoText, etag |-> 0]]
    /\ fileinfo = disk[uri].etag
    /\ state = "open" /\ close_doc = FALSE /\ readonly \in BOOLEAN
    /\ save = Null /\ fetches = {} /\ info = Null
    /\ dialog = "none"
    /\ unlinks = {} /\ told = {} /\ touched = FALSE /\ met = {}

\* The user can reach the document: it is there and no dialog is up.
Free == state = "open" /\ dialog = "none"

Edit ==
    /\ Free /\ Tick
    /\ met' = met \union When(save # Null, "edit while saving")
    /\ text' = Ours(clock)
    /\ modified' = TRUE
    /\ UNCHANGED <<uri, fileinfo, state, close_doc, readonly, save, info, fetches, dialog,
                   disk, unlinks, told, touched>>

\* file_save_cb, file_save_as_cb, file_move_to_cb and the save of a copy.  For
\* another file than the present one ask_new_filename tells if it exists.
Save(mode, dest) ==
    /\ Free /\ save = Null
    /\ mode = "normal" <=> dest = uri
    /\ ~(readonly /\ mode = "normal")
    /\ met' = met \union When(fetches # {}, "save while fetching")
                  \union When(dest \in unlinks, "move back")
                  \union When(mode = "move" /\ disk[uri].text.by = "another", "move stale")
    /\ \E converts \in BOOLEAN : Become(doc_save_backend(Doc, mode, dest, FALSE, converts))
    /\ told' = told \union When(mode # "normal" /\ disk[dest].text.by = "another", dest)
    /\ UNCHANGED <<clock, disk, unlinks, touched>>

\* "Abort save" leaves the new uri, "Continue save in UTF-8" saves a buffer whose length
\* is still 0; update_encoding_meta_in_file may change the text.
EncodingAnswered ==
    /\ dialog = "encoding"
    /\ touched' = (touched \/ state # "open")
    /\ LET D == [Doc EXCEPT !.dialog = "none"]
           empty == [D EXCEPT !.save.result = Null, !.save.text = NoText]
       IN \/ /\ Become([D EXCEPT !.save = Null])
             /\ met' = met \union When(save.mode \in {"saveas", "move"}, "save as fails")
             /\ UNCHANGED clock
          \/ /\ \/ Become(Begun(empty)) /\ UNCHANGED clock
                \/ /\ Become(Begun([empty EXCEPT !.text = Ours(clock), !.modified = TRUE]))
                   /\ Tick
             /\ met' = met \union {"saved empty"}
    /\ UNCHANGED <<disk, unlinks, told>>

\* GIO replaces the contents of the file, or refuses.
ReplaceContents ==
    /\ save # Null /\ save.result = Null
    /\ LET changed == save.etag \notin {Null, disk[save.dest].etag} /\ disk[save.dest].etag # 0
       IN \/ /\ changed
             /\ save' = [save EXCEPT !.result = "ERROR_MODIFIED"]
             /\ UNCHANGED <<clock, disk, told, met>>
          \/ /\ ~changed /\ Tick
             /\ save' = [save EXCEPT !.result = "FINISHED"]
             /\ disk' = [disk EXCEPT ![save.dest] = [text |-> save.text, etag |-> clock + 1]]
             /\ told' = told \ {save.dest}
             /\ UNCHANGED met
          \/ /\ met' = met \union When(save.mode \in {"saveas", "move"}, "save as fails")
             /\ save' = [save EXCEPT !.result = "ERROR"]
             /\ UNCHANGED <<clock, disk, told>>
    /\ UNCHANGED <<text, modified, uri, fileinfo, state, close_doc, readonly, info, fetches,
                   dialog, unlinks, touched>>

\* doc_checkNsave_lcb
CheckNsaveFinished ==
    /\ save # Null /\ save.result = "FINISHED" /\ Tick
    /\ unlinks' = unlinks \union ({save.unlink} \ {Null})
    /\ touched' = (touched \/ state # "open")
    /\ Become(SaveFinished(Doc, clock))
    /\ UNCHANGED <<disk, told, met>>

CheckNsaveError ==
    /\ save # Null /\ save.result = "ERROR"
    /\ touched' = (touched \/ state # "open")
    /\ Become([Doc EXCEPT !.save = Null])
    /\ UNCHANGED <<clock, disk, unlinks, told, met>>

\* The question that names the size and time of the file as it is now, or no question
\* and the save goes on if the query fails, there being no file any more or not ...
CheckNsaveModified ==
    /\ save # Null /\ save.result = "ERROR_MODIFIED" /\ dialog = "none"
    /\ touched' = (touched \/ state # "open")
    /\ \/ /\ Become([Doc EXCEPT !.save.etag = Null, !.save.result = Null])
          /\ met' = met \union When(disk[save.dest].etag # 0, "query fails")
          /\ UNCHANGED told
       \/ /\ disk[save.dest].etag # 0
          /\ Become([Doc EXCEPT !.dialog = "overwrite"])
          /\ told' = told \union When(disk[save.dest].text.by = "another", save.dest)
          /\ UNCHANGED met
    /\ UNCHANGED <<clock, disk, unlinks>>

\* ... and its answers: abort the save, or write again without an etag.
OverwriteAnswered ==
    /\ dialog = "overwrite"
    /\ touched' = (touched \/ state # "open")
    /\ \/ /\ Become([Doc EXCEPT !.dialog = "none", !.save = Null])
          /\ told' = told \ {save.dest}
       \/ /\ Become([Doc EXCEPT !.dialog = "none", !.save.etag = Null, !.save.result = Null])
          /\ UNCHANGED told
    /\ UNCHANGED <<clock, disk, unlinks, met>>

\* The etag is read ...
QueryInfo(i) ==
    /\ i \in fetches /\ i.etag = Null /\ ~i.cancelled
    /\ fetches' = (fetches \ {i}) \union {[i EXCEPT !.etag = disk[i.uri].etag]}
    /\ UNCHANGED <<clock, docVars, dialog, disk, unlinks, told, touched, met>>

\* ... and fill_fileinfo_lcb called.
FillFileinfo(i) ==
    /\ i \in fetches /\ (i.etag # Null \/ i.cancelled)
    /\ touched' = (touched \/ state # "open")
    /\ LET D == Fetched(Doc, i)
           closed == IF D.close_doc THEN doc_close_single_backend(D) ELSE D
       IN /\ closed.dialog = "none" \/ closed.dialog = dialog
          /\ Become(closed)
          /\ met' = met \union When(dialog = "encoding" /\ closed.state # state,
                                   "close while asked")
    /\ UNCHANGED <<clock, disk, unlinks, told>>

\* file_close_cb
Close ==
    /\ Free
    /\ met' = met \union When(save # Null, "close while saving")
    /\ Become(doc_close_single_backend(Doc))
    /\ UNCHANGED <<clock, disk, unlinks, told, touched>>

\* "Close Without Saving", "Cancel" or "Save"
CloseAnswered ==
    /\ dialog = "close"
    /\ LET D == [Doc EXCEPT !.dialog = "none"]
       IN \/ Become(doc_destroy(D, "discarded"))
          \/ Become(D)
          \/ \E converts \in BOOLEAN :
                 Become(doc_save_backend(D, "normal", D.uri, TRUE, converts))
    /\ touched' = (touched \/ state # "open")
    /\ UNCHANGED <<clock, disk, unlinks, told, met>>

\* file_delete_async
Unlink(f) ==
    /\ f \in unlinks
    /\ unlinks' = unlinks \ {f}
    /\ disk' = [disk EXCEPT ![f] = [text |-> NoText, etag |-> 0]]
    /\ told' = told \ {f}
    /\ UNCHANGED <<clock, docVars, fetches, dialog, touched, met>>

\* Another program writes a file.
AnotherWrites(f) ==
    /\ Tick
    /\ met' = met \union
             When(\/ fetches # {} \/ fileinfo = Null \/ f \in unlinks \/ dialog = "overwrite"
                  \/ save # Null /\ (save.result = "FINISHED" \/ save.etag = Null),
                  "another writes unnoticed")
    /\ disk' = [disk EXCEPT ![f] = [text |-> Others(clock), etag |-> clock + 1]]
    /\ told' = told \ {f}
    /\ UNCHANGED <<docVars, fetches, dialog, unlinks, touched>>

Next ==
    \/ Edit \/ ReplaceContents
    \/ \E mode \in Modes, f \in Files : Save(mode, f)
    \/ EncodingAnswered
    \/ CheckNsaveFinished \/ CheckNsaveError \/ CheckNsaveModified \/ OverwriteAnswered
    \/ \E i \in fetches : QueryInfo(i) \/ FillFileinfo(i)
    \/ Close \/ CloseAnswered
    \/ \E f \in Files : Unlink(f) \/ AnotherWrites(f)

Spec == Init /\ [][Next]_vars

-----------------------------------------------------------------------------

Texts == {NoText} \union {Ours(n) : n \in 0 .. MaxClock} \union {Others(n) : n \in 0 .. MaxClock}
Etags == 1 .. MaxClock + 1
Fetch == [id : 0 .. MaxClock, uri : Files, etag : {Null} \union 0 .. MaxClock + 1,
          cancelled : BOOLEAN]
Saving == [text : Texts, dest : Files, mode : Modes, close : BOOLEAN,
           result : {Null} \union Results,
           etag : {Null} \union Etags, unlink : {Null} \union Files]
ASSUME NullIsNoSave == Null \notin Saving

\* doc->info never points to a fetch that ended.
TypeOK ==
    /\ clock \in 0 .. MaxClock
    /\ text \in Texts /\ modified \in BOOLEAN
    /\ uri \in Files /\ fileinfo \in {Null} \union Etags
    /\ state \in {"open", "closed", "discarded"} /\ close_doc \in BOOLEAN
    /\ readonly \in BOOLEAN
    /\ save = Null \/ save \in Saving
    /\ fetches \subseteq Fetch
    /\ info \in {Null} \union {i.id : i \in fetches}
    /\ dialog \in {"none", "close", "encoding", "overwrite"}
    /\ \A f \in Files : disk[f].text \in Texts /\ disk[f].etag \in {0} \union Etags
    /\ unlinks \subseteq Files /\ told \subseteq Files /\ touched \in BOOLEAN
    /\ met \subseteq Situations

Unmet(S) == met \cap S = {}

Overwrites(f) == disk[f].text.by = "another" /\ disk'[f].text.by # "another"

\* What another program wrote is overwritten or deleted only if the user was
\* told that it is there and went on (doc_checkNsave_lcb, ask_new_filename),
\* unless the preference is to check nothing, the other program wrote when
\* nothing looked, the query about its file failed, or the document was moved
\* away from what it wrote.
ToldBeforeOverwrite ==
    [][check_for_modified_on_disk
       /\ Unmet({"another writes unnoticed", "query fails", "move stale"})
         => \A f \in Files : Overwrites(f) => f \in told]_vars

InFile == disk[uri].text = text \/ disk[uri].text.by = "another"

\* A document that is shown as unmodified, or was closed without "Close Without
\* Saving", has its text in its file, unless another program wrote it since
\* (doc_set_modified and doc_destroy in doc_checkNsave_lcb, file_delete_async).
\* Saves in any order, closes, questions and fetches keep it so, but for an edit
\* or a close while a save is in flight, a Save As that fails or is aborted, a text that
\* was saved in UTF-8 for want of its encoding, a close while the question
\* about that is up, and a move back.
TextKept ==
    Unmet({"edit while saving", "close while saving", "save as fails", "saved empty",
           "close while asked", "move back"}) =>
        /\ state = "open" /\ save = Null /\ ~modified => InFile
        /\ state = "closed" => InFile

\* doc_destroy "free[s] all related memory": no callback and no dialog comes
\* back to a document that is destroyed, if no save was in flight when it was
\* closed and none began while the file info of the previous one was fetched.
\* (The rest of the callback that destroys it is not modelled.)
DestroyedLeftAlone == Unmet({"close while saving", "save while fetching"}) => ~touched

\* No text is lost while its document is saved, closed and asked about.
NothingLost == TypeOK /\ TextKept

=============================================================================
