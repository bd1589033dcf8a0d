--------------------------- MODULE DocSaveProofs ---------------------------
(***************************************************************************)
(* Proof that nothing comes back to a document that is destroyed, for any  *)
(* files and any number of edits and writes, if the document was not       *)
(* closed while a save was in flight and no save began while the file info *)
(* was fetched.  Then at most one of a save, a fetch and a question about  *)
(* closing is under way, and each of them keeps the document alive.        *)
(* And that no text is lost: what is written is the text as it is, to a    *)
(* file that no pending deletion reaches, and what is shown as unmodified  *)
(* is in its file already.  And that what another program wrote is not     *)
(* overwritten unasked: it has an etag that the document never had.        *)
(* A save that waits for the answer about the encoding counts as a save.   *)
(***************************************************************************)
EXTENDS DocSave, TLAPS

\* What doc_save_backend does: nothing, or a save that begins at once or after a question.
\* d is the dialog that stays.
Saves(mode, dest, close, d) ==
    /\ UNCHANGED <<text, modified, fileinfo, state, info, fetches>>
    /\ \/ UNCHANGED <<uri, close_doc, save>> /\ dialog' = d
       \/ /\ save = Null
          /\ save'.text = text /\ save'.dest = dest /\ save'.mode = mode /\ save'.close = close
          /\ save'.etag = Null \/ (mode = "normal" /\ save'.etag = fileinfo)
          /\ check_for_modified_on_disk /\ mode = "normal" => save'.etag = fileinfo
          /\ save'.unlink = (IF mode = "move" THEN uri ELSE Null)
          /\ uri' = (IF mode \in {"saveas", "move"} THEN dest ELSE uri)
          /\ \/ save'.result = Null /\ dialog' = d /\ close_doc' = close
             \/ save'.result = "ENCODING" /\ dialog' = "encoding" /\ close_doc' = close_doc
          /\ save' \in [text : {text}, dest : {dest}, mode : {mode}, close : {close},
                        result : {Null, "ENCODING"}, etag : {Null, fileinfo},
                        unlink : {Null, uri}]

LEMMA Backend ==
    ASSUME NEW mode \in Modes, NEW dest, NEW close, NEW converts \in BOOLEAN, NEW d,
           Become(doc_save_backend([Doc EXCEPT !.dialog = d], mode, dest, close, converts))
    PROVE  Saves(mode, dest, close, d) /\ (readonly \in BOOLEAN => readonly' \in BOOLEAN)
<1>. DEFINE D == [Doc EXCEPT !.dialog = d]
            write == Write(D, mode, dest, close, converts)
            named == [D EXCEPT !.save = write,
                               !.uri = IF mode \in {"saveas", "move"} THEN dest ELSE @]
<1>1. CASE D.save # Null \/ (D.readonly /\ mode = "normal")
  <2>1. Become(D)
    BY <1>1 DEF doc_save_backend
  <2>. QED BY <2>1 DEF Become, Doc, Saves
<1>2. CASE ~(D.save # Null \/ (D.readonly /\ mode = "normal"))
  <2>1. write = [text |-> text, dest |-> dest, mode |-> mode, close |-> close,
                 etag |-> IF mode = "normal" /\ check_for_modified_on_disk THEN fileinfo ELSE Null,
                 result |-> IF converts THEN Null ELSE "ENCODING",
                 unlink |-> IF mode = "move" THEN uri ELSE Null]
    BY DEF Write, Doc
  <2>2. Become(IF write.result = "ENCODING" THEN [named EXCEPT !.dialog = "encoding"]
               ELSE Begun(named))
    BY <1>2 DEF doc_save_backend
  <2>3. save = Null
    BY <1>2 DEF Doc
  <2>4. /\ write.text = text /\ write.dest = dest /\ write.mode = mode /\ write.close = close
        /\ write.etag = Null \/ (mode = "normal" /\ write.etag = fileinfo)
        /\ check_for_modified_on_disk /\ mode = "normal" => write.etag = fileinfo
        /\ write.unlink = (IF mode = "move" THEN uri ELSE Null)
        /\ write.result \in {Null, "ENCODING"}
        /\ write \in [text : {text}, dest : {dest}, mode : {mode}, close : {close},
                      result : {Null, "ENCODING"}, etag : {Null, fileinfo}, unlink : {Null, uri}]
    BY <2>1, PreferenceAssumption
  <2>. HIDE DEF write
  <2>5. /\ UNCHANGED <<text, modified, fileinfo, state, info, fetches>> /\ save' = write
        /\ uri' = (IF mode \in {"saveas", "move"} THEN dest ELSE uri)
        /\ \/ write.result # "ENCODING" /\ dialog' = d /\ close_doc' = write.close
           \/ write.result = "ENCODING" /\ dialog' = "encoding" /\ close_doc' = close_doc
    BY <2>2 DEF Become, Begun, Doc
  <2>6. readonly \in BOOLEAN => readonly' \in BOOLEAN
    BY <2>2 DEF Become, Begun, Doc
  <2>. QED BY <2>3, <2>4, <2>5, <2>6 DEF Saves
<1>. QED BY <1>1, <1>2

LEMMA BackendFree ==
    ASSUME NEW mode \in Modes, NEW dest, NEW close, NEW converts \in BOOLEAN,
           Become(doc_save_backend(Doc, mode, dest, close, converts))
    PROVE  Saves(mode, dest, close, dialog) /\ (readonly \in BOOLEAN => readonly' \in BOOLEAN)
<1>1. [Doc EXCEPT !.dialog = dialog] = Doc
  BY DEF Doc
<1>. QED BY <1>1, Backend

\* The answers about the encoding: the save ends, or it begins with nothing to write.
Aborted ==
    /\ save' = Null /\ UNCHANGED <<clock, text, modified, close_doc, readonly>>
    /\ met' = met \union When(save.mode \in {"saveas", "move"}, "save as fails")

Continued ==
    /\ save' \in Saving /\ save'.text = NoText /\ save'.dest = save.dest
    /\ save'.mode = save.mode /\ save'.close = save.close /\ save'.result = Null
    /\ save'.etag = save.etag /\ save'.unlink = save.unlink
    /\ close_doc' = save.close /\ (readonly \in BOOLEAN => readonly' \in BOOLEAN)
    /\ \/ UNCHANGED <<clock, text, modified>>
       \/ Tick /\ text' = Ours(clock) /\ modified' = TRUE
    /\ met' = met \union {"saved empty"}

LEMMA EncodingStep ==
    ASSUME EncodingAnswered, save \in Saving
    PROVE  /\ UNCHANGED <<uri, fileinfo, state, info, fetches, disk, unlinks, told>>
           /\ dialog = "encoding" /\ dialog' = "none" /\ touched' = (touched \/ state # "open")
           /\ Aborted \/ Continued
<1>. DEFINE D == [Doc EXCEPT !.dialog = "none"]
            again == [save EXCEPT !.result = Null, !.text = NoText]
            empty == [D EXCEPT !.save = again]
            noted == [empty EXCEPT !.text = Ours(clock), !.modified = TRUE]
<1>1. /\ again \in Saving /\ again.text = NoText /\ again.dest = save.dest
      /\ again.mode = save.mode /\ again.close = save.close /\ again.result = Null
      /\ again.etag = save.etag /\ again.unlink = save.unlink
  BY DEF Saving, Texts
<1>2. [D EXCEPT !.save.result = Null, !.save.text = NoText] = empty
  BY DEF Doc
<1>3. /\ dialog = "encoding" /\ touched' = (touched \/ state # "open")
      /\ UNCHANGED <<disk, unlinks, told>>
      /\ \/ /\ Become([D EXCEPT !.save = Null]) /\ UNCHANGED clock
            /\ met' = met \union When(save.mode \in {"saveas", "move"}, "save as fails")
         \/ Become(Begun(empty)) /\ UNCHANGED clock /\ met' = met \union {"saved empty"}
         \/ Become(Begun(noted)) /\ Tick /\ met' = met \union {"saved empty"}
  BY <1>2 DEF EncodingAnswered
<1>. HIDE DEF again
<1>4. CASE /\ Become([D EXCEPT !.save = Null]) /\ UNCHANGED clock
           /\ met' = met \union When(save.mode \in {"saveas", "move"}, "save as fails")
  BY <1>3, <1>4 DEF Become, Doc, Aborted
<1>5. CASE Become(Begun(empty)) /\ UNCHANGED clock /\ met' = met \union {"saved empty"}
  BY <1>1, <1>3, <1>5 DEF Become, Begun, Doc, Continued
<1>6. CASE Become(Begun(noted)) /\ Tick /\ met' = met \union {"saved empty"}
  BY <1>1, <1>3, <1>6 DEF Become, Begun, Doc, Continued
<1>. QED BY <1>3, <1>4, <1>5, <1>6

\* A question about closing or the encoding is alone; one about overwriting belongs to a
\* save that was refused.
Questions ==
    /\ dialog \in {"none", "close", "encoding", "overwrite"}
    /\ dialog = "close" => save = Null
    /\ dialog \in {"close", "encoding"} => fetches = {}
    /\ dialog = "encoding" => save.result = "ENCODING"
    /\ dialog = "overwrite" => save # Null /\ save.result = "ERROR_MODIFIED"

\* At most one fetch, which doc->info knows of, and never beside a save.
Fetches ==
    /\ info = Null => fetches = {}
    /\ \A i, j \in fetches : i = j
    /\ save # Null => fetches = {}

\* What is destroyed is waited for by nothing.
Destroyed == state # "open" => save = Null /\ fetches = {} /\ dialog = "none"

Separate == Unmet({"close while saving", "save while fetching"})

IInv ==
    /\ clock \in Nat
    /\ Separate => Questions /\ Fetches /\ Destroyed /\ ~touched

-----------------------------------------------------------------------------

\* A document that was just opened satisfies the invariant.
LEMMA InitIInv == Init => IInv
BY DEF Init, IInv, Questions, Fetches, Destroyed

\* What was met stays met.
LEMMA MetGrows == [Next]_vars => met \subseteq met'
<1>. SUFFICES ASSUME [Next]_vars PROVE met \subseteq met'
  OBVIOUS
<1>. QED BY
            DEF Next, vars, Edit, ReplaceContents, Save, EncodingAnswered, CheckNsaveFinished,
                CheckNsaveError, CheckNsaveModified, OverwriteAnswered, QueryInfo, FillFileinfo,
                Close, CloseAnswered, Unlink, AnotherWrites

LEMMA MetStays == [Next]_vars /\ Separate' => Separate
BY MetGrows DEF Separate, Unmet

\* The clock stays a number, so that a new fetch has an identity.
LEMMA ClockInNat == clock \in Nat /\ [Next]_vars => clock' \in Nat
<1> SUFFICES ASSUME clock \in Nat, [Next]_vars PROVE clock' \in Nat
    OBVIOUS
<1>0. Tick => clock' \in Nat
    BY DEF Tick
<1>1. CASE Edit BY <1>0, <1>1 DEF Edit
<1>2. CASE ReplaceContents BY <1>0, <1>2, Zenon DEF ReplaceContents
<1>3. ASSUME NEW mode \in Modes, NEW f \in Files, Save(mode, f) PROVE clock' \in Nat
    BY <1>3 DEF Save
<1>4. CASE CheckNsaveFinished BY <1>0, <1>4 DEF CheckNsaveFinished
<1>5. CASE CheckNsaveError BY <1>5 DEF CheckNsaveError
<1>6. CASE CheckNsaveModified BY <1>6 DEF CheckNsaveModified
<1>7. CASE OverwriteAnswered BY <1>7 DEF OverwriteAnswered
<1>8. ASSUME NEW i \in fetches, QueryInfo(i) \/ FillFileinfo(i) PROVE clock' \in Nat
    BY <1>8 DEF QueryInfo, FillFileinfo
<1>9. CASE Close BY <1>9 DEF Close
<1>10. CASE CloseAnswered BY <1>10 DEF CloseAnswered
<1>11. ASSUME NEW f \in Files, Unlink(f) \/ AnotherWrites(f) PROVE clock' \in Nat
    BY <1>0, <1>11, Zenon DEF Unlink, AnotherWrites
<1>12. CASE UNCHANGED vars BY <1>12 DEF vars
<1>13. CASE EncodingAnswered BY <1>0, <1>13 DEF EncodingAnswered
<1> QED BY <1>1, <1>2, <1>3, <1>4, <1>5, <1>6, <1>7, <1>8, <1>9, <1>10, <1>11, <1>12, <1>13
        DEF Next

\* Every action keeps the invariant.
LEMMA NextIInv == IInv /\ [Next]_vars => IInv'
<1> SUFFICES ASSUME IInv, [Next]_vars, Separate'
             PROVE  (Questions /\ Fetches /\ Destroyed /\ ~touched)'
    BY ClockInNat DEF IInv
<1>a. Separate /\ Questions /\ Fetches /\ Destroyed /\ ~touched
    BY MetStays DEF IInv
<1>b. clock # Null
    BY NullAssumption DEF IInv
<1> USE <1>a DEF Questions, Fetches, Destroyed
<1>1. CASE Edit
    BY <1>1 DEF Edit, Free
<1>2. CASE ReplaceContents
    BY <1>2, NullAssumption DEF ReplaceContents, Results
<1>3. ASSUME NEW mode \in Modes, NEW f \in Files, Save(mode, f)
      PROVE  (Questions /\ Fetches /\ Destroyed /\ ~touched)'
    <2>1. state = "open" /\ dialog = "none" /\ save = Null /\ fetches = {} /\ touched' = touched
        BY <1>3 DEF Save, Free, Separate, Unmet, When
    <2>2. Saves(mode, f, FALSE, dialog)
        BY <1>3, BackendFree DEF Save
    <2>3. /\ state' = state /\ fetches' = fetches
          /\ dialog' = dialog \/ (dialog' = "encoding" /\ save'.result = "ENCODING")
        BY <2>2 DEF Saves
    <2> QED BY <2>1, <2>3
<1>4. CASE CheckNsaveFinished
    <2>1. /\ save # Null /\ save.result = "FINISHED"
          /\ touched' = (touched \/ state # "open")
          /\ Become(SaveFinished(Doc, clock))
        BY <1>4 DEF CheckNsaveFinished
    <2>2. state = "open" /\ fetches = {} /\ dialog = "none" /\ ~touched'
        BY <2>1
    <2>3. CASE close_doc
        BY <2>1, <2>2, <2>3 DEF SaveFinished, doc_destroy, Become, Doc
    <2>4. CASE ~close_doc /\ save.mode = "copy"
        BY <2>1, <2>2, <2>4 DEF SaveFinished, Become, Doc
    <2>5. CASE ~close_doc /\ save.mode # "copy"
        <3>1. /\ save' = Null /\ state' = state /\ dialog' = dialog /\ info' = clock
              /\ \E i : fetches' = fetches \union {i}
            BY <2>1, <2>5 DEF SaveFinished, file_doc_fill_fileinfo, Become, Doc
        <3> QED BY <2>2, <3>1, <1>b
    <2> QED BY <2>3, <2>4, <2>5
<1>5. CASE CheckNsaveError
    BY <1>5 DEF CheckNsaveError, Become, Doc
<1>6. CASE CheckNsaveModified
    <2>1. save # Null /\ save.result = "ERROR_MODIFIED" /\ dialog = "none"
        BY <1>6 DEF CheckNsaveModified
    <2>2. /\ state' = state /\ info' = info /\ fetches' = fetches
        /\ touched' = (touched \/ state # "open")
        BY <1>6 DEF CheckNsaveModified, Become, Doc
    <2>3. \/ dialog' = "none"
          \/ dialog' = "overwrite" /\ save' = save
        BY <1>6, <2>1 DEF CheckNsaveModified, Become, Doc
    <2> QED BY <2>1, <2>2, <2>3
<1>7. CASE OverwriteAnswered
    BY <1>7 DEF OverwriteAnswered, Become, Doc
<1>8. ASSUME NEW i \in fetches, QueryInfo(i)
      PROVE  (Questions /\ Fetches /\ Destroyed /\ ~touched)'
    BY <1>8 DEF QueryInfo, docVars
<1>9. ASSUME NEW i \in fetches, FillFileinfo(i)
      PROVE  (Questions /\ Fetches /\ Destroyed /\ ~touched)'
    BY <1>9 DEF FillFileinfo, Fetched, doc_close_single_backend, doc_destroy, Become, Doc
<1>10. CASE Close
    <2>1. state = "open" /\ dialog = "none" /\ save = Null /\ touched' = touched
        BY <1>10 DEF Close, Free, Separate, Unmet, When
    <2>2. CASE info # Null
        <3>1. /\ state' = state /\ save' = save /\ dialog' = dialog /\ info' = info
              /\ fetches' = {[i EXCEPT !.cancelled = @ \/ i.id = info] : i \in fetches}
            BY <1>10, <2>2 DEF Close, doc_close_single_backend, Become, Doc
        <3> QED BY <2>1, <2>2, <3>1
    <2>3. CASE info = Null
        <3>1. /\ save' = save /\ info' = info /\ fetches' = fetches
              /\ dialog' = "none" \/ (dialog' = "close" /\ state' = state)
            BY <1>10, <2>1, <2>3
               DEF Close, doc_close_single_backend, doc_destroy, Become, Doc
        <3> QED BY <2>1, <2>3, <3>1
    <2> QED BY <2>2, <2>3
<1>11. CASE CloseAnswered
    <2>1. /\ dialog = "close" /\ save = Null /\ fetches = {} /\ state = "open"
          /\ touched' = (touched \/ state # "open")
        BY <1>11 DEF CloseAnswered
    <2>2. CASE Become(doc_destroy([Doc EXCEPT !.dialog = "none"], "discarded"))
               \/ Become([Doc EXCEPT !.dialog = "none"])
        BY <2>1, <2>2 DEF doc_destroy, Become, Doc
    <2>3. ASSUME NEW converts \in BOOLEAN,
                 Become(doc_save_backend([Doc EXCEPT !.dialog = "none"], "normal", uri, TRUE,
                                         converts))
          PROVE  /\ state' = state /\ fetches' = fetches
                 /\ dialog' = "none" \/ (dialog' = "encoding" /\ save'.result = "ENCODING")
        <3>1. Saves("normal", uri, TRUE, "none")
            BY <2>3, Backend DEF Modes
        <3> QED BY <3>1 DEF Saves
    <2>4. [Doc EXCEPT !.dialog = "none"].uri = uri
        BY DEF Doc
    <2> QED BY <1>11, <2>1, <2>2, <2>3, <2>4 DEF CloseAnswered
<1>12. ASSUME NEW f \in Files, Unlink(f) \/ AnotherWrites(f)
      PROVE  (Questions /\ Fetches /\ Destroyed /\ ~touched)'
    <2>1. UNCHANGED <<state, save, fetches, info, dialog, touched>>
        BY <1>12, Zenon DEF Unlink, AnotherWrites, docVars
    <2> QED BY <2>1
<1>13. CASE UNCHANGED vars
    BY <1>13 DEF vars
<1>14. CASE EncodingAnswered
    <2>1. dialog = "encoding" /\ touched' = (touched \/ state # "open")
        BY <1>14 DEF EncodingAnswered
    <2>2. UNCHANGED <<state, fetches, info>> /\ dialog' = "none"
        BY <1>14 DEF EncodingAnswered, Begun, Become, Doc
    <2> QED BY <2>1, <2>2
<1> QED BY <1>1, <1>2, <1>3, <1>4, <1>5, <1>6, <1>7, <1>8, <1>9, <1>10, <1>11, <1>12, <1>13,
           <1>14
        DEF Next

\* A save, a fetch or a question finds its document alive, unless the document
\* was closed during a save or saved during a fetch (doc_close_single_backend,
\* doc_checkNsave_lcb, fill_fileinfo_lcb).
THEOREM SpecDestroyedLeftAlone == Spec => []DestroyedLeftAlone
<1>1. IInv => DestroyedLeftAlone
    BY DEF IInv, Separate, DestroyedLeftAlone
<1> QED BY InitIInv, NextIInv, <1>1, PTL DEF Spec

-----------------------------------------------------------------------------
\* The types, with a disk for all files; a question about the encoding belongs to a save that
\* waits for it, one about overwriting to a save that was refused.
Refused ==
    /\ dialog = "encoding" => save # Null /\ save.result = "ENCODING"
    /\ dialog = "overwrite" => save # Null /\ save.result = "ERROR_MODIFIED"
Typed == TypeOK /\ disk \in [Files -> [text : Texts, etag : {0} \union Etags]] /\ Refused

\* A time not past the bound marks a text.
LEMMA Ticking ==
    ASSUME Typed, Tick
    PROVE  /\ clock' \in 0 .. MaxClock /\ clock \in 0 .. MaxClock /\ clock # Null
           /\ Ours(clock) \in Texts /\ Others(clock) \in Texts /\ clock + 1 \in Etags
<1>1. clock \in 0 .. MaxClock /\ clock' \in 0 .. MaxClock /\ clock # Null /\ MaxClock \in Nat
  BY FilesAssumption, NullAssumption DEF Typed, TypeOK, Tick
<1>2. clock + 1 \in Etags
  BY <1>1, FilesAssumption DEF Tick, Etags
<1>. QED BY <1>1, <1>2, Zenon DEF Texts

\* A document that was just opened has the types.
LEMMA InitTyped == Init => Typed
<1>. SUFFICES ASSUME Init PROVE Typed
  OBVIOUS
<1>1. MaxClock \in Nat
  BY FilesAssumption
<1>2. Ours(0) \in Texts /\ NoText \in Texts /\ 1 \in Etags
  BY <1>1 DEF Texts, Etags
<1>3. disk \in [Files -> [text : Texts, etag : {0} \union Etags]] /\ fileinfo = 1 /\ uri \in Files
  BY <1>2 DEF Init
<1>4. clock \in 0 .. MaxClock
  BY FilesAssumption DEF Init
<1>. QED BY <1>2, <1>3, <1>4 DEF Init, Typed, TypeOK, Refused

\* What doc_save_backend hands over is a save, and it asks only about that.
LEMMA SavesTyped ==
    ASSUME Typed, NEW mode \in Modes, NEW dest \in Files, NEW close \in BOOLEAN,
           NEW d \in {"none", "close"}, Saves(mode, dest, close, d)
    PROVE  /\ save' = Null \/ save' \in Saving
           /\ UNCHANGED <<uri, close_doc, save>> \/ save' \in Saving
           /\ uri' \in Files /\ close_doc' \in BOOLEAN
           /\ dialog' \in {d, "encoding"}
           /\ dialog' = "encoding" => save' # Null /\ save'.result = "ENCODING"
<1>1. text \in Texts /\ uri \in Files /\ fileinfo \in {Null} \union Etags
      /\ (save = Null \/ save \in Saving) /\ close_doc \in BOOLEAN
  BY DEF Typed, TypeOK
<1>2. [text : {text}, dest : {dest}, mode : {mode}, close : {close}, result : {Null, "ENCODING"},
       etag : {Null, fileinfo}, unlink : {Null, uri}] \subseteq Saving
  BY <1>1 DEF Saving, Results
<1>3. (UNCHANGED <<uri, close_doc, save>> /\ dialog' = d) \/ save' \in Saving
  BY <1>2 DEF Saves
<1>4. /\ uri' \in Files /\ close_doc' \in BOOLEAN /\ dialog' \in {d, "encoding"}
      /\ dialog' = "encoding" => save = Null /\ save'.result = "ENCODING"
                                 /\ save'.text = text
  BY <1>1 DEF Saves
<1>5. dialog' = "encoding" => save' # Null
  <2>1. CASE save' \in Saving
    BY <2>1, NullIsNoSave
  <2>. QED BY <1>3, <2>1
<1>. QED BY <1>1, <1>3, <1>4, <1>5

\* A new fetch.
LEMMA FetchTyped ==
    ASSUME Typed, NEW n \in 0 .. MaxClock
    PROVE  [id |-> n, uri |-> uri, etag |-> Null, cancelled |-> FALSE] \in Fetch
BY DEF Typed, TypeOK, Fetch

\* Every action keeps the types.
LEMMA NextTyped == Typed /\ [Next]_vars => Typed'
<1>. SUFFICES ASSUME Typed, [Next]_vars PROVE Typed'
  OBVIOUS
<1>0. disk \in [Files -> [text : Texts, etag : {0} \union Etags]] /\ TypeOK /\ Refused
  BY DEF Typed
<1>1. CASE Edit
  BY <1>0, <1>1, Ticking DEF Edit, Typed, TypeOK, Refused, When, Situations
<1>2. CASE ReplaceContents
  <2>1. save \in Saving /\ save.dest \in Files /\ save.text \in Texts
    BY <1>0, <1>2 DEF ReplaceContents, TypeOK, Saving
  <2>2. save' \in Saving
    BY <1>2, <2>1 DEF ReplaceContents, Saving, Results
  <2>3. clock' \in 0 .. MaxClock
    BY <1>0, <1>2, Ticking DEF ReplaceContents, TypeOK
  <2>4. disk' \in [Files -> [text : Texts, etag : {0} \union Etags]]
    <3>1. CASE disk' = disk
      BY <1>0, <3>1
    <3>2. CASE Tick /\ disk' = [disk EXCEPT ![save.dest] = [text |-> save.text, etag |-> clock + 1]]
      BY <1>0, <2>1, <3>2, Ticking
    <3>. QED BY <1>2, <3>1, <3>2, Zenon DEF ReplaceContents
  <2>5. Refused'
    BY <1>0, <1>2, NullAssumption DEF ReplaceContents, Refused, Results
  <2>. QED BY <1>0, <1>2, <2>2, <2>3, <2>4, <2>5
              DEF ReplaceContents, Typed, TypeOK, When, Situations
<1>3. ASSUME NEW mode \in Modes, NEW f \in Files, Save(mode, f) PROVE Typed'
  <2>1. UNCHANGED <<clock, disk, unlinks, touched>> /\ save = Null /\ dialog = "none"
    BY <1>3 DEF Save, Free
  <2>2. Saves(mode, f, FALSE, dialog) /\ readonly' \in BOOLEAN
    BY <1>0, <1>3, BackendFree DEF Save, TypeOK
  <2>3. met' \subseteq Situations /\ told' \subseteq Files
    BY <1>0, <1>3 DEF Save, When, Situations, TypeOK
  <2>4. UNCHANGED <<text, modified, fileinfo, state, info, fetches>>
    BY <2>2 DEF Saves
  <2>5. /\ save' = Null \/ save' \in Saving
        /\ uri' \in Files /\ close_doc' \in BOOLEAN /\ dialog' \in {"none", "encoding"}
        /\ dialog' = "encoding" => save' # Null /\ save'.result = "ENCODING"
    BY <2>1, <2>2, SavesTyped
  <2>. QED BY <1>0, <2>1, <2>2, <2>3, <2>4, <2>5 DEF Typed, TypeOK, Refused
<1>4. CASE CheckNsaveFinished
  <2>1. save \in Saving /\ clock \in 0 .. MaxClock /\ clock' \in 0 .. MaxClock
    BY <1>0, <1>4, Ticking DEF CheckNsaveFinished, TypeOK
  <2>2. unlinks' \subseteq Files /\ UNCHANGED <<disk, told, met>> /\ touched' \in BOOLEAN
    BY <1>0, <1>4, <2>1 DEF CheckNsaveFinished, TypeOK, Saving
  <2>3. UNCHANGED <<text, uri, close_doc, readonly, dialog>> /\ save' = Null
    BY <1>4
       DEF CheckNsaveFinished, SaveFinished, doc_destroy, file_doc_fill_fileinfo, Become,
           Doc
  <2>4. /\ modified' \in BOOLEAN /\ fileinfo' \in {Null} \union Etags
        /\ state' \in {"open", "closed", "discarded"}
    BY <1>0, <1>4
       DEF CheckNsaveFinished, SaveFinished, doc_destroy, file_doc_fill_fileinfo, Become,
           Doc, TypeOK
  <2>5. fetches' \subseteq Fetch /\ info' \in {Null} \union {i.id : i \in fetches'}
    <3>. DEFINE j == [id |-> clock, uri |-> uri, etag |-> Null, cancelled |-> FALSE]
    <3>1. \/ fetches' = fetches /\ info' = info
          \/ fetches' = fetches \union {j} /\ info' = clock
      BY <1>4
         DEF CheckNsaveFinished, SaveFinished, doc_destroy, file_doc_fill_fileinfo, Become,
             Doc
    <3>2. j \in Fetch /\ j.id = clock
      BY <2>1, FetchTyped
    <3>. HIDE DEF j
    <3>. QED BY <1>0, <3>1, <3>2 DEF TypeOK
  <2>6. dialog \notin {"encoding", "overwrite"}
    BY <1>0, <1>4 DEF CheckNsaveFinished, Refused
  <2>. QED BY <1>0, <2>1, <2>2, <2>3, <2>4, <2>5, <2>6 DEF Typed, TypeOK, Refused
<1>5. CASE CheckNsaveError
  BY <1>0, <1>5 DEF CheckNsaveError, Become, Doc, Typed, TypeOK, Refused
<1>6. CASE CheckNsaveModified
  <2>1. save \in Saving /\ save # Null
    BY <1>0, <1>6 DEF CheckNsaveModified, TypeOK
  <2>2. UNCHANGED <<clock, text, modified, uri, fileinfo, state, close_doc, readonly, info,
                 fetches, disk, unlinks>> /\ met' \subseteq Situations
    BY <1>0, <1>6 DEF CheckNsaveModified, Become, Doc, When, Situations, TypeOK
  <2>3. dialog' \in {"none", "overwrite"} /\ told' \subseteq Files /\ touched' \in BOOLEAN
    BY <1>0, <1>6, <2>1 DEF CheckNsaveModified, Become, Doc, When, TypeOK, Saving
  <2>4. save' \in Saving
    <3>1. save' = save \/ save' = [save EXCEPT !.etag = Null, !.result = Null]
      BY <1>6 DEF CheckNsaveModified, Become, Doc
    <3>. QED BY <2>1, <3>1 DEF Saving
  <2>5. /\ dialog' = "overwrite" => save' = save /\ save.result = "ERROR_MODIFIED"
        /\ dialog' # "encoding"
    BY <1>6 DEF CheckNsaveModified, Become, Doc
  <2>6. Refused'
    BY <2>1, <2>5, NullAssumption DEF Refused
  <2>. QED BY <1>0, <2>2, <2>3, <2>4, <2>6 DEF Typed, TypeOK
<1>7. CASE OverwriteAnswered
  <2>2. UNCHANGED <<clock, text, modified, uri, fileinfo, state, close_doc, readonly, info,
                 fetches, disk, unlinks, met>>
    BY <1>7 DEF OverwriteAnswered, Become, Doc
  <2>3. dialog' = "none" /\ told' \subseteq Files /\ touched' \in BOOLEAN
    BY <1>0, <1>7 DEF OverwriteAnswered, Become, Doc, TypeOK
  <2>4. save' = Null \/ save' = [save EXCEPT !.etag = Null, !.result = Null]
    BY <1>7 DEF OverwriteAnswered, Become, Doc
  <2>5. save' = Null \/ save' \in Saving
    <3>1. save \in Saving
      BY <1>0, <1>7 DEF OverwriteAnswered, TypeOK, Refused
    <3>. QED BY <2>4, <3>1 DEF Saving
  <2>. QED BY <1>0, <2>2, <2>3, <2>5 DEF Typed, TypeOK, Refused
<1>8. ASSUME NEW i \in fetches, QueryInfo(i) PROVE Typed'
  <2>. DEFINE j == [i EXCEPT !.etag = disk[i.uri].etag]
  <2>1. i \in Fetch /\ i.uri \in Files
    BY <1>0 DEF TypeOK, Fetch
  <2>2. disk[i.uri].etag \in {Null} \union 0 .. MaxClock + 1
    BY <1>0, <2>1, FilesAssumption DEF Etags
  <2>3. j \in Fetch /\ j.id = i.id
    BY <2>1, <2>2 DEF Fetch
  <2>4. fetches' = (fetches \ {i}) \union {j}
    BY <1>8 DEF QueryInfo
  <2>5. fetches' \subseteq Fetch /\ {k.id : k \in fetches} \subseteq {k.id : k \in fetches'}
    <3>. HIDE DEF j
    <3>. QED BY <1>0, <2>3, <2>4 DEF TypeOK
  <2>. QED BY <1>0, <1>8, <2>5 DEF QueryInfo, docVars, Typed, TypeOK, Refused
<1>9. ASSUME NEW i \in fetches, FillFileinfo(i) PROVE Typed'
  <2>1. i \in Fetch
    BY <1>0 DEF TypeOK
  <2>2. /\ UNCHANGED <<clock, text, modified, uri, readonly, save, disk, unlinks, told>>
        /\ touched' \in BOOLEAN /\ met' \subseteq Situations
    BY <1>0, <1>9
       DEF FillFileinfo, Fetched, doc_close_single_backend, doc_destroy, Become, Doc, TypeOK,
           When, Situations
  <2>3. info' = Null /\ fetches' \subseteq fetches /\ close_doc' = close_doc
    BY <1>9 DEF FillFileinfo, Fetched, doc_close_single_backend, doc_destroy, Become, Doc
  <2>4. dialog' \in {dialog, "close"} /\ state' \in {state, "closed"}
    BY <1>9 DEF FillFileinfo, Fetched, doc_close_single_backend, doc_destroy, Become, Doc
  <2>5. fileinfo' = fileinfo \/ (fileinfo' = i.etag /\ ~i.cancelled /\ i.etag # 0)
    BY <1>9 DEF FillFileinfo, Fetched, doc_close_single_backend, doc_destroy, Become, Doc
  <2>6. fileinfo' \in {Null} \union Etags
    <3>1. i.etag \in {Null} \union 0 .. MaxClock + 1
      BY <2>1 DEF Fetch
    <3>. QED BY <1>0, <3>1, <2>5, FilesAssumption DEF TypeOK, Etags
  <2>. QED BY <1>0, <2>2, <2>3, <2>4, <2>6 DEF Typed, TypeOK, Refused
<1>10. CASE Close
  <2>1. UNCHANGED <<clock, text, modified, uri, fileinfo, readonly, save, info, disk, unlinks,
                    told, touched>>
    BY <1>10 DEF Close, doc_close_single_backend, doc_destroy, Become, Doc
  <2>2. /\ state' \in {"open", "closed"} /\ dialog' \in {"none", "close"} /\ close_doc' \in BOOLEAN
        /\ met' \subseteq Situations
    BY <1>0, <1>10
       DEF Close, Free, doc_close_single_backend, doc_destroy, Become, Doc, When,
           Situations, TypeOK
  <2>3. \/ fetches' = fetches
        \/ fetches' = {[i EXCEPT !.cancelled = @ \/ i.id = info] : i \in fetches}
    BY <1>10 DEF Close, doc_close_single_backend, doc_destroy, Become, Doc
  <2>4. \A i \in fetches : LET j == [i EXCEPT !.cancelled = @ \/ i.id = info]
                        IN  j \in Fetch /\ j.id = i.id
    BY <1>0 DEF TypeOK, Fetch
  <2>5. fetches' \subseteq Fetch /\ {k.id : k \in fetches} \subseteq {k.id : k \in fetches'}
    <3>. DEFINE J(i) == [i EXCEPT !.cancelled = @ \/ i.id = info]
    <3>1. fetches' = fetches \/ fetches' = {J(i) : i \in fetches}
      BY <2>3
    <3>2. \A i \in fetches : J(i) \in Fetch /\ J(i).id = i.id
      BY <2>4
    <3>. HIDE DEF J
    <3>. QED BY <1>0, <3>1, <3>2 DEF TypeOK
  <2>. QED BY <1>0, <2>1, <2>2, <2>5 DEF Typed, TypeOK, Refused
<1>11. CASE CloseAnswered
  <2>. DEFINE D == [Doc EXCEPT !.dialog = "none"]
  <2>1. UNCHANGED <<clock, disk, unlinks, told, met>> /\ touched' \in BOOLEAN /\ dialog = "close"
    BY <1>0, <1>11 DEF CloseAnswered, TypeOK
  <2>2. CASE Become(doc_destroy(D, "discarded")) \/ Become(D)
    <3>1. /\ UNCHANGED <<text, modified, uri, fileinfo, close_doc, readonly, save, info, fetches>>
          /\ state' \in {state, "discarded"} /\ dialog' = "none"
      BY <2>2 DEF doc_destroy, Become, Doc
    <3>. QED BY <1>0, <2>1, <3>1 DEF Typed, TypeOK, Refused
  <2>3. ASSUME NEW converts \in BOOLEAN,
               Become(doc_save_backend(D, "normal", uri, TRUE, converts))
        PROVE  Typed'
    <3>1. Saves("normal", uri, TRUE, "none") /\ readonly' \in BOOLEAN
      BY <1>0, <2>3, Backend DEF Modes, TypeOK
    <3>2. UNCHANGED <<text, modified, fileinfo, state, info, fetches>>
      BY <3>1 DEF Saves
    <3>3. /\ save' = Null \/ save' \in Saving
          /\ uri' \in Files /\ close_doc' \in BOOLEAN /\ dialog' \in {"none", "encoding"}
          /\ dialog' = "encoding" => save' # Null /\ save'.result = "ENCODING"
      BY <1>0, <3>1, SavesTyped DEF Modes, TypeOK
    <3>. QED BY <1>0, <2>1, <3>1, <3>2, <3>3 DEF Typed, TypeOK, Refused
  <2>4. D.uri = uri
    BY DEF Doc
  <2>. QED BY <1>11, <2>2, <2>3, <2>4 DEF CloseAnswered
<1>12. ASSUME NEW f \in Files, Unlink(f) PROVE Typed'
  <2>1. disk' \in [Files -> [text : Texts, etag : {0} \union Etags]]
    BY <1>0, <1>12 DEF Unlink, Texts
  <2>. QED BY <1>0, <1>12, <2>1 DEF Unlink, docVars, Typed, TypeOK, Refused
<1>13. ASSUME NEW f \in Files, AnotherWrites(f) PROVE Typed'
  <2>1. disk' \in [Files -> [text : Texts, etag : {0} \union Etags]] /\ clock' \in 0 .. MaxClock
    BY <1>0, <1>13, Ticking DEF AnotherWrites
  <2>2. met' \subseteq Situations
    BY <1>0, <1>13 DEF AnotherWrites, When, Situations, TypeOK
  <2>. QED BY <1>0, <1>13, <2>1, <2>2 DEF AnotherWrites, docVars, Typed, TypeOK, Refused
<1>14. CASE UNCHANGED vars
  BY <1>14 DEF vars, Typed, TypeOK, Refused
<1>15. CASE EncodingAnswered
  <2>1. save \in Saving
    BY <1>0, <1>15 DEF EncodingAnswered, TypeOK, Refused
  <2>2. /\ UNCHANGED <<uri, fileinfo, state, info, fetches, disk, unlinks, told>>
        /\ dialog' = "none" /\ touched' \in BOOLEAN /\ (Aborted \/ Continued)
    BY <1>0, <1>15, <2>1, EncodingStep DEF TypeOK
  <2>3. CASE Aborted
    <3>1. met' \subseteq Situations
      BY <1>0, <2>3 DEF Aborted, TypeOK, When, Situations
    <3>. QED BY <1>0, <2>2, <2>3, <3>1 DEF Aborted, Typed, TypeOK, Refused
  <2>4. CASE Continued
    <3>1. /\ save' \in Saving /\ close_doc' \in BOOLEAN /\ readonly' \in BOOLEAN
          /\ met' \subseteq Situations
      BY <1>0, <2>1, <2>4 DEF Continued, TypeOK, Saving, Situations
    <3>2. clock' \in 0 .. MaxClock /\ text' \in Texts /\ modified' \in BOOLEAN
      BY <1>0, <2>4, Ticking DEF Continued, TypeOK
    <3>. QED BY <1>0, <2>2, <3>1, <3>2 DEF Typed, TypeOK, Refused
  <2>. QED BY <2>2, <2>3, <2>4
<1>. QED BY <1>1, <1>2, <1>3, <1>4, <1>5, <1>6, <1>7, <1>8, <1>9, <1>10, <1>11, <1>12, <1>13,
            <1>14, <1>15
            DEF Next

\* None of what the code does not see to.
Unhindered ==
    Unmet({"edit while saving", "close while saving", "save as fails", "saved empty",
           "close while asked", "move back"})

\* A save writes the text as it is, to where no pending deletion reaches; only a normal save
\* is refused, fails, or closes the document when it is done.  A save that has not begun
\* has the question about the encoding open.
Writing ==
    save # Null =>
        /\ save.text = text
        /\ save.dest \notin unlinks
        /\ save.dest = uri <=> save.mode # "copy"
        /\ save.unlink # Null => save.unlink # uri
        /\ \/ save.etag # Null \/ save.result = "ERROR_MODIFIED" \/ save.close
           \/ close_doc /\ save.result # "ENCODING"
           => save.mode = "normal"
        /\ save.result = "ENCODING" => dialog = "encoding"
        /\ save.result = "ERROR" => save.mode \in {"normal", "copy"}
        /\ save.result = "FINISHED" =>
               disk[save.dest].text = text \/ disk[save.dest].text.by = "another"

\* What is shown as unmodified is in its file, if it is not on its way to another one.
Kept ==
    /\ uri \notin unlinks
    /\ ~modified /\ (save = Null \/ save.mode \in {"normal", "copy"}) => InFile
    /\ state = "closed" => InFile

KInv == Typed /\ (Unhindered => Writing /\ Kept)

\* The text of a document that was just opened is in its file.
LEMMA InitKInv == Init => KInv
BY InitTyped DEF Init, KInv, Writing, Kept, InFile

\* Every action keeps the text in the file or on its way.
LEMMA NextKInv == KInv /\ [Next]_vars => KInv'
<1>. SUFFICES ASSUME KInv, [Next]_vars, Unhindered'
              PROVE  Writing' /\ Kept'
  BY NextTyped DEF KInv
<1>0. /\ Typed /\ Typed' /\ Writing /\ Kept
      /\ (save = Null \/ save \in Saving) /\ uri \in Files
      /\ disk \in [Files -> [text : Texts, etag : {0} \union Etags]]
  BY MetGrows, NextTyped DEF KInv, Unhindered, Unmet, Typed, TypeOK
<1>1. CASE Edit
  <2>1. save = Null
    BY <1>1 DEF Edit, When, Unhindered, Unmet
  <2>. QED BY <1>0, <1>1, <2>1 DEF Edit, Free, Writing, Kept
<1>2. CASE ReplaceContents
  <2>1. /\ UNCHANGED <<text, uri, modified, state, close_doc, unlinks>>
        /\ save # Null /\ save.result = Null /\ save \in Saving /\ save.dest \in Files
    BY <1>0, <1>2 DEF ReplaceContents, Saving
  <2>2. CASE save.etag # Null /\ save' = [save EXCEPT !.result = "ERROR_MODIFIED"] /\ disk' = disk
    <3>1. /\ save'.text = save.text /\ save'.dest = save.dest /\ save'.mode = save.mode
          /\ save'.etag = save.etag /\ save'.unlink = save.unlink /\ save'.result = "ERROR_MODIFIED"
      BY <2>1, <2>2 DEF Saving
    <3>. QED BY <1>0, <2>1, <2>2, <3>1 DEF Writing, Kept, InFile
  <2>3. CASE /\ save' = [save EXCEPT !.result = "FINISHED"]
             /\ disk' = [disk EXCEPT ![save.dest] = [text |-> save.text, etag |-> clock + 1]]
    <3>1. /\ save'.text = save.text /\ save'.dest = save.dest /\ save'.mode = save.mode
          /\ save'.etag = save.etag /\ save'.unlink = save.unlink /\ save'.result = "FINISHED"
      BY <2>1, <2>3 DEF Saving
    <3>2. /\ disk'[save.dest].text = save.text
          /\ \A f \in Files \ {save.dest} : disk'[f] = disk[f]
      BY <1>0, <2>1, <2>3
    <3>3. Writing'
      <4>1. save.result \notin Results
        BY <2>1, NullAssumption
      <4>2. /\ save.text = text /\ save.dest \notin unlinks
            /\ save.dest = uri <=> save.mode # "copy"
            /\ save.unlink # Null => save.unlink # uri
            /\ save.etag # Null \/ save.close \/ close_doc => save.mode = "normal"
        BY <1>0, <2>1, <4>1 DEF Writing, Results
      <4>3. /\ save'.text = text' /\ save'.dest \notin unlinks'
            /\ save'.dest = uri' <=> save'.mode # "copy"
            /\ save'.unlink # Null => save'.unlink # uri'
            /\ save'.etag # Null \/ save'.close \/ close_doc' => save'.mode = "normal"
            /\ disk'[save'.dest].text = text'
        <5>1. save'.close = save.close
          BY <2>1, <2>3 DEF Saving
        <5>. QED BY <2>1, <3>1, <3>2, <4>2, <5>1
      <4>. QED BY <3>1, <4>3 DEF Writing
    <3>4. Kept'
      BY <1>0, <2>1, <3>1, <3>2 DEF Writing, Kept, InFile
    <3>. QED BY <3>3, <3>4
  <2>4. CASE /\ save.mode \notin {"saveas", "move"}
             /\ save' = [save EXCEPT !.result = "ERROR"] /\ disk' = disk
    <3>1. /\ save'.text = save.text /\ save'.dest = save.dest /\ save'.mode = save.mode
          /\ save'.etag = save.etag /\ save'.unlink = save.unlink /\ save'.result = "ERROR"
      BY <2>1, <2>4 DEF Saving
    <3>2. save.mode \in {"normal", "copy"}
      BY <2>1, <2>4 DEF Saving, Modes
    <3>. QED BY <1>0, <2>1, <2>4, <3>1, <3>2, NullAssumption DEF Writing, Kept, InFile, Results
  <2>. QED BY <1>2, <2>2, <2>3, <2>4 DEF ReplaceContents, When, Unhindered, Unmet
<1>3. ASSUME NEW mode \in Modes, NEW f \in Files, Save(mode, f) PROVE Writing' /\ Kept'
  <2>1. /\ UNCHANGED <<disk, unlinks>> /\ save = Null /\ f \notin unlinks
        /\ state = "open" /\ (mode = "normal" <=> f = uri)
    BY <1>3 DEF Save, Free, When, Unhindered, Unmet
  <2>2. Saves(mode, f, FALSE, dialog) /\ UNCHANGED <<text, modified, state>>
    BY <1>3, BackendFree DEF Save, Saves
  <2>3. CASE UNCHANGED <<uri, close_doc, save>>
    BY <1>0, <2>1, <2>2, <2>3 DEF Writing, Kept, InFile
  <2>4. CASE ~UNCHANGED <<uri, close_doc, save>>
    <3>1. /\ save'.text = text /\ save'.dest = f /\ save'.mode = mode /\ save'.close = FALSE
          /\ save'.etag # Null => mode = "normal"
          /\ save'.unlink # Null => mode = "move" /\ save'.unlink = uri
          /\ uri' = (IF mode \in {"saveas", "move"} THEN f ELSE uri)
          /\ \/ save'.result = Null /\ close_doc' = FALSE
             \/ save'.result = "ENCODING" /\ dialog' = "encoding"
      BY <2>2, <2>4 DEF Saves
    <3>2. /\ uri' = f <=> mode # "copy"
          /\ uri' = f \/ uri' = uri
          /\ mode \in {"normal", "copy"} => uri' = uri
      BY <1>0, <2>1, <3>1 DEF Modes
    <3>3. Writing'
      BY <2>1, <2>2, <3>1, <3>2, NullAssumption DEF Writing, Results
    <3>4. save' # Null
      <4>1. dialog = "none"
        BY <1>3 DEF Save, Free
      <4>. QED BY <1>0, <2>2, <2>4, <4>1, SavesTyped, NullIsNoSave
    <3>5. Kept'
      BY <1>0, <2>1, <2>2, <3>1, <3>2, <3>4 DEF Kept, InFile
    <3>. QED BY <3>3, <3>5
  <2>. QED BY <2>3, <2>4
<1>4. CASE CheckNsaveFinished
  <2>1. /\ UNCHANGED <<text, uri, disk, close_doc>> /\ save' = Null
        /\ save # Null /\ save.result = "FINISHED" /\ save \in Saving
        /\ unlinks' = unlinks \union ({save.unlink} \ {Null})
    BY <1>0, <1>4
       DEF CheckNsaveFinished, SaveFinished, doc_destroy, file_doc_fill_fileinfo, Become,
           Doc
  <2>2. CASE save.mode = "copy"
    <3>1. UNCHANGED <<modified, state>>
      BY <1>0, <1>4, <2>1, <2>2 DEF CheckNsaveFinished, SaveFinished, Become, Doc, Writing
    <3>. QED BY <1>0, <2>1, <2>2, <3>1 DEF Writing, Kept, InFile
  <2>3. CASE save.mode # "copy"
    <3>1. InFile'
      BY <1>0, <2>1, <2>3 DEF Writing, InFile
    <3>. QED BY <1>0, <2>1, <3>1 DEF Writing, Kept
  <2>. QED BY <2>2, <2>3
<1>5. CASE CheckNsaveError
  <2>1. /\ UNCHANGED <<text, modified, uri, disk, state, unlinks>> /\ save' = Null
        /\ save # Null /\ save.result = "ERROR"
    BY <1>5 DEF CheckNsaveError, Become, Doc
  <2>. QED BY <1>0, <2>1 DEF Writing, Kept, InFile
<1>6. CASE CheckNsaveModified
  <2>1. /\ UNCHANGED <<text, modified, uri, disk, state, unlinks, close_doc>>
        /\ save # Null /\ save.result = "ERROR_MODIFIED" /\ save \in Saving
    BY <1>0, <1>6 DEF CheckNsaveModified, Become, Doc
  <2>2. save' = save \/ save' = [save EXCEPT !.etag = Null, !.result = Null]
    BY <1>6 DEF CheckNsaveModified, Become, Doc
  <2>3. /\ save'.text = save.text /\ save'.dest = save.dest /\ save'.mode = save.mode
        /\ save'.unlink = save.unlink /\ save'.result \in {save.result, Null}
    BY <2>1, <2>2 DEF Saving
  <2>. QED BY <1>0, <2>1, <2>3, NullAssumption DEF Writing, Kept, InFile, Results
<1>7. CASE OverwriteAnswered
  <2>1. /\ UNCHANGED <<text, modified, uri, disk, state, unlinks, close_doc>>
        /\ save # Null /\ save.result = "ERROR_MODIFIED" /\ save \in Saving
    BY <1>0, <1>7 DEF OverwriteAnswered, Become, Doc, Typed, Refused
  <2>2. save' = Null \/ save' = [save EXCEPT !.etag = Null, !.result = Null]
    BY <1>7 DEF OverwriteAnswered, Become, Doc
  <2>3. \/ save' = Null
        \/ /\ save'.text = save.text /\ save'.dest = save.dest /\ save'.mode = save.mode
           /\ save'.unlink = save.unlink /\ save'.result = Null
    BY <2>1, <2>2 DEF Saving
  <2>. QED BY <1>0, <2>1, <2>3, NullAssumption DEF Writing, Kept, InFile, Results
<1>8. ASSUME NEW i \in fetches, QueryInfo(i) PROVE Writing' /\ Kept'
  BY <1>0, <1>8 DEF QueryInfo, docVars, Writing, Kept, InFile
<1>9. ASSUME NEW i \in fetches, FillFileinfo(i) PROVE Writing' /\ Kept'
  <2>1. UNCHANGED <<text, modified, uri, save, disk, unlinks, close_doc>>
    BY <1>9 DEF FillFileinfo, Fetched, doc_close_single_backend, doc_destroy, Become, Doc
  <2>2. \/ state' = state
        \/ state' = "closed" /\ close_doc /\ ~modified /\ dialog # "encoding"
    BY <1>9
       DEF FillFileinfo, Fetched, doc_close_single_backend, doc_destroy, Become, Doc, When,
           Unhindered, Unmet
  <2>3. dialog = "encoding" => dialog' = "encoding"
    BY <1>9 DEF FillFileinfo, Fetched, doc_close_single_backend, doc_destroy, Become, Doc
  <2>. QED BY <1>0, <2>1, <2>2, <2>3 DEF Writing, Kept, InFile
<1>10. CASE Close
  <2>1. UNCHANGED <<text, modified, uri, disk, unlinks>> /\ save = Null /\ save' = Null
    BY <1>10
       DEF Close, When, Unhindered, Unmet, doc_close_single_backend, doc_destroy, Become,
           Doc
  <2>2. state' = state \/ (state' = "closed" /\ ~modified)
    BY <1>10 DEF Close, doc_close_single_backend, doc_destroy, Become, Doc
  <2>. QED BY <1>0, <2>1, <2>2 DEF Writing, Kept, InFile
<1>11. CASE CloseAnswered
  <2>. DEFINE D == [Doc EXCEPT !.dialog = "none"]
  <2>1. UNCHANGED <<disk, unlinks>> /\ dialog = "close"
    BY <1>11 DEF CloseAnswered
  <2>2. CASE Become(doc_destroy(D, "discarded")) \/ Become(D)
    <3>1. UNCHANGED <<text, modified, uri, close_doc, save>> /\ state' \in {state, "discarded"}
      BY <2>2 DEF doc_destroy, Become, Doc
    <3>. QED BY <1>0, <2>1, <3>1 DEF Writing, Kept, InFile
  <2>3. ASSUME NEW converts \in BOOLEAN,
               Become(doc_save_backend(D, "normal", uri, TRUE, converts))
        PROVE  Writing' /\ Kept'
    <3>1. Saves("normal", uri, TRUE, "none") /\ UNCHANGED <<text, modified, uri, state>>
      BY <2>3, Backend DEF Modes, Saves
    <3>2. CASE UNCHANGED <<close_doc, save>>
      BY <1>0, <2>1, <3>1, <3>2 DEF Writing, Kept, InFile
    <3>3. CASE ~UNCHANGED <<close_doc, save>>
      <4>1. /\ save = Null /\ save'.text = text /\ save'.dest = uri /\ save'.mode = "normal"
            /\ save'.unlink = Null
            /\ save'.result = Null \/ (save'.result = "ENCODING" /\ dialog' = "encoding")
        BY <3>1, <3>3 DEF Saves
      <4>. QED BY <1>0, <2>1, <3>1, <4>1, NullAssumption DEF Writing, Kept, InFile, Results
    <3>. QED BY <3>2, <3>3
  <2>4. D.uri = uri
    BY DEF Doc
  <2>. QED BY <1>11, <2>2, <2>3, <2>4 DEF CloseAnswered
<1>12. ASSUME NEW f \in Files, Unlink(f) PROVE Writing' /\ Kept'
  <2>1. /\ f \in unlinks /\ unlinks' = unlinks \ {f}
        /\ \A g \in Files : g # f => disk'[g] = disk[g]
        /\ UNCHANGED <<text, modified, uri, save, state, close_doc, dialog>>
    BY <1>0, <1>12 DEF Unlink, docVars
  <2>2. save # Null => save.dest \in Files
    BY <1>0 DEF Saving
  <2>. QED BY <1>0, <2>1, <2>2 DEF Writing, Kept, InFile
<1>13. ASSUME NEW f \in Files, AnotherWrites(f) PROVE Writing' /\ Kept'
  <2>1. /\ \A g \in Files : disk'[g] = disk[g] \/ disk'[g].text.by = "another"
        /\ UNCHANGED <<text, modified, uri, save, state, close_doc, dialog, unlinks>>
    BY <1>0, <1>13 DEF AnotherWrites, docVars, Others
  <2>2. save # Null => save.dest \in Files
    BY <1>0 DEF Saving
  <2>. QED BY <1>0, <2>1, <2>2 DEF Writing, Kept, InFile
<1>14. CASE UNCHANGED vars
  BY <1>0, <1>14 DEF vars, Writing, Kept, InFile
<1>15. CASE EncodingAnswered
  <2>1. save \in Saving /\ save # Null
    BY <1>0, <1>15 DEF EncodingAnswered, Typed, Refused
  <2>2. UNCHANGED <<uri, state, disk, unlinks>> /\ (Aborted \/ Continued)
    BY <1>15, <2>1, EncodingStep
  <2>3. ~Continued
    BY DEF Continued, Unhindered, Unmet
  <2>4. UNCHANGED <<text, modified>> /\ save' = Null /\ save.mode \notin {"saveas", "move"}
    BY <2>2, <2>3 DEF Aborted, When, Unhindered, Unmet
  <2>5. save.mode \in {"normal", "copy"}
    BY <2>1, <2>4 DEF Saving, Modes
  <2>. QED BY <1>0, <2>1, <2>2, <2>4, <2>5 DEF Writing, Kept, InFile
<1>. QED BY <1>1, <1>2, <1>3, <1>4, <1>5, <1>6, <1>7, <1>8, <1>9, <1>10, <1>11, <1>12, <1>13,
            <1>14, <1>15
            DEF Next

\* A document that is shown as unmodified or was closed has its text in its file
\* (doc_save_backend, doc_checkNsave_lcb, doc_close_single_backend, file_delete_async).
THEOREM SpecNothingLost == Spec => []NothingLost
<1>1. KInv => NothingLost
  BY DEF KInv, Typed, NothingLost, TextKept, Unhindered, Kept
<1>. QED BY InitKInv, NextKInv, <1>1, PTL DEF Spec

-----------------------------------------------------------------------------

\* Nobody wrote while nothing looked, every query succeeded and no stale document was moved.
Noticed ==
    check_for_modified_on_disk
    /\ Unmet({"another writes unnoticed", "query fails", "move stale"})
Foreign(f) == disk[f].text.by = "another"

\* Etags grow with the clock, and no two files share one.
Times ==
    /\ \A f \in Files : disk[f].etag <= clock
    /\ \A f, g \in Files : disk[f].etag = disk[g].etag /\ disk[f].etag # 0 => f = g
    /\ \A i \in fetches : i.etag # Null => i.etag <= clock
    /\ fileinfo # Null => fileinfo <= clock
    /\ save # Null /\ save.etag # Null => save.etag <= clock

\* What another program wrote has an etag that the document never had, is not about to be
\* deleted, and where nothing compares etags the user was told.
Looks ==
    /\ \A f \in Files : Foreign(f) =>
           disk[f].etag # 0 /\ disk[f].etag # fileinfo /\ f \notin unlinks
    /\ fileinfo = Null /\ Foreign(uri) => uri \in told
    /\ \A i \in fetches :
           ~Foreign(i.uri) /\ \A f \in Files : Foreign(f) => disk[f].etag # i.etag

SaveLooks ==
    save # Null =>
        /\ save.text.by # "another"
        /\ save.mode # "copy" => save.dest = uri
        /\ save.unlink # Null => save.etag = Null
        /\ save.etag # Null \/ save.result = "ERROR_MODIFIED" => fileinfo # Null
        /\ \A f \in Files : Foreign(f) =>
               disk[f].etag # save.etag /\ f \notin {save.unlink} \ {Null}
        /\ (save.etag = Null \/ dialog = "overwrite") /\ Foreign(save.dest) => save.dest \in told
        /\ save.result = "FINISHED" => ~Foreign(save.dest)

TInv == Typed /\ (Noticed => Times /\ text.by # "another" /\ Looks /\ SaveLooks)

\* A file that was just opened has been looked at.
LEMMA InitTInv == Init => TInv
<1>. SUFFICES ASSUME Init PROVE TInv
  OBVIOUS
<1>1. /\ \A f \in Files : ~Foreign(f)
      /\ fileinfo = 1 /\ clock = 1
      /\ \A f \in Files : disk[f].etag = (IF f = uri THEN 1 ELSE 0)
      /\ save = Null /\ fetches = {} /\ text.by = "us"
  BY DEF Init, Foreign, Ours, NoText
<1>2. 1 # Null
  BY NullAssumption
<1>3. uri \in Files
  BY DEF Init
<1>. QED BY <1>1, <1>2, <1>3, InitTyped DEF TInv, Times, Looks, SaveLooks

\* Every action keeps it so.
LEMMA NextTInv == TInv /\ [Next]_vars => TInv'
<1>. SUFFICES ASSUME TInv, [Next]_vars, Noticed'
              PROVE  Times' /\ (text.by # "another")' /\ Looks' /\ SaveLooks'
  BY NextTyped DEF TInv
<1>0. /\ Typed /\ Typed' /\ Times /\ text.by # "another" /\ Looks /\ SaveLooks
      /\ (save = Null \/ save \in Saving) /\ uri \in Files /\ fetches \subseteq Fetch
      /\ disk \in [Files -> [text : Texts, etag : {0} \union Etags]]
  BY MetGrows, NextTyped DEF TInv, Noticed, Unmet, Typed, TypeOK
<1>c. /\ clock \in Nat /\ Null \notin Nat /\ clock + 1 # Null
      /\ fileinfo # Null => fileinfo \in Nat
      /\ save # Null /\ save.etag # Null => save.etag \in Nat
      /\ \A f \in Files : disk[f].etag \in Nat
      /\ \A i \in fetches : i.etag # Null => i.etag \in Nat
  BY <1>0, NullAssumption, FilesAssumption DEF Typed, TypeOK, Saving, Fetch, Etags
<1>d. save # Null => save.dest \in Files
  BY <1>0 DEF Saving
<1>k. Tick => clock' = clock + 1
  BY DEF Tick
<1>1. CASE Edit
  <2>1. /\ UNCHANGED <<uri, fileinfo, save, fetches, dialog, disk, unlinks, told>>
        /\ text'.by # "another" /\ clock' = clock + 1
    BY <1>1, <1>k DEF Edit, Ours
  <2>2. Times'
    BY <1>0, <1>c, <2>1 DEF Times
  <2>. QED BY <1>0, <2>1, <2>2 DEF Looks, SaveLooks, Foreign
<1>2. CASE ReplaceContents
  <2>1. /\ UNCHANGED <<text, uri, fileinfo, unlinks, fetches, dialog>>
        /\ save # Null /\ save.result = Null /\ save \in Saving /\ save.dest \in Files
    BY <1>0, <1>2 DEF ReplaceContents, Saving
  <2>2. ASSUME NEW r, save' = [save EXCEPT !.result = r]
        PROVE  /\ save'.text = save.text /\ save'.dest = save.dest /\ save'.mode = save.mode
               /\ save'.etag = save.etag /\ save'.unlink = save.unlink /\ save'.result = r
    BY <2>1, <2>2 DEF Saving
  <2>3. CASE /\ save.etag # Null /\ save' = [save EXCEPT !.result = "ERROR_MODIFIED"]
             /\ UNCHANGED <<clock, disk, told>>
    BY <1>0, <2>1, <2>2, <2>3 DEF Times, Looks, SaveLooks, Foreign
  <2>4. CASE /\ Tick /\ save' = [save EXCEPT !.result = "FINISHED"]
             /\ disk' = [disk EXCEPT ![save.dest] = [text |-> save.text, etag |-> clock + 1]]
             /\ told' = told \ {save.dest}
    <3>1. /\ ~Foreign(save.dest)'
          /\ \A f \in Files : f # save.dest =>
                 disk'[f].etag = disk[f].etag /\ (Foreign(f)' <=> Foreign(f))
      BY <1>0, <2>1, <2>4 DEF Foreign, SaveLooks
    <3>2. \A f \in Files : Foreign(f)' =>
              /\ Foreign(f) /\ f # save.dest /\ disk'[f].etag = disk[f].etag
              /\ f \in told' <=> f \in told
      BY <3>1, <2>4
    <3>3. Times'
      <4>1. disk'[save.dest].etag = clock + 1 /\ clock' = clock + 1
        BY <1>0, <1>k, <2>1, <2>4
      <4>2. UNCHANGED <<fileinfo, fetches>> /\ save' # Null => save'.etag = save.etag
        BY <2>1, <2>2, <2>4
      <4>. QED BY <1>0, <1>c, <2>1, <3>1, <4>1, <4>2 DEF Times
    <3>a. Looks'
      BY <1>0, <2>1, <2>2, <2>4, <3>1, <3>2 DEF Looks, Fetch
    <3>4. SaveLooks'
      BY <1>0, <2>1, <2>2, <2>4, <3>1, <3>2 DEF SaveLooks
    <3>. QED BY <1>0, <2>1, <3>3, <3>a, <3>4
  <2>5. CASE save' = [save EXCEPT !.result = "ERROR"] /\ UNCHANGED <<clock, disk, told>>
    BY <1>0, <2>1, <2>2, <2>5 DEF Times, Looks, SaveLooks, Foreign
  <2>. QED BY <1>2, <2>3, <2>4, <2>5 DEF ReplaceContents
<1>3. ASSUME NEW mode \in Modes, NEW g \in Files, Save(mode, g)
      PROVE  Times' /\ (text.by # "another")' /\ Looks' /\ SaveLooks'
  <2>1. /\ UNCHANGED <<clock, disk, unlinks>>
        /\ save = Null /\ (mode = "normal" <=> g = uri) /\ dialog = "none"
        /\ mode = "move" => ~Foreign(uri)
        /\ told \subseteq told' /\ (mode # "normal" /\ Foreign(g) => g \in told')
    BY <1>3 DEF Save, Free, When, Noticed, Unmet, Foreign
  <2>2. Saves(mode, g, FALSE, dialog) /\ UNCHANGED <<text, fileinfo, fetches>>
    BY <1>3, BackendFree DEF Save, Saves
  <2>5. \A f \in Files : Foreign(f)' <=> Foreign(f)
    BY <2>1 DEF Foreign
  <2>3. CASE UNCHANGED <<uri, close_doc, save>>
    BY <1>0, <2>1, <2>2, <2>3, <2>5 DEF Times, Looks, SaveLooks, Fetch
  <2>4. CASE ~UNCHANGED <<uri, close_doc, save>>
    <3>1. /\ save'.text = text /\ save'.dest = g /\ save'.mode = mode
          /\ save'.result \in {Null, "ENCODING"}
          /\ save'.etag = Null \/ (mode = "normal" /\ save'.etag = fileinfo)
          /\ mode = "normal" => save'.etag = fileinfo
          /\ save'.unlink = (IF mode = "move" THEN uri ELSE Null)
          /\ uri' = (IF mode \in {"saveas", "move"} THEN g ELSE uri)
          /\ dialog' \in {"none", "encoding"}
      BY <2>1, <2>2, <2>4 DEF Saves, Noticed
    <3>2. (uri' = g /\ mode # "copy") \/ (uri' = uri /\ mode \in {"normal", "copy"})
      BY <3>1 DEF Modes
    <3>3. Times' /\ Looks'
      BY <1>0, <2>1, <2>2, <2>5, <3>1, <3>2 DEF Times, Looks, Fetch
    <3>4. SaveLooks'
      BY <1>0, <1>c, <2>1, <2>2, <2>5, <3>1, <3>2, NullAssumption DEF SaveLooks, Looks, Results
    <3>. QED BY <1>0, <2>2, <3>3, <3>4
  <2>. QED BY <2>3, <2>4
<1>4. CASE CheckNsaveFinished
  <2>1. /\ UNCHANGED <<text, uri, disk, dialog, told>> /\ save' = Null /\ Tick
        /\ save # Null /\ save.result = "FINISHED" /\ save \in Saving
        /\ unlinks' = unlinks \union ({save.unlink} \ {Null})
    BY <1>0, <1>4
       DEF CheckNsaveFinished, SaveFinished, doc_destroy, file_doc_fill_fileinfo, Become,
           Doc
  <2>2. \/ fileinfo' = fileinfo /\ fetches' = fetches
        \/ /\ save.mode # "copy" /\ fileinfo' = Null
           /\ fetches' = fetches \union
                  {[id |-> clock, uri |-> uri, etag |-> Null, cancelled |-> FALSE]}
    BY <1>4
       DEF CheckNsaveFinished, SaveFinished, doc_destroy, file_doc_fill_fileinfo, Become,
           Doc
  <2>3. \A f \in Files : Foreign(f)' <=> Foreign(f)
    BY <2>1 DEF Foreign
  <2>4. save.mode # "copy" => ~Foreign(uri)
    BY <1>0, <2>1 DEF SaveLooks
  <2>5. \A f \in Files : Foreign(f) => disk[f].etag # Null /\ f \notin {save.unlink} \ {Null}
    BY <1>0, <1>c, <2>1 DEF SaveLooks
  <2>6. Looks'
    BY <1>0, <2>1, <2>2, <2>3, <2>4, <2>5 DEF Looks, Fetch
  <2>. QED BY <1>0, <1>c, <1>k, <2>1, <2>2, <2>6 DEF Times, SaveLooks
<1>5. CASE CheckNsaveError
  BY <1>0, <1>5 DEF CheckNsaveError, Become, Doc, Times, Looks, SaveLooks, Foreign
<1>6. CASE CheckNsaveModified
  <2>1. /\ UNCHANGED <<clock, text, uri, fileinfo, fetches, disk, unlinks>>
        /\ save # Null /\ save.result = "ERROR_MODIFIED" /\ save \in Saving /\ dialog = "none"
        /\ told \subseteq told'
    BY <1>0, <1>6 DEF CheckNsaveModified, Become, Doc
  <2>2. \/ /\ disk[save.dest].etag = 0 /\ save' = [save EXCEPT !.etag = Null, !.result = Null]
           /\ dialog' = dialog
        \/ save' = save /\ (Foreign(save.dest) => save.dest \in told')
    BY <1>6 DEF CheckNsaveModified, Become, Doc, When, Foreign, Noticed, Unmet
  <2>3. /\ save'.text = save.text /\ save'.dest = save.dest /\ save'.mode = save.mode
        /\ save'.unlink = save.unlink
        /\ \/ /\ disk[save.dest].etag = 0 /\ save'.etag = Null /\ save'.result = Null
           \/ /\ save'.etag = save.etag /\ save'.result = save.result
              /\ Foreign(save.dest) => save.dest \in told'
    BY <2>1, <2>2 DEF Saving
  <2>4. (\A f \in Files : Foreign(f)' <=> Foreign(f)) /\ save.dest \in Files
    BY <2>1 DEF Foreign, Saving
  <2>5. Times' /\ Looks'
    BY <1>0, <2>1, <2>3, <2>4 DEF Times, Looks, Fetch
  <2>6. SaveLooks'
    BY <1>0, <1>c, <2>1, <2>3, <2>4, NullAssumption DEF SaveLooks, Looks, Results
  <2>. QED BY <1>0, <2>1, <2>5, <2>6
<1>7. CASE OverwriteAnswered
  <2>1. /\ UNCHANGED <<clock, text, uri, fileinfo, fetches, disk, unlinks>>
        /\ save # Null /\ save.result = "ERROR_MODIFIED" /\ save \in Saving
        /\ dialog = "overwrite" /\ dialog' = "none"
    BY <1>0, <1>7 DEF OverwriteAnswered, Become, Doc, Typed, Refused
  <2>2. \/ save' = Null
        \/ save' = [save EXCEPT !.etag = Null, !.result = Null] /\ told' = told
    BY <1>7 DEF OverwriteAnswered, Become, Doc
  <2>3. \/ save' = Null
        \/ /\ save'.text = save.text /\ save'.dest = save.dest /\ save'.mode = save.mode
           /\ save'.unlink = save.unlink /\ save'.etag = Null /\ save'.result = Null
           /\ told' = told
    BY <2>1, <2>2 DEF Saving
  <2>4. (\A f \in Files : Foreign(f)' <=> Foreign(f)) /\ save.dest \in Files
    BY <2>1 DEF Foreign, Saving
  <2>5. Times' /\ Looks'
    BY <1>0, <2>1, <2>3, <2>4 DEF Times, Looks, SaveLooks, Fetch
  <2>6. SaveLooks'
    BY <1>0, <1>c, <2>1, <2>3, <2>4, NullAssumption DEF SaveLooks, Results
  <2>. QED BY <1>0, <2>1, <2>5, <2>6
<1>8. ASSUME NEW i \in fetches, QueryInfo(i)
      PROVE  Times' /\ (text.by # "another")' /\ Looks' /\ SaveLooks'
  <2>. DEFINE j == [i EXCEPT !.etag = disk[i.uri].etag]
  <2>1. i \in Fetch /\ j.uri = i.uri /\ j.etag = disk[i.uri].etag /\ i.uri \in Files
    BY <1>0 DEF Fetch
  <2>2. /\ fetches' = (fetches \ {i}) \union {j}
        /\ UNCHANGED <<clock, text, uri, fileinfo, save, dialog, disk, unlinks, told>>
    BY <1>8 DEF QueryInfo, docVars
  <2>3. \A f \in Files : Foreign(f) => disk[f].etag # j.etag
    <3>1. ~Foreign(i.uri)
      BY <1>0 DEF Looks
    <3>2. \A f \in Files : Foreign(f) => f # i.uri /\ disk[f].etag # 0
      BY <1>0, <3>1 DEF Looks
    <3>. QED BY <1>0, <2>1, <3>2 DEF Times
  <2>5. j.etag \in Nat /\ j.etag <= clock
    BY <1>0, <1>c, <2>1 DEF Times
  <2>. HIDE DEF j
  <2>4. Looks' /\ Times'
    BY <1>0, <2>1, <2>2, <2>3, <2>5 DEF Looks, Times, Foreign
  <2>. QED BY <1>0, <2>2, <2>4 DEF SaveLooks, Foreign
<1>9. ASSUME NEW i \in fetches, FillFileinfo(i)
      PROVE  Times' /\ (text.by # "another")' /\ Looks' /\ SaveLooks'
  <2>1. /\ UNCHANGED <<clock, text, uri, save, disk, unlinks, told>> /\ fetches' \subseteq fetches
    BY <1>9 DEF FillFileinfo, Fetched, doc_close_single_backend, doc_destroy, Become, Doc
  <2>2. dialog' = "close" \/ dialog' = dialog
    BY <1>9 DEF FillFileinfo, Fetched, doc_close_single_backend, doc_destroy, Become, Doc
  <2>3. fileinfo' = fileinfo \/ (fileinfo' = i.etag /\ i.etag # Null)
    BY <1>9 DEF FillFileinfo, Fetched, doc_close_single_backend, doc_destroy, Become, Doc
  <2>4. \A f \in Files : Foreign(f)' <=> Foreign(f)
    BY <2>1 DEF Foreign
  <2>5. Times' /\ Looks'
    BY <1>0, <1>c, <2>1, <2>3, <2>4 DEF Times, Looks, Fetch
  <2>. QED BY <1>0, <1>d, <2>1, <2>2, <2>3, <2>4, <2>5 DEF SaveLooks
<1>10. CASE Close
  <2>1. UNCHANGED <<clock, text, uri, fileinfo, save, disk, unlinks, told>>
    BY <1>10 DEF Close, doc_close_single_backend, doc_destroy, Become, Doc
  <2>2. dialog = "none" /\ dialog' \in {"none", "close"}
    BY <1>10 DEF Close, Free, doc_close_single_backend, doc_destroy, Become, Doc
  <2>3. \/ fetches' = fetches
        \/ fetches' = {[i EXCEPT !.cancelled = @ \/ i.id = info] : i \in fetches}
    BY <1>10 DEF Close, doc_close_single_backend, doc_destroy, Become, Doc
  <2>4. \A j \in fetches' : \E i \in fetches : j.uri = i.uri /\ j.etag = i.etag
    BY <1>0, <2>3 DEF Fetch
  <2>5. \A f \in Files : Foreign(f)' <=> Foreign(f)
    BY <2>1 DEF Foreign
  <2>6. Times' /\ Looks'
    BY <1>0, <2>1, <2>4, <2>5 DEF Times, Looks, Foreign
  <2>. QED BY <1>0, <1>d, <2>1, <2>2, <2>5, <2>6 DEF SaveLooks
<1>11. CASE CloseAnswered
  <2>. DEFINE D == [Doc EXCEPT !.dialog = "none"]
  <2>1. UNCHANGED <<clock, disk, unlinks, told>> /\ dialog = "close"
    BY <1>11 DEF CloseAnswered
  <2>2. \A f \in Files : Foreign(f)' <=> Foreign(f)
    BY <2>1 DEF Foreign
  <2>3. ASSUME UNCHANGED <<text, uri, fileinfo, fetches, save>>, dialog' = "none"
        PROVE  Times' /\ (text.by # "another")' /\ Looks' /\ SaveLooks'
    <3>1. Times' /\ Looks'
      BY <1>0, <2>1, <2>2, <2>3 DEF Times, Looks, Fetch
    <3>. QED BY <1>0, <1>d, <2>1, <2>2, <2>3, <3>1 DEF SaveLooks
  <2>4. CASE Become(doc_destroy(D, "discarded")) \/ Become(D)
    <3>1. UNCHANGED <<text, uri, fileinfo, fetches, save>> /\ dialog' = "none"
      BY <2>4 DEF doc_destroy, Become, Doc
    <3>. QED BY <2>3, <3>1
  <2>5. ASSUME NEW converts \in BOOLEAN,
               Become(doc_save_backend(D, "normal", uri, TRUE, converts))
        PROVE  Times' /\ (text.by # "another")' /\ Looks' /\ SaveLooks'
    <3>1. Saves("normal", uri, TRUE, "none") /\ UNCHANGED <<text, uri, fileinfo, fetches>>
      BY <2>5, Backend DEF Modes, Saves
    <3>2. CASE UNCHANGED <<close_doc, save>> /\ dialog' = "none"
      BY <2>3, <3>1, <3>2
    <3>3. CASE ~(UNCHANGED <<close_doc, save>> /\ dialog' = "none")
      <4>1. /\ save'.text = text /\ save'.dest = uri /\ save'.mode = "normal"
            /\ save'.result \in {Null, "ENCODING"} /\ save'.etag = fileinfo
            /\ save'.unlink = Null /\ dialog' \in {"none", "encoding"}
        BY <3>1, <3>3 DEF Saves, Noticed
      <4>2. Times' /\ Looks'
        BY <1>0, <2>1, <2>2, <3>1, <4>1 DEF Times, Looks, Fetch
      <4>3. SaveLooks'
        BY <1>0, <2>1, <2>2, <3>1, <4>1, NullAssumption DEF SaveLooks, Looks, Results
      <4>. QED BY <1>0, <3>1, <4>2, <4>3
    <3>. QED BY <3>2, <3>3
  <2>6. D.uri = uri
    BY DEF Doc
  <2>. QED BY <1>11, <2>4, <2>5, <2>6 DEF CloseAnswered
<1>12. ASSUME NEW g \in Files, Unlink(g)
      PROVE  Times' /\ (text.by # "another")' /\ Looks' /\ SaveLooks'
  <2>1. /\ UNCHANGED <<clock, text, uri, fileinfo, save, dialog, fetches>>
        /\ unlinks' = unlinks \ {g} /\ told' = told \ {g}
    BY <1>12 DEF Unlink, docVars
  <2>2. /\ \A f \in Files : f # g => disk'[f] = disk[f]
        /\ disk'[g].etag = 0 /\ ~Foreign(g)'
    BY <1>0, <1>12 DEF Unlink, Foreign, NoText
  <2>3. \A f \in Files : Foreign(f)' => Foreign(f) /\ f # g /\ disk'[f] = disk[f]
    BY <2>2 DEF Foreign
  <2>4. save # Null => save.dest \in Files
    BY <1>0 DEF Saving
  <2>5. Times' /\ Looks'
    BY <1>0, <1>c, <2>1, <2>2, <2>3 DEF Times, Looks, Fetch
  <2>6. SaveLooks'
    BY <1>0, <2>1, <2>2, <2>3, <2>4 DEF SaveLooks
  <2>. QED BY <1>0, <2>1, <2>5, <2>6
<1>13. ASSUME NEW g \in Files, AnotherWrites(g)
      PROVE  Times' /\ (text.by # "another")' /\ Looks' /\ SaveLooks'
  <2>1. /\ UNCHANGED <<text, uri, fileinfo, save, dialog, fetches, unlinks>>
        /\ told' = told \ {g} /\ clock' = clock + 1
    BY <1>13, <1>k DEF AnotherWrites, docVars
  <2>2. /\ fetches = {} /\ fileinfo # Null /\ g \notin unlinks /\ dialog # "overwrite"
        /\ save # Null => save.result # "FINISHED" /\ save.etag # Null
    BY <1>13 DEF AnotherWrites, When, Noticed, Unmet
  <2>3. /\ \A f \in Files : f # g => disk'[f] = disk[f] /\ (Foreign(f)' <=> Foreign(f))
        /\ disk'[g].etag = clock + 1
    BY <1>0, <1>13 DEF AnotherWrites, Foreign
  <2>4. Times'
    BY <1>0, <1>c, <2>1, <2>2, <2>3 DEF Times
  <2>5. Looks'
    BY <1>0, <1>c, <2>1, <2>2, <2>3 DEF Looks, Times
  <2>6. SaveLooks'
    BY <1>0, <1>c, <1>d, <2>1, <2>2, <2>3 DEF SaveLooks, Times
  <2>. QED BY <1>0, <2>1, <2>4, <2>5, <2>6
<1>14. CASE UNCHANGED vars
  BY <1>0, <1>14 DEF vars, Times, Looks, SaveLooks, Foreign
<1>15. CASE EncodingAnswered
  <2>1. save \in Saving
    BY <1>0, <1>15 DEF EncodingAnswered, Typed, Refused
  <2>2. /\ UNCHANGED <<uri, fileinfo, fetches, disk, unlinks, told>> /\ dialog' = "none"
        /\ dialog = "encoding" /\ (Aborted \/ Continued)
    BY <1>15, <2>1, EncodingStep
  <2>3. \A f \in Files : Foreign(f)' <=> Foreign(f)
    BY <2>2 DEF Foreign
  <2>4. /\ clock' = clock \/ clock' = clock + 1
        /\ text' = text \/ text' = Ours(clock)
        /\ \/ save' = Null
           \/ /\ save # Null /\ save'.text = NoText /\ save'.dest = save.dest
              /\ save'.mode = save.mode /\ save'.result = Null /\ save'.etag = save.etag
              /\ save'.unlink = save.unlink
    BY <1>0, <1>15, <1>k, <2>2 DEF Aborted, Continued, Typed, Refused
  <2>5. Times'
    BY <1>0, <1>c, <2>2, <2>4 DEF Times
  <2>6. Looks' /\ (text.by # "another")'
    BY <1>0, <2>2, <2>3, <2>4 DEF Looks, Ours, Fetch
  <2>7. SaveLooks'
    BY <1>0, <1>d, <2>2, <2>3, <2>4, NullAssumption DEF SaveLooks, NoText, Results
  <2>. QED BY <2>5, <2>6, <2>7
<1>. QED BY <1>1, <1>2, <1>3, <1>4, <1>5, <1>6, <1>7, <1>8, <1>9, <1>10, <1>11, <1>12, <1>13,
            <1>14, <1>15
            DEF Next

\* What another program wrote is overwritten or deleted only if the user was told that it is
\* there and went on (doc_checkNsave_lcb, ask_new_filename, file_delete_async).
THEOREM SpecToldBeforeOverwrite == Spec => ToldBeforeOverwrite
<1>. DEFINE Told == Noticed => \A f \in Files : Overwrites(f) => f \in told
<1>1. TInv /\ [Next]_vars => [Told]_vars
  <2>. SUFFICES ASSUME TInv, [Next]_vars, Noticed, NEW f \in Files, Overwrites(f)
                PROVE  f \in told
    OBVIOUS
  <2>0. /\ Looks /\ SaveLooks /\ Foreign(f) /\ disk'[f].text.by # "another"
        /\ disk \in [Files -> [text : Texts, etag : {0} \union Etags]]
    BY DEF TInv, Typed, Overwrites, Foreign
  <2>1. CASE disk' = disk
    BY <2>0, <2>1 DEF Foreign
  <2>2. CASE ReplaceContents
    <3>1. CASE /\ save # Null
               /\ ~(save.etag \notin {Null, disk[save.dest].etag} /\ disk[save.dest].etag # 0)
               /\ disk' = [disk EXCEPT ![save.dest] = [text |-> save.text, etag |-> clock + 1]]
      <4>1. f = save.dest
        BY <2>0, <3>1 DEF Foreign
      <4>. QED BY <2>0, <3>1, <4>1 DEF Looks, SaveLooks
    <3>. QED BY <2>1, <2>2, <3>1 DEF ReplaceContents
  <2>3. ASSUME NEW g \in Files, Unlink(g) PROVE f \in told
    <3>1. f = g
      BY <2>0, <2>3 DEF Unlink, Foreign
    <3>. QED BY <2>0, <2>3, <3>1 DEF Unlink, Looks
  <2>4. ASSUME NEW g \in Files, AnotherWrites(g) PROVE f \in told
    <3>1. f # g
      BY <2>0, <2>4 DEF AnotherWrites, Others
    <3>. QED BY <2>0, <2>4, <3>1 DEF AnotherWrites, Foreign
  <2>5. ReplaceContents \/ disk' = disk \/ \E g \in Files : Unlink(g) \/ AnotherWrites(g)
    BY DEF Next, vars, Edit, Save, EncodingAnswered, CheckNsaveFinished, CheckNsaveError,
           CheckNsaveModified,
           OverwriteAnswered, QueryInfo, FillFileinfo, Close, CloseAnswered
  <2>. QED BY <2>1, <2>2, <2>3, <2>4, <2>5
<1>2. ToldBeforeOverwrite <=> [][Told]_vars
  BY DEF ToldBeforeOverwrite, Noticed
<1>. QED BY InitTInv, NextTInv, <1>1, <1>2, PTL DEF Spec
=============================================================================
