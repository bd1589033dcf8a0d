--------------------------- MODULE AutosaveProofs ---------------------------
(***************************************************************************)
(* Autosave for any number of documents and names: no two documents are    *)
(* autosaved to the same file, every document in progress has the save     *)
(* that ends it, and what the journal on disk lists is the text that a     *)
(* crash would lose, again after each crash.  Each of them holds unless    *)
(* one of the situations is met in which the code breaks it.               *)
(*                                                                         *)
(* The invariant relates the memory of the program to the disk: the file   *)
(* of a document that waits for nothing exists, so that unique_path does   *)
(* not hand out its name a second time; a save under way carries the text  *)
(* of its document or the document needs another one; and what a crash     *)
(* owes the user stays in the file it was in until the document has it.    *)
(***************************************************************************)
EXTENDS Autosave, TLAPS

\* What the runs of the theorems leave out.
Apart == Unmet({"write fails", "delete pending"})
Recoverable == Unmet({"write fails", "close cancelled", "preferences", "write cancelled",
                      "delete pending", "journal write fails"})
Repaid == Unmet({"write fails", "close cancelled", "preferences", "write cancelled",
                 "delete pending", "crash again", "original is gone", "journal write fails",
                 "journal read fails"})

Live == {s \in saves : ~s.cancelled}

\* While the program does not run it remembers nothing.
Off ==
    ~up => /\ need = {} /\ progress = {} /\ journal = {} /\ saves = {} /\ deletes = {}
           /\ ~unsaved
           /\ \A d \in Docs : status[d] = "closed"

\* Whatever has to do with the autosave of a document goes when it is closed or no longer
\* modified; a document of the journal has its file.
Concerned ==
    \A d \in Docs :
        /\ d \in need \union progress \union journal => status[d] = "open" /\ modified[d]
        /\ modified[d] => status[d] = "open"
        /\ status[d] = "closed" => uri[d] = Null
        /\ d \in journal \/ status[d] = "recovering" => uri[d] # Null

\* A save that is not cancelled is the one its document is in progress for.
LiveSaves ==
    /\ \A s \in Live : s.doc \in progress /\ action[s.doc] = "save" /\ uri[s.doc] = s.file
    /\ \A s, t \in Live : s.doc = t.doc => s = t

\* The journal on disk lists a document once.
OneEntry == disk # Null => \A e, f \in disk : e.doc = f.doc => e = f

\* The file of a document that is not in progress is there, so that unique_path does not
\* find its name free, and nobody is about to delete it.
NamesTaken ==
    Apart =>
        /\ \A d, e \in Docs : d # e /\ uri[d] # Null => uri[d] # uri[e]
        /\ \A d \in Docs : uri[d] # Null => /\ d \notin progress => files[uri[d]] # Null
                                            /\ uri[d] \notin deletes
        /\ \A s \in Live : s.stage # "failed" /\ (s.stage = "written" => files[s.file] # Null)
        /\ disk # Null => \A e, f \in disk : e.file = f.file => e = f

\* A save carries the text of its document, unless the document needs another save.
SavesCurrent ==
    /\ saves = Live
    /\ \A s \in saves : /\ s.stage = "written" => files[s.file] = s.text
                        /\ s.doc \notin need => s.text = text[s.doc]

\* A modified document that waits for nothing is in the journal with its text in its file.
InJournal ==
    \A d \in Docs : modified[d] /\ d \notin need \union progress =>
                        d \in journal /\ files[uri[d]] = text[d]

\* The journal on disk is that of the program unless it is to be written.
JournalOnDisk == up /\ ~unsaved => disk = Entries(journal) \/ (disk = Null /\ journal = {})

Kept == Recoverable => SavesCurrent /\ InJournal /\ JournalOnDisk

\* What a crash owes the user is in the file that the journal on disk lists ...
OwedOnDisk ==
    \A d \in Docs : owed[d] # Null /\ ~up =>
        disk # Null /\ \E e \in disk : e.doc = d /\ files[e.file] = owed[d]

\* ... and still when the program has read the journal, until the document has that text and
\* then as long as it has it; a journal that is written again lists the same file.
OwedInMemory ==
    \A d \in Docs : owed[d] # Null /\ up =>
        /\ uri[d] # Null /\ files[uri[d]] = owed[d]
        /\ \/ status[d] = "recovering"
           \/ status[d] = "open" /\ modified[d] /\ text[d] = owed[d]
        /\ disk # Null => \A e \in disk : e.doc = d => e.file = uri[d]

OwedSaves == \A s \in saves : owed[s.doc] # Null => s.text = text[s.doc]

Owed == Repaid => OwedOnDisk /\ OwedInMemory /\ OwedSaves

IInv == /\ TypeOK /\ Off /\ Concerned /\ LiveSaves /\ OneEntry
        /\ NamesTaken /\ Kept /\ Owed /\ ProgressEnds

-----------------------------------------------------------------------------

\* Situations are met, never unmet; a longer list is avoided less often.
LEMMA MetGrows ==
    ASSUME met \subseteq met'
    PROVE  /\ Apart' => Apart
           /\ Recoverable' => Recoverable
           /\ Repaid' => Repaid
           /\ Unmet({"empty text"})' => Unmet({"empty text"})
BY DEF Apart, Recoverable, Repaid, Unmet

\* The lists of situations of the runs are ordered.
LEMMA Lists == (Recoverable => Apart) /\ (Repaid => Recoverable)
BY DEF Apart, Recoverable, Repaid, Unmet

LEMMA ListsNext == (Recoverable' => Apart') /\ (Repaid' => Recoverable')
BY DEF Apart, Recoverable, Repaid, Unmet

\* A file that is saved or deleted belongs to a program that runs.
LEMMA Running == ASSUME Off PROVE (saves # {} \/ deletes # {} => up)
BY DEF Off

\* The document of a save that is not cancelled is open and autosaved to the file of the save.
LEMMA LiveFacts ==
    ASSUME TypeOK, Concerned, LiveSaves, NEW s \in saves, ~s.cancelled
    PROVE  /\ s \in Live /\ s \in Save /\ Current(s.doc, s)
           /\ s.doc \in Docs /\ s.doc \in progress /\ action[s.doc] = "save"
           /\ uri[s.doc] = s.file /\ s.file \in Names /\ s.file # Null
           /\ status[s.doc] = "open" /\ modified[s.doc]
<1>1. s \in Live /\ s \in Save BY DEF Live, TypeOK
<1>2. s.doc \in Docs /\ s.file \in Names BY <1>1 DEF Save
<1>3. s.doc \in progress /\ action[s.doc] = "save" /\ uri[s.doc] = s.file
  BY <1>1 DEF LiveSaves
<1>4. status[s.doc] = "open" /\ modified[s.doc] BY <1>2, <1>3 DEF Concerned
<1>5. s.file # Null BY <1>2, NullAssumption
<1> QED BY <1>1, <1>2, <1>3, <1>4, <1>5 DEF Current

\* What Entries lists of documents that have their files.
LEMMA EntriesFacts ==
    ASSUME TypeOK, NEW S \in SUBSET Docs, \A d \in S : uri[d] # Null
    PROVE  /\ Entries(S) \subseteq [doc : Docs, file : Names] /\ Entries(S) # Null
           /\ \A e \in Entries(S) : e.doc \in S /\ e.file = uri[e.doc]
           /\ \A d \in S : \E e \in Entries(S) : e.doc = d
           /\ \A e, f \in Entries(S) : e.doc = f.doc => e = f
<1>1. \A d \in S : uri[d] \in Names BY DEF TypeOK
<1>2. Entries(S) \in SUBSET [doc : Docs, file : Names] BY <1>1 DEF Entries
<1>3. Entries(S) # Null BY <1>2, NullAssumption
<1>4. \A e \in Entries(S) : e.doc \in S /\ e.file = uri[e.doc] BY DEF Entries
<1>5. ASSUME NEW d \in S PROVE \E e \in Entries(S) : e.doc = d
  <2>1. [doc |-> d, file |-> uri[d]] \in Entries(S) BY DEF Entries
  <2> QED BY <2>1
<1>6. \A e, f \in Entries(S) : e.doc = f.doc => e = f BY DEF Entries
<1> QED BY <1>2, <1>3, <1>4, <1>5, <1>6

\* The initial states.
LEMMA InitIInv == Init => IInv
<1> SUFFICES ASSUME Init PROVE IInv OBVIOUS
<1>1. TypeOK BY TextAssumption DEF Init, TypeOK, Texts
<1>2. Off /\ Concerned /\ LiveSaves /\ OneEntry
  BY DEF Init, Off, Concerned, LiveSaves, Live, OneEntry
<1>3. NamesTaken BY DEF Init, NamesTaken, Live
<1>4. Kept BY DEF Init, Kept, SavesCurrent, InJournal, JournalOnDisk, Live
<1>5. Owed BY DEF Init, Owed, OwedOnDisk, OwedInMemory, OwedSaves
<1>6. ProgressEnds BY DEF Init, ProgressEnds
<1> QED BY <1>1, <1>2, <1>3, <1>4, <1>5, <1>6 DEF IInv

-----------------------------------------------------------------------------

\* A document that is opened has nothing to do with autosaves yet.
LEMMA OpenIInv == ASSUME IInv, NEW d \in Docs, Open(d) PROVE IInv'
<1> USE DEF Open, memory, outside
<1>0. /\ TypeOK /\ Off /\ Concerned /\ LiveSaves /\ OneEntry
      /\ NamesTaken /\ Kept /\ Owed /\ ProgressEnds
  BY DEF IInv
<1>1. /\ Apart' => Apart
      /\ Recoverable' => Recoverable
      /\ Repaid' => Repaid
      /\ Unmet({"empty text"})' => Unmet({"empty text"})
  BY MetGrows
<1>2. TypeOK' BY <1>0 DEF TypeOK
<1>3. Off' BY DEF Off
<1>4. Concerned' BY <1>0 DEF Concerned, TypeOK
<1>5. LiveSaves' /\ OneEntry' BY <1>0 DEF LiveSaves, Live, OneEntry
<1>6. NamesTaken' BY <1>0, <1>1 DEF NamesTaken, Live
<1>7. ASSUME Recoverable' PROVE SavesCurrent' /\ InJournal' /\ JournalOnDisk'
  <2>0. SavesCurrent /\ InJournal /\ JournalOnDisk BY <1>0, <1>1, <1>7 DEF Kept
  <2>1. SavesCurrent' BY <1>0, <2>0 DEF SavesCurrent, Live, TypeOK
  <2>2. InJournal' BY <1>0, <2>0 DEF InJournal, TypeOK
  <2>3. JournalOnDisk' BY <2>0 DEF JournalOnDisk, Entries
  <2> QED BY <2>1, <2>2, <2>3
<1>8. ASSUME Repaid' PROVE OwedOnDisk' /\ OwedInMemory' /\ OwedSaves'
  <2>0. OwedOnDisk /\ OwedInMemory /\ OwedSaves BY <1>0, <1>1, <1>8 DEF Owed
  <2>1. OwedOnDisk' BY <1>0, <2>0 DEF OwedOnDisk, TypeOK
  <2>2. OwedInMemory' BY <1>0, <2>0 DEF OwedInMemory, TypeOK
  <2>3. OwedSaves' BY <1>0, <2>0 DEF OwedSaves, TypeOK
  <2> QED BY <2>1, <2>2, <2>3
<1>9. ProgressEnds' BY <1>0, <1>1 DEF ProgressEnds, Current
<1> QED BY <1>2, <1>3, <1>4, <1>5, <1>6, <1>7, <1>8, <1>9 DEF IInv, Kept, Owed

\* An edited document needs an autosave, and the user has moved on from what was owed.
LEMMA EditIInv == ASSUME IInv, NEW d \in Docs, Edit(d) PROVE IInv'
<1> USE DEF Edit, outside
<1>0. /\ TypeOK /\ Off /\ Concerned /\ LiveSaves /\ OneEntry
      /\ NamesTaken /\ Kept /\ Owed /\ ProgressEnds
  BY DEF IInv
<1>1. /\ Apart' => Apart
      /\ Recoverable' => Recoverable
      /\ Repaid' => Repaid
      /\ Unmet({"empty text"})' => Unmet({"empty text"})
  BY MetGrows
<1>2. TypeOK' BY <1>0 DEF TypeOK
<1>3. Off' BY DEF Off
<1>4. Concerned' BY <1>0 DEF Concerned, TypeOK
<1>5. LiveSaves' /\ OneEntry' BY <1>0 DEF LiveSaves, Live, OneEntry
<1>6. NamesTaken' BY <1>0, <1>1 DEF NamesTaken, Live
<1>7. ASSUME Recoverable' PROVE SavesCurrent' /\ InJournal' /\ JournalOnDisk'
  <2>0. SavesCurrent /\ InJournal /\ JournalOnDisk BY <1>0, <1>1, <1>7 DEF Kept
  <2>1. SavesCurrent' BY <1>0, <2>0 DEF SavesCurrent, Live, TypeOK
  <2>2. InJournal' BY <1>0, <2>0 DEF InJournal, TypeOK
  <2>3. JournalOnDisk' BY <2>0 DEF JournalOnDisk, Entries
  <2> QED BY <2>1, <2>2, <2>3
<1>8. ASSUME Repaid' PROVE OwedOnDisk' /\ OwedInMemory' /\ OwedSaves'
  <2>0. OwedOnDisk /\ OwedInMemory /\ OwedSaves BY <1>0, <1>1, <1>8 DEF Owed
  <2>1. OwedOnDisk' BY <1>0, <2>0 DEF OwedOnDisk, TypeOK
  <2>2. OwedInMemory' BY <1>0, <2>0 DEF OwedInMemory, TypeOK
  <2>3. OwedSaves' BY <1>0, <2>0 DEF OwedSaves, TypeOK
  <2> QED BY <2>1, <2>2, <2>3
<1>9. ProgressEnds' BY <1>0, <1>1 DEF ProgressEnds, Current
<1> QED BY <1>2, <1>3, <1>4, <1>5, <1>6, <1>7, <1>8, <1>9 DEF IInv, Kept, Owed

\* remove_autosave leaves the saves of other documents alone, and no save of this one that is
\* not cancelled.
LEMMA RemovedSaves ==
    ASSUME TypeOK, LiveSaves, NEW d \in Docs, NEW destroyed, NEW meets,
           remove_autosave(d, destroyed, meets)
    PROVE  /\ saves' \subseteq Save
           /\ \A t \in Live : t.doc # d => t \in saves'
           /\ \A t \in saves' : ~t.cancelled => t \in Live /\ t.doc # d
           /\ Live' = {t \in Live : t.doc # d}
<1> DEFINE waits(s) == Current(d, s) /\ s.stage = "waits"
           after(s) == [s EXCEPT !.cancelled = @ \/ Current(d, s)]
<1>1. saves' = {after(s) : s \in {s \in saves : ~waits(s)}} BY DEF remove_autosave
<1>2. ASSUME NEW s \in saves
      PROVE  /\ after(s) \in Save
             /\ after(s).doc = s.doc
             /\ after(s).cancelled = (s.cancelled \/ Current(d, s))
             /\ ~after(s).cancelled => after(s) = s
  <2>1. s \in Save BY DEF TypeOK
  <2>2. Current(d, s) \in BOOLEAN BY <2>1 DEF Current, Save
  <2>3. after(s) \in Save BY <2>1, <2>2 DEF Save
  <2>4. after(s).doc = s.doc BY <2>1 DEF Save
  <2>5. after(s).cancelled = (s.cancelled \/ Current(d, s)) BY <2>1, <2>2 DEF Save
  <2>6. ~after(s).cancelled => after(s) = s
    <3> SUFFICES ASSUME ~after(s).cancelled PROVE after(s) = s OBVIOUS
    <3>1. ~s.cancelled /\ ~Current(d, s) BY <2>5
    <3>2. s.cancelled = FALSE BY <3>1, <2>1 DEF Save
    <3>3. (s.cancelled \/ Current(d, s)) = s.cancelled BY <3>1, <3>2
    <3>4. after(s) = [s EXCEPT !.cancelled = s.cancelled] BY <3>3
    <3> QED BY <3>4, <2>1 DEF Save
  <2> QED BY <2>3, <2>4, <2>5, <2>6
<1> HIDE DEF after
<1>3. ASSUME NEW s \in Live PROVE s \in saves /\ (Current(d, s) <=> s.doc = d)
  BY DEF LiveSaves, Live, Current
<1>4. saves' \subseteq Save BY <1>1, <1>2
<1>5. ASSUME NEW t \in Live, t.doc # d PROVE t \in saves'
  <2>1. t \in saves /\ ~t.cancelled /\ ~Current(d, t) BY <1>3, <1>5 DEF Live
  <2>2. ~after(t).cancelled BY <2>1, <1>2
  <2>3. after(t) = t /\ ~waits(t) BY <2>1, <2>2, <1>2
  <2> QED BY <2>1, <2>3, <1>1
<1>6. ASSUME NEW t \in saves', ~t.cancelled PROVE t \in Live /\ t.doc # d
  <2>1. PICK s \in saves : t = after(s) BY <1>1
  <2>2. t = s /\ ~s.cancelled /\ ~Current(d, s) BY <2>1, <1>2, <1>6
  <2> QED BY <2>2, <1>3 DEF Live
<1>7. Live' = {t \in Live : t.doc # d} BY <1>5, <1>6 DEF Live
<1> QED BY <1>4, <1>5, <1>6, <1>7

\* Unless a save is cancelled while it writes, those are all.
LEMMA RemovedAll ==
    ASSUME TypeOK, LiveSaves, NEW d \in Docs, NEW destroyed, NEW meets,
           remove_autosave(d, destroyed, meets), Recoverable', saves = Live
    PROVE  saves' = {t \in saves : t.doc # d}
<1>1. ~ \E s \in saves : Current(d, s) /\ ~(Current(d, s) /\ s.stage = "waits")
  BY DEF remove_autosave, Meets, When, Recoverable, Unmet
<1>2. ASSUME NEW s \in saves PROVE Current(d, s) <=> s.doc = d
  BY DEF LiveSaves, Live, Current
<1>3. ASSUME NEW s \in saves, s.doc # d
      PROVE  [s EXCEPT !.cancelled = s.cancelled \/ Current(d, s)] = s
  <2>1. s \in Save BY DEF TypeOK
  <2>2. s.cancelled = FALSE BY <2>1 DEF Live, Save
  <2>3. (s.cancelled \/ Current(d, s)) = s.cancelled BY <2>2, <1>2, <1>3
  <2> QED BY <2>1, <2>3 DEF Save
<1>4. saves' = {[s EXCEPT !.cancelled = s.cancelled \/ Current(d, s)]
                  : s \in {s \in saves : ~(Current(d, s) /\ s.stage = "waits")}}
  BY DEF remove_autosave
<1>5. {s \in saves : ~(Current(d, s) /\ s.stage = "waits")} = {s \in saves : s.doc # d}
  BY <1>1, <1>2
<1>6. saves' = {[s EXCEPT !.cancelled = s.cancelled \/ Current(d, s)]
                  : s \in {s \in saves : s.doc # d}}
  BY <1>4, <1>5
<1> QED BY <1>6, <1>3

\* What remove_autosave keeps of the invariant, whatever else its caller does.
LEMMA RemovedKeeps ==
    ASSUME IInv, NEW d \in Docs, NEW destroyed, NEW meets \in SUBSET Situations,
           up, status[d] = "open", remove_autosave(d, destroyed, meets)
    PROVE  /\ need' \subseteq Docs /\ progress' \subseteq Docs
           /\ action' \in [Docs -> {Null, "save", "freed"}]
           /\ uri' \in [Docs -> Names \union {Null}] /\ journal' \subseteq Docs
           /\ unsaved' \in BOOLEAN /\ saves' \subseteq Save /\ deletes' \subseteq Names
           /\ met' \subseteq Situations
           /\ LiveSaves' /\ NamesTaken' /\ ProgressEnds'
           /\ Apart' => Apart
           /\ Recoverable' => Recoverable
           /\ Repaid' => Repaid
<1>0. /\ TypeOK /\ Off /\ Concerned /\ LiveSaves /\ OneEntry
      /\ NamesTaken /\ Kept /\ Owed /\ ProgressEnds
  BY DEF IInv
<1>1. /\ need' = need \ {d} /\ progress' = progress \ {d} /\ journal' = journal \ {d}
      /\ action' = IF d \in progress \/ destroyed THEN [action EXCEPT ![d] = Null] ELSE action
      /\ uri' = [uri EXCEPT ![d] = Null] /\ unsaved' = (unsaved \/ d \in journal)
      /\ deletes' = deletes \union ({uri[d]} \ {Null})
      /\ files' = files /\ disk' = disk
  BY DEF remove_autosave
<1>2. /\ saves' \subseteq Save
      /\ \A t \in Live : t.doc # d => t \in saves'
      /\ \A t \in saves' : ~t.cancelled => t \in Live /\ t.doc # d
      /\ Live' = {t \in Live : t.doc # d}
  BY <1>0, RemovedSaves
<1>3. met \subseteq met' /\ met' \subseteq Situations
  <2>1. met' = met \union (meets \union
                 When(\E s \in saves : Current(d, s) /\ ~(Current(d, s) /\ s.stage = "waits"),
                      "write cancelled"))
    BY DEF remove_autosave, Meets
  <2>2. "write cancelled" \in Situations BY DEF Situations
  <2> QED BY <2>1, <2>2, <1>0 DEF When, TypeOK
<1>4. /\ Apart' => Apart
      /\ Recoverable' => Recoverable
      /\ Repaid' => Repaid
      /\ Unmet({"empty text"})' => Unmet({"empty text"})
  BY <1>3, MetGrows
<1>5. \A e \in Docs : /\ uri[e] \in Names \union {Null}
                      /\ e # d => uri'[e] = uri[e] /\ action'[e] = action[e]
  BY <1>0, <1>1 DEF TypeOK
<1>6. uri'[d] = Null /\ uri' \in [Docs -> Names \union {Null}] BY <1>0, <1>1 DEF TypeOK
<1>7. action' \in [Docs -> {Null, "save", "freed"}] BY <1>0, <1>1 DEF TypeOK
<1>8. unsaved' \in BOOLEAN /\ deletes' \subseteq Names BY <1>0, <1>1, <1>5 DEF TypeOK
<1>9. LiveSaves'
  <2>1. ASSUME NEW s \in Live'
        PROVE  s.doc \in progress' /\ action'[s.doc] = "save" /\ uri'[s.doc] = s.file
    <3>1. s \in Live /\ s.doc # d BY <1>2
    <3>2. s.doc \in Docs BY <3>1, <1>0 DEF Live, TypeOK, Save
    <3> QED BY <3>1, <3>2, <1>0, <1>1, <1>5 DEF LiveSaves
  <2>2. \A s, t \in Live' : s.doc = t.doc => s = t BY <1>0, <1>2 DEF LiveSaves
  <2> QED BY <2>1, <2>2 DEF LiveSaves
<1>10. NamesTaken'
  <2> SUFFICES ASSUME Apart' PROVE NamesTaken!2' BY DEF NamesTaken
  <2>0. NamesTaken!2 BY <1>0, <1>4 DEF NamesTaken
  <2>1. \A e, f \in Docs : e # f /\ uri'[e] # Null => uri'[e] # uri'[f]
    BY <2>0, <1>5, <1>6
  <2>2. \A e \in Docs : uri'[e] # Null => /\ e \notin progress' => files'[uri'[e]] # Null
                                          /\ uri'[e] \notin deletes'
    BY <2>0, <1>1, <1>5, <1>6
  <2>3. \A s \in Live' : s.stage # "failed" /\ (s.stage = "written" => files'[s.file] # Null)
    BY <2>0, <1>1, <1>2
  <2> QED BY <2>0, <2>1, <2>2, <2>3, <1>1
<1>11. ProgressEnds'
  <2> SUFFICES ASSUME Unmet({"empty text"})', NEW e \in progress'
               PROVE  action'[e] = "save" /\ \E s \in saves' : Current(e, s)'
    BY DEF ProgressEnds
  <2>1. e \in progress /\ e # d /\ e \in Docs BY <1>0, <1>1 DEF TypeOK
  <2>2. action[e] = "save" /\ \E s \in saves : Current(e, s) BY <2>1, <1>0, <1>4 DEF ProgressEnds
  <2>3. PICK s \in saves : Current(e, s) BY <2>2
  <2>4. s \in Live /\ s.doc = e BY <2>3 DEF Current, Live
  <2>5. s \in saves' BY <2>1, <2>4, <1>2
  <2>6. action'[e] = "save" BY <2>1, <2>2, <1>5
  <2>7. Current(e, s)' BY <2>3, <2>6 DEF Current
  <2> QED BY <2>5, <2>6, <2>7
<1> QED BY <1>0, <1>1, <1>2, <1>3, <1>4, <1>6, <1>7, <1>8, <1>9, <1>10, <1>11 DEF TypeOK

\* An unmodified document leaves everything that has to do with autosaves.
LEMMA SetUnmodifiedIInv == ASSUME IInv, NEW d \in Docs, SetUnmodified(d) PROVE IInv'
<1>0. /\ TypeOK /\ Off /\ Concerned /\ LiveSaves /\ OneEntry
      /\ NamesTaken /\ Kept /\ Owed /\ ProgressEnds
  BY DEF IInv
<1>1. /\ up /\ up' = up /\ status[d] = "open" /\ status' = status
      /\ modified' = [modified EXCEPT ![d] = FALSE] /\ text' = [text EXCEPT ![d] = "empty"]
      /\ owed' = [owed EXCEPT ![d] = Null] /\ remove_autosave(d, FALSE, {})
  BY DEF SetUnmodified
<1>2. /\ need' \subseteq Docs /\ progress' \subseteq Docs
      /\ action' \in [Docs -> {Null, "save", "freed"}]
      /\ uri' \in [Docs -> Names \union {Null}] /\ journal' \subseteq Docs
      /\ unsaved' \in BOOLEAN /\ saves' \subseteq Save /\ deletes' \subseteq Names
      /\ met' \subseteq Situations
      /\ LiveSaves' /\ NamesTaken' /\ ProgressEnds'
      /\ Apart' => Apart
      /\ Recoverable' => Recoverable
      /\ Repaid' => Repaid
  BY <1>1, RemovedKeeps
<1>3. /\ need' = need \ {d} /\ progress' = progress \ {d} /\ journal' = journal \ {d}
      /\ uri' = [uri EXCEPT ![d] = Null] /\ unsaved' = (unsaved \/ d \in journal)
      /\ files' = files /\ disk' = disk
  BY <1>1 DEF remove_autosave
<1>4. TypeOK'
  <2>1. text' \in [Docs -> Texts] /\ modified' \in [Docs -> BOOLEAN]
    BY <1>0, <1>1 DEF TypeOK, Texts
  <2>2. owed' \in [Docs -> Texts \union {Null}] BY <1>0, <1>1 DEF TypeOK
  <2> QED BY <1>0, <1>1, <1>2, <1>3, <2>1, <2>2 DEF TypeOK
<1>5. Off' BY <1>1 DEF Off
<1>6. Concerned' BY <1>0, <1>1, <1>3 DEF Concerned, TypeOK
<1>7. OneEntry' BY <1>0, <1>3 DEF OneEntry
<1>8. ASSUME Recoverable' PROVE SavesCurrent' /\ InJournal' /\ JournalOnDisk'
  <2>0. SavesCurrent /\ InJournal /\ JournalOnDisk BY <1>0, <1>2, <1>8 DEF Kept
  <2>1. saves' = {t \in saves : t.doc # d} BY <1>0, <1>1, <1>8, <2>0, RemovedAll DEF SavesCurrent
  <2>2. \A t \in saves' : t \in Save /\ ~t.cancelled
    BY <2>0, <2>1, <1>0 DEF SavesCurrent, Live, TypeOK
  <2>3. SavesCurrent' BY <1>0, <1>1, <1>3, <2>0, <2>1, <2>2 DEF SavesCurrent, Live, TypeOK, Save
  <2>4. InJournal' BY <1>0, <1>1, <1>3, <2>0 DEF InJournal, TypeOK
  <2>5. d \notin journal => Entries(journal)' = Entries(journal)
    BY <1>0, <1>3 DEF Entries, TypeOK
  <2>6. JournalOnDisk' BY <1>0, <1>1, <1>3, <2>0, <2>5 DEF JournalOnDisk, TypeOK
  <2> QED BY <2>3, <2>4, <2>6
<1>9. ASSUME Repaid' PROVE OwedOnDisk' /\ OwedInMemory' /\ OwedSaves'
  <2>0. OwedOnDisk /\ OwedInMemory /\ OwedSaves BY <1>0, <1>2, <1>9 DEF Owed
  <2>1. Recoverable' BY <1>9, ListsNext
  <2>2. saves' = {t \in saves : t.doc # d}
    BY <1>0, <1>1, <1>2, <2>1, RemovedAll DEF Kept, SavesCurrent
  <2>3. OwedOnDisk' BY <1>1 DEF OwedOnDisk
  <2>4. OwedInMemory' BY <1>0, <1>1, <1>3, <2>0 DEF OwedInMemory, TypeOK
  <2>5. OwedSaves' BY <1>0, <1>1, <2>0, <2>2 DEF OwedSaves, TypeOK, Save
  <2> QED BY <2>3, <2>4, <2>5
<1> QED BY <1>2, <1>4, <1>5, <1>6, <1>7, <1>8, <1>9 DEF IInv, Kept, Owed

\* So does a closed one.
LEMMA CloseIInv == ASSUME IInv, NEW d \in Docs, Close(d) PROVE IInv'
<1>0. /\ TypeOK /\ Off /\ Concerned /\ LiveSaves /\ OneEntry
      /\ NamesTaken /\ Kept /\ Owed /\ ProgressEnds
  BY DEF IInv
<1>1. /\ up /\ up' = up /\ status[d] = "open" /\ status' = [status EXCEPT ![d] = "closed"]
      /\ modified' = [modified EXCEPT ![d] = FALSE] /\ text' = [text EXCEPT ![d] = "empty"]
      /\ owed' = [owed EXCEPT ![d] = Null] /\ remove_autosave(d, TRUE, {})
  BY DEF Close
<1>2. /\ need' \subseteq Docs /\ progress' \subseteq Docs
      /\ action' \in [Docs -> {Null, "save", "freed"}]
      /\ uri' \in [Docs -> Names \union {Null}] /\ journal' \subseteq Docs
      /\ unsaved' \in BOOLEAN /\ saves' \subseteq Save /\ deletes' \subseteq Names
      /\ met' \subseteq Situations
      /\ LiveSaves' /\ NamesTaken' /\ ProgressEnds'
      /\ Apart' => Apart
      /\ Recoverable' => Recoverable
      /\ Repaid' => Repaid
  BY <1>1, RemovedKeeps
<1>3. /\ need' = need \ {d} /\ progress' = progress \ {d} /\ journal' = journal \ {d}
      /\ uri' = [uri EXCEPT ![d] = Null] /\ unsaved' = (unsaved \/ d \in journal)
      /\ files' = files /\ disk' = disk
  BY <1>1 DEF remove_autosave
<1>4. TypeOK'
  <2>1. text' \in [Docs -> Texts] /\ modified' \in [Docs -> BOOLEAN]
    BY <1>0, <1>1 DEF TypeOK, Texts
  <2>3. status' \in [Docs -> {"closed", "open", "recovering"}] BY <1>0, <1>1 DEF TypeOK
  <2>2. owed' \in [Docs -> Texts \union {Null}] BY <1>0, <1>1 DEF TypeOK
  <2> QED BY <1>0, <1>1, <1>2, <1>3, <2>1, <2>2, <2>3 DEF TypeOK
<1>5. Off' BY <1>1 DEF Off
<1>6. Concerned' BY <1>0, <1>1, <1>3 DEF Concerned, TypeOK
<1>7. OneEntry' BY <1>0, <1>3 DEF OneEntry
<1>8. ASSUME Recoverable' PROVE SavesCurrent' /\ InJournal' /\ JournalOnDisk'
  <2>0. SavesCurrent /\ InJournal /\ JournalOnDisk BY <1>0, <1>2, <1>8 DEF Kept
  <2>1. saves' = {t \in saves : t.doc # d} BY <1>0, <1>1, <1>8, <2>0, RemovedAll DEF SavesCurrent
  <2>2. \A t \in saves' : t \in Save /\ ~t.cancelled
    BY <2>0, <2>1, <1>0 DEF SavesCurrent, Live, TypeOK
  <2>3. SavesCurrent' BY <1>0, <1>1, <1>3, <2>0, <2>1, <2>2 DEF SavesCurrent, Live, TypeOK, Save
  <2>4. InJournal' BY <1>0, <1>1, <1>3, <2>0 DEF InJournal, TypeOK
  <2>5. d \notin journal => Entries(journal)' = Entries(journal)
    BY <1>0, <1>3 DEF Entries, TypeOK
  <2>6. JournalOnDisk' BY <1>0, <1>1, <1>3, <2>0, <2>5 DEF JournalOnDisk, TypeOK
  <2> QED BY <2>3, <2>4, <2>6
<1>9. ASSUME Repaid' PROVE OwedOnDisk' /\ OwedInMemory' /\ OwedSaves'
  <2>0. OwedOnDisk /\ OwedInMemory /\ OwedSaves BY <1>0, <1>2, <1>9 DEF Owed
  <2>1. Recoverable' BY <1>9, ListsNext
  <2>2. saves' = {t \in saves : t.doc # d}
    BY <1>0, <1>1, <1>2, <2>1, RemovedAll DEF Kept, SavesCurrent
  <2>3. OwedOnDisk' BY <1>1 DEF OwedOnDisk
  <2>4. OwedInMemory' BY <1>0, <1>1, <1>3, <2>0 DEF OwedInMemory, TypeOK
  <2>5. OwedSaves' BY <1>0, <1>1, <2>0, <2>2 DEF OwedSaves, TypeOK, Save
  <2> QED BY <2>3, <2>4, <2>5
<1> QED BY <1>2, <1>4, <1>5, <1>6, <1>7, <1>8, <1>9 DEF IInv, Kept, Owed

\* One whose close is cancelled does too; the situation is met, which leaves names and progress.
LEMMA CloseCancelledIInv == ASSUME IInv, NEW d \in Docs, CloseCancelled(d) PROVE IInv'
<1>0. /\ TypeOK /\ Off /\ Concerned /\ LiveSaves /\ OneEntry
      /\ NamesTaken /\ Kept /\ Owed /\ ProgressEnds
  BY DEF IInv
<1>1. /\ up /\ up' = up /\ status[d] = "open" /\ status' = status
      /\ modified' = modified /\ text' = text
      /\ owed' = owed /\ remove_autosave(d, FALSE, {"close cancelled"})
  BY DEF CloseCancelled, docs
<1>2. /\ need' \subseteq Docs /\ progress' \subseteq Docs
      /\ action' \in [Docs -> {Null, "save", "freed"}]
      /\ uri' \in [Docs -> Names \union {Null}] /\ journal' \subseteq Docs
      /\ unsaved' \in BOOLEAN /\ saves' \subseteq Save /\ deletes' \subseteq Names
      /\ met' \subseteq Situations
      /\ LiveSaves' /\ NamesTaken' /\ ProgressEnds'
      /\ Apart' => Apart
      /\ Recoverable' => Recoverable
      /\ Repaid' => Repaid
  <2>1. {"close cancelled"} \in SUBSET Situations BY DEF Situations
  <2> QED BY <1>0, <1>1, <2>1, RemovedKeeps
<1>3. /\ need' = need \ {d} /\ progress' = progress \ {d} /\ journal' = journal \ {d}
      /\ uri' = [uri EXCEPT ![d] = Null] /\ unsaved' = (unsaved \/ d \in journal)
      /\ files' = files /\ disk' = disk
  BY <1>1 DEF remove_autosave
<1>4. TypeOK' BY <1>0, <1>1, <1>2, <1>3 DEF TypeOK
<1>5. Off' BY <1>1 DEF Off
<1>6. Concerned' BY <1>0, <1>1, <1>3 DEF Concerned, TypeOK
<1>7. OneEntry' BY <1>0, <1>3 DEF OneEntry
<1>8. ~Recoverable' BY <1>1 DEF remove_autosave, Meets, Recoverable, Unmet
<1>9. ~Repaid' BY <1>8, ListsNext
<1> QED BY <1>2, <1>4, <1>5, <1>6, <1>7, <1>8, <1>9 DEF IInv, Kept, Owed

-----------------------------------------------------------------------------

\* A new name differs from those that are taken: their files exist.
LEMMA RunAutosaveIInv == ASSUME IInv, RunAutosave PROVE IInv'
<1>0. /\ TypeOK /\ Off /\ Concerned /\ LiveSaves /\ OneEntry
      /\ NamesTaken /\ Kept /\ Owed /\ ProgressEnds
  BY DEF IInv
<1> DEFINE fresh == {d \in need : uri[d] = Null}
           new(d) == [doc |-> d, file |-> uri'[d], text |-> text[d], stage |-> "waits",
                      cancelled |-> FALSE]
<1>1. PICK path \in Paths(fresh) :
        /\ uri' = [d \in Docs |-> IF d \in fresh THEN path[d] ELSE uri[d]]
        /\ saves' = saves \union {new(d) : d \in Started}
        /\ Meets(When(Started # need, "empty text")
                   \union When(\E d \in fresh : path[d] \in deletes, "delete pending"))
  BY DEF RunAutosave
<1>2. /\ up /\ progress = {} /\ up' = up /\ progress' = need /\ need' = {}
      /\ status' = status /\ text' = text /\ modified' = modified /\ owed' = owed
      /\ journal' = journal /\ unsaved' = unsaved /\ deletes' = deletes
      /\ files' = files /\ disk' = disk
      /\ action' = [d \in Docs |-> IF d \in Started THEN "save" ELSE action[d]]
  BY DEF RunAutosave, docs
<1>3. /\ \A d \in fresh : path[d] \in Names /\ path[d] # Null /\ files[path[d]] = Null
      /\ \A d, e \in fresh : path[d] = path[e] => d = e
  BY NullAssumption DEF Paths
<1>4. Started \subseteq need /\ need \subseteq Docs BY <1>0 DEF Started, TypeOK
<1>5. \A d \in Docs : /\ d \in fresh => uri'[d] = path[d]
                      /\ d \notin fresh => uri'[d] = uri[d]
  BY <1>1
<1>6. uri' \in [Docs -> Names \union {Null}] BY <1>0, <1>1, <1>3, <1>4 DEF TypeOK
<1>7. \A d \in need : uri'[d] \in Names BY <1>0, <1>3, <1>4, <1>5 DEF TypeOK
<1>8. ASSUME NEW d \in Started
      PROVE  /\ new(d) \in Save /\ new(d).doc = d /\ new(d).file = uri'[d]
             /\ new(d).text = text[d] /\ new(d).stage = "waits" /\ ~new(d).cancelled
  <2>1. text[d] \in Contents BY <1>0, <1>4 DEF Started, TypeOK, Texts
  <2> QED BY <2>1, <1>4, <1>7 DEF Save
<1>new. {new(d) : d \in Started} \subseteq saves' BY <1>1
<1>9. Live = {} BY <1>0, <1>2 DEF LiveSaves
<1>10. /\ \A s \in saves' : s \notin saves =>
            /\ s \in Save /\ s.doc \in Started /\ s.file = uri'[s.doc] /\ s.text = text[s.doc]
            /\ s.stage = "waits" /\ ~s.cancelled
       /\ \A s, t \in saves' : s \notin saves /\ t \notin saves /\ s.doc = t.doc => s = t
       /\ \A d \in Started : \E s \in saves' : s.doc = d /\ ~s.cancelled
       /\ saves \subseteq saves' /\ Live' = saves' \ saves
  <2>1. ASSUME NEW s \in saves', s \notin saves
        PROVE  \E d \in Started : s = new(d)
    BY <2>1, <1>1
  <2>2. ASSUME NEW s \in saves', s \notin saves
        PROVE  /\ s \in Save /\ s.doc \in Started /\ s.file = uri'[s.doc] /\ s.text = text[s.doc]
               /\ s.stage = "waits" /\ ~s.cancelled
               /\ s = new(s.doc)
    <3>1. PICK d \in Started : s = new(d) BY <2>1, <2>2
    <3> QED BY <3>1, <1>8
  <2>3. \A s, t \in saves' : s \notin saves /\ t \notin saves /\ s.doc = t.doc => s = t
    <3> SUFFICES ASSUME NEW s \in saves', NEW t \in saves', s \notin saves, t \notin saves,
                        s.doc = t.doc
                 PROVE  s = t
      OBVIOUS
    <3>1. s = new(s.doc) /\ t = new(t.doc) BY <2>2
    <3> QED BY <3>1
  <2>4. ASSUME NEW d \in Started PROVE \E s \in saves' : s.doc = d /\ ~s.cancelled
    <3>1. new(d) \in {new(e) : e \in Started} OBVIOUS
    <3>2. new(d) \in saves' BY <3>1, <1>new
    <3> QED BY <3>2, <1>8
  <2>5. saves \subseteq saves' BY <1>1
  <2>6. Live' = saves' \ saves
    <3>1. \A s \in saves : s.cancelled BY <1>9 DEF Live
    <3>2. \A s \in saves' : s \notin saves => ~s.cancelled BY <2>2
    <3> QED BY <3>1, <3>2, <2>5 DEF Live
  <2> QED BY <2>2, <2>3, <2>4, <2>5, <2>6
<1> HIDE DEF new
<1>11. met \subseteq met' /\ met' \subseteq Situations
  <2>1. {"empty text", "delete pending"} \subseteq Situations BY DEF Situations
  <2> QED BY <2>1, <1>0, <1>1 DEF Meets, When, TypeOK
<1>12. /\ Apart' => Apart
       /\ Recoverable' => Recoverable
       /\ Repaid' => Repaid
       /\ Unmet({"empty text"})' => Unmet({"empty text"})
  BY <1>11, MetGrows
<1>13. Apart' => \A d \in fresh : path[d] \notin deletes BY <1>1 DEF Meets, When, Apart, Unmet
<1>14. Unmet({"empty text"})' => Started = need BY <1>1 DEF Meets, When, Unmet
<1>15. action' \in [Docs -> {Null, "save", "freed"}]
      /\ \A d \in Started : action'[d] = "save"
  BY <1>0, <1>2, <1>4 DEF TypeOK
<1>16. TypeOK'
  <2>1. saves' \subseteq Save BY <1>0, <1>10 DEF TypeOK
  <2> QED BY <2>1, <1>0, <1>2, <1>6, <1>11, <1>15 DEF TypeOK
<1>17. Off' BY <1>2 DEF Off
<1>18. Concerned'
  <2>1. \A d \in need \union journal : status[d] = "open" /\ modified[d]
    BY <1>0 DEF Concerned, TypeOK
  <2>2. \A d \in Docs : status[d] = "closed" => uri'[d] = Null
    BY <1>0, <1>4, <1>5 DEF Concerned
  <2>3. \A d \in Docs : uri[d] # Null => uri'[d] # Null BY <1>5
  <2> QED BY <2>1, <2>2, <2>3, <1>0, <1>2 DEF Concerned
<1>19. LiveSaves' BY <1>2, <1>4, <1>10, <1>15 DEF LiveSaves
<1>20. OneEntry' BY <1>0, <1>2 DEF OneEntry
<1>21. NamesTaken'
  <2> SUFFICES ASSUME Apart' PROVE NamesTaken!2' BY DEF NamesTaken
  <2>0. NamesTaken!2 BY <1>0, <1>12 DEF NamesTaken
  <2>1. \A d \in Docs : d \notin fresh /\ uri'[d] # Null =>
           uri'[d] = uri[d] /\ files[uri[d]] # Null /\ uri[d] \notin deletes
    BY <2>0, <1>2, <1>5
  <2>2. ASSUME NEW d \in Docs, NEW e \in Docs, d # e, uri'[d] # Null PROVE uri'[d] # uri'[e]
    <3>1. CASE d \in fresh /\ e \in fresh BY <3>1, <2>2, <1>3, <1>5
    <3>2. CASE d \in fresh /\ e \notin fresh BY <3>2, <2>2, <2>1, <1>3, <1>5
    <3>3. CASE d \notin fresh /\ e \in fresh BY <3>3, <2>2, <2>1, <1>3, <1>5
    <3>4. CASE d \notin fresh /\ e \notin fresh BY <3>4, <2>2, <2>0, <1>5
    <3> QED BY <3>1, <3>2, <3>3, <3>4
  <2>3. ASSUME NEW d \in Docs, uri'[d] # Null
        PROVE  /\ d \notin progress' => files'[uri'[d]] # Null
               /\ uri'[d] \notin deletes'
    <3>1. d \notin need => d \notin fresh OBVIOUS
    <3>2. d \notin progress' => files'[uri'[d]] # Null BY <3>1, <2>1, <2>3, <1>2
    <3>3. uri'[d] \notin deletes' BY <2>1, <2>3, <1>2, <1>5, <1>13
    <3> QED BY <3>2, <3>3
  <2>4. \A s \in Live' : s.stage # "failed" /\ (s.stage = "written" => files'[s.file] # Null)
    BY <1>10
  <2> QED BY <2>0, <2>2, <2>3, <2>4, <1>2
<1>22. ASSUME Recoverable' PROVE SavesCurrent' /\ InJournal' /\ JournalOnDisk'
  <2>0. SavesCurrent /\ InJournal /\ JournalOnDisk BY <1>0, <1>12, <1>22 DEF Kept
  <2>1. saves' = Live' BY <2>0, <1>9, <1>10 DEF SavesCurrent
  <2>2. SavesCurrent' BY <2>0, <2>1, <1>2, <1>9, <1>10 DEF SavesCurrent
  <2>3. \A d \in Docs : d \notin need => uri'[d] = uri[d] BY <1>5
  <2>4. InJournal' BY <2>0, <2>3, <1>2 DEF InJournal
  <2>5. \A d \in journal : uri'[d] = uri[d] BY <1>0, <1>5 DEF Concerned, TypeOK
  <2>6. Entries(journal)' = Entries(journal) BY <2>5, <1>2 DEF Entries
  <2>7. JournalOnDisk' BY <2>0, <2>6, <1>2 DEF JournalOnDisk
  <2> QED BY <2>2, <2>4, <2>7
<1>23. ASSUME Repaid' PROVE OwedOnDisk' /\ OwedInMemory' /\ OwedSaves'
  <2>0. OwedOnDisk /\ OwedInMemory /\ OwedSaves BY <1>0, <1>12, <1>23 DEF Owed
  <2>1. OwedOnDisk' BY <1>2 DEF OwedOnDisk
  <2>2. \A d \in Docs : owed[d] # Null => uri'[d] = uri[d] BY <2>0, <1>2, <1>5 DEF OwedInMemory
  <2>3. OwedInMemory' BY <2>0, <2>2, <1>2 DEF OwedInMemory
  <2>4. OwedSaves' BY <2>0, <1>2, <1>10 DEF OwedSaves
  <2> QED BY <2>1, <2>3, <2>4
<1>24. ProgressEnds'
  <2> SUFFICES ASSUME Unmet({"empty text"})', NEW d \in progress'
               PROVE  action'[d] = "save" /\ \E s \in saves' : Current(d, s)'
    BY DEF ProgressEnds
  <2>1. d \in Started BY <1>2, <1>14
  <2>2. action'[d] = "save" BY <2>1, <1>15
  <2>3. PICK s \in saves' : s.doc = d /\ ~s.cancelled BY <2>1, <1>10
  <2>4. Current(d, s)' BY <2>2, <2>3 DEF Current
  <2> QED BY <2>2, <2>4
<1> QED BY <1>16, <1>17, <1>18, <1>19, <1>20, <1>21, <1>22, <1>23, <1>24 DEF IInv, Kept, Owed

\* The journal is written, or the old one stays on disk and the situation is met.
LEMMA JournalSaved ==
    ASSUME NEW S, SaveJournal(S), met \subseteq Situations
    PROVE  /\ unsaved' = FALSE /\ met \subseteq met' /\ met' \subseteq Situations
           /\ \/ disk' = Entries(S)
              \/ disk' = disk /\ ~Recoverable'
<1>1. "journal write fails" \in Situations BY DEF Situations
<1>2. CASE disk' = Entries(S) /\ UNCHANGED met BY <1>2 DEF SaveJournal
<1>3. CASE Meets({"journal write fails"}) /\ UNCHANGED disk
  <2>1. met' = met \union {"journal write fails"} BY <1>3 DEF Meets
  <2>2. ~Recoverable' BY <2>1 DEF Recoverable, Unmet
  <2> QED BY <1>1, <1>3, <2>1, <2>2 DEF SaveJournal
<1> QED BY <1>2, <1>3 DEF SaveJournal

\* The journal is written: it lists the documents with their files.
LEMMA RunAutosaveJournalIInv == ASSUME IInv, RunAutosaveJournal PROVE IInv'
<1> USE DEF RunAutosaveJournal, docs
<1>0. /\ TypeOK /\ Off /\ Concerned /\ LiveSaves /\ OneEntry
      /\ NamesTaken /\ Kept /\ Owed /\ ProgressEnds
  BY DEF IInv
<1>01. /\ unsaved' = FALSE /\ met \subseteq met' /\ met' \subseteq Situations
       /\ \/ disk' = Entries(journal)
          \/ disk' = disk /\ ~Recoverable'
  BY <1>0, JournalSaved DEF TypeOK
<1>1. /\ Apart' => Apart
      /\ Recoverable' => Recoverable
      /\ Repaid' => Repaid
      /\ Unmet({"empty text"})' => Unmet({"empty text"})
  BY <1>01, MetGrows
<1>2. \A d \in journal : d \in Docs /\ uri[d] # Null BY <1>0 DEF TypeOK, Concerned
<1>3. /\ Entries(journal) \subseteq [doc : Docs, file : Names] /\ Entries(journal) # Null
      /\ \A e \in Entries(journal) : e.doc \in journal /\ e.file = uri[e.doc]
      /\ \A d \in journal : \E e \in Entries(journal) : e.doc = d
      /\ \A e, f \in Entries(journal) : e.doc = f.doc => e = f
  BY <1>0, <1>2, EntriesFacts DEF TypeOK
<1>4. Entries(journal)' = Entries(journal) BY DEF Entries
<1>5. TypeOK' BY <1>0, <1>01, <1>3 DEF TypeOK
<1>6. Off' BY <1>01 DEF Off
<1>7. Concerned' BY <1>0 DEF Concerned
<1>8. LiveSaves' BY <1>0 DEF LiveSaves, Live
<1>9. OneEntry' BY <1>0, <1>01, <1>3 DEF OneEntry
<1>10. NamesTaken'
  <2> SUFFICES ASSUME Apart' PROVE NamesTaken!2' BY DEF NamesTaken
  <2>0. NamesTaken!2 BY <1>0, <1>1 DEF NamesTaken
  <2>1. ASSUME disk' # Null, NEW e \in disk', NEW f \in disk', e.file = f.file PROVE e = f
    <3>1. CASE disk' = disk BY <3>1, <2>0, <2>1
    <3>2. CASE disk' = Entries(journal)
      <4>1. e.doc \in journal /\ f.doc \in journal /\ uri[e.doc] = uri[f.doc]
        BY <3>2, <2>1, <1>3
      <4>2. e.doc = f.doc BY <2>0, <4>1, <1>2
      <4> QED BY <3>2, <4>2, <1>3
    <3> QED BY <3>1, <3>2, <1>01
  <2> QED BY <2>0, <2>1 DEF Live
<1>11. ASSUME Recoverable' PROVE SavesCurrent' /\ InJournal' /\ JournalOnDisk'
  <2>0. SavesCurrent /\ InJournal /\ JournalOnDisk BY <1>0, <1>1, <1>11 DEF Kept
  <2> QED BY <2>0, <1>01, <1>4, <1>11 DEF SavesCurrent, Live, InJournal, JournalOnDisk
<1>12. ASSUME Repaid' PROVE OwedOnDisk' /\ OwedInMemory' /\ OwedSaves'
  <2>0. OwedOnDisk /\ OwedInMemory /\ OwedSaves BY <1>0, <1>1, <1>12 DEF Owed
  <2>1. OwedOnDisk' BY DEF OwedOnDisk
  <2>2. OwedInMemory' BY <2>0, <1>01, <1>3 DEF OwedInMemory
  <2>3. OwedSaves' BY <2>0 DEF OwedSaves
  <2> QED BY <2>1, <2>2, <2>3
<1>13. ProgressEnds' BY <1>0, <1>1 DEF ProgressEnds, Current
<1> QED BY <1>5, <1>6, <1>7, <1>8, <1>9, <1>10, <1>11, <1>12, <1>13 DEF IInv, Kept, Owed

\* A save goes on to another stage; it is the same save in any other respect.
LEMMA StageMoves ==
    ASSUME TypeOK, LiveSaves, NEW s \in saves,
           NEW stage \in {"waits", "writes", "written", "failed"},
           saves' = (saves \ {s}) \union {[s EXCEPT !.stage = stage]},
           progress' = progress, action' = action, uri' = uri
    PROVE  /\ saves' \subseteq Save /\ LiveSaves'
           /\ \A t \in saves' : \/ t \in saves /\ t # s
                                \/ /\ t.doc = s.doc /\ t.file = s.file /\ t.text = s.text
                                   /\ t.cancelled = s.cancelled /\ t.stage = stage
           /\ \A d \in Docs : (\E t \in saves : Current(d, t)) => \E t \in saves' : Current(d, t)'
<1> DEFINE m == [s EXCEPT !.stage = stage]
<1>1. s \in Save BY DEF TypeOK
<1>2. /\ m \in Save /\ m.doc = s.doc /\ m.file = s.file /\ m.text = s.text
      /\ m.cancelled = s.cancelled /\ m.stage = stage
  BY <1>1 DEF Save
<1>3. saves' = (saves \ {s}) \union {m} OBVIOUS
<1> HIDE DEF m
<1>4. saves' \subseteq Save BY <1>2, <1>3 DEF TypeOK
<1>5. \A t \in saves' : \/ t \in saves /\ t # s
                        \/ /\ t.doc = s.doc /\ t.file = s.file /\ t.text = s.text
                           /\ t.cancelled = s.cancelled /\ t.stage = stage
  BY <1>2, <1>3
<1>6. \A t \in Live' : \/ t \in Live /\ t # s
                       \/ t = m /\ s \in Live
  BY <1>2, <1>3 DEF Live
<1>7. LiveSaves'
  <2>1. ASSUME NEW t \in Live'
        PROVE  t.doc \in progress' /\ action'[t.doc] = "save" /\ uri'[t.doc] = t.file
    BY <1>6, <1>2 DEF LiveSaves
  <2>2. \A t, u \in Live' : t.doc = u.doc => t = u BY <1>6, <1>2 DEF LiveSaves
  <2> QED BY <2>1, <2>2 DEF LiveSaves
<1>8. ASSUME NEW d \in Docs, NEW t \in saves, Current(d, t) PROVE \E u \in saves' : Current(d, u)'
  <2>1. CASE t = s
    <3>1. Current(d, m)' BY <2>1, <1>2, <1>8 DEF Current
    <3> QED BY <3>1, <1>3
  <2>2. CASE t # s
    <3>1. t \in saves' /\ Current(d, t)' BY <2>2, <1>3, <1>8 DEF Current
    <3> QED BY <3>1
  <2> QED BY <2>1, <2>2
<1> QED BY <1>4, <1>5, <1>7, <1>8

\* A save begins to write.
LEMMA StartIInv == ASSUME IInv, NEW s \in saves, Start(s) PROVE IInv'
<1> USE DEF docs, memory
<1>0. /\ TypeOK /\ Off /\ Concerned /\ LiveSaves /\ OneEntry
      /\ NamesTaken /\ Kept /\ Owed /\ ProgressEnds
  BY DEF IInv
<1>1. /\ saves' = (saves \ {s}) \union {[s EXCEPT !.stage = "writes"]}
      /\ UNCHANGED <<up, docs, memory, deletes, files, disk, owed, met>>
  BY DEF Start
<1>2. /\ Apart' => Apart
      /\ Recoverable' => Recoverable
      /\ Repaid' => Repaid
      /\ Unmet({"empty text"})' => Unmet({"empty text"})
  BY <1>1, MetGrows
<1>3. /\ saves' \subseteq Save /\ LiveSaves'
      /\ \A t \in saves' : \/ t \in saves /\ t # s
                           \/ /\ t.doc = s.doc /\ t.file = s.file /\ t.text = s.text
                              /\ t.cancelled = s.cancelled /\ t.stage = "writes"
      /\ \A d \in Docs : (\E t \in saves : Current(d, t)) => \E t \in saves' : Current(d, t)'
  BY <1>0, <1>1, StageMoves
<1>4. TypeOK' BY <1>0, <1>1, <1>3 DEF TypeOK
<1>5. Off' BY <1>0, <1>1, Running DEF Off
<1>6. Concerned' BY <1>0, <1>1 DEF Concerned
<1>7. OneEntry' BY <1>0, <1>1 DEF OneEntry
<1>8. NamesTaken' BY <1>0, <1>1, <1>2, <1>3 DEF NamesTaken, Live
<1>9. ASSUME Recoverable' PROVE SavesCurrent' /\ InJournal' /\ JournalOnDisk'
  <2>0. SavesCurrent /\ InJournal /\ JournalOnDisk BY <1>0, <1>2, <1>9 DEF Kept
  <2>1. SavesCurrent' BY <2>0, <1>1, <1>3 DEF SavesCurrent, Live
  <2> QED BY <2>0, <2>1, <1>1 DEF InJournal, JournalOnDisk, Entries
<1>10. ASSUME Repaid' PROVE OwedOnDisk' /\ OwedInMemory' /\ OwedSaves'
  <2>0. OwedOnDisk /\ OwedInMemory /\ OwedSaves BY <1>0, <1>2, <1>10 DEF Owed
  <2> QED BY <2>0, <1>1, <1>3 DEF OwedOnDisk, OwedInMemory, OwedSaves
<1>11. ProgressEnds' BY <1>0, <1>1, <1>2, <1>3 DEF ProgressEnds, TypeOK
<1> QED BY <1>3, <1>4, <1>5, <1>6, <1>7, <1>8, <1>9, <1>10, <1>11 DEF IInv, Kept, Owed

\* A file is replaced: it is that of the document of the save, which has its text or is going
\* to be saved again.
LEMMA WriteIInv == ASSUME IInv, NEW s \in saves, Write(s) PROVE IInv'
<1> USE DEF docs, memory
<1>0. /\ TypeOK /\ Off /\ Concerned /\ LiveSaves /\ OneEntry
      /\ NamesTaken /\ Kept /\ Owed /\ ProgressEnds
  BY DEF IInv
<1> DEFINE to(stage) == saves' = (saves \ {s}) \union {[s EXCEPT !.stage = stage]}
<1>1. /\ s.stage = "writes"
      /\ UNCHANGED <<up, docs, memory, deletes, disk, owed>>
      /\ \/ to("written") /\ files' = [files EXCEPT ![s.file] = s.text] /\ met' = met
         \/ to("failed") /\ files' = files /\ Meets(When(~s.cancelled, "write fails"))
  BY DEF Write
<1>2. PICK stage \in {"written", "failed"} :
        /\ to(stage)
        /\ stage = "written" => files' = [files EXCEPT ![s.file] = s.text] /\ met' = met
        /\ stage = "failed" => files' = files /\ Meets(When(~s.cancelled, "write fails"))
  BY <1>1
<1>3. met \subseteq met' /\ met' \subseteq Situations
  <2>1. "write fails" \in Situations BY DEF Situations
  <2> QED BY <2>1, <1>0, <1>2 DEF Meets, When, TypeOK
<1>4. /\ Apart' => Apart
      /\ Recoverable' => Recoverable
      /\ Repaid' => Repaid
      /\ Unmet({"empty text"})' => Unmet({"empty text"})
  BY <1>3, MetGrows
<1>5. Apart' /\ stage = "failed" => s.cancelled BY <1>2 DEF Meets, When, Apart, Unmet
<1>6. /\ saves' \subseteq Save /\ LiveSaves'
      /\ \A t \in saves' : \/ t \in saves /\ t # s
                           \/ /\ t.doc = s.doc /\ t.file = s.file /\ t.text = s.text
                              /\ t.cancelled = s.cancelled /\ t.stage = stage
      /\ \A d \in Docs : (\E t \in saves : Current(d, t)) => \E t \in saves' : Current(d, t)'
  <2>1. stage \in {"waits", "writes", "written", "failed"} OBVIOUS
  <2>2. saves' = (saves \ {s}) \union {[s EXCEPT !.stage = stage]} BY <1>2
  <2>3. progress' = progress /\ action' = action /\ uri' = uri BY <1>1
  <2> QED BY <2>1, <2>2, <2>3, <1>0, StageMoves
<1>7. s \in Save /\ s.file \in Names /\ s.text \in Contents /\ s.text # Null
  BY <1>0, TextAssumption DEF TypeOK, Save
<1>8. /\ files' \in [Names -> Contents \union {Null}]
      /\ \A n \in Names : /\ files[n] # Null => files'[n] # Null
                          /\ n # s.file => files'[n] = files[n]
      /\ stage = "written" => files'[s.file] = s.text
  BY <1>0, <1>2, <1>7 DEF TypeOK
<1>9. \A d \in Docs : uri[d] # Null => uri[d] \in Names BY <1>0 DEF TypeOK
<1>10. ~s.cancelled =>
         /\ s.doc \in Docs /\ s.doc \in progress /\ uri[s.doc] = s.file /\ s.file # Null
         /\ status[s.doc] = "open" /\ modified[s.doc]
  BY <1>0, LiveFacts
<1>11. TypeOK' BY <1>0, <1>1, <1>3, <1>6, <1>8 DEF TypeOK
<1>12. up BY <1>0, Running
<1>13. Off' BY <1>1, <1>12 DEF Off
<1>14. Concerned' BY <1>0, <1>1 DEF Concerned
<1>15. OneEntry' BY <1>0, <1>1 DEF OneEntry
<1>16. NamesTaken'
  <2> SUFFICES ASSUME Apart' PROVE NamesTaken!2' BY DEF NamesTaken
  <2>0. NamesTaken!2 BY <1>0, <1>4 DEF NamesTaken
  <2>1. \A d \in Docs : uri'[d] # Null => /\ d \notin progress' => files'[uri'[d]] # Null
                                          /\ uri'[d] \notin deletes'
    BY <2>0, <1>1, <1>8, <1>9
  <2>2. ASSUME NEW t \in Live'
        PROVE  t.stage # "failed" /\ (t.stage = "written" => files'[t.file] # Null)
    <3>1. CASE t \in saves /\ t # s
      <4>1. t \in Live /\ t.file \in Names BY <3>1, <1>0 DEF Live, TypeOK, Save
      <4> QED BY <4>1, <2>0, <1>8
    <3>2. CASE t.file = s.file /\ t.cancelled = s.cancelled /\ t.stage = stage
      <4>1. stage = "written" BY <3>2, <1>5 DEF Live
      <4> QED BY <4>1, <3>2, <1>7, <1>8
    <3> QED BY <3>1, <3>2, <1>6 DEF Live
  <2> QED BY <2>0, <2>1, <2>2, <1>1
<1>17. ASSUME Recoverable'
       PROVE  /\ SavesCurrent' /\ InJournal' /\ JournalOnDisk'
              /\ ~s.cancelled /\ stage = "written"
              /\ \A d \in Docs : d # s.doc => uri[d] # s.file
  <2>0. SavesCurrent /\ InJournal /\ JournalOnDisk BY <1>0, <1>4, <1>17 DEF Kept
  <2>1. Apart' /\ NamesTaken!2 BY <1>0, <1>4, <1>17, ListsNext DEF NamesTaken
  <2>2. ~s.cancelled /\ stage = "written" BY <2>0, <2>1, <1>5 DEF SavesCurrent, Live
  <2>3. \A d \in Docs : d # s.doc => uri[d] # s.file BY <2>1, <2>2, <1>10
  <2>4. \A t \in saves' : ~t.cancelled BY <2>0, <2>2, <1>6 DEF SavesCurrent, Live
  <2>5. ASSUME NEW t \in saves'
        PROVE  /\ t.stage = "written" => files'[t.file] = t.text
               /\ t.doc \notin need' => t.text = text'[t.doc]
    <3>1. CASE t \in saves /\ t # s
      <4>1. t \in Live BY <3>1, <2>0 DEF SavesCurrent
      <4>2. t.doc # s.doc BY <3>1, <4>1, <2>0, <1>0 DEF SavesCurrent, LiveSaves
      <4>3. t.doc \in Docs /\ uri[t.doc] = t.file /\ t.file \in Names
        BY <4>1, <1>0 DEF LiveSaves, Live, TypeOK, Save
      <4>4. files'[t.file] = files[t.file] BY <4>2, <4>3, <2>3, <1>8
      <4> QED BY <3>1, <4>4, <2>0, <1>1 DEF SavesCurrent
    <3>2. CASE t.doc = s.doc /\ t.file = s.file /\ t.text = s.text
      BY <3>2, <2>0, <2>2, <1>1, <1>8 DEF SavesCurrent
    <3> QED BY <3>1, <3>2, <1>6
  <2>6. SavesCurrent' BY <2>4, <2>5 DEF SavesCurrent, Live
  <2>7. InJournal'
    <3> SUFFICES ASSUME NEW d \in Docs, modified[d], d \notin need \union progress
                 PROVE  d \in journal /\ files'[uri[d]] = text[d]
      BY <1>1 DEF InJournal
    <3>1. d \in journal /\ files[uri[d]] = text[d] BY <2>0 DEF InJournal
    <3>2. uri[d] # Null /\ uri[d] \in Names BY <3>1, <1>0, <1>9 DEF Concerned
    <3>3. d # s.doc BY <2>2, <1>10
    <3> QED BY <3>1, <3>2, <3>3, <2>3, <1>8
  <2>8. JournalOnDisk' BY <2>0, <1>1 DEF JournalOnDisk, Entries
  <2> QED BY <2>2, <2>3, <2>6, <2>7, <2>8
<1>18. ASSUME Repaid' PROVE OwedOnDisk' /\ OwedInMemory' /\ OwedSaves'
  <2>0. OwedOnDisk /\ OwedInMemory /\ OwedSaves BY <1>0, <1>4, <1>18 DEF Owed
  <2>1. /\ ~s.cancelled /\ stage = "written"
        /\ \A d \in Docs : d # s.doc => uri[d] # s.file
    BY <1>17, <1>18, ListsNext
  <2>2. OwedOnDisk' BY <1>1, <1>12 DEF OwedOnDisk
  <2>3. ASSUME NEW d \in Docs, owed[d] # Null PROVE files'[uri[d]] = owed[d]
    <3>1. /\ uri[d] \in Names /\ files[uri[d]] = owed[d]
          /\ status[d] = "recovering" \/ text[d] = owed[d]
      BY <2>0, <2>3, <1>9, <1>12 DEF OwedInMemory
    <3>2. CASE d = s.doc
      <4>1. s.text = text[d] /\ text[d] = owed[d] /\ uri[d] = s.file
        BY <3>1, <3>2, <2>0, <2>1, <2>3, <1>10 DEF OwedSaves
      <4> QED BY <4>1, <2>1, <1>8
    <3>3. CASE d # s.doc BY <3>1, <3>3, <2>1, <1>8
    <3> QED BY <3>2, <3>3
  <2>4. OwedInMemory' BY <2>0, <2>3, <1>1 DEF OwedInMemory
  <2>5. OwedSaves' BY <2>0, <1>1, <1>6 DEF OwedSaves
  <2> QED BY <2>2, <2>4, <2>5
<1>19. ProgressEnds' BY <1>0, <1>1, <1>4, <1>6 DEF ProgressEnds, TypeOK
<1> QED BY <1>6, <1>11, <1>13, <1>14, <1>15, <1>16, <1>17, <1>18, <1>19 DEF IInv, Kept, Owed

\* A save is done: its document is in the journal, unless the save failed or was cancelled.
LEMMA CompleteIInv == ASSUME IInv, NEW s \in saves, Complete(s) PROVE IInv'
<1> USE DEF docs
<1>0. /\ TypeOK /\ Off /\ Concerned /\ LiveSaves /\ OneEntry
      /\ NamesTaken /\ Kept /\ Owed /\ ProgressEnds
  BY DEF IInv
<1>1. /\ s.stage \in {"written", "failed"}
      /\ saves' = saves \ {s} /\ progress' = ProgressAfter(s) /\ journal' = JournalAfter(s)
      /\ action' = IF s.cancelled THEN action
                   ELSE [action EXCEPT ![s.doc] = IF s.stage = "failed" THEN "freed" ELSE Null]
      /\ UNCHANGED <<up, docs, need, uri, deletes, files, owed>>
  BY DEF Complete
<1>2. /\ met \subseteq met' /\ met' \subseteq Situations
      /\ \/ disk' = Entries(journal') /\ unsaved' = FALSE
         \/ disk' = disk /\ unsaved' = (unsaved \/ journal' # journal)
         \/ disk' = disk /\ unsaved' = FALSE /\ ~Recoverable'
  <2>1. met \subseteq Situations BY <1>0 DEF TypeOK
  <2>2. CASE progress' = {} /\ UnsavedAfter(s)
    <3>1. SaveJournal(journal') BY <2>2 DEF Complete
    <3> QED BY <2>1, <3>1, JournalSaved
  <2>3. CASE ~(progress' = {} /\ UnsavedAfter(s))
    <3>1. unsaved' = UnsavedAfter(s) /\ UNCHANGED <<disk, met>> BY <2>3 DEF Complete
    <3> QED BY <2>1, <3>1, <1>1 DEF UnsavedAfter
  <2> QED BY <2>2, <2>3
<1>3. /\ Apart' => Apart
      /\ Recoverable' => Recoverable
      /\ Repaid' => Repaid
      /\ Unmet({"empty text"})' => Unmet({"empty text"})
  BY <1>2, MetGrows
<1>4. s \in Save /\ s.doc \in Docs BY <1>0 DEF TypeOK, Save
<1>5. ~s.cancelled =>
         /\ s \in Live /\ s.doc \in progress /\ uri[s.doc] = s.file /\ s.file # Null
         /\ status[s.doc] = "open" /\ modified[s.doc]
  BY <1>0, LiveFacts
<1>6. /\ progress' \subseteq progress /\ journal \subseteq journal' /\ journal' \subseteq Docs
      /\ s.cancelled => progress' = progress /\ journal' = journal
      /\ ~s.cancelled => progress' = progress \ {s.doc}
      /\ \A d \in journal' : d \in journal \/ (d = s.doc /\ ~s.cancelled /\ s.stage # "failed")
      /\ ~s.cancelled /\ s.stage # "failed" => s.doc \in journal'
  BY <1>0, <1>1, <1>4 DEF ProgressAfter, JournalAfter, TypeOK
<1>7. action' \in [Docs -> {Null, "save", "freed"}]
      /\ \A d \in Docs : d # s.doc \/ s.cancelled => action'[d] = action[d]
  BY <1>0, <1>1, <1>4 DEF TypeOK
<1>8. \A t \in Live' : t \in Live /\ (t.doc = s.doc => s.cancelled)
  BY <1>0, <1>1, <1>5 DEF Live, LiveSaves
<1>9. \A d \in journal' : uri[d] # Null /\ d \in Docs
  BY <1>0, <1>4, <1>5, <1>6 DEF Concerned, TypeOK
<1>10. /\ Entries(journal') \subseteq [doc : Docs, file : Names] /\ Entries(journal') # Null
       /\ \A e \in Entries(journal') : e.doc \in journal' /\ e.file = uri[e.doc]
       /\ \A d \in journal' : \E e \in Entries(journal') : e.doc = d
       /\ \A e, f \in Entries(journal') : e.doc = f.doc => e = f
  BY <1>0, <1>6, <1>9, EntriesFacts
<1>11. Entries(journal') = Entries(journal)' BY <1>1 DEF Entries
<1>12. TypeOK'
  <2>1. disk' = Null \/ disk' \subseteq [doc : Docs, file : Names] BY <1>0, <1>2, <1>10 DEF TypeOK
  <2>2. unsaved' \in BOOLEAN BY <1>0, <1>2 DEF TypeOK
  <2> QED BY <2>1, <2>2, <1>0, <1>1, <1>2, <1>6, <1>7 DEF TypeOK
<1>13. Off' BY <1>0, <1>1, Running DEF Off
<1>14. Concerned'
  <2>1. \A d \in Docs : d \in need' \union progress' \union journal' =>
                 status[d] = "open" /\ modified[d]
    BY <1>0, <1>1, <1>5, <1>6 DEF Concerned
  <2> QED BY <2>1, <1>0, <1>1, <1>9 DEF Concerned
<1>15. LiveSaves'
  <2>1. ASSUME NEW t \in Live'
        PROVE  t.doc \in progress' /\ action'[t.doc] = "save" /\ uri'[t.doc] = t.file
    <3>1. t.doc \in Docs BY <1>0, <1>8 DEF Live, TypeOK, Save
    <3> QED BY <3>1, <1>0, <1>1, <1>6, <1>7, <1>8 DEF LiveSaves
  <2>2. \A t, u \in Live' : t.doc = u.doc => t = u BY <1>0, <1>8 DEF LiveSaves
  <2> QED BY <2>1, <2>2 DEF LiveSaves
<1>16. OneEntry' BY <1>0, <1>2, <1>10 DEF OneEntry
<1>17. NamesTaken'
  <2> SUFFICES ASSUME Apart' PROVE NamesTaken!2' BY DEF NamesTaken
  <2>0. NamesTaken!2 BY <1>0, <1>3 DEF NamesTaken
  <2>1. ~s.cancelled => files[s.file] # Null BY <2>0, <1>1, <1>5
  <2>2. \A d \in Docs : uri'[d] # Null => /\ d \notin progress' => files'[uri'[d]] # Null
                                          /\ uri'[d] \notin deletes'
    BY <2>0, <2>1, <1>1, <1>5, <1>6
  <2>3. \A t \in Live' : t.stage # "failed" /\ (t.stage = "written" => files'[t.file] # Null)
    BY <2>0, <1>1, <1>8
  <2>4. ASSUME disk' # Null, NEW e \in disk', NEW f \in disk', e.file = f.file PROVE e = f
    <3>1. CASE disk' = disk BY <3>1, <2>0, <2>4
    <3>2. CASE disk' = Entries(journal')
      <4>1. e.doc \in Docs /\ f.doc \in Docs /\ uri[e.doc] = uri[f.doc] /\ uri[e.doc] # Null
        BY <3>2, <2>4, <1>9, <1>10
      <4>2. e.doc = f.doc BY <2>0, <4>1
      <4> QED BY <3>2, <4>2, <1>10
    <3> QED BY <3>1, <3>2, <1>2
  <2> QED BY <2>0, <2>2, <2>3, <2>4, <1>1
<1>18. ASSUME Recoverable' PROVE SavesCurrent' /\ InJournal' /\ JournalOnDisk'
  <2>0. SavesCurrent /\ InJournal /\ JournalOnDisk BY <1>0, <1>3, <1>18 DEF Kept
  <2>1. Apart' /\ NamesTaken!2 BY <1>0, <1>3, <1>18, ListsNext DEF NamesTaken
  <2>2. s \in Live /\ ~s.cancelled /\ s.stage = "written"
    BY <2>0, <2>1, <1>1 DEF SavesCurrent, Live
  <2>3. saves' = Live' BY <2>0, <1>1 DEF SavesCurrent, Live
  <2>4. SavesCurrent' BY <2>0, <2>3, <1>1 DEF SavesCurrent
  <2>5. ASSUME NEW d \in Docs, modified[d], d \notin need \union progress'
        PROVE  d \in journal' /\ files[uri[d]] = text[d]
    <3>1. CASE d = s.doc
      BY <3>1, <2>0, <2>2, <2>5, <1>5, <1>6 DEF SavesCurrent
    <3>2. CASE d # s.doc BY <3>2, <2>0, <2>2, <2>5, <1>6 DEF InJournal
    <3> QED BY <3>1, <3>2
  <2>6. InJournal' BY <2>5, <1>1 DEF InJournal
  <2>7. JournalOnDisk'
    <3>1. CASE disk' = Entries(journal') BY <3>1, <1>11 DEF JournalOnDisk
    <3>2. CASE disk' = disk /\ unsaved' = (unsaved \/ journal' # journal)
      <4> SUFFICES ASSUME up, ~unsaved, journal' = journal
                   PROVE  disk = Entries(journal') \/ (disk = Null /\ journal' = {})
        BY <3>2, <1>1, <1>11 DEF JournalOnDisk
      <4> QED BY <2>0 DEF JournalOnDisk
    <3> QED BY <3>1, <3>2, <1>2, <1>18
  <2> QED BY <2>4, <2>6, <2>7
<1>19. ASSUME Repaid' PROVE OwedOnDisk' /\ OwedInMemory' /\ OwedSaves'
  <2>0. OwedOnDisk /\ OwedInMemory /\ OwedSaves BY <1>0, <1>3, <1>19 DEF Owed
  <2>1. OwedOnDisk' BY <1>0, <1>1, Running DEF OwedOnDisk
  <2>2. \A d \in Docs : owed[d] # Null /\ up /\ disk' # Null =>
           \A e \in disk' : e.doc = d => e.file = uri[d]
    BY <2>0, <1>2, <1>10 DEF OwedInMemory
  <2>3. OwedInMemory' BY <2>0, <2>2, <1>1 DEF OwedInMemory
  <2>4. OwedSaves' BY <2>0, <1>1 DEF OwedSaves
  <2> QED BY <2>1, <2>3, <2>4
<1>20. ProgressEnds'
  <2> SUFFICES ASSUME Unmet({"empty text"})', NEW d \in progress'
               PROVE  action'[d] = "save" /\ \E t \in saves' : Current(d, t)'
    BY DEF ProgressEnds
  <2>1. d \in progress /\ d \in Docs /\ (d = s.doc => s.cancelled) BY <1>0, <1>6 DEF TypeOK
  <2>2. PICK t \in saves : Current(d, t) BY <2>1, <1>0, <1>3 DEF ProgressEnds
  <2>3. t # s BY <2>1, <2>2 DEF Current
  <2>4. action'[d] = "save" BY <2>1, <2>2, <1>7 DEF Current
  <2>5. t \in saves' /\ Current(d, t)' BY <2>2, <2>3, <2>4, <1>1 DEF Current
  <2> QED BY <2>4, <2>5
<1> QED BY <1>12, <1>13, <1>14, <1>15, <1>16, <1>17, <1>18, <1>19, <1>20 DEF IInv, Kept, Owed

\* A file is deleted: it is that of no document.
LEMMA DeleteIInv == ASSUME IInv, NEW n \in Names, Delete(n) PROVE IInv'
<1> USE DEF docs, memory
<1>0. /\ TypeOK /\ Off /\ Concerned /\ LiveSaves /\ OneEntry
      /\ NamesTaken /\ Kept /\ Owed /\ ProgressEnds
  BY DEF IInv
<1>1. /\ n \in deletes /\ deletes' = deletes \ {n} /\ files' = [files EXCEPT ![n] = Null]
      /\ UNCHANGED <<up, docs, memory, saves, disk, owed, met>>
  BY DEF Delete
<1>2. /\ Apart' => Apart
      /\ Recoverable' => Recoverable
      /\ Repaid' => Repaid
      /\ Unmet({"empty text"})' => Unmet({"empty text"})
  BY <1>1, MetGrows
<1>3. up BY <1>0, <1>1, Running
<1>4. /\ files' \in [Names -> Contents \union {Null}]
      /\ \A m \in Names : m # n => files'[m] = files[m]
  BY <1>0, <1>1 DEF TypeOK
<1>5. ASSUME Apart'
      PROVE  /\ \A d \in Docs : uri[d] # Null => uri[d] \in Names /\ files'[uri[d]] = files[uri[d]]
             /\ \A s \in Live : s.doc \in Docs /\ s.file \in Names /\ files'[s.file] = files[s.file]
  <2>0. NamesTaken!2 BY <1>0, <1>2, <1>5 DEF NamesTaken
  <2>1. \A d \in Docs : uri[d] # Null => uri[d] \in Names /\ files'[uri[d]] = files[uri[d]]
    BY <2>0, <1>0, <1>1, <1>4 DEF TypeOK
  <2>2. \A s \in Live : s.doc \in Docs /\ s.file \in Names /\ uri[s.doc] = s.file /\ s.file # Null
    BY <1>0, NullAssumption DEF LiveSaves, Live, TypeOK, Save
  <2> QED BY <2>1, <2>2
<1>6. TypeOK' BY <1>0, <1>1, <1>4 DEF TypeOK
<1>7. Off' BY <1>1, <1>3 DEF Off
<1>8. Concerned' BY <1>0, <1>1 DEF Concerned
<1>9. LiveSaves' /\ OneEntry' BY <1>0, <1>1 DEF LiveSaves, Live, OneEntry
<1>10. NamesTaken' BY <1>0, <1>1, <1>2, <1>5 DEF NamesTaken, Live
<1>11. ASSUME Recoverable' PROVE SavesCurrent' /\ InJournal' /\ JournalOnDisk'
  <2>0. SavesCurrent /\ InJournal /\ JournalOnDisk BY <1>0, <1>2, <1>11 DEF Kept
  <2>1. Apart' BY <1>11, ListsNext
  <2>2. SavesCurrent' BY <2>0, <2>1, <1>1, <1>5 DEF SavesCurrent, Live
  <2>3. \A d \in journal : uri[d] # Null BY <1>0 DEF Concerned, TypeOK
  <2>4. InJournal' BY <2>0, <2>1, <2>3, <1>1, <1>5 DEF InJournal
  <2>5. JournalOnDisk' BY <2>0, <1>1 DEF JournalOnDisk, Entries
  <2> QED BY <2>2, <2>4, <2>5
<1>12. ASSUME Repaid' PROVE OwedOnDisk' /\ OwedInMemory' /\ OwedSaves'
  <2>0. OwedOnDisk /\ OwedInMemory /\ OwedSaves BY <1>0, <1>2, <1>12 DEF Owed
  <2>1. Apart' BY <1>12, ListsNext
  <2>2. OwedInMemory' BY <2>0, <2>1, <1>1, <1>5 DEF OwedInMemory
  <2> QED BY <2>0, <2>2, <1>1, <1>3 DEF OwedOnDisk, OwedSaves
<1>13. ProgressEnds' BY <1>0, <1>1, <1>2 DEF ProgressEnds, Current
<1> QED BY <1>6, <1>7, <1>8, <1>9, <1>10, <1>11, <1>12, <1>13 DEF IInv, Kept, Owed

\* Applying the preferences forgets that the journal is to be written.
LEMMA ApplyPreferencesIInv == ASSUME IInv, ApplyPreferences PROVE IInv'
<1> USE DEF docs, outside
<1>0. /\ TypeOK /\ Off /\ Concerned /\ LiveSaves /\ OneEntry
      /\ NamesTaken /\ Kept /\ Owed /\ ProgressEnds
  BY DEF IInv
<1>1. /\ up /\ unsaved' = FALSE
      /\ UNCHANGED <<up, docs, need, progress, action, uri, journal, outside, owed>>
  BY DEF ApplyPreferences
<1>2. met' = met \union When(unsaved, "preferences") BY DEF ApplyPreferences, Meets
<1>3. met \subseteq met' /\ met' \subseteq Situations
  <2>1. "preferences" \in Situations BY DEF Situations
  <2> QED BY <2>1, <1>0, <1>2 DEF When, TypeOK
<1>4. /\ Apart' => Apart
      /\ Recoverable' => Recoverable
      /\ Repaid' => Repaid
      /\ Unmet({"empty text"})' => Unmet({"empty text"})
  BY <1>3, MetGrows
<1>5. Recoverable' => ~unsaved BY <1>2 DEF When, Recoverable, Unmet
<1>6. TypeOK' BY <1>0, <1>1, <1>3 DEF TypeOK
<1>7. Off' BY <1>1 DEF Off
<1>8. Concerned' BY <1>0, <1>1 DEF Concerned
<1>9. LiveSaves' /\ OneEntry' BY <1>0, <1>1 DEF LiveSaves, Live, OneEntry
<1>10. NamesTaken' BY <1>0, <1>1, <1>4 DEF NamesTaken, Live
<1>11. ASSUME Recoverable' PROVE SavesCurrent' /\ InJournal' /\ JournalOnDisk'
  <2>0. SavesCurrent /\ InJournal /\ JournalOnDisk BY <1>0, <1>4, <1>11 DEF Kept
  <2> QED BY <2>0, <1>1, <1>5, <1>11 DEF SavesCurrent, Live, InJournal, JournalOnDisk, Entries
<1>12. ASSUME Repaid' PROVE OwedOnDisk' /\ OwedInMemory' /\ OwedSaves'
  <2>0. OwedOnDisk /\ OwedInMemory /\ OwedSaves BY <1>0, <1>4, <1>12 DEF Owed
  <2> QED BY <2>0, <1>1 DEF OwedOnDisk, OwedInMemory, OwedSaves
<1>13. ProgressEnds' BY <1>0, <1>1, <1>4 DEF ProgressEnds, Current
<1> QED BY <1>6, <1>7, <1>8, <1>9, <1>10, <1>11, <1>12, <1>13 DEF IInv, Kept, Owed

-----------------------------------------------------------------------------

\* A program that forgets everything keeps what is only about its memory.
LEMMA ForgetKeeps ==
    ASSUME IInv, Forget
    PROVE  /\ Off' /\ Concerned' /\ LiveSaves' /\ ProgressEnds'
           /\ SavesCurrent' /\ InJournal' /\ JournalOnDisk' /\ OwedInMemory' /\ OwedSaves'
           /\ Live' = {} /\ \A d \in Docs : uri'[d] = Null
<1>1. /\ ~up' /\ need' = {} /\ progress' = {} /\ journal' = {} /\ unsaved' = FALSE
      /\ saves' = {} /\ deletes' = {}
      /\ \A d \in Docs : status'[d] = "closed" /\ modified'[d] = FALSE /\ uri'[d] = Null
  BY DEF Forget
<1>2. Live' = {} BY <1>1 DEF Live
<1>3. Off' /\ Concerned' /\ LiveSaves' /\ ProgressEnds'
  BY <1>1, <1>2 DEF Off, Concerned, LiveSaves, ProgressEnds
<1>4. SavesCurrent' /\ InJournal' /\ JournalOnDisk' /\ OwedInMemory' /\ OwedSaves'
  BY <1>1, <1>2 DEF SavesCurrent, InJournal, JournalOnDisk, OwedInMemory, OwedSaves
<1> QED BY <1>1, <1>2, <1>3, <1>4

\* Forgetting keeps the types.
LEMMA ForgetTypes ==
    ASSUME TypeOK, Forget, disk' = Null \/ disk' = disk,
           owed' \in [Docs -> Texts \union {Null}], met' \subseteq Situations
    PROVE  TypeOK'
<1>1. /\ up' \in BOOLEAN /\ status' \in [Docs -> {"closed", "open", "recovering"}]
      /\ text' \in [Docs -> Texts] /\ modified' \in [Docs -> BOOLEAN]
      /\ need' \subseteq Docs /\ progress' \subseteq Docs
      /\ action' \in [Docs -> {Null, "save", "freed"}]
  BY DEF Forget, Texts
<1>2. /\ uri' \in [Docs -> Names \union {Null}] /\ journal' \subseteq Docs /\ unsaved' \in BOOLEAN
      /\ saves' \subseteq Save /\ deletes' \subseteq Names
      /\ files' \in [Names -> Contents \union {Null}]
  BY DEF Forget, TypeOK
<1>3. disk' = Null \/ disk' \subseteq [doc : Docs, file : Names] BY DEF TypeOK
<1> QED BY <1>1, <1>2, <1>3 DEF TypeOK

\* What a modified document that waits for nothing has to expect (ModifiedIsRecoverable).
LEMMA JournalRecovers ==
    ASSUME TypeOK, Concerned, InJournal, JournalOnDisk, NEW d \in Docs, up, Autosaved(d)
    PROVE  /\ disk # Null
           /\ \E e \in disk : e.doc = d /\ files[e.file] = text[d]
<1>1. modified[d] /\ d \notin need \union progress /\ ~unsaved BY DEF Autosaved
<1>2. d \in journal /\ files[uri[d]] = text[d] BY <1>1 DEF InJournal
<1>3. disk = Entries(journal) BY <1>1, <1>2 DEF JournalOnDisk
<1>4. \A e \in journal : e \in Docs /\ uri[e] # Null BY DEF TypeOK, Concerned
<1>5. /\ Entries(journal) # Null
      /\ \A e \in Entries(journal) : e.doc \in journal /\ e.file = uri[e.doc]
      /\ \E e \in Entries(journal) : e.doc = d
  BY <1>2, <1>4, EntriesFacts DEF TypeOK
<1> QED BY <1>2, <1>3, <1>5

\* What the program kept becomes what the user is owed.
LEMMA CrashIInv == ASSUME IInv, Crash PROVE IInv'
<1>0. /\ TypeOK /\ Off /\ Concerned /\ LiveSaves /\ OneEntry
      /\ NamesTaken /\ Kept /\ Owed /\ ProgressEnds
  BY DEF IInv
<1>1. /\ up /\ Forget /\ disk' = disk /\ files' = files
      /\ owed' = [d \in Docs |-> IF Autosaved(d) THEN text[d] ELSE owed[d]]
  BY DEF Crash, Forget
<1>2. met' = met \union
        When(\E d \in Docs : owed[d] # Null /\ (disk = Null \/ ~\E e \in disk : e.doc = d),
             "crash again")
  BY DEF Crash, Meets
<1>3. met \subseteq met' /\ met' \subseteq Situations
  <2>1. "crash again" \in Situations BY DEF Situations
  <2> QED BY <2>1, <1>0, <1>2 DEF When, TypeOK
<1>4. /\ Apart' => Apart
      /\ Recoverable' => Recoverable
      /\ Repaid' => Repaid
  BY <1>3, MetGrows
<1>5. Repaid' => \A d \in Docs : owed[d] # Null => disk # Null /\ \E e \in disk : e.doc = d
  BY <1>2 DEF When, Repaid, Unmet
<1>6. /\ Off' /\ Concerned' /\ LiveSaves' /\ ProgressEnds'
      /\ SavesCurrent' /\ InJournal' /\ JournalOnDisk' /\ OwedInMemory' /\ OwedSaves'
      /\ Live' = {} /\ \A d \in Docs : uri'[d] = Null
  BY <1>1, ForgetKeeps
<1>7. TypeOK'
  <2>1. owed' \in [Docs -> Texts \union {Null}] BY <1>0, <1>1 DEF TypeOK
  <2> QED BY <2>1, <1>0, <1>1, <1>3, ForgetTypes
<1>8. OneEntry' BY <1>0, <1>1 DEF OneEntry
<1>9. NamesTaken' BY <1>0, <1>1, <1>4, <1>6 DEF NamesTaken
<1>10. Repaid' => OwedOnDisk'
  <2> SUFFICES ASSUME Repaid', NEW d \in Docs, owed'[d] # Null
               PROVE  disk # Null /\ \E e \in disk : e.doc = d /\ files[e.file] = owed'[d]
    BY <1>1 DEF OwedOnDisk
  <2>0. /\ InJournal /\ JournalOnDisk /\ OwedInMemory
    BY <1>0, <1>4, Lists DEF Kept, Owed
  <2>1. CASE Autosaved(d)
    <3>1. owed'[d] = text[d] BY <2>1, <1>1
    <3> QED BY <2>0, <2>1, <3>1, <1>0, <1>1, JournalRecovers
  <2>2. CASE ~Autosaved(d)
    <3>1. owed'[d] = owed[d] BY <2>2, <1>1
    <3>2. disk # Null /\ \E e \in disk : e.doc = d BY <3>1, <1>5
    <3>3. files[uri[d]] = owed[d] /\ \A e \in disk : e.doc = d => e.file = uri[d]
      BY <3>1, <3>2, <2>0, <1>1 DEF OwedInMemory
    <3> QED BY <3>1, <3>2, <3>3
  <2> QED BY <2>1, <2>2
<1> QED BY <1>6, <1>7, <1>8, <1>9, <1>10 DEF IInv, Kept, Owed

\* When all documents are closed nobody is owed a text.
LEMMA QuitIInv == ASSUME IInv, Quit PROVE IInv'
<1>0. /\ TypeOK /\ Off /\ Concerned /\ LiveSaves /\ OneEntry
      /\ NamesTaken /\ Kept /\ Owed /\ ProgressEnds
  BY DEF IInv
<1>1. /\ up /\ (\A d \in Docs : status[d] = "closed") /\ Forget /\ disk' = Null
      /\ owed' = owed /\ met' = met
  BY DEF Quit
<1>2. Repaid' => Repaid BY <1>1, MetGrows
<1>3. /\ Off' /\ Concerned' /\ LiveSaves' /\ ProgressEnds'
      /\ SavesCurrent' /\ InJournal' /\ JournalOnDisk' /\ OwedInMemory' /\ OwedSaves'
      /\ Live' = {} /\ \A d \in Docs : uri'[d] = Null
  BY <1>1, ForgetKeeps
<1>4. TypeOK' BY <1>0, <1>1, ForgetTypes DEF TypeOK
<1>5. OneEntry' BY <1>1 DEF OneEntry
<1>6. NamesTaken' BY <1>1, <1>3 DEF NamesTaken
<1>7. Repaid' => OwedOnDisk' BY <1>0, <1>1, <1>2 DEF Owed, OwedInMemory, OwedOnDisk
<1> QED BY <1>3, <1>4, <1>5, <1>6, <1>7 DEF IInv, Kept, Owed

\* The journal is read: an entry with its file is a document to recover.
LEMMA AutosaveInitIInv == ASSUME IInv, AutosaveInit PROVE IInv'
<1>0. /\ TypeOK /\ Off /\ Concerned /\ LiveSaves /\ OneEntry
      /\ NamesTaken /\ Kept /\ Owed /\ ProgressEnds
  BY DEF IInv
<1>001. PICK entries \in SUBSET Found :
             /\ RecoverEntries(entries) /\ met \subseteq met' /\ met' \subseteq Situations
             /\ Repaid' => entries = Found
  <2>1. "journal read fails" \in Situations BY DEF Situations
  <2>2. CASE RecoverEntries(Found) /\ UNCHANGED met BY <2>2, <1>0 DEF TypeOK
  <2>3. CASE RecoverEntries({}) /\ Meets({"journal read fails"})
    <3>1. met' = met \union {"journal read fails"} BY <2>3 DEF Meets
    <3>2. ~Repaid' BY <3>1 DEF Repaid, Unmet
    <3> QED BY <2>1, <2>3, <3>1, <3>2, <1>0 DEF TypeOK
  <2> QED BY <2>2, <2>3 DEF AutosaveInit
<1> DEFINE found(d) == \E e \in entries : e.doc = d
           entry(d) == CHOOSE e \in entries : e.doc = d
<1>1. /\ ~up /\ up' = TRUE /\ disk' = Null /\ files' = FilesLeft
      /\ status' = [d \in Docs |-> IF found(d) THEN "recovering" ELSE "closed"]
      /\ uri' = [d \in Docs |-> IF found(d) THEN entry(d).file ELSE Null]
      /\ UNCHANGED <<text, modified, need, progress, action, journal, unsaved, saves, deletes,
                     owed>>
  BY <1>001 DEF AutosaveInit, RecoverEntries
<1>2. /\ need = {} /\ progress = {} /\ journal = {} /\ saves = {} /\ deletes = {} /\ ~unsaved
      /\ \A d \in Docs : ~modified[d]
  BY <1>0, <1>1 DEF Off, Concerned
<1>3. /\ Apart' => Apart
      /\ Recoverable' => Recoverable
      /\ Repaid' => Repaid
      /\ Unmet({"empty text"})' => Unmet({"empty text"})
  BY <1>001, MetGrows
<1>4. \A e \in Found : /\ disk # Null /\ e \in disk /\ e \in [doc : Docs, file : Names]
                       /\ files[e.file] # Null
  BY <1>0 DEF Found, TypeOK
<1>5. ASSUME NEW d \in Docs, found(d)
      PROVE  /\ entry(d) \in Found /\ entry(d).doc = d /\ entry(d).file \in Names
             /\ entry(d).file # Null
  <2>1. entry(d) \in Found /\ entry(d).doc = d BY <1>5
  <2> HIDE DEF entry
  <2> QED BY <2>1, <1>4, NullAssumption
<1> HIDE DEF found, entry
<1>6. \A d \in Docs : /\ found(d) => status'[d] = "recovering" /\ uri'[d] = entry(d).file
                      /\ ~found(d) => status'[d] = "closed" /\ uri'[d] = Null
  BY <1>1
<1>7. /\ status' \in [Docs -> {"closed", "open", "recovering"}]
      /\ uri' \in [Docs -> Names \union {Null}]
  BY <1>1, <1>5
<1>8. files' \in [Names -> Contents \union {Null}] BY <1>0, <1>1 DEF TypeOK, FilesLeft
<1>9. disk # Null => files' = files BY <1>1 DEF FilesLeft
<1>10. TypeOK' BY <1>0, <1>001, <1>1, <1>7, <1>8 DEF TypeOK
<1>11. Off' BY <1>1 DEF Off
<1>12. Concerned' BY <1>1, <1>2, <1>5, <1>6 DEF Concerned
<1>13. LiveSaves' /\ OneEntry' /\ Live' = {} BY <1>1, <1>2 DEF LiveSaves, Live, OneEntry
<1>14. NamesTaken'
  <2> SUFFICES ASSUME Apart' PROVE NamesTaken!2' BY DEF NamesTaken
  <2>0. disk # Null => \A e, f \in disk : e.file = f.file => e = f BY <1>0, <1>3 DEF NamesTaken
  <2>1. ASSUME NEW d \in Docs, NEW e \in Docs, d # e, uri'[d] # Null PROVE uri'[d] # uri'[e]
    <3>1. found(d) /\ uri'[d] = entry(d).file BY <2>1, <1>6
    <3>2. CASE ~found(e) BY <3>2, <2>1, <1>6
    <3>3. CASE found(e)
      <4>1. entry(d) # entry(e) BY <2>1, <3>1, <3>3, <1>5
      <4>2. entry(d) \in disk /\ entry(e) \in disk /\ disk # Null BY <3>1, <3>3, <1>4, <1>5
      <4>3. entry(d).file # entry(e).file BY <2>0, <4>1, <4>2
      <4> QED BY <3>1, <3>3, <4>3, <1>6
    <3> QED BY <3>2, <3>3
  <2>2. ASSUME NEW d \in Docs, uri'[d] # Null
        PROVE  files'[uri'[d]] # Null /\ uri'[d] \notin deletes'
    <3>1. found(d) /\ uri'[d] = entry(d).file BY <2>2, <1>6
    <3>2. files[entry(d).file] # Null /\ disk # Null BY <3>1, <1>4, <1>5
    <3> QED BY <3>1, <3>2, <1>1, <1>2, <1>9
  <2> QED BY <2>1, <2>2, <1>1, <1>13
<1>15. SavesCurrent' /\ InJournal' /\ JournalOnDisk'
  BY <1>1, <1>2, <1>13 DEF SavesCurrent, InJournal, JournalOnDisk
<1>16. ASSUME Repaid' PROVE OwedOnDisk' /\ OwedInMemory' /\ OwedSaves'
  <2>0. OwedOnDisk /\ OwedInMemory /\ OwedSaves BY <1>0, <1>3, <1>16 DEF Owed
  <2>1. ASSUME NEW d \in Docs, owed[d] # Null
        PROVE  uri'[d] # Null /\ files'[uri'[d]] = owed[d] /\ status'[d] = "recovering"
    <3>1. disk # Null /\ \E e \in disk : e.doc = d /\ files[e.file] = owed[d]
      BY <2>0, <2>1, <1>1 DEF OwedOnDisk
    <3>2. PICK e \in disk : e.doc = d /\ files[e.file] = owed[d] BY <3>1
    <3>3. e \in Found BY <2>1, <3>1, <3>2 DEF Found
    <3>4. found(d) BY <3>2, <3>3, <1>001, <1>16 DEF found
    <3>5. entry(d) \in disk /\ entry(d).doc = d BY <3>4, <1>4, <1>5
    <3>6. entry(d) = e BY <3>1, <3>2, <3>5, <1>0 DEF OneEntry
    <3> QED BY <3>1, <3>2, <3>4, <3>6, <1>5, <1>6, <1>9
  <2>2. OwedInMemory' BY <2>1, <1>1 DEF OwedInMemory
  <2> QED BY <2>2, <1>1, <1>2 DEF OwedOnDisk, OwedSaves
<1>17. ProgressEnds' BY <1>1, <1>2 DEF ProgressEnds
<1> QED BY <1>10, <1>11, <1>12, <1>13, <1>14, <1>15, <1>16, <1>17 DEF IInv, Kept, Owed

\* A recovered document is in the journal, which is to be written, and needs an autosave.
LEMMA RecoveredIInv == ASSUME IInv, NEW d \in Docs, Recovered(d) PROVE IInv'
<1> USE DEF outside
<1>0. /\ TypeOK /\ Off /\ Concerned /\ LiveSaves /\ OneEntry
      /\ NamesTaken /\ Kept /\ Owed /\ ProgressEnds
  BY DEF IInv
<1>1. /\ up /\ status[d] = "recovering" /\ files[uri[d]] # Null
      /\ status' = [status EXCEPT ![d] = "open"] /\ text' = [text EXCEPT ![d] = files[uri[d]]]
      /\ modified' = [modified EXCEPT ![d] = TRUE]
      /\ need' = need \union {d} /\ journal' = journal \union {d} /\ unsaved' = TRUE
      /\ UNCHANGED <<up, progress, action, uri, outside, owed, met>>
  BY DEF Recovered
<1>2. /\ Apart' => Apart
      /\ Recoverable' => Recoverable
      /\ Repaid' => Repaid
      /\ Unmet({"empty text"})' => Unmet({"empty text"})
  BY <1>1, MetGrows
<1>3. uri[d] # Null /\ uri[d] \in Names /\ files[uri[d]] \in Contents
  BY <1>0, <1>1 DEF Concerned, TypeOK
<1>4. d \notin progress /\ \A s \in Live : s.doc # d BY <1>0, <1>1 DEF Concerned, LiveSaves
<1>5. TypeOK'
  <2>1. text' \in [Docs -> Texts] BY <1>0, <1>1, <1>3 DEF TypeOK, Texts
  <2>2. status' \in [Docs -> {"closed", "open", "recovering"}] /\ modified' \in [Docs -> BOOLEAN]
    BY <1>0, <1>1 DEF TypeOK
  <2> QED BY <2>1, <2>2, <1>0, <1>1 DEF TypeOK
<1>6. Off' BY <1>1 DEF Off
<1>7. Concerned' BY <1>0, <1>1, <1>3 DEF Concerned, TypeOK
<1>8. LiveSaves' /\ OneEntry' BY <1>0, <1>1 DEF LiveSaves, Live, OneEntry
<1>9. NamesTaken' BY <1>0, <1>1, <1>2 DEF NamesTaken, Live
<1>10. ASSUME Recoverable' PROVE SavesCurrent' /\ InJournal' /\ JournalOnDisk'
  <2>0. SavesCurrent /\ InJournal /\ JournalOnDisk BY <1>0, <1>2, <1>10 DEF Kept
  <2>1. \A s \in saves : s.doc \in Docs /\ text'[s.doc] = text[s.doc]
    BY <2>0, <1>0, <1>1, <1>4 DEF SavesCurrent, TypeOK, Save
  <2>2. SavesCurrent' BY <2>0, <2>1, <1>1 DEF SavesCurrent, Live
  <2>3. InJournal' BY <2>0, <1>0, <1>1 DEF InJournal, TypeOK
  <2> QED BY <2>2, <2>3, <1>1 DEF JournalOnDisk
<1>11. ASSUME Repaid' PROVE OwedOnDisk' /\ OwedInMemory' /\ OwedSaves'
  <2>0. /\ OwedOnDisk /\ OwedInMemory /\ OwedSaves /\ SavesCurrent
    BY <1>0, <1>2, <1>11, Lists DEF Owed, Kept
  <2>1. OwedOnDisk' BY <1>1 DEF OwedOnDisk
  <2>2. OwedInMemory' BY <2>0, <1>0, <1>1 DEF OwedInMemory, TypeOK
  <2>3. \A s \in saves : s.doc \in Docs /\ text'[s.doc] = text[s.doc]
    BY <2>0, <1>0, <1>1, <1>4 DEF SavesCurrent, TypeOK, Save
  <2>4. OwedSaves' BY <2>0, <2>3, <1>1 DEF OwedSaves
  <2> QED BY <2>1, <2>2, <2>4
<1>12. ProgressEnds' BY <1>0, <1>1, <1>2 DEF ProgressEnds, Current
<1> QED BY <1>5, <1>6, <1>7, <1>8, <1>9, <1>10, <1>11, <1>12 DEF IInv, Kept, Owed

\* A document whose autosave file is gone was not owed.
LEMMA NotRecoveredIInv == ASSUME IInv, NEW d \in Docs, NotRecovered(d) PROVE IInv'
<1> USE DEF outside
<1>0. /\ TypeOK /\ Off /\ Concerned /\ LiveSaves /\ OneEntry
      /\ NamesTaken /\ Kept /\ Owed /\ ProgressEnds
  BY DEF IInv
<1>1. /\ up /\ status[d] = "recovering"
      /\ uri' = [uri EXCEPT ![d] = Null]
      /\ UNCHANGED <<up, text, modified, need, progress, action, journal, unsaved, outside, owed>>
  BY DEF NotRecovered
<1>01. PICK after \in {"open", "closed"} : status' = [status EXCEPT ![d] = after]
  BY DEF NotRecovered
<1>2. met' = met \union When(files[uri[d]] # Null, "original is gone") BY DEF NotRecovered, Meets
<1>3. met \subseteq met' /\ met' \subseteq Situations
  <2>1. "original is gone" \in Situations BY DEF Situations
  <2> QED BY <2>1, <1>0, <1>2 DEF When, TypeOK
<1>4. /\ Apart' => Apart
      /\ Recoverable' => Recoverable
      /\ Repaid' => Repaid
      /\ Unmet({"empty text"})' => Unmet({"empty text"})
  BY <1>3, MetGrows
<1>5. Repaid' => files[uri[d]] = Null BY <1>2 DEF When, Repaid, Unmet
<1>6. /\ d \notin need \union progress \union journal /\ ~modified[d]
      /\ \A s \in Live : s.doc # d
  BY <1>0, <1>1 DEF Concerned, LiveSaves
<1>7. uri' \in [Docs -> Names \union {Null}] /\ uri'[d] = Null
      /\ \A e \in Docs : e # d => uri'[e] = uri[e]
  BY <1>0, <1>1 DEF TypeOK
<1>8. TypeOK'
  <2>1. status' \in [Docs -> {"closed", "open", "recovering"}] BY <1>0, <1>01 DEF TypeOK
  <2> QED BY <2>1, <1>0, <1>1, <1>3, <1>7 DEF TypeOK
<1>9. Off' BY <1>1 DEF Off
<1>10. Concerned' BY <1>0, <1>01, <1>1, <1>6, <1>7 DEF Concerned, TypeOK
<1>17. LiveSaves'
  <2>1. \A s \in Live : s.doc \in Docs BY <1>0 DEF Live, TypeOK, Save
  <2> QED BY <2>1, <1>0, <1>1, <1>6, <1>7 DEF LiveSaves, Live
<1>12. OneEntry' BY <1>0, <1>1 DEF OneEntry
<1>13. NamesTaken' BY <1>0, <1>1, <1>4, <1>7 DEF NamesTaken, Live
<1>14. ASSUME Recoverable' PROVE SavesCurrent' /\ InJournal' /\ JournalOnDisk'
  <2>0. SavesCurrent /\ InJournal /\ JournalOnDisk BY <1>0, <1>4, <1>14 DEF Kept
  <2>1. SavesCurrent' BY <2>0, <1>1 DEF SavesCurrent, Live
  <2>2. InJournal' BY <2>0, <1>1, <1>6, <1>7 DEF InJournal
  <2>3. \A e \in journal : uri'[e] = uri[e] BY <1>0, <1>6, <1>7 DEF TypeOK
  <2>4. Entries(journal)' = Entries(journal) BY <2>3, <1>1 DEF Entries
  <2>5. JournalOnDisk' BY <2>0, <2>4, <1>1 DEF JournalOnDisk
  <2> QED BY <2>1, <2>2, <2>5
<1>15. ASSUME Repaid' PROVE OwedOnDisk' /\ OwedInMemory' /\ OwedSaves'
  <2>0. OwedOnDisk /\ OwedInMemory /\ OwedSaves BY <1>0, <1>4, <1>15 DEF Owed
  <2>1. owed[d] = Null BY <2>0, <1>1, <1>5, <1>15 DEF OwedInMemory
  <2>2. OwedInMemory' BY <2>0, <2>1, <1>0, <1>01, <1>1, <1>7 DEF OwedInMemory, TypeOK
  <2> QED BY <2>0, <2>2, <1>1 DEF OwedOnDisk, OwedSaves
<1>16. ProgressEnds' BY <1>0, <1>1, <1>4 DEF ProgressEnds, Current
<1> QED BY <1>8, <1>9, <1>10, <1>17, <1>12, <1>13, <1>14, <1>15, <1>16 DEF IInv, Kept, Owed

-----------------------------------------------------------------------------

\* The inductive invariant holds in every reachable state.
THEOREM SpecIInv == Spec => []IInv
<1>1. Init => IInv BY InitIInv
<1>2. IInv /\ [Next]_vars => IInv'
  <2> SUFFICES ASSUME IInv, [Next]_vars PROVE IInv' OBVIOUS
  <2>1. CASE \E d \in Docs : \/ Open(d) \/ Edit(d) \/ SetUnmodified(d) \/ Close(d)
                             \/ CloseCancelled(d) \/ Recovered(d) \/ NotRecovered(d)
    BY <2>1, OpenIInv, EditIInv, SetUnmodifiedIInv, CloseIInv, CloseCancelledIInv,
       RecoveredIInv,
       NotRecoveredIInv
  <2>2. CASE RunAutosave \/ RunAutosaveJournal
    BY <2>2, RunAutosaveIInv, RunAutosaveJournalIInv
  <2>3. CASE \E s \in saves : Start(s) \/ Write(s) \/ Complete(s)
    BY <2>3, StartIInv, WriteIInv, CompleteIInv
  <2>4. CASE \E n \in Names : Delete(n) BY <2>4, DeleteIInv
  <2>5. CASE ApplyPreferences \/ Crash \/ Quit \/ AutosaveInit
    BY <2>5, ApplyPreferencesIInv, CrashIInv, QuitIInv, AutosaveInitIInv
  <2>6. CASE UNCHANGED vars
    <3>1. /\ UNCHANGED <<up, status, text, modified, need, progress, action, uri>>
          /\ UNCHANGED <<journal, unsaved, saves, deletes, files, disk, owed, met>>
      BY <2>6 DEF vars
    <3>2. (TypeOK /\ Off /\ Concerned /\ LiveSaves /\ OneEntry)'
          = (TypeOK /\ Off /\ Concerned /\ LiveSaves /\ OneEntry)
      BY <3>1 DEF TypeOK, Off, Concerned, LiveSaves, Live, OneEntry
    <3>3. NamesTaken' = NamesTaken BY <3>1 DEF NamesTaken, Apart, Unmet, Live
    <3>4. Kept' = Kept
      BY <3>1
         DEF Kept, Recoverable, Unmet, SavesCurrent, Live, InJournal, JournalOnDisk, Entries
    <3>5. Owed' = Owed BY <3>1 DEF Owed, Repaid, Unmet, OwedOnDisk, OwedInMemory, OwedSaves
    <3>6. ProgressEnds' = ProgressEnds BY <3>1 DEF ProgressEnds, Unmet, Current
    <3> QED BY <3>2, <3>3, <3>4, <3>5, <3>6 DEF IInv
  <2> QED BY <2>1, <2>2, <2>3, <2>4, <2>5, <2>6 DEF Next
<1> QED BY <1>1, <1>2, PTL DEF Spec

\* No two documents are autosaved to the same file, and none stays in progress without the
\* save that ends it (unique_path, autosave_complete_lcb, remove_autosave).
THEOREM SpecJournalSound == Spec => []JournalSound
<1>1. IInv => JournalSound
  BY DEF IInv, JournalSound, NamesTaken, Apart, FilesApart
<1> QED BY <1>1, SpecIInv, PTL

\* Once a period is over, what the journal on disk lists for a modified document is its text
\* (autosave_complete_lcb, register_autosave_journal).
THEOREM SpecModifiedIsRecoverableUnless == Spec => []ModifiedIsRecoverableUnless
<1>1. IInv => ModifiedIsRecoverableUnless
  <2> SUFFICES ASSUME IInv, Recoverable, NEW d \in Docs, up, Autosaved(d)
               PROVE  disk # Null /\ \E e \in disk : e.doc = d /\ files[e.file] = text[d]
    BY DEF ModifiedIsRecoverableUnless, ModifiedIsRecoverable, Recoverable
  <2> QED BY JournalRecovers DEF IInv, Kept
<1> QED BY <1>1, SpecIInv, PTL

\* What a crash took from the user, also a second crash during the recovery, is recovered or
\* about to be (autosave_recover, file2doc_finished_idle_lcb).
THEOREM SpecCrashIsRepaid == Spec => []CrashIsRepaid
<1>1. IInv => CrashIsRepaid
  <2> SUFFICES ASSUME IInv, Repaid, NEW d \in Docs, up, owed[d] # Null
               PROVE  \/ status[d] = "recovering" /\ files[uri[d]] = owed[d]
                      \/ status[d] = "open" /\ text[d] = owed[d]
    BY DEF CrashIsRepaid, Repaid
  <2> QED BY DEF IInv, Owed, OwedInMemory
<1> QED BY <1>1, SpecIInv, PTL

=============================================================================
