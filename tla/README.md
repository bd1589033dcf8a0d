# A verification project for Bluefish

Bluefish is a GTK text editor for programmers (`src/bluefish`, C). This project
models, in TLA+, the parts of it in which time matters: files are read, written,
mounted, looked at and deleted asynchronously while the user goes on editing,
saving and closing, and while other programs write the same files. TLC checks
the models on small instances; TLAPS proves the most important results for all
values of the constants. Paths below are relative to `src/bluefish/src`.

## 1. The system

Bluefish is one process with one main loop (GTK). Nearly everything happens in
handlers: a menu item or key, a signal of the text buffer, an idle callback, a
timeout, or the completion callback of an asynchronous operation of GIO. A
handler runs to its end before the next one starts, unless it opens a dialog:
a dialog runs a nested main loop, so callbacks fire while the handler that
opened it is suspended. Real threads exist in three places only: the search in
files, the directory synchronisation and recursive deletion (GIO jobs), and the
loading of language files.

### Inventory

| Component | Source (lines) | State | Operations | Hard because | Correct when |
|---|---|---|---|---|---|
| Async queue | `async_queue.c` (269) | waiting items, `worknum` (guint), `max_worknum`; threads and mutex in one use | push, run, worker_ready, remove, cancel | every user must pair start and end on every path | `worknum` counts what runs; at the limit; nothing waits while a slot is free |
| Asynchronous save | `file.c` 340-458 | `TcheckNsave`: etag, backup, cancellable, owner callback; `sfqueue` (8) | start, completion, retry, cancel | retry from the callback; cancel before and after the start | each save ends with one final callback |
| Loading | `file.c` 86-134, 460-1157 | `Topenfile`, `Tfile2doc`, `Tfileinfo`, `gmo`, two waiting lists; `ofqueue`, `fiqueue` (8 each) | open, read, mount, resume, put into the document, fill file info, cancel | close during each stage; one mount for many files | each load ends, each close comes about, slots agree |
| Saving and closing | `file_dialogs.c` 425-1110 | `doc->save`, `info`, `load`, `fileinfo`, `close_doc`, `modified`, `uri` | save, save as, copy, move, close, completion, questions | edits, closes and other programs during a save | text is kept; foreign text is not overwritten unasked; no callback comes to a freed document |
| Undo | `undo_redo.c` (746), `document.c` | groups of entries to undo and redo, the group being built, `changed` flags | record with merge, new group, undo, redo, all, relabel after save | long sequences; offsets; stale flags | undo and redo give back exactly the earlier texts |
| Autosave | `file_autosave.c` (505) | `need_autosave`, `autosave_progress`, `autosave_journal`, files and journal on disk | need, run, complete, remove, recover, clean up | crash between any two writes; late callbacks; reuse of names | what an autosave covered survives a crash |
| External commands | `external_commands.c` (872), `outputbox.c` (491) | `Texternalp` with reference count, pipes, temporary files | start, idle start, write, read, child exit | five callbacks in any order share one structure | freed once, after the last callback; output goes where it was asked for |
| Synchronisation | `file.c` 1715-2170, `plugin_rsync` | `Tsync` with counts, three queues (3, 2, 4) | walk local, walk remote, copy, delete | worker threads and the main loop share counts without a lock | ends once; deletes only what is not there locally |
| Find files, open many | `file.c` 1160-1715 | `Tfindfiles`, `ffdqueue` | start, directory read, match, cancel | all searches share a queue that one cancel empties | each search reports its end after all its directories |
| Search and replace | `snr3.c` (1841), `blocksync.c` | result list with offsets, queue of one, `runcount`, current result | run, idle chunk, replace, edits, destroy | results must follow edits and documents that go away | results are the matches of the present text |
| Search in files | `snr3_files.c` (448) | queue with 4 threads and a mutex, `cancelled`, `runcount` | match, worker, finish, cancel | real threads, join against self-removal | each file's worker is accounted for once |
| Regions to rescan | `bftextview2_markregion.c` (619) | doubly linked list of start and end marks | insert, delete, no change, region done | offsets shift while regions merge and split | marks alternate, sorted, and cover every changed position |
| Scanner | `bftextview2_scanner.c` (2668), `bftextview2.c` (3117) | cache of found blocks, contexts | chunk of a scan, offset updates | runs in chunks between edits | offsets of the cache match the text |
| Language files | `bftextview2_langmgr.c` (2586), `bftextview2_patcompile.c` (1096) | languages, state tables | load in a thread, hand over | one hand-over | translation of data |
| Window, document list | `bfwin.c` (1946), `file_dialogs.c` | current document, list | switch, close all, close window | closes that are put off | every document asked about once |
| Projects | `project.c` (801) | `project->close`, file list | open, save, close | a close that is put off until the last document is gone | closed when, and only when, the user said so |
| Bookmarks | `bookmark.c` (2126) | tree store, hash table by file, marks in the buffer | add, rename, clean, load, save | three structures must agree over rename and close | one parent row per file |
| File browser | `file_treemodel.c` (1828), `filebrowser2.c` (2833) | tree of records, refreshes in flight | refresh, chunks, remove | rows vanish while their refresh is in flight | tree equals the directory when nothing is in flight |
| Single instance | `ipc_bf2bf.c` (349), `msg_queue.c` | socket, master flag | start, accept, send | processes race for a stale socket | one master, reachable |
| Configuration | `rcfile.c` (1541), `preferences.c` (3172), `stringlist.c` | option lists | read, write, apply | synchronous | - |
| Plugins | `plugin_*` | mostly dialogs | insert text | - | - |
| Widgets, helpers, data | `gtk_easy.c`, `dialog_utils.c`, `bf_lib.c`, data, po, manual | - | - | - | - |

### How the components interact

- All file operations go through a **queue**. A queue function starts an
  asynchronous operation; the handler of its completion calls
  `queue_worker_ready`, which starts the next item. `ofqueue`, `fiqueue`,
  `sfqueue` and `ffdqueue` are made in `file_init` with 8 slots each.
- A **document** points to what is under way for it (`doc->load`, `doc->info`,
  `doc->save`, `doc->checkmodified`, `doc->autosave_action`), and what is under
  way points back to the document as its callback data. `doc_destroy` frees the
  document. So the question everywhere is who clears which pointer first.
- `doc_set_modified` is where **undo**, **save** and **autosave** meet: an edit
  sets it and registers the document for autosave, undo and the end of a save
  clear it, and clearing it removes the autosave.
- The **asynchronous save** has two owners: documents (never cancelled) and the
  autosave (cancelled at any time). Its callback may ask the user and answer
  `CHECKNSAVE_CONT`, upon which the write is issued again.

## 2. The modules

```
AsyncQueue <-- CheckNSave, OpenFile, Sync <-- MCFileJobs
           <-- FindFiles <-- SearchFiles  <-- MCSearchFiles, SearchFilesProofs
           <-- AsyncQueueProofs <-- FileProofs (with CheckNSave, OpenFile and Sync),
                                SearchFilesProofs
ExternalCommand, Ipc                 <-- MCProcesses, ProcessesProofs
UndoRedo  =refines=> UndoHistory              <-- MCText, UndoRedoProofs
Regions <-- MarkRegion =refines=> DirtyText   <-- MCText, MarkRegionProofs
        <-- FoundCache <-- Scanner            <-- MCText
DocSave                              <-- MCDocSave, DocSaveProofs
CloseWindow                          <-- MCCloseWindow
Autosave                             <-- MCAutosave, AutosaveProofs
FileTreemodel, SearchResults, Bookmarks, each with its MC module
```

One action of a module is one handler of the main loop, with everything the
handler does before it returns. Handlers that call one another are operators on
a record of the state (`State` and `Become` in OpenFile, the Tsnr3run of
SearchResults, the Tbmarkdata of Bookmarks), so that a handler is the
composition it is in the code. Definitions carry the name of the function they
model; actions have it in capitals without the `_lcb` and prefixes.

### Queues and files

**AsyncQueue** has no variables: a queue is a record, and `Push`, `Run`,
`WorkerReady` and `Remove` are the functions of `async_queue.c` on it. `Run` is
the whole loop of `queue_run`, since in every use modelled here the queue
function only starts something. `worknum` wraps at `WordSize`, as the guint
does; `Remove` takes out the item and `RemoveReturns` is what the function
*returns*, which is not the same thing: `queue_remove` gives back FALSE when it
removed the item.

**CheckNSave** is the save queue: `stage` says where a save is, `request` what
the write in flight was asked to do, `cancelab` whether the GCancellable exists
and was cancelled, `status` what the owner was told. GIO is external: it may
answer anything that the request allows (`Errors`).

**OpenFile** has, per document, the stage of its load and of its file info, and
the two queues, the mount operation and the waiting lists. A document of
`ClosedDocs` may be closed in any stage of its load; `closedIn` records the two
situations in which that has consequences (section 5). `num_docs_not_completed`
is the window's counter that makes a search in all documents wait, `unread` the
documents that stay in it for ever.

**Sync** makes a directory the copy of another: jobs in threads read the two
trees, ask the main loop for copies and further walks, and delete. What holds a
reference to the one Tsync is `Holders`; `refcount` is changed by the threads
and by the main loop, and since nothing locks it, reading it and writing it are
two steps (`adding`, `unref`). The three queues are three instances of
AsyncQueue. A walk goes through `WalkStages`. A file of the target is the one of
the source, a differing one (`"old"`), or a differing one that the walk takes for
the same (`"alike"`: of its size, and not older by the comparison of
`walk_local_directory_job`).

**FindFiles** is the search of directory trees that *find in files* and *open
advanced* share; all searches use one queue. **SearchFiles** composes it with
the search in files: runs one after the other in the one Tsnr3run of the
dialog, worker threads whose steps lie between their reads of `cancelled`, idle
callbacks that report, a cancel that stops the main loop until it has joined the
threads, and the dialog that closes meanwhile. The queue of the workers is
AsyncQueue again; what its mutex protects is one step. A file that is open as a
document goes to the search in documents (`snr3_run_in_doc`, `idlequeue`, one at
a time) instead, whose idle callback and cancel are modelled as far as they count.
A directory may fail to be opened or fail in the middle of its entries. `seen` is
history: what a search met so far.

**ExternalCommand** is the Texternalp that up to four sources of the main loop
share: the idle callback after the spawn, the watch that writes the input, the
one that reads the output and the one for the end of the child. The child runs
beside them. Every kind of command that `create_commandstring` accepts is an
input, and the output box closes and opens under it. A read may fail: a pipe or
file that gives an error, or output that is not UTF-8.

**Ipc** is what several starts of the program do to one another: each looks at
the socket path, connects or takes the path over, sends its files or serves,
and removes the path at its end. A step is a system call or a callback of the
main loop; between any two of them the other processes run, and any process may
be killed. What is in a connection is two counts, of the lines written and read.

**FileTreemodel** is the tree of the file browser: records, the hash table from
uris to records, the asynchronous read of each directory with its marks
(`possibly_deleted`) and removals, and the delayed refresh, while other programs
change the disk. What is `odd` has a display name that is not its name: its
row is never found again. Opening a directory that exists may fail with any error.

### Text

**UndoRedo** has the buffer, the flag and the three parts of `doc->unre`. The
edits are the two signal handlers and the programmatic edits, with the merging
of `doc_unre_add` and the rules for new groups. A behaviour has one of the
`Mixes` of operations, each with its length of the buffer. **UndoHistory** is
what the history promises without entries and offsets: a line of texts along
which undo and redo walk. `H` in UndoRedo is the refinement mapping: the texts
that replaying the recorded entries on the present buffer *would* give.

**Regions** has the operations on the list of start and end marks that says what
is to be scanned again, **MarkRegion** the text and the handlers that call them.
**DirtyText** is what the list stands for: every character carries a mark of its
own. MarkRegion implements it (`DirtySpec`).

**FoundCache** has the operations of the scanner on its cache: entries that
begin or end a block or a context, the stacks, the correction by edits, and a
run over a region. **Scanner** has the text, the signal handlers, and what
schedules a run: immediate and idle callbacks, `enable_scanner`, the documents
that are shown and left. Runs come in pieces because the buffer changes between
callbacks. A language is a table of one-character patterns.

**SearchResults** is the search of the advanced dialog in open documents: it
runs in pieces, one document after the other, fills the list of results, and
keeps it valid while documents are edited, shown and closed and results are
replaced. `goal` keeps what the search is for. A search may be aborted, for want
of a selection or because documents are still loading, and options change only as
far as `snr3run_init_from_gui` takes them: not while `replaceall` is set.

**Bookmarks** is the tree of files and bookmarks, the hash table from uris to
its rows, the marks in the buffers and the list of the session, through setting,
removing, editing, loading, reloading, renaming, closing and restarting. The
position of a bookmark in a file that changed is found again by its text
(`bookmark_reposition`). The text is kept as it is, and its length as the code takes
it, in bytes: a character of `Wide` has two.

### Documents

**DocSave** is one document against the files: saves of four modes, the fetch of the
file info after a save, the close with its question, the deletion after a move, and
another program that writes the same files. A text is known by who wrote it and
when, an etag by when it was written. Whether a text can be converted to the
encoding of the document is chosen at each save; if not, the user is asked, and
aborts, or goes on in UTF-8 and saves an empty text. A read-only document is not saved. The
question about a modified file is preceded by a query that may fail.

**CloseWindow** is the window around such documents: its document list, the notebook
and the current document, the project, and every way to close: one document, all,
the project, the window, with *choose per file*, *close all* and *save all*. A
handler in a dialog is a frame on a stack, and so is a loop over a copy of the
document list whose body opens dialogs; callbacks come whenever the topmost frame is
a dialog, and the user can answer that one only. The rest of a callback that has
closed its own document, which it goes on to use, is a frame too. A document may be
read-only, or have a character that its encoding has not, which makes a save ask
(`DocSaveBackend`) or a load (`doc_buffer_to_textbox`). Loads, saves, fetches and
checks of files on disk are reduced to what the close looks at; a document whose
load is still queued is cancelled like one that is read (OpenFile has the
difference), the idle callback that goes to a line after a load is left out, a new
file name is one that nobody has, and *check and reload all* is not modelled.

**Autosave** has the three lists of documents, the saves under way, the
autosave files, the journal on disk, crash, recovery and crashes during it.
`owed` remembers what the last crash owes the user.

### Situations

Many of these modules have a history variable with the situations the code does
not see to that occurred so far: `met` (DocSave, Autosave, UndoRedo), `odd` and
`closed` (ExternalCommand), `replaced` and `struck` (FileTreemodel),
`disturbed`, `incomplete` and `interrupted` (SearchFiles), `stranded` (Scanner),
`upset` (SearchResults, Bookmarks); `met` of CloseWindow is explained at
`Situations` in the module. A property that holds only without some of
them names exactly those, and keeps its force in every behaviour without them
and with all the others. This is how these modules say both what the code
guarantees and where its guarantee stops. Where nothing sensible can be said of
what follows, a bound of the module (`MaxUpset`, `MaxMet`) cuts the behaviour
off after the situation; what was tried by hand with a larger one is told below.

| DocSave situation | Why it matters | Exempted in |
|---|---|---|
| edit while saving | the completion marks the document unmodified whatever its text is | `NothingLost` |
| close while saving | `doc_close_single_backend` looks at `load` and `info`, not at `save` | `NothingLost`, `DestroyedLeftAlone` |
| save while fetching | a second save starts while the file info of the first is fetched | `DestroyedLeftAlone` |
| another writes unnoticed | between a write and the end of the fetch there is no etag | `ToldBeforeOverwrite` |
| save as fails | the name is changed before the write, and before the question about the encoding, which may be answered with *abort* | `NothingLost` |
| saved empty | a text that cannot be converted is saved in UTF-8: `doc_get_buffer_in_encoding` does not set its length | `NothingLost` |
| close while asked | the end of a fetch closes the document while the question about the encoding is up | `NothingLost` |
| query fails | any error of the query of a modified file is answered with `CHECKNSAVE_CONT` | `ToldBeforeOverwrite` |
| move stale | a move deletes a source that another program changed | `ToldBeforeOverwrite` |
| move back | the deletion after a move comes later than a save back | `NothingLost` |

| Autosave situation | Why it matters | Exempted in |
|---|---|---|
| write fails | the document is not registered again, and keeps a name that no file on disk holds | `JournalSound`, `ModifiedIsRecoverableUnless`, `CrashIsRepaid` |
| empty text | put in progress without a save: progress never empties, and no document is autosaved any more | `JournalSound` |
| close cancelled | the autosave is removed before the question | `ModifiedIsRecoverableUnless`, `CrashIsRepaid` |
| preferences | applying them resets `autosave_need_journal_save` | `ModifiedIsRecoverableUnless`, `CrashIsRepaid` |
| write cancelled | the write of a cancelled save may still come through | `ModifiedIsRecoverableUnless`, `CrashIsRepaid` |
| delete pending | a name is free on disk but listed, or about to be deleted | `JournalSound`, `ModifiedIsRecoverableUnless`, `CrashIsRepaid` |
| crash again | the journal is deleted when recovery starts, and written again at the end of a period | `CrashIsRepaid` |
| original is gone | recovery loads the original first and gives up if it fails | `CrashIsRepaid` |
| journal write fails | `autosave_save_journal` does not look at the failure and clears the flag | `ModifiedIsRecoverableUnless`, `CrashIsRepaid` |
| journal read fails | `get_list` returns NULL, and `autosave_init` deletes the journal | `CrashIsRepaid` |

## 3. The runs

Together the runs check 40 properties. `file_jobs` has three modules that share the
queue's functions and no variable; each of its behaviours is one of them. So it is with
the two of `processes`, and with the three of `text`.

| Run | Instance | Question | States |
|---|---|---|---|
| `file_jobs` | 4 saves with etag, with backup, with both, cancellable; or 3 documents on a volume to mount, all failures, closes; or two directories with any of a directory, a file of its name, a file in it, one beside it and a hidden one. 2 slots (synchronisation: 2, 1, 1), guint of 8 values | Does the accounting of slots and references hold through errors, retries, mounts and cancels; does a synchronisation that completes leave a mirror, and delete only what it may; does each job end and each close come about? | 272 503 |
| `search_files` | 2 runs of the search and an open advanced in 2 directories with a file each, open as documents or not, 1 slot for directories, 1 thread | Do the counts agree with what is under way, is a finished search complete? | 1 020 956 |
| `search_files_ends` | the same with both files in the subdirectory | Does each search and each cancel end? | 589 304 |
| `processes` | 1 command of any kind beside one that writes to the output box, 2 lines of output; or 3 starts of the program with 0, 1 and 2 messages, one of which is killed | Is the structure of a command freed once and last, does the output arrive; does one process serve, and do the files of all reach it? | 192 652 |
| `file_tree` | a directory that can become a file, and a file in it, which may be displayed with another name, below a root; 3 changes of the disk, 5 records | Does the tree show the disk, is no freed record used, does each refresh end? | 226 790 |
| `text` | undo: letter and blank, one of three mixes: typing in a buffer of 2, edits in one of 3, saves in one of 2; 2 groups, history of 1. Regions: texts of up to 6 characters. Scanner: texts of up to 4 characters in a language with blocks or with contexts | Do undo and redo give back the texts between the changes, however entries merge? Do the regions say of each character what a mark of its own would? Does the cache pass the program's own check after each scan, and tell of the present text; is the text scanned at last? | 584 020 |
| `search_results` | 2 documents, a query found in both, 2 edits, 2 searches, in a document, in all, or in a selection | Is the list what there is to find, is each occurrence replaced once? | 1 603 814 |
| `search_results_ends` | the same with 1 edit | Do the buttons of the dialog come back after *replace all*, and does it take options again? | 120 126 |
| `bookmarks` | 2 documents, 2 files, 2 bookmarks, texts of 2 lines of a character of one byte or of two, 3 events | Do tree, table, marks and session agree, is no second bookmark added to a line, do bookmarks find their lines? | 392 172 |
| `docsave_all` | 2 files, 4 edits, writes and ends of saves | Is text kept, foreign text respected, a destroyed document left alone? | 1 346 005 |
| `close_window` | 2 documents: loading and edited, edited and without a name, failed and unchanged, edited and empty, or read-only beside one that its encoding cannot hold; with or without a project; a third document that may be opened; 2 acts of the user or of another program | Is no text given up unasked and nothing freed used, does the project close and the window go exactly when the user said so? | 453 070 |
| `autosave_all` | 2 documents, 2 names, 2 texts and the empty one, 2 saves at a time, 1 kind of situation per behaviour | Is what the autosave covered recoverable, across crashes? | 1 341 445 |

`CHECK_DEADLOCK FALSE` is set where the system may stop for good: all saves of
an instance are done, all documents closed, all commands over, a bound on edits
or runs reached, or a situation met after which nothing can be said.

### Properties worth a word

A property of a run is often the conjunction of named parts, each of which says
one thing; the parts are defined above it in the module.

- `Accounting` (CheckNSave) joins the type, `SlotsMatch`, `WritesBounded` and
  `WorkConserving`. The first two hold as long as no *waiting* save was
  cancelled: only the autosave cancels, and a save waits only when eight are in
  flight, so a test hardly gets there. `WorkConserving` is what makes a queue
  live: no handler leaves a waiting item beside a free slot. It holds also after
  `worknum` wrapped: the wrapped value counts as a full queue.
- `History` (UndoRedo) is a refinement: every operation of the code must be a
  walk along the line of texts, the start of a change, or the continuation of
  one. It catches a wrong offset in a merge at once instead of at the undo that
  meets it, because the mapping replays all entries in every state.
- `DirtySpec` (MarkRegion) likewise: an offset applied to the wrong mark, a
  region not merged or split in the wrong place leaves a changed character
  without a mark, or a mark on one that is done.
- `Mounting` (OpenFile) says that whoever waits for the mount is resumed, and
  once, whoever is closed meanwhile. `Slots` holds the three counts against what
  is in progress, the slots of the opens until a waiting one was cancelled.
- `SyncCount` says that the last callback frees the Tsync, unless an update of the
  count was lost; `Mirrors` that "completed" means what it says, but for a file that
  the walk takes for the same (`"alike"`); and `KeepsWhatIsThere` is about every
  single step of every thread. Their situations: "mount failed", "lost update",
  "unread" (a directory of the source that was not read to its end), "no directory"
  and "like a directory" (the two replacements of section 5).
- `Lifetime` (ExternalCommand) says that the reference count is the number of
  callbacks to come that will give one back, plus those given up; so the last
  callback frees, in whatever order they come. It needs the exact list of the
  places at which the code gives a reference up.
- `Counts` (SearchFiles) is the same for the Tfindfiles, the two queues, the
  threads and `runcount`, and says with it that nothing freed is used; it names
  the one thing that breaks it: a cancel while something is under way.
- `IpcSound` (Ipc) joins `OneInstance`: one process runs, and whoever starts
  next reaches it, also after a kill left a stale socket behind; and
  `FilesArrive`: each file is read by a process that shows it, unless one of four
  situations occurred ("overlap", "no window", "no main loop", "killed server").
  `EveryProcessEnds` says that a blocking read of a connection stops no process
  for good.
- `ListsDisk` (FileTreemodel): a directory that did not change since its refresh
  began is shown as it is when the refresh ends, whatever changed around it.
- `CacheRight` (Scanner) contains `CacheIntegrity`, the assertions of
  `scancache_check_integrity`, and `NoStaleEntry`: they hold only if every edit
  marks what it may have changed and corrects what it moves.
- `SearchSound` (SearchResults) joins `ListRight`, which compares the list with a
  search of the whole text from the beginning, at every moment at which nothing
  is pending, and each entry with the text at *every* moment; and `RunSound`, by
  which nothing of the run is used after it was freed. `ButtonsReturn` says that
  after *replace all* the buttons come back and the dialog takes options again,
  in every piecing of the search, unless the search was aborted.
- `WindowSound` (CloseWindow) joins `NothingDangling`: no callback, no suspended
  handler and no loop is left with a freed document, but for the end of the very
  callback that closed it; and `Settled`: when nothing is going on the window
  shows a document, and no close is left over that nobody will finish, unless it
  was lost in one of the ways of `CloseLost`, the save of a read-only document
  among them. `AskedFirst` is an action property: what a step destroys must
  have been saved or given up, and the user must have agreed to the end of the
  project and of the window. `WindowCloses` says that a close of the window that
  was put off comes about.
- `TogglesOff` and `BookmarkReturns` (Bookmarks) are action properties: no
  bookmark is added to a line that has one; a bookmark whose text is still in a
  file that is loaded is before it, if the text that is remembered is what was
  there when it was last looked at, and has one byte per character.
- `NothingLost` (DocSave) relates the buffer, the flag, the save in flight and
  the disk; `ToldBeforeOverwrite` is an action property: a step that replaces or
  deletes foreign text must find it in `told`.
- `ModifiedIsRecoverableUnless` (Autosave) speaks of every moment at which the
  autosave says that it is done with a document; `CrashIsRepaid` follows that
  promise through the crash, the recovery and further crashes. `JournalSound`
  contains `FilesApart` and `ProgressEnds`, by which autosave never stops for
  good.

### Bounds, and why they are enough

- *Queues*: two slots and four items give a full queue, a waiting item behind
  another waiting one, and two ends in either order. `WordSize` is 8, larger
  than any legitimate count and small enough to wrap.
- *Loading*: three documents give one that mounts and two that wait, so that the
  order of the waiting list and its length count; with two slots one waits in
  the queue as well.
- *Synchronisation*: each of the two directories has one of all the trees that
  the five paths allow, so a file meets a directory and the reverse, with and
  without something in it. A queue of one slot holds a second item when a walk
  meets a file beside a directory.
- *Search in files*: two runs, because idle callbacks of the first may meet the
  second; a subdirectory, because directories are pushed while another is read;
  one thread and one slot, so that jobs wait. The safety is checked with a file beside the
  subdirectory, so that one is searched while directories are still read; the
  liveness with both in the subdirectory, where one of them waits.
- *External commands*: the output box joins two commands, and no more than two;
  the command beside is of one kind, the first of any.
- *Starts of the program*: three give two that race and one that serves or comes
  later. A command line stands for no message, one, or two, so a connection is
  read at once or in two pieces. One kill leaves a stale path or an open
  connection behind.
- *File tree*: three uris give a root, a directory and something in it; three
  changes a removal, a reappearance and one more. The name that may be odd is that
  of the file: what is odd about it shows in the rows of its directory.
- *Undo*: the merging looks at one entry and the new one, the grouping at one
  character and at the length of a deletion; two groups per list with a limit of
  one give an overflow of the list, two undos in a row and a redo after an undo.
  `MaxLen` and `MaxGroups` cut off longer buffers and lists (`Become`).
- *Regions*: six characters hold three regions with gaps, so that an operation
  meets a region before, one around and one after its place.
- *Scanner*: four characters hold two nested or two following blocks, and an
  edit before, in and behind them. A run ends within its time slice; the pieces
  are those that the deletions before it make.
- *Search results*: two edits and two searches give an edit while a search is
  interrupted and a second one over the results of the first. The replacement is
  longer than the query and contains it, the query is found twice in a document.
  One of the options searches a selection, which may be missing; that documents
  are still loading is a choice of the search in all of them. The liveness is
  checked with one edit, which is enough to interrupt a search.
- *Bookmarks*: three events (open, edit, rename, change on disk, in any order)
  with any number of bookmarks set and removed; two lines per text. Of the two
  characters one has two bytes, so that a text and its length in bytes differ in
  some files and agree in others.
- *DocSave*: the clock starts at 1 and `MaxClock` = 5, so four of these happen
  in a behaviour: an edit, a write of ours, the end of a save, a foreign write.
  Every violation of a property by a changed definition, and every exempted
  situation, shows within it. `FewMet` (MCDocSave) cuts off where a fourth
  situation is added to three: each by itself, and any three together, are there.
- *Closing*: two documents give a last one and one before it, which is what the
  closes tell apart; two acts give two closes in either order, a close and an
  edit, a save or a new document while it is put off. Dialogs nest as deep as
  the callbacks bring them up.
- *Autosave*: two documents compete for two names. `MaxSaves` bounds the saves
  under way; a save that is waiting and one that is writing fit. `MaxMet` = 1
  allows one *kind* of situation per behaviour, any number of times: without
  situations, and with each alone, everything interleaves; only mixtures of
  kinds are cut off, and most properties exempt each of the kinds by itself.

Symmetry (Autosave, DocSave, Bookmarks) is used only for sets whose members
nothing tells apart, and in no run with liveness: the temporal properties of these
runs are action properties, which a permutation of the set does not change.

### Fairness

Weak fairness of the callbacks of the main loop and of the completion of what
GIO accepted, and of nothing else: not of the user, not of another program, not
of a child process, and no strong fairness. This is what GLib gives: the main
loop runs each source that stays ready, and GIO ends each operation it accepted
(a cancelled one with `CANCELLED`). Some modules write weak fairness out as
`[]<>~Due \/ []<><<Callback>>_vars`, with `Due` for what enables the callback,
because TLC evaluates it faster.

- CheckNSave, OpenFile, Sync: as long as a callback or a thread can run, one
  does. This is weaker than fairness of each, and enough for `EveryJobEnds`: no
  callback waits for another one, and users act finitely often. The property
  exempts the case in which a user answers *continue* again and again, saves
  cancelled while waiting, and lost updates of the count.
- ExternalCommand and Ipc: as long as an idle callback, the watch of the child, a
  watch that reads, or a process of its own accord can go on, one of them does.
  Not of the user, of a child or of who kills a process. And not the watch that
  writes: when the child is gone and the pipe is full, its condition never comes
  true, and `EveryCommandEnds` says so.
- SearchFiles: one callback or step of a thread that is possible happens. That
  is weaker than fairness of each, and enough, since no step of the system
  undoes another.
- FileTreemodel: what a callback does to each directory (`CallbackRan`), and the
  timeout of the delayed refresh, each by itself.
- CloseWindow: as long as a callback or a step of a loop is possible, one
  happens; the user need not answer a dialog, and `WindowCloses` does not speak
  of what comes after one.
- Scanner: the callback that scans. SearchResults: the idle callback that goes on
  with the search.

That a dialog is answered is part of the action that opened it, or up to the
user.

## 4. The proofs

TLAPS proves these for every value of the constants: any number of saves, slots,
commands, starts, documents, names, files, edits, writes and crashes, and texts of
any length. They rest on the assumptions the modules name and on nothing else:

| Assumption | Says | Because |
|---|---|---|
| `MaxWorknumAssumption`, `LimitsAssumption` | each queue has at least one slot | `file_init`, `sync_directory` |
| `MaxTextAssumption` | the length of the text is bounded by a number | memory |
| `PreferenceAssumption` (DocSave) | a save is told the etag or not | the preference `check_for_modified_on_disk` is looked at as 0 or not 0 when a document is saved |
| `WordSizeAssumption` | a guint holds more than the slots of a queue | 8 against 2^32 |
| `ThreadsAssumption`, `RunsAssumption`, `MaxDepthAssumption` (SearchFiles) | there is a worker thread at least, and a guint holds more; runs are numbers, 0 stands for the open advanced; the depth is bounded by a number | `snr3_run_in_files`, 4 threads; `recursion` is a guint |
| `TreeAssumption`, `TopAssumption` (FindFiles, SearchFiles) | there are finitely many directories and files, each in one directory only; each directory has a depth below the one that is searched, and the files are those that are not too deep | `g_file_get_child` makes a path of its directory and a name, so a symbolic link is one more path; below the deepest directory nothing is read |
| `CharsAssumption`, `FileAssumption`, `LevelsAssumption`, `MixesAssumption` (UndoRedo) | texts are of the characters, what is typed is not empty, at least one level of undo is kept, and a mix of operations allows some length of the buffer | GtkTextBuffer does not signal an empty insertion; `num_undo_levels` is 50 to 1000 in the preferences; the mixes are only a bound |
| `SavesAssumption`, `DocsAssumption`, `PathsAssumption`, `FilesAssumption`, `ProcsAssumption` | finitely many saves, documents, names, paths, files, processes | memory and disks |
| `AboveAssumption`, `RootAssumption`, `KindsAssumption` (Sync) | each path but the root lies in another one, every path lies below the root, and what is on the disk is a file or a directory | it is a tree of paths |
| `KindsAssumption` (ExternalCommand) | a command has a kind that `create_commandstring` accepts | it is refused otherwise |
| `NullAssumption`, `NullIsNoSave`, `CmdsAssumption`, `TextAssumption`, `ProcsAssumption` | the value for *none* is no number, save, name, command, text or process | C compares with NULL, 0 or an empty string |

**AsyncQueueProofs** has the lemmas about a queue that its users share. A queue
between two handlers is *settled*: no item waits beside a free slot. What a push,
or a freed slot, followed by the loop of `queue_run` does to a settled queue is
one item at most (`PushServes`, `ReadyServes`); `Serves` says that a queue holds
exactly the jobs that wait, each once, and its count is that of those at work.

**FileProofs**, of CheckNSave - `SpecAccounting`, with its parts `SpecTypeOK`,
`SpecSlotsMatch`, `SpecWritesBounded`, `SpecWorkConserving`, and
`SpecQueueHoldsWaiting`. The counts alone are not inductive: the end of a save
runs the queue, and to know that this starts at most one save one must know that
the queue was settled before; to know that the started save was not in flight
already one must know that the queue holds exactly the waiting saves, each once;
and to know that a cancel of a started save does not count as a cancel of a
waiting one, that a save in flight has a cancellable. `IInv` is the conjunction
of these.

**FileProofs**, of OpenFile - `SpecSlots` and `SpecMounting`. A handler changes the
state several times before it returns (it ends a load, closes the document, runs the
queue, ends the mount, resumes the waiting jobs), so each function of `file.c` is a
lemma of its own: it keeps `Good(S, l, i)`, where l and i are the slots that the
handler has still to give back, and `Moved` says for whom the wait for the mount is
over. `Good` is more than the counts: `Line` says that each queue holds exactly who
is queued, once, and is settled; `Staged` which status a document has while it is
loaded, so that it is counted as incomplete once; `CancelledWaits` that a cancelled
open waits only after the situation that spoils the count. `Sound`, the invariant of
the actions, adds that there is one mount (`OneMount`) and that the lists hold who
waits (`OpensListed`, `InfosListed`). The two lists are walked by a recursive
function: `LoopIsThere` shows that it exists for every length, by the same induction
over a set as in MarkRegionProofs, and `OpensResumed` and `InfosResumed` that after
the walk nobody waits.

**FileProofs**, of Sync - `SpecSyncCount`: the reference count is the number of what
holds the Tsync, unless an update was lost, so the last callback frees it. The
count by itself does not survive a step: a reference that is taken must be that
of a *new* holder, and a path that were walked or copied twice would be two
holders with one name. `OncePerPath` says that every job comes from the walk of
the path above it, which is done once; `Queued` is `Serves` for each of the three
queues, with the lemmas instantiated once for each limit; `Counted` is the count
itself; `NotBegun` says that nothing is under way before the first walk.

`SpecMirrors`: a job that reported nothing failed left the target as the source is,
but for the files that it took for the same. What *has happened* to a path must be
said while the walk is elsewhere: `Passed` that a path whose directory was read is
there, is being copied, or had something fail; `Asked` that the copies asked for are
of what the source has; `Copied` and `Cleared` what a finished copy and a finished
deletion leave; `Reported` that what failed is told. `SpecKeepsWhatIsThere`, an
action property, is that no step takes from the target what the source has as well.
Both need what is *below* a path. `Below` is not recursive but the least closed set,
so that what is shown of a closed set holds of everything below (`BelowStep`,
`Downwards`): a directory that is walked to its end and had nothing fail has every
path below it passed.

**SearchFilesProofs** - `SpecCounts` and `SpecDoneMeansAll`. Neither is inductive, and
most of the invariant is what keeps a counter from being right by accident:
- of the directories (`FilesInv`): the queue serves those without a slot, a search
  is there as long as one of its directories (`FoundDomain`), and nothing is met
  twice (`MetOnce`): what a search met is no longer among the entries to come of
  the one directory that holds it. So a directory that is pushed is a new one,
  although `findfiles_backend` looks for none;
- of what is to come (`Covered`): each entry of a directory that was met was met
  too, or is among the entries to come of that directory, unless a directory was
  unreadable. When no directory is left, all that was met is closed under `Tree`,
  and an induction over the depth (`AllSeen`) gives every file;
- of the threads (`ThreadsInv`): the list has each running worker once, so
  `g_slist_remove` of one leaves the others (`ListRemoveFacts`), and their number
  is the count of the queue; `JoinInv` says for whom the main loop waits;
- of the jobs (`JobsInv`): a file that was met is at exactly one place, waiting,
  worked on, searched in its document or waiting for that (`DocsInv`), about to be
  reported, or reported. Only with this does `CountInv`,
  which adds up the *numbers* of these, survive a step: a job that leaves the queue
  or a worker must not have been at the next place already. When runcount is 0 all
  places but the last are empty;
- of the runs (`RunsInv`): which Tfindfiles are cancelled, and that everything that
  goes wrong needs a cancel while something was in progress (`interrupted`).

A chunk of the directory has one entry, as in the run. That is no loss: a chunk of
several is a sequence of such steps of which nothing comes in between.

**ProcessesProofs**, of ExternalCommand - `SpecLifetime`: the count is right,
nothing freed is used and the last callback frees. The inductive invariant adds to
the count which sources can be there at all in each state of the child, and that a
structure that is freed has count zero. Each callback is a lemma on the record of
one command, and the lemmas are combined for the commands. `SpecOutputKept`: when a
command is done its output has arrived, but for the listed situations. Its invariant
`OutInv` says of each command with a child that its output is still to be read by a
source that is there, was read to its end, or is given up for one of the listed
reasons, a read that fails among them (`Handled`), and that who reads for the output
box finds one until the first is closed (`Boxed`); it uses the first invariant for
which sources are left.

**ProcessesProofs**, of Ipc - `SpecIpcSound`. As long as no two starts overlapped, who runs
serves, who found nobody to connect to is alone with the path, and so is who
ends (`Alone`); that a process that takes the path over takes it from nobody
follows from this only together with what *every other* process may be doing
then. `Connections` and `Progress` say where the lines of a command line are.

**DocSaveProofs** has three invariants, each under the absence of its
situations; `Separate => ...` and its like are inductive because `met` only
grows.
- `SpecDestroyedLeftAlone`: no callback and no dialog comes back to a destroyed
  document, the question about the encoding included. Without the two situations at
  most one of a save, a fetch and a question about closing is under way (`Fetches`,
  `Questions`), and each of them keeps the document alive (`Destroyed`).
- `SpecNothingLost`: a save in flight carries the text as it is, unless the user
  continued in UTF-8 (`Aborted` and `Continued` are the answers), and writes it to
  where no pending deletion reaches (`Writing`); what is shown as unmodified is
  in its file already, or on its way to another one (`Kept`).
- `SpecToldBeforeOverwrite`, an action property: what another program wrote has
  an etag that the document never had (`Looks`, `SaveLooks`), since etags grow
  with the clock and no two files share one (`Times`); so a write that compares
  etags is refused, and one that does not was agreed to, as long as the
  query for the question did not fail and the preference is to check.

**AutosaveProofs** - `SpecJournalSound`, `SpecModifiedIsRecoverableUnless` and
`SpecCrashIsRepaid`, from one inductive invariant of four groups, each under the
absence of its own situations:
- what is always so (`TypeOK`, `Off`, `Concerned`, `LiveSaves`): which lists a
  document may be on, and that a save under way is one that its document knows;
- no two documents have one file (`OneEntry`, `NamesTaken`): the file of a
  document that waits for nothing exists, so that `unique_path` does not hand
  out its name a second time;
- what the journal promises (`SavesCurrent`, `InJournal`, `JournalOnDisk`): a
  save carries the text of its document or the document needs another one, and
  what is listed is on disk with the text that was saved;
- what a crash owes (`OwedOnDisk`, `OwedInMemory`, `OwedSaves`): it stays in the
  file it was in, until a document has it and the journal lists it again.
`ProgressEnds` needs that a document in progress has the save that ends it. The
journal on disk is what it should be as long as writing and reading it succeed;
`FilesApart` does not need that.

**MarkRegionProofs** - `SpecInOrder` and the refinement `SpecDirtySpec`, for a
text of any length. The invariant `Good` is what `markregion_verify_integrity`
looks at, with each mark before *all* that follow (`Sorted`), since the
operations look for a position and not for a neighbour. An insertion, a deletion
and a request for a scan do the same thing: they make one region of the changed
text and of what it touches. What is kept of the marks before is described by
`Opens`, the end of the region with what comes behind by `Closes`, and `Merged`
is the one argument that joins the two: the result is `Good`, and character x is
in a region exactly if it was, or is part of the changed text. The case
distinctions of the code become instances of it (`KeptOpens`, `ClosesAtAnEnd`,
`ClosesBefore`); `DoneIs` does the same for a scan that got up to a position.
The refinement is then a statement about each single character, and `Spread`,
`Cut`, `MarkedOnce` and `MarkedTwice` say the same of the sequences of DirtyText.
The library's induction over the numbers takes an operator, which the provers
cannot be given; `Induction` proves it for a set, from the pigeonhole theorem.

**UndoRedoProofs** - `SpecHistory`, the refinement of UndoHistory, with
`SpecCleanMeansSaved` and `SpecRedoKept`, for any text and any length of the history.
- What a *group* promises is `Spans(entries, a, b)`: there are texts in between,
  one for each entry, and each entry leads from one to the next and back. An
  entry does (`Links`) if the text with it is the text without it, `Grown` at its
  place. That a merge keeps this is `MergedLinks`, with one case for typing on, for
  the backspace and for the delete key, which differ in the offset that the merged
  entry begins with. Both directions of a replay follow by an induction along the
  entries (`SpansUndone`, `SpansRedone`); redo needs it for the list turned round.
- What a *document* promises is `Trail(D, Q, F)`: the texts Q behind it and F ahead of
  it, of which neighbours are the two ends of a group. The invariant says that there
  are such texts, and that with no situation met each flag that is not set is at the
  saved text (`Honest`): doc->modified at the text of the document, `changed` of a group
  at the text that undoing the group gives. The flag alone is not inductive, since undo
  makes the flag of the document from that of a group.
- Each operation, with all that it calls, does one thing to these texts
  (`Moves`): it closes the group and may forget the oldest (`Forgets`), starts a change
  (`Starts`), goes on with the last (`Continues`), walks n texts (`Went`, by an induction
  over n for the -all forms), or drops all of them (a save with
  `clear_undo_on_save`). The operations are composed of `NewGroup`, `Insert` and
  `Delete` as in the code, and so are their lemmas: `Closed` and `Started` say what
  may follow. The flag of a group that is empty matters only for the next change:
  `InStep` is what the situation *flag behind* is about.
- `TextsBehind` and `TextsAhead` say that Q and F are what the refinement mapping
  computes, and `MovesAllowed` that the five moves are the steps of UndoHistory.

**Only model-checked**, on the instances of section 3:
- everything under fairness (`EveryJobEnds`, `EveryProcessEnds`,
  `EverySearchEnds`, `EveryRefreshEnds`, `EventuallyScanned`, `WindowCloses` and
  the like): there is no prover for it here.
- What rests on a recursive definition or on an induction over data: `TreeSound`
  and `ListsDisk` of FileTreemodel (what lies *below* a path),
  `CacheRight` of Scanner (FoundCache is recursive), `SearchSound` and
  `AllReplaced` of SearchResults (what a search of a text finds).
- `Agree` of Bookmarks and `WindowSound` of CloseWindow: these have no obstacle but
  their size.

## 5. Where the code, its comments and the manual disagree

Met while modelling. Each is what the models *do*; the properties name the
situation and hold outside of it. "Freed" means that a pointer to freed memory
is used from there on.

**Queues, loading and saving**
- A save that is cancelled while it waits counts `worknum` down for a slot it
  never had: `queue_remove` returns FALSE when it removed the item. At 0 the
  guint wraps, and no save starts any more.
- The same happens when an open is cancelled that waits for a mount: it gave its
  slot back when it began to wait, and `openfile_cleanup` gives back another
  (the situation "slot").
- A close of a document whose load is still queued never comes about: nothing
  calls the owner back. Neither does a close while `file2doc_finished_idle_lcb`
  or `file2doc_goto_idle_cb` is pending (the situation "silent" of `closedIn`).
- `num_docs_not_completed` is not counted down after a failed read, not even
  when the document is closed: `snr3.c` then refuses to search all documents.
- A close during a save destroys the document that the save calls back to:
  `doc_close_single_backend` looks at `load` and `info` only. Its comment says
  that "the info callback will not close the document"; `fill_fileinfo_lcb`
  does, if `close_doc` is set.
- A save during the fetch of the file info carries no etag, against the
  manual's description of the check for modified files; a cancelled fetch leaves
  the document without one for good.
- A move deletes its source although another program changed it.
- `doc_save_backend` gives the document its new name before it asks about the
  encoding: after *abort* the name stays. *Continue in UTF-8* saves a buffer whose
  length `doc_get_buffer_in_encoding` did not set (it is 0): an empty file, and
  the document is shown as saved.
- While the question about the encoding is up, the end of a fetch that a close waited
  for closes the document.
- When a file was modified on disk, any error of the query before the question, not
  only that the file has gone, overwrites it unasked.

**Closing**
- A project whose close is cancelled stays marked: `bfwin_notebook_changed`
  closes it later unasked, or even while the question is up, since
  `project_save_and_close` marks it first. A cancelled window close leaves
  `close_window` of documents, and of the loop, set: the window goes later.
- *Close project* with an empty document only leaves the project open but
  marked; with *save all* it is closed before its documents are saved.
- `choose_per_file` and the loops of the closes use documents that callbacks
  destroyed during a dialog; at its end `project_save_and_close` uses
  `bfwin->project`, which may be NULL by then. *Close all* with *per file*
  leaves the window without a current document, or without any.
- If all documents go while the question of the window close is up, the answer
  closes nothing: the window stays, empty.
- A load whose idle callback is pending is cancelled without a callback: the
  window close that waits for it never comes. So it is after the tab of the
  loading document is closed as well, which overwrites `close_window`.
- *Save* and *save all* of a document that is still loading write an empty file.
  *Save all* asks for a name for an empty new document too. A document with a
  save in progress is not closed by *save all*.
- `checkmodified_cancel` does not prevent the callback, which writes to the
  freed document. The callbacks of the load and of the file info that close their
  document go on to use it (`file.c` 749, 962), and `doc_buffer_to_textbox` may open
  a dialog in the middle of a load. A read-only document is never closed by *save
  all*, and the window stays with it. `file_doc_retry_uri` does not set `doc->load`: a close during
  the retry frees the document that is loaded.

**Synchronisation**
- A failed mount is told as "completed". A directory of the source that cannot
  be read, or not to its end, makes the walk of the target delete what it holds.
- A file of the target that a directory of the source replaces is deleted and no
  directory is made: an empty one never appears, and what is in it cannot be
  copied. A directory of the target that a file replaces is deleted; if it has
  the size of the file and is newer, the file is not copied.
- A differing file of the target that has the size of the source is counted as
  finished, and left, if the sum of the seconds and the microseconds of its time is
  not less than that of the source.
- `refcount` is changed by threads and by the main loop without a lock: a lost
  update frees the Tsync early or never.

**Undo and autosave**
- Type, save, undo: `changed` says unmodified, and the text is not the file's.
- `undo_all_cb` does nothing when all changes are in the group being built;
  `doc_redo` lets the history grow beyond `num_undo_levels`;
  `doc_insert_two_strings` closes its group before it marks the document
  modified.
- The autosave is removed before the question about closing, and not made again
  when the user cancels. A failed write of the journal is ignored and not repeated;
  a journal that cannot be read is deleted at the next start, and what it lists is
  not recovered. A second instance of the program deletes the autosave
  files of the first if it starts before the journal is written.

**External commands**
- `%t` with an output in place: the temporary file never gets the text.
- A second command for the output box: the comment says "we have to cancel that
  first!", nothing is cancelled, and the lines of both mix.
- A failed spawn, a failed write, or a missing output file leaves the structure
  allocated. `outputbox_statuscode_lcb` fills a NULL box after the box was
  closed. A child that exits before `start_command_idle` loses its output. A
  watch for writing to a full pipe of a dead child is never dispatched.
- An error of a read, output that is not UTF-8 for instance, is only logged: in the
  output box the rest of the output is lost, and a watch of an output *file* is
  called for ever.

**Single instance**
- Processes that start together with a stale socket both remove and bind it;
  there are two masters, and the first is out of reach. The removal does not look
  whether the path still is what the connect failed on. A bind that fails leaves
  a process without a socket, and `ipc_bf2bf_cleanup` removes the path whoever
  bound it last.
- What is sent to a process before its first window is there is dropped; what is
  sent after its main loop has ended is never read. The sender exits in both
  cases as if its files had been opened.
- `socket_data_in_lcb` reads with a blocking channel: a process does nothing else
  until the other end writes a line or exits.

**Search results**
- Cancelling a search with documents waiting starts the next one and forgets its
  id and document: results without a document, `runcount` -1, no callback, and a
  dialog that closes then frees what runs on.
- `docdestroy` compares a GList with a Tsnr3result, so `current` dangles; a
  document closed while its search waits is searched after it is freed.
- The update after an edit starts at the end of the last result of *any*
  document, and may begin before the region searched; an edit in a document
  without results searches that one too; an edit in one document moves the
  region of a search that runs in another.
- A search that is resumed adds the start of its region to its position once
  more, and an interrupted one can miss or repeat a match at the edit.
- A *replace all* that is aborted for want of a selection leaves `replaceall` TRUE:
  the dialog takes no options and no response any more, and the next edit of a
  document replaces from its start. So it is while documents are still loading, and
  then the buttons stay off too. *Replace* after an aborted search takes the new scope
  but does not search. *Replace* after *replace all* replaces again. With a
  shorter replacement `snr3run_update_offsets` deletes valid results that follow
  closely; with a longer one it does not move an adjacent one.

**Search in files**
- `findfiles` is not reset after a cancel: a second cancel uses freed memory.
  `queue_cancel` walks the list of threads without the mutex and joins a thread
  that unreferences itself. Idle callbacks of a cancelled run use the freed
  Tsnr3run after the dialog closed, or count down the next run (`disturbed`).
- A cancel ends the search in the document that is searched by starting the next
  one, and forgets that; the results of what was cancelled are added all the same. A
  directory that fails in the middle of its entries ends there, and nothing is said.
- A cancel empties the queue that all searches share: *open advanced* then
  reports the end of a search that did not look everywhere.
- Changed options during *find all* leave the buttons insensitive and start the
  search at every further change. Text that cannot be converted back is not
  written, and its replacements are reported.

**File tree**
- A read error leaves the directory in `uri_in_refresh` for ever. A record is
  freed by its parent's refresh while its own is in flight. When a directory is
  replaced by a file, the new record takes the entry of the hash table and loses
  it when the old one is removed: rows double. `register_delayed_refresh`
  forgets to reset `delayed_refresh_id`. `finalize` walks the wrong list and
  leaves callbacks with freed data.
- The rows are sorted by display name and looked up by name: where the two differ
  a row is not found, is added again at each refresh, and its entry of `alluri`
  is lost. A directory that exists but cannot be opened, for another reason than
  *permission denied* or *not a directory*, loses its row.

**Scanner**
- An insertion before the first entry of the cache does not move it; removing
  the last entry that ends a context does not mark what follows; blocks and
  contexts that interleave can leave a wrong end (`scancache_check_integrity`
  aborts); several pending edits can break the cache. Scanner keeps to edits one
  at a time (or a deletion with its insertion) and to languages without such
  interleaving.
- A document that is shown again, and was the last one active, gets
  `enable_scanner` without a scan being scheduled (`stranded`).

**Bookmarks**
- A document saved under the name of a closed file with bookmarks replaces that
  file's hash entry and orphans its row; the removal of that row's last bookmark
  frees the iter that the document uses. A document without bookmarks never gets
  `bmark_parent` then. A bookmark added while the document is loading leaves
  `bmark_parent` NULL although the file has a row: a second one can be added to
  the same line. Two untitled documents of the same former name share a row.
- `bmark_store` never updates the text of a stored bookmark, though the comment
  in `bmark_update_offset_from_textmark` says it "aids" the repositioning.
  `bookmark_reposition` may end before it looked at the start of the text.
  The text of a bookmark is measured in bytes (`strlen`) and the buffer in
  characters: with a character of several bytes each update of the text takes in
  more of what follows, the comparison covers that too, and the bookmark is not
  found again.
  `create_new_project` compares a string with a list of strings, so bookmarks
  never move to a new project.

## 6. What is not modelled

- **Inside the modelled components**: *check and reload all documents*; several
  windows, and the order of the tabs (CloseWindow); recovery in two opens
  (OpenFile);
  location mode 1, unnamed documents, a journal that cannot be deleted and a
  `~/.bluefish` that cannot be read (Autosave); what `doc_save_backend` itself edits
  before a save (trailing spaces, the author and the date), and documents without a
  name (DocSave); replacements up to offset -1
  (UndoRedo); the text that a filter puts in the document (ExternalCommand);
  patterns of more than one character, conditional blocks, identifiers and the
  spell checker (FoundCache); *bookmark all*, replacement by a command and the
  regular expressions themselves (SearchResults); what a replacement in files
  writes, and documents that are opened or closed while they wait for the search
  (SearchFiles); the limit of `ffdqueue`, which `findfiles_backend` changes
  with the number of opens that wait (FindFiles has a constant one); names and the
  view of bookmarks.
- **Use after free beyond its first use**: the models note that something freed
  was used; what it does then is anything.
- **Components** with status `not_modelled` in PROJECT.json, which gives the
  reason for each. Those of the plan below are in reach; the rest is
  synchronous, a translation of data, or widgets.

## 7. The plan

Next, in this order:

1. Recovery in two opens, in OpenFile.
2. Several windows, and documents that move between them, in CloseWindow.

Compositions: DocSave with CheckNSave (the writes of DocSave are saves of the
queue), Autosave with CheckNSave (its cancels are the ones that break the
accounting); abstractly each of them uses a save that may take any time, which
`EveryJobEnds` and `QueueHoldsWaiting` justify.

Proofs to come: `WindowSound` of CloseWindow, whose invariant must say what each frame of the
stack knows about its document; `Agree` of Bookmarks.
