-------------------------------- MODULE Sync --------------------------------
(***************************************************************************)
(* The synchronisation of a directory with another one (file.c, from       *)
(* "code for local to remote synchronisation" on).  sync_directory walks   *)
(* the source: a job in a thread reads each directory, compares its        *)
(* entries with the target and asks for copies and for walks of the        *)
(* directories in it; then, if deprecated files are to be deleted, another *)
(* job reads the directory of the target.  Jobs and copies wait on three   *)
(* queues.                                                                 *)
(*                                                                         *)
(* Everything that is under way holds a reference to the one Tsync.  The   *)
(* threads count up, the main loop counts down, and nothing locks the      *)
(* count: reading it and writing it are two steps here.                    *)
(***************************************************************************)
EXTENDS AsyncQueue, FiniteSets

CONSTANTS
    Paths, Root,     \* what there may be in the two directories, and these themselves
    Above,           \* the directory of each path but the root
    SourceKinds, TargetKinds,   \* what each path may be at first
    Excluded,        \* the hidden and backup files, if these are not included
    MaxLocal, MaxRemote, MaxUpdate   \* the limits of the three queues

ASSUME PathsAssumption == IsFiniteSet(Paths) /\ Root \in Paths /\ Excluded \subseteq Paths
ASSUME AboveAssumption == Above \in [Paths \ {Root} -> Paths]

Entries(p) == {q \in Paths \ {Root} : Above[q] = p}

\* p and what may be in it: the least set that has p and the entries of what it has.
Closed(S) == \A p \in S : Entries(p) \subseteq S
Below == [p \in Paths |-> {q \in Paths : \A S \in SUBSET Paths : p \in S /\ Closed(S) => q \in S}]

ASSUME RootAssumption == Below[Root] = Paths
\* What a path of the target is, "old" and "alike" being files that differ from the source's.
\* An old one has another size, or its time is before that of the source's file; an alike
\* one has the size of the source's and passes for not older.
TargetStates == {"none", "old", "alike", "file", "dir"}

ASSUME KindsAssumption ==
    \A p \in Paths : /\ SourceKinds[p] \subseteq {"none", "file", "dir"}
                     /\ TargetKinds[p] \subseteq TargetStates
ASSUME LimitsAssumption == \A m \in {MaxLocal, MaxRemote, MaxUpdate} : m \in 1 .. WordSize - 1

LQ == INSTANCE AsyncQueue WITH MaxWorknum <- MaxLocal
RQ == INSTANCE AsyncQueue WITH MaxWorknum <- MaxRemote
UQ == INSTANCE AsyncQueue WITH MaxWorknum <- MaxUpdate

VARIABLES
    source,      \* what each path is in basedir: "none", "file" or "dir"
    target,      \* and in targetdir: see TargetStates
    delete_deprecated,
    mount,       \* of the target: "none", "mounting" or "done"
    refcount,
    unref,       \* the count that sync_unref has read, or None
    walk,        \* where the walk of each directory is: see WalkStages
    todo,        \* the entries its enumerator has not given yet
    localnames,  \* the names that the walk of the source found
    adding,      \* what the thread of a walk is about to ask for, and the count it read
    update,      \* where the copy of each file is
    queue_walkdir_local, queue_walkdir_remote, queue_update,
    failed,      \* num_failed > 0
    told,        \* what the last progress callback said: "nothing", "completed", "incomplete"
    met          \* history: the situations that occurred

given == <<source, delete_deprecated, mount>>
walks == <<walk, todo, localnames, adding>>
queues == <<queue_walkdir_local, queue_walkdir_remote, queue_update>>
syncVars == <<given, target, refcount, unref, walks, update, queues, failed, told, met>>

\* "push": an idle callback will put it on its queue; "open": its job begins; "read": the
\* job reads; "finish": the idle callback after it is pending.
WalkStages == {"none", "push", "queued", "open", "read", "finish",
               "rqueued", "ropen", "rread", "rfinish", "gone"}
UpdateStages == {"none", "push", "queued", "copy", "gone"}
Situations == {"mount failed", "lost update", "unread", "no directory", "like a directory"}
None == -1
NoAdd == [what |-> "nothing", path |-> Root, read |-> None]

IsTree(t) == t[Root] = "dir" /\ \A p \in Paths \ {Root} : t[p] # "none" => t[Above[p]] = "dir"
Trees(kinds) == {t \in [Paths -> UNION {kinds[p] : p \in Paths}] :
                    IsTree(t) /\ \A p \in Paths : t[p] \in kinds[p]}

SyncInit ==
    /\ source = [p \in Paths |-> "none"]
    /\ target = source
    /\ delete_deprecated = FALSE
    /\ mount = "none"
    /\ refcount = 0
    /\ unref = None
    /\ walk = [p \in Paths |-> "none"]
    /\ todo = [p \in Paths |-> {}]
    /\ localnames = todo
    /\ adding = [p \in Paths |-> NoAdd]
    /\ update = walk
    /\ queue_walkdir_local = EmptyQueue
    /\ queue_walkdir_remote = EmptyQueue
    /\ queue_update = EmptyQueue
    /\ failed = FALSE
    /\ told = "nothing"
    /\ met = {}

Freed == told # "nothing"
MainLoop == unref = None /\ ~Freed   \* it is not in the middle of sync_unref

-----------------------------------------------------------------------------
(* The main loop                                                           *)

\* sync_directory
SyncDirectory ==
    /\ mount = "none"
    /\ mount' = "mounting"
    /\ refcount' = 1
    /\ source' \in Trees(SourceKinds)
    /\ target' \in Trees(TargetKinds)
    /\ delete_deprecated' \in BOOLEAN
    /\ UNCHANGED <<unref, walks, update, queues, failed, told, met>>

\* sync_directory_mount_lcb; ok: it is mounted, or there is nothing to mount.
MountLcb(ok) ==
    /\ mount = "mounting"
    /\ mount' = "done"
    /\ walk' = IF ok THEN [walk EXCEPT ![Root] = "push"] ELSE walk
    /\ refcount' = IF ok THEN refcount + 1 ELSE refcount
    /\ unref' = refcount'
    /\ met' = IF ok THEN met ELSE met \union {"mount failed"}
    /\ UNCHANGED <<source, delete_deprecated, target, todo, localnames, adding, update, queues,
                   failed, told>>

\* sync_unref, after it has read the count
SyncUnref ==
    /\ unref # None
    /\ unref' = None
    /\ refcount' = unref - 1
    /\ told' = IF refcount' > 0 THEN told ELSE IF failed THEN "incomplete" ELSE "completed"
    /\ met' = IF refcount = unref THEN met ELSE met \union {"lost update"}
    /\ UNCHANGED <<given, target, walks, update, queues, failed>>

\* walk_local_directory_push
WalkLocalDirectoryPush(p) ==
    /\ walk[p] = "push" /\ MainLoop
    /\ LET Q == LQ!Push(queue_walkdir_local, p) IN
       /\ queue_walkdir_local' = LQ!Run(Q)
       /\ walk' = [q \in Paths |-> IF q \in LQ!Started(Q) THEN "open"
                                   ELSE IF q = p THEN "queued" ELSE walk[q]]
    /\ UNCHANGED <<given, target, refcount, unref, todo, localnames, adding, update,
                   queue_walkdir_remote, queue_update, failed, told, met>>

\* Variant: the cleanup also when the target's directory is still to be walked.
WalkLocalDirectoryJobFinishedFreed(p) ==
    /\ walk[p] = "finish" /\ MainLoop
    /\ LET ends == LQ!WorkerReady(queue_walkdir_local)
           next == RQ!Push(queue_walkdir_remote, p)
       IN /\ queue_walkdir_local' = LQ!Run(ends)
          /\ queue_walkdir_remote' = IF delete_deprecated THEN RQ!Run(next)
                                     ELSE queue_walkdir_remote
          /\ walk' = [q \in Paths |->
                 IF q \in LQ!Started(ends) THEN "open"
                 ELSE IF delete_deprecated /\ q \in RQ!Started(next) THEN "ropen"
                 ELSE IF q # p THEN walk[q]
                 ELSE IF delete_deprecated THEN "rqueued" ELSE "gone"]
    /\ unref' = refcount
    /\ UNCHANGED <<given, target, refcount, todo, localnames, adding, update, queue_update,
                   failed, told, met>>

\* walk_local_directory_job_finished
WalkLocalDirectoryJobFinished(p) ==
    /\ walk[p] = "finish" /\ MainLoop
    /\ LET ends == LQ!WorkerReady(queue_walkdir_local)
           next == RQ!Push(queue_walkdir_remote, p)
       IN /\ queue_walkdir_local' = LQ!Run(ends)
          /\ queue_walkdir_remote' = IF delete_deprecated THEN RQ!Run(next)
                                     ELSE queue_walkdir_remote
          /\ walk' = [q \in Paths |->
                 IF q \in LQ!Started(ends) THEN "open"
                 ELSE IF delete_deprecated /\ q \in RQ!Started(next) THEN "ropen"
                 ELSE IF q # p THEN walk[q]
                 ELSE IF delete_deprecated THEN "rqueued" ELSE "gone"]
    /\ unref' = IF delete_deprecated THEN None ELSE refcount
    /\ UNCHANGED <<given, target, refcount, todo, localnames, adding, update, queue_update,
                   failed, told, met>>

\* walk_directory_remote_job_finished
WalkDirectoryRemoteJobFinished(p) ==
    /\ walk[p] = "rfinish" /\ MainLoop
    /\ LET ends == RQ!WorkerReady(queue_walkdir_remote) IN
       /\ queue_walkdir_remote' = RQ!Run(ends)
       /\ walk' = [q \in Paths |-> IF q \in RQ!Started(ends) THEN "ropen"
                                   ELSE IF q = p THEN "gone" ELSE walk[q]]
    /\ unref' = refcount
    /\ UNCHANGED <<given, target, refcount, todo, localnames, adding, update,
                   queue_walkdir_local, queue_update, failed, told, met>>

RunUpdate(Q, u) ==
    /\ queue_update' = UQ!Run(Q)
    /\ update' = [p \in Paths |-> IF p \in UQ!Started(Q) THEN "copy" ELSE u[p]]

\* do_update_push
DoUpdatePush(p) ==
    /\ update[p] = "push" /\ MainLoop
    /\ RunUpdate(UQ!Push(queue_update, p), [update EXCEPT ![p] = "queued"])
    /\ UNCHANGED <<given, target, refcount, unref, walks, queue_walkdir_local,
                   queue_walkdir_remote, failed, told, met>>

\* Variant: no queue_worker_ready.
DoUpdateLcbKeepsSlot(p, ok) ==
    /\ update[p] = "copy" /\ MainLoop
    /\ ok => target[Above[p]] = "dir" /\ target[p] # "dir"
    /\ target' = IF ok THEN [target EXCEPT ![p] = "file"] ELSE target
    /\ failed' = (failed \/ ~ok)
    /\ update' = [update EXCEPT ![p] = "gone"]
    /\ unref' = refcount
    /\ UNCHANGED <<given, refcount, walks, queues, told, met>>

\* do_update_lcb
DoUpdateLcb(p, ok) ==
    /\ update[p] = "copy" /\ MainLoop
    /\ ok => target[Above[p]] = "dir" /\ target[p] # "dir"
    /\ target' = IF ok THEN [target EXCEPT ![p] = "file"] ELSE target
    /\ failed' = (failed \/ ~ok)
    /\ RunUpdate(UQ!WorkerReady(queue_update), [update EXCEPT ![p] = "gone"])
    /\ unref' = refcount
    /\ UNCHANGED <<given, refcount, walks, queue_walkdir_local, queue_walkdir_remote, told, met>>

-----------------------------------------------------------------------------
(* The jobs, each in a thread of its own                                   *)

Threads == <<given, refcount, unref, update, queues, told>>

\* walk_local_directory_job and walk_directory_remote_job: the directory p of the tree t is
\* opened, or cannot be.
Open(p, stage, t, reads, finish, ok) ==
    /\ walk[p] = stage /\ ~Freed
    /\ ok => t[p] = "dir"
    /\ walk' = [walk EXCEPT ![p] = IF ok THEN reads ELSE finish]
    /\ todo' = [todo EXCEPT ![p] = IF ok THEN {q \in Entries(p) : t[q] # "none"} ELSE {}]
    /\ failed' = (failed \/ ~ok)

LocalOpen(p, ok) ==
    /\ Open(p, "open", source, "read", "finish", ok)
    /\ met' = IF ok THEN met ELSE met \union {"unread"}
    /\ UNCHANGED <<Threads, target, localnames, adding>>

RemoteOpen(p, ok) ==
    /\ Open(p, "ropen", target, "rread", "rfinish", ok)
    /\ UNCHANGED <<Threads, target, localnames, adding, met>>

\* An error while reading: the loop goes on, and the enumerator has no more.
ReadError(p) ==
    /\ walk[p] \in {"read", "rread"} /\ todo[p] # {} /\ adding[p] = NoAdd /\ ~Freed
    /\ todo' = [todo EXCEPT ![p] = {}]
    /\ failed' = TRUE
    /\ met' = IF walk[p] = "read" THEN met \union {"unread"} ELSE met
    /\ UNCHANGED <<Threads, target, walk, localnames, adding>>

\* The end of the directory; the idle callback is sent.
DirectoryRead(p) ==
    /\ walk[p] \in {"read", "rread"} /\ todo[p] = {} /\ adding[p] = NoAdd /\ ~Freed
    /\ walk' = [walk EXCEPT ![p] = IF @ = "read" THEN "finish" ELSE "rfinish"]
    /\ UNCHANGED <<Threads, target, todo, localnames, adding, failed, met>>

\* What delete_recursive and g_file_delete may leave of the tree t: all below p goes, or
\* some of it stays.
Without(t, gone) == [q \in Paths |-> IF q \in gone THEN "none" ELSE t[q]]
Deleted(t, p) == {u \in {Without(t, gone) : gone \in SUBSET Below[p]} : IsTree(u)}

\* The entry q of directory p of the source: the job does what it can itself, and asks for
\* what remains (what).
Entry(p, q, t, what, fails, situation) ==
    /\ target' = t
    /\ failed' = (failed \/ fails)
    /\ met' = met \union situation
    /\ todo' = [todo EXCEPT ![p] = @ \ {q}]
    /\ localnames' = [localnames EXCEPT ![p] = IF delete_deprecated THEN @ \union {q} ELSE @]
    /\ adding' = [adding EXCEPT ![p] =
                     IF what = "nothing" THEN NoAdd
                     ELSE [what |-> what, path |-> q, read |-> refcount]]
    /\ UNCHANGED <<Threads, walk>>

Reading(p, q, stage) == walk[p] = stage /\ q \in todo[p] /\ adding[p] = NoAdd /\ ~Freed

EntrySkipped(p, q) ==
    /\ Reading(p, q, "read") /\ q \in Excluded
    /\ Entry(p, q, target, "nothing", FALSE, {})

\* g_file_query_info fails with something else than NOT_FOUND.
EntryUnknown(p, q) ==
    /\ Reading(p, q, "read") /\ q \notin Excluded
    /\ Entry(p, q, target, "nothing", TRUE, {})

\* The target does not have it, nor a file in place of the directory p.
EntryNew(p, q, ok) ==
    /\ Reading(p, q, "read") /\ q \notin Excluded
    /\ target[q] = "none" /\ target[p] \in {"none", "dir"}
    /\ IF source[q] = "file" THEN ok /\ Entry(p, q, target, "update", FALSE, {})
       ELSE IF ok
       THEN target[p] = "dir" /\ Entry(p, q, [target EXCEPT ![q] = "dir"], "walk", FALSE, {})
       ELSE Entry(p, q, target, "nothing", TRUE, {})

\* Variant: a directory that is there already is not walked.
EntryDirectoryLeft(p, q) ==
    /\ Reading(p, q, "read") /\ q \notin Excluded
    /\ source[q] = "dir" /\ target[q] # "none"
    /\ IF target[q] = "dir" THEN Entry(p, q, target, "nothing", FALSE, {})
       ELSE \E t \in Deleted(target, q) :
                Entry(p, q, t, "walk", t[q] # "none",
                      IF t[q] = "none" THEN {"no directory"} ELSE {})

\* A directory; a file in its place is deleted, but no directory made.
EntryDirectory(p, q) ==
    /\ Reading(p, q, "read") /\ q \notin Excluded
    /\ source[q] = "dir" /\ target[q] # "none"
    /\ IF target[q] = "dir" THEN Entry(p, q, target, "walk", FALSE, {})
       ELSE \E t \in Deleted(target, q) :
                Entry(p, q, t, "walk", t[q] # "none",
                      IF t[q] = "none" THEN {"no directory"} ELSE {})

\* A file is copied if its size differs from what is in its place, or if that is older.  The
\* times compared are sums of the seconds and the microseconds, so that an older file may
\* pass for a newer one; what is alike is left and counted as finished.  A directory in its
\* place is deleted, and it too may have that size and be newer.
EntryFile(p, q, like) ==
    /\ Reading(p, q, "read") /\ q \notin Excluded
    /\ source[q] = "file" /\ target[q] # "none"
    /\ like => target[q] = "dir"
    /\ IF target[q] # "dir"
       THEN Entry(p, q, target, IF target[q] = "old" THEN "update" ELSE "nothing", FALSE, {})
       ELSE \E t \in Deleted(target, q) :
                Entry(p, q, t, IF like THEN "nothing" ELSE "update", t[q] # "none",
                      IF like THEN {"like a directory"} ELSE {})

\* do_update and walk_local_directory: refcount++ is written, and an idle callback added.
AddWrite(p) ==
    /\ adding[p] # NoAdd /\ ~Freed
    /\ LET a == adding[p] IN
       /\ refcount' = a.read + 1
       /\ met' = IF refcount = a.read THEN met ELSE met \union {"lost update"}
       /\ walk' = IF a.what = "walk" THEN [walk EXCEPT ![a.path] = "push"] ELSE walk
       /\ update' = IF a.what = "update" THEN [update EXCEPT ![a.path] = "push"] ELSE update
    /\ adding' = [adding EXCEPT ![p] = NoAdd]
    /\ UNCHANGED <<given, target, unref, todo, localnames, queues, failed, told>>

\* Variant: a name is looked up among those that are to be copied.
RemoteEntryStrict(p, q) ==
    /\ Reading(p, q, "rread")
    /\ todo' = [todo EXCEPT ![p] = @ \ {q}]
    /\ IF q \in localnames[p] \ Excluded THEN UNCHANGED <<target, failed>>
       ELSE \E t \in Deleted(target, q) : target' = t /\ failed' = (failed \/ t[q] # "none")
    /\ UNCHANGED <<Threads, walk, localnames, adding, met>>

\* walk_directory_remote_job, one entry
RemoteEntry(p, q) ==
    /\ Reading(p, q, "rread")
    /\ todo' = [todo EXCEPT ![p] = @ \ {q}]
    /\ IF q \in localnames[p] THEN UNCHANGED <<target, failed>>
       ELSE \E t \in Deleted(target, q) : target' = t /\ failed' = (failed \/ t[q] # "none")
    /\ UNCHANGED <<Threads, walk, localnames, adding, met>>

-----------------------------------------------------------------------------

MainStep ==
    \/ SyncUnref
    \/ \E ok \in BOOLEAN : MountLcb(ok)
    \/ \E p \in Paths :
        \/ WalkLocalDirectoryPush(p)
        \/ WalkLocalDirectoryJobFinished(p)
        \/ WalkDirectoryRemoteJobFinished(p)
        \/ DoUpdatePush(p)
        \/ \E ok \in BOOLEAN : DoUpdateLcb(p, ok)

ThreadStep ==
    \E p \in Paths :
        \/ ReadError(p)
        \/ DirectoryRead(p)
        \/ AddWrite(p)
        \/ \E ok \in BOOLEAN : LocalOpen(p, ok) \/ RemoteOpen(p, ok)
        \/ \E q \in todo[p] :
            \/ EntrySkipped(p, q)
            \/ EntryUnknown(p, q)
            \/ EntryDirectory(p, q)
            \/ \E ok \in BOOLEAN : EntryNew(p, q, ok) \/ EntryFile(p, q, ok)
            \/ RemoteEntry(p, q)

SyncNext == SyncDirectory \/ MainStep \/ ThreadStep

SyncSpec == SyncInit /\ [][SyncNext]_syncVars

\* The main loop or a thread has something to do.
SyncDue ==
    /\ mount # "none" /\ ~Freed
    /\ \/ mount = "mounting" \/ unref # None
       \/ \E p \in Paths : \/ walk[p] \notin {"none", "queued", "rqueued", "gone"}
                          \/ update[p] \in {"push", "copy"}

-----------------------------------------------------------------------------

SyncTypeOK ==
    /\ \A p \in Paths : source[p] \in {"none", "file", "dir"}
    /\ \A p \in Paths : target[p] \in TargetStates
    /\ refcount \in Nat /\ unref \in Nat \union {None}
    /\ \A p \in Paths : walk[p] \in WalkStages /\ update[p] \in UpdateStages
    /\ \A p \in Paths : todo[p] \subseteq Entries(p) /\ localnames[p] \subseteq Entries(p)
    /\ met \subseteq Situations

\* What holds a reference to the Tsync
Holders == {<<"walk", p>> : p \in {q \in Paths : walk[q] \notin {"none", "gone"}}}
           \union {<<"update", p>> : p \in {q \in Paths : update[q] \notin {"none", "gone"}}}
           \union (IF mount = "mounting" THEN {<<"mount", Root>>} ELSE {})
           \union (IF unref # None THEN {<<"unref", Root>>} ELSE {})

\* The count is the number of what holds a reference, so that nobody uses the Tsync after
\* the callback that frees it, and that callback comes last; the three counts of the
\* queues are those of the jobs.  Unless one of the unprotected changes was lost.
SyncCount ==
    /\ SyncTypeOK
    /\ "lost update" \notin met =>
        /\ refcount = Cardinality(Holders)
        /\ mount # "none" => (Freed <=> Holders = {})
        /\ queue_walkdir_local.worknum =
              Cardinality({p \in Paths : walk[p] \in {"open", "read", "finish"}})
        /\ queue_walkdir_remote.worknum =
              Cardinality({p \in Paths : walk[p] \in {"ropen", "rread", "rfinish"}})
        /\ queue_update.worknum = Cardinality({p \in Paths : update[p] = "copy"})

\* "completed" is only told when the target is what the source is: no file is missing or
\* old, and with delete_deprecated nothing is there that is not in the source.  What was
\* alike may still differ; nothing else may.
Mirrors ==
    told = "completed"
    /\ met \intersect {"mount failed", "lost update", "no directory", "like a directory"} = {} =>
        \A p \in Paths :
            LET within == \A q \in Excluded : p \notin Below[q] IN
            /\ source[p] # "none" /\ within =>
                  target[p] = source[p] \/ (source[p] = "file" /\ target[p] = "alike")
            /\ delete_deprecated /\ source[p] = "none" /\ within => target[p] = "none"

\* Nothing goes from the target that the source has and that is of the same kind there,
\* nor what is in it, whatever fails elsewhere; and without delete_deprecated nothing that
\* the source does not have.  But a directory of the source that cannot be read to its end
\* costs the target what it holds.
Replaceable(q) ==
    IF source[q] = "none" THEN delete_deprecated
    ELSE (source[q] = "dir") # (target[q] = "dir")
KeepsWhatIsThere ==
    [][mount # "none" /\ "unread" \notin met =>
          \A p \in Paths :
              target[p] # "none" /\ target'[p] = "none" =>
                  \E q \in Paths : p \in Below[q] /\ target[q] # "none" /\ Replaceable(q)
      ]_syncVars

\* A synchronisation comes to its end, whatever fails.
EverySyncEnds == (mount = "mounting") ~> (Freed \/ "lost update" \in met)
=============================================================================
