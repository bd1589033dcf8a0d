----------------------------- MODULE FindFiles ------------------------------
(***************************************************************************)
(* findfiles of file.c: searches of directory trees, for the search in     *)
(* files and for `open advanced'.  All of them share ffdqueue; a directory *)
(* (Tfindfiles_dir) that has a slot is enumerated in chunks, and its       *)
(* subdirectories are pushed on the queue as they are met.                 *)
(*                                                                         *)
(* Each action is one callback of the main loop.  A search calls           *)
(* finished_cb when its last directory is gone and it is not cancelled     *)
(* (Finished); a chunk calls filematch_cb for the files in it.             *)
(***************************************************************************)
EXTENDS AsyncQueue, FiniteSets

CONSTANTS
    Searches,   \* names for the Tfindfiles
    Dirs, Files,
    Tree,       \* [Dirs -> what a directory contains: directories and files that match]
    MaxDepth    \* max_recursion

ASSUME TreeAssumption ==
    /\ Tree \in [Dirs -> SUBSET (Dirs \union Files)]
    /\ IsFiniteSet(Dirs) /\ IsFiniteSet(Files) /\ Dirs \intersect Files = {}
    /\ \A d, e \in Dirs : d # e => Tree[d] \intersect Tree[e] = {}
ASSUME MaxDepthAssumption == MaxDepth \in Nat

VARIABLES
    ffdqueue,   \* the queue of directories that have no slot yet
    found,      \* the Tfindfiles in memory: refcount and cancel
    dirs,       \* the Tfindfiles_dir in memory
    left,       \* of a directory that has a slot: opened, and the entries to come
    seen        \* history: the directories and files that a search met

Dir(f, dir, recursion) == [search |-> f, dir |-> dir, recursion |-> recursion]
waiting == {ffdqueue.q[i] : i \in DOMAIN ffdqueue.q}

ffvars == <<ffdqueue, found, dirs, left, seen>>

\* queue_run: findfiles_rundir starts the enumeration
RunDirs(Q, lf) ==
    /\ ffdqueue' = Run(Q)
    /\ left' = [d \in Started(Q) \union DOMAIN lf |->
                  IF d \in DOMAIN lf THEN lf[d] ELSE [opened |-> FALSE, entries |-> Tree[d.dir]]]

\* findfiles_unref, for the directories ds that are freed
Unref(ds) ==
    LET dec(f) == found[f].refcount - Cardinality({d \in ds : d.search = f})
        alive == {f \in DOMAIN found : dec(f) > 0}
    IN [f \in alive |-> [refcount |-> dec(f), cancel |-> found[f].cancel]]

\* The searches whose finished_cb a step calls.
Finished == {f \in DOMAIN found \ DOMAIN found' : ~found[f].cancel}

\* findfiles, and findfiles_backend for the top directory
FindFiles(f, dir) ==
    LET d == Dir(f, dir, 0) IN
    /\ f \notin DOMAIN found
    /\ found' = [g \in DOMAIN found \union {f} |->
                   IF g = f THEN [refcount |-> 1, cancel |-> FALSE] ELSE found[g]]
    /\ dirs' = dirs \union {d}
    /\ seen' = [seen EXCEPT ![f] = {dir}]
    /\ RunDirs(Push(ffdqueue, d), left)

\* findfiles_load_directory_cleanup
Cleanup(d) ==
    /\ dirs' = dirs \ {d}
    /\ found' = Unref({d})
    /\ RunDirs(WorkerReady(ffdqueue), [e \in DOMAIN left \ {d} |-> left[e]])

\* Variant: an error leaves without the cleanup.
EnumerateChildrenLeaves(d, ok) ==
    /\ d \in DOMAIN left /\ ~left[d].opened
    /\ UNCHANGED seen
    /\ IF ok
       THEN /\ left' = [left EXCEPT ![d] = [opened |-> TRUE, entries |-> left[d].entries]]
            /\ UNCHANGED <<ffdqueue, found, dirs>>
       ELSE /\ dirs' = dirs \ {d}
            /\ found' = Unref({d})
            /\ left' = [e \in DOMAIN left \ {d} |-> left[e]]
            /\ UNCHANGED ffdqueue

\* enumerate_children_lcb
EnumerateChildren(d, ok) ==
    /\ d \in DOMAIN left /\ ~left[d].opened
    /\ UNCHANGED seen
    /\ IF ok
       THEN /\ left' = [left EXCEPT ![d] = [opened |-> TRUE, entries |-> left[d].entries]]
            /\ UNCHANGED <<ffdqueue, found, dirs>>
       ELSE Cleanup(d)

\* The orders in which directories can be pushed.
Orders(ds) == {s \in [1 .. Cardinality(ds) -> ds] : \A i, k \in DOMAIN s : s[i] = s[k] => i = k}

\* enumerator_next_files_lcb, with a chunk of entries: none when no entry is left, or when
\* reading them failed, which nothing tells from the end of the directory
NextFiles(d, chunk) ==
    /\ d \in DOMAIN left /\ left[d].opened
    /\ chunk \subseteq left[d].entries
    /\ found[d.search].cancel => chunk = {}
    /\ IF chunk = {} THEN Cleanup(d) /\ UNCHANGED seen
       ELSE LET sub == IF d.recursion < MaxDepth THEN {Dir(d.search, e, d.recursion + 1) : e \in chunk \intersect Dirs}
                       ELSE {}
            IN /\ found' = [found EXCEPT ![d.search] = [refcount |-> @.refcount + Cardinality(sub),
                                                        cancel |-> @.cancel]]
               /\ dirs' = dirs \union sub
               /\ seen' = [seen EXCEPT ![d.search] = @ \union {e.dir : e \in sub}
                                                       \union (chunk \intersect Files)]
               /\ \E order \in Orders(sub) :
                    RunDirs([q |-> order \o ffdqueue.q, worknum |-> ffdqueue.worknum],
                            [left EXCEPT ![d] = [opened |-> TRUE, entries |-> @.entries \ chunk]])

\* Variant: the directories that waited keep their references.
FindFilesCancelKeeps(f) ==
    /\ ffdqueue' = Cancelled(ffdqueue)
    /\ found' = [g \in DOMAIN found |-> [refcount |-> found[g].refcount, cancel |-> found[g].cancel \/ g = f]]
    /\ dirs' = dirs \ waiting
    /\ UNCHANGED <<left, seen>>

\* findfiles_cancel: it empties the queue of all searches.
FindFilesCancel(f) ==
    /\ ffdqueue' = Cancelled(ffdqueue)
    /\ dirs' = dirs \ waiting
    /\ found' = LET u == Unref(waiting) IN
                [g \in DOMAIN u |-> [refcount |-> u[g].refcount, cancel |-> u[g].cancel \/ g = f]]
    /\ UNCHANGED <<left, seen>>

FindFilesInit ==
    /\ ffdqueue = EmptyQueue
    /\ found = << >> /\ left = << >>
    /\ dirs = {}
    /\ seen = [f \in Searches |-> {}]

FindFilesNext ==
    \/ \E f \in Searches, dir \in Dirs : FindFiles(f, dir)
    \/ \E d \in DOMAIN left, ok \in BOOLEAN : EnumerateChildren(d, ok)
    \/ \E d \in DOMAIN left : \E chunk \in SUBSET Tree[d.dir] : NextFiles(d, chunk)
    \/ \E f \in Searches : FindFilesCancel(f)

FindFilesSpec == FindFilesInit /\ [][FindFilesNext]_ffvars

-----------------------------------------------------------------------------
(* Safety *)

Of(f) == {d \in dirs : d.search = f}

\* A Tfindfiles has a reference for each of its directories in memory and is freed,
\* with the call of finished_cb, when the last one goes: no directory is left without.
RefsMatch ==
    /\ \A f \in DOMAIN found : found[f].refcount = Cardinality(Of(f)) /\ found[f].refcount > 0
    /\ \A d \in dirs : d.search \in DOMAIN found

\* Every directory in memory either waits, once, or has one of the slots that worknum
\* counts; and none waits while a slot is free.
SlotsMatch ==
    /\ waiting \union DOMAIN left = dirs /\ waiting \intersect DOMAIN left = {}
    /\ Len(ffdqueue.q) = Cardinality(waiting)
    /\ ffdqueue.worknum = Cardinality(DOMAIN left) /\ ffdqueue.worknum <= MaxWorknum
    /\ Len(ffdqueue.q) > 0 => ffdqueue.worknum = MaxWorknum

=============================================================================
