----------------------------- MODULE CheckNSave -----------------------------
(***************************************************************************)
(* The asynchronous save of file.c: file_checkNsave_uri_async queues a     *)
(* TcheckNsave on sfqueue, file_checkNsave_run starts the write,           *)
(* checkNsave_replace_async_lcb receives its result, asks the owner what   *)
(* to do about a modified file or a failed backup, and retries or cleans   *)
(* up; file_checkNsave_cancel cancels.                                     *)
(*                                                                         *)
(* A save is one TcheckNsave.  Its owner (a document, or the autosave)     *)
(* keeps the pointer until the final callback, so only a save that has not *)
(* ended is ever cancelled.                                                *)
(***************************************************************************)
EXTENDS AsyncQueue, FiniteSets

CONSTANTS
    Saves,        \* the saves asked for during a behaviour
    EtagSaves,    \* those asked for with a file info and check_modified
    BackupSaves,  \* those asked for with backup
    CancelSaves   \* those whose owner may cancel (only the autosave does)

ASSUME SavesAssumption ==
    /\ IsFiniteSet(Saves)
    /\ EtagSaves \subseteq Saves
    /\ BackupSaves \subseteq Saves
    /\ CancelSaves \subseteq Saves

VARIABLES
    sfqueue,   \* the queue of saves, max 8 at a time
    stage,     \* "new", "queued", "io" (a write is in flight) or "gone" (freed)
    request,   \* the parameters of the write in flight
    cancelab,  \* cns->cancelab: "null", "live" or "cancelled"
    status     \* what the last call of callback_func said ("none" before)

vars == <<sfqueue, stage, request, cancelab, status>>

Statuses == {"FINISHED", "ERROR", "ERROR_CANCELLED", "ERROR_MODIFIED", "ERROR_NOBACKUP"}

\* g_file_replace_contents_async(etag, make_backup, cancellable)
Request == [etag : BOOLEAN, backup : BOOLEAN, cancellable : BOOLEAN]
NoRequest == [etag |-> FALSE, backup |-> FALSE, cancellable |-> FALSE]

InFlight == {s \in Saves : stage[s] = "io"}

\* The saves cancelled before they were started.
QueuedCancels == {s \in Saves : stage[s] = "gone" /\ cancelab[s] = "null"}

TypeOK ==
    /\ sfqueue \in [q : Seq(Saves), worknum : 0 .. WordSize - 1]
    /\ stage \in [Saves -> {"new", "queued", "io", "gone"}]
    /\ request \in [Saves -> Request]
    /\ cancelab \in [Saves -> {"null", "live", "cancelled"}]
    /\ status \in [Saves -> {"none"} \union Statuses]

Init ==
    /\ sfqueue = EmptyQueue
    /\ stage = [s \in Saves |-> "new"]
    /\ request = [s \in Saves |-> NoRequest]
    /\ cancelab = [s \in Saves |-> "null"]
    /\ status = [s \in Saves |-> "none"]

-----------------------------------------------------------------------------

\* queue_run on sfqueue with file_checkNsave_run as queuefunc: every save it
\* pops gets its cancellable and starts its write.  `put' is where the save
\* that the calling handler is about ends up.
RunQueue(Q, put) ==
    /\ sfqueue' = Run(Q)
    /\ stage' = [s \in Saves |-> IF s \in Started(Q) THEN "io" ELSE put[s]]
    /\ cancelab' = [s \in Saves |-> IF s \in Started(Q) THEN "live" ELSE cancelab[s]]
    /\ request' = [s \in Saves |->
                     IF s \in Started(Q)
                     THEN [etag |-> s \in EtagSaves, backup |-> s \in BackupSaves,
                           cancellable |-> TRUE]
                     ELSE request[s]]

\* file_checkNsave_uri_async
CheckNsaveUriAsync(s) ==
    /\ stage[s] = "new"
    /\ RunQueue(Push(sfqueue, s), [stage EXCEPT ![s] = "queued"])
    /\ UNCHANGED status

\* Variant: the cleanup forgets queue_worker_ready.
EndKeepsSlot(s, Q, st) ==
    /\ status' = [status EXCEPT ![s] = st]
    /\ RunQueue(Q, [stage EXCEPT ![s] = "gone"])

\* Variant: queue_worker_ready gives the slot back and does not run the queue.
EndWithoutRun(s, Q, st) ==
    /\ status' = [status EXCEPT ![s] = st]
    /\ stage' = [stage EXCEPT ![s] = "gone"]
    /\ sfqueue' = WorkerReady(Q)
    /\ UNCHANGED <<request, cancelab>>

\* The final callback, then checkNsave_cleanup: the slot is given back and the
\* save is freed.
End(s, Q, st) ==
    /\ status' = [status EXCEPT ![s] = st]
    /\ RunQueue(WorkerReady(Q), [stage EXCEPT ![s] = "gone"])

\* What the file system can answer to the write in flight (GIO: the answer to
\* a cancelled operation is always CANCELLED).
Errors(s) ==
    IF request[s].cancellable /\ cancelab[s] = "cancelled"
    THEN {"CANCELLED"}
    ELSE {"NONE", "IO_ERROR"}
         \union (IF request[s].etag THEN {"WRONG_ETAG"} ELSE {})
         \union (IF request[s].backup THEN {"CANT_CREATE_BACKUP"} ELSE {})

StatusOf == [NONE |-> "FINISHED", IO_ERROR |-> "ERROR", CANCELLED |-> "ERROR_CANCELLED",
             WRONG_ETAG |-> "ERROR_MODIFIED", CANT_CREATE_BACKUP |-> "ERROR_NOBACKUP"]

\* checkNsave_replace_async_lcb where the callback's answer does not matter or
\* is CHECKNSAVE_STOP
ReplaceAsyncEnds(s, error) ==
    /\ stage[s] = "io"
    /\ error \in Errors(s)
    /\ End(s, sfqueue, StatusOf[error])

\* checkNsave_replace_async_lcb where the callback answers CHECKNSAVE_CONT: the
\* write is asked for again, without cancellable, and with either no etag and
\* a backup or the etag and no backup.  No slot is given back.
ReplaceAsyncRetries(s, error) ==
    /\ stage[s] = "io"
    /\ error \in Errors(s) \intersect {"WRONG_ETAG", "CANT_CREATE_BACKUP"}
    /\ status' = [status EXCEPT ![s] = StatusOf[error]]
    /\ request' = [request EXCEPT ![s] =
                     [etag |-> error = "CANT_CREATE_BACKUP" /\ s \in EtagSaves,
                      backup |-> error = "WRONG_ETAG",
                      cancellable |-> FALSE]]
    /\ UNCHANGED <<sfqueue, stage, cancelab>>

\* file_checkNsave_cancel of a save that has been started
CancelStarted(s) ==
    /\ s \in CancelSaves
    /\ stage[s] = "io"
    /\ cancelab[s] = "live"
    /\ cancelab' = [cancelab EXCEPT ![s] = "cancelled"]
    /\ UNCHANGED <<sfqueue, stage, request, status>>

\* file_checkNsave_cancel of a save that still waits: it is taken from the
\* queue and cleaned up, checkNsave_cleanup gives back a slot all the same.
CancelQueued(s) ==
    /\ s \in CancelSaves
    /\ stage[s] = "queued"
    /\ End(s, Remove(sfqueue, s), "ERROR_CANCELLED")

ReplaceAsync(s) ==
    \E error \in DOMAIN StatusOf : ReplaceAsyncEnds(s, error) \/ ReplaceAsyncRetries(s, error)

Next ==
    \E s \in Saves : \/ CheckNsaveUriAsync(s)
                     \/ ReplaceAsync(s)
                     \/ CancelStarted(s)
                     \/ CancelQueued(s)

Spec == Init /\ [][Next]_vars

-----------------------------------------------------------------------------

\* async_queue.h says of worknum: "number of elements that are being worked on".
\* This holds of the save queue as long as no save was cancelled before it was
\* started.
SlotsMatch == QueuedCancels = {} => sfqueue.worknum = Cardinality(InFlight)

\* No more than max_worknum writes are in flight (same condition).
WritesBounded == QueuedCancels = {} => Cardinality(InFlight) <= MaxWorknum

\* The queue keeps no save waiting that it could start: after every handler
\* the queue is empty or all its slots are taken.
WorkConserving == Len(sfqueue.q) > 0 => sfqueue.worknum >= MaxWorknum

\* The queue and the saves agree: a save waits exactly when it is on the queue,
\* and it is there once.
QueueHoldsWaiting ==
    /\ {s \in Saves : stage[s] = "queued"} = {sfqueue.q[i] : i \in 1 .. Len(sfqueue.q)}
    /\ Len(sfqueue.q) = Cardinality({s \in Saves : stage[s] = "queued"})

\* Every save that is asked for ends with a final callback, unless a waiting
\* save was cancelled (worknum may have wrapped) or an owner goes on and on between a
\* file that was modified and a backup that cannot be made, and keeps its slot.
EverySaveEnds ==
    \A s \in Saves :
        (stage[s] = "queued") ~>
            \/ stage[s] = "gone"
            \/ QueuedCancels # {}
            \/ \E r \in EtagSaves : status[r] = "ERROR_NOBACKUP"

\* What the saves and the queue promise each other at any moment: queue_push, queue_run and
\* queue_worker_ready count the writes in flight, bound them and leave no slot unused.
Accounting == TypeOK /\ SlotsMatch /\ WritesBounded /\ WorkConserving

=============================================================================
