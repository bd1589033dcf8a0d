----------------------------- MODULE AsyncQueue -----------------------------
(***************************************************************************)
(* Tasyncqueue of async_queue.c, as used from the GTK main loop            *)
(* (queue_init: no mutex, no threads).  Such a queue is a value: the items *)
(* that are not worked on (q[1] is the head, where queue_push inserts; the *)
(* last one is the tail, where queue_run pops) and worknum, "number of     *)
(* elements that are being worked on", a guint.                            *)
(*                                                                         *)
(* Every queuefunc of these queues only starts an asynchronous operation,  *)
(* it never calls back into its own queue, so the while loop of queue_run  *)
(* is one step: it starts Started(Q) and leaves Run(Q).                    *)
(***************************************************************************)
EXTENDS Integers, Sequences

CONSTANTS
    MaxWorknum,   \* max_worknum given to queue_init
    WordSize      \* number of values of a guint (2^32 in the program)

ASSUME MaxWorknumAssumption == MaxWorknum \in Nat \ {0}
ASSUME WordSizeAssumption == WordSize \in Nat /\ WordSize > MaxWorknum

\* queue_init_full
EmptyQueue == [q |-> << >>, worknum |-> 0]

\* Variant: the loop runs while worknum <= max_worknum.
NumStartedOneMore(Q) ==
    LET free == IF Q.worknum <= MaxWorknum THEN MaxWorknum + 1 - Q.worknum ELSE 0
    IN  IF Len(Q.q) < free THEN Len(Q.q) ELSE free

\* How many items the loop of queue_run pops: as long as there are items and
\* worknum, compared as an unsigned number, is below the maximum.
NumStarted(Q) ==
    LET free == IF Q.worknum < MaxWorknum THEN MaxWorknum - Q.worknum ELSE 0
    IN  IF Len(Q.q) < free THEN Len(Q.q) ELSE free

\* The items queue_run hands to queuefunc, oldest first out.
Started(Q) == {Q.q[i] : i \in (Len(Q.q) - NumStarted(Q) + 1) .. Len(Q.q)}

\* The queue queue_run leaves behind.
Run(Q) == [q       |-> SubSeq(Q.q, 1, Len(Q.q) - NumStarted(Q)),
           worknum |-> Q.worknum + NumStarted(Q)]

\* queue_push, before its call of queue_run
Push(Q, item) == [q |-> <<item>> \o Q.q, worknum |-> Q.worknum]

\* Variant: worknum is not unsigned.
WorkerReadySigned(Q) == [q |-> Q.q, worknum |-> Q.worknum - 1]

\* queue_worker_ready, before its call of queue_run: worknum-- on a guint, which
\* wraps around below 0
WorkerReady(Q) ==
    [q |-> Q.q, worknum |-> IF Q.worknum = 0 THEN WordSize - 1 ELSE Q.worknum - 1]

\* Variant: the item is not taken out.
RemoveNothing(Q, item) == Q

\* queue_remove: g_queue_remove takes the first link that holds the item out of
\* q, if there is one ...
Remove(Q, item) ==
    LET First(i) == Q.q[i] = item /\ \A k \in 1 .. i - 1 : Q.q[k] # item
        at == CHOOSE i \in 1 .. Len(Q.q) : First(i)
    IN  IF \E i \in 1 .. Len(Q.q) : First(i)
        THEN [q       |-> SubSeq(Q.q, 1, at - 1) \o SubSeq(Q.q, at + 1, Len(Q.q)),
              worknum |-> Q.worknum]
        ELSE Q

\* ... and the function returns (len < q.length), len being the old length.
RemoveReturns(Q, item) == Len(Q.q) < Len(Remove(Q, item).q)

\* queue_cancel, its effect on the queue: no item waits any more
Cancelled(Q) == [q |-> << >>, worknum |-> Q.worknum]

=============================================================================
