----------------------------- MODULE FileProofs -----------------------------
(***************************************************************************)
(* The jobs that file.c puts on its queues, for every number of them and   *)
(* every size of the queues: the slots that saves take (CheckNSave), those *)
(* that opens and file infos take, with the mount operation some of them   *)
(* wait for (OpenFile), and the walks and updates of a synchronisation     *)
(* with the count of what holds it (Sync).                                 *)
(***************************************************************************)
EXTENDS CheckNSave, OpenFile, Sync, AsyncQueueProofs, FiniteSetTheorems

\* What every handler keeps true: the queue is settled and holds each waiting
\* save once, a save in flight has a cancellable (so that only a save that
\* never started ends with cancelab NULL), and the slots match.
IInv ==
    /\ TypeOK
    /\ Settled(sfqueue)
    /\ Injective(sfqueue)
    /\ \A s \in Saves : stage[s] = "queued" <=> Holds(sfqueue, s)
    /\ \A s \in Saves : stage[s] = "io" => cancelab[s] # "null"
    /\ \A s \in Saves : stage[s] \in {"new", "queued"} => cancelab[s] = "null"
    /\ QueuedCancels = {} =>
          /\ sfqueue.worknum = Cardinality(InFlight)
          /\ sfqueue.worknum <= MaxWorknum

\* Only finitely many writes are in flight.
LEMMA InFlightFinite == IsFiniteSet(InFlight)
BY SavesAssumption, FS_Subset DEF InFlight

\* The save queue is a queue of saves in the sense of AsyncQueueProofs.
LEMMA TypeQueue == TypeOK => sfqueue \in Queue(Saves)
BY DEF TypeOK, Queue

\* file_init makes the invariant true.
THEOREM InitIInv == Init => IInv
<1>. SUFFICES ASSUME Init PROVE IInv
  OBVIOUS
<1>1. TypeOK
  BY EmptyQueueFacts DEF Init, TypeOK, Queue, Request, NoRequest
<1>2. InFlight = {}
  BY DEF Init, InFlight
<1>3. Cardinality(InFlight) = 0
  BY <1>2, FS_EmptySet
<1>4. sfqueue.worknum = 0
  BY DEF Init, EmptyQueue
<1>. QED BY <1>1, <1>3, <1>4, EmptyQueueFacts, MaxWorknumAssumption DEF IInv, Init

\* A step of queue_run keeps the types.
LEMMA RunQueueType ==
    ASSUME TypeOK, NEW Q, Run(Q) \in Queue(Saves),
           NEW put \in [Saves -> {"new", "queued", "io", "gone"}],
           RunQueue(Q, put),
           status' \in [Saves -> {"none"} \union Statuses]
    PROVE  TypeOK'
BY DEF TypeOK, RunQueue, Queue, Request

\* file_checkNsave_uri_async keeps the invariant.
LEMMA PushInv ==
    ASSUME IInv, NEW s \in Saves, CheckNsaveUriAsync(s)
    PROVE  IInv'
<1>. DEFINE P == Push(sfqueue, s)
            put == [stage EXCEPT ![s] = "queued"]
<1>1. /\ sfqueue \in Queue(Saves) 
      /\ ~ Holds(sfqueue, s)
      /\ stage[s] = "new"
      /\ stage \in [Saves -> {"new", "queued", "io", "gone"}]
  BY TypeQueue DEF IInv, CheckNsaveUriAsync, TypeOK
<1>2. /\ Run(P) \in Queue(Saves)
      /\ Settled(Run(P))
      /\ Injective(Run(P))
      /\ \/ /\ Started(P) = {s}
            /\ sfqueue.worknum < MaxWorknum
            /\ Run(P).worknum = sfqueue.worknum + 1
            /\ \A x : ~ Holds(Run(P), x)
            /\ \A x : ~ Holds(sfqueue, x)
         \/ /\ Started(P) = {}
            /\ Run(P).worknum = sfqueue.worknum
            /\ \A x : Holds(Run(P), x) <=> (x = s \/ Holds(sfqueue, x))
  BY <1>1, PushRun DEF IInv
<1>3. RunQueue(P, put)
  BY DEF CheckNsaveUriAsync
<1>. HIDE DEF P
<1>4. TypeOK'
  BY <1>1, <1>2, <1>3, RunQueueType DEF IInv, TypeOK, CheckNsaveUriAsync
<1>5. sfqueue' = Run(P)
  BY <1>3 DEF RunQueue
<1>6. CASE Started(P) = {s}
  <2>1. /\ stage' = [x \in Saves |-> IF x = s THEN "io" ELSE stage[x]]
        /\ cancelab' = [x \in Saves |-> IF x = s THEN "live" ELSE cancelab[x]]
    BY <1>1, <1>3, <1>6 DEF RunQueue
  <2>2. sfqueue.worknum < MaxWorknum /\ Run(P).worknum = sfqueue.worknum + 1
        /\ (\A x : ~ Holds(Run(P), x)) /\ (\A x : ~ Holds(sfqueue, x))
    BY <1>2, <1>6
  <2>3. InFlight' = InFlight \union {s} /\ s \notin InFlight
    BY <1>1, <2>1 DEF InFlight
  <2>4. Cardinality(InFlight') = Cardinality(InFlight) + 1
    BY <2>3, InFlightFinite, FS_AddElement
  <2>5. QueuedCancels' = QueuedCancels
    BY <1>1, <2>1 DEF QueuedCancels
  <2>6. QueuedCancels' = {} => /\ sfqueue'.worknum = Cardinality(InFlight')
                               /\ sfqueue'.worknum <= MaxWorknum
    BY <1>1, <1>5, <2>2, <2>4, <2>5, QueueParts, MaxWorknumAssumption DEF IInv
  <2>7. \A x \in Saves : (stage[x] = "queued")' <=> Holds(sfqueue', x)
    BY <1>5, <2>1, <2>2 DEF IInv
  <2>. QED BY <1>2, <1>4, <1>5, <2>1, <2>6, <2>7 DEF IInv, Settled, Injective, Holds
<1>7. CASE Started(P) = {}
  <2>1. stage' = put /\ cancelab' = cancelab
    BY <1>1, <1>3, <1>7 DEF RunQueue, IInv, TypeOK
  <2>2. /\ Run(P).worknum = sfqueue.worknum
        /\ \A x : Holds(Run(P), x) <=> (x = s \/ Holds(sfqueue, x))
    BY <1>2, <1>7
  <2>3. InFlight' = InFlight /\ QueuedCancels' = QueuedCancels
    BY <1>1, <2>1 DEF InFlight, QueuedCancels
  <2>4. \A x \in Saves : (stage[x] = "queued")' <=> Holds(sfqueue', x)
    BY <1>1, <1>5, <2>1, <2>2 DEF IInv
  <2>. QED BY <1>1, <1>2, <1>4, <1>5, <2>1, <2>2, <2>3, <2>4 DEF IInv, Settled, Injective, Holds
<1>. QED BY <1>2, <1>6, <1>7

\* checkNsave_cleanup of a save that was in flight gives its slot back.
LEMMA EndStartedInv ==
    ASSUME IInv, NEW s \in Saves, stage[s] = "io",
           NEW st \in Statuses, End(s, sfqueue, st)
    PROVE  IInv'
<1>. DEFINE P == WorkerReady(sfqueue)
            put == [stage EXCEPT ![s] = "gone"]
<1>1. /\ sfqueue \in Queue(Saves)
      /\ ~ Holds(sfqueue, s)
      /\ cancelab[s] # "null"
      /\ stage \in [Saves -> {"new", "queued", "io", "gone"}]
      /\ put \in [Saves -> {"new", "queued", "io", "gone"}]
      /\ s \in InFlight
  BY TypeQueue DEF IInv, TypeOK, InFlight
<1>2. /\ Run(P) \in Queue(Saves)
      /\ Settled(Run(P))
      /\ Injective(Run(P))
      /\ \/ \E t \in Saves :
               /\ Holds(sfqueue, t)
               /\ Started(P) = {t}
               /\ sfqueue.worknum = MaxWorknum
               /\ Run(P).worknum = sfqueue.worknum
               /\ \A x : Holds(Run(P), x) <=> (x # t /\ Holds(sfqueue, x))
         \/ /\ Started(P) = {}
            /\ Run(P).worknum = IF sfqueue.worknum = 0 THEN WordSize - 1 ELSE sfqueue.worknum - 1
            /\ \A x : Holds(Run(P), x) <=> Holds(sfqueue, x)
  BY <1>1, ReadyRun DEF IInv
<1>3. RunQueue(P, put) /\ status' \in [Saves -> {"none"} \union Statuses]
  BY DEF End, IInv, TypeOK
<1>. HIDE DEF P
<1>4. TypeOK'
  BY <1>1, <1>2, <1>3, RunQueueType DEF IInv
<1>5. sfqueue' = Run(P)
  BY <1>3 DEF RunQueue
<1>6. ASSUME NEW t \in Saves, Holds(sfqueue, t), Started(P) = {t},
             sfqueue.worknum = MaxWorknum, Run(P).worknum = sfqueue.worknum,
             \A x : Holds(Run(P), x) <=> (x # t /\ Holds(sfqueue, x))
      PROVE  IInv'
  <2>1. stage[t] = "queued" /\ t # s
    BY <1>6 DEF IInv
  <2>2. /\ stage' = [x \in Saves |-> IF x = t THEN "io" ELSE IF x = s THEN "gone" ELSE stage[x]]
        /\ cancelab' = [x \in Saves |-> IF x = t THEN "live" ELSE cancelab[x]]
    BY <1>1, <1>3, <1>6 DEF RunQueue
  <2>3. InFlight' = (InFlight \ {s}) \union {t} /\ t \notin InFlight
    BY <1>1, <2>1, <2>2 DEF InFlight
  <2>4. Cardinality(InFlight') = Cardinality(InFlight)
    <3>1. Cardinality(InFlight \ {s}) = Cardinality(InFlight) - 1
      BY <1>1, InFlightFinite, FS_RemoveElement
    <3>2. IsFiniteSet(InFlight \ {s}) /\ t \notin InFlight \ {s}
      BY <2>3, InFlightFinite, FS_RemoveElement
    <3>3. Cardinality(InFlight') = Cardinality(InFlight \ {s}) + 1
      BY <2>3, <3>2, FS_AddElement
    <3>4. Cardinality(InFlight) \in Nat
      BY InFlightFinite, FS_CardinalityType
    <3>. QED BY <3>1, <3>3, <3>4
  <2>5. QueuedCancels' = QueuedCancels
    BY <1>1, <2>1, <2>2 DEF QueuedCancels
  <2>6. \A x \in Saves : (stage[x] = "queued")' <=> Holds(sfqueue', x)
    BY <1>1, <1>5, <1>6, <2>2 DEF IInv
  <2>7. /\ \A x \in Saves : (stage[x] = "io" => cancelab[x] # "null")'
        /\ \A x \in Saves : (stage[x] \in {"new", "queued"} => cancelab[x] = "null")'
    BY <2>2 DEF IInv
  <2>. QED BY <1>2, <1>4, <1>5, <1>6, <2>4, <2>5, <2>6, <2>7 DEF IInv, Settled, Injective, Holds
<1>7. ASSUME Started(P) = {},
             Run(P).worknum = IF sfqueue.worknum = 0 THEN WordSize - 1 ELSE sfqueue.worknum - 1,
             \A x : Holds(Run(P), x) <=> Holds(sfqueue, x)
      PROVE  IInv'
  <2>1. stage' = put /\ cancelab' = cancelab
    BY <1>1, <1>3, <1>7 DEF RunQueue, IInv, TypeOK
  <2>2. InFlight' = InFlight \ {s} /\ QueuedCancels' = QueuedCancels
    BY <1>1, <2>1 DEF InFlight, QueuedCancels
  <2>3. Cardinality(InFlight') = Cardinality(InFlight) - 1 /\ Cardinality(InFlight) \in Nat
    BY <1>1, <2>2, InFlightFinite, FS_RemoveElement, FS_CardinalityType
  <2>4. Cardinality(InFlight) # 0
    BY <1>1, InFlightFinite, FS_EmptySet
  <2>5. QueuedCancels' = {} => /\ sfqueue'.worknum = Cardinality(InFlight')
                               /\ sfqueue'.worknum <= MaxWorknum
    <3>. SUFFICES ASSUME QueuedCancels = {}
                  PROVE  /\ sfqueue'.worknum = Cardinality(InFlight')
                         /\ sfqueue'.worknum <= MaxWorknum
      BY <2>2
    <3>1. sfqueue.worknum = Cardinality(InFlight) /\ sfqueue.worknum <= MaxWorknum
      BY DEF IInv
    <3>2. sfqueue'.worknum = sfqueue.worknum - 1
      BY <1>5, <1>7, <2>4, <3>1
    <3>. QED BY <2>3, <3>1, <3>2, MaxWorknumAssumption
  <2>6. \A x \in Saves : (stage[x] = "queued")' <=> Holds(sfqueue', x)
    BY <1>1, <1>5, <1>7, <2>1 DEF IInv
  <2>7. /\ \A x \in Saves : (stage[x] = "io" => cancelab[x] # "null")'
        /\ \A x \in Saves : (stage[x] \in {"new", "queued"} => cancelab[x] = "null")'
    BY <1>1, <2>1 DEF IInv
  <2>. QED BY <1>2, <1>4, <1>5, <2>5, <2>6, <2>7 DEF IInv, Settled, Injective, Holds
<1>. QED BY <1>2, <1>6, <1>7

\* file_checkNsave_cancel of a waiting save: the queue stays consistent, the
\* slot accounting is lost from here on.
LEMMA CancelQueuedInv ==
    ASSUME IInv, NEW s \in Saves, CancelQueued(s)
    PROVE  IInv'
<1>. DEFINE R == Remove(sfqueue, s)
            P == WorkerReady(R)
            put == [stage EXCEPT ![s] = "gone"]
<1>1. /\ sfqueue \in Queue(Saves)
      /\ Holds(sfqueue, s)
      /\ stage[s] = "queued"
      /\ cancelab[s] = "null"
      /\ stage \in [Saves -> {"new", "queued", "io", "gone"}]
      /\ cancelab \in [Saves -> {"null", "live", "cancelled"}]
      /\ put \in [Saves -> {"new", "queued", "io", "gone"}]
  BY TypeQueue DEF IInv, TypeOK, CancelQueued
<1>2. /\ R \in Queue(Saves)
      /\ Settled(R)
      /\ Injective(R)
      /\ \A x : Holds(R, x) <=> (x # s /\ Holds(sfqueue, x))
  BY <1>1, RemoveFacts DEF IInv
<1>. HIDE DEF R
<1>3. /\ Run(P) \in Queue(Saves)
      /\ Settled(Run(P))
      /\ Injective(Run(P))
      /\ \/ \E t \in Saves :
               /\ Holds(R, t)
               /\ Started(P) = {t}
               /\ \A x : Holds(Run(P), x) <=> (x # t /\ Holds(R, x))
         \/ /\ Started(P) = {}
            /\ \A x : Holds(Run(P), x) <=> Holds(R, x)
  BY <1>2, ReadyRun
<1>4. RunQueue(P, put) /\ status' \in [Saves -> {"none"} \union Statuses]
  BY DEF CancelQueued, End, IInv, TypeOK, R, Statuses
<1>. HIDE DEF P
<1>5. TypeOK'
  BY <1>1, <1>3, <1>4, RunQueueType DEF IInv
<1>6. /\ sfqueue' = Run(P)
      /\ stage' = [x \in Saves |-> IF x \in Started(P) THEN "io"
                                   ELSE IF x = s THEN "gone" ELSE stage[x]]
      /\ cancelab' = [x \in Saves |-> IF x \in Started(P) THEN "live" ELSE cancelab[x]]
  BY <1>1, <1>4 DEF RunQueue
<1>7. s \notin Started(P)
  BY <1>2, <1>3
<1>8. s \in QueuedCancels'
  BY <1>1, <1>6, <1>7 DEF QueuedCancels
<1>9. \A x \in Saves : (stage[x] = "queued")' <=> Holds(sfqueue', x)
  BY <1>1, <1>2, <1>3, <1>6 DEF IInv
<1>10. /\ \A x \in Saves : (stage[x] = "io" => cancelab[x] # "null")'
       /\ \A x \in Saves : (stage[x] \in {"new", "queued"} => cancelab[x] = "null")'
  BY <1>1, <1>6 DEF IInv
<1>. QED BY <1>3, <1>5, <1>6, <1>8, <1>9, <1>10 DEF IInv, Settled, Injective, Holds

\* The steps that only touch a save in flight.
LEMMA InFlightInv ==
    ASSUME IInv, NEW s \in Saves,
           CancelStarted(s) \/ \E error \in DOMAIN StatusOf : ReplaceAsyncRetries(s, error)
    PROVE  IInv'
<1>1. CASE CancelStarted(s)
  BY <1>1 DEF CancelStarted, IInv, TypeOK, Settled, Injective, Holds, InFlight, QueuedCancels
<1>2. ASSUME NEW error \in DOMAIN StatusOf, ReplaceAsyncRetries(s, error)
      PROVE  IInv'
  <2>1. StatusOf[error] \in Statuses
    BY DEF StatusOf, Statuses
  <2>2. TypeOK'
    BY <1>2, <2>1 DEF ReplaceAsyncRetries, IInv, TypeOK, Request
  <2>. QED BY <1>2, <2>2 DEF ReplaceAsyncRetries, IInv, Settled, Injective, Holds, InFlight, QueuedCancels
<1>. QED BY <1>1, <1>2

\* Every handler of the save keeps it true.
THEOREM NextIInv == IInv /\ [Next]_vars => IInv'
<1>. SUFFICES ASSUME IInv, [Next]_vars PROVE IInv'
  OBVIOUS
<1>1. ASSUME NEW s \in Saves, CheckNsaveUriAsync(s) PROVE IInv'
  BY <1>1, PushInv
<1>2. ASSUME NEW s \in Saves, ReplaceAsync(s) PROVE IInv'
  <2>1. ASSUME NEW error \in DOMAIN StatusOf, ReplaceAsyncEnds(s, error) PROVE IInv'
    <3>1. StatusOf[error] \in Statuses
      BY DEF StatusOf, Statuses
    <3>. QED BY <2>1, <3>1, EndStartedInv DEF ReplaceAsyncEnds
  <2>. QED BY <1>2, <2>1, InFlightInv DEF ReplaceAsync
<1>3. ASSUME NEW s \in Saves, CancelStarted(s) PROVE IInv'
  BY <1>3, InFlightInv
<1>4. ASSUME NEW s \in Saves, CancelQueued(s) PROVE IInv'
  BY <1>4, CancelQueuedInv
<1>5. CASE UNCHANGED vars
  BY <1>5 DEF vars, IInv, TypeOK, Settled, Injective, Holds, InFlight, QueuedCancels
<1>. QED BY <1>1, <1>2, <1>3, <1>4, <1>5 DEF Next

\* The inductive invariant holds in every reachable state.
THEOREM SpecIInv == Spec => []IInv
BY InitIInv, NextIInv, PTL DEF Spec

\* The types of the save queue's state.
THEOREM SpecTypeOK == Spec => []TypeOK
<1>1. IInv => TypeOK
  BY DEF IInv
<1>. QED BY <1>1, SpecIInv, PTL

\* worknum counts the writes in flight until a save is cancelled before it was
\* started.
THEOREM SpecSlotsMatch == Spec => []SlotsMatch
<1>1. IInv => SlotsMatch
  BY DEF IInv, SlotsMatch
<1>. QED BY <1>1, SpecIInv, PTL

\* Under the same condition no more than max_worknum writes are in flight.
THEOREM SpecWritesBounded == Spec => []WritesBounded
<1>1. IInv => WritesBounded
  BY DEF IInv, WritesBounded
<1>. QED BY <1>1, SpecIInv, PTL

\* No handler leaves a save waiting while a slot is free, cancels included.
THEOREM SpecWorkConserving == Spec => []WorkConserving
<1>1. IInv => WorkConserving
  BY DEF IInv, WorkConserving, Settled
<1>. QED BY <1>1, SpecIInv, PTL

\* A queue that holds no item twice is as long as the set of its items.
LEMMA ItemsCounted ==
    ASSUME NEW S, NEW Q \in Queue(S), Injective(Q)
    PROVE  Cardinality({Q.q[i] : i \in 1 .. Len(Q.q)}) = Len(Q.q)
<1>. DEFINE T == {Q.q[i] : i \in 1 .. Len(Q.q)}
            f == [i \in 1 .. Len(Q.q) |-> Q.q[i]]
<1>1. Len(Q.q) \in Nat
  BY QueueParts
<1>2. f \in Surjection(1 .. Len(Q.q), T)
  BY DEF Surjection
<1>3. f \in Injection(1 .. Len(Q.q), T)
  BY DEF Injection, IsInjective, Injective
<1>4. /\ IsFiniteSet(1 .. Len(Q.q))
      /\ Cardinality(1 .. Len(Q.q)) = Len(Q.q)
  <2>1. 1 \in Int /\ Len(Q.q) \in Int
    BY <1>1
  <2>2. \A a, b \in Int : /\ IsFiniteSet(a .. b)
                           /\ Cardinality(a .. b) = IF a > b THEN 0 ELSE b - a + 1
    BY FS_Interval
  <2>3. /\ IsFiniteSet(1 .. Len(Q.q))
        /\ Cardinality(1 .. Len(Q.q)) = IF 1 > Len(Q.q) THEN 0 ELSE Len(Q.q) - 1 + 1
    BY <2>1, <2>2, Zenon
  <2>. QED BY <1>1, <2>3
<1>. HIDE DEF f, T
<1>5. Cardinality(T) = Cardinality(1 .. Len(Q.q))
  BY <1>2, <1>3, <1>4, FS_Surjection
<1>. QED BY <1>4, <1>5 DEF T

\* The queue and the saves agree: a save waits exactly when it is on the queue,
\* and queue_push, queue_run and queue_remove never leave it there twice.
THEOREM SpecQueueHoldsWaiting == Spec => []QueueHoldsWaiting
<1>1. IInv => QueueHoldsWaiting
  <2>. SUFFICES ASSUME IInv PROVE QueueHoldsWaiting
    OBVIOUS
  <2>. DEFINE waiting == {s \in Saves : stage[s] = "queued"}
              items == {sfqueue.q[i] : i \in 1 .. Len(sfqueue.q)}
  <2>1. sfqueue \in Queue(Saves) /\ Injective(sfqueue)
    BY TypeQueue DEF IInv
  <2>2. \A i \in 1 .. Len(sfqueue.q) : sfqueue.q[i] \in Saves
    BY <2>1 DEF Queue
  <2>3. waiting = items
    BY <2>2 DEF IInv, Holds
  <2>4. Cardinality(items) = Len(sfqueue.q)
    BY <2>1, ItemsCounted
  <2>. QED BY <2>3, <2>4 DEF QueueHoldsWaiting
<1>. QED BY <1>1, SpecIInv, PTL

\* The queue's account of its slots is right in every reachable state.
THEOREM SpecAccounting == Spec => []Accounting
<1>1. TypeOK /\ SlotsMatch /\ WritesBounded /\ WorkConserving => Accounting
  BY DEF Accounting
<1>. QED BY <1>1, SpecTypeOK, SpecSlotsMatch, SpecWritesBounded, SpecWorkConserving, PTL

-----------------------------------------------------------------------------
(* A queue whose slots may have been given back too often.                 *)

\* The queue holds who waits, each once, and is settled; if its count is still right, it is
\* that of who is worked on and of those whose slot is to be given back in this handler.
Line(Q, right, waits, works, leaving) ==
    /\ Q \in Queue(Docs) /\ Settled(Q) /\ Injective(Q)
    /\ \A d \in Docs : Holds(Q, d) <=> d \in waits
    /\ right => Q.worknum = Cardinality(works) + leaving

\* Every set of documents is finite.
LEMMA DocsFinite ==
    ASSUME NEW A \in SUBSET Docs
    PROVE  IsFiniteSet(A) /\ Cardinality(A) \in Nat
BY DocsAssumption, FS_Subset, FS_CardinalityType

\* queue_init_full
LEMMA EmptyLine == ASSUME NEW right PROVE Line(EmptyQueue, right, {}, {}, 0)
<1>1. EmptyQueue.worknum = 0 /\ Cardinality({}) = 0
  BY FS_EmptySet DEF EmptyQueue
<1>. QED BY <1>1, EmptyQueueFacts DEF Line

\* An item that is pushed is started at once, or waits.
LEMMA PushLine ==
    ASSUME NEW Q, NEW right, NEW waits \in SUBSET Docs, NEW works \in SUBSET Docs,
           Line(Q, right, waits, works, 0),
           NEW item \in Docs, item \notin waits, item \notin works,
           NEW P, P = Push(Q, item)
    PROVE  \/ Started(P) = {item} /\ Line(Run(P), right, waits, works \union {item}, 0)
           \/ Started(P) = {} /\ Line(Run(P), right, waits \union {item}, works, 0)
<1>1. /\ Q \in Queue(Docs) /\ Settled(Q) /\ Injective(Q) /\ ~ Holds(Q, item)
      /\ IsFiniteSet(works) /\ Cardinality(works) \in Nat
  BY DocsFinite DEF Line
<1>2. Run(P) \in Queue(Docs) /\ Settled(Run(P)) /\ Injective(Run(P))
  BY <1>1, PushRun
<1>3. CASE /\ Started(P) = {item} /\ Run(P).worknum = Q.worknum + 1
           /\ \A s : ~ Holds(Run(P), s)
           /\ \A s : ~ Holds(Q, s)
  <2>1. Cardinality(works \union {item}) = Cardinality(works) + 1
    BY <1>1, FS_AddElement
  <2>. QED BY <1>1, <1>2, <1>3, <2>1 DEF Line
<1>4. CASE /\ Started(P) = {} /\ Run(P).worknum = Q.worknum
           /\ \A s : Holds(Run(P), s) <=> (s = item \/ Holds(Q, s))
  BY <1>1, <1>2, <1>4 DEF Line
<1>. QED BY <1>1, <1>3, <1>4, PushRun

\* When a slot is given back, one that waits is started, or the slot is free.
LEMMA ReadyLine ==
    ASSUME NEW Q, NEW right, NEW waits \in SUBSET Docs, NEW works \in SUBSET Docs,
           Line(Q, right, waits, works, 1), waits \intersect works = {},
           NEW P, P = WorkerReady(Q)
    PROVE  \/ \E t \in waits : /\ Started(P) = {t}
                               /\ Line(Run(P), right, waits \ {t}, works \union {t}, 0)
           \/ Started(P) = {} /\ Line(Run(P), right, waits, works, 0)
<1>1. /\ Q \in Queue(Docs) /\ Settled(Q) /\ Injective(Q)
      /\ IsFiniteSet(works) /\ Cardinality(works) \in Nat
      /\ \A s \in Docs : Holds(Q, s) <=> s \in waits
      /\ right => Q.worknum = Cardinality(works) + 1
  BY DocsFinite DEF Line
<1>2. /\ Run(P) \in Queue(Docs) /\ Settled(Run(P)) /\ Injective(Run(P))
      /\ \/ \E t \in Docs :
              /\ Holds(Q, t) /\ Started(P) = {t} /\ Run(P).worknum = Q.worknum
              /\ \A s : Holds(Run(P), s) <=> (s # t /\ Holds(Q, s))
         \/ /\ Started(P) = {}
            /\ Run(P).worknum = IF Q.worknum = 0 THEN WordSize - 1 ELSE Q.worknum - 1
            /\ \A s : Holds(Run(P), s) <=> Holds(Q, s)
  <2>1. Q \in Queue(Docs) /\ Settled(Q) /\ Injective(Q) /\ P = WorkerReady(Q)
    BY <1>1
  <2>. QED BY <2>1, ReadyRun
<1>3. ASSUME NEW t \in Docs, Holds(Q, t), Started(P) = {t}, Run(P).worknum = Q.worknum,
             \A s : Holds(Run(P), s) <=> (s # t /\ Holds(Q, s))
      PROVE  t \in waits /\ Line(Run(P), right, waits \ {t}, works \union {t}, 0)
  <2>1. t \in waits /\ t \notin works
    BY <1>1, <1>3
  <2>2. Cardinality(works \union {t}) = Cardinality(works) + 1
    BY <1>1, <2>1, FS_AddElement
  <2>. QED BY <1>1, <1>2, <1>3, <2>1, <2>2 DEF Line
<1>4. CASE /\ Started(P) = {}
           /\ Run(P).worknum = IF Q.worknum = 0 THEN WordSize - 1 ELSE Q.worknum - 1
           /\ \A s : Holds(Run(P), s) <=> Holds(Q, s)
  BY <1>1, <1>2, <1>4 DEF Line
<1>. QED BY <1>2, <1>3, <1>4

\* queue_remove
LEMMA RemoveLine ==
    ASSUME NEW Q, NEW right, NEW waits \in SUBSET Docs, NEW works \in SUBSET Docs,
           NEW leaving, Line(Q, right, waits, works, leaving), NEW item \in Docs
    PROVE  Line(Remove(Q, item), right, waits \ {item}, works, leaving)
<1>1. CASE Holds(Q, item)
  <2>1. Q \in Queue(Docs) /\ Settled(Q) /\ Injective(Q)
    BY DEF Line
  <2>2. /\ Remove(Q, item) \in Queue(Docs)
        /\ Remove(Q, item).worknum = Q.worknum
        /\ Settled(Remove(Q, item))
        /\ Injective(Remove(Q, item))
        /\ \A s : Holds(Remove(Q, item), s) <=> (s # item /\ Holds(Q, s))
    BY <1>1, <2>1, RemoveFacts
  <2>. HIDE DEF Remove
  <2>. QED BY <2>2 DEF Line
<1>2. CASE ~ Holds(Q, item)
  <2>1. Remove(Q, item) = Q
    BY <1>2 DEF Remove, Holds
  <2>2. waits \ {item} = waits
    BY <1>2 DEF Line
  <2>. QED BY <2>1, <2>2
<1>. QED BY <1>1, <1>2

-----------------------------------------------------------------------------
(* The state as a record.                                                  *)

Rec == [status : [Docs -> {"new", "loading", "complete", "error", "gone"}],
        load : [Docs -> Stages], loadCancel : [Docs -> BOOLEAN],
        info : [Docs -> InfoStages], infoCancel : [Docs -> BOOLEAN],
        close_doc : [Docs -> BOOLEAN], ofqueue : Queue(Docs), fiqueue : Queue(Docs),
        gmo : BOOLEAN, mounted : BOOLEAN, openWait : Seq(Docs), infoWait : Seq(Docs),
        incomplete : Int, unread : SUBSET Docs, closedIn : SUBSET CloseSituations]

In(f, stages) == {d \in Docs : f[d] \in stages}

\* Each queue holds who is queued, and counts who is at work.
Opens(S, leaving) ==
    Line(S.ofqueue, "slot" \notin S.closedIn,
         In(S.load, {"queued"}), In(S.load, {"io", "mount"}), leaving)
Infos(S, leaving) ==
    Line(S.fiqueue, TRUE, In(S.info, {"queued"}), In(S.info, {"io", "mount"}), leaving)

\* Who is counted as incomplete is loading, or could not be read.
Incomplete(S) ==
    /\ S.incomplete = Cardinality(In(S.status, {"loading"}) \union S.unread)
    /\ \A d \in S.unread : S.status[d] \in {"error", "gone"}

\* What the stage of its load and of its file info says of a document
Staged(S) ==
    \A d \in Docs :
        /\ S.load[d] \in {"queued", "io", "mount", "wait", "idle", "lost"} =>
               S.status[d] = "loading"
        /\ S.load[d] = "goto" => S.status[d] = "complete"
        /\ S.status[d] = "new" => S.info[d] = "none"

\* A waiting open that is cancelled is known to give a slot back once too often.
CancelledWaits(S) ==
    \A d \in Docs : S.load[d] = "wait" /\ S.loadCancel[d] => "slot" \in S.closedIn

\* What holds between any two steps of a handler, some of which have a slot still to give
\* back.
Good(S, leaving, leavingInfo) ==
    /\ S \in Rec
    /\ Opens(S, leaving) /\ Infos(S, leavingInfo)
    /\ Incomplete(S) /\ Staged(S) /\ CancelledWaits(S)

\* From S to T nobody began to mount or to wait for it; the loads of D and the file infos
\* of E ceased to.
Moved(S, T, D, E) ==
    /\ T.gmo = S.gmo /\ T.openWait = S.openWait /\ T.infoWait = S.infoWait
    /\ \A d \in Docs : \A s \in {"mount", "wait"} :
        /\ T.load[d] = s <=> S.load[d] = s /\ d \notin D
        /\ T.info[d] = s <=> S.info[d] = s /\ d \notin E

\* Two steps of a handler, one after the other
LEMMA MovedOn ==
    ASSUME NEW S, NEW T, NEW U, NEW D, NEW E, NEW F, NEW G,
           Moved(S, T, D, E), Moved(T, U, F, G)
    PROVE  Moved(S, U, D \union F, E \union G)
BY DEF Moved

\* openfile_cleanup, when the slot is still counted or the count is lost
LEMMA CleanupGood ==
    ASSUME NEW S, NEW li, Good(S, 1, li)
    PROVE  Good(openfile_cleanup(S), 0, li) /\ Moved(S, openfile_cleanup(S), {}, {})
<1>. DEFINE P == WorkerReady(S.ofqueue)
            waits == In(S.load, {"queued"})
            works == In(S.load, {"io", "mount"})
            loads == [d \in Docs |-> IF d \in Started(P) THEN "io" ELSE S.load[d]]
            T == openfile_cleanup(S)
            right == "slot" \notin S.closedIn
<1>1. /\ S \in Rec /\ waits \in SUBSET Docs /\ works \in SUBSET Docs
      /\ waits \intersect works = {}
      /\ Line(S.ofqueue, right, waits, works, 1)
  BY DEF Good, Opens, In
<1>2. T = [S EXCEPT !.ofqueue = Run(P), !.load = loads]
  BY DEF openfile_cleanup, RunOpens
<1>3. \/ \E t \in waits : /\ Started(P) = {t}
                          /\ Line(Run(P), right, waits \ {t}, works \union {t}, 0)
      \/ Started(P) = {} /\ Line(Run(P), right, waits, works, 0)
  <2>. HIDE DEF waits, works, P, right
  <2>. QED BY <1>1, ReadyLine DEF P
<1>. HIDE DEF P
<1>4. Started(P) \subseteq waits /\ Run(P) \in Queue(Docs)
  BY <1>3 DEF Line
<1>5. loads \in [Docs -> Stages]
  BY <1>1 DEF Rec, Stages
<1>6. /\ T \in Rec
      /\ T.ofqueue = Run(P) /\ T.load = loads /\ T.status = S.status /\ T.info = S.info
      /\ T.loadCancel = S.loadCancel /\ T.closedIn = S.closedIn /\ T.fiqueue = S.fiqueue
      /\ T.incomplete = S.incomplete /\ T.unread = S.unread
      /\ T.gmo = S.gmo /\ T.openWait = S.openWait /\ T.infoWait = S.infoWait
  <2>. HIDE DEF loads
  <2>. QED BY <1>1, <1>2, <1>4, <1>5 DEF Rec
<1>. HIDE DEF T
<1>7. Line(Run(P), right, In(loads, {"queued"}), In(loads, {"io", "mount"}), 0)
  <2>1. ASSUME NEW t \in waits, Started(P) = {t},
               Line(Run(P), right, waits \ {t}, works \union {t}, 0)
        PROVE  Line(Run(P), right, In(loads, {"queued"}), In(loads, {"io", "mount"}), 0)
    <3>1. In(loads, {"queued"}) = waits \ {t} /\ In(loads, {"io", "mount"}) = works \union {t}
      BY <2>1 DEF In
    <3>. QED BY <2>1, <3>1
  <2>2. ASSUME Started(P) = {}, Line(Run(P), right, waits, works, 0)
        PROVE  Line(Run(P), right, In(loads, {"queued"}), In(loads, {"io", "mount"}), 0)
    <3>1. In(loads, {"queued"}) = waits /\ In(loads, {"io", "mount"}) = works
      BY <2>2 DEF In
    <3>. QED BY <2>2, <3>1
  <2>. QED BY <1>3, <2>1, <2>2
<1>8. Opens(T, 0)
  BY <1>6, <1>7 DEF Opens
<1>9. Infos(T, li) /\ Incomplete(T)
  BY <1>6 DEF Good, Infos, Incomplete
<1>10. Staged(T)
  BY <1>4, <1>6 DEF Good, Staged, In
<1>11. CancelledWaits(T)
  BY <1>4, <1>6 DEF Good, CancelledWaits, In
<1>12. Moved(S, T, {}, {})
  BY <1>4, <1>6 DEF Moved, In
<1>. QED BY <1>6, <1>8, <1>9, <1>10, <1>11, <1>12 DEF Good, T

\* queue_push on ofqueue
LEMMA PushOpenGood ==
    ASSUME NEW S, NEW li, NEW d \in Docs, Good(S, 0, li), S.status[d] = "loading",
           S.load[d] \notin {"queued", "io", "mount"}
    PROVE  Good(PushOpen(S, d), 0, li) /\ Moved(S, PushOpen(S, d), {d}, {})
<1>. DEFINE P == Push(S.ofqueue, d)
            waits == In(S.load, {"queued"})
            works == In(S.load, {"io", "mount"})
            put == [S.load EXCEPT ![d] = "queued"]
            loads == [e \in Docs |-> IF e \in Started(P) THEN "io" ELSE put[e]]
            T == PushOpen(S, d)
            right == "slot" \notin S.closedIn
<1>1. /\ S \in Rec /\ waits \in SUBSET Docs /\ works \in SUBSET Docs
      /\ d \notin waits /\ d \notin works
      /\ Line(S.ofqueue, right, waits, works, 0)
  BY DEF Good, Opens, In
<1>2. T = [S EXCEPT !.ofqueue = Run(P), !.load = loads]
  BY <1>1 DEF PushOpen, RunOpens, Rec
<1>3. \/ Started(P) = {d} /\ Line(Run(P), right, waits, works \union {d}, 0)
      \/ Started(P) = {} /\ Line(Run(P), right, waits \union {d}, works, 0)
  <2>. HIDE DEF waits, works, P, right
  <2>. QED BY <1>1, PushLine DEF P
<1>. HIDE DEF P
<1>4. Started(P) \subseteq {d} /\ Run(P) \in Queue(Docs)
  BY <1>3 DEF Line
<1>5. loads \in [Docs -> Stages] /\ loads[d] \in {"queued", "io"}
      /\ \A e \in Docs \ {d} : loads[e] = S.load[e]
  BY <1>1, <1>4 DEF Rec, Stages
<1>6. /\ T \in Rec
      /\ T.ofqueue = Run(P) /\ T.load = loads /\ T.status = S.status /\ T.info = S.info
      /\ T.loadCancel = S.loadCancel /\ T.closedIn = S.closedIn /\ T.fiqueue = S.fiqueue
      /\ T.incomplete = S.incomplete /\ T.unread = S.unread
      /\ T.gmo = S.gmo /\ T.openWait = S.openWait /\ T.infoWait = S.infoWait
  <2>. HIDE DEF loads
  <2>. QED BY <1>1, <1>2, <1>4, <1>5 DEF Rec
<1>. HIDE DEF T
<1>7. Line(Run(P), right, In(loads, {"queued"}), In(loads, {"io", "mount"}), 0)
  <2>1. ASSUME Started(P) = {d}, Line(Run(P), right, waits, works \union {d}, 0)
        PROVE  Line(Run(P), right, In(loads, {"queued"}), In(loads, {"io", "mount"}), 0)
    <3>1. loads[d] = "io"
      BY <2>1
    <3>2. In(loads, {"queued"}) = waits /\ In(loads, {"io", "mount"}) = works \union {d}
      BY <1>1, <1>5, <3>1 DEF In
    <3>. QED BY <2>1, <3>2
  <2>2. ASSUME Started(P) = {}, Line(Run(P), right, waits \union {d}, works, 0)
        PROVE  Line(Run(P), right, In(loads, {"queued"}), In(loads, {"io", "mount"}), 0)
    <3>1. loads[d] = "queued"
      BY <1>1, <2>2 DEF Rec
    <3>2. In(loads, {"queued"}) = waits \union {d} /\ In(loads, {"io", "mount"}) = works
      BY <1>1, <1>5, <3>1 DEF In
    <3>. QED BY <2>2, <3>2
  <2>. QED BY <1>3, <2>1, <2>2
<1>. HIDE DEF loads
<1>8. Opens(T, 0)
  BY <1>6, <1>7 DEF Opens
<1>9. Infos(T, li) /\ Incomplete(T)
  BY <1>6 DEF Good, Infos, Incomplete
<1>10. Staged(T)
  BY <1>5, <1>6 DEF Good, Staged
<1>11. CancelledWaits(T)
  BY <1>5, <1>6 DEF Good, CancelledWaits
<1>12. Moved(S, T, {d}, {})
  BY <1>5, <1>6 DEF Moved
<1>. QED BY <1>6, <1>8, <1>9, <1>10, <1>11, <1>12 DEF Good, T

\* queue_worker_ready(&fiqueue)
LEMMA InfoReadyGood ==
    ASSUME NEW S, NEW lo, Good(S, lo, 1)
    PROVE  Good(fiqueue_ready(S), lo, 0) /\ Moved(S, fiqueue_ready(S), {}, {})
<1>. DEFINE P == WorkerReady(S.fiqueue)
            waits == In(S.info, {"queued"})
            works == In(S.info, {"io", "mount"})
            infos == [d \in Docs |-> IF d \in Started(P) THEN "io" ELSE S.info[d]]
            T == fiqueue_ready(S)
            right == TRUE
<1>1. /\ S \in Rec /\ waits \in SUBSET Docs /\ works \in SUBSET Docs
      /\ waits \intersect works = {}
      /\ Line(S.fiqueue, right, waits, works, 1)
  BY DEF Good, Infos, In
<1>2. T = [S EXCEPT !.fiqueue = Run(P), !.info = infos]
  BY DEF fiqueue_ready, RunInfos
<1>3. \/ \E t \in waits : /\ Started(P) = {t}
                          /\ Line(Run(P), right, waits \ {t}, works \union {t}, 0)
      \/ Started(P) = {} /\ Line(Run(P), right, waits, works, 0)
  <2>. HIDE DEF waits, works, P, right
  <2>. QED BY <1>1, ReadyLine DEF P
<1>. HIDE DEF P
<1>4. Started(P) \subseteq waits /\ Run(P) \in Queue(Docs)
  BY <1>3 DEF Line
<1>5. infos \in [Docs -> InfoStages]
  BY <1>1 DEF Rec, InfoStages
<1>6. /\ T \in Rec
      /\ T.fiqueue = Run(P) /\ T.info = infos /\ T.status = S.status /\ T.load = S.load
      /\ T.loadCancel = S.loadCancel /\ T.closedIn = S.closedIn /\ T.ofqueue = S.ofqueue
      /\ T.incomplete = S.incomplete /\ T.unread = S.unread
      /\ T.gmo = S.gmo /\ T.openWait = S.openWait /\ T.infoWait = S.infoWait
  <2>. HIDE DEF infos
  <2>. QED BY <1>1, <1>2, <1>4, <1>5 DEF Rec
<1>. HIDE DEF T
<1>7. Line(Run(P), right, In(infos, {"queued"}), In(infos, {"io", "mount"}), 0)
  <2>1. ASSUME NEW t \in waits, Started(P) = {t},
               Line(Run(P), right, waits \ {t}, works \union {t}, 0)
        PROVE  Line(Run(P), right, In(infos, {"queued"}), In(infos, {"io", "mount"}), 0)
    <3>1. In(infos, {"queued"}) = waits \ {t} /\ In(infos, {"io", "mount"}) = works \union {t}
      BY <2>1 DEF In
    <3>. QED BY <2>1, <3>1
  <2>2. ASSUME Started(P) = {}, Line(Run(P), right, waits, works, 0)
        PROVE  Line(Run(P), right, In(infos, {"queued"}), In(infos, {"io", "mount"}), 0)
    <3>1. In(infos, {"queued"}) = waits /\ In(infos, {"io", "mount"}) = works
      BY <2>2 DEF In
    <3>. QED BY <2>2, <3>1
  <2>. QED BY <1>3, <2>1, <2>2
<1>8. Infos(T, 0)
  BY <1>6, <1>7 DEF Infos
<1>9. Opens(T, lo) /\ Incomplete(T)
  BY <1>6 DEF Good, Opens, Incomplete
<1>10. Staged(T)
  BY <1>4, <1>6 DEF Good, Staged, In
<1>11. CancelledWaits(T)
  BY <1>4, <1>6 DEF Good, CancelledWaits, In
<1>12. Moved(S, T, {}, {})
  BY <1>4, <1>6 DEF Moved, In
<1>. QED BY <1>6, <1>8, <1>9, <1>10, <1>11, <1>12 DEF Good, T

\* queue_push on fiqueue
LEMMA PushInfoGood ==
    ASSUME NEW S, NEW lo, NEW d \in Docs, Good(S, lo, 0), S.status[d] # "new",
           S.info[d] \notin {"queued", "io", "mount"}
    PROVE  Good(PushInfo(S, d), lo, 0) /\ Moved(S, PushInfo(S, d), {}, {d})
<1>. DEFINE P == Push(S.fiqueue, d)
            waits == In(S.info, {"queued"})
            works == In(S.info, {"io", "mount"})
            put == [S.info EXCEPT ![d] = "queued"]
            infos == [e \in Docs |-> IF e \in Started(P) THEN "io" ELSE put[e]]
            T == PushInfo(S, d)
            right == TRUE
<1>1. /\ S \in Rec /\ waits \in SUBSET Docs /\ works \in SUBSET Docs
      /\ d \notin waits /\ d \notin works
      /\ Line(S.fiqueue, right, waits, works, 0)
  BY DEF Good, Infos, In
<1>2. T = [S EXCEPT !.fiqueue = Run(P), !.info = infos]
  BY <1>1 DEF PushInfo, RunInfos, Rec
<1>3. \/ Started(P) = {d} /\ Line(Run(P), right, waits, works \union {d}, 0)
      \/ Started(P) = {} /\ Line(Run(P), right, waits \union {d}, works, 0)
  <2>. HIDE DEF waits, works, P, right
  <2>. QED BY <1>1, PushLine DEF P
<1>. HIDE DEF P
<1>4. Started(P) \subseteq {d} /\ Run(P) \in Queue(Docs)
  BY <1>3 DEF Line
<1>5. infos \in [Docs -> InfoStages] /\ infos[d] \in {"queued", "io"}
      /\ \A e \in Docs \ {d} : infos[e] = S.info[e]
  BY <1>1, <1>4 DEF Rec, InfoStages
<1>6. /\ T \in Rec
      /\ T.fiqueue = Run(P) /\ T.info = infos /\ T.status = S.status /\ T.load = S.load
      /\ T.loadCancel = S.loadCancel /\ T.closedIn = S.closedIn /\ T.ofqueue = S.ofqueue
      /\ T.incomplete = S.incomplete /\ T.unread = S.unread
      /\ T.gmo = S.gmo /\ T.openWait = S.openWait /\ T.infoWait = S.infoWait
  <2>. HIDE DEF infos
  <2>. QED BY <1>1, <1>2, <1>4, <1>5 DEF Rec
<1>. HIDE DEF T
<1>7. Line(Run(P), right, In(infos, {"queued"}), In(infos, {"io", "mount"}), 0)
  <2>1. ASSUME Started(P) = {d}, Line(Run(P), right, waits, works \union {d}, 0)
        PROVE  Line(Run(P), right, In(infos, {"queued"}), In(infos, {"io", "mount"}), 0)
    <3>1. infos[d] = "io"
      BY <2>1
    <3>2. In(infos, {"queued"}) = waits /\ In(infos, {"io", "mount"}) = works \union {d}
      BY <1>1, <1>5, <3>1 DEF In
    <3>. QED BY <2>1, <3>2
  <2>2. ASSUME Started(P) = {}, Line(Run(P), right, waits \union {d}, works, 0)
        PROVE  Line(Run(P), right, In(infos, {"queued"}), In(infos, {"io", "mount"}), 0)
    <3>1. infos[d] = "queued"
      BY <1>1, <2>2 DEF Rec
    <3>2. In(infos, {"queued"}) = waits \union {d} /\ In(infos, {"io", "mount"}) = works
      BY <1>1, <1>5, <3>1 DEF In
    <3>. QED BY <2>2, <3>2
  <2>. QED BY <1>3, <2>1, <2>2
<1>. HIDE DEF infos
<1>8. Infos(T, 0)
  BY <1>6, <1>7 DEF Infos
<1>9. Opens(T, lo) /\ Incomplete(T)
  BY <1>6 DEF Good, Opens, Incomplete
<1>10. Staged(T)
  BY <1>5, <1>6 DEF Good, Staged
<1>11. CancelledWaits(T)
  BY <1>5, <1>6 DEF Good, CancelledWaits
<1>12. Moved(S, T, {}, {d})
  BY <1>5, <1>6 DEF Moved
<1>. QED BY <1>6, <1>8, <1>9, <1>10, <1>11, <1>12 DEF Good, T

\* doc_destroy, of a document with nothing under way
LEMMA DestroyGood ==
    ASSUME NEW S, NEW lo, NEW li, Good(S, lo, li), NEW d \in Docs,
           S.load[d] = "none", S.info[d] = "none"
    PROVE  Good(doc_destroy(S, d), lo, li) /\ Moved(S, doc_destroy(S, d), {}, {})
<1>. DEFINE T == doc_destroy(S, d)
            before == In(S.status, {"loading"}) \union S.unread
            after == In(T.status, {"loading"}) \union T.unread
<1>1. S \in Rec
  BY DEF Good
<1>2. /\ T \in Rec
      /\ T.status = [S.status EXCEPT ![d] = "gone"]
      /\ T.incomplete = IF S.status[d] = "loading" THEN S.incomplete - 1 ELSE S.incomplete
      /\ T.ofqueue = S.ofqueue /\ T.fiqueue = S.fiqueue /\ T.load = S.load /\ T.info = S.info
      /\ T.loadCancel = S.loadCancel /\ T.closedIn = S.closedIn /\ T.unread = S.unread
      /\ T.gmo = S.gmo /\ T.openWait = S.openWait /\ T.infoWait = S.infoWait
  <2>. DEFINE n == IF S.status[d] = "loading" THEN S.incomplete - 1 ELSE S.incomplete
              st == [S.status EXCEPT ![d] = "gone"]
  <2>1. T = [S EXCEPT !.status = st, !.incomplete = n]
    BY <1>1 DEF doc_destroy, Rec
  <2>2. n \in Int /\ st \in [Docs -> {"new", "loading", "complete", "error", "gone"}]
    BY <1>1 DEF Rec
  <2>. HIDE DEF n, st, T
  <2>3. /\ T.status = st /\ T.incomplete = n
        /\ T.ofqueue = S.ofqueue /\ T.fiqueue = S.fiqueue /\ T.load = S.load /\ T.info = S.info
        /\ T.loadCancel = S.loadCancel /\ T.closedIn = S.closedIn /\ T.unread = S.unread
        /\ T.gmo = S.gmo /\ T.openWait = S.openWait /\ T.infoWait = S.infoWait
    BY <1>1, <2>1 DEF Rec
  <2>4. T \in Rec
    BY <1>1, <2>1, <2>2 DEF Rec
  <2>. QED BY <2>3, <2>4 DEF st, n
<1>. HIDE DEF T
<1>3. Opens(T, lo) /\ Infos(T, li) /\ CancelledWaits(T) /\ Moved(S, T, {}, {})
  BY <1>2 DEF Good, Opens, Infos, CancelledWaits, Moved
<1>4. Staged(T)
  BY <1>1, <1>2 DEF Good, Staged, Rec
<1>5. before \in SUBSET Docs /\ S.incomplete = Cardinality(before)
  BY <1>1 DEF Good, Incomplete, In, Rec
<1>6. \A e \in T.unread : T.status[e] \in {"error", "gone"}
  BY <1>1, <1>2 DEF Good, Incomplete, Rec
<1>7. T.incomplete = Cardinality(after)
  <2>1. CASE S.status[d] = "loading"
    <3>1. d \in before /\ d \notin S.unread
      BY <1>1, <2>1 DEF Good, Incomplete, In, Rec
    <3>2. after = before \ {d}
      BY <1>1, <1>2, <3>1 DEF In, Rec
    <3>. HIDE DEF before, after
    <3>3. Cardinality(before \ {d}) = Cardinality(before) - 1
      BY <1>5, <3>1, DocsFinite, FS_RemoveElement
    <3>. QED BY <1>2, <1>5, <2>1, <3>2, <3>3
  <2>2. CASE S.status[d] # "loading"
    <3>1. after = before
      BY <1>1, <1>2, <2>2 DEF In, Rec
    <3>. QED BY <1>2, <1>5, <2>2, <3>1
  <2>. QED BY <2>1, <2>2
<1>8. Incomplete(T)
  BY <1>6, <1>7 DEF Incomplete
<1>. QED BY <1>2, <1>3, <1>4, <1>8 DEF Good, T

\* What doc_close_single_backend does to a document with a load or a file info under way
LEMMA CloseIs ==
    ASSUME NEW S \in Rec, NEW d \in Docs, S.load[d] # "none" \/ S.info[d] # "none",
           Remove(S.ofqueue, d) \in Queue(Docs),
           NEW T, T = doc_close_single_backend(S, d)
    PROVE  /\ T \in Rec
           /\ \A e \in Docs \ {d} : /\ T.load[e] = S.load[e]
                                    /\ T.loadCancel[e] = S.loadCancel[e]
           /\ T.load[d] = CASE S.load[d] \in {"idle", "goto"} -> "none"
                            [] S.load[d] = "queued" -> "lost"
                            [] OTHER -> S.load[d]
           /\ T.ofqueue = IF S.load[d] \in {"none", "idle", "goto"} THEN S.ofqueue
                          ELSE Remove(S.ofqueue, d)
           /\ S.closedIn \subseteq T.closedIn
           /\ S.load[d] = "wait" => "slot" \in T.closedIn
           /\ T.status = S.status /\ T.info = S.info /\ T.fiqueue = S.fiqueue
           /\ T.incomplete = S.incomplete /\ T.unread = S.unread
           /\ T.gmo = S.gmo /\ T.openWait = S.openWait /\ T.infoWait = S.infoWait
           /\ T.mounted = S.mounted
<1>. DEFINE C == IF S.info[d] = "none" THEN S ELSE [S EXCEPT !.infoCancel[d] = TRUE]
            F == IF S.load[d] = "none" THEN C ELSE file2doc_cancel(C, d)
            situation == {s \in CloseSituations :
                \/ s = "slot" /\ S.load[d] = "wait"
                \/ s = "silent" /\ (S.load[d] \in {"queued", "idle", "goto"}
                                    \/ S.info[d] \in {"mount", "wait"})}
<1>1. T = [F EXCEPT !.close_doc[d] = TRUE, !.closedIn = @ \union situation]
  BY DEF doc_close_single_backend
<1>2. /\ C \in Rec
      /\ C.load = S.load /\ C.loadCancel = S.loadCancel /\ C.ofqueue = S.ofqueue
      /\ C.closedIn = S.closedIn /\ C.status = S.status /\ C.info = S.info
      /\ C.fiqueue = S.fiqueue /\ C.incomplete = S.incomplete /\ C.unread = S.unread
      /\ C.gmo = S.gmo /\ C.openWait = S.openWait /\ C.infoWait = S.infoWait
      /\ C.mounted = S.mounted
  BY DEF Rec
<1>. HIDE DEF C
<1>3. /\ F \in Rec
      /\ \A e \in Docs \ {d} : F.load[e] = S.load[e] /\ F.loadCancel[e] = S.loadCancel[e]
      /\ F.load[d] = CASE S.load[d] \in {"idle", "goto"} -> "none"
                       [] S.load[d] = "queued" -> "lost"
                       [] OTHER -> S.load[d]
      /\ F.ofqueue = IF S.load[d] \in {"none", "idle", "goto"} THEN S.ofqueue
                     ELSE Remove(S.ofqueue, d)
      /\ F.closedIn = S.closedIn /\ F.status = S.status /\ F.info = S.info
      /\ F.fiqueue = S.fiqueue /\ F.incomplete = S.incomplete /\ F.unread = S.unread
      /\ F.gmo = S.gmo /\ F.openWait = S.openWait /\ F.infoWait = S.infoWait
      /\ F.mounted = S.mounted
  <2>1. CASE S.load[d] = "none"
    BY <1>2, <2>1
  <2>2. CASE S.load[d] \in {"idle", "goto"}
    <3>1. F = [C EXCEPT !.load[d] = "none"]
      BY <1>2, <2>2 DEF file2doc_cancel
    <3>. HIDE DEF F
    <3>. QED BY <1>2, <2>2, <3>1 DEF Rec, Stages
  <2>3. CASE S.load[d] \notin {"none", "idle", "goto"}
    <3>1. F = [C EXCEPT !.ofqueue = Remove(@, d),
                        !.load[d] = IF @ = "queued" THEN "lost" ELSE @,
                        !.loadCancel[d] = TRUE]
      BY <1>2, <2>3 DEF file2doc_cancel
    <3>. HIDE DEF F
    <3>2. S.load[d] \in Stages /\ S.load \in [Docs -> Stages]
      BY DEF Rec
    <3>. QED BY <1>2, <2>3, <3>1, <3>2 DEF Rec, Stages
  <2>. QED BY <2>1, <2>2, <2>3
<1>. HIDE DEF F
<1>4. situation \in SUBSET CloseSituations /\ (S.load[d] = "wait" => "slot" \in situation)
  BY DEF CloseSituations
<1>. HIDE DEF situation
<1>5. /\ T \in Rec /\ T.closedIn = S.closedIn \union situation
      /\ T.load = F.load /\ T.loadCancel = F.loadCancel /\ T.ofqueue = F.ofqueue
      /\ T.status = F.status /\ T.info = F.info
      /\ T.fiqueue = F.fiqueue /\ T.incomplete = F.incomplete /\ T.unread = F.unread
      /\ T.gmo = F.gmo /\ T.openWait = F.openWait /\ T.infoWait = F.infoWait
      /\ T.mounted = F.mounted
  <2>. DEFINE cd == [F.close_doc EXCEPT ![d] = TRUE]
              ci == F.closedIn \union situation
  <2>1. T = [F EXCEPT !.close_doc = cd, !.closedIn = ci]
    BY <1>1, <1>3 DEF Rec
  <2>2. cd \in [Docs -> BOOLEAN] /\ ci \in SUBSET CloseSituations /\ ci = S.closedIn \union situation
    BY <1>3, <1>4 DEF Rec
  <2>. HIDE DEF cd, ci
  <2>3. T \in Rec
    BY <1>3, <2>1, <2>2 DEF Rec
  <2>. QED BY <1>3, <2>1, <2>2, <2>3 DEF Rec
<1>. QED BY <1>3, <1>4, <1>5

\* doc_close_single_backend
LEMMA CloseGood ==
    ASSUME NEW S, NEW lo, NEW li, Good(S, lo, li), NEW d \in Docs
    PROVE  /\ Good(doc_close_single_backend(S, d), lo, li)
           /\ Moved(S, doc_close_single_backend(S, d), {}, {})
<1>. DEFINE T == doc_close_single_backend(S, d)
            waits == In(S.load, {"queued"})
            works == In(S.load, {"io", "mount"})
<1>1. CASE S.load[d] = "none" /\ S.info[d] = "none"
  BY <1>1, DestroyGood DEF doc_close_single_backend
<1>2. CASE S.load[d] # "none" \/ S.info[d] # "none"
  <2>1. /\ S \in Rec /\ waits \in SUBSET Docs /\ works \in SUBSET Docs
        /\ Line(S.ofqueue, "slot" \notin S.closedIn, waits, works, lo)
    BY DEF Good, Opens, In
  <2>2. Line(Remove(S.ofqueue, d), "slot" \notin S.closedIn, waits \ {d}, works, lo)
    <3>. HIDE DEF waits, works
    <3>. QED BY <2>1, RemoveLine
  <2>. HIDE DEF T
  <2>3. Remove(S.ofqueue, d) \in Queue(Docs)
    BY <2>2 DEF Line
  <2>4. /\ T \in Rec
        /\ \A e \in Docs \ {d} : T.load[e] = S.load[e] /\ T.loadCancel[e] = S.loadCancel[e]
        /\ T.load[d] = CASE S.load[d] \in {"idle", "goto"} -> "none"
                         [] S.load[d] = "queued" -> "lost"
                         [] OTHER -> S.load[d]
        /\ T.ofqueue = IF S.load[d] \in {"none", "idle", "goto"} THEN S.ofqueue
                       ELSE Remove(S.ofqueue, d)
        /\ S.closedIn \subseteq T.closedIn
        /\ S.load[d] = "wait" => "slot" \in T.closedIn
        /\ T.status = S.status /\ T.info = S.info /\ T.fiqueue = S.fiqueue
        /\ T.incomplete = S.incomplete /\ T.unread = S.unread
        /\ T.gmo = S.gmo /\ T.openWait = S.openWait /\ T.infoWait = S.infoWait
    BY <1>2, <2>1, <2>3, CloseIs DEF T
  <2>5. In(T.load, {"queued"}) = waits \ {d} /\ In(T.load, {"io", "mount"}) = works
    BY <2>4 DEF In
  <2>6. Line(T.ofqueue, "slot" \notin S.closedIn, waits \ {d}, works, lo)
    <3>1. CASE S.load[d] \in {"none", "idle", "goto"}
      <4>1. waits \ {d} = waits
        BY <3>1 DEF In
      <4>. QED BY <2>1, <2>4, <3>1, <4>1
    <3>2. CASE S.load[d] \notin {"none", "idle", "goto"}
      BY <2>2, <2>4, <3>2
    <3>. QED BY <3>1, <3>2
  <2>7. Opens(T, lo)
    <3>1. "slot" \notin T.closedIn => "slot" \notin S.closedIn
      BY <2>4
    <3>. HIDE DEF waits, works
    <3>. QED BY <2>5, <2>6, <3>1 DEF Opens, Line
  <2>8. Infos(T, li) /\ Incomplete(T)
    BY <2>4 DEF Good, Infos, Incomplete
  <2>9. Staged(T)
    BY <2>4 DEF Good, Staged
  <2>10. CancelledWaits(T)
    <3>. SUFFICES ASSUME NEW e \in Docs, T.load[e] = "wait", T.loadCancel[e]
                  PROVE  "slot" \in T.closedIn
      BY DEF CancelledWaits
    <3>1. CASE e # d
      BY <2>4, <3>1 DEF Good, CancelledWaits
    <3>2. CASE e = d
      BY <2>4, <3>2
    <3>. QED BY <3>1, <3>2
  <2>11. Moved(S, T, {}, {})
    <3>. SUFFICES ASSUME NEW e \in Docs, NEW s \in {"mount", "wait"}
                  PROVE  T.load[e] = s <=> S.load[e] = s
      BY <2>4 DEF Moved
    <3>. QED BY <2>4
  <2>. QED BY <2>4, <2>7, <2>8, <2>9, <2>10, <2>11 DEF Good, T
<1>. QED BY <1>1, <1>2

\* An open leaves the stages in which it has a slot, or the list of those that wait.
LEMMA LeaveGood ==
    ASSUME NEW S, NEW li, NEW d \in Docs, Good(S, 0, li),
           S.load[d] \in {"io", "mount", "wait"},
           NEW s \in {"none", "idle", "wait"},
           s = "wait" => S.load[d] = "io" /\ ~ S.loadCancel[d],
           S.load[d] = "wait" => "slot" \in S.closedIn,
           NEW T, T = [S EXCEPT !.load[d] = s]
    PROVE  Good(T, 1, li) /\ (s # "wait" => Moved(S, T, {d}, {}))
<1>. DEFINE waits == In(S.load, {"queued"})
            works == In(S.load, {"io", "mount"})
            right == "slot" \notin S.closedIn
<1>1. /\ S \in Rec /\ waits \in SUBSET Docs /\ works \in SUBSET Docs
      /\ Line(S.ofqueue, right, waits, works, 0)
  BY DEF Good, Opens, In
<1>2. /\ T \in Rec /\ T.load = [S.load EXCEPT ![d] = s]
      /\ T.ofqueue = S.ofqueue /\ T.status = S.status /\ T.info = S.info
      /\ T.loadCancel = S.loadCancel /\ T.closedIn = S.closedIn /\ T.fiqueue = S.fiqueue
      /\ T.incomplete = S.incomplete /\ T.unread = S.unread
      /\ T.gmo = S.gmo /\ T.openWait = S.openWait /\ T.infoWait = S.infoWait
  BY <1>1 DEF Rec, Stages
<1>3. /\ \A e \in Docs \ {d} : T.load[e] = S.load[e]
      /\ T.load[d] = s
  BY <1>1, <1>2 DEF Rec
<1>4. In(T.load, {"queued"}) = waits /\ In(T.load, {"io", "mount"}) = works \ {d}
  BY <1>3 DEF In
<1>5. right => d \in works
  BY <1>1 DEF In
<1>6. Line(T.ofqueue, right, waits, works \ {d}, 1)
  <2>1. right => Cardinality(works \ {d}) = Cardinality(works) - 1 /\ Cardinality(works) \in Nat
    <3>. HIDE DEF works, right
    <3>. QED BY <1>1, <1>5, DocsFinite, FS_RemoveElement
  <2>. HIDE DEF works, right, waits
  <2>. QED BY <1>1, <1>2, <2>1 DEF Line
<1>7. Opens(T, 1)
  BY <1>2, <1>4, <1>6 DEF Opens
<1>8. Infos(T, li) /\ Incomplete(T)
  BY <1>2 DEF Good, Infos, Incomplete
<1>9. Staged(T)
  BY <1>2, <1>3 DEF Good, Staged
<1>10. CancelledWaits(T)
  BY <1>2, <1>3 DEF Good, CancelledWaits
<1>11. s # "wait" => Moved(S, T, {d}, {})
  BY <1>2, <1>3 DEF Moved
<1>. QED BY <1>2, <1>7, <1>8, <1>9, <1>10, <1>11 DEF Good

\* A document whose file cannot be read stays counted.
LEMMA UnreadGood ==
    ASSUME NEW S, NEW lo, NEW li, NEW d \in Docs, Good(S, lo, li),
           S.load[d] = "none", S.status[d] = "loading",
           NEW T, T = [S EXCEPT !.status[d] = "error", !.unread = @ \union {d}]
    PROVE  Good(T, lo, li) /\ Moved(S, T, {}, {})
<1>1. S \in Rec
  BY DEF Good
<1>2. /\ T \in Rec /\ T.status = [S.status EXCEPT ![d] = "error"]
      /\ T.unread = S.unread \union {d}
      /\ T.ofqueue = S.ofqueue /\ T.load = S.load /\ T.info = S.info
      /\ T.loadCancel = S.loadCancel /\ T.closedIn = S.closedIn /\ T.fiqueue = S.fiqueue
      /\ T.incomplete = S.incomplete
      /\ T.gmo = S.gmo /\ T.openWait = S.openWait /\ T.infoWait = S.infoWait
  <2>. DEFINE st == [S.status EXCEPT ![d] = "error"]
              un == S.unread \union {d}
  <2>1. T = [S EXCEPT !.status = st, !.unread = un]
    BY <1>1 DEF Rec
  <2>2. st \in [Docs -> {"new", "loading", "complete", "error", "gone"}] /\ un \in SUBSET Docs
    BY <1>1 DEF Rec
  <2>. HIDE DEF st, un
  <2>3. T \in Rec
    BY <1>1, <2>1, <2>2 DEF Rec
  <2>4. T.status = st /\ T.unread = un
    BY <1>1, <2>1 DEF Rec
  <2>. QED BY <1>1, <2>1, <2>3, <2>4 DEF Rec, st, un
<1>3. \A e \in Docs : T.status[e] = IF e = d THEN "error" ELSE S.status[e]
  BY <1>1, <1>2 DEF Rec
<1>4. In(T.status, {"loading"}) \union T.unread = In(S.status, {"loading"}) \union S.unread
  BY <1>2, <1>3 DEF In
<1>5. Incomplete(T)
  BY <1>1, <1>2, <1>3, <1>4 DEF Good, Incomplete, Rec
<1>6. Staged(T)
  BY <1>2, <1>3 DEF Good, Staged
<1>. QED BY <1>2, <1>5, <1>6 DEF Good, Opens, Infos, CancelledWaits, Moved

\* file2doc_lcb, called for an open that ended, or that was cancelled while it waited
LEMMA LoadedGood ==
    ASSUME NEW S, NEW li, NEW d \in Docs, Good(S, 0, li),
           NEW result \in {"FINISHED", "CANCELLED", "ERROR"},
           S.load[d] \in {"io", "mount", "wait"},
           S.load[d] = "wait" => "slot" \in S.closedIn
    PROVE  /\ Good(file2doc_lcb(S, d, result), 1, li)
           /\ Moved(S, file2doc_lcb(S, d, result), {d}, {})
<1>. DEFINE U == [S EXCEPT !.load[d] = "none"]
            T == file2doc_lcb(S, d, result)
<1>1. CASE result = "FINISHED"
  <2>1. T = [S EXCEPT !.load[d] = "idle"]
    BY <1>1 DEF file2doc_lcb
  <2>. QED BY <2>1, LeaveGood
<1>2. Good(U, 1, li) /\ Moved(S, U, {d}, {})
  BY LeaveGood
<1>3. U.load[d] = "none" /\ U.status[d] = "loading"
  <2>1. S \in Rec /\ S.status[d] = "loading"
    BY DEF Good, Staged
  <2>. QED BY <2>1 DEF Rec
<1>. HIDE DEF U
<1>4. ASSUME T = doc_close_single_backend(U, d)
      PROVE  Good(T, 1, li) /\ Moved(S, T, {d}, {})
  <2>. DEFINE V == doc_close_single_backend(U, d)
  <2>1. Good(V, 1, li) /\ Moved(U, V, {}, {})
    BY <1>2, CloseGood
  <2>. HIDE DEF V
  <2>2. Moved(S, V, {d} \union {}, {} \union {})
    BY <1>2, <2>1, MovedOn
  <2>3. T = V
    BY <1>4 DEF V
  <2>4. {d} \union {} = {d} /\ {} \union {} = {}
    OBVIOUS
  <2>. QED BY <2>1, <2>2, <2>3, <2>4
<1>5. CASE result = "CANCELLED"
  <2>1. T = doc_close_single_backend(U, d)
    BY <1>5 DEF file2doc_lcb, U
  <2>. QED BY <2>1, <1>4
<1>6. CASE result = "ERROR"
  <2>1. CASE S.close_doc[d]
    <3>1. T = doc_close_single_backend(U, d)
      BY <1>6, <2>1 DEF file2doc_lcb, U
    <3>. QED BY <3>1, <1>4
  <2>2. CASE ~ S.close_doc[d]
    <3>. DEFINE V == [U EXCEPT !.status[d] = "error", !.unread = @ \union {d}]
    <3>1. T = V
      BY <1>6, <2>2 DEF file2doc_lcb, U
    <3>2. Good(V, 1, li) /\ Moved(U, V, {}, {})
      BY <1>2, <1>3, UnreadGood
    <3>. HIDE DEF V
    <3>3. Moved(S, V, {d} \union {}, {} \union {})
      BY <1>2, <3>2, MovedOn
    <3>4. {d} \union {} = {d} /\ {} \union {} = {}
      OBVIOUS
    <3>. QED BY <3>1, <3>2, <3>3, <3>4
  <2>. QED BY <2>1, <2>2
<1>. QED BY <1>1, <1>5, <1>6

\* openfile_async_lcb and openfile_async_mount_lcb, at the end of an open
LEMMA OpenDoneGood ==
    ASSUME NEW S, NEW li, NEW d \in Docs, Good(S, 0, li),
           NEW result \in {"FINISHED", "CANCELLED", "ERROR"},
           S.load[d] \in {"io", "mount", "wait"},
           S.load[d] = "wait" => "slot" \in S.closedIn
    PROVE  /\ Good(openfile_done(S, d, result), 0, li)
           /\ Moved(S, openfile_done(S, d, result), {d}, {})
<1>. DEFINE U == file2doc_lcb(S, d, result)
            T == openfile_cleanup(U)
<1>1. Good(U, 1, li) /\ Moved(S, U, {d}, {})
  BY LoadedGood
<1>2. openfile_done(S, d, result) = T
  BY DEF openfile_done
<1>. HIDE DEF U
<1>3. Good(T, 0, li) /\ Moved(U, T, {}, {})
  BY <1>1, CleanupGood
<1>. HIDE DEF T
<1>4. Moved(S, T, {d} \union {}, {} \union {})
  BY <1>1, <1>3, MovedOn
<1>5. {d} \union {} = {d} /\ {} \union {} = {}
  OBVIOUS
<1>. QED BY <1>2, <1>3, <1>4, <1>5

\* A file info leaves the stages in which it has a slot, or the list of those that wait.
LEMMA InfoLeaveGood ==
    ASSUME NEW S, NEW lo, NEW d \in Docs, Good(S, lo, 0),
           S.info[d] \in {"io", "mount", "wait"}, NEW s \in {"none", "wait"},
           NEW T, T = [S EXCEPT !.info[d] = s]
    PROVE  /\ S.info[d] # "wait" => Good(T, lo, 1)
           /\ S.info[d] = "wait" => Good(T, lo, 0)
           /\ s # "wait" => Moved(S, T, {}, {d})
<1>. DEFINE waits == In(S.info, {"queued"})
            works == In(S.info, {"io", "mount"})
<1>1. /\ S \in Rec /\ waits \in SUBSET Docs /\ works \in SUBSET Docs
      /\ Line(S.fiqueue, TRUE, waits, works, 0)
  BY DEF Good, Infos, In
<1>2. /\ T \in Rec /\ T.info = [S.info EXCEPT ![d] = s]
      /\ T.ofqueue = S.ofqueue /\ T.status = S.status /\ T.load = S.load
      /\ T.loadCancel = S.loadCancel /\ T.closedIn = S.closedIn /\ T.fiqueue = S.fiqueue
      /\ T.incomplete = S.incomplete /\ T.unread = S.unread
      /\ T.gmo = S.gmo /\ T.openWait = S.openWait /\ T.infoWait = S.infoWait
  BY <1>1 DEF Rec, InfoStages
<1>3. /\ \A e \in Docs \ {d} : T.info[e] = S.info[e]
      /\ T.info[d] = s
  BY <1>1, <1>2 DEF Rec
<1>4. In(T.info, {"queued"}) = waits /\ In(T.info, {"io", "mount"}) = works \ {d}
  BY <1>3 DEF In
<1>5. CASE S.info[d] = "wait"
  <2>1. works \ {d} = works
    BY <1>5 DEF In
  <2>2. Infos(T, 0)
    BY <1>1, <1>2, <1>4, <2>1 DEF Infos
  <2>. QED BY <1>2, <1>3, <1>5, <2>2 DEF Good, Opens, Incomplete, Staged, CancelledWaits, Moved
<1>6. CASE S.info[d] # "wait"
  <2>1. d \in works
    BY <1>6 DEF In
  <2>2. Line(T.fiqueue, TRUE, waits, works \ {d}, 1)
    <3>. HIDE DEF works, waits
    <3>1. Cardinality(works \ {d}) = Cardinality(works) - 1 /\ Cardinality(works) \in Nat
      BY <1>1, <2>1, DocsFinite, FS_RemoveElement
    <3>. QED BY <1>1, <1>2, <3>1 DEF Line
  <2>3. Infos(T, 1)
    BY <1>2, <1>4, <2>2 DEF Infos
  <2>. QED BY <1>2, <1>3, <1>6, <2>3 DEF Good, Opens, Incomplete, Staged, CancelledWaits, Moved
<1>. QED BY <1>5, <1>6

\* fill_fileinfo_lcb, at the end of the fetch of a file info
LEMMA InfoDoneGood ==
    ASSUME NEW S, NEW d \in Docs, Good(S, 0, 0), S.info[d] = "io"
    PROVE  Good(fill_fileinfo_done(S, d), 0, 0) /\ Moved(S, fill_fileinfo_done(S, d), {}, {d})
<1>. DEFINE U == [S EXCEPT !.info[d] = "none"]
            V == IF S.close_doc[d] THEN doc_close_single_backend(U, d) ELSE U
            T == fiqueue_ready(V)
<1>1. Good(U, 0, 1) /\ Moved(S, U, {}, {d})
  BY InfoLeaveGood
<1>2. fill_fileinfo_done(S, d) = T
  BY DEF fill_fileinfo_done
<1>. HIDE DEF U
<1>3. Good(V, 0, 1) /\ Moved(U, V, {}, {})
  <2>1. Moved(U, U, {}, {})
    BY DEF Moved
  <2>. QED BY <1>1, <2>1, CloseGood
<1>. HIDE DEF V
<1>4. Good(T, 0, 0) /\ Moved(V, T, {}, {})
  BY <1>3, InfoReadyGood
<1>. HIDE DEF T
<1>5. Moved(S, V, {} \union {}, {d} \union {})
  BY <1>1, <1>3, MovedOn
<1>6. Moved(S, T, ({} \union {}) \union {}, ({d} \union {}) \union {})
  BY <1>4, <1>5, MovedOn
<1>7. ({} \union {}) \union {} = {} /\ ({d} \union {}) \union {} = {d}
  OBVIOUS
<1>. QED BY <1>2, <1>4, <1>6, <1>7

\* Induction over the natural numbers, for a set.  The library states it for an
\* operator, which cannot be given here; a set closed under +1 that lacked n would be mapped
\* one-to-one into itself without 0.
LEMMA Induction ==
    ASSUME NEW A, 0 \in A, \A n \in Nat : n \in A => n + 1 \in A
    PROVE  \A n \in Nat : n \in A
<1>. SUFFICES ASSUME NEW n \in Nat, n \notin A
              PROVE  FALSE
  OBVIOUS
<1>. DEFINE S == {k \in 0 .. n : k \in A}
            next == [k \in S |-> k + 1]
<1>1. IsFiniteSet(0 .. n) /\ S \in SUBSET (0 .. n)
  BY FS_Interval
<1>2. IsFiniteSet(S)
  BY <1>1, FS_Subset
<1>3. IsFiniteSet(S \ {0}) /\ Cardinality(S \ {0}) = Cardinality(S) - 1 /\ Cardinality(S) \in Nat
  <2>1. 0 \in S
    OBVIOUS
  <2>. HIDE DEF S
  <2>. QED BY <1>2, <2>1, FS_RemoveElement, FS_CardinalityType
<1>4. \A k \in S : k + 1 \in S \ {0}
  <2>. TAKE k \in S
  <2>1. k # n /\ k \in Nat /\ k + 1 \in A
    OBVIOUS
  <2>. QED BY <2>1
<1>5. next \in [S -> S \ {0}]
  BY <1>4
<1>6. \E x, y \in S : x # y /\ next[x] = next[y]
  <2>. DEFINE T == S \ {0}
  <2>1. IsFiniteSet(T) /\ Cardinality(T) < Cardinality(S) /\ next \in [S -> T]
    BY <1>3, <1>5
  <2>. HIDE DEF S, T, next
  <2>. QED BY <1>2, <2>1, FS_PigeonHole
<1>. QED BY <1>6


\* Both loops of resume_after_wait_for_mount can be followed step by step: f[i] is what the
\* first i of the list leave.
Loop(f, S, list, n, opens) ==
    [i \in 0 .. n |-> IF i = 0 THEN S ELSE IF opens THEN ResumeOpen(f[i - 1], list[i])
                                           ELSE ResumeInfo(f[i - 1], list[i])]

\* The recursive function that ForEach chooses exists, for a list of any length.
LEMMA LoopIsThere ==
    ASSUME NEW S, NEW list, NEW n \in Nat, NEW opens \in BOOLEAN
    PROVE  \E f : f = Loop(f, S, list, n, opens)
<1>. DEFINE After(f, i) == IF i = 0 THEN S ELSE IF opens THEN ResumeOpen(f[i - 1], list[i])
                                                ELSE ResumeInfo(f[i - 1], list[i])
            A == {k \in Nat : \E f : f = [i \in 0 .. k |-> After(f, i)]}
<1>1. 0 \in A
  <2>. DEFINE f == [i \in 0 .. 0 |-> S]
  <2>1. f = [i \in 0 .. 0 |-> After(f, i)]
    OBVIOUS
  <2>. QED BY <2>1
<1>2. ASSUME NEW k \in Nat, k \in A PROVE k + 1 \in A
  <2>1. PICK f : f = [i \in 0 .. k |-> After(f, i)]
    BY <1>2
  <2>. DEFINE g == [i \in 0 .. k + 1 |-> IF i = k + 1 THEN After(f, k + 1) ELSE f[i]]
  <2>2. ASSUME NEW i \in 0 .. k + 1 PROVE g[i] = After(g, i)
    <3>1. CASE i = 0
      BY <2>1, <3>1
    <3>2. CASE i # 0
      <4>1. i - 1 \in 0 .. k /\ i - 1 # k + 1
        BY <3>2
      <4>2. g[i - 1] = f[i - 1]
        BY <4>1
      <4>3. CASE i = k + 1
        BY <3>2, <4>2, <4>3
      <4>4. CASE i # k + 1
        <5>1. i \in 0 .. k /\ g[i] = f[i]
          BY <4>4
        <5>2. f[i] = After(f, i)
          BY <2>1, <5>1
        <5>. QED BY <3>2, <4>2, <5>1, <5>2
      <4>. QED BY <4>3, <4>4
    <3>. QED BY <3>1, <3>2
  <2>3. g = [i \in 0 .. k + 1 |-> After(g, i)]
    <3>1. g = [i \in 0 .. k + 1 |-> g[i]]
      OBVIOUS
    <3>. HIDE DEF g, After
    <3>. QED BY <2>2, <3>1
  <2>4. \E h : h = [i \in 0 .. k + 1 |-> After(h, i)]
    BY <2>3
  <2>. HIDE DEF g, After
  <2>. QED BY <2>4
<1>3. n \in A
  <2>. HIDE DEF A
  <2>1. \A k \in Nat : k \in A
    BY <1>1, <1>2, Induction
  <2>. QED BY <2>1
<1>. QED BY <1>3 DEF Loop

AllOpens(S, list) == ForEach(ResumeOpen, S, list)
AllInfos(S, list) == ForEach(ResumeInfo, S, list)

\* Resuming the waiting opens is resuming one after the other ...
LEMMA OpensOneByOne ==
    ASSUME NEW S, NEW list \in Seq(Docs)
    PROVE  \E after : /\ after[0] = S
                      /\ \A i \in 1 .. Len(list) : after[i] = ResumeOpen(after[i - 1], list[i])
                      /\ AllOpens(S, list) = after[Len(list)]
<1>. DEFINE After(f) == [i \in 0 .. Len(list) |->
                            IF i = 0 THEN S ELSE ResumeOpen(f[i - 1], list[i])]
            after == CHOOSE f : f = After(f)
<1>1. Len(list) \in Nat /\ \E f : f = After(f)
  <2>1. Len(list) \in Nat
    OBVIOUS
  <2>2. PICK f : f = Loop(f, S, list, Len(list), TRUE)
    BY <2>1, LoopIsThere
  <2>3. f = After(f)
    BY <2>2 DEF Loop
  <2>. QED BY <2>1, <2>3
<1>2. after = After(after)
  <2>. HIDE DEF After
  <2>. QED BY <1>1
<1>3. AllOpens(S, list) = after[Len(list)]
  BY DEF AllOpens, ForEach
<1>. HIDE DEF after
<1>4. after[0] = S /\ \A i \in 1 .. Len(list) : after[i] = ResumeOpen(after[i - 1], list[i])
  BY <1>1, <1>2
<1>. QED BY <1>3, <1>4

\* ... and likewise the file infos.
LEMMA InfosOneByOne ==
    ASSUME NEW S, NEW list \in Seq(Docs)
    PROVE  \E after : /\ after[0] = S
                      /\ \A i \in 1 .. Len(list) : after[i] = ResumeInfo(after[i - 1], list[i])
                      /\ AllInfos(S, list) = after[Len(list)]
<1>. DEFINE After(f) == [i \in 0 .. Len(list) |->
                            IF i = 0 THEN S ELSE ResumeInfo(f[i - 1], list[i])]
            after == CHOOSE f : f = After(f)
<1>1. Len(list) \in Nat /\ \E f : f = After(f)
  <2>1. Len(list) \in Nat
    OBVIOUS
  <2>2. PICK f : f = Loop(f, S, list, Len(list), FALSE)
    BY <2>1, LoopIsThere
  <2>3. f = After(f)
    BY <2>2 DEF Loop
  <2>. QED BY <2>1, <2>3
<1>2. after = After(after)
  <2>. HIDE DEF After
  <2>. QED BY <1>1
<1>3. AllInfos(S, list) = after[Len(list)]
  BY DEF AllInfos, ForEach
<1>. HIDE DEF after
<1>4. after[0] = S /\ \A i \in 1 .. Len(list) : after[i] = ResumeInfo(after[i - 1], list[i])
  BY <1>1, <1>2
<1>. QED BY <1>3, <1>4

\* One waiting open, one waiting file info
LEMMA ResumeOpenGood ==
    ASSUME NEW S, NEW d \in Docs, Good(S, 0, 0), S.load[d] = "wait"
    PROVE  Good(ResumeOpen(S, d), 0, 0) /\ Moved(S, ResumeOpen(S, d), {d}, {})
<1>1. CASE S.loadCancel[d]
  <2>1. "slot" \in S.closedIn
    BY <1>1 DEF Good, CancelledWaits
  <2>2. ResumeOpen(S, d) = openfile_done(S, d, "CANCELLED")
    BY <1>1 DEF ResumeOpen, openfile_done
  <2>. QED BY <2>1, <2>2, OpenDoneGood
<1>2. CASE ~ S.loadCancel[d]
  <2>1. S.status[d] = "loading"
    BY DEF Good, Staged
  <2>2. ResumeOpen(S, d) = PushOpen(S, d)
    BY <1>2 DEF ResumeOpen
  <2>. QED BY <2>1, <2>2, PushOpenGood
<1>. QED BY <1>1, <1>2

\* A file info that was cancelled while it waited took no slot and gives none back.
LEMMA ResumeInfoGood ==
    ASSUME NEW S, NEW d \in Docs, Good(S, 0, 0), S.info[d] = "wait"
    PROVE  Good(ResumeInfo(S, d), 0, 0) /\ Moved(S, ResumeInfo(S, d), {}, {d})
<1>1. CASE S.infoCancel[d]
  <2>1. ResumeInfo(S, d) = [S EXCEPT !.info[d] = "none"]
    BY <1>1 DEF ResumeInfo
  <2>. QED BY <2>1, InfoLeaveGood
<1>2. CASE ~ S.infoCancel[d]
  <2>1. S.status[d] # "new"
    BY DEF Good, Staged
  <2>2. ResumeInfo(S, d) = PushInfo(S, d)
    BY <1>2 DEF ResumeInfo
  <2>. QED BY <2>1, <2>2, PushInfoGood
<1>. QED BY <1>1, <1>2

\* Each job that waits is on its list, once.
Once(list) == \A i, k \in 1 .. Len(list) : list[i] = list[k] => i = k
On(list, k) == {list[i] : i \in 1 .. k}
OpensListed(S, list) ==
    Once(list) /\ \A d \in Docs : S.load[d] = "wait" <=> d \in On(list, Len(list))
InfosListed(S, list) ==
    Once(list) /\ \A d \in Docs : S.info[d] = "wait" <=> d \in On(list, Len(list))

\* The next job on a list is not among those before it.
LEMMA OnNext ==
    ASSUME NEW list \in Seq(Docs), NEW k \in Nat, k + 1 <= Len(list), Once(list)
    PROVE  /\ list[k + 1] \in Docs /\ list[k + 1] \in On(list, Len(list))
           /\ list[k + 1] \notin On(list, k)
           /\ On(list, k + 1) = On(list, k) \union {list[k + 1]}
<1>1. k + 1 \in 1 .. Len(list) /\ Len(list) \in Nat
  OBVIOUS
<1>2. \A i \in 1 .. k : i \in 1 .. Len(list) /\ i # k + 1
  BY <1>1
<1>3. 1 .. k + 1 = (1 .. k) \union {k + 1}
  OBVIOUS
<1>4. list[k + 1] \in Docs /\ list[k + 1] \in On(list, Len(list))
  BY <1>1 DEF On
<1>5. list[k + 1] \notin On(list, k)
  BY <1>1, <1>2 DEF On, Once
<1>6. On(list, k + 1) = On(list, k) \union {list[k + 1]}
  BY <1>3 DEF On
<1>. QED BY <1>4, <1>5, <1>6

\* After the whole list no open on it waits any more ...
LEMMA OpensResumed ==
    ASSUME NEW S, NEW list \in Seq(Docs), Good(S, 0, 0), OpensListed(S, list),
           NEW T, T = AllOpens(S, list)
    PROVE  Good(T, 0, 0) /\ Moved(S, T, On(list, Len(list)), {})
<1>1. PICK after : /\ after[0] = S
                   /\ \A i \in 1 .. Len(list) : after[i] = ResumeOpen(after[i - 1], list[i])
                   /\ T = after[Len(list)]
  BY OpensOneByOne
<1>. DEFINE Here(k) == Good(after[k], 0, 0) /\ Moved(S, after[k], On(list, k), {})
            A == {k \in Nat : k <= Len(list) => Here(k)}
<1>2. 0 \in A
  <2>1. On(list, 0) = {}
    BY DEF On
  <2>2. Moved(S, S, {}, {})
    BY DEF Moved
  <2>. QED BY <1>1, <2>1, <2>2
<1>3. ASSUME NEW k \in Nat, k \in A PROVE k + 1 \in A
  <2>. SUFFICES ASSUME k + 1 <= Len(list) PROVE Here(k + 1)
    OBVIOUS
  <2>. DEFINE d == list[k + 1]
              B == after[k]
              C == after[k + 1]
  <2>1. Len(list) \in Nat /\ Here(k)
    BY <1>3
  <2>2. C = ResumeOpen(B, d)
    <3>1. k + 1 \in 1 .. Len(list) /\ (k + 1) - 1 = k
      BY <2>1
    <3>2. after[k + 1] = ResumeOpen(after[(k + 1) - 1], list[k + 1])
      BY <1>1, <3>1
    <3>. QED BY <3>1, <3>2
  <2>3. d \in Docs /\ d \in On(list, Len(list)) /\ d \notin On(list, k)
    BY OnNext DEF OpensListed
  <2>4. On(list, k + 1) = On(list, k) \union {d}
    BY OnNext DEF OpensListed
  <2>. HIDE DEF d, C, B
  <2>5. Good(B, 0, 0) /\ Moved(S, B, On(list, k), {})
    BY <2>1 DEF B
  <2>6. B.load[d] = "wait"
    BY <2>3, <2>5 DEF OpensListed, Moved
  <2>7. Good(C, 0, 0) /\ Moved(B, C, {d}, {})
    BY <2>2, <2>3, <2>5, <2>6, ResumeOpenGood
  <2>8. Moved(S, C, On(list, k) \union {d}, {} \union {})
    BY <2>5, <2>7, MovedOn
  <2>9. {} \union {} = {}
    OBVIOUS
  <2>. QED BY <2>4, <2>7, <2>8, <2>9 DEF C
<1>4. Here(Len(list))
  <2>. HIDE DEF Here
  <2>1. \A k \in Nat : k \in A
    <3>. HIDE DEF A
    <3>. QED BY <1>2, <1>3, Induction
  <2>2. Len(list) \in Nat /\ Len(list) <= Len(list)
    OBVIOUS
  <2>. QED BY <2>1, <2>2
<1>. QED BY <1>1, <1>4

\* ... and no file info.
LEMMA InfosResumed ==
    ASSUME NEW S, NEW list \in Seq(Docs), Good(S, 0, 0), InfosListed(S, list),
           NEW T, T = AllInfos(S, list)
    PROVE  Good(T, 0, 0) /\ Moved(S, T, {}, On(list, Len(list)))
<1>1. PICK after : /\ after[0] = S
                   /\ \A i \in 1 .. Len(list) : after[i] = ResumeInfo(after[i - 1], list[i])
                   /\ T = after[Len(list)]
  BY InfosOneByOne
<1>. DEFINE Here(k) == Good(after[k], 0, 0) /\ Moved(S, after[k], {}, On(list, k))
            A == {k \in Nat : k <= Len(list) => Here(k)}
<1>2. 0 \in A
  <2>1. On(list, 0) = {}
    BY DEF On
  <2>2. Moved(S, S, {}, {})
    BY DEF Moved
  <2>. QED BY <1>1, <2>1, <2>2
<1>3. ASSUME NEW k \in Nat, k \in A PROVE k + 1 \in A
  <2>. SUFFICES ASSUME k + 1 <= Len(list) PROVE Here(k + 1)
    OBVIOUS
  <2>. DEFINE d == list[k + 1]
              B == after[k]
              C == after[k + 1]
  <2>1. Len(list) \in Nat /\ Here(k)
    BY <1>3
  <2>2. C = ResumeInfo(B, d)
    <3>1. k + 1 \in 1 .. Len(list) /\ (k + 1) - 1 = k
      BY <2>1
    <3>2. after[k + 1] = ResumeInfo(after[(k + 1) - 1], list[k + 1])
      BY <1>1, <3>1
    <3>. QED BY <3>1, <3>2
  <2>3. d \in Docs /\ d \in On(list, Len(list)) /\ d \notin On(list, k)
    BY OnNext DEF InfosListed
  <2>4. On(list, k + 1) = On(list, k) \union {d}
    BY OnNext DEF InfosListed
  <2>. HIDE DEF d, C, B
  <2>5. Good(B, 0, 0) /\ Moved(S, B, {}, On(list, k))
    BY <2>1 DEF B
  <2>6. B.info[d] = "wait"
    BY <2>3, <2>5 DEF InfosListed, Moved
  <2>7. Good(C, 0, 0) /\ Moved(B, C, {}, {d})
    BY <2>2, <2>3, <2>5, <2>6, ResumeInfoGood
  <2>8. Moved(S, C, {} \union {}, On(list, k) \union {d})
    BY <2>5, <2>7, MovedOn
  <2>9. {} \union {} = {}
    OBVIOUS
  <2>. QED BY <2>4, <2>7, <2>8, <2>9 DEF C
<1>4. Here(Len(list))
  <2>. HIDE DEF Here
  <2>1. \A k \in Nat : k \in A
    <3>. HIDE DEF A
    <3>. QED BY <1>2, <1>3, Induction
  <2>2. Len(list) \in Nat /\ Len(list) <= Len(list)
    OBVIOUS
  <2>. QED BY <2>1, <2>2
<1>. QED BY <1>1, <1>4

\* Good does not speak of the mount operation and of the lists.
LEMMA GoodElsewhere ==
    ASSUME NEW S, NEW T, NEW lo, NEW li, Good(S, lo, li), T \in Rec,
           T.status = S.status, T.load = S.load, T.info = S.info, T.loadCancel = S.loadCancel,
           T.closedIn = S.closedIn, T.ofqueue = S.ofqueue, T.fiqueue = S.fiqueue,
           T.incomplete = S.incomplete, T.unread = S.unread
    PROVE  Good(T, lo, li)
<1>1. Opens(T, lo) /\ Infos(T, li)
  BY DEF Good, Opens, Infos
<1>2. Incomplete(T) /\ Staged(T) /\ CancelledWaits(T)
  BY DEF Good, Incomplete, Staged, CancelledWaits
<1>. QED BY <1>1, <1>2 DEF Good

NoneMounts(S) == \A d \in Docs : S.load[d] # "mount" /\ S.info[d] # "mount"
NoneWaits(S) == \A d \in Docs : S.load[d] # "wait" /\ S.info[d] # "wait"

\* gmo = NULL; resume_after_wait_for_mount()
LEMMA MountEndsGood ==
    ASSUME NEW S, Good(S, 0, 0), NoneMounts(S),
           OpensListed(S, S.openWait), InfosListed(S, S.infoWait),
           NEW T, T = MountEnds(S)
    PROVE  /\ Good(T, 0, 0) /\ NoneMounts(T) /\ NoneWaits(T)
           /\ T.gmo = FALSE /\ T.openWait = <<>> /\ T.infoWait = <<>>
<1>. DEFINE A == [S EXCEPT !.gmo = FALSE]
            B == AllOpens(A, S.openWait)
            C == [B EXCEPT !.openWait = <<>>]
            D == AllInfos(C, S.infoWait)
<1>0. S \in Rec /\ S.openWait \in Seq(Docs) /\ S.infoWait \in Seq(Docs)
  BY DEF Good, Rec
<1>1. T = [D EXCEPT !.infoWait = <<>>]
  BY DEF MountEnds, AllOpens, AllInfos
<1>2. /\ A \in Rec /\ A.gmo = FALSE /\ A.openWait = S.openWait /\ A.infoWait = S.infoWait
      /\ A.status = S.status /\ A.load = S.load /\ A.info = S.info
      /\ A.loadCancel = S.loadCancel
      /\ A.closedIn = S.closedIn /\ A.ofqueue = S.ofqueue /\ A.fiqueue = S.fiqueue
      /\ A.incomplete = S.incomplete /\ A.unread = S.unread
  BY <1>0 DEF Rec
<1>. HIDE DEF A
<1>3. Good(A, 0, 0) /\ OpensListed(A, S.openWait) /\ InfosListed(A, S.infoWait) /\ NoneMounts(A)
  BY <1>2, GoodElsewhere DEF OpensListed, InfosListed, NoneMounts
<1>4. Good(B, 0, 0) /\ Moved(A, B, On(S.openWait, Len(S.openWait)), {})
  <2>. HIDE DEF B
  <2>. QED BY <1>0, <1>3, OpensResumed DEF B
<1>. HIDE DEF B
<1>5. /\ C \in Rec /\ C.gmo = B.gmo /\ C.openWait = <<>> /\ C.infoWait = B.infoWait
      /\ C.status = B.status /\ C.load = B.load /\ C.info = B.info
      /\ C.loadCancel = B.loadCancel
      /\ C.closedIn = B.closedIn /\ C.ofqueue = B.ofqueue /\ C.fiqueue = B.fiqueue
      /\ C.incomplete = B.incomplete /\ C.unread = B.unread
  <2>1. B \in Rec /\ <<>> \in Seq(Docs)
    BY <1>4 DEF Good
  <2>. QED BY <2>1 DEF Rec
<1>. HIDE DEF C
<1>6. Good(C, 0, 0)
  BY <1>4, <1>5, GoodElsewhere
<1>7. InfosListed(C, S.infoWait)
  BY <1>3, <1>4, <1>5 DEF InfosListed, Moved
<1>8. Good(D, 0, 0) /\ Moved(C, D, {}, On(S.infoWait, Len(S.infoWait)))
  <2>. HIDE DEF D
  <2>. QED BY <1>0, <1>6, <1>7, InfosResumed DEF D
<1>. HIDE DEF D
<1>9. /\ T \in Rec /\ T.gmo = D.gmo /\ T.openWait = D.openWait /\ T.infoWait = <<>>
      /\ T.status = D.status /\ T.load = D.load /\ T.info = D.info
      /\ T.loadCancel = D.loadCancel
      /\ T.closedIn = D.closedIn /\ T.ofqueue = D.ofqueue /\ T.fiqueue = D.fiqueue
      /\ T.incomplete = D.incomplete /\ T.unread = D.unread
  <2>1. D \in Rec /\ <<>> \in Seq(Docs)
    BY <1>8 DEF Good
  <2>. QED BY <1>1, <2>1 DEF Rec
<1>10. Good(T, 0, 0)
  BY <1>8, <1>9, GoodElsewhere
<1>11. T.gmo = FALSE /\ T.openWait = <<>> /\ T.infoWait = <<>>
  BY <1>2, <1>4, <1>5, <1>8, <1>9 DEF Moved
<1>12. ASSUME NEW d \in Docs
       PROVE  T.load[d] \notin {"mount", "wait"} /\ T.info[d] \notin {"mount", "wait"}
  <2>1. A.load[d] # "mount" /\ A.info[d] # "mount"
    BY <1>3 DEF NoneMounts
  <2>2. A.load[d] = "wait" => d \in On(S.openWait, Len(S.openWait))
    BY <1>3 DEF OpensListed
  <2>3. B.load[d] \notin {"mount", "wait"} /\ B.info[d] # "mount"
    BY <1>4, <2>1, <2>2 DEF Moved
  <2>4. C.info[d] = "wait" => d \in On(S.infoWait, Len(S.infoWait))
    BY <1>7 DEF InfosListed
  <2>5. D.load[d] \notin {"mount", "wait"} /\ D.info[d] \notin {"mount", "wait"}
    BY <1>5, <1>8, <2>3, <2>4 DEF Moved
  <2>. QED BY <1>9, <2>5
<1>. QED BY <1>10, <1>11, <1>12 DEF NoneMounts, NoneWaits

\* One mount operation at a time, known to gmo.
OneMount(S) ==
    /\ S.gmo <=> \E d \in Docs : S.load[d] = "mount" \/ S.info[d] = "mount"
    /\ \A d, e \in Docs :
        /\ S.load[d] = "mount" /\ S.load[e] = "mount" => d = e
        /\ S.info[d] = "mount" /\ S.info[e] = "mount" => d = e
        /\ ~ (S.load[d] = "mount" /\ S.info[e] = "mount")

\* What each action leaves
Sound(S) ==
    /\ Good(S, 0, 0) /\ OneMount(S)
    /\ OpensListed(S, S.openWait) /\ InfosListed(S, S.infoWait)
    /\ NoneWaits(S) \/ S.gmo

\* Become makes the state the record that it is given.
LEMMA BecomeIs ==
    ASSUME NEW S \in Rec, Become(S)
    PROVE  State' = S
<1>1. State' = [status |-> S.status, load |-> S.load, loadCancel |-> S.loadCancel,
          info |-> S.info,
          infoCancel |-> S.infoCancel, close_doc |-> S.close_doc, ofqueue |-> S.ofqueue,
          fiqueue |-> S.fiqueue, gmo |-> S.gmo, mounted |-> S.mounted,
          openWait |-> S.openWait, infoWait |-> S.infoWait,
          incomplete |-> S.incomplete, unread |-> S.unread, closedIn |-> S.closedIn]
  BY DEF Become, State
<1>. QED BY <1>1 DEF Rec

\* A step in which nobody begins or ceases to mount or to wait
LEMMA Undisturbed ==
    ASSUME NEW S, NEW T, Sound(S), Good(T, 0, 0), Moved(S, T, {}, {})
    PROVE  Sound(T)
<1>1. OneMount(T)
  BY DEF Sound, OneMount, Moved
<1>2. OpensListed(T, T.openWait) /\ InfosListed(T, T.infoWait)
  BY DEF Sound, OpensListed, InfosListed, Moved
<1>3. NoneWaits(T) \/ T.gmo
  BY DEF Sound, NoneWaits, Moved
<1>. QED BY <1>1, <1>2, <1>3 DEF Sound

\* A document that had no part in the mount does not disturb it when it moves on.
LEMMA NotThere ==
    ASSUME NEW S, NEW T, NEW d, NEW e, Moved(S, T, {d}, {e}),
           S.load[d] \notin {"mount", "wait"}, S.info[e] \notin {"mount", "wait"}
    PROVE  Moved(S, T, {}, {})
BY DEF Moved

\* The mount operation that d had has ended.
LEMMA EndedSound ==
    ASSUME NEW S, NEW A, NEW D, NEW E, Sound(S), Good(A, 0, 0), Moved(S, A, D, E),
           \A d \in Docs : S.load[d] = "mount" => d \in D,
           \A d \in Docs : S.info[d] = "mount" => d \in E,
           \A d \in D : S.load[d] # "wait", \A d \in E : S.info[d] # "wait"
    PROVE  Sound(MountEnds(A))
<1>1. NoneMounts(A)
  BY DEF NoneMounts, Moved
<1>2. OpensListed(A, A.openWait) /\ InfosListed(A, A.infoWait)
  BY DEF Sound, OpensListed, InfosListed, Moved
<1>. DEFINE T == MountEnds(A)
<1>3. /\ Good(T, 0, 0) /\ NoneMounts(T) /\ NoneWaits(T)
      /\ T.gmo = FALSE /\ T.openWait = <<>> /\ T.infoWait = <<>>
  BY <1>1, <1>2, MountEndsGood
<1>. HIDE DEF T
<1>4. OneMount(T)
  BY <1>3 DEF OneMount, NoneMounts
<1>5. OpensListed(T, T.openWait) /\ InfosListed(T, T.infoWait)
  BY <1>3 DEF OpensListed, InfosListed, NoneWaits, Once, On
<1>. QED BY <1>3, <1>4, <1>5 DEF Sound, T

\* file_doc_from_uri
LEMMA FromUriSound ==
    ASSUME NEW S, Sound(S), NEW d \in Docs, S.status[d] = "new"
    PROVE  Sound(PushInfo(PushOpen([S EXCEPT !.status[d] = "loading",
                                             !.incomplete = @ + 1], d), d))
<1>. DEFINE A == [S EXCEPT !.status[d] = "loading", !.incomplete = @ + 1]
            B == PushOpen(A, d)
            C == PushInfo(B, d)
<1>1. S \in Rec /\ Good(S, 0, 0)
  BY DEF Good, Sound
<1>2. S.load[d] = "none" /\ S.info[d] = "none"
  BY <1>1 DEF Good, Staged, Rec, Stages
<1>3. /\ A \in Rec
      /\ A.status = [S.status EXCEPT ![d] = "loading"] /\ A.incomplete = S.incomplete + 1
      /\ A.ofqueue = S.ofqueue /\ A.fiqueue = S.fiqueue /\ A.load = S.load /\ A.info = S.info
      /\ A.loadCancel = S.loadCancel /\ A.closedIn = S.closedIn /\ A.unread = S.unread
      /\ A.gmo = S.gmo /\ A.openWait = S.openWait /\ A.infoWait = S.infoWait
  <2>. DEFINE n == S.incomplete + 1
              st == [S.status EXCEPT ![d] = "loading"]
  <2>1. A = [S EXCEPT !.status = st, !.incomplete = n]
    BY <1>1 DEF Rec
  <2>2. n \in Int /\ st \in [Docs -> {"new", "loading", "complete", "error", "gone"}]
    BY <1>1 DEF Rec
  <2>. HIDE DEF n, st, A
  <2>3. A.status = st /\ A.incomplete = n
    BY <1>1, <2>1 DEF Rec
  <2>4. A \in Rec
    BY <1>1, <2>1, <2>2 DEF Rec
  <2>. QED BY <1>1, <2>1, <2>3, <2>4 DEF st, n, Rec
<1>. HIDE DEF A
<1>4. \A e \in Docs : A.status[e] = IF e = d THEN "loading" ELSE S.status[e]
  BY <1>1, <1>3 DEF Rec
<1>5. Incomplete(A)
  <2>. DEFINE before == In(S.status, {"loading"}) \union S.unread
              after == In(A.status, {"loading"}) \union A.unread
  <2>1. d \notin S.unread
    BY <1>1 DEF Good, Incomplete
  <2>2. after = before \union {d} /\ d \notin before /\ before \in SUBSET Docs
    BY <1>1, <1>3, <1>4, <2>1 DEF In, Rec
  <2>3. Cardinality(after) = Cardinality(before) + 1
    <3>. HIDE DEF before, after
    <3>. QED BY <2>2, DocsFinite, FS_AddElement
  <2>4. A.incomplete = Cardinality(after)
    BY <1>1, <1>3, <2>3 DEF Good, Incomplete
  <2>. QED BY <1>1, <1>3, <1>4, <2>1, <2>4 DEF Good, Incomplete
<1>6. Staged(A)
  BY <1>1, <1>2, <1>3, <1>4 DEF Good, Staged
<1>7. Good(A, 0, 0) /\ Moved(S, A, {}, {})
  BY <1>1, <1>3, <1>5, <1>6 DEF Good, Opens, Infos, CancelledWaits, Moved
<1>8. Good(B, 0, 0) /\ Moved(A, B, {d}, {})
  BY <1>2, <1>3, <1>4, <1>7, PushOpenGood
<1>9. B.status[d] = "loading" /\ B.info[d] = "none"
  <2>1. B.status = A.status /\ B.info = A.info
    BY <1>3 DEF PushOpen, RunOpens, Rec
  <2>. QED BY <1>2, <1>3, <1>4, <2>1
<1>. HIDE DEF B
<1>10. Good(C, 0, 0) /\ Moved(B, C, {}, {d})
  BY <1>8, <1>9, PushInfoGood
<1>. HIDE DEF C
<1>11. Moved(A, C, {d} \union {}, {} \union {d})
  BY <1>8, <1>10, MovedOn
<1>12. Moved(S, C, {} \union ({d} \union {}), {} \union ({} \union {d}))
  BY <1>7, <1>11, MovedOn
<1>13. {} \union ({d} \union {}) = {d} /\ {} \union ({} \union {d}) = {d}
  OBVIOUS
<1>14. Moved(S, C, {}, {})
  BY <1>2, <1>12, <1>13, NotThere
<1>15. Sound(C)
  BY <1>10, <1>14, Undisturbed
<1>. QED BY <1>15 DEF A, B, C

\* The end of an open, also of one that was mounting
LEMMA AsyncEndsSound ==
    ASSUME NEW S, Sound(S), NEW d \in Docs, NEW result \in {"FINISHED", "ERROR"}
    PROVE  /\ S.load[d] = "io" => Sound(openfile_done(S, d, result))
           /\ S.load[d] = "mount" => Sound(MountEnds(openfile_done(S, d, result)))
<1>. DEFINE T == openfile_done(S, d, result)
<1>1. ASSUME S.load[d] \in {"io", "mount"} PROVE Good(T, 0, 0) /\ Moved(S, T, {d}, {})
  BY <1>1, OpenDoneGood DEF Sound
<1>. HIDE DEF T
<1>2. CASE S.load[d] = "io"
  <2>1. Moved(S, T, {}, {})
    BY <1>1, <1>2 DEF Moved
  <2>. QED BY <1>1, <1>2, <2>1, Undisturbed DEF T
<1>3. CASE S.load[d] = "mount"
  <2>1. \A e \in Docs : S.load[e] = "mount" => e \in {d}
    BY <1>3 DEF Sound, OneMount
  <2>2. \A e \in Docs : S.info[e] # "mount"
    BY <1>3 DEF Sound, OneMount
  <2>3. Good(T, 0, 0) /\ Moved(S, T, {d}, {})
    BY <1>1, <1>3
  <2>4. Sound(MountEnds(T))
    BY <1>3, <2>1, <2>2, <2>3, EndedSound
  <2>. QED BY <1>3, <2>4 DEF T
<1>. QED BY <1>2, <1>3

\* An open begins to mount, or the mount succeeded and it is read.
LEMMA MountSound ==
    ASSUME NEW S, Sound(S), NEW d \in Docs
    PROVE  /\ S.load[d] = "io" /\ ~ S.gmo =>
                  LET A == [S EXCEPT !.load[d] = "mount", !.gmo = TRUE] IN A \in Rec /\ Sound(A)
           /\ S.load[d] = "mount" =>
                  Sound(MountEnds([S EXCEPT !.load[d] = "io", !.mounted = TRUE]))
           /\ S.info[d] = "io" /\ ~ S.gmo =>
                  LET A == [S EXCEPT !.info[d] = "mount", !.gmo = TRUE] IN A \in Rec /\ Sound(A)
           /\ S.info[d] = "mount" =>
                  Sound(MountEnds([S EXCEPT !.info[d] = "io", !.mounted = TRUE]))
<1>1. S \in Rec /\ Good(S, 0, 0)
  BY DEF Good, Sound
<1>2. ASSUME S.load[d] = "io", ~ S.gmo, NEW A, A = [S EXCEPT !.load[d] = "mount", !.gmo = TRUE]
      PROVE  A \in Rec /\ Sound(A)
  <2>1. /\ A \in Rec /\ A.load = [S.load EXCEPT ![d] = "mount"] /\ A.gmo = TRUE
        /\ A.ofqueue = S.ofqueue /\ A.status = S.status /\ A.info = S.info
        /\ A.loadCancel = S.loadCancel /\ A.closedIn = S.closedIn /\ A.fiqueue = S.fiqueue
        /\ A.incomplete = S.incomplete /\ A.unread = S.unread
        /\ A.openWait = S.openWait /\ A.infoWait = S.infoWait
    BY <1>1, <1>2 DEF Rec, Stages
  <2>2. \A e \in Docs : A.load[e] = IF e = d THEN "mount" ELSE S.load[e]
    BY <1>1, <2>1 DEF Rec
  <2>3. In(A.load, {"queued"}) = In(S.load, {"queued"}) /\
        In(A.load, {"io", "mount"}) = In(S.load, {"io", "mount"})
    BY <1>2, <2>2 DEF In
  <2>4. Opens(A, 0) /\ Infos(A, 0) /\ Incomplete(A)
    BY <1>1, <2>1, <2>3 DEF Good, Opens, Infos, Incomplete
  <2>5. Staged(A) /\ CancelledWaits(A)
    BY <1>1, <1>2, <2>1, <2>2 DEF Good, Staged, CancelledWaits
  <2>6. OneMount(A)
    BY <1>2, <2>1, <2>2 DEF Sound, OneMount
  <2>7. OpensListed(A, A.openWait) /\ InfosListed(A, A.infoWait)
    BY <1>2, <2>1, <2>2 DEF Sound, OpensListed, InfosListed
  <2>. QED BY <2>1, <2>4, <2>5, <2>6, <2>7 DEF Sound, Good
<1>3. ASSUME S.info[d] = "io", ~ S.gmo, NEW A, A = [S EXCEPT !.info[d] = "mount", !.gmo = TRUE]
      PROVE  A \in Rec /\ Sound(A)
  <2>1. /\ A \in Rec /\ A.info = [S.info EXCEPT ![d] = "mount"] /\ A.gmo = TRUE
        /\ A.ofqueue = S.ofqueue /\ A.status = S.status /\ A.load = S.load
        /\ A.loadCancel = S.loadCancel /\ A.closedIn = S.closedIn /\ A.fiqueue = S.fiqueue
        /\ A.incomplete = S.incomplete /\ A.unread = S.unread
        /\ A.openWait = S.openWait /\ A.infoWait = S.infoWait
    BY <1>1, <1>3 DEF Rec, InfoStages
  <2>2. \A e \in Docs : A.info[e] = IF e = d THEN "mount" ELSE S.info[e]
    BY <1>1, <2>1 DEF Rec
  <2>3. In(A.info, {"queued"}) = In(S.info, {"queued"}) /\
        In(A.info, {"io", "mount"}) = In(S.info, {"io", "mount"})
    BY <1>3, <2>2 DEF In
  <2>4. Opens(A, 0) /\ Infos(A, 0) /\ Incomplete(A)
    BY <1>1, <2>1, <2>3 DEF Good, Opens, Infos, Incomplete
  <2>5. Staged(A) /\ CancelledWaits(A)
    BY <1>1, <1>3, <2>1, <2>2 DEF Good, Staged, CancelledWaits
  <2>6. OneMount(A)
    BY <1>3, <2>1, <2>2 DEF Sound, OneMount
  <2>7. OpensListed(A, A.openWait) /\ InfosListed(A, A.infoWait)
    BY <1>3, <2>1, <2>2 DEF Sound, OpensListed, InfosListed
  <2>. QED BY <2>1, <2>4, <2>5, <2>6, <2>7 DEF Sound, Good
<1>4. ASSUME S.load[d] = "mount", NEW A, A = [S EXCEPT !.load[d] = "io", !.mounted = TRUE]
      PROVE  Sound(MountEnds(A))
  <2>1. /\ A \in Rec /\ A.load = [S.load EXCEPT ![d] = "io"] /\ A.gmo = S.gmo
        /\ A.ofqueue = S.ofqueue /\ A.status = S.status /\ A.info = S.info
        /\ A.loadCancel = S.loadCancel /\ A.closedIn = S.closedIn /\ A.fiqueue = S.fiqueue
        /\ A.incomplete = S.incomplete /\ A.unread = S.unread
        /\ A.openWait = S.openWait /\ A.infoWait = S.infoWait
    BY <1>1, <1>4 DEF Rec, Stages
  <2>2. \A e \in Docs : A.load[e] = IF e = d THEN "io" ELSE S.load[e]
    BY <1>1, <2>1 DEF Rec
  <2>3. In(A.load, {"queued"}) = In(S.load, {"queued"}) /\
        In(A.load, {"io", "mount"}) = In(S.load, {"io", "mount"})
    BY <1>4, <2>2 DEF In
  <2>4. Opens(A, 0) /\ Infos(A, 0) /\ Incomplete(A)
    BY <1>1, <2>1, <2>3 DEF Good, Opens, Infos, Incomplete
  <2>5. Staged(A) /\ CancelledWaits(A)
    BY <1>1, <1>4, <2>1, <2>2 DEF Good, Staged, CancelledWaits
  <2>6. Good(A, 0, 0)
    BY <2>1, <2>4, <2>5 DEF Good
  <2>7. Moved(S, A, {d}, {})
    BY <2>1, <2>2 DEF Moved
  <2>8. /\ \A e \in Docs : S.load[e] = "mount" => e \in {d}
        /\ \A e \in Docs : S.info[e] # "mount"
    BY <1>4 DEF Sound, OneMount
  <2>. QED BY <1>4, <2>6, <2>7, <2>8, EndedSound
<1>5. ASSUME S.info[d] = "mount", NEW A, A = [S EXCEPT !.info[d] = "io", !.mounted = TRUE]
      PROVE  Sound(MountEnds(A))
  <2>1. /\ A \in Rec /\ A.info = [S.info EXCEPT ![d] = "io"] /\ A.gmo = S.gmo
        /\ A.ofqueue = S.ofqueue /\ A.status = S.status /\ A.load = S.load
        /\ A.loadCancel = S.loadCancel /\ A.closedIn = S.closedIn /\ A.fiqueue = S.fiqueue
        /\ A.incomplete = S.incomplete /\ A.unread = S.unread
        /\ A.openWait = S.openWait /\ A.infoWait = S.infoWait
    BY <1>1, <1>5 DEF Rec, InfoStages
  <2>2. \A e \in Docs : A.info[e] = IF e = d THEN "io" ELSE S.info[e]
    BY <1>1, <2>1 DEF Rec
  <2>3. In(A.info, {"queued"}) = In(S.info, {"queued"}) /\
        In(A.info, {"io", "mount"}) = In(S.info, {"io", "mount"})
    BY <1>5, <2>2 DEF In
  <2>4. Opens(A, 0) /\ Infos(A, 0) /\ Incomplete(A)
    BY <1>1, <2>1, <2>3 DEF Good, Opens, Infos, Incomplete
  <2>5. Staged(A) /\ CancelledWaits(A)
    BY <1>1, <1>5, <2>1, <2>2 DEF Good, Staged, CancelledWaits
  <2>6. Good(A, 0, 0)
    BY <2>1, <2>4, <2>5 DEF Good
  <2>7. Moved(S, A, {}, {d})
    BY <2>1, <2>2 DEF Moved
  <2>8. /\ \A e \in Docs : S.info[e] = "mount" => e \in {d}
        /\ \A e \in Docs : S.load[e] # "mount"
    BY <1>5 DEF Sound, OneMount
  <2>. QED BY <1>5, <2>6, <2>7, <2>8, EndedSound
<1>. QED BY <1>2, <1>3, <1>4, <1>5

\* What is prepended to a list of waiting jobs
LEMMA OnPrepended ==
    ASSUME NEW list \in Seq(Docs), Once(list), NEW d \in Docs, d \notin On(list, Len(list)),
           NEW longer, longer = <<d>> \o list
    PROVE  longer \in Seq(Docs) /\ Once(longer)
           /\ On(longer, Len(longer)) = On(list, Len(list)) \union {d}
<1>1. /\ Len(list) \in Nat /\ longer \in Seq(Docs) /\ Len(longer) = Len(list) + 1
      /\ longer[1] = d /\ \A i \in 1 .. Len(list) : longer[i + 1] = list[i]
  OBVIOUS
<1>2. \A i \in 2 .. Len(longer) : i - 1 \in 1 .. Len(list) /\ longer[i] = list[i - 1]
  <2>. TAKE i \in 2 .. Len(longer)
  <2>1. i - 1 \in 1 .. Len(list) /\ (i - 1) + 1 = i
    BY <1>1
  <2>. QED BY <1>1, <2>1
<1>3. Once(longer)
  <2>. SUFFICES ASSUME NEW i \in 1 .. Len(longer), NEW k \in 1 .. Len(longer),
                       longer[i] = longer[k], i < k
                PROVE  FALSE
    BY <1>1 DEF Once
  <2>1. k \in 2 .. Len(longer)
    BY <1>1
  <2>2. CASE i = 1
    BY <1>1, <1>2, <2>1, <2>2 DEF On
  <2>3. CASE i # 1
    <3>1. i \in 2 .. Len(longer)
      BY <1>1, <2>3
    <3>2. /\ i - 1 \in 1 .. Len(list) /\ k - 1 \in 1 .. Len(list)
          /\ list[i - 1] = list[k - 1]
      BY <1>2, <2>1, <3>1
    <3>3. i - 1 = k - 1
      BY <3>2 DEF Once
    <3>. QED BY <1>1, <3>3
  <2>. QED BY <2>2, <2>3
<1>4. On(longer, Len(longer)) = On(list, Len(list)) \union {d}
  <2>1. ASSUME NEW i \in 1 .. Len(longer) PROVE longer[i] \in On(list, Len(list)) \union {d}
    <3>1. CASE i = 1
      BY <1>1, <3>1
    <3>2. CASE i # 1
      <4>1. i \in 2 .. Len(longer)
        BY <1>1, <3>2
      <4>. QED BY <1>2, <4>1 DEF On
    <3>. QED BY <3>1, <3>2
  <2>2. d \in On(longer, Len(longer))
    BY <1>1 DEF On
  <2>3. ASSUME NEW i \in 1 .. Len(list) PROVE list[i] \in On(longer, Len(longer))
    <3>1. i + 1 \in 1 .. Len(longer) /\ longer[i + 1] = list[i]
      BY <1>1
    <3>. QED BY <3>1 DEF On
  <2>. QED BY <2>1, <2>2, <2>3 DEF On
<1>. QED BY <1>1, <1>3, <1>4

\* A second mount has to wait for the first.
LEMMA WaitSound ==
    ASSUME NEW S, Sound(S), NEW d \in Docs, S.load[d] = "io", ~ S.loadCancel[d], S.gmo
    PROVE  Sound(openfile_cleanup([S EXCEPT !.load[d] = "wait", !.openWait = <<d>> \o @]))
<1>. DEFINE A == [S EXCEPT !.load[d] = "wait"]
            B == [S EXCEPT !.load[d] = "wait", !.openWait = <<d>> \o @]
            T == openfile_cleanup(B)
            list == <<d>> \o S.openWait
<1>1. S \in Rec /\ Good(S, 0, 0)
  BY DEF Good, Sound
<1>2. Good(A, 1, 0)
  BY <1>1, LeaveGood
<1>3. /\ A.load = [S.load EXCEPT ![d] = "wait"]
      /\ A.ofqueue = S.ofqueue /\ A.status = S.status /\ A.info = S.info /\ A.gmo = S.gmo
      /\ A.loadCancel = S.loadCancel /\ A.closedIn = S.closedIn /\ A.fiqueue = S.fiqueue
      /\ A.incomplete = S.incomplete /\ A.unread = S.unread
      /\ A.openWait = S.openWait /\ A.infoWait = S.infoWait
  BY <1>1 DEF Rec
<1>4. /\ S.openWait \in Seq(Docs) /\ Once(S.openWait)
      /\ d \notin On(S.openWait, Len(S.openWait))
  BY <1>1 DEF Rec, Sound, OpensListed
<1>5. /\ list \in Seq(Docs) /\ Once(list)
      /\ On(list, Len(list)) = On(S.openWait, Len(S.openWait)) \union {d}
  BY <1>4, OnPrepended
<1>6. B = [A EXCEPT !.openWait = list]
  BY <1>1 DEF Rec
<1>. HIDE DEF list, A
<1>7. /\ B \in Rec /\ B.openWait = list /\ B.infoWait = S.infoWait /\ B.gmo = S.gmo
      /\ B.status = A.status /\ B.load = A.load /\ B.info = A.info
      /\ B.loadCancel = A.loadCancel /\ B.closedIn = A.closedIn
      /\ B.ofqueue = A.ofqueue /\ B.fiqueue = A.fiqueue
      /\ B.incomplete = A.incomplete /\ B.unread = A.unread
  <2>1. A \in Rec
    BY <1>2 DEF Good
  <2>. HIDE DEF B
  <2>. QED BY <1>3, <1>5, <1>6, <2>1 DEF Rec
<1>. HIDE DEF B
<1>8. Good(B, 1, 0)
  BY <1>2, <1>7, GoodElsewhere
<1>9. Good(T, 0, 0) /\ Moved(B, T, {}, {})
  BY <1>8, CleanupGood
<1>. HIDE DEF T
<1>10. /\ \A e \in Docs : B.load[e] = IF e = d THEN "wait" ELSE S.load[e]
       /\ B.info = S.info
  BY <1>1, <1>3, <1>7 DEF Rec
<1>11. T.gmo = S.gmo /\ T.openWait = list /\ T.infoWait = S.infoWait
  BY <1>7, <1>9 DEF Moved
<1>12. \A e \in Docs : /\ T.load[e] = "mount" <=> S.load[e] = "mount"
                       /\ T.load[e] = "wait" <=> (e = d \/ S.load[e] = "wait")
                       /\ T.info[e] = "mount" <=> S.info[e] = "mount"
                       /\ T.info[e] = "wait" <=> S.info[e] = "wait"
  BY <1>9, <1>10 DEF Moved
<1>13. OneMount(T)
  BY <1>11, <1>12 DEF Sound, OneMount
<1>14. OpensListed(T, T.openWait)
  BY <1>5, <1>11, <1>12 DEF Sound, OpensListed
<1>15. InfosListed(T, T.infoWait)
  BY <1>11, <1>12 DEF Sound, InfosListed
<1>16. Sound(T)
  BY <1>9, <1>11, <1>13, <1>14, <1>15 DEF Sound
<1>. QED BY <1>16 DEF T, B

\* The same for a file info: its slot is given back while it waits.
LEMMA InfoWaitSound ==
    ASSUME NEW S, Sound(S), NEW d \in Docs, S.info[d] = "io", S.gmo
    PROVE  Sound(fiqueue_ready([S EXCEPT !.info[d] = "wait", !.infoWait = <<d>> \o @]))
<1>. DEFINE A == [S EXCEPT !.info[d] = "wait"]
            B == [S EXCEPT !.info[d] = "wait", !.infoWait = <<d>> \o @]
            T == fiqueue_ready(B)
            list == <<d>> \o S.infoWait
<1>1. S \in Rec /\ Good(S, 0, 0)
  BY DEF Good, Sound
<1>2. Good(A, 0, 1)
  BY <1>1, InfoLeaveGood
<1>3. /\ A.info = [S.info EXCEPT ![d] = "wait"]
      /\ A.ofqueue = S.ofqueue /\ A.status = S.status /\ A.load = S.load /\ A.gmo = S.gmo
      /\ A.loadCancel = S.loadCancel /\ A.closedIn = S.closedIn /\ A.fiqueue = S.fiqueue
      /\ A.incomplete = S.incomplete /\ A.unread = S.unread
      /\ A.openWait = S.openWait /\ A.infoWait = S.infoWait
  BY <1>1 DEF Rec
<1>4. /\ S.infoWait \in Seq(Docs) /\ Once(S.infoWait)
      /\ d \notin On(S.infoWait, Len(S.infoWait))
  BY <1>1 DEF Rec, Sound, InfosListed
<1>5. /\ list \in Seq(Docs) /\ Once(list)
      /\ On(list, Len(list)) = On(S.infoWait, Len(S.infoWait)) \union {d}
  BY <1>4, OnPrepended
<1>6. B = [A EXCEPT !.infoWait = list]
  BY <1>1 DEF Rec
<1>. HIDE DEF list, A
<1>7. /\ B \in Rec /\ B.infoWait = list /\ B.openWait = S.openWait /\ B.gmo = S.gmo
      /\ B.status = A.status /\ B.load = A.load /\ B.info = A.info
      /\ B.loadCancel = A.loadCancel /\ B.closedIn = A.closedIn
      /\ B.ofqueue = A.ofqueue /\ B.fiqueue = A.fiqueue
      /\ B.incomplete = A.incomplete /\ B.unread = A.unread
  <2>1. A \in Rec
    BY <1>2 DEF Good
  <2>. HIDE DEF B
  <2>. QED BY <1>3, <1>5, <1>6, <2>1 DEF Rec
<1>. HIDE DEF B
<1>8. Good(B, 0, 1)
  BY <1>2, <1>7, GoodElsewhere
<1>9. Good(T, 0, 0) /\ Moved(B, T, {}, {})
  BY <1>8, InfoReadyGood
<1>. HIDE DEF T
<1>10. /\ \A e \in Docs : B.info[e] = IF e = d THEN "wait" ELSE S.info[e]
       /\ B.load = S.load
  BY <1>1, <1>3, <1>7 DEF Rec
<1>11. T.gmo = S.gmo /\ T.infoWait = list /\ T.openWait = S.openWait
  BY <1>7, <1>9 DEF Moved
<1>12. \A e \in Docs : /\ T.info[e] = "mount" <=> S.info[e] = "mount"
                       /\ T.info[e] = "wait" <=> (e = d \/ S.info[e] = "wait")
                       /\ T.load[e] = "mount" <=> S.load[e] = "mount"
                       /\ T.load[e] = "wait" <=> S.load[e] = "wait"
  BY <1>9, <1>10 DEF Moved
<1>13. OneMount(T)
  BY <1>11, <1>12 DEF Sound, OneMount
<1>14. InfosListed(T, T.infoWait)
  BY <1>5, <1>11, <1>12 DEF Sound, InfosListed
<1>15. OpensListed(T, T.openWait)
  BY <1>11, <1>12 DEF Sound, OpensListed
<1>16. Sound(T)
  BY <1>9, <1>11, <1>13, <1>14, <1>15 DEF Sound
<1>. QED BY <1>16 DEF T, B

\* file2doc_finished_idle_lcb: the document is loading no more.
LEMMA FinishedGood ==
    ASSUME NEW S, Good(S, 0, 0), NEW d \in Docs, S.load[d] = "idle",
           NEW st \in {"complete", "error"}, NEW next \in {"none", "goto"},
           next = "goto" => st = "complete",
           NEW T, T = [[S EXCEPT !.incomplete = @ - 1] EXCEPT !.status[d] = st, !.load[d] = next]
    PROVE  Good(T, 0, 0) /\ Moved(S, T, {}, {})
<1>. DEFINE before == In(S.status, {"loading"}) \union S.unread
            after == In(T.status, {"loading"}) \union T.unread
            sts == [S.status EXCEPT ![d] = st]
            loads == [S.load EXCEPT ![d] = next]
            n == S.incomplete - 1
<1>1. S \in Rec /\ S.status[d] = "loading"
  BY DEF Good, Staged
<1>3. T = [S EXCEPT !.incomplete = n, !.status = sts, !.load = loads]
  BY <1>1 DEF Rec
<1>4. n \in Int /\ sts \in [Docs -> {"new", "loading", "complete", "error", "gone"}]
      /\ loads \in [Docs -> Stages]
  BY <1>1 DEF Rec, Stages
<1>. HIDE DEF n, sts, loads
<1>5. T \in Rec
  BY <1>1, <1>3, <1>4 DEF Rec
<1>6. /\ T.status = sts /\ T.load = loads /\ T.incomplete = n
      /\ T.ofqueue = S.ofqueue /\ T.fiqueue = S.fiqueue /\ T.info = S.info
      /\ T.loadCancel = S.loadCancel /\ T.closedIn = S.closedIn /\ T.unread = S.unread
      /\ T.gmo = S.gmo /\ T.openWait = S.openWait /\ T.infoWait = S.infoWait
  BY <1>1, <1>3 DEF Rec
<1>. USE DEF n
<1>7. \A e \in Docs : /\ T.status[e] = IF e = d THEN st ELSE S.status[e]
                      /\ T.load[e] = IF e = d THEN next ELSE S.load[e]
  BY <1>1, <1>6 DEF Rec, sts, loads
<1>8. In(T.load, {"queued"}) = In(S.load, {"queued"})
      /\ In(T.load, {"io", "mount"}) = In(S.load, {"io", "mount"})
  BY <1>7 DEF In
<1>9. Opens(T, 0) /\ Infos(T, 0)
  BY <1>6, <1>8 DEF Good, Opens, Infos
<1>10. Incomplete(T)
  <2>1. d \notin S.unread
    BY <1>1 DEF Good, Incomplete
  <2>2. after = before \ {d} /\ d \in before /\ before \in SUBSET Docs
    BY <1>1, <1>6, <1>7, <2>1 DEF In, Rec
  <2>3. Cardinality(after) = Cardinality(before) - 1
    <3>. HIDE DEF before, after
    <3>. QED BY <2>2, DocsFinite, FS_RemoveElement
  <2>4. T.incomplete = Cardinality(after)
    BY <1>6, <2>3 DEF Good, Incomplete
  <2>5. \A e \in T.unread : T.status[e] \in {"error", "gone"}
    BY <1>1, <1>6, <1>7, <2>1 DEF Good, Incomplete, Rec
  <2>. QED BY <2>4, <2>5 DEF Incomplete
<1>11. Staged(T)
  BY <1>1, <1>6, <1>7 DEF Good, Staged
<1>12. CancelledWaits(T)
  BY <1>6, <1>7 DEF Good, CancelledWaits
<1>13. Moved(S, T, {}, {})
  BY <1>6, <1>7 DEF Moved
<1>. QED BY <1>5, <1>9, <1>10, <1>11, <1>12, <1>13 DEF Good

\* file2doc_goto_idle_cb
LEMMA GotoGood ==
    ASSUME NEW S, Good(S, 0, 0), NEW d \in Docs, S.load[d] = "goto",
           NEW T, T = [S EXCEPT !.load[d] = "none"]
    PROVE  Good(T, 0, 0) /\ Moved(S, T, {}, {})
<1>1. S \in Rec
  BY DEF Good
<1>2. /\ T \in Rec /\ T.load = [S.load EXCEPT ![d] = "none"]
      /\ T.status = S.status /\ T.incomplete = S.incomplete
      /\ T.ofqueue = S.ofqueue /\ T.fiqueue = S.fiqueue /\ T.info = S.info
      /\ T.loadCancel = S.loadCancel /\ T.closedIn = S.closedIn /\ T.unread = S.unread
      /\ T.gmo = S.gmo /\ T.openWait = S.openWait /\ T.infoWait = S.infoWait
  BY <1>1 DEF Rec, Stages
<1>3. \A e \in Docs : T.load[e] = IF e = d THEN "none" ELSE S.load[e]
  BY <1>1, <1>2 DEF Rec
<1>4. In(T.load, {"queued"}) = In(S.load, {"queued"})
      /\ In(T.load, {"io", "mount"}) = In(S.load, {"io", "mount"})
  BY <1>3 DEF In
<1>5. Opens(T, 0) /\ Infos(T, 0) /\ Incomplete(T)
  BY <1>2, <1>4 DEF Good, Opens, Infos, Incomplete
<1>6. Staged(T) /\ CancelledWaits(T)
  BY <1>2, <1>3 DEF Good, Staged, CancelledWaits
<1>7. Moved(S, T, {}, {})
  BY <1>2, <1>3 DEF Moved
<1>. QED BY <1>2, <1>5, <1>6, <1>7 DEF Good

\* The mount for a file info failed, or was cancelled.
LEMMA InfoMountFailsSound ==
    ASSUME NEW S, Sound(S), NEW d \in Docs, S.info[d] = "mount"
    PROVE  Sound(MountEnds(fiqueue_ready([S EXCEPT !.info[d] = "none"])))
<1>. DEFINE U == [S EXCEPT !.info[d] = "none"]
            A == fiqueue_ready(U)
<1>1. Good(U, 0, 1) /\ Moved(S, U, {}, {d})
  BY InfoLeaveGood DEF Sound
<1>. HIDE DEF U
<1>2. Good(A, 0, 0) /\ Moved(U, A, {}, {})
  BY <1>1, InfoReadyGood
<1>. HIDE DEF A
<1>3. Moved(S, A, {} \union {}, {d} \union {})
  BY <1>1, <1>2, MovedOn
<1>4. {} \union {} = {} /\ {d} \union {} = {d}
  OBVIOUS
<1>5. /\ \A e \in Docs : S.info[e] = "mount" => e \in {d}
      /\ \A e \in Docs : S.load[e] # "mount"
  BY DEF Sound, OneMount
<1>6. Moved(S, A, {}, {d})
  BY <1>3, <1>4
<1>7. Sound(MountEnds(A))
  BY <1>2, <1>5, <1>6, EndedSound
<1>. QED BY <1>7 DEF A, U

\* The start of the program
LEMMA InitSound == ASSUME OpenInit PROVE Sound(State)
<1>. DEFINE S == State
<1>1. /\ S \in Rec
      /\ \A d \in Docs : /\ S.status[d] = "new" /\ S.load[d] = "none" /\ S.info[d] = "none"
      /\ S.ofqueue = EmptyQueue /\ S.fiqueue = EmptyQueue /\ S.gmo = FALSE
      /\ S.openWait = <<>> /\ S.infoWait = <<>> /\ S.incomplete = 0 /\ S.unread = {}
      /\ S.closedIn = {}
  <2>1. EmptyQueue \in Queue(Docs)
    BY EmptyQueueFacts
  <2>2. <<>> \in Seq(Docs)
    OBVIOUS
  <2>3. /\ doc_status \in [Docs -> {"new", "loading", "complete", "error", "gone"}]
        /\ load \in [Docs -> Stages] /\ info \in [Docs -> InfoStages]
        /\ loadCancel \in [Docs -> BOOLEAN] /\ infoCancel \in [Docs -> BOOLEAN]
        /\ close_doc \in [Docs -> BOOLEAN]
    BY DEF OpenInit, Stages, InfoStages
  <2>4. unread \in SUBSET Docs /\ closedIn \in SUBSET CloseSituations
    BY DEF OpenInit
  <2>5. ofqueue \in Queue(Docs) /\ fiqueue \in Queue(Docs)
    BY <2>1 DEF OpenInit
  <2>6. openfile_wait_for_mount \in Seq(Docs) /\ fileinfo_wait_for_mount \in Seq(Docs)
    BY <2>2 DEF OpenInit
  <2>7. gmo \in BOOLEAN /\ mounted \in BOOLEAN
    BY DEF OpenInit
  <2>9. num_docs_not_completed \in Int
    BY DEF OpenInit
  <2>8. S \in Rec
    BY <2>3, <2>4, <2>5, <2>6, <2>7, <2>9 DEF State, Rec
  <2>. QED BY <2>8 DEF OpenInit, State
<1>. HIDE DEF S
<1>2. In(S.load, {"queued"}) = {} /\ In(S.load, {"io", "mount"}) = {}
      /\ In(S.info, {"queued"}) = {} /\ In(S.info, {"io", "mount"}) = {}
  BY <1>1 DEF In
<1>3. Opens(S, 0) /\ Infos(S, 0)
  BY <1>1, <1>2, EmptyLine DEF Opens, Infos
<1>4. Incomplete(S)
  <2>1. In(S.status, {"loading"}) \union S.unread = {}
    BY <1>1 DEF In
  <2>. QED BY <1>1, <2>1, FS_EmptySet DEF Incomplete
<1>5. Staged(S) /\ CancelledWaits(S) /\ OneMount(S) /\ NoneWaits(S)
  BY <1>1 DEF Staged, CancelledWaits, OneMount, NoneWaits
<1>6. OpensListed(S, S.openWait) /\ InfosListed(S, S.infoWait)
  BY <1>1 DEF OpensListed, InfosListed, Once, On
<1>. QED BY <1>1, <1>3, <1>4, <1>5, <1>6 DEF Sound, Good, S

\* What an action makes of the state decides whether it is sound.
LEMMA BecomeSound == ASSUME NEW S, Sound(S), Become(S) PROVE Sound(State')
BY BecomeIs DEF Sound, Good

\* The callbacks of a load, one action after the other
LEMMA CallbackSound ==
    ASSUME Sound(State), NEW d \in Docs, LoadCallback(d)
    PROVE  Sound(State')
<1>. DEFINE S == State
<1>1. /\ S.load = load /\ S.loadCancel = loadCancel /\ S.gmo = gmo /\ Good(S, 0, 0)
  BY DEF State, Sound
<1>2. CASE OpenfileAsync(d)
  <2>1. S.load[d] = "io"
    BY <1>1, <1>2 DEF OpenfileAsync
  <2>2. CASE Become(openfile_done(State, d, "ERROR"))
    BY <2>1, <2>2, AsyncEndsSound, BecomeSound
  <2>3. CASE Become(openfile_done(State, d, "FINISHED"))
    BY <2>1, <2>3, AsyncEndsSound, BecomeSound
  <2>4. CASE ~gmo /\ Become([State EXCEPT !.load[d] = "mount", !.gmo = TRUE])
    BY <1>1, <2>1, <2>4, MountSound, BecomeSound
  <2>5. CASE /\ ~loadCancel[d] /\ gmo
             /\ Become(openfile_cleanup([State EXCEPT !.load[d] = "wait", !.openWait = <<d>> \o @]))
    <3>1. Sound(openfile_cleanup([State EXCEPT !.load[d] = "wait", !.openWait = <<d>> \o @]))
      BY <1>1, <2>1, <2>5, WaitSound
    <3>. QED BY <2>5, <3>1, BecomeSound
  <2>. QED BY <1>2, <2>2, <2>3, <2>4, <2>5 DEF OpenfileAsync
<1>3. CASE OpenfileAsyncMount(d)
  <2>1. S.load[d] = "mount"
    BY <1>1, <1>3 DEF OpenfileAsyncMount
  <2>2. CASE Become(MountEnds([State EXCEPT !.load[d] = "io", !.mounted = TRUE]))
    BY <2>1, <2>2, MountSound, BecomeSound
  <2>3. CASE Become(MountEnds(openfile_done(State, d, "ERROR")))
    BY <2>1, <2>3, AsyncEndsSound, BecomeSound
  <2>. QED BY <1>3, <2>2, <2>3 DEF OpenfileAsyncMount
<1>4. CASE File2docFinishedIdle(d)
  <2>. DEFINE done == [State EXCEPT !.incomplete = @ - 1]
              refused == [done EXCEPT !.status[d] = "error", !.load[d] = "none"]
  <2>1. S.load[d] = "idle"
    BY <1>1, <1>4 DEF File2docFinishedIdle
  <2>2. ASSUME NEW next \in {"none", "goto"},
               Become([done EXCEPT !.status[d] = "complete", !.load[d] = next])
        PROVE  Sound(State')
    <3>. DEFINE T == [done EXCEPT !.status[d] = "complete", !.load[d] = next]
    <3>0. T = [[S EXCEPT !.incomplete = @ - 1] EXCEPT !.status[d] = "complete", !.load[d] = next]
      OBVIOUS
    <3>. HIDE DEF T, S
    <3>1. Good(T, 0, 0) /\ Moved(S, T, {}, {})
      BY <1>1, <2>1, <3>0, FinishedGood
    <3>. USE DEF S
    <3>2. Sound(T)
      BY <3>1, Undisturbed
    <3>. QED BY <2>2, <3>2, BecomeSound DEF T
  <2>3. CASE Become(doc_close_single_backend(refused, d))
    <3>0. refused = [[S EXCEPT !.incomplete = @ - 1] EXCEPT !.status[d] = "error", !.load[d] = "none"]
      OBVIOUS
    <3>. HIDE DEF refused, S
    <3>1. Good(refused, 0, 0) /\ Moved(S, refused, {}, {})
      BY <1>1, <2>1, <3>0, FinishedGood
    <3>. USE DEF S
    <3>2. Sound(refused)
      BY <3>1, Undisturbed
    <3>3. Sound(doc_close_single_backend(refused, d))
      BY <3>1, <3>2, CloseGood, Undisturbed
    <3>. QED BY <2>3, <3>3, BecomeSound
  <2>. QED BY <1>4, <2>2, <2>3 DEF File2docFinishedIdle
<1>5. CASE File2docGotoIdle(d)
  <2>. DEFINE T == [State EXCEPT !.load[d] = "none"]
  <2>1. S.load[d] = "goto" /\ Become(T)
    BY <1>1, <1>5 DEF File2docGotoIdle
  <2>2. Good(T, 0, 0) /\ Moved(S, T, {}, {})
    BY <1>1, <2>1, GotoGood
  <2>. HIDE DEF T
  <2>3. Sound(T)
    BY <2>2, Undisturbed
  <2>. QED BY <2>1, <2>3, BecomeSound
<1>. QED BY <1>2, <1>3, <1>4, <1>5 DEF LoadCallback

\* The callbacks of a file info
LEMMA InfoCallbackSound ==
    ASSUME Sound(State), NEW d \in Docs, InfoCallback(d)
    PROVE  Sound(State')
<1>. DEFINE S == State
<1>1. S.info = info /\ S.gmo = gmo /\ Good(S, 0, 0)
  BY DEF State, Sound
<1>2. CASE FillFileinfo(d)
  <2>1. S.info[d] = "io"
    BY <1>1, <1>2 DEF FillFileinfo
  <2>2. CASE Become(fill_fileinfo_done(State, d))
    <3>. DEFINE T == fill_fileinfo_done(State, d)
    <3>1. Good(T, 0, 0) /\ Moved(S, T, {}, {d})
      BY <1>1, <2>1, InfoDoneGood
    <3>. HIDE DEF T
    <3>2. Moved(S, T, {}, {})
      BY <2>1, <3>1 DEF Moved
    <3>3. Sound(T)
      BY <3>1, <3>2, Undisturbed
    <3>. QED BY <2>2, <3>3, BecomeSound DEF T
  <2>3. CASE ~gmo /\ Become([State EXCEPT !.info[d] = "mount", !.gmo = TRUE])
    BY <1>1, <2>1, <2>3, MountSound, BecomeSound
  <2>4. CASE /\ gmo
             /\ Become(fiqueue_ready([State EXCEPT !.info[d] = "wait", !.infoWait = <<d>> \o @]))
    <3>1. Sound(fiqueue_ready([State EXCEPT !.info[d] = "wait", !.infoWait = <<d>> \o @]))
      BY <1>1, <2>1, <2>4, InfoWaitSound
    <3>. QED BY <2>4, <3>1, BecomeSound
  <2>. QED BY <1>2, <2>2, <2>3, <2>4 DEF FillFileinfo
<1>3. CASE FillFileinfoMount(d)
  <2>1. S.info[d] = "mount"
    BY <1>1, <1>3 DEF FillFileinfoMount
  <2>2. CASE Become(MountEnds([State EXCEPT !.info[d] = "io", !.mounted = TRUE]))
    BY <2>1, <2>2, MountSound, BecomeSound
  <2>3. CASE Become(MountEnds(fiqueue_ready([State EXCEPT !.info[d] = "none"])))
    BY <2>1, <2>3, InfoMountFailsSound, BecomeSound
  <2>. QED BY <1>3, <2>2, <2>3 DEF FillFileinfoMount
<1>. QED BY <1>2, <1>3 DEF InfoCallback

\* Every action
LEMMA NextSound == ASSUME Sound(State), OpenNext PROVE Sound(State')
<1>1. PICK d \in Docs : DocFromUri(d) \/ LoadCallback(d) \/ InfoCallback(d) \/ CloseDocument(d)
  BY DEF OpenNext
<1>2. CASE DocFromUri(d)
  <2>1. State.status[d] = "new"
    BY <1>2 DEF DocFromUri, State
  <2>2. Sound(PushInfo(PushOpen([State EXCEPT !.status[d] = "loading", !.incomplete = @ + 1], d), d))
    BY <2>1, FromUriSound
  <2>. QED BY <1>2, <2>2, BecomeSound DEF DocFromUri
<1>3. CASE CloseDocument(d)
  <2>. DEFINE T == doc_close_single_backend(State, d)
  <2>1. Good(T, 0, 0) /\ Moved(State, T, {}, {})
    BY CloseGood DEF Sound
  <2>. HIDE DEF T
  <2>2. Sound(T)
    BY <2>1, Undisturbed
  <2>. QED BY <1>3, <2>2, BecomeSound DEF CloseDocument, T
<1>. QED BY <1>1, <1>2, <1>3, CallbackSound, InfoCallbackSound

\* The queues, the counts, the mount operation and the lists agree between any two callbacks.
THEOREM SpecSound == OpenSpec => []Sound(State)
<1>1. OpenInit => Sound(State)
  BY InitSound
<1>2. Sound(State) /\ [OpenNext]_openVars => Sound(State)'
  <2>1. UNCHANGED openVars => State' = State
    BY DEF openVars, State
  <2>2. Sound(State') <=> Sound(State)'
    OBVIOUS
  <2>. QED BY <2>1, <2>2, NextSound
<1>. QED BY <1>1, <1>2, PTL DEF OpenSpec

\* The length of a list of waiting jobs
LEMMA ListCounted ==
    ASSUME NEW list \in Seq(Docs), Once(list)
    PROVE  Cardinality(On(list, Len(list))) = Len(list)
<1>. DEFINE Q == [q |-> list, worknum |-> 0]
<1>1. Q \in Queue(Docs) /\ Injective(Q)
  BY WordSizeAssumption, MaxWorknumAssumption DEF Queue, Injective, Once
<1>2. Cardinality({Q.q[i] : i \in 1 .. Len(Q.q)}) = Len(Q.q)
  BY <1>1, ItemsCounted
<1>. QED BY <1>2 DEF On

\* The slots and the window's counter are right in every reachable state.
THEOREM SpecSlots == OpenSpec => []Slots
<1>1. ASSUME Sound(State) PROVE Slots
  <2>. DEFINE S == State
  <2>1. Good(S, 0, 0) /\ S \in Rec
    BY <1>1 DEF Sound, Good
  <2>2. /\ S.status = doc_status /\ S.load = load /\ S.info = info
        /\ S.ofqueue = ofqueue /\ S.fiqueue = fiqueue /\ S.closedIn = closedIn
        /\ S.incomplete = num_docs_not_completed /\ S.unread = unread
    BY DEF State
  <2>3. num_docs_not_completed = Cardinality({d \in Docs : doc_status[d] = "loading"} \union unread)
    <3>1. In(doc_status, {"loading"}) = {d \in Docs : doc_status[d] = "loading"}
      BY DEF In
    <3>. QED BY <2>1, <2>2, <3>1 DEF Good, Incomplete
  <2>4. num_docs_not_completed \in Nat
    <3>1. {d \in Docs : doc_status[d] = "loading"} \union unread \in SUBSET Docs
      BY <2>1, <2>2 DEF Rec
    <3>. QED BY <2>3, <3>1, DocsFinite
  <2>5. OpenSlotsMatch
    <3>1. In(load, {"io", "mount"}) = LoadIn({"io", "mount"})
      BY DEF In, LoadIn
    <3>2. Cardinality(LoadIn({"io", "mount"})) \in Nat
      BY DocsFinite DEF LoadIn
    <3>. QED BY <2>1, <2>2, <3>1, <3>2 DEF Good, Opens, Line, OpenSlotsMatch
  <2>6. InfoSlotsMatch
    <3>1. In(info, {"io", "mount"}) = InfoIn({"io", "mount"})
      BY DEF In, InfoIn
    <3>2. Cardinality(InfoIn({"io", "mount"})) \in Nat
      BY DocsFinite DEF InfoIn
    <3>. QED BY <2>1, <2>2, <3>1, <3>2 DEF Good, Infos, Line, InfoSlotsMatch
  <2>7. OpenTypeOK
    <3>1. ofqueue \in DocQueue /\ fiqueue \in DocQueue
      BY <2>1, <2>2 DEF Rec, Queue, DocQueue
    <3>2. /\ doc_status \in [Docs -> {"new", "loading", "complete", "error", "gone"}]
          /\ load \in [Docs -> Stages] /\ info \in [Docs -> InfoStages]
          /\ loadCancel \in [Docs -> BOOLEAN] /\ infoCancel \in [Docs -> BOOLEAN]
          /\ close_doc \in [Docs -> BOOLEAN]
      BY <2>1 DEF Rec, State
    <3>3. /\ openfile_wait_for_mount \in Seq(Docs) /\ fileinfo_wait_for_mount \in Seq(Docs)
          /\ unread \in SUBSET Docs /\ closedIn \in SUBSET CloseSituations
      BY <2>1 DEF Rec, State
    <3>4. gmo \in BOOLEAN
      <4>1. S.gmo \in BOOLEAN
        BY <2>1 DEF Rec
      <4>. QED BY <4>1 DEF State
    <3>5. mounted \in BOOLEAN
      <4>1. S.mounted \in BOOLEAN
        BY <2>1 DEF Rec
      <4>. QED BY <4>1 DEF State
    <3>. QED BY <2>4, <3>1, <3>2, <3>3, <3>4, <3>5 DEF OpenTypeOK
  <2>. QED BY <2>3, <2>5, <2>6, <2>7 DEF Slots, IncompleteCounted
<1>. QED BY <1>1, SpecSound, PTL

\* Who waits for the volume waits for the one mount operation, whose end will resume it.
THEOREM SpecMounting == OpenSpec => []Mounting
<1>1. ASSUME Sound(State) PROVE Mounting
  <2>. DEFINE S == State
              loads == LoadIn({"mount"})
              infos == InfoIn({"mount"})
  <2>1. Good(S, 0, 0) /\ S \in Rec
    BY <1>1 DEF Sound, Good
  <2>2. /\ S.load = load /\ S.info = info /\ S.gmo = gmo
        /\ S.openWait = openfile_wait_for_mount /\ S.infoWait = fileinfo_wait_for_mount
    BY DEF State
  <2>3. gmo <=> \E d \in Docs : load[d] = "mount" \/ info[d] = "mount"
    BY <1>1, <2>2 DEF Sound, OneMount
  <2>4. \A d, e \in Docs :
            /\ load[d] = "mount" /\ load[e] = "mount" => d = e
            /\ info[d] = "mount" /\ info[e] = "mount" => d = e
            /\ ~ (load[d] = "mount" /\ info[e] = "mount")
    BY <1>1, <2>2 DEF Sound, OneMount
  <2>5. Cardinality(loads) + Cardinality(infos) = IF gmo THEN 1 ELSE 0
    <3>1. CASE \E d \in Docs : load[d] = "mount"
      <4>1. PICK d \in Docs : load[d] = "mount"
        BY <3>1
      <4>2. loads = {d} /\ infos = {}
        BY <2>4, <4>1 DEF LoadIn, InfoIn
      <4>3. gmo
        BY <2>3, <3>1
      <4>4. Cardinality({d}) = 1 /\ Cardinality({}) = 0
        BY FS_Singleton, FS_EmptySet
      <4>. QED BY <4>2, <4>3, <4>4
    <3>2. CASE \E d \in Docs : info[d] = "mount"
      <4>1. PICK d \in Docs : info[d] = "mount"
        BY <3>2
      <4>2. infos = {d} /\ loads = {}
        BY <2>4, <4>1 DEF LoadIn, InfoIn
      <4>3. gmo
        BY <2>3, <3>2
      <4>4. Cardinality({d}) = 1 /\ Cardinality({}) = 0
        BY FS_Singleton, FS_EmptySet
      <4>. QED BY <4>2, <4>3, <4>4
    <3>3. CASE \A d \in Docs : load[d] # "mount" /\ info[d] # "mount"
      <4>1. infos = {} /\ loads = {}
        BY <3>3 DEF LoadIn, InfoIn
      <4>2. ~gmo
        BY <2>3, <3>3
      <4>. QED BY <4>1, <4>2, FS_EmptySet
    <3>. QED BY <3>1, <3>2, <3>3
  <2>6. LoadIn({"wait"}) # {} \/ InfoIn({"wait"}) # {} => gmo
    BY <1>1, <2>2 DEF Sound, NoneWaits, LoadIn, InfoIn
  <2>7. /\ openfile_wait_for_mount \in Seq(Docs) /\ fileinfo_wait_for_mount \in Seq(Docs)
        /\ Once(openfile_wait_for_mount) /\ Once(fileinfo_wait_for_mount)
    BY <1>1, <2>1, <2>2 DEF Sound, OpensListed, InfosListed, Rec
  <2>8. \A d \in Docs : load[d] = "wait" <=>
            d \in On(openfile_wait_for_mount, Len(openfile_wait_for_mount))
    BY <1>1, <2>2 DEF Sound, OpensListed
  <2>9. \A d \in Docs : info[d] = "wait" <=>
            d \in On(fileinfo_wait_for_mount, Len(fileinfo_wait_for_mount))
    BY <1>1, <2>2 DEF Sound, InfosListed
  <2>10. DOMAIN openfile_wait_for_mount = 1 .. Len(openfile_wait_for_mount)
         /\ DOMAIN fileinfo_wait_for_mount = 1 .. Len(fileinfo_wait_for_mount)
    BY <2>7
  <2>11. On(openfile_wait_for_mount, Len(openfile_wait_for_mount)) = LoadIn({"wait"})
    BY <2>7, <2>8 DEF LoadIn, On
  <2>12. On(fileinfo_wait_for_mount, Len(fileinfo_wait_for_mount)) = InfoIn({"wait"})
    BY <2>7, <2>9 DEF InfoIn, On
  <2>13. Len(openfile_wait_for_mount) = Cardinality(LoadIn({"wait"}))
         /\ Len(fileinfo_wait_for_mount) = Cardinality(InfoIn({"wait"}))
    BY <2>7, <2>11, <2>12, ListCounted
  <2>14. \A d \in Docs : load[d] = "wait" <=> \E i \in DOMAIN openfile_wait_for_mount :
                                                 openfile_wait_for_mount[i] = d
    BY <2>8, <2>10 DEF On
  <2>15. \A d \in Docs : info[d] = "wait" <=> \E i \in DOMAIN fileinfo_wait_for_mount :
                                                 fileinfo_wait_for_mount[i] = d
    BY <2>9, <2>10 DEF On
  <2>16. WaitersListed
    BY <2>13, <2>14, <2>15 DEF WaitersListed
  <2>17. OneMountOperation
    BY <2>5, <2>6 DEF OneMountOperation
  <2>. QED BY <2>16, <2>17 DEF Mounting
<1>. QED BY <1>1, SpecSound, PTL

-----------------------------------------------------------------------------
(* Sync.  Each path is walked or copied once (OncePerPath), so that a      *)
(* reference that is taken is that of a new holder, and the slots of the   *)
(* three queues are those of the jobs (Queued, with AsyncQueueProofs once  *)
(* for each limit).  Then, on that, what the walks make of the target      *)
(* (MInv): a synchronisation that says it is complete left the target as   *)
(* the source is, and nothing went from it that the source has.            *)

Add == [what : {"walk", "update"}, path : Paths, read : Nat]

SyncTypes ==
    /\ source \in [Paths -> {"none", "file", "dir"}]
    /\ target \in [Paths -> {"none", "old", "alike", "file", "dir"}]
    /\ mount \in {"none", "mounting", "done"}
    /\ refcount \in Nat /\ unref \in Nat \union {None}
    /\ walk \in [Paths -> WalkStages] /\ update \in [Paths -> UpdateStages]
    /\ todo \in [Paths -> SUBSET Paths] /\ localnames \in [Paths -> SUBSET Paths]
    /\ \A p \in Paths : todo[p] \subseteq Entries(p) /\ localnames[p] \subseteq Entries(p)
    /\ adding \in [Paths -> {NoAdd} \union Add]
    /\ met \subseteq Situations

LocalWaits == {p \in Paths : walk[p] = "queued"}
LocalWorks == {p \in Paths : walk[p] \in {"open", "read", "finish"}}
RemoteWaits == {p \in Paths : walk[p] = "rqueued"}
RemoteWorks == {p \in Paths : walk[p] \in {"ropen", "rread", "rfinish"}}
UpdateWaits == {p \in Paths : update[p] = "queued"}
UpdateWorks == {p \in Paths : update[p] = "copy"}

\* Nothing begins before the target is mounted.
NotBegun ==
    mount # "done" =>
        /\ \A p \in Paths : walk[p] = "none" /\ update[p] = "none" /\ adding[p] = NoAdd
        /\ unref = None /\ told = "nothing" /\ met = {}
        /\ refcount = IF mount = "mounting" THEN 1 ELSE 0

Fresh(p) == walk[p] = "none" /\ update[p] = "none"

\* Each path is asked for once: by the walk of its directory, when it takes the path off
\* the entries that it has to read.
OncePerPath ==
    \A p \in Paths :
        /\ walk[p] \in {"none", "push", "queued", "open"} => \A q \in Entries(p) : Fresh(q)
        /\ walk[p] = "read" => \A q \in todo[p] : Fresh(q)
        /\ adding[p] # NoAdd => /\ walk[p] = "read"
                                /\ adding[p].path \in Entries(p) \ todo[p]
                                /\ Fresh(adding[p].path)

LostUpdate == "lost update" \in met

\* The count without the lost updates is that of the holders; with them it stays above zero
\* all the same until the Tsync is freed.
Counted ==
    /\ mount # "none" /\ ~Freed => refcount > 0
    /\ unref # None => unref > 0 /\ ~Freed
    /\ ~LostUpdate =>
        /\ refcount = Cardinality(Holders)
        /\ Freed => refcount = 0

LP == INSTANCE AsyncQueueProofs WITH MaxWorknum <- MaxLocal
RP == INSTANCE AsyncQueueProofs WITH MaxWorknum <- MaxRemote
UP == INSTANCE AsyncQueueProofs WITH MaxWorknum <- MaxUpdate

Queued ==
    /\ LP!Serves(Paths, queue_walkdir_local, LocalWaits, LocalWorks)
    /\ RP!Serves(Paths, queue_walkdir_remote, RemoteWaits, RemoteWorks)
    /\ UP!Serves(Paths, queue_update, UpdateWaits, UpdateWorks)

SyncInv == SyncTypes /\ NotBegun /\ OncePerPath /\ Counted /\ Queued

-----------------------------------------------------------------------------
(* The queues                                                              *)

LEMMA LocalLimit == MaxLocal \in Nat \ {0} /\ WordSize \in Nat /\ WordSize > MaxLocal
BY LimitsAssumption, WordSizeAssumption

LEMMA LocalRun == ASSUME NEW Q PROVE LQ!Run(Q) = LP!Run(Q) /\ LQ!Started(Q) = LP!Started(Q)
BY DEF LQ!Run, LP!Run, LQ!Started, LP!Started, LQ!NumStarted, LP!NumStarted

LEMMA LocalPush ==
    ASSUME NEW Q, NEW waits, NEW works, LP!Serves(Paths, Q, waits, works),
           NEW p \in Paths, p \notin waits, p \notin works,
           NEW pushed, pushed = LQ!Push(Q, p)
    PROVE  \/ /\ LQ!Started(pushed) = {p}
              /\ LP!Serves(Paths, LQ!Run(pushed), waits, works \union {p})
           \/ /\ LQ!Started(pushed) = {}
              /\ LP!Serves(Paths, LQ!Run(pushed), waits \union {p}, works)
<1>1. pushed = LP!Push(Q, p)
  BY DEF LQ!Push, LP!Push
<1>2. LP!MaxWorknumAssumption /\ LP!WordSizeAssumption
  BY LocalLimit DEF LP!MaxWorknumAssumption, LP!WordSizeAssumption
<1>. QED BY <1>1, <1>2, LP!PushServes, LocalRun

LEMMA LocalReady ==
    ASSUME NEW Q, NEW waits, NEW works, LP!Serves(Paths, Q, waits, works),
           waits \intersect works = {}, NEW p \in works,
           NEW ready, ready = LQ!WorkerReady(Q)
    PROVE  \/ \E t \in waits :
                /\ LQ!Started(ready) = {t}
                /\ LP!Serves(Paths, LQ!Run(ready), waits \ {t}, (works \ {p}) \union {t})
           \/ /\ LQ!Started(ready) = {}
              /\ LP!Serves(Paths, LQ!Run(ready), waits, works \ {p})
<1>1. ready = LP!WorkerReady(Q)
  BY DEF LQ!WorkerReady, LP!WorkerReady
<1>2. LP!MaxWorknumAssumption /\ LP!WordSizeAssumption
  BY LocalLimit DEF LP!MaxWorknumAssumption, LP!WordSizeAssumption
<1>. QED BY <1>1, <1>2, LP!ReadyServes, LocalRun

LEMMA RemoteLimit == MaxRemote \in Nat \ {0} /\ WordSize \in Nat /\ WordSize > MaxRemote
BY LimitsAssumption, WordSizeAssumption

LEMMA RemoteRun == ASSUME NEW Q PROVE RQ!Run(Q) = RP!Run(Q) /\ RQ!Started(Q) = RP!Started(Q)
BY DEF RQ!Run, RP!Run, RQ!Started, RP!Started, RQ!NumStarted, RP!NumStarted

LEMMA RemotePush ==
    ASSUME NEW Q, NEW waits, NEW works, RP!Serves(Paths, Q, waits, works),
           NEW p \in Paths, p \notin waits, p \notin works,
           NEW pushed, pushed = RQ!Push(Q, p)
    PROVE  \/ /\ RQ!Started(pushed) = {p}
              /\ RP!Serves(Paths, RQ!Run(pushed), waits, works \union {p})
           \/ /\ RQ!Started(pushed) = {}
              /\ RP!Serves(Paths, RQ!Run(pushed), waits \union {p}, works)
<1>1. pushed = RP!Push(Q, p)
  BY DEF RQ!Push, RP!Push
<1>2. RP!MaxWorknumAssumption /\ RP!WordSizeAssumption
  BY RemoteLimit DEF RP!MaxWorknumAssumption, RP!WordSizeAssumption
<1>. QED BY <1>1, <1>2, RP!PushServes, RemoteRun

LEMMA RemoteReady ==
    ASSUME NEW Q, NEW waits, NEW works, RP!Serves(Paths, Q, waits, works),
           waits \intersect works = {}, NEW p \in works,
           NEW ready, ready = RQ!WorkerReady(Q)
    PROVE  \/ \E t \in waits :
                /\ RQ!Started(ready) = {t}
                /\ RP!Serves(Paths, RQ!Run(ready), waits \ {t}, (works \ {p}) \union {t})
           \/ /\ RQ!Started(ready) = {}
              /\ RP!Serves(Paths, RQ!Run(ready), waits, works \ {p})
<1>1. ready = RP!WorkerReady(Q)
  BY DEF RQ!WorkerReady, RP!WorkerReady
<1>2. RP!MaxWorknumAssumption /\ RP!WordSizeAssumption
  BY RemoteLimit DEF RP!MaxWorknumAssumption, RP!WordSizeAssumption
<1>. QED BY <1>1, <1>2, RP!ReadyServes, RemoteRun

LEMMA UpdateLimit == MaxUpdate \in Nat \ {0} /\ WordSize \in Nat /\ WordSize > MaxUpdate
BY LimitsAssumption, WordSizeAssumption

LEMMA UpdateRun == ASSUME NEW Q PROVE UQ!Run(Q) = UP!Run(Q) /\ UQ!Started(Q) = UP!Started(Q)
BY DEF UQ!Run, UP!Run, UQ!Started, UP!Started, UQ!NumStarted, UP!NumStarted

LEMMA UpdatePush ==
    ASSUME NEW Q, NEW waits, NEW works, UP!Serves(Paths, Q, waits, works),
           NEW p \in Paths, p \notin waits, p \notin works,
           NEW pushed, pushed = UQ!Push(Q, p)
    PROVE  \/ /\ UQ!Started(pushed) = {p}
              /\ UP!Serves(Paths, UQ!Run(pushed), waits, works \union {p})
           \/ /\ UQ!Started(pushed) = {}
              /\ UP!Serves(Paths, UQ!Run(pushed), waits \union {p}, works)
<1>1. pushed = UP!Push(Q, p)
  BY DEF UQ!Push, UP!Push
<1>2. UP!MaxWorknumAssumption /\ UP!WordSizeAssumption
  BY UpdateLimit DEF UP!MaxWorknumAssumption, UP!WordSizeAssumption
<1>. QED BY <1>1, <1>2, UP!PushServes, UpdateRun

LEMMA UpdateReady ==
    ASSUME NEW Q, NEW waits, NEW works, UP!Serves(Paths, Q, waits, works),
           waits \intersect works = {}, NEW p \in works,
           NEW ready, ready = UQ!WorkerReady(Q)
    PROVE  \/ \E t \in waits :
                /\ UQ!Started(ready) = {t}
                /\ UP!Serves(Paths, UQ!Run(ready), waits \ {t}, (works \ {p}) \union {t})
           \/ /\ UQ!Started(ready) = {}
              /\ UP!Serves(Paths, UQ!Run(ready), waits, works \ {p})
<1>1. ready = UP!WorkerReady(Q)
  BY DEF UQ!WorkerReady, UP!WorkerReady
<1>2. UP!MaxWorknumAssumption /\ UP!WordSizeAssumption
  BY UpdateLimit DEF UP!MaxWorknumAssumption, UP!WordSizeAssumption
<1>. QED BY <1>1, <1>2, UP!ReadyServes, UpdateRun

-----------------------------------------------------------------------------
(* The holders                                                             *)

LEMMA HoldersFinite == IsFiniteSet(Holders) /\ Cardinality(Holders) \in Nat
<1>. DEFINE What == {"walk", "update", "mount", "unref"}
<1>1. IsFiniteSet(What)
  <2>1. What = (({"walk"} \union {"update"}) \union {"mount"}) \union {"unref"}
    OBVIOUS
  <2>2. IsFiniteSet({"walk"} \union {"update"})
    BY FS_Singleton, FS_Union
  <2>3. IsFiniteSet(({"walk"} \union {"update"}) \union {"mount"})
    BY <2>2, FS_Singleton, FS_Union
  <2>4. IsFiniteSet((({"walk"} \union {"update"}) \union {"mount"}) \union {"unref"})
    BY <2>3, FS_Singleton, FS_Union
  <2>. QED BY <2>1, <2>4
<1>2. IsFiniteSet(What \X Paths)
  BY <1>1, PathsAssumption, FS_Product
<1>3. Holders \subseteq What \X Paths
  BY PathsAssumption DEF Holders
<1>. HIDE DEF What
<1>. QED BY <1>2, <1>3, FS_Subset, FS_CardinalityType

\* Nothing that takes or gives back a reference happened.
LEMMA SameHolders ==
    ASSUME \A p \in Paths : /\ walk'[p] \in {"none", "gone"} <=> walk[p] \in {"none", "gone"}
                            /\ update'[p] \in {"none", "gone"} <=> update[p] \in {"none", "gone"},
           mount' = mount, unref' = unref
    PROVE  Holders' = Holders
BY DEF Holders

\* The discovery of paths goes by the stages before a directory is read.
LEMMA SameDiscovery ==
    ASSUME SyncInv, todo' = todo, adding' = adding,
           \A p \in Paths :
               /\ walk'[p] = "none" <=> walk[p] = "none"
               /\ update'[p] = "none" <=> update[p] = "none"
               /\ walk'[p] \in {"push", "queued", "open"} => walk[p] \in {"push", "queued", "open"}
               /\ walk'[p] = "read" <=> walk[p] = "read"
    PROVE  OncePerPath'
<1>1. \A p \in Paths : Fresh(p)' <=> Fresh(p)
  BY DEF Fresh
<1>2. \A p \in Paths : Entries(p) \subseteq Paths
  BY DEF Entries
<1>3. ASSUME NEW p \in Paths
      PROVE  /\ walk'[p] \in {"none", "push", "queued", "open"} => \A q \in Entries(p) : Fresh(q)'
             /\ walk'[p] = "read" => \A q \in todo'[p] : Fresh(q)'
             /\ adding'[p] # NoAdd => /\ walk'[p] = "read"
                                      /\ adding'[p].path \in Entries(p) \ todo'[p]
                                      /\ (Fresh(adding[p].path))'
  <2>1. /\ walk[p] \in {"none", "push", "queued", "open"} => \A q \in Entries(p) : Fresh(q)
        /\ walk[p] = "read" => \A q \in todo[p] : Fresh(q)
        /\ adding[p] # NoAdd => /\ walk[p] = "read"
                                /\ adding[p].path \in Entries(p) \ todo[p]
                                /\ Fresh(adding[p].path)
    BY DEF SyncInv, OncePerPath
  <2>2. walk'[p] \in {"none", "push", "queued", "open"} => \A q \in Entries(p) : Fresh(q)'
    BY <2>1, <1>1, <1>2
  <2>3. walk'[p] = "read" => \A q \in todo'[p] : Fresh(q)'
    BY <2>1, <1>1, <1>2 DEF SyncInv, SyncTypes
  <2>4. adding'[p] # NoAdd => /\ walk'[p] = "read"
                              /\ adding'[p].path \in Entries(p) \ todo'[p]
                              /\ (Fresh(adding[p].path))'
    BY <2>1, <1>1, <1>2
  <2>. QED BY <2>2, <2>3, <2>4
<1>. QED BY <1>3 DEF OncePerPath

\* Once the target is mounted a synchronisation has begun.
LEMMA Begun ==
    ASSUME SyncInv, \/ unref # None
                 \/ \E p \in Paths : walk[p] # "none" \/ update[p] # "none" \/ adding[p] # NoAdd
    PROVE  mount = "done"
BY DEF SyncInv, NotBegun

\* The count goes by the holders, and is given back by nobody but sync_unref.
LEMMA SameCount ==
    ASSUME SyncInv, refcount' = refcount, told' = told, mount' = mount,
           LostUpdate' <=> LostUpdate,
           Cardinality(Holders') = Cardinality(Holders),
           mount = "done", unref' = unref \/ (unref' = refcount /\ ~Freed)
    PROVE  Counted' /\ NotBegun'
<1>1. Counted'
  BY DEF SyncInv, Counted, Freed
<1>. QED BY <1>1 DEF NotBegun

\* A callback that ends a walk or a copy keeps its reference until sync_unref.
LEMMA HolderToUnref ==
    ASSUME SyncInv, unref = None, unref' = refcount, mount' = mount,
           NEW x \in Holders, x # <<"unref", Root>>,
           Holders' = (Holders \ {x}) \union {<<"unref", Root>>}
    PROVE  Cardinality(Holders') = Cardinality(Holders)
<1>1. <<"unref", Root>> \notin Holders
  BY DEF Holders
<1>. DEFINE H == Holders
            rest == H \ {x}
<1>2. IsFiniteSet(rest) /\ Cardinality(rest) = Cardinality(H) - 1
  BY HoldersFinite, FS_RemoveElement
<1>3. Holders' = rest \union {<<"unref", Root>>} /\ <<"unref", Root>> \notin rest
  BY <1>1
<1>. HIDE DEF rest
<1>4. Cardinality(Holders') = Cardinality(rest) + 1
  BY <1>2, <1>3, FS_AddElement
<1>. QED BY <1>2, <1>4, HoldersFinite

LEMMA StepSyncDirectory == ASSUME SyncInv, SyncDirectory PROVE SyncInv'
<1>1. /\ mount = "none" /\ mount' = "mounting" /\ refcount' = 1
      /\ UNCHANGED <<unref, walks, update, queues, failed, told, met>>
      /\ source' \in Trees(SourceKinds) /\ target' \in Trees(TargetKinds)
  BY DEF SyncDirectory
<1>2. /\ source' \in [Paths -> {"none", "file", "dir"}]
      /\ target' \in [Paths -> {"none", "old", "alike", "file", "dir"}]
  BY <1>1, KindsAssumption DEF Trees, TargetStates
<1>3. SyncTypes'
  BY <1>1, <1>2 DEF SyncInv, SyncTypes, walks
<1>4. NotBegun'
  BY <1>1 DEF SyncInv, NotBegun, walks
<1>5. OncePerPath'
  BY <1>1 DEF SyncInv, OncePerPath, Fresh, walks
<1>6. Counted'
  <2>1. Holders' = {<<"mount", Root>>}
    BY <1>1, <1>4 DEF Holders, NotBegun
  <2>2. Cardinality(Holders') = 1
    BY <2>1, FS_Singleton
  <2>3. unref' = None /\ refcount' = 1 /\ told' = "nothing"
    BY <1>1 DEF SyncInv, NotBegun
  <2>. QED BY <2>2, <2>3 DEF Counted, Freed
<1>7. Queued'
  BY <1>1 DEF SyncInv, Queued, queues, walks, LocalWaits, LocalWorks, RemoteWaits, RemoteWorks,
              UpdateWaits, UpdateWorks
<1>. QED BY <1>3, <1>4, <1>5, <1>6, <1>7 DEF SyncInv

LEMMA StepMountLcb == ASSUME SyncInv, NEW ok \in BOOLEAN, MountLcb(ok) PROVE SyncInv'
<1>1. /\ mount = "mounting" /\ mount' = "done" /\ unref' = refcount'
      /\ UNCHANGED <<source, delete_deprecated, target, todo, localnames, adding, update,
                     queues, failed, told>>
      /\ ok => refcount' = refcount + 1 /\ walk' = [walk EXCEPT ![Root] = "push"]
      /\ ~ok => refcount' = refcount /\ walk' = walk
  BY DEF MountLcb
<1>m. met' \subseteq Situations /\ ("lost update" \in met' => "lost update" \in met)
  BY DEF MountLcb, SyncInv, SyncTypes, Situations
<1>u. unref' \in Nat /\ refcount' \in Nat /\ unref' > 0 /\ unref' # None /\ mount' # "mounting"
  BY <1>1 DEF SyncInv, NotBegun, None
<1>2. /\ refcount = 1 /\ unref = None /\ told = "nothing" /\ met = {}
      /\ \A p \in Paths : walk[p] = "none" /\ update[p] = "none" /\ adding[p] = NoAdd
  BY <1>1 DEF SyncInv, NotBegun
<1>3. \A p \in Paths : walk'[p] = IF ok /\ p = Root THEN "push" ELSE "none"
  BY <1>1, <1>2 DEF SyncInv, SyncTypes
<1>4. SyncTypes'
  <2>1. walk' \in [Paths -> WalkStages]
    BY <1>1 DEF SyncInv, SyncTypes, WalkStages
  <2>2. refcount' \in Nat /\ unref' \in Nat \union {None}
    BY <1>1, <1>2, <1>u
  <2>. QED BY <1>1, <1>m, <2>1, <2>2 DEF SyncInv, SyncTypes
<1>5. OncePerPath'
  <2>1. ASSUME NEW p \in Paths
        PROVE  adding'[p] = NoAdd /\ walk'[p] # "read" /\ \A q \in Entries(p) : Fresh(q)'
    <3>1. Entries(p) \subseteq Paths \ {Root}
      BY DEF Entries
    <3>. QED BY <1>1, <1>2, <1>3, <3>1 DEF Fresh, SyncInv, SyncTypes
  <2>. QED BY <2>1 DEF OncePerPath
<1>6. Counted'
  <2>1. CASE ok
    <3>1. Holders' = {<<"walk", Root>>} \union {<<"unref", Root>>}
      <4>2. {q \in Paths : walk'[q] \notin {"none", "gone"}} = {Root}
        BY <1>3, <2>1, PathsAssumption
      <4>3. {q \in Paths : update'[q] \notin {"none", "gone"}} = {}
        BY <1>1, <1>2
      <4>. QED BY <1>u, <4>2, <4>3 DEF Holders
    <3>2. Cardinality(Holders') = 2
      <4>1. <<"unref", Root>> \notin {<<"walk", Root>>}
        OBVIOUS
      <4>2. IsFiniteSet({<<"walk", Root>>}) /\ Cardinality({<<"walk", Root>>}) = 1
        BY FS_Singleton
      <4>3. Cardinality({<<"walk", Root>>} \union {<<"unref", Root>>}) = 1 + 1
        BY <4>1, <4>2, FS_AddElement
      <4>. QED BY <3>1, <4>3
    <3>. QED BY <1>1, <1>2, <1>u, <2>1, <3>2 DEF Counted, Freed
  <2>2. CASE ~ok
    <3>1. Holders' = {<<"unref", Root>>}
      <4>2. {q \in Paths : walk'[q] \notin {"none", "gone"}} = {}
        BY <1>3, <2>2
      <4>3. {q \in Paths : update'[q] \notin {"none", "gone"}} = {}
        BY <1>1, <1>2
      <4>. QED BY <1>u, <4>2, <4>3 DEF Holders
    <3>2. Cardinality(Holders') = 1
      BY <3>1, FS_Singleton
    <3>. QED BY <1>1, <1>2, <1>u, <2>2, <3>2 DEF Counted, Freed
  <2>. QED BY <2>1, <2>2
<1>7. Queued'
  <2>1. /\ LocalWaits' = LocalWaits /\ LocalWorks' = LocalWorks
        /\ RemoteWaits' = RemoteWaits /\ RemoteWorks' = RemoteWorks
        /\ UpdateWaits' = UpdateWaits /\ UpdateWorks' = UpdateWorks
    <3>1. \A p \in Paths : walk[p] = "none" /\ walk'[p] \in {"none", "push"} /\ update'[p] = update[p]
      BY <1>1, <1>2, <1>3
    <3>2. LocalWaits' = LocalWaits /\ LocalWorks' = LocalWorks
      BY <3>1 DEF LocalWaits, LocalWorks
    <3>3. RemoteWaits' = RemoteWaits /\ RemoteWorks' = RemoteWorks
      BY <3>1 DEF RemoteWaits, RemoteWorks
    <3>4. UpdateWaits' = UpdateWaits /\ UpdateWorks' = UpdateWorks
      BY <3>1 DEF UpdateWaits, UpdateWorks
    <3>. QED BY <3>2, <3>3, <3>4
  <2>. QED BY <1>1, <2>1 DEF SyncInv, Queued, queues
<1>8. NotBegun'
  BY <1>1 DEF NotBegun
<1>. QED BY <1>4, <1>5, <1>6, <1>7, <1>8 DEF SyncInv

LEMMA StepSyncUnref == ASSUME SyncInv, SyncUnref PROVE SyncInv'
<1>1. /\ unref # None /\ unref' = None /\ refcount' = unref - 1
      /\ refcount' > 0 => told' = told
      /\ ~(refcount' > 0) => told' \in {"incomplete", "completed"}
      /\ UNCHANGED <<given, target, walks, update, queues, failed>>
  BY DEF SyncUnref
<1>m. ~LostUpdate' => ~LostUpdate /\ refcount = unref
  BY DEF SyncUnref, LostUpdate
<1>2. unref \in Nat /\ unref > 0 /\ refcount \in Nat /\ ~Freed /\ mount = "done"
  BY <1>1, Begun DEF SyncInv, SyncTypes, Counted, None
<1>3. SyncTypes'
  <2>1. refcount' \in Nat
    BY <1>1, <1>2
  <2>2. met' \subseteq Situations
    BY DEF SyncUnref, SyncInv, SyncTypes, Situations
  <2>. QED BY <1>1, <2>1, <2>2 DEF SyncInv, SyncTypes, given, walks
<1>4. OncePerPath'
  BY <1>1 DEF SyncInv, OncePerPath, Fresh, walks
<1>5. Counted'
  <2>1. Holders' = Holders \ {<<"unref", Root>>} /\ <<"unref", Root>> \in Holders
    <3>1. Holders' \union {<<"unref", Root>>} = Holders
      BY <1>1 DEF Holders, given, walks
    <3>2. <<"unref", Root>> \notin Holders'
      BY <1>1 DEF Holders
    <3>. QED BY <3>1, <3>2
  <2>2. Cardinality(Holders') = Cardinality(Holders) - 1
    BY <2>1, HoldersFinite, FS_RemoveElement
  <2>3. Freed' <=> refcount' = 0
    <3>1. refcount' \in Nat
      BY <1>1, <1>2
    <3>. QED BY <1>1, <1>2, <3>1 DEF Freed
  <2>4. refcount' \in Nat
    BY <1>1, <1>2
  <2>5. ~LostUpdate' => refcount' = Cardinality(Holders')
    BY <1>1, <1>2, <1>m, <2>2 DEF SyncInv, Counted
  <2>6. unref' = None
    BY <1>1
  <2>. QED BY <2>3, <2>4, <2>5, <2>6 DEF Counted
<1>6. Queued'
  BY <1>1 DEF SyncInv, Queued, queues, walks, LocalWaits, LocalWorks, RemoteWaits, RemoteWorks,
              UpdateWaits, UpdateWorks
<1>7. NotBegun'
  BY <1>1, <1>2 DEF NotBegun, given
<1>. QED BY <1>3, <1>4, <1>5, <1>6, <1>7 DEF SyncInv

LEMMA StepWalkLocalDirectoryPush ==
    ASSUME SyncInv, NEW p \in Paths, WalkLocalDirectoryPush(p)
    PROVE  SyncInv'
<1>. DEFINE Q == LQ!Push(queue_walkdir_local, p)
<1>1. /\ walk[p] = "push" /\ unref = None /\ ~Freed
      /\ queue_walkdir_local' = LQ!Run(Q)
      /\ walk' = [q \in Paths |-> IF q \in LQ!Started(Q) THEN "open"
                                  ELSE IF q = p THEN "queued" ELSE walk[q]]
      /\ UNCHANGED <<given, target, refcount, unref, todo, localnames, adding, update,
                     queue_walkdir_remote, queue_update, failed, told, met>>
  BY DEF WalkLocalDirectoryPush, MainLoop
<1>2. \/ /\ LQ!Started(Q) = {p}
         /\ LP!Serves(Paths, LQ!Run(Q), LocalWaits, LocalWorks \union {p})
      \/ /\ LQ!Started(Q) = {}
         /\ LP!Serves(Paths, LQ!Run(Q), LocalWaits \union {p}, LocalWorks)
  <2>1. p \notin LocalWaits /\ p \notin LocalWorks
    BY <1>1 DEF LocalWaits, LocalWorks
  <2>. QED BY <2>1, LocalPush DEF SyncInv, Queued
<1>. HIDE DEF Q
<1>3. /\ walk'[p] \in {"queued", "open"}
      /\ \A q \in Paths : q # p => walk'[q] = walk[q]
      /\ walk' \in [Paths -> WalkStages]
  BY <1>1, <1>2 DEF SyncInv, SyncTypes, WalkStages
<1>4. SyncTypes'
  BY <1>1, <1>3 DEF SyncInv, SyncTypes, given
<1>5. Queued'
  <2>1. LP!Serves(Paths, queue_walkdir_local', LocalWaits', LocalWorks')
    <3>1. CASE LQ!Started(Q) = {p}
      <4>1. walk'[p] = "open"
        BY <1>1, <3>1
      <4>2. LocalWaits' = LocalWaits
        BY <1>1, <1>3, <4>1 DEF LocalWaits
      <4>3. LocalWorks' = LocalWorks \union {p}
        BY <1>1, <1>3, <4>1 DEF LocalWorks
      <4>. QED BY <1>1, <1>2, <3>1, <4>2, <4>3
    <3>2. CASE LQ!Started(Q) = {}
      <4>1. walk'[p] = "queued"
        BY <1>1, <3>2
      <4>2. LocalWaits' = LocalWaits \union {p}
        BY <1>1, <1>3, <4>1 DEF LocalWaits
      <4>3. LocalWorks' = LocalWorks
        BY <1>1, <1>3, <4>1 DEF LocalWorks
      <4>. QED BY <1>1, <1>2, <3>2, <4>2, <4>3
    <3>. QED BY <1>2, <3>1, <3>2
  <2>2. RemoteWaits' = RemoteWaits /\ RemoteWorks' = RemoteWorks
    BY <1>1, <1>3 DEF RemoteWaits, RemoteWorks
  <2>3. UpdateWaits' = UpdateWaits /\ UpdateWorks' = UpdateWorks
    BY <1>1 DEF UpdateWaits, UpdateWorks
  <2>. QED BY <1>1, <2>1, <2>2, <2>3 DEF SyncInv, Queued
<1>6. OncePerPath'
  BY <1>1, <1>3, SameDiscovery
<1>7. Counted' /\ NotBegun'
  <2>1. mount = "done"
    BY <1>1, Begun
  <2>2. Holders' = Holders
    BY <1>1, <1>3, SameHolders DEF given
  <2>. QED BY <1>1, <2>1, <2>2, SameCount DEF LostUpdate, given
<1>. QED BY <1>4, <1>5, <1>6, <1>7 DEF SyncInv

LEMMA StepWalkLocalDirectoryJobFinished ==
    ASSUME SyncInv, NEW p \in Paths, WalkLocalDirectoryJobFinished(p)
    PROVE  SyncInv'
<1>. DEFINE ends == LQ!WorkerReady(queue_walkdir_local)
            next == RQ!Push(queue_walkdir_remote, p)
<1>1. /\ walk[p] = "finish" /\ unref = None /\ ~Freed
      /\ queue_walkdir_local' = LQ!Run(ends)
      /\ delete_deprecated => queue_walkdir_remote' = RQ!Run(next)
      /\ ~delete_deprecated => queue_walkdir_remote' = queue_walkdir_remote
      /\ walk' = [q \in Paths |->
                     IF q \in LQ!Started(ends) THEN "open"
                     ELSE IF delete_deprecated /\ q \in RQ!Started(next) THEN "ropen"
                     ELSE IF q # p THEN walk[q]
                     ELSE IF delete_deprecated THEN "rqueued" ELSE "gone"]
      /\ delete_deprecated => unref' = None
      /\ ~delete_deprecated => unref' = refcount
      /\ UNCHANGED <<given, target, refcount, todo, localnames, adding, update, queue_update,
                     failed, told, met>>
  BY DEF WalkLocalDirectoryJobFinished, MainLoop
<1>2. \/ \E t \in LocalWaits :
            /\ LQ!Started(ends) = {t}
            /\ LP!Serves(Paths, LQ!Run(ends), LocalWaits \ {t}, (LocalWorks \ {p}) \union {t})
      \/ /\ LQ!Started(ends) = {}
         /\ LP!Serves(Paths, LQ!Run(ends), LocalWaits, LocalWorks \ {p})
  <2>1. p \in LocalWorks /\ LocalWaits \intersect LocalWorks = {}
    BY <1>1 DEF LocalWaits, LocalWorks
  <2>. QED BY <2>1, LocalReady DEF SyncInv, Queued
<1>3. \/ /\ RQ!Started(next) = {p}
         /\ RP!Serves(Paths, RQ!Run(next), RemoteWaits, RemoteWorks \union {p})
      \/ /\ RQ!Started(next) = {}
         /\ RP!Serves(Paths, RQ!Run(next), RemoteWaits \union {p}, RemoteWorks)
  <2>1. p \notin RemoteWaits /\ p \notin RemoteWorks
    BY <1>1 DEF RemoteWaits, RemoteWorks
  <2>. QED BY <2>1, RemotePush DEF SyncInv, Queued
<1>. HIDE DEF ends, next
<1>4. /\ p \notin LQ!Started(ends)
      /\ \A q \in LQ!Started(ends) : q \in Paths /\ q # p /\ walk[q] = "queued" /\ walk'[q] = "open"
      /\ \A q \in Paths : q # p /\ q \notin LQ!Started(ends) => walk'[q] = walk[q]
  BY <1>1, <1>2, <1>3 DEF LocalWaits
<1>5. /\ ~delete_deprecated => walk'[p] = "gone"
      /\ delete_deprecated /\ RQ!Started(next) = {p} => walk'[p] = "ropen"
      /\ delete_deprecated /\ RQ!Started(next) = {} => walk'[p] = "rqueued"
      /\ walk'[p] \in {"gone", "ropen", "rqueued"}
  BY <1>1, <1>3, <1>4
<1>6. SyncTypes'
  <2>1. walk' \in [Paths -> WalkStages]
    BY <1>1 DEF SyncInv, SyncTypes, WalkStages
  <2>2. unref' \in Nat \union {None}
    BY <1>1 DEF SyncInv, SyncTypes
  <2>. QED BY <1>1, <2>1, <2>2 DEF SyncInv, SyncTypes, given
<1>7. Queued'
  <2>1. LP!Serves(Paths, queue_walkdir_local', LocalWaits', LocalWorks')
    <3>1. ASSUME NEW t \in LocalWaits, LQ!Started(ends) = {t},
                 LP!Serves(Paths, LQ!Run(ends), LocalWaits \ {t}, (LocalWorks \ {p}) \union {t})
          PROVE  LP!Serves(Paths, queue_walkdir_local', LocalWaits', LocalWorks')
      <4>1. LocalWaits' = LocalWaits \ {t}
        BY <1>4, <1>5, <3>1, <1>1 DEF LocalWaits
      <4>2. LocalWorks' = (LocalWorks \ {p}) \union {t}
        BY <1>4, <1>5, <3>1, <1>1 DEF LocalWorks
      <4>. QED BY <1>1, <3>1, <4>1, <4>2
    <3>2. CASE /\ LQ!Started(ends) = {}
               /\ LP!Serves(Paths, LQ!Run(ends), LocalWaits, LocalWorks \ {p})
      <4>1. LocalWaits' = LocalWaits
        BY <1>4, <1>5, <3>2, <1>1 DEF LocalWaits
      <4>2. LocalWorks' = LocalWorks \ {p}
        BY <1>4, <1>5, <3>2, <1>1 DEF LocalWorks
      <4>. QED BY <1>1, <3>2, <4>1, <4>2
    <3>. QED BY <1>2, <3>1, <3>2
  <2>2. RP!Serves(Paths, queue_walkdir_remote', RemoteWaits', RemoteWorks')
    <3>1. CASE ~delete_deprecated
      <4>1. RemoteWaits' = RemoteWaits
        BY <1>1, <1>4, <1>5, <3>1 DEF RemoteWaits
      <4>2. RemoteWorks' = RemoteWorks
        BY <1>1, <1>4, <1>5, <3>1 DEF RemoteWorks
      <4>. QED BY <1>1, <3>1, <4>1, <4>2 DEF SyncInv, Queued
    <3>2. CASE delete_deprecated /\ RQ!Started(next) = {p}
      <4>1. RemoteWaits' = RemoteWaits
        BY <1>1, <1>4, <1>5, <3>2 DEF RemoteWaits
      <4>2. RemoteWorks' = RemoteWorks \union {p}
        BY <1>1, <1>4, <1>5, <3>2 DEF RemoteWorks
      <4>. QED BY <1>1, <1>3, <3>2, <4>1, <4>2
    <3>3. CASE delete_deprecated /\ RQ!Started(next) = {}
      <4>1. RemoteWaits' = RemoteWaits \union {p}
        BY <1>1, <1>4, <1>5, <3>3 DEF RemoteWaits
      <4>2. RemoteWorks' = RemoteWorks
        BY <1>1, <1>4, <1>5, <3>3 DEF RemoteWorks
      <4>. QED BY <1>1, <1>3, <3>3, <4>1, <4>2
    <3>. QED BY <1>3, <3>1, <3>2, <3>3
  <2>3. UpdateWaits' = UpdateWaits /\ UpdateWorks' = UpdateWorks
    BY <1>1 DEF UpdateWaits, UpdateWorks
  <2>. QED BY <1>1, <2>1, <2>2, <2>3 DEF SyncInv, Queued
<1>8. OncePerPath'
  <2>1. ASSUME NEW q \in Paths
        PROVE  /\ walk'[q] = "none" <=> walk[q] = "none"
               /\ walk'[q] \in {"push", "queued", "open"} => walk[q] \in {"push", "queued", "open"}
               /\ walk'[q] = "read" <=> walk[q] = "read"
    BY <1>1, <1>4, <1>5
  <2>. QED BY <1>1, <2>1, SameDiscovery
<1>9. Counted' /\ NotBegun'
  <2>1. mount = "done"
    BY <1>1, Begun
  <2>2. Cardinality(Holders') = Cardinality(Holders)
    <3>1. CASE delete_deprecated
      <4>1. ASSUME NEW q \in Paths
            PROVE  walk'[q] \in {"none", "gone"} <=> walk[q] \in {"none", "gone"}
        BY <1>1, <1>4, <1>5, <3>1, <1>3
      <4>2. Holders' = Holders
        BY <1>1, <3>1, <4>1, SameHolders DEF given
      <4>. QED BY <4>2
    <3>2. CASE ~delete_deprecated
      <4>1. ASSUME NEW q \in Paths, q # p
            PROVE  walk'[q] \in {"none", "gone"} <=> walk[q] \in {"none", "gone"}
        BY <1>1, <1>4, <4>1
      <4>2. unref' # None
        BY <1>1, <3>2 DEF SyncInv, SyncTypes, None
      <4>3. Holders' = (Holders \ {<<"walk", p>>}) \union {<<"unref", Root>>}
        BY <1>1, <1>5, <3>2, <4>1, <4>2 DEF Holders, given
      <4>4. <<"walk", p>> \in Holders /\ <<"walk", p>> # <<"unref", Root>>
        BY <1>1 DEF Holders
      <4>. QED BY <1>1, <3>2, <4>3, <4>4, HolderToUnref DEF given
    <3>. QED BY <3>1, <3>2
  <2>. QED BY <1>1, <2>1, <2>2, SameCount DEF LostUpdate, given
<1>. QED BY <1>6, <1>7, <1>8, <1>9 DEF SyncInv

LEMMA StepWalkDirectoryRemoteJobFinished ==
    ASSUME SyncInv, NEW p \in Paths, WalkDirectoryRemoteJobFinished(p)
    PROVE  SyncInv'
<1>. DEFINE ends == RQ!WorkerReady(queue_walkdir_remote)
<1>1. /\ walk[p] = "rfinish" /\ unref = None /\ ~Freed
      /\ queue_walkdir_remote' = RQ!Run(ends)
      /\ walk' = [q \in Paths |-> IF q \in RQ!Started(ends) THEN "ropen"
                                  ELSE IF q = p THEN "gone" ELSE walk[q]]
      /\ unref' = refcount
      /\ UNCHANGED <<given, target, refcount, todo, localnames, adding, update,
                     queue_walkdir_local, queue_update, failed, told, met>>
  BY DEF WalkDirectoryRemoteJobFinished, MainLoop
<1>2. \/ \E t \in RemoteWaits :
            /\ RQ!Started(ends) = {t}
            /\ RP!Serves(Paths, RQ!Run(ends), RemoteWaits \ {t}, (RemoteWorks \ {p}) \union {t})
      \/ /\ RQ!Started(ends) = {}
         /\ RP!Serves(Paths, RQ!Run(ends), RemoteWaits, RemoteWorks \ {p})
  <2>1. p \in RemoteWorks /\ RemoteWaits \intersect RemoteWorks = {}
    BY <1>1 DEF RemoteWaits, RemoteWorks
  <2>. QED BY <2>1, RemoteReady DEF SyncInv, Queued
<1>. HIDE DEF ends
<1>3. /\ p \notin RQ!Started(ends) /\ walk'[p] = "gone"
      /\ \A q \in RQ!Started(ends) : q \in Paths /\ q # p /\ walk[q] = "rqueued" /\ walk'[q] = "ropen"
      /\ \A q \in Paths : q # p /\ q \notin RQ!Started(ends) => walk'[q] = walk[q]
  BY <1>1, <1>2 DEF RemoteWaits
<1>4. SyncTypes'
  <2>1. walk' \in [Paths -> WalkStages]
    BY <1>1 DEF SyncInv, SyncTypes, WalkStages
  <2>. QED BY <1>1, <2>1 DEF SyncInv, SyncTypes, given
<1>5. Queued'
  <2>1. RP!Serves(Paths, queue_walkdir_remote', RemoteWaits', RemoteWorks')
    <3>1. ASSUME NEW t \in RemoteWaits, RQ!Started(ends) = {t},
                 RP!Serves(Paths, RQ!Run(ends), RemoteWaits \ {t}, (RemoteWorks \ {p}) \union {t})
          PROVE  RP!Serves(Paths, queue_walkdir_remote', RemoteWaits', RemoteWorks')
      <4>1. RemoteWaits' = RemoteWaits \ {t}
        BY <1>1, <1>3, <3>1 DEF RemoteWaits
      <4>2. RemoteWorks' = (RemoteWorks \ {p}) \union {t}
        BY <1>1, <1>3, <3>1 DEF RemoteWorks
      <4>. QED BY <1>1, <3>1, <4>1, <4>2
    <3>2. CASE /\ RQ!Started(ends) = {}
               /\ RP!Serves(Paths, RQ!Run(ends), RemoteWaits, RemoteWorks \ {p})
      <4>1. RemoteWaits' = RemoteWaits
        BY <1>1, <1>3, <3>2 DEF RemoteWaits
      <4>2. RemoteWorks' = RemoteWorks \ {p}
        BY <1>1, <1>3, <3>2 DEF RemoteWorks
      <4>. QED BY <1>1, <3>2, <4>1, <4>2
    <3>. QED BY <1>2, <3>1, <3>2
  <2>2. LocalWaits' = LocalWaits /\ LocalWorks' = LocalWorks
    <3>1. \A q \in Paths : walk'[q] = walk[q] \/ (/\ walk[q] \in {"rfinish", "rqueued"}
                                                 /\ walk'[q] \in {"gone", "ropen"})
      BY <1>1, <1>3
    <3>. QED BY <3>1 DEF LocalWaits, LocalWorks
  <2>3. UpdateWaits' = UpdateWaits /\ UpdateWorks' = UpdateWorks
    BY <1>1 DEF UpdateWaits, UpdateWorks
  <2>. QED BY <1>1, <2>1, <2>2, <2>3 DEF SyncInv, Queued
<1>6. OncePerPath'
  <2>1. ASSUME NEW q \in Paths
        PROVE  /\ walk'[q] = "none" <=> walk[q] = "none"
               /\ walk'[q] \in {"push", "queued", "open"} => walk[q] \in {"push", "queued", "open"}
               /\ walk'[q] = "read" <=> walk[q] = "read"
    BY <1>1, <1>3
  <2>. QED BY <1>1, <2>1, SameDiscovery
<1>7. Counted' /\ NotBegun'
  <2>1. mount = "done"
    BY <1>1, Begun
  <2>2. ASSUME NEW q \in Paths, q # p
        PROVE  walk'[q] \in {"none", "gone"} <=> walk[q] \in {"none", "gone"}
    BY <1>1, <1>3, <2>2
  <2>3. unref' # None
    BY <1>1 DEF SyncInv, SyncTypes, None
  <2>4. Holders' = (Holders \ {<<"walk", p>>}) \union {<<"unref", Root>>}
    BY <1>1, <1>3, <2>2, <2>3 DEF Holders, given
  <2>5. <<"walk", p>> \in Holders /\ <<"walk", p>> # <<"unref", Root>>
    BY <1>1 DEF Holders
  <2>6. Cardinality(Holders') = Cardinality(Holders)
    BY <1>1, <2>4, <2>5, HolderToUnref DEF given
  <2>. QED BY <1>1, <2>1, <2>6, SameCount DEF LostUpdate, given
<1>. QED BY <1>4, <1>5, <1>6, <1>7 DEF SyncInv

LEMMA StepDoUpdatePush ==
    ASSUME SyncInv, NEW p \in Paths, DoUpdatePush(p)
    PROVE  SyncInv'
<1>. DEFINE Q == UQ!Push(queue_update, p)
<1>1. /\ update[p] = "push" /\ unref = None /\ ~Freed
      /\ queue_update' = UQ!Run(Q)
      /\ update' = [q \in Paths |-> IF q \in UQ!Started(Q) THEN "copy"
                                    ELSE [update EXCEPT ![p] = "queued"][q]]
      /\ UNCHANGED <<given, target, refcount, unref, walks, queue_walkdir_local,
                     queue_walkdir_remote, failed, told, met>>
  BY DEF DoUpdatePush, MainLoop, RunUpdate
<1>2. \/ /\ UQ!Started(Q) = {p}
         /\ UP!Serves(Paths, UQ!Run(Q), UpdateWaits, UpdateWorks \union {p})
      \/ /\ UQ!Started(Q) = {}
         /\ UP!Serves(Paths, UQ!Run(Q), UpdateWaits \union {p}, UpdateWorks)
  <2>1. p \notin UpdateWaits /\ p \notin UpdateWorks
    BY <1>1 DEF UpdateWaits, UpdateWorks
  <2>. QED BY <2>1, UpdatePush DEF SyncInv, Queued
<1>. HIDE DEF Q
<1>3. /\ update'[p] \in {"queued", "copy"}
      /\ \A q \in Paths : q # p => update'[q] = update[q]
      /\ update' \in [Paths -> UpdateStages]
      /\ UQ!Started(Q) = {p} => update'[p] = "copy"
      /\ UQ!Started(Q) = {} => update'[p] = "queued"
  BY <1>1, <1>2 DEF SyncInv, SyncTypes, UpdateStages
<1>4. SyncTypes'
  BY <1>1, <1>3 DEF SyncInv, SyncTypes, given, walks
<1>5. Queued'
  <2>1. UP!Serves(Paths, queue_update', UpdateWaits', UpdateWorks')
    <3>1. CASE UQ!Started(Q) = {p}
      <4>1. UpdateWaits' = UpdateWaits
        BY <1>1, <1>3, <3>1 DEF UpdateWaits
      <4>2. UpdateWorks' = UpdateWorks \union {p}
        BY <1>1, <1>3, <3>1 DEF UpdateWorks
      <4>. QED BY <1>1, <1>2, <3>1, <4>1, <4>2
    <3>2. CASE UQ!Started(Q) = {}
      <4>1. UpdateWaits' = UpdateWaits \union {p}
        BY <1>1, <1>3, <3>2 DEF UpdateWaits
      <4>2. UpdateWorks' = UpdateWorks
        BY <1>1, <1>3, <3>2 DEF UpdateWorks
      <4>. QED BY <1>1, <1>2, <3>2, <4>1, <4>2
    <3>. QED BY <1>2, <3>1, <3>2
  <2>2. /\ LocalWaits' = LocalWaits /\ LocalWorks' = LocalWorks
        /\ RemoteWaits' = RemoteWaits /\ RemoteWorks' = RemoteWorks
    BY <1>1 DEF LocalWaits, LocalWorks, RemoteWaits, RemoteWorks, walks
  <2>. QED BY <1>1, <2>1, <2>2 DEF SyncInv, Queued
<1>6. OncePerPath'
  BY <1>1, <1>3, SameDiscovery DEF walks
<1>7. Counted' /\ NotBegun'
  <2>1. mount = "done"
    BY <1>1, Begun
  <2>2. Holders' = Holders
    BY <1>1, <1>3, SameHolders DEF given, walks
  <2>. QED BY <1>1, <2>1, <2>2, SameCount DEF LostUpdate, given
<1>. QED BY <1>4, <1>5, <1>6, <1>7 DEF SyncInv

LEMMA StepDoUpdateLcb ==
    ASSUME SyncInv, NEW p \in Paths, NEW ok \in BOOLEAN, DoUpdateLcb(p, ok)
    PROVE  SyncInv'
<1>. DEFINE ends == UQ!WorkerReady(queue_update)
<1>1. /\ update[p] = "copy" /\ unref = None /\ ~Freed
      /\ target' \in {target, [target EXCEPT ![p] = "file"]}
      /\ queue_update' = UQ!Run(ends)
      /\ update' = [q \in Paths |-> IF q \in UQ!Started(ends) THEN "copy"
                                    ELSE [update EXCEPT ![p] = "gone"][q]]
      /\ unref' = refcount
      /\ UNCHANGED <<given, refcount, walks, queue_walkdir_local, queue_walkdir_remote, told, met>>
  BY DEF DoUpdateLcb, MainLoop, RunUpdate
<1>2. \/ \E t \in UpdateWaits :
            /\ UQ!Started(ends) = {t}
            /\ UP!Serves(Paths, UQ!Run(ends), UpdateWaits \ {t}, (UpdateWorks \ {p}) \union {t})
      \/ /\ UQ!Started(ends) = {}
         /\ UP!Serves(Paths, UQ!Run(ends), UpdateWaits, UpdateWorks \ {p})
  <2>1. p \in UpdateWorks /\ UpdateWaits \intersect UpdateWorks = {}
    BY <1>1 DEF UpdateWaits, UpdateWorks
  <2>. QED BY <2>1, UpdateReady DEF SyncInv, Queued
<1>. HIDE DEF ends
<1>3. /\ p \notin UQ!Started(ends) /\ update'[p] = "gone"
      /\ \A q \in UQ!Started(ends) :
            q \in Paths /\ q # p /\ update[q] = "queued" /\ update'[q] = "copy"
      /\ \A q \in Paths : q # p /\ q \notin UQ!Started(ends) => update'[q] = update[q]
      /\ update' \in [Paths -> UpdateStages]
  BY <1>1, <1>2 DEF UpdateWaits, SyncInv, SyncTypes, UpdateStages
<1>4. SyncTypes'
  <2>1. target' \in [Paths -> {"none", "old", "alike", "file", "dir"}]
    BY <1>1 DEF SyncInv, SyncTypes
  <2>. QED BY <1>1, <1>3, <2>1 DEF SyncInv, SyncTypes, given, walks
<1>5. Queued'
  <2>1. UP!Serves(Paths, queue_update', UpdateWaits', UpdateWorks')
    <3>1. ASSUME NEW t \in UpdateWaits, UQ!Started(ends) = {t},
                 UP!Serves(Paths, UQ!Run(ends), UpdateWaits \ {t}, (UpdateWorks \ {p}) \union {t})
          PROVE  UP!Serves(Paths, queue_update', UpdateWaits', UpdateWorks')
      <4>1. UpdateWaits' = UpdateWaits \ {t}
        BY <1>1, <1>3, <3>1 DEF UpdateWaits
      <4>2. UpdateWorks' = (UpdateWorks \ {p}) \union {t}
        BY <1>1, <1>3, <3>1 DEF UpdateWorks
      <4>. QED BY <1>1, <3>1, <4>1, <4>2
    <3>2. CASE /\ UQ!Started(ends) = {}
               /\ UP!Serves(Paths, UQ!Run(ends), UpdateWaits, UpdateWorks \ {p})
      <4>1. UpdateWaits' = UpdateWaits
        BY <1>1, <1>3, <3>2 DEF UpdateWaits
      <4>2. UpdateWorks' = UpdateWorks \ {p}
        BY <1>1, <1>3, <3>2 DEF UpdateWorks
      <4>. QED BY <1>1, <3>2, <4>1, <4>2
    <3>. QED BY <1>2, <3>1, <3>2
  <2>2. /\ LocalWaits' = LocalWaits /\ LocalWorks' = LocalWorks
        /\ RemoteWaits' = RemoteWaits /\ RemoteWorks' = RemoteWorks
    BY <1>1 DEF LocalWaits, LocalWorks, RemoteWaits, RemoteWorks, walks
  <2>. QED BY <1>1, <2>1, <2>2 DEF SyncInv, Queued
<1>6. OncePerPath'
  <2>1. ASSUME NEW q \in Paths
        PROVE  update'[q] = "none" <=> update[q] = "none"
    BY <1>1, <1>3
  <2>. QED BY <1>1, <2>1, SameDiscovery DEF walks
<1>7. Counted' /\ NotBegun'
  <2>1. mount = "done"
    BY <1>1, Begun
  <2>2. ASSUME NEW q \in Paths, q # p
        PROVE  update'[q] \in {"none", "gone"} <=> update[q] \in {"none", "gone"}
    BY <1>1, <1>3, <2>2
  <2>3. unref' # None
    BY <1>1 DEF SyncInv, SyncTypes, None
  <2>4. Holders' = (Holders \ {<<"update", p>>}) \union {<<"unref", Root>>}
    BY <1>1, <1>3, <2>2, <2>3 DEF Holders, given, walks
  <2>5. <<"update", p>> \in Holders /\ <<"update", p>> # <<"unref", Root>>
    BY <1>1 DEF Holders
  <2>6. Cardinality(Holders') = Cardinality(Holders)
    BY <1>1, <2>4, <2>5, HolderToUnref DEF given
  <2>. QED BY <1>1, <2>1, <2>6, SameCount DEF LostUpdate, given
<1>. QED BY <1>4, <1>5, <1>6, <1>7 DEF SyncInv

-----------------------------------------------------------------------------
(* The threads                                                             *)

\* A thread that reads a directory takes no reference and gives none back.
LEMMA QuietStep ==
    ASSUME SyncInv, NEW p \in Paths, walk[p] # "none", UNCHANGED Threads, LostUpdate' <=> LostUpdate,
           \A q \in Paths : q # p => walk'[q] = walk[q],
           \/ walk'[p] = walk[p]
           \/ walk[p] \in {"open", "read"} /\ walk'[p] \in {"read", "finish"}
           \/ walk[p] \in {"ropen", "rread"} /\ walk'[p] \in {"rread", "rfinish"}
    PROVE  Counted' /\ NotBegun' /\ Queued'
<1>1. mount = "done"
  BY Begun
<1>2. ASSUME NEW q \in Paths
      PROVE  walk'[q] \in {"none", "gone"} <=> walk[q] \in {"none", "gone"}
  OBVIOUS
<1>3. Holders' = Holders
  BY <1>2, SameHolders DEF Threads, given
<1>4. Counted' /\ NotBegun'
  BY <1>1, <1>3, SameCount DEF Threads, given
<1>5. ASSUME NEW q \in Paths
      PROVE  \/ walk'[q] = walk[q]
             \/ walk[q] \in {"open", "read"} /\ walk'[q] \in {"read", "finish"}
             \/ walk[q] \in {"ropen", "rread"} /\ walk'[q] \in {"rread", "rfinish"}
  OBVIOUS
<1>6. LocalWaits' = LocalWaits /\ LocalWorks' = LocalWorks
  BY <1>5 DEF LocalWaits, LocalWorks
<1>7. RemoteWaits' = RemoteWaits /\ RemoteWorks' = RemoteWorks
  BY <1>5 DEF RemoteWaits, RemoteWorks
<1>8. UpdateWaits' = UpdateWaits /\ UpdateWorks' = UpdateWorks
  BY DEF UpdateWaits, UpdateWorks, Threads
<1>9. Queued'
  BY <1>6, <1>7, <1>8 DEF SyncInv, Queued, Threads, queues
<1>. QED BY <1>4, <1>9

\* What the thread of directory p may do to the entries and to what is asked for.
LEMMA OneDirectory ==
    ASSUME SyncInv, NEW p \in Paths, update' = update,
           \A q \in Paths : q # p => walk'[q] = walk[q] /\ todo'[q] = todo[q] /\ adding'[q] = adding[q],
           walk[p] # "none", walk'[p] \notin {"none", "push", "queued", "open"},
           todo'[p] \subseteq Entries(p),
           walk'[p] = "read" => \A q \in todo'[p] : Fresh(q),
           adding'[p] # NoAdd => /\ walk'[p] = "read"
                                 /\ adding'[p].path \in Entries(p) \ todo'[p]
                                 /\ Fresh(adding'[p].path)
    PROVE  OncePerPath'
<1>1. \A q \in Paths : (walk'[q] = "none" /\ update'[q] = "none") <=> Fresh(q)
  BY DEF Fresh
<1>2. \A q \in Paths : Entries(q) \subseteq Paths
  BY DEF Entries
<1>3. ASSUME NEW d \in Paths
      PROVE  /\ walk'[d] \in {"none", "push", "queued", "open"} =>
                    \A q \in Entries(d) : walk'[q] = "none" /\ update'[q] = "none"
             /\ walk'[d] = "read" => \A q \in todo'[d] : walk'[q] = "none" /\ update'[q] = "none"
             /\ adding'[d] # NoAdd =>
                    /\ walk'[d] = "read"
                    /\ adding'[d].path \in Entries(d) \ todo'[d]
                    /\ walk'[adding'[d].path] = "none" /\ update'[adding'[d].path] = "none"
  <2>1. CASE d = p
    <3>1. todo'[d] \subseteq Paths
      BY <2>1, <1>2
    <3>. QED BY <2>1, <1>1, <1>2, <3>1
  <2>2. CASE d # p
    <3>1. /\ walk[d] \in {"none", "push", "queued", "open"} => \A q \in Entries(d) : Fresh(q)
          /\ walk[d] = "read" => \A q \in todo[d] : Fresh(q)
          /\ adding[d] # NoAdd => /\ walk[d] = "read"
                                  /\ adding[d].path \in Entries(d) \ todo[d]
                                  /\ Fresh(adding[d].path)
          /\ todo[d] \subseteq Entries(d)
      BY DEF SyncInv, OncePerPath, SyncTypes
    <3>2. walk'[d] = walk[d] /\ todo'[d] = todo[d] /\ adding'[d] = adding[d]
      BY <2>2
    <3>. QED BY <3>1, <3>2, <1>1, <1>2
  <2>. QED BY <2>1, <2>2
<1>. QED BY <1>3 DEF OncePerPath, Fresh

LEMMA StepOpen ==
    ASSUME SyncInv, NEW p \in Paths, NEW ok \in BOOLEAN, LocalOpen(p, ok) \/ RemoteOpen(p, ok)
    PROVE  SyncInv'
<1>1. /\ \/ walk[p] = "open" /\ walk'[p] \in {"read", "finish"}
         \/ walk[p] = "ropen" /\ walk'[p] \in {"rread", "rfinish"}
      /\ \A q \in Paths : q # p => walk'[q] = walk[q] /\ todo'[q] = todo[q]
      /\ walk' \in [Paths -> WalkStages]
      /\ todo' \in [Paths -> SUBSET Paths] /\ todo'[p] \subseteq Entries(p)
      /\ UNCHANGED <<Threads, target, localnames, adding>>
  <2>1. PICK s \in {"open", "ropen"}, t \in {source, target} :
            /\ walk[p] = s
            /\ walk' = [walk EXCEPT ![p] = IF ok THEN IF s = "open" THEN "read" ELSE "rread"
                                           ELSE IF s = "open" THEN "finish" ELSE "rfinish"]
            /\ todo' = [todo EXCEPT ![p] = IF ok THEN {q \in Entries(p) : t[q] # "none"} ELSE {}]
            /\ UNCHANGED <<Threads, target, localnames, adding>>
    BY DEF LocalOpen, RemoteOpen, Open
  <2>2. Entries(p) \subseteq Paths
    BY DEF Entries
  <2>. QED BY <2>1, <2>2 DEF SyncInv, SyncTypes, WalkStages
<1>2. met' \subseteq Situations /\ (LostUpdate' <=> LostUpdate)
  BY DEF LocalOpen, RemoteOpen, LostUpdate, SyncInv, SyncTypes, Situations
<1>3. SyncTypes'
  BY <1>1, <1>2 DEF SyncInv, SyncTypes, Threads, given
<1>4. OncePerPath'
  <2>1. adding[p] = NoAdd
    BY <1>1 DEF SyncInv, OncePerPath
  <2>2. walk'[p] = "read" => \A q \in todo'[p] : Fresh(q)
    BY <1>1 DEF SyncInv, OncePerPath
  <2>. QED BY <1>1, <2>1, <2>2, OneDirectory DEF Threads
<1>5. Counted' /\ NotBegun' /\ Queued'
  BY <1>1, <1>2, QuietStep
<1>. QED BY <1>3, <1>4, <1>5 DEF SyncInv

LEMMA StepReadError == ASSUME SyncInv, NEW p \in Paths, ReadError(p) PROVE SyncInv'
<1>1. /\ walk[p] \in {"read", "rread"} /\ adding[p] = NoAdd
      /\ todo' = [todo EXCEPT ![p] = {}]
      /\ UNCHANGED <<Threads, target, walk, localnames, adding>>
  BY DEF ReadError
<1>2. met' \subseteq Situations /\ (LostUpdate' <=> LostUpdate)
  BY DEF ReadError, LostUpdate, SyncInv, SyncTypes, Situations
<1>3. /\ todo' \in [Paths -> SUBSET Paths] /\ todo'[p] = {}
      /\ \A q \in Paths : q # p => todo'[q] = todo[q]
  BY <1>1 DEF SyncInv, SyncTypes
<1>4. SyncTypes'
  BY <1>1, <1>2, <1>3 DEF SyncInv, SyncTypes, Threads, given
<1>5. OncePerPath'
  BY <1>1, <1>3, OneDirectory DEF Threads
<1>6. Counted' /\ NotBegun' /\ Queued'
  BY <1>1, <1>2, QuietStep
<1>. QED BY <1>4, <1>5, <1>6 DEF SyncInv

LEMMA StepDirectoryRead == ASSUME SyncInv, NEW p \in Paths, DirectoryRead(p) PROVE SyncInv'
<1>1. /\ walk[p] \in {"read", "rread"} /\ adding[p] = NoAdd
      /\ walk' = [walk EXCEPT ![p] = IF @ = "read" THEN "finish" ELSE "rfinish"]
      /\ UNCHANGED <<Threads, target, todo, localnames, adding, met>>
  BY DEF DirectoryRead
<1>2. /\ walk' \in [Paths -> WalkStages]
      /\ \/ walk[p] = "read" /\ walk'[p] = "finish"
         \/ walk[p] = "rread" /\ walk'[p] = "rfinish"
      /\ \A q \in Paths : q # p => walk'[q] = walk[q]
  BY <1>1 DEF SyncInv, SyncTypes, WalkStages
<1>3. SyncTypes'
  BY <1>1, <1>2 DEF SyncInv, SyncTypes, Threads, given
<1>4. OncePerPath'
  <2>1. todo'[p] \subseteq Entries(p)
    BY <1>1 DEF SyncInv, SyncTypes
  <2>. QED BY <1>1, <1>2, <2>1, OneDirectory DEF Threads
<1>5. Counted' /\ NotBegun' /\ Queued'
  BY <1>1, <1>2, QuietStep DEF LostUpdate
<1>. QED BY <1>3, <1>4, <1>5 DEF SyncInv

LEMMA DeletedType ==
    ASSUME SyncInv, NEW q \in Paths, NEW t \in Deleted(target, q)
    PROVE  t \in [Paths -> {"none", "old", "alike", "file", "dir"}]
BY DEF Deleted, Without, SyncInv, SyncTypes

LEMMA StepEntry ==
    ASSUME SyncInv, NEW p \in Paths, NEW q \in todo[p], Reading(p, q, "read"),
           NEW t \in [Paths -> {"none", "old", "alike", "file", "dir"}],
           NEW what \in {"nothing", "walk", "update"}, NEW fails, NEW situation,
           situation \subseteq {"no directory", "like a directory"},
           Entry(p, q, t, what, fails, situation)
    PROVE  SyncInv'
<1>1. /\ walk[p] = "read" /\ adding[p] = NoAdd
      /\ target' = t
      /\ todo' = [todo EXCEPT ![p] = @ \ {q}]
      /\ localnames' = [localnames EXCEPT ![p] = IF delete_deprecated THEN @ \union {q} ELSE @]
      /\ adding' = [adding EXCEPT ![p] =
                       IF what = "nothing" THEN NoAdd
                       ELSE [what |-> what, path |-> q, read |-> refcount]]
      /\ UNCHANGED <<Threads, walk>>
  BY DEF Reading, Entry
<1>2. met' \subseteq Situations /\ (LostUpdate' <=> LostUpdate)
  BY DEF Entry, LostUpdate, SyncInv, SyncTypes, Situations
<1>3. todo[p] \subseteq Entries(p) /\ Entries(p) \subseteq Paths /\ refcount \in Nat
  BY DEF SyncInv, SyncTypes, Entries
<1>4. /\ todo' \in [Paths -> SUBSET Paths] /\ todo'[p] = todo[p] \ {q}
      /\ \A d \in Paths : d # p => todo'[d] = todo[d]
  BY <1>1 DEF SyncInv, SyncTypes
<1>5. /\ localnames' \in [Paths -> SUBSET Paths] /\ localnames'[p] \subseteq localnames[p] \union {q}
      /\ \A d \in Paths : d # p => localnames'[d] = localnames[d]
  BY <1>1, <1>3 DEF SyncInv, SyncTypes
<1>6. /\ adding' \in [Paths -> {NoAdd} \union Add]
      /\ adding'[p] # NoAdd => adding'[p].path = q
      /\ \A d \in Paths : d # p => adding'[d] = adding[d]
  <2>1. what # "nothing" => [what |-> what, path |-> q, read |-> refcount] \in Add
    BY <1>3 DEF Add
  <2>. QED BY <1>1, <2>1 DEF SyncInv, SyncTypes
<1>7. SyncTypes'
  <2>1. ASSUME NEW d \in Paths
        PROVE  todo'[d] \subseteq Entries(d) /\ localnames'[d] \subseteq Entries(d)
    <3>1. todo[d] \subseteq Entries(d) /\ localnames[d] \subseteq Entries(d)
      BY DEF SyncInv, SyncTypes
    <3>. QED BY <1>3, <1>4, <1>5, <3>1
  <2>. QED BY <1>1, <1>2, <1>4, <1>5, <1>6, <2>1 DEF SyncInv, SyncTypes, Threads, given
<1>8. OncePerPath'
  <2>1. \A d \in todo[p] : Fresh(d)
    BY <1>1 DEF SyncInv, OncePerPath
  <2>. QED BY <1>1, <1>3, <1>4, <1>6, <2>1, OneDirectory DEF Threads
<1>9. Counted' /\ NotBegun' /\ Queued'
  BY <1>1, <1>2, QuietStep
<1>. QED BY <1>7, <1>8, <1>9 DEF SyncInv

\* What walk_local_directory_job does with an entry comes down to Entry.
LEMMA StepEntries ==
    ASSUME SyncInv, NEW p \in Paths, NEW q \in todo[p], NEW ok \in BOOLEAN,
           \/ EntrySkipped(p, q) \/ EntryUnknown(p, q) \/ EntryDirectory(p, q)
           \/ EntryNew(p, q, ok) \/ EntryFile(p, q, ok)
    PROVE  SyncInv'
<1>. DEFINE Kinds == [Paths -> {"none", "old", "alike", "file", "dir"}]
<1>1. q \in Paths /\ target \in Kinds /\ [target EXCEPT ![q] = "dir"] \in Kinds
  BY DEF SyncInv, SyncTypes
<1>2. \A t \in Deleted(target, q) : t \in Kinds
  BY <1>1, DeletedType
<1>. HIDE DEF Kinds
<1>3. /\ Reading(p, q, "read")
      /\ \E t \in Kinds, what \in {"nothing", "walk", "update"}, fails \in BOOLEAN,
            situation \in SUBSET {"no directory", "like a directory"} :
               Entry(p, q, t, what, fails, situation)
  <2>1. CASE EntrySkipped(p, q) \/ EntryUnknown(p, q)
    BY <2>1, <1>1 DEF EntrySkipped, EntryUnknown
  <2>2. CASE EntryDirectory(p, q)
    BY <2>2, <1>1, <1>2 DEF EntryDirectory
  <2>3. CASE EntryNew(p, q, ok)
    BY <2>3, <1>1 DEF EntryNew
  <2>4. CASE EntryFile(p, q, ok)
    BY <2>4, <1>1, <1>2 DEF EntryFile
  <2>. QED BY <2>1, <2>2, <2>3, <2>4
<1>. QED BY <1>3, StepEntry DEF Kinds

LEMMA StepRemoteEntry ==
    ASSUME SyncInv, NEW p \in Paths, NEW q \in todo[p], RemoteEntry(p, q)
    PROVE  SyncInv'
<1>1. /\ walk[p] = "rread" /\ adding[p] = NoAdd
      /\ todo' = [todo EXCEPT ![p] = @ \ {q}]
      /\ target' = target \/ target' \in Deleted(target, q)
      /\ UNCHANGED <<Threads, walk, localnames, adding, met>>
  BY DEF RemoteEntry, Reading
<1>2. q \in Paths /\ todo[p] \subseteq Entries(p)
  BY DEF SyncInv, SyncTypes
<1>3. /\ todo' \in [Paths -> SUBSET Paths] /\ todo'[p] = todo[p] \ {q}
      /\ \A d \in Paths : d # p => todo'[d] = todo[d]
  BY <1>1 DEF SyncInv, SyncTypes
<1>4. target' \in [Paths -> {"none", "old", "alike", "file", "dir"}]
  BY <1>1, <1>2, DeletedType DEF SyncInv, SyncTypes
<1>5. SyncTypes'
  BY <1>1, <1>2, <1>3, <1>4 DEF SyncInv, SyncTypes, Threads, given
<1>6. OncePerPath'
  BY <1>1, <1>2, <1>3, OneDirectory DEF Threads
<1>7. Counted' /\ NotBegun' /\ Queued'
  BY <1>1, QuietStep DEF LostUpdate
<1>. QED BY <1>5, <1>6, <1>7 DEF SyncInv

LEMMA StepAddWrite == ASSUME SyncInv, NEW p \in Paths, AddWrite(p) PROVE SyncInv'
<1>. DEFINE a == adding[p]
            q == a.path
<1>1. /\ a # NoAdd /\ ~Freed
      /\ refcount' = a.read + 1
      /\ a.what = "walk" => walk' = [walk EXCEPT ![q] = "push"]
      /\ a.what # "walk" => walk' = walk
      /\ a.what = "update" => update' = [update EXCEPT ![q] = "push"]
      /\ a.what # "update" => update' = update
      /\ adding' = [adding EXCEPT ![p] = NoAdd]
      /\ UNCHANGED <<given, target, unref, todo, localnames, queues, failed, told>>
  BY DEF AddWrite
<1>2. /\ walk[p] = "read" /\ q \in Entries(p) \ todo[p] /\ Fresh(q) /\ q \in Paths /\ q # p
      /\ a \in Add /\ a.what \in {"walk", "update"} /\ a.read \in Nat
  BY <1>1 DEF SyncInv, OncePerPath, SyncTypes, Fresh, Add, Entries
<1>3. \A d \in Paths : d # p => q \notin Entries(d)
  BY <1>2 DEF Entries
<1>. HIDE DEF a
<1>4. /\ \A d \in Paths : d # q => walk'[d] = walk[d] /\ update'[d] = update[d]
      /\ \/ walk'[q] = "push" /\ update'[q] = "none"
         \/ walk'[q] = "none" /\ update'[q] = "push"
      /\ walk' \in [Paths -> WalkStages] /\ update' \in [Paths -> UpdateStages]
  <2>1. CASE a.what = "walk"
    BY <1>1, <1>2, <2>1 DEF SyncInv, SyncTypes, WalkStages, Fresh
  <2>2. CASE a.what = "update"
    BY <1>1, <1>2, <2>2 DEF SyncInv, SyncTypes, UpdateStages, Fresh
  <2>. QED BY <1>2, <2>1, <2>2
<1>5. /\ adding'[p] = NoAdd /\ \A d \in Paths : d # p => adding'[d] = adding[d]
      /\ adding' \in [Paths -> {NoAdd} \union Add]
  BY <1>1 DEF SyncInv, SyncTypes
<1>6. /\ met' \subseteq Situations
      /\ ~LostUpdate' => ~LostUpdate /\ refcount = a.read
  BY DEF AddWrite, LostUpdate, SyncInv, SyncTypes, Situations, a
<1>7. refcount' \in Nat /\ refcount' > 0
  BY <1>1, <1>2
<1>8. SyncTypes'
  BY <1>1, <1>4, <1>5, <1>6, <1>7 DEF SyncInv, SyncTypes, given
<1>9. mount = "done"
  BY <1>2, Begun
<1>10. OncePerPath'
  <2>1. \A d \in Paths : d # q => ((walk'[d] = "none" /\ update'[d] = "none") <=> Fresh(d))
    BY <1>4 DEF Fresh
  <2>2. ASSUME NEW d \in Paths
        PROVE  /\ walk'[d] \in {"none", "push", "queued", "open"} =>
                      \A e \in Entries(d) : walk'[e] = "none" /\ update'[e] = "none"
               /\ walk'[d] = "read" => \A e \in todo'[d] : walk'[e] = "none" /\ update'[e] = "none"
               /\ adding'[d] # NoAdd =>
                      /\ walk'[d] = "read"
                      /\ adding'[d].path \in Entries(d) \ todo'[d]
                      /\ walk'[adding'[d].path] = "none" /\ update'[adding'[d].path] = "none"
    <3>1. /\ walk[d] \in {"none", "push", "queued", "open"} => \A e \in Entries(d) : Fresh(e)
          /\ walk[d] = "read" => \A e \in todo[d] : Fresh(e)
          /\ adding[d] # NoAdd => /\ walk[d] = "read"
                                  /\ adding[d].path \in Entries(d) \ todo[d]
                                  /\ Fresh(adding[d].path)
          /\ todo[d] \subseteq Entries(d) /\ Entries(d) \subseteq Paths
      BY DEF SyncInv, OncePerPath, SyncTypes, Entries
    <3>2. CASE d = p
      BY <1>1, <1>2, <1>4, <1>5, <2>1, <3>1, <3>2
    <3>3. CASE d = q
      BY <1>1, <1>2, <1>3, <1>4, <1>5, <2>1, <3>1, <3>3 DEF Fresh
    <3>4. CASE d # p /\ d # q
      <4>1. walk'[d] = walk[d] /\ todo'[d] = todo[d] /\ adding'[d] = adding[d] /\ q \notin Entries(d)
        BY <1>1, <1>3, <1>4, <1>5, <3>4
      <4>. QED BY <2>1, <3>1, <4>1
    <3>. QED BY <3>2, <3>3, <3>4
  <2>. QED BY <2>2 DEF OncePerPath, Fresh
<1>11. Counted'
  <2>1. PICK x : x \notin Holders /\ Holders' = Holders \union {x}
    <3>1. CASE walk'[q] = "push" /\ update'[q] = "none"
      <4>1. <<"walk", q>> \notin Holders
        BY <1>2 DEF Holders, Fresh
      <4>2. Holders' = Holders \union {<<"walk", q>>}
        BY <1>1, <1>2, <1>4, <3>1 DEF Holders, given, Fresh
      <4>. QED BY <4>1, <4>2
    <3>2. CASE walk'[q] = "none" /\ update'[q] = "push"
      <4>1. <<"update", q>> \notin Holders
        BY <1>2 DEF Holders, Fresh
      <4>2. Holders' = Holders \union {<<"update", q>>}
        BY <1>1, <1>2, <1>4, <3>2 DEF Holders, given, Fresh
      <4>. QED BY <4>1, <4>2
    <3>. QED BY <1>4, <3>1, <3>2
  <2>2. Cardinality(Holders') = Cardinality(Holders) + 1
    BY <2>1, HoldersFinite, FS_AddElement
  <2>3. ~LostUpdate' => refcount' = Cardinality(Holders')
    BY <1>1, <1>6, <2>2 DEF SyncInv, Counted
  <2>4. unref' = unref /\ ~Freed'
    BY <1>1 DEF Freed
  <2>. QED BY <1>1, <1>7, <2>3, <2>4 DEF SyncInv, Counted
<1>12. NotBegun'
  BY <1>1, <1>9 DEF NotBegun, given
<1>13. Queued'
  <2>1. /\ LocalWaits' = LocalWaits /\ LocalWorks' = LocalWorks
        /\ RemoteWaits' = RemoteWaits /\ RemoteWorks' = RemoteWorks
    <3>1. \A d \in Paths : \/ walk'[d] = walk[d]
                           \/ walk[d] = "none" /\ walk'[d] \in {"none", "push"}
      BY <1>2, <1>4 DEF Fresh
    <3>. QED BY <3>1 DEF LocalWaits, LocalWorks, RemoteWaits, RemoteWorks
  <2>2. UpdateWaits' = UpdateWaits /\ UpdateWorks' = UpdateWorks
    <3>1. \A d \in Paths : \/ update'[d] = update[d]
                           \/ update[d] = "none" /\ update'[d] \in {"none", "push"}
      BY <1>2, <1>4 DEF Fresh
    <3>. QED BY <3>1 DEF UpdateWaits, UpdateWorks
  <2>. QED BY <1>1, <2>1, <2>2 DEF SyncInv, Queued, queues
<1>. QED BY <1>8, <1>10, <1>11, <1>12, <1>13 DEF SyncInv

-----------------------------------------------------------------------------

LEMMA InitInv == SyncInit => SyncInv
<1>. SUFFICES ASSUME SyncInit PROVE SyncInv
  OBVIOUS
<1>1. SyncTypes
  BY DEF SyncInit, SyncTypes, WalkStages, UpdateStages, Situations, None
<1>2. NotBegun
  BY DEF SyncInit, NotBegun
<1>3. OncePerPath
  <2>1. \A p \in Paths : Entries(p) \subseteq Paths
    BY DEF Entries
  <2>. QED BY <2>1 DEF SyncInit, OncePerPath, Fresh
<1>4. Counted
  <2>1. Holders = {}
    BY DEF SyncInit, Holders
  <2>2. Cardinality(Holders) = 0
    BY <2>1, FS_EmptySet
  <2>3. refcount = 0 /\ unref = None /\ ~Freed /\ mount = "none"
    BY DEF SyncInit, Freed
  <2>. QED BY <2>2, <2>3 DEF Counted
<1>5. Queued
  <2>1. /\ LocalWaits = {} /\ LocalWorks = {} /\ RemoteWaits = {} /\ RemoteWorks = {}
        /\ UpdateWaits = {} /\ UpdateWorks = {}
    BY DEF SyncInit, LocalWaits, LocalWorks, RemoteWaits, RemoteWorks, UpdateWaits, UpdateWorks
  <2>2. LP!Serves(Paths, EmptyQueue, {}, {})
    <3>1. LP!EmptyQueue = EmptyQueue
      BY DEF LP!EmptyQueue, EmptyQueue
    <3>. QED BY <3>1, LocalLimit, LP!EmptyServes
             DEF LP!MaxWorknumAssumption, LP!WordSizeAssumption
  <2>3. RP!Serves(Paths, EmptyQueue, {}, {})
    <3>1. RP!EmptyQueue = EmptyQueue
      BY DEF RP!EmptyQueue, EmptyQueue
    <3>. QED BY <3>1, RemoteLimit, RP!EmptyServes
             DEF RP!MaxWorknumAssumption, RP!WordSizeAssumption
  <2>4. UP!Serves(Paths, EmptyQueue, {}, {})
    <3>1. UP!EmptyQueue = EmptyQueue
      BY DEF UP!EmptyQueue, EmptyQueue
    <3>. QED BY <3>1, UpdateLimit, UP!EmptyServes
             DEF UP!MaxWorknumAssumption, UP!WordSizeAssumption
  <2>5. /\ queue_walkdir_local = EmptyQueue /\ queue_walkdir_remote = EmptyQueue
        /\ queue_update = EmptyQueue
    BY DEF SyncInit
  <2>. QED BY <2>1, <2>2, <2>3, <2>4, <2>5 DEF Queued
<1>. QED BY <1>1, <1>2, <1>3, <1>4, <1>5 DEF SyncInv

LEMMA NextInv == SyncInv /\ [SyncNext]_syncVars => SyncInv'
<1>. SUFFICES ASSUME SyncInv, [SyncNext]_syncVars PROVE SyncInv'
  OBVIOUS
<1>1. CASE SyncDirectory
  BY <1>1, StepSyncDirectory
<1>2. CASE MainStep
  BY <1>2, StepSyncUnref, StepMountLcb, StepWalkLocalDirectoryPush,
     StepWalkLocalDirectoryJobFinished, StepWalkDirectoryRemoteJobFinished,
     StepDoUpdatePush, StepDoUpdateLcb DEF MainStep
<1>3. CASE ThreadStep
  <2>1. PICK p \in Paths :
            \/ ReadError(p) \/ DirectoryRead(p) \/ AddWrite(p)
            \/ \E ok \in BOOLEAN : LocalOpen(p, ok) \/ RemoteOpen(p, ok)
            \/ \E q \in todo[p], ok \in BOOLEAN :
                  \/ EntrySkipped(p, q) \/ EntryUnknown(p, q) \/ EntryDirectory(p, q)
                  \/ EntryNew(p, q, ok) \/ EntryFile(p, q, ok)
            \/ \E q \in todo[p] : RemoteEntry(p, q)
    BY <1>3 DEF ThreadStep
  <2>. QED BY <2>1, StepReadError, StepDirectoryRead, StepAddWrite, StepOpen, StepEntries,
              StepRemoteEntry
<1>4. CASE UNCHANGED syncVars
  <2>1. Holders' = Holders
    BY <1>4 DEF syncVars, given, walks, Holders
  <2>2. SyncTypes' /\ NotBegun'
    BY <1>4 DEF SyncInv, syncVars, given, walks, SyncTypes, NotBegun
  <2>3. OncePerPath'
    BY <1>4 DEF SyncInv, syncVars, walks, OncePerPath, Fresh
  <2>4. Counted'
    BY <1>4, <2>1 DEF SyncInv, syncVars, given, Counted, LostUpdate, Freed
  <2>5. Queued'
    BY <1>4 DEF SyncInv, syncVars, walks, queues, Queued, LocalWaits, LocalWorks, RemoteWaits,
                RemoteWorks, UpdateWaits, UpdateWorks
  <2>. QED BY <2>2, <2>3, <2>4, <2>5 DEF SyncInv
<1>. QED BY <1>1, <1>2, <1>3, <1>4 DEF SyncNext

LEMMA Invariant == SyncSpec => []SyncInv
BY InitInv, NextInv, PTL DEF SyncSpec

\* Each instance of AsyncQueueProofs has its own name for the number of members.
LEMMA SameCardinality ==
    ASSUME NEW S
    PROVE  /\ LP!Cardinality(S) = Cardinality(S)
           /\ RP!Cardinality(S) = Cardinality(S)
           /\ UP!Cardinality(S) = Cardinality(S)
BY DEF LP!Cardinality, RP!Cardinality, UP!Cardinality, Cardinality

\* The count of the Tsync is the number of what holds it, so that the callback that frees it is
\* the last one, and worknum of each of the three queues is the number of its jobs, unless two of
\* the unprotected changes of the count met (sync_unref, do_update, walk_local_directory).
THEOREM SpecSyncCount == SyncSpec => []SyncCount
<1>1. SyncInv => SyncCount
  <2>. SUFFICES ASSUME SyncInv PROVE SyncCount
    OBVIOUS
  <2>1. SyncTypeOK
    BY DEF SyncInv, SyncTypes, SyncTypeOK, TargetStates
  <2>2. /\ queue_walkdir_local.worknum = Cardinality(LocalWorks)
        /\ queue_walkdir_remote.worknum = Cardinality(RemoteWorks)
        /\ queue_update.worknum = Cardinality(UpdateWorks)
    BY SameCardinality DEF SyncInv, Queued, LP!Serves, RP!Serves, UP!Serves
  <2>3. ASSUME ~LostUpdate
        PROVE  refcount = Cardinality(Holders) /\ (mount # "none" => (Freed <=> Holders = {}))
    <3>1. refcount = Cardinality(Holders)
      BY <2>3 DEF SyncInv, Counted
    <3>2. Holders = {} <=> refcount = 0
      BY <3>1, HoldersFinite, FS_EmptySet
    <3>3. mount # "none" => (Freed <=> refcount = 0)
      BY <2>3 DEF SyncInv, Counted
    <3>. QED BY <3>1, <3>2, <3>3
  <2>. QED BY <2>1, <2>2, <2>3
       DEF SyncCount, LostUpdate, LocalWorks, RemoteWorks, UpdateWorks
<1>. QED BY <1>1, Invariant, PTL

-----------------------------------------------------------------------------
(* The trees                                                               *)

LEMMA BelowSelf == ASSUME NEW e \in Paths PROVE e \in Below[e]
BY DEF Below

LEMMA BelowStep ==
    ASSUME NEW e \in Paths, NEW q \in Paths \ {Root}, Above[q] \in Below[e]
    PROVE  q \in Below[e]
<1>1. ASSUME NEW S \in SUBSET Paths, e \in S, Closed(S)
      PROVE  q \in S
  <2>1. Above[q] \in S
    BY <1>1 DEF Below
  <2>. QED BY <1>1, <2>1 DEF Closed, Entries
<1>. QED BY <1>1 DEF Below

\* What holds of a path and goes from a directory to its entries holds of all below the path.
LEMMA Downwards ==
    ASSUME NEW e \in Paths, NEW S \in SUBSET Paths, e \in S,
           \A q \in Paths \ {Root} : Above[q] \in S => q \in S
    PROVE  Below[e] \subseteq S
<1>1. Closed(S)
  BY DEF Closed, Entries
<1>. QED BY <1>1 DEF Below

LEMMA BelowNoDirectory ==
    ASSUME NEW t, IsTree(t), NEW e \in Paths, t[e] # "dir", NEW p \in Below[e], p # e
    PROVE  t[p] = "none"
<1>. DEFINE S == {x \in Paths : x = e \/ t[x] = "none"}
<1>1. \A q \in Paths \ {Root} : Above[q] \in S => q \in S
  BY DEF IsTree
<1>2. Below[e] \subseteq S
  BY <1>1, Downwards
<1>. QED BY <1>2

LEMMA AboveThere ==
    ASSUME NEW t, IsTree(t), NEW e \in Paths, NEW p \in Below[e], t[p] # "none"
    PROVE  t[e] # "none"
BY BelowNoDirectory

\* What a deletion below q leaves
LEMMA DeletedShape ==
    ASSUME NEW e \in Paths, NEW t \in Deleted(target, e)
    PROVE  /\ IsTree(t)
           /\ \A p \in Paths : t[p] = target[p] \/ (p \in Below[e] /\ t[p] = "none")
BY DEF Deleted, Without

LEMMA DeletedKeeps ==
    ASSUME NEW e \in Paths, NEW t \in Deleted(target, e), IsTree(source), IsTree(target),
           source[e] # "dir" \/ target[e] # "dir",
           NEW p \in Paths, p # e, source[p] # "none"
    PROVE  t[p] = target[p]
BY DeletedShape, BelowNoDirectory

-----------------------------------------------------------------------------
(* What the target holds                                                   *)

Rooted == mount # "none" => IsTree(source) /\ IsTree(target)

\* Directories are walked, files copied.
AskedKind(p) ==
    adding[p] # NoAdd => /\ adding[p].what = "walk" => source[adding[p].path] = "dir"
                         /\ adding[p].what = "update" => source[adding[p].path] = "file"
Kinds ==
    \A p \in Paths :
        /\ walk[p] # "none" => source[p] = "dir"
        /\ update[p] # "none" => source[p] = "file"
        /\ AskedKind(p)
        /\ walk[p] = "read" => \A q \in todo[p] : source[q] # "none"

\* The walk of the target's directory knows the names that the source has.
Named ==
    \A p \in Paths :
        /\ \A q \in localnames[p] : source[q] # "none"
        /\ mount = "none" => localnames[p] = {}
        /\ walk[p] \in {"rqueued", "ropen", "rread", "rfinish"} => delete_deprecated
        /\ delete_deprecated /\ "unread" \notin met =>
              \A q \in Entries(p) : source[q] # "none" =>
                  /\ walk[p] = "read" => q \in todo[p] \union localnames[p]
                  /\ walk[p] \in {"finish", "rqueued", "ropen", "rread"} => q \in localnames[p]

Clean == ~failed /\ met \intersect {"mount failed", "lost update", "no directory", "like a directory"} = {}

\* The walk of p has dealt with its entry q.
Passed(p, q) == walk[p] \notin {"none", "push", "queued", "open"} /\ (walk[p] = "read" => q \notin todo[p])
Asked(p, q) == adding[p] # NoAdd /\ adding[p].path = q

Copied ==
    Clean => \A p \in Paths : \A q \in Entries(p) \ Excluded :
        Passed(p, q) =>
            /\ source[q] = "file" =>
                  target[q] \in {"file", "alike"} \/ Asked(p, q) \/ update[q] \in {"push", "queued", "copy"}
            /\ source[q] = "dir" => target[q] = "dir" /\ (Asked(p, q) \/ walk[q] # "none")

Cleared ==
    Clean /\ delete_deprecated => \A p \in Paths : \A q \in Entries(p) :
        source[q] = "none" =>
            /\ walk[p] = "rread" => target[q] = "none" \/ q \in todo[p]
            /\ walk[p] \in {"rfinish", "gone"} => target[q] = "none"

Reported ==
    /\ "unread" \in met => failed
    /\ told = "completed" => ~failed
    /\ mount = "done" /\ "mount failed" \notin met => walk[Root] # "none"

MInv == Rooted /\ Kinds /\ Named /\ Copied /\ Cleared /\ Reported

LEMMA SameAskedKind ==
    ASSUME NEW p \in Paths, adding'[p] = adding[p], source' = source, AskedKind(p)
    PROVE  AskedKind(p)'
<1>1. adding'[p].what = adding[p].what /\ adding'[p].path = adding[p].path
  OBVIOUS
<1>2. source'[adding'[p].path] = source[adding[p].path]
  BY <1>1
<1>. QED BY <1>1, <1>2 DEF AskedKind

\* A walk goes on, and no entry is dealt with.
GoesOn(p) ==
    \/ walk'[p] = walk[p]
    \/ walk[p] \in {"push", "queued", "open"} /\ walk'[p] \in {"push", "queued", "open"}
    \/ walk[p] \in {"finish", "rqueued", "ropen"} /\ walk'[p] \in {"rqueued", "ropen"} /\ delete_deprecated
    \/ walk[p] = "finish" /\ walk'[p] = "gone" /\ ~delete_deprecated
    \/ walk[p] = "rfinish" /\ walk'[p] = "gone"

LEMMA WaitStep ==
    ASSUME SyncInv, MInv,
           UNCHANGED <<given, target, todo, localnames, adding, failed>>,
           met \subseteq met', met' \subseteq met \union {"lost update"},
           told' = "completed" => told = "completed" \/ ~failed,
           \A p \in Paths : GoesOn(p),
           \A p \in Paths : \/ update'[p] = update[p]
                            \/ /\ update[p] \in {"push", "queued", "copy"}
                               /\ update'[p] \in {"push", "queued", "copy"}
    PROVE  MInv'
<1>. USE DEF given
<1>1. Rooted'
  BY DEF MInv, Rooted, IsTree
<1>2. Kinds'
  <2>1. ASSUME NEW p \in Paths
        PROVE  /\ walk'[p] # "none" => walk[p] # "none"
               /\ update'[p] # "none" => update[p] # "none"
               /\ walk'[p] = "read" => walk[p] = "read"
    BY DEF GoesOn
  <2>2. \A p \in Paths : AskedKind(p)'
    BY SameAskedKind DEF MInv, Kinds
  <2>3. source' = source /\ todo' = todo
    OBVIOUS
  <2>. QED BY <2>1, <2>2, <2>3 DEF MInv, Kinds
<1>3. Named'
  BY DEF MInv, Named, GoesOn, Entries
<1>c. Clean' => Clean
  BY DEF Clean
<1>4. Copied'
  <2>1. ASSUME NEW p \in Paths, NEW q \in Entries(p)
        PROVE  (Passed(p, q)' => Passed(p, q)) /\ (Asked(p, q)' <=> Asked(p, q)) /\ q \in Paths
               /\ (walk[q] # "none" => walk'[q] # "none")
    BY DEF Passed, Asked, GoesOn, Entries
  <2>2. ASSUME Clean', NEW p \in Paths, NEW q \in Entries(p) \ Excluded, Passed(p, q)'
        PROVE  /\ source[q] = "file" =>
                      target[q] \in {"file", "alike"} \/ Asked(p, q)' \/ update'[q] \in {"push", "queued", "copy"}
               /\ source[q] = "dir" => target[q] = "dir" /\ (Asked(p, q)' \/ walk'[q] # "none")
    BY <1>c, <2>1, <2>2 DEF MInv, Copied
  <2>. QED BY <2>2 DEF Copied, Entries
<1>5. Cleared'
  BY <1>c DEF MInv, Cleared, GoesOn, Entries
<1>6. Reported'
  BY PathsAssumption DEF MInv, Reported, GoesOn
<1>. QED BY <1>1, <1>2, <1>3, <1>4, <1>5, <1>6 DEF MInv

-----------------------------------------------------------------------------
(* The steps of the main loop                                              *)

LEMMA MountKeeps == ASSUME SyncInv, MInv, NEW ok \in BOOLEAN, MountLcb(ok) PROVE MInv'
<1>1. /\ mount = "mounting" /\ mount' = "done"
      /\ UNCHANGED <<source, delete_deprecated, target, todo, localnames, adding, update, queues,
                     failed, told>>
      /\ walk' = IF ok THEN [walk EXCEPT ![Root] = "push"] ELSE walk
      /\ met' = IF ok THEN met ELSE met \union {"mount failed"}
  BY DEF MountLcb
<1>2. /\ \A p \in Paths : walk[p] = "none" /\ update[p] = "none" /\ adding[p] = NoAdd
      /\ told = "nothing" /\ met = {} /\ IsTree(source) /\ IsTree(target)
  BY <1>1 DEF SyncInv, NotBegun, MInv, Rooted
<1>3. \A p \in Paths : walk'[p] = IF ok /\ p = Root THEN "push" ELSE "none"
  BY <1>1, <1>2 DEF SyncInv, SyncTypes
<1>4. Rooted'
  BY <1>1, <1>2 DEF Rooted, IsTree
<1>5. Kinds'
  <2>1. source[Root] = "dir"
    BY <1>2 DEF IsTree
  <2>2. \A p \in Paths : AskedKind(p)'
    BY <1>1, <1>2 DEF AskedKind
  <2>3. \A p \in Paths : walk'[p] # "read" /\ (walk'[p] # "none" => p = Root)
    BY <1>3
  <2>4. update' = update /\ source' = source
    BY <1>1
  <2>. QED BY <1>2, <2>1, <2>2, <2>3, <2>4 DEF Kinds
<1>6. Named' /\ Copied' /\ Cleared'
  <2>1. \A p \in Paths : walk'[p] \in {"none", "push"}
    BY <1>3
  <2>2. Named'
    BY <1>1, <2>1 DEF MInv, Named
  <2>3. Copied'
    BY <2>1 DEF Copied, Passed
  <2>4. Cleared'
    BY <2>1 DEF Cleared
  <2>. QED BY <2>2, <2>3, <2>4
<1>7. Reported'
  <2>1. ok => walk'[Root] = "push"
    BY <1>3, PathsAssumption
  <2>. QED BY <1>1, <1>2, <2>1 DEF Reported
<1>. QED BY <1>4, <1>5, <1>6, <1>7 DEF MInv

LEMMA DirectoryKeeps == ASSUME SyncInv, MInv, SyncDirectory PROVE MInv'
<1>1. /\ mount = "none" /\ mount' = "mounting"
      /\ UNCHANGED <<unref, walks, update, queues, failed, told, met>>
      /\ IsTree(source)' /\ IsTree(target)'
  BY DEF SyncDirectory, Trees, IsTree
<1>2. /\ \A p \in Paths : walk[p] = "none" /\ update[p] = "none" /\ adding[p] = NoAdd
      /\ told = "nothing" /\ met = {}
  BY <1>1 DEF SyncInv, NotBegun
<1>3. Kinds'
  BY <1>1, <1>2 DEF Kinds, AskedKind, walks
<1>4. Named' /\ Copied' /\ Cleared'
  BY <1>1, <1>2 DEF MInv, Named, Copied, Cleared, Passed, walks
<1>5. Reported'
  BY <1>1, <1>2 DEF Reported
<1>. QED BY <1>1, <1>3, <1>4, <1>5 DEF MInv, Rooted

LEMMA UnrefKeeps == ASSUME SyncInv, MInv, SyncUnref PROVE MInv'
<1>1. /\ UNCHANGED <<given, target, walks, update, queues, failed>>
      /\ met' \in {met, met \union {"lost update"}}
      /\ told' = told \/ told' = IF failed THEN "incomplete" ELSE "completed"
  BY DEF SyncUnref
<1>. QED BY <1>1, WaitStep DEF walks, GoesOn

LEMMA LocalPushKeeps ==
    ASSUME SyncInv, MInv, NEW p \in Paths, WalkLocalDirectoryPush(p)
    PROVE  MInv'
<1>. DEFINE Q == LQ!Push(queue_walkdir_local, p)
<1>1. /\ walk[p] = "push"
      /\ walk' = [q \in Paths |-> IF q \in LQ!Started(Q) THEN "open"
                                  ELSE IF q = p THEN "queued" ELSE walk[q]]
      /\ UNCHANGED <<given, target, refcount, unref, todo, localnames, adding, update,
                     queue_walkdir_remote, queue_update, failed, told, met>>
  BY DEF WalkLocalDirectoryPush
<1>2. \/ /\ LQ!Started(Q) = {p}
         /\ LP!Serves(Paths, LQ!Run(Q), LocalWaits, LocalWorks \union {p})
      \/ /\ LQ!Started(Q) = {}
         /\ LP!Serves(Paths, LQ!Run(Q), LocalWaits \union {p}, LocalWorks)
  <2>1. p \notin LocalWaits /\ p \notin LocalWorks
    BY <1>1 DEF LocalWaits, LocalWorks
  <2>. QED BY <2>1, LocalPush DEF SyncInv, Queued
<1>. HIDE DEF Q
<1>3. \A q \in Paths : GoesOn(q)
  BY <1>1, <1>2 DEF GoesOn
<1>. QED BY <1>1, <1>3, WaitStep

LEMMA LocalFinishedKeeps ==
    ASSUME SyncInv, MInv, NEW p \in Paths, WalkLocalDirectoryJobFinished(p)
    PROVE  MInv'
<1>. DEFINE ends == LQ!WorkerReady(queue_walkdir_local)
            next == RQ!Push(queue_walkdir_remote, p)
<1>1. /\ walk[p] = "finish"
      /\ walk' = [q \in Paths |->
                     IF q \in LQ!Started(ends) THEN "open"
                     ELSE IF delete_deprecated /\ q \in RQ!Started(next) THEN "ropen"
                     ELSE IF q # p THEN walk[q]
                     ELSE IF delete_deprecated THEN "rqueued" ELSE "gone"]
      /\ UNCHANGED <<given, target, refcount, todo, localnames, adding, update, queue_update,
                     failed, told, met>>
  BY DEF WalkLocalDirectoryJobFinished
<1>2. LQ!Started(ends) \subseteq LocalWaits
  <2>1. p \in LocalWorks /\ LocalWaits \intersect LocalWorks = {}
    BY <1>1 DEF LocalWaits, LocalWorks
  <2>2. \/ \E t \in LocalWaits :
              /\ LQ!Started(ends) = {t}
              /\ LP!Serves(Paths, LQ!Run(ends), LocalWaits \ {t}, (LocalWorks \ {p}) \union {t})
        \/ /\ LQ!Started(ends) = {}
           /\ LP!Serves(Paths, LQ!Run(ends), LocalWaits, LocalWorks \ {p})
    BY <2>1, LocalReady DEF SyncInv, Queued
  <2>. QED BY <2>2
<1>3. RQ!Started(next) \subseteq {p}
  <2>1. p \notin RemoteWaits /\ p \notin RemoteWorks
    BY <1>1 DEF RemoteWaits, RemoteWorks
  <2>2. \/ /\ RQ!Started(next) = {p}
           /\ RP!Serves(Paths, RQ!Run(next), RemoteWaits, RemoteWorks \union {p})
        \/ /\ RQ!Started(next) = {}
           /\ RP!Serves(Paths, RQ!Run(next), RemoteWaits \union {p}, RemoteWorks)
    BY <2>1, RemotePush DEF SyncInv, Queued
  <2>. QED BY <2>2
<1>. HIDE DEF ends, next
<1>4. \A q \in Paths : GoesOn(q)
  BY <1>1, <1>2, <1>3 DEF GoesOn, LocalWaits
<1>. QED BY <1>1, <1>4, WaitStep

LEMMA RemoteFinishedKeeps ==
    ASSUME SyncInv, MInv, NEW p \in Paths, WalkDirectoryRemoteJobFinished(p)
    PROVE  MInv'
<1>. DEFINE ends == RQ!WorkerReady(queue_walkdir_remote)
<1>1. /\ walk[p] = "rfinish"
      /\ walk' = [q \in Paths |-> IF q \in RQ!Started(ends) THEN "ropen"
                                  ELSE IF q = p THEN "gone" ELSE walk[q]]
      /\ UNCHANGED <<given, target, refcount, todo, localnames, adding, update,
                     queue_walkdir_local, queue_update, failed, told, met>>
  BY DEF WalkDirectoryRemoteJobFinished
<1>2. RQ!Started(ends) \subseteq RemoteWaits
  <2>1. p \in RemoteWorks /\ RemoteWaits \intersect RemoteWorks = {}
    BY <1>1 DEF RemoteWaits, RemoteWorks
  <2>2. \/ \E t \in RemoteWaits :
              /\ RQ!Started(ends) = {t}
              /\ RP!Serves(Paths, RQ!Run(ends), RemoteWaits \ {t}, (RemoteWorks \ {p}) \union {t})
        \/ /\ RQ!Started(ends) = {}
           /\ RP!Serves(Paths, RQ!Run(ends), RemoteWaits, RemoteWorks \ {p})
    BY <2>1, RemoteReady DEF SyncInv, Queued
  <2>. QED BY <2>2
<1>. HIDE DEF ends
<1>3. \A q \in RemoteWaits : delete_deprecated /\ walk[q] = "rqueued"
  BY DEF MInv, Named, RemoteWaits
<1>4. \A q \in Paths : GoesOn(q)
  BY <1>1, <1>2, <1>3 DEF GoesOn
<1>. QED BY <1>1, <1>4, WaitStep

LEMMA UpdatePushKeeps == ASSUME SyncInv, MInv, NEW p \in Paths, DoUpdatePush(p) PROVE MInv'
<1>. DEFINE Q == UQ!Push(queue_update, p)
<1>1. /\ update[p] = "push"
      /\ update' = [q \in Paths |-> IF q \in UQ!Started(Q) THEN "copy"
                                    ELSE [update EXCEPT ![p] = "queued"][q]]
      /\ UNCHANGED <<given, target, refcount, unref, walks, queue_walkdir_local,
                     queue_walkdir_remote, failed, told, met>>
  BY DEF DoUpdatePush, RunUpdate
<1>2. \/ /\ UQ!Started(Q) = {p}
         /\ UP!Serves(Paths, UQ!Run(Q), UpdateWaits, UpdateWorks \union {p})
      \/ /\ UQ!Started(Q) = {}
         /\ UP!Serves(Paths, UQ!Run(Q), UpdateWaits \union {p}, UpdateWorks)
  <2>1. p \notin UpdateWaits /\ p \notin UpdateWorks
    BY <1>1 DEF UpdateWaits, UpdateWorks
  <2>. QED BY <2>1, UpdatePush DEF SyncInv, Queued
<1>. HIDE DEF Q
<1>3. \A q \in Paths : \/ update'[q] = update[q]
                       \/ /\ update[q] \in {"push", "queued", "copy"}
                          /\ update'[q] \in {"push", "queued", "copy"}
  BY <1>1, <1>2 DEF SyncInv, SyncTypes
<1>. QED BY <1>1, <1>3, WaitStep DEF walks, GoesOn

LEMMA UpdateLcbKeeps ==
    ASSUME SyncInv, MInv, NEW p \in Paths, NEW ok \in BOOLEAN, DoUpdateLcb(p, ok)
    PROVE  MInv'
<1>. DEFINE ends == UQ!WorkerReady(queue_update)
<1>1. /\ update[p] = "copy"
      /\ ok => target[Above[p]] = "dir" /\ target[p] # "dir"
      /\ target' = IF ok THEN [target EXCEPT ![p] = "file"] ELSE target
      /\ failed' = (failed \/ ~ok)
      /\ update' = [q \in Paths |-> IF q \in UQ!Started(ends) THEN "copy"
                                    ELSE [update EXCEPT ![p] = "gone"][q]]
      /\ UNCHANGED <<given, refcount, walks, queue_walkdir_local, queue_walkdir_remote, told, met>>
  BY DEF DoUpdateLcb, RunUpdate
<1>2. UQ!Started(ends) \subseteq UpdateWaits
  <2>1. p \in UpdateWorks /\ UpdateWaits \intersect UpdateWorks = {}
    BY <1>1 DEF UpdateWaits, UpdateWorks
  <2>2. \/ \E t \in UpdateWaits :
              /\ UQ!Started(ends) = {t}
              /\ UP!Serves(Paths, UQ!Run(ends), UpdateWaits \ {t}, (UpdateWorks \ {p}) \union {t})
        \/ /\ UQ!Started(ends) = {}
           /\ UP!Serves(Paths, UQ!Run(ends), UpdateWaits, UpdateWorks \ {p})
    BY <2>1, UpdateReady DEF SyncInv, Queued
  <2>. QED BY <2>2
<1>. HIDE DEF ends
<1>3. /\ \A q \in Paths : update'[q] # "none" => update[q] # "none"
      /\ \A q \in Paths : q # p => (update[q] \in {"push", "queued", "copy"}
                                       => update'[q] \in {"push", "queued", "copy"})
  BY <1>1, <1>2 DEF UpdateWaits, SyncInv, SyncTypes
<1>4. /\ mount = "done" /\ source[p] = "file" /\ IsTree(source) /\ IsTree(target)
  BY <1>1, Begun DEF MInv, Kinds, Rooted
<1>5. \A q \in Paths : target'[q] = IF ok /\ q = p THEN "file" ELSE target[q]
  BY <1>1 DEF SyncInv, SyncTypes
<1>6. Rooted'
  <2>1. IsTree(target)'
    BY <1>1, <1>4, <1>5, PathsAssumption, AboveAssumption DEF IsTree
  <2>. QED BY <1>1, <1>4, <2>1 DEF Rooted, given, IsTree
<1>7. Kinds' /\ Named'
  <2>1. \A q \in Paths : AskedKind(q)'
    BY <1>1, SameAskedKind DEF MInv, Kinds, walks, given
  <2>2. Kinds'
    BY <1>1, <1>3, <2>1 DEF MInv, Kinds, walks, given
  <2>3. Named'
    BY <1>1 DEF MInv, Named, walks, given
  <2>. QED BY <2>2, <2>3
<1>c. Clean' => Clean /\ ok
  BY <1>1 DEF Clean
<1>8. Copied'
  <2>1. ASSUME Clean', NEW d \in Paths, NEW q \in Entries(d) \ Excluded, Passed(d, q)'
        PROVE  /\ source[q] = "file" =>
                      target'[q] \in {"file", "alike"} \/ Asked(d, q)' \/ update'[q] \in {"push", "queued", "copy"}
               /\ source[q] = "dir" => target'[q] = "dir" /\ (Asked(d, q)' \/ walk'[q] # "none")
    <3>1. Passed(d, q) /\ (Asked(d, q)' <=> Asked(d, q)) /\ q \in Paths /\ walk' = walk
      BY <1>1, <2>1 DEF Passed, Asked, walks, Entries
    <3>. QED BY <1>c, <1>3, <1>4, <1>5, <2>1, <3>1 DEF MInv, Copied
  <2>. QED BY <1>1, <2>1 DEF Copied, given
<1>9. Cleared'
  <2>1. \A q \in Paths : source[q] = "none" => target'[q] = target[q]
    BY <1>4, <1>5
  <2>. QED BY <1>1, <1>c, <2>1 DEF MInv, Cleared, walks, given, Entries
<1>10. Reported'
  <2>1. told # "completed"
    BY DEF DoUpdateLcb, MainLoop, Freed
  <2>. QED BY <1>1, <2>1 DEF MInv, Reported, walks, given
<1>. QED BY <1>6, <1>7, <1>8, <1>9, <1>10 DEF MInv

-----------------------------------------------------------------------------
(* The threads                                                             *)

\* A step of the thread of p that leaves the target as it is and asks for nothing.
LEMMA ThreadStepKeeps ==
    ASSUME SyncInv, MInv, NEW p \in Paths,
           UNCHANGED <<Threads, target, localnames, adding>>, ~Freed,
           met' \in {met, met \union {"unread"}}, failed => failed',
           "unread" \in met' => "unread" \in met \/ failed',
           \A q \in Paths : q # p => walk'[q] = walk[q] /\ todo'[q] = todo[q],
           walk[p] # "none", walk'[p] # "none",
           walk'[p] = "read" => \A q \in todo'[p] : source[q] # "none",
           walk'[p] \in {"rqueued", "ropen", "rread", "rfinish"} => delete_deprecated,
           delete_deprecated /\ "unread" \notin met' =>
              \A q \in Entries(p) : source[q] # "none" =>
                  /\ walk'[p] = "read" => q \in todo'[p] \union localnames[p]
                  /\ walk'[p] \in {"finish", "rqueued", "ropen", "rread"} => q \in localnames[p],
           Clean' => \A q \in Entries(p) : Passed(p, q)' => Passed(p, q) \/ source[q] = "none",
           Clean' /\ delete_deprecated => \A q \in Entries(p) :
               source[q] = "none" =>
                   /\ walk'[p] = "rread" => target[q] = "none" \/ q \in todo'[p]
                   /\ walk'[p] \in {"rfinish", "gone"} => target[q] = "none"
    PROVE  MInv'
<1>1. /\ UNCHANGED <<source, delete_deprecated, mount>> /\ update' = update /\ told' = told
      /\ target' = target /\ localnames' = localnames /\ adding' = adding
  BY DEF Threads, given
<1>2. Rooted'
  BY <1>1 DEF MInv, Rooted, IsTree
<1>3. Kinds'
  <2>1. \A q \in Paths : AskedKind(q)'
    BY <1>1, SameAskedKind DEF MInv, Kinds
  <2>. QED BY <1>1, <2>1 DEF MInv, Kinds
<1>4. Named'
  <2>1. ASSUME NEW d \in Paths
        PROVE  /\ walk'[d] \in {"rqueued", "ropen", "rread", "rfinish"} => delete_deprecated
               /\ delete_deprecated /\ "unread" \notin met' =>
                    \A q \in Entries(d) : source[q] # "none" =>
                       /\ walk'[d] = "read" => q \in todo'[d] \union localnames[d]
                       /\ walk'[d] \in {"finish", "rqueued", "ropen", "rread"} => q \in localnames[d]
    BY DEF MInv, Named
  <2>. QED BY <1>1, <2>1 DEF MInv, Named, Entries
<1>c. Clean' => Clean /\ ~failed'
  BY DEF Clean
<1>5. Copied'
  <2>1. ASSUME Clean', NEW d \in Paths, NEW q \in Entries(d) \ Excluded, Passed(d, q)'
        PROVE  /\ source[q] = "file" =>
                      target[q] \in {"file", "alike"} \/ Asked(d, q)' \/ update[q] \in {"push", "queued", "copy"}
               /\ source[q] = "dir" => target[q] = "dir" /\ (Asked(d, q)' \/ walk'[q] # "none")
    <3>1. q \in Paths /\ (Asked(d, q)' <=> Asked(d, q)) /\ (walk[q] # "none" => walk'[q] # "none")
      BY <1>1 DEF Entries, Asked
    <3>2. Passed(d, q) \/ source[q] = "none"
      BY <1>c, <2>1 DEF Passed
    <3>. QED BY <1>c, <2>1, <3>1, <3>2 DEF MInv, Copied
  <2>. QED BY <1>1, <2>1 DEF Copied, Entries
<1>6. Cleared'
  <2>1. ASSUME Clean', delete_deprecated, NEW d \in Paths, NEW q \in Entries(d), source[q] = "none"
        PROVE  /\ walk'[d] = "rread" => target[q] = "none" \/ q \in todo'[d]
               /\ walk'[d] \in {"rfinish", "gone"} => target[q] = "none"
    BY <1>c, <2>1 DEF MInv, Cleared
  <2>. QED BY <1>1, <2>1 DEF Cleared, Entries
<1>7. Reported'
  <2>1. ~failed' => ~failed
    OBVIOUS
  <2>2. "mount failed" \notin met' => "mount failed" \notin met
    OBVIOUS
  <2>. QED BY <1>1, <2>1, <2>2, PathsAssumption DEF MInv, Reported, Freed
<1>. QED BY <1>2, <1>3, <1>4, <1>5, <1>6, <1>7 DEF MInv

LEMMA OpenKeeps ==
    ASSUME SyncInv, MInv, NEW p \in Paths, NEW ok \in BOOLEAN, LocalOpen(p, ok) \/ RemoteOpen(p, ok)
    PROVE  MInv'
<1>1. CASE LocalOpen(p, ok)
  <2>1. /\ walk[p] = "open" /\ ~Freed
        /\ walk' = [walk EXCEPT ![p] = IF ok THEN "read" ELSE "finish"]
        /\ todo' = [todo EXCEPT ![p] = IF ok THEN {q \in Entries(p) : source[q] # "none"} ELSE {}]
        /\ failed' = (failed \/ ~ok)
        /\ met' = IF ok THEN met ELSE met \union {"unread"}
        /\ UNCHANGED <<Threads, target, localnames, adding>>
    BY <1>1 DEF LocalOpen, Open
  <2>2. /\ walk'[p] = IF ok THEN "read" ELSE "finish"
        /\ todo'[p] = IF ok THEN {q \in Entries(p) : source[q] # "none"} ELSE {}
        /\ \A q \in Paths : q # p => walk'[q] = walk[q] /\ todo'[q] = todo[q]
    BY <2>1 DEF SyncInv, SyncTypes
  <2>3. Clean' => \A q \in Entries(p) : Passed(p, q)' => Passed(p, q) \/ source[q] = "none"
    <3>1. Clean' => ok
      BY <2>1 DEF Clean
    <3>2. ok => \A q \in Entries(p) : source[q] # "none" => walk'[p] = "read" /\ q \in todo'[p]
      BY <2>2
    <3>. QED BY <3>1, <3>2 DEF Passed
  <2>4. \A q \in Entries(p) : source[q] # "none" => (walk'[p] = "read" => q \in todo'[p])
    BY <2>2
  <2>5. walk'[p] = "finish" => failed' /\ "unread" \in met'
    <3>1. walk'[p] = "finish" => ~ok
      BY <2>2
    <3>2. ~ok => failed'
      BY <2>1
    <3>3. ~ok => "unread" \in met'
      BY <2>1
    <3>. QED BY <3>1, <3>2, <3>3
  <2>6. "unread" \in met' => "unread" \in met \/ failed'
    BY <2>1
  <2>7. failed => failed' /\ met' \in {met, met \union {"unread"}}
    BY <2>1
  <2>8. walk'[p] = "read" => \A q \in todo'[p] : source[q] # "none"
    BY <2>2
  <2>. QED BY <2>1, <2>2, <2>3, <2>4, <2>5, <2>6, <2>7, <2>8, ThreadStepKeeps
<1>2. CASE RemoteOpen(p, ok)
  <2>1. /\ walk[p] = "ropen" /\ ~Freed
        /\ walk' = [walk EXCEPT ![p] = IF ok THEN "rread" ELSE "rfinish"]
        /\ todo' = [todo EXCEPT ![p] = IF ok THEN {q \in Entries(p) : target[q] # "none"} ELSE {}]
        /\ failed' = (failed \/ ~ok)
        /\ UNCHANGED <<Threads, target, localnames, adding, met>>
    BY <1>2 DEF RemoteOpen, Open
  <2>2. /\ walk'[p] = IF ok THEN "rread" ELSE "rfinish"
        /\ todo'[p] = IF ok THEN {q \in Entries(p) : target[q] # "none"} ELSE {}
        /\ \A q \in Paths : q # p => walk'[q] = walk[q] /\ todo'[q] = todo[q]
    BY <2>1 DEF SyncInv, SyncTypes
  <2>3. delete_deprecated
    BY <2>1 DEF MInv, Named
  <2>4. \A q \in Entries(p) : Passed(p, q)' => Passed(p, q)
    BY <2>1 DEF Passed
  <2>5. "unread" \notin met => \A q \in Entries(p) : source[q] # "none" => q \in localnames[p]
    BY <2>1, <2>3 DEF MInv, Named
  <2>6. "unread" \in met' => "unread" \in met \/ failed'
    BY <2>1
  <2>7. failed => failed'
    BY <2>1
  <2>8. Clean' => \A q \in Entries(p) :
           /\ walk'[p] = "rread" => target[q] = "none" \/ q \in todo'[p]
           /\ walk'[p] # "rfinish"
    <3>1. Clean' => ok
      BY <2>1 DEF Clean
    <3>. QED BY <2>2, <3>1
  <2>9. walk'[p] \in {"rread", "rfinish"}
    BY <2>2
  <2>. QED BY <2>1, <2>2, <2>3, <2>4, <2>5, <2>6, <2>7, <2>8, <2>9, ThreadStepKeeps
<1>. QED BY <1>1, <1>2

LEMMA ReadErrorKeeps == ASSUME SyncInv, MInv, NEW p \in Paths, ReadError(p) PROVE MInv'
<1>1. /\ walk[p] \in {"read", "rread"} /\ ~Freed
      /\ todo' = [todo EXCEPT ![p] = {}]
      /\ failed' = TRUE
      /\ met' = IF walk[p] = "read" THEN met \union {"unread"} ELSE met
      /\ UNCHANGED <<Threads, target, walk, localnames, adding>>
  BY DEF ReadError
<1>2. /\ walk' = walk /\ todo'[p] = {}
      /\ \A q \in Paths : q # p => todo'[q] = todo[q]
  BY <1>1 DEF SyncInv, SyncTypes
<1>3. walk[p] = "rread" => delete_deprecated
  BY DEF MInv, Named
<1>4. delete_deprecated /\ "unread" \notin met' =>
          walk[p] = "rread" /\ \A q \in Entries(p) : source[q] # "none" => q \in localnames[p]
  BY <1>1 DEF MInv, Named
<1>5. met' \in {met, met \union {"unread"}}
  BY <1>1
<1>6. ~Clean' /\ failed'
  BY <1>1 DEF Clean
<1>7. walk'[p] = walk[p] /\ walk[p] # "none"
  BY <1>1
<1>8. walk'[p] = "read" => \A q \in todo'[p] : source[q] # "none"
  BY <1>2
<1>. QED BY <1>1, <1>2, <1>3, <1>4, <1>5, <1>6, <1>7, <1>8, ThreadStepKeeps

LEMMA DirectoryReadKeeps == ASSUME SyncInv, MInv, NEW p \in Paths, DirectoryRead(p) PROVE MInv'
<1>1. /\ walk[p] \in {"read", "rread"} /\ todo[p] = {} /\ ~Freed
      /\ walk' = [walk EXCEPT ![p] = IF @ = "read" THEN "finish" ELSE "rfinish"]
      /\ UNCHANGED <<Threads, target, todo, localnames, adding, failed, met>>
  BY DEF DirectoryRead
<1>2. /\ walk'[p] = IF walk[p] = "read" THEN "finish" ELSE "rfinish"
      /\ \A q \in Paths : q # p => walk'[q] = walk[q]
  BY <1>1 DEF SyncInv, SyncTypes
<1>3. walk[p] = "rread" => delete_deprecated
  BY DEF MInv, Named
<1>4. walk[p] = "read" /\ delete_deprecated /\ "unread" \notin met =>
          \A q \in Entries(p) : source[q] # "none" => q \in localnames[p]
  BY <1>1 DEF MInv, Named
<1>5. \A q \in Entries(p) : Passed(p, q)' => Passed(p, q)
  BY <1>1 DEF Passed
<1>6. Clean' /\ delete_deprecated /\ walk[p] = "rread" =>
          \A q \in Entries(p) : source[q] = "none" => target[q] = "none"
  BY <1>1 DEF MInv, Cleared, Clean
<1>7. /\ walk'[p] \in {"finish", "rfinish"} /\ (walk'[p] = "rfinish" => walk[p] = "rread")
      /\ (walk'[p] = "finish" => walk[p] = "read")
  BY <1>1, <1>2
<1>8. failed => failed'
  BY <1>1
<1>. QED BY <1>1, <1>2, <1>3, <1>4, <1>5, <1>6, <1>7, <1>8, ThreadStepKeeps

\* An entry of the source.
LEMMA EntryKeeps ==
    ASSUME SyncInv, MInv, NEW p \in Paths, NEW q \in todo[p], Reading(p, q, "read"),
           NEW t \in [Paths -> {"none", "old", "alike", "file", "dir"}],
           NEW what \in {"nothing", "walk", "update"}, NEW fails \in BOOLEAN,
           NEW situation \in SUBSET {"no directory", "like a directory"},
           Entry(p, q, t, what, fails, situation),
           IsTree(t),
           \A x \in Paths : x # q /\ source[x] # "none" => t[x] = target[x],
           \A x \in Paths : source[x] = "none" /\ target[x] = "none" => t[x] = "none",
           what = "walk" => source[q] = "dir", what = "update" => source[q] = "file",
           ~fails /\ situation = {} /\ q \notin Excluded =>
               /\ source[q] = "file" => t[q] \in {"file", "alike"} \/ what = "update"
               /\ source[q] = "dir" => t[q] = "dir" /\ what = "walk"
    PROVE  MInv'
<1>. DEFINE a == [what |-> what, path |-> q, read |-> refcount]
<1>1. /\ walk[p] = "read" /\ adding[p] = NoAdd /\ ~Freed
      /\ target' = t
      /\ failed' = (failed \/ fails)
      /\ met' = met \union situation
      /\ UNCHANGED <<given, refcount, unref, update, queues, told, walk>>
  BY DEF Reading, Entry, Threads
<1>2. q \in Entries(p) /\ q \in Paths \ {Root} /\ source[q] # "none" /\ mount = "done"
  <2>1. q \in Entries(p)
    BY DEF SyncInv, SyncTypes
  <2>2. q \in Paths \ {Root}
    BY <2>1 DEF Entries
  <2>3. source[q] # "none"
    BY <1>1 DEF MInv, Kinds
  <2>. QED BY <1>1, <2>1, <2>2, <2>3, Begun
<1>3. /\ todo'[p] = todo[p] \ {q}
      /\ localnames'[p] = IF delete_deprecated THEN localnames[p] \union {q} ELSE localnames[p]
      /\ adding'[p] = IF what = "nothing" THEN NoAdd ELSE a
      /\ \A d \in Paths : d # p => /\ todo'[d] = todo[d] /\ localnames'[d] = localnames[d]
                                   /\ adding'[d] = adding[d]
  BY DEF Entry, SyncInv, SyncTypes
<1>a. a.what = what /\ a.path = q
  OBVIOUS
<1>. HIDE DEF a
<1>4. Rooted'
  BY <1>1, <1>2 DEF MInv, Rooted, IsTree, given
<1>5. Kinds'
  <2>1. ASSUME NEW d \in Paths PROVE AskedKind(d)'
    <3>1. CASE d # p
      BY <1>1, <1>3, <3>1, SameAskedKind DEF MInv, Kinds, given
    <3>2. CASE d = p /\ what = "nothing"
      BY <1>3, <3>2 DEF AskedKind
    <3>3. CASE d = p /\ what # "nothing"
      <4>1. adding'[d].what = what /\ adding'[d].path = q
        BY <1>3, <1>a, <3>3
      <4>. QED BY <1>1, <4>1 DEF AskedKind, given
    <3>. QED BY <3>1, <3>2, <3>3
  <2>. QED BY <1>1, <1>3, <2>1 DEF MInv, Kinds, given
<1>6. Named'
  <2>1. ASSUME NEW d \in Paths
        PROVE  /\ walk[d] \in {"rqueued", "ropen", "rread", "rfinish"} => delete_deprecated
               /\ delete_deprecated /\ "unread" \notin met' =>
                    \A x \in Entries(d) : source[x] # "none" =>
                       /\ walk[d] = "read" => x \in todo'[d] \union localnames'[d]
                       /\ walk[d] \in {"finish", "rqueued", "ropen", "rread"} => x \in localnames'[d]
    <3>1. "unread" \notin met' => "unread" \notin met
      BY <1>1
    <3>. QED BY <1>1, <1>3, <3>1 DEF MInv, Named
  <2>2. ASSUME NEW d \in Paths
        PROVE  \A x \in localnames'[d] : source[x] # "none"
    <3>1. localnames'[d] \subseteq localnames[d] \union {q}
      BY <1>3
    <3>2. \A x \in localnames[d] : source[x] # "none"
      BY DEF MInv, Named
    <3>. QED BY <1>2, <3>1, <3>2
  <2>. QED BY <1>1, <1>2, <2>1, <2>2 DEF Named, Entries, given
<1>c. Clean' => Clean /\ ~fails /\ situation = {}
  BY <1>1 DEF Clean
<1>7. Copied'
  <2>1. ASSUME Clean', NEW d \in Paths, NEW x \in Entries(d) \ Excluded, Passed(d, x)'
        PROVE  /\ source[x] = "file" =>
                      t[x] \in {"file", "alike"} \/ Asked(d, x)' \/ update[x] \in {"push", "queued", "copy"}
               /\ source[x] = "dir" => t[x] = "dir" /\ (Asked(d, x)' \/ walk[x] # "none")
    <3>1. x \in Paths /\ (x = q => d = p)
      BY <1>2 DEF Entries
    <3>2. CASE x = q
      <4>1. what # "nothing" => Asked(d, x)'
        <5>1. what # "nothing" => adding'[p] = a /\ a # NoAdd
          <6>1. NoAdd.what = "nothing"
            BY DEF NoAdd
          <6>. QED BY <1>3, <1>a, <6>1
        <5>. QED BY <1>a, <3>1, <3>2, <5>1 DEF Asked
      <4>. QED BY <1>c, <2>1, <3>2, <4>1
    <3>3. CASE x # q
      <4>1. Passed(d, x)
        BY <1>1, <1>3, <2>1, <3>3 DEF Passed
      <4>2. Asked(d, x) => Asked(d, x)'
        BY <1>1, <1>3 DEF Asked
      <4>. QED BY <1>c, <2>1, <3>1, <3>3, <4>1, <4>2 DEF MInv, Copied
    <3>. QED BY <3>2, <3>3
  <2>. QED BY <1>1, <2>1 DEF Copied, Entries, given
<1>8. Cleared'
  <2>1. ASSUME Clean', delete_deprecated, NEW d \in Paths, NEW x \in Entries(d), source[x] = "none"
        PROVE  /\ walk[d] = "rread" => t[x] = "none" \/ x \in todo'[d]
               /\ walk[d] \in {"rfinish", "gone"} => t[x] = "none"
    <3>1. /\ walk[d] = "rread" => target[x] = "none" \/ x \in todo[d]
          /\ walk[d] \in {"rfinish", "gone"} => target[x] = "none"
      BY <1>c, <2>1 DEF MInv, Cleared
    <3>2. x \in Paths /\ (target[x] = "none" => t[x] = "none")
      BY <2>1 DEF Entries
    <3>. QED BY <1>1, <1>3, <3>1, <3>2
  <2>. QED BY <1>1, <2>1 DEF Cleared, Entries, given
<1>9. Reported'
  <2>1. /\ "unread" \in met' => "unread" \in met
        /\ "mount failed" \notin met' => "mount failed" \notin met
    BY <1>1
  <2>. QED BY <1>1, <2>1 DEF MInv, Reported, given, Freed
<1>. QED BY <1>4, <1>5, <1>6, <1>7, <1>8, <1>9 DEF MInv

LEMMA EntriesKeep ==
    ASSUME SyncInv, MInv, NEW p \in Paths, NEW q \in todo[p], NEW ok \in BOOLEAN,
           \/ EntrySkipped(p, q) \/ EntryUnknown(p, q) \/ EntryDirectory(p, q)
           \/ EntryNew(p, q, ok) \/ EntryFile(p, q, ok)
    PROVE  MInv'
<1>1. Reading(p, q, "read")
  BY DEF EntrySkipped, EntryUnknown, EntryDirectory, EntryNew, EntryFile
<1>2. /\ q \in Entries(p) /\ q \in Paths \ {Root} /\ source[q] \in {"file", "dir"}
      /\ IsTree(source) /\ IsTree(target)
      /\ target \in [Paths -> {"none", "old", "alike", "file", "dir"}]
  <2>1. walk[p] = "read"
    BY <1>1 DEF Reading
  <2>2. q \in Entries(p)
    BY DEF SyncInv, SyncTypes
  <2>3. q \in Paths \ {Root}
    BY <2>2 DEF Entries
  <2>4. source[q] # "none"
    BY <2>1 DEF MInv, Kinds
  <2>. QED BY <2>1, <2>2, <2>3, <2>4, Begun DEF SyncInv, SyncTypes, MInv, Rooted
<1>3. CASE EntrySkipped(p, q)
  <2>1. q \in Excluded /\ Entry(p, q, target, "nothing", FALSE, {})
    BY <1>3 DEF EntrySkipped
  <2>. QED BY <1>1, <1>2, <2>1, EntryKeeps
<1>4. CASE EntryUnknown(p, q)
  <2>1. Entry(p, q, target, "nothing", TRUE, {})
    BY <1>4 DEF EntryUnknown
  <2>. QED BY <1>1, <1>2, <2>1, EntryKeeps
<1>5. CASE EntryNew(p, q, ok)
  <2>1. CASE source[q] = "file"
    <3>1. Entry(p, q, target, "update", FALSE, {})
      BY <1>5, <2>1 DEF EntryNew
    <3>. QED BY <1>1, <1>2, <2>1, <3>1, EntryKeeps
  <2>2. CASE source[q] = "dir" /\ ok
    <3>. DEFINE t == [target EXCEPT ![q] = "dir"]
    <3>1. target[p] = "dir" /\ target[q] = "none" /\ Entry(p, q, t, "walk", FALSE, {})
      BY <1>5, <2>2 DEF EntryNew
    <3>2. /\ t \in [Paths -> {"none", "old", "alike", "file", "dir"}]
          /\ t[q] = "dir" /\ \A x \in Paths : x # q => t[x] = target[x]
      BY <1>2
    <3>. HIDE DEF t
    <3>3. IsTree(t)
      BY <1>2, <3>1, <3>2, PathsAssumption, AboveAssumption DEF IsTree, Entries
    <3>4. \A x \in Paths : source[x] = "none" /\ target[x] = "none" => t[x] = "none"
      BY <2>2, <3>2
    <3>. QED BY <1>1, <2>2, <3>1, <3>2, <3>3, <3>4, EntryKeeps
  <2>3. CASE source[q] = "dir" /\ ~ok
    <3>1. Entry(p, q, target, "nothing", TRUE, {})
      BY <1>5, <2>3 DEF EntryNew
    <3>. QED BY <1>1, <1>2, <3>1, EntryKeeps
  <2>. QED BY <1>2, <2>1, <2>2, <2>3
<1>6. CASE EntryDirectory(p, q)
  <2>1. source[q] = "dir"
    BY <1>6 DEF EntryDirectory
  <2>2. CASE target[q] = "dir"
    <3>1. Entry(p, q, target, "walk", FALSE, {})
      BY <1>6, <2>2 DEF EntryDirectory
    <3>. QED BY <1>1, <1>2, <2>1, <2>2, <3>1, EntryKeeps
  <2>3. CASE target[q] # "dir"
    <3>1. PICK t \in Deleted(target, q) :
             Entry(p, q, t, "walk", t[q] # "none", IF t[q] = "none" THEN {"no directory"} ELSE {})
      BY <1>6, <2>3 DEF EntryDirectory
    <3>2. /\ IsTree(t) /\ t \in [Paths -> {"none", "old", "alike", "file", "dir"}]
          /\ \A x \in Paths : t[x] = target[x] \/ t[x] = "none"
          /\ \A x \in Paths : x # q /\ source[x] # "none" => t[x] = target[x]
      BY <1>2, <2>3, DeletedShape, DeletedType, DeletedKeeps
    <3>3. CASE t[q] = "none"
      <4>1. Entry(p, q, t, "walk", FALSE, {"no directory"})
        <5>1. (t[q] # "none") = FALSE
          BY <3>3
        <5>. QED BY <3>1, <3>3, <5>1
      <4>. QED BY <1>1, <2>1, <3>2, <4>1, EntryKeeps
    <3>4. CASE t[q] # "none"
      <4>1. Entry(p, q, t, "walk", TRUE, {})
        <5>1. (t[q] # "none") = TRUE
          BY <3>4
        <5>. QED BY <3>1, <3>4, <5>1
      <4>. QED BY <1>1, <2>1, <3>2, <4>1, EntryKeeps
    <3>. QED BY <3>3, <3>4
  <2>. QED BY <2>2, <2>3
<1>7. CASE EntryFile(p, q, ok)
  <2>1. source[q] = "file" /\ target[q] # "none"
    BY <1>7 DEF EntryFile
  <2>2. CASE target[q] # "dir"
    <3>1. Entry(p, q, target, IF target[q] = "old" THEN "update" ELSE "nothing", FALSE, {})
      BY <1>7, <2>2 DEF EntryFile
    <3>2. target[q] = "old" \/ target[q] \in {"file", "alike"}
      BY <1>2, <2>1, <2>2
    <3>3. CASE target[q] = "old"
      BY <1>1, <1>2, <2>1, <3>1, <3>3, EntryKeeps
    <3>4. CASE target[q] \in {"file", "alike"}
      BY <1>1, <1>2, <2>1, <3>1, <3>4, EntryKeeps
    <3>. QED BY <3>2, <3>3, <3>4
  <2>3. CASE target[q] = "dir"
    <3>1. PICK t \in Deleted(target, q) :
             Entry(p, q, t, IF ok THEN "nothing" ELSE "update", t[q] # "none",
                   IF ok THEN {"like a directory"} ELSE {})
      BY <1>7, <2>3 DEF EntryFile
    <3>2. /\ IsTree(t) /\ t \in [Paths -> {"none", "old", "alike", "file", "dir"}]
          /\ \A x \in Paths : t[x] = target[x] \/ t[x] = "none"
          /\ \A x \in Paths : x # q /\ source[x] # "none" => t[x] = target[x]
      BY <1>2, <2>1, DeletedShape, DeletedType, DeletedKeeps
    <3>. DEFINE fails == t[q] # "none"
    <3>3. fails \in BOOLEAN
      OBVIOUS
    <3>4. CASE ok
      <4>1. Entry(p, q, t, "nothing", fails, {"like a directory"})
        BY <3>1, <3>4
      <4>. HIDE DEF fails
      <4>. QED BY <1>1, <2>1, <3>2, <3>3, <4>1, EntryKeeps
    <3>5. CASE ~ok
      <4>1. Entry(p, q, t, "update", fails, {})
        BY <3>1, <3>5
      <4>. HIDE DEF fails
      <4>. QED BY <1>1, <2>1, <3>2, <3>3, <4>1, EntryKeeps
    <3>. QED BY <3>4, <3>5
  <2>. QED BY <2>2, <2>3
<1>. QED BY <1>3, <1>4, <1>5, <1>6, <1>7

\* The walk of the target's directory takes away what the source does not have.
LEMMA RemoteEntryGone ==
    ASSUME SyncInv, MInv, NEW p \in Paths, NEW q \in todo[p], RemoteEntry(p, q)
    PROVE  /\ q \in Entries(p) /\ delete_deprecated
           /\ q \in localnames[p] => source[q] # "none"
           /\ "unread" \notin met /\ q \notin localnames[p] => source[q] = "none"
<1>1. walk[p] = "rread"
  BY DEF RemoteEntry, Reading
<1>2. q \in Entries(p)
  BY DEF SyncInv, SyncTypes
<1>3. delete_deprecated
  BY <1>1 DEF MInv, Named
<1>. QED BY <1>1, <1>2, <1>3 DEF MInv, Named

LEMMA RemoteEntryKeeps ==
    ASSUME SyncInv, MInv, NEW p \in Paths, NEW q \in todo[p], RemoteEntry(p, q)
    PROVE  MInv'
<1>1. /\ walk[p] = "rread" /\ ~Freed
      /\ todo' = [todo EXCEPT ![p] = @ \ {q}]
      /\ q \in localnames[p] => target' = target /\ failed' = failed
      /\ q \notin localnames[p] => /\ target' \in Deleted(target, q)
                                   /\ failed' = (failed \/ target'[q] # "none")
      /\ UNCHANGED <<given, refcount, unref, update, queues, told, walk, localnames, adding, met>>
  BY DEF RemoteEntry, Reading, Threads
<1>2. /\ q \in Entries(p) /\ q \in Paths /\ mount = "done" /\ IsTree(source) /\ IsTree(target)
      /\ todo'[p] = todo[p] \ {q} /\ \A d \in Paths : d # p => todo'[d] = todo[d]
  BY <1>1, RemoteEntryGone, Begun DEF SyncInv, SyncTypes, Entries, MInv, Rooted
<1>3. Rooted'
  <2>1. IsTree(target')
    BY <1>1, <1>2, DeletedShape
  <2>. QED BY <1>1, <1>2, <2>1 DEF Rooted, IsTree, given
<1>4. Kinds' /\ Named'
  <2>1. \A d \in Paths : AskedKind(d)'
    BY <1>1, SameAskedKind DEF MInv, Kinds, given
  <2>2. Kinds'
    BY <1>1, <1>2, <2>1 DEF MInv, Kinds, given
  <2>3. Named'
    BY <1>1, <1>2 DEF MInv, Named, given
  <2>. QED BY <2>2, <2>3
<1>5. Clean' => /\ Clean
                /\ \A x \in Paths : source[x] # "none" => target'[x] = target[x]
                /\ q \notin localnames[p] => target'[q] = "none"
  <2>1. failed => failed'
    BY <1>1
  <2>2. Clean' => Clean /\ ~failed'
    BY <1>1, <2>1 DEF Clean
  <2>3. Clean' => "unread" \notin met
    BY <2>2 DEF Clean, MInv, Reported
  <2>4. Clean' /\ q \notin localnames[p] => source[q] = "none" /\ target'[q] = "none"
    BY <1>1, <2>2, <2>3, RemoteEntryGone
  <2>5. ASSUME Clean', q \notin localnames[p], NEW x \in Paths, source[x] # "none"
        PROVE  target'[x] = target[x]
    BY <1>1, <1>2, <2>4, <2>5, DeletedKeeps
  <2>. QED BY <1>1, <2>2, <2>4, <2>5
<1>6. \A x \in Paths : target[x] = "none" => target'[x] = "none"
  BY <1>1, <1>2, DeletedShape
<1>7. Copied'
  <2>1. ASSUME Clean', NEW d \in Paths, NEW x \in Entries(d) \ Excluded, Passed(d, x)'
        PROVE  /\ source[x] = "file" =>
                      target'[x] \in {"file", "alike"} \/ Asked(d, x)' \/ update[x] \in {"push", "queued", "copy"}
               /\ source[x] = "dir" => target'[x] = "dir" /\ (Asked(d, x)' \/ walk[x] # "none")
    <3>1. x \in Paths /\ Passed(d, x) /\ (Asked(d, x)' <=> Asked(d, x))
      BY <1>1, <1>2, <2>1 DEF Passed, Asked, Entries
    <3>. QED BY <1>5, <2>1, <3>1 DEF MInv, Copied
  <2>. QED BY <1>1, <2>1 DEF Copied, Entries, given
<1>8. Cleared'
  <2>1. ASSUME Clean', delete_deprecated, NEW d \in Paths, NEW x \in Entries(d), source[x] = "none"
        PROVE  /\ walk[d] = "rread" => target'[x] = "none" \/ x \in todo'[d]
               /\ walk[d] \in {"rfinish", "gone"} => target'[x] = "none"
    <3>1. /\ walk[d] = "rread" => target[x] = "none" \/ x \in todo[d]
          /\ walk[d] \in {"rfinish", "gone"} => target[x] = "none"
      BY <1>5, <2>1 DEF MInv, Cleared
    <3>2. x \in Paths /\ (x = q => d = p)
      BY <1>2 DEF Entries
    <3>3. localnames[p] \subseteq Entries(p)
      BY DEF SyncInv, SyncTypes
    <3>4. CASE x # q
      BY <1>1, <1>2, <1>6, <3>1, <3>2, <3>4
    <3>5. CASE x = q /\ q \notin localnames[p]
      BY <1>5, <2>1, <3>5
    <3>6. CASE x = q /\ q \in localnames[p]
      BY <2>1, <3>6, RemoteEntryGone
    <3>. QED BY <3>4, <3>5, <3>6
  <2>. QED BY <1>1, <2>1 DEF Cleared, Entries, given
<1>9. Reported'
  <2>1. failed => failed'
    BY <1>1
  <2>. QED BY <1>1, <2>1 DEF MInv, Reported, given, Freed
<1>. QED BY <1>3, <1>4, <1>7, <1>8, <1>9 DEF MInv

LEMMA AddWriteKeeps == ASSUME SyncInv, MInv, NEW p \in Paths, AddWrite(p) PROVE MInv'
<1>. DEFINE a == adding[p]
            q == a.path
<1>1. /\ a # NoAdd /\ ~Freed
      /\ a.what = "walk" => walk' = [walk EXCEPT ![q] = "push"]
      /\ a.what # "walk" => walk' = walk
      /\ a.what = "update" => update' = [update EXCEPT ![q] = "push"]
      /\ a.what # "update" => update' = update
      /\ adding' = [adding EXCEPT ![p] = NoAdd]
      /\ met \subseteq met' /\ met' \subseteq met \union {"lost update"}
      /\ UNCHANGED <<given, target, unref, todo, localnames, queues, failed, told>>
  BY DEF AddWrite
<1>2. /\ walk[p] = "read" /\ q \in Entries(p) /\ q \in Paths /\ Fresh(q) /\ mount = "done"
      /\ a.what \in {"walk", "update"}
      /\ a.what = "walk" => source[q] = "dir"
      /\ a.what = "update" => source[q] = "file"
  BY <1>1, Begun DEF SyncInv, OncePerPath, SyncTypes, Fresh, Add, Entries, MInv, Kinds, AskedKind
<1>. HIDE DEF a
<1>3. /\ \A d \in Paths : d # q => walk'[d] = walk[d] /\ update'[d] = update[d]
      /\ walk[q] = "none" /\ update[q] = "none"
      /\ a.what = "walk" => walk'[q] = "push" /\ update'[q] = "none"
      /\ a.what = "update" => walk'[q] = "none" /\ update'[q] = "push"
  BY <1>1, <1>2 DEF SyncInv, SyncTypes, Fresh
<1>4. adding'[p] = NoAdd /\ \A d \in Paths : d # p => adding'[d] = adding[d]
  BY <1>1 DEF SyncInv, SyncTypes
<1>5. Rooted'
  BY <1>1 DEF MInv, Rooted, IsTree, given
<1>6. Kinds'
  <2>1. ASSUME NEW d \in Paths PROVE AskedKind(d)'
    <3>1. CASE d = p
      BY <1>4, <3>1 DEF AskedKind
    <3>2. CASE d # p
      BY <1>1, <1>4, <3>2, SameAskedKind DEF MInv, Kinds, given
    <3>. QED BY <3>1, <3>2
  <2>2. ASSUME NEW d \in Paths
        PROVE  /\ walk'[d] # "none" => source[d] = "dir"
               /\ update'[d] # "none" => source[d] = "file"
               /\ walk'[d] = "read" => walk[d] = "read"
    BY <1>2, <1>3 DEF MInv, Kinds
  <2>. QED BY <1>1, <2>1, <2>2 DEF MInv, Kinds, given
<1>7. Named'
  <2>1. ASSUME NEW d \in Paths PROVE walk'[d] = walk[d] \/ walk'[d] = "push"
    BY <1>2, <1>3
  <2>. QED BY <1>1, <2>1 DEF MInv, Named, Entries, given
<1>c. Clean' => Clean
  BY <1>1 DEF Clean
<1>8. Copied'
  <2>1. ASSUME Clean', NEW d \in Paths, NEW x \in Entries(d) \ Excluded, Passed(d, x)'
        PROVE  /\ source[x] = "file" =>
                      target[x] \in {"file", "alike"} \/ Asked(d, x)' \/ update'[x] \in {"push", "queued", "copy"}
               /\ source[x] = "dir" => target[x] = "dir" /\ (Asked(d, x)' \/ walk'[x] # "none")
    <3>1. x \in Paths /\ Passed(d, x)
      BY <1>1, <1>2, <1>3, <2>1 DEF Passed, Entries
    <3>2. /\ source[x] = "file" =>
                target[x] \in {"file", "alike"} \/ Asked(d, x) \/ update[x] \in {"push", "queued", "copy"}
          /\ source[x] = "dir" => target[x] = "dir" /\ (Asked(d, x) \/ walk[x] # "none")
      BY <1>c, <2>1, <3>1 DEF MInv, Copied
    <3>3. CASE x = q
      BY <1>2, <1>3, <3>2, <3>3
    <3>4. CASE x # q
      <4>1. Asked(d, x) => Asked(d, x)'
        BY <1>4, <3>4 DEF Asked, a
      <4>. QED BY <1>3, <3>1, <3>2, <3>4, <4>1
    <3>. QED BY <3>3, <3>4
  <2>. QED BY <1>1, <2>1 DEF Copied, Entries, given
<1>9. Cleared'
  <2>1. ASSUME NEW d \in Paths PROVE walk'[d] = walk[d] \/ walk'[d] = "push"
    BY <1>2, <1>3
  <2>. QED BY <1>1, <1>c, <2>1 DEF MInv, Cleared, Entries, given
<1>10. Reported'
  <2>1. walk[Root] # "none" => walk'[Root] # "none"
    BY <1>3, PathsAssumption
  <2>. QED BY <1>1, <2>1 DEF MInv, Reported, given, Freed
<1>. QED BY <1>5, <1>6, <1>7, <1>8, <1>9, <1>10 DEF MInv

-----------------------------------------------------------------------------

LEMMA InitMirror == SyncInit => MInv
<1>. SUFFICES ASSUME SyncInit PROVE MInv
  OBVIOUS
<1>1. Rooted /\ Reported
  BY DEF SyncInit, Rooted, Reported
<1>2. Kinds
  BY DEF SyncInit, Kinds, AskedKind
<1>3. Named /\ Copied /\ Cleared
  BY DEF SyncInit, Named, Copied, Cleared, Passed
<1>. QED BY <1>1, <1>2, <1>3 DEF MInv

LEMMA NextMirror == SyncInv /\ MInv /\ [SyncNext]_syncVars => MInv'
<1>. SUFFICES ASSUME SyncInv, MInv, [SyncNext]_syncVars PROVE MInv'
  OBVIOUS
<1>1. CASE SyncDirectory
  BY <1>1, DirectoryKeeps
<1>2. CASE MainStep
  BY <1>2, UnrefKeeps, MountKeeps, LocalPushKeeps, LocalFinishedKeeps, RemoteFinishedKeeps,
     UpdatePushKeeps, UpdateLcbKeeps DEF MainStep
<1>3. CASE ThreadStep
  <2>1. PICK p \in Paths :
            \/ ReadError(p) \/ DirectoryRead(p) \/ AddWrite(p)
            \/ \E ok \in BOOLEAN : LocalOpen(p, ok) \/ RemoteOpen(p, ok)
            \/ \E q \in todo[p], ok \in BOOLEAN :
                  \/ EntrySkipped(p, q) \/ EntryUnknown(p, q) \/ EntryDirectory(p, q)
                  \/ EntryNew(p, q, ok) \/ EntryFile(p, q, ok)
            \/ \E q \in todo[p] : RemoteEntry(p, q)
    BY <1>3 DEF ThreadStep
  <2>. QED BY <2>1, ReadErrorKeeps, DirectoryReadKeeps, AddWriteKeeps, OpenKeeps, EntriesKeep,
              RemoteEntryKeeps
<1>4. CASE UNCHANGED syncVars
  BY <1>4, WaitStep DEF syncVars, walks, GoesOn
<1>. QED BY <1>1, <1>2, <1>3, <1>4 DEF SyncNext

LEMMA MirrorInvariant == SyncSpec => [](SyncInv /\ MInv)
<1>1. SyncInit => SyncInv /\ MInv
  BY InitInv, InitMirror
<1>2. (SyncInv /\ MInv) /\ [SyncNext]_syncVars => (SyncInv /\ MInv)'
  BY NextInv, NextMirror
<1>. QED BY <1>1, <1>2, PTL DEF SyncSpec

\* When the Tsync is freed all is walked and copied.
LEMMA AllGone ==
    ASSUME SyncInv, Freed, ~LostUpdate
    PROVE  /\ mount = "done"
           /\ \A p \in Paths : /\ walk[p] \in {"none", "gone"} /\ update[p] \in {"none", "gone"}
                               /\ adding[p] = NoAdd
<1>1. Holders = {}
  <2>1. Cardinality(Holders) = 0
    BY DEF SyncInv, Counted
  <2>. QED BY <2>1, HoldersFinite, FS_EmptySet
<1>2. \A p \in Paths : walk[p] \in {"none", "gone"} /\ update[p] \in {"none", "gone"}
  BY <1>1 DEF Holders
<1>3. \A p \in Paths : adding[p] = NoAdd
  BY <1>2 DEF SyncInv, OncePerPath
<1>4. mount = "done"
  BY DEF SyncInv, NotBegun, Freed
<1>. QED BY <1>2, <1>3, <1>4

Within(p) == \A q \in Excluded : p \notin Below[q]

\* When "completed" is told and none of the named situations occurred, the target is what the
\* source is, but for what is excluded and for files that were alike (walk_local_directory_job, walk_directory_remote_job,
\* do_update_lcb and the count in sync_unref).
THEOREM SpecMirrors == SyncSpec => []Mirrors
<1>1. SyncInv /\ MInv => Mirrors
  <2>. SUFFICES ASSUME SyncInv, MInv, told = "completed",
                       met \intersect {"mount failed", "lost update", "no directory",
                                       "like a directory"} = {}
                PROVE  \A p \in Paths :
                          /\ source[p] # "none" /\ Within(p) =>
                                target[p] = source[p] \/ (source[p] = "file" /\ target[p] = "alike")
                          /\ delete_deprecated /\ source[p] = "none" /\ Within(p) => target[p] = "none"
    BY DEF Mirrors, Within
  <2>1. Clean /\ Freed /\ ~LostUpdate
    BY DEF Clean, Freed, LostUpdate, MInv, Reported
  <2>2. /\ mount = "done"
        /\ \A p \in Paths : /\ walk[p] \in {"none", "gone"} /\ update[p] \in {"none", "gone"}
                            /\ adding[p] = NoAdd
    BY <2>1, AllGone
  <2>3. IsTree(source) /\ IsTree(target)
    BY <2>2 DEF MInv, Rooted
  <2>. DEFINE Done(p) == /\ source[p] # "none" =>
                              target[p] = source[p] \/ (source[p] = "file" /\ target[p] = "alike")
                         /\ delete_deprecated /\ source[p] = "none" => target[p] = "none"
                         /\ source[p] = "dir" => walk[p] = "gone"
              S == {p \in Paths : Within(p) => Done(p)}
  <2>4. Root \in S
    <3>1. walk[Root] = "gone"
      BY <2>1, <2>2, PathsAssumption DEF Clean, MInv, Reported
    <3>2. source[Root] = "dir" /\ target[Root] = "dir"
      BY <2>3 DEF IsTree
    <3>. QED BY <3>1, <3>2, PathsAssumption
  <2>5. ASSUME NEW q \in Paths \ {Root}, Above[q] \in S
        PROVE  q \in S
    <3>. DEFINE p == Above[q]
    <3>. SUFFICES ASSUME Within(q) PROVE Done(q)
      OBVIOUS
    <3>1. p \in Paths /\ q \in Entries(p)
      BY AboveAssumption DEF Entries
    <3>2. Within(p)
      <4>1. ASSUME NEW e \in Excluded, p \in Below[e] PROVE FALSE
        <5>1. e \in Paths /\ q \in Below[e]
          BY <4>1, PathsAssumption, BelowStep
        <5>. QED BY <5>1 DEF Within
      <4>. QED BY <4>1 DEF Within
    <3>3. q \notin Excluded
      BY PathsAssumption, BelowSelf DEF Within
    <3>4. Done(p)
      BY <2>5, <3>2
    <3>5. CASE source[p] = "dir"
      <4>1. walk[p] = "gone"
        BY <3>4, <3>5
      <4>2. Passed(p, q) /\ ~Asked(p, q)
        BY <2>2, <3>1, <4>1 DEF Passed, Asked
      <4>3. source[q] \in {"none", "file", "dir"}
        BY <3>1 DEF SyncInv, SyncTypes
      <4>4. source[q] = "file" => target[q] \in {"file", "alike"}
        BY <2>1, <2>2, <3>1, <3>3, <4>2 DEF MInv, Copied
      <4>5. source[q] = "dir" => target[q] = "dir" /\ walk[q] = "gone"
        BY <2>1, <2>2, <3>1, <3>3, <4>2 DEF MInv, Copied
      <4>6. delete_deprecated /\ source[q] = "none" => target[q] = "none"
        BY <2>1, <3>1, <4>1 DEF MInv, Cleared
      <4>. QED BY <4>3, <4>4, <4>5, <4>6
    <3>6. CASE source[p] # "dir"
      <4>1. source[q] = "none"
        BY <2>3, <3>6 DEF IsTree
      <4>2. delete_deprecated => target[p] # "dir"
        BY <3>4, <3>6
      <4>. QED BY <2>3, <4>1, <4>2 DEF IsTree
    <3>. QED BY <3>5, <3>6
  <2>6. Paths \subseteq S
    <3>1. S \in SUBSET Paths
      OBVIOUS
    <3>. HIDE DEF S
    <3>. QED BY <2>4, <2>5, <3>1, Downwards, RootAssumption, PathsAssumption
  <2>. QED BY <2>6
<1>. QED BY <1>1, MirrorInvariant, PTL

\* No step takes from the target what the source has there too, unless a directory of the
\* source could not be read to its end (delete_recursive, g_file_delete).
THEOREM SpecKeepsWhatIsThere == SyncSpec => KeepsWhatIsThere
<1>. DEFINE Keeps == mount # "none" /\ "unread" \notin met =>
                        \A p \in Paths :
                           target[p] # "none" /\ target'[p] = "none" =>
                              \E q \in Paths : p \in Below[q] /\ target[q] # "none" /\ Replaceable(q)
<1>1. SyncInv /\ MInv /\ [SyncNext]_syncVars => Keeps
  <2>. SUFFICES ASSUME SyncInv, MInv, [SyncNext]_syncVars, mount # "none", "unread" \notin met,
                       NEW p \in Paths, target[p] # "none", target'[p] = "none"
                PROVE  \E q \in Paths : p \in Below[q] /\ target[q] # "none" /\ Replaceable(q)
    OBVIOUS
  <2>1. IsTree(source) /\ IsTree(target) /\ target \in [Paths -> {"none", "old", "alike", "file", "dir"}]
    BY DEF MInv, Rooted, SyncInv, SyncTypes
  <2>2. PICK d \in Paths, q \in Paths :
            /\ q \in todo[d] /\ target' \in Deleted(target, q)
            /\ \/ EntryDirectory(d, q) /\ source[q] = "dir" /\ target[q] \notin {"none", "dir"}
               \/ source[q] = "file" /\ target[q] = "dir"
               \/ RemoteEntry(d, q) /\ q \notin localnames[d]
    <3>1. target' # target
      OBVIOUS
    <3>2. CASE ThreadStep
      <4>1. PICK d \in Paths :
              \/ ReadError(d) \/ DirectoryRead(d) \/ AddWrite(d)
              \/ \E ok \in BOOLEAN : LocalOpen(d, ok) \/ RemoteOpen(d, ok)
              \/ \E q \in todo[d], ok \in BOOLEAN :
                    \/ EntrySkipped(d, q) \/ EntryUnknown(d, q) \/ EntryDirectory(d, q)
                    \/ EntryNew(d, q, ok) \/ EntryFile(d, q, ok)
              \/ \E q \in todo[d] : RemoteEntry(d, q)
        BY <3>2 DEF ThreadStep
      <4>2. ~(ReadError(d) \/ DirectoryRead(d) \/ AddWrite(d))
        BY <3>1 DEF ReadError, DirectoryRead, AddWrite
      <4>3. ASSUME NEW ok \in BOOLEAN PROVE ~(LocalOpen(d, ok) \/ RemoteOpen(d, ok))
        BY <3>1 DEF LocalOpen, RemoteOpen
      <4>4. todo[d] \subseteq Paths
        BY DEF SyncInv, SyncTypes
      <4>5. ASSUME NEW q \in todo[d]
            PROVE  ~EntrySkipped(d, q) /\ ~EntryUnknown(d, q)
        BY <3>1 DEF EntrySkipped, EntryUnknown, Entry
      <4>6. ASSUME NEW q \in todo[d], NEW ok \in BOOLEAN
            PROVE  ~EntryNew(d, q, ok)
        <5>1. \A x \in Paths : [target EXCEPT ![q] = "dir"][x] \in {"dir", target[x]}
          BY <2>1, <4>4
        <5>2. [target EXCEPT ![q] = "dir"][p] # "none"
          BY <5>1
        <5>. QED BY <3>1, <5>2 DEF EntryNew, Entry
      <4>7. ASSUME NEW q \in todo[d], EntryDirectory(d, q)
            PROVE  /\ target' \in Deleted(target, q) /\ source[q] = "dir"
                   /\ target[q] \notin {"none", "dir"}
        BY <3>1, <4>7 DEF EntryDirectory, Entry
      <4>8. ASSUME NEW q \in todo[d], NEW ok \in BOOLEAN, EntryFile(d, q, ok)
            PROVE  target' \in Deleted(target, q) /\ source[q] = "file" /\ target[q] = "dir"
        BY <3>1, <4>8 DEF EntryFile, Entry
      <4>9. ASSUME NEW q \in todo[d], RemoteEntry(d, q)
            PROVE  target' \in Deleted(target, q) /\ q \notin localnames[d]
        BY <3>1, <4>9 DEF RemoteEntry
      <4>. QED BY <4>1, <4>2, <4>3, <4>4, <4>5, <4>6, <4>7, <4>8, <4>9
    <3>3. CASE MainStep
      <4>1. PICK x \in Paths, ok \in BOOLEAN : DoUpdateLcb(x, ok)
        BY <3>1, <3>3 DEF MainStep, SyncUnref, MountLcb, WalkLocalDirectoryPush,
           WalkLocalDirectoryJobFinished, WalkDirectoryRemoteJobFinished, DoUpdatePush
      <4>2. target' = [target EXCEPT ![x] = "file"]
        BY <3>1, <4>1 DEF DoUpdateLcb
      <4>. QED BY <2>1, <4>2
    <3>4. CASE SyncDirectory
      BY <3>4 DEF SyncDirectory
    <3>5. CASE UNCHANGED syncVars
      BY <3>1, <3>5 DEF syncVars
    <3>. QED BY <3>2, <3>3, <3>4, <3>5 DEF SyncNext
  <2>3. p \in Below[q]
    BY <2>2, DeletedShape
  <2>4. target[q] # "none"
    BY <2>1, <2>2, <2>3, AboveThere
  <2>5. Replaceable(q)
    <3>1. CASE RemoteEntry(d, q) /\ q \notin localnames[d]
      BY <2>2, <3>1, RemoteEntryGone DEF Replaceable
    <3>2. CASE source[q] = "dir" /\ target[q] \notin {"none", "dir"}
      BY <3>2 DEF Replaceable
    <3>3. CASE source[q] = "file" /\ target[q] = "dir"
      BY <3>3 DEF Replaceable
    <3>. QED BY <2>2, <3>1, <3>2, <3>3
  <2>. QED BY <2>2, <2>3, <2>4, <2>5
<1>2. SyncSpec => [][Keeps]_syncVars
  BY <1>1, MirrorInvariant, PTL DEF SyncSpec
<1>. QED BY <1>2 DEF KeepsWhatIsThere

=============================================================================
