-------------------------- MODULE AsyncQueueProofs --------------------------
(***************************************************************************)
(* Lemmas about the operators of AsyncQueue.  A queue between two handlers *)
(* is settled: it is empty or all its slots are taken.  From a settled     *)
(* queue queue_push and queue_worker_ready start at most one item.         *)
(***************************************************************************)
EXTENDS AsyncQueue, SequenceTheorems, FiniteSetTheorems, TLAPS

Queue(S) == [q : Seq(S), worknum : 0 .. WordSize - 1]

Settled(Q) == Len(Q.q) > 0 => Q.worknum >= MaxWorknum

Injective(Q) == \A i, k \in 1 .. Len(Q.q) : Q.q[i] = Q.q[k] => i = k

Holds(Q, s) == \E i \in 1 .. Len(Q.q) : Q.q[i] = s

\* queue_init_full leaves a settled queue without items and without workers.
LEMMA EmptyQueueFacts ==
    ASSUME NEW S
    PROVE  /\ EmptyQueue \in Queue(S)
           /\ Settled(EmptyQueue)
           /\ Injective(EmptyQueue)
           /\ \A s : ~ Holds(EmptyQueue, s)
BY MaxWorknumAssumption, WordSizeAssumption DEF EmptyQueue, Queue, Settled, Injective, Holds

\* The parts of a queue.
LEMMA QueueParts ==
    ASSUME NEW S, NEW Q \in Queue(S)
    PROVE  /\ Q.q \in Seq(S)
           /\ Len(Q.q) \in Nat
           /\ Q.worknum \in Int
           /\ 0 <= Q.worknum
           /\ Q.worknum < WordSize
           /\ Q = [q |-> Q.q, worknum |-> Q.worknum]
BY MaxWorknumAssumption, WordSizeAssumption DEF Queue

\* queue_run makes of each item it takes one that is worked on.
LEMMA RunConserves ==
    ASSUME NEW S, NEW Q \in Queue(S)
    PROVE  Run(Q).worknum + Len(Run(Q).q) = Q.worknum + Len(Q.q)
<1>1. Q.q \in Seq(S) /\ Len(Q.q) \in Nat /\ Q.worknum \in Int /\ MaxWorknum \in Int
  BY QueueParts, MaxWorknumAssumption
<1>2. NumStarted(Q) \in Nat /\ NumStarted(Q) <= Len(Q.q)
  BY <1>1 DEF NumStarted
<1>3. Len(SubSeq(Q.q, 1, Len(Q.q) - NumStarted(Q))) = Len(Q.q) - NumStarted(Q)
  BY <1>1, <1>2
<1>. QED BY <1>1, <1>2, <1>3 DEF Run

\* queue_run starts nothing on a settled queue.
LEMMA RunNothing ==
    ASSUME NEW S, NEW Q \in Queue(S), Settled(Q)
    PROVE  Started(Q) = {} /\ Run(Q) = Q
<1>1. NumStarted(Q) = 0
  BY QueueParts, MaxWorknumAssumption, WordSizeAssumption DEF NumStarted, Settled
<1>2. Started(Q) = {}
  BY <1>1, QueueParts DEF Started
<1>3. SubSeq(Q.q, 1, Len(Q.q)) = Q.q
  BY QueueParts
<1>4. Run(Q) = Q
  BY <1>1, <1>3, QueueParts DEF Run
<1>. QED BY <1>2, <1>4

\* queue_run starts the item at the tail when the rest of the queue has no slot.
LEMMA RunOne ==
    ASSUME NEW S, NEW Q \in Queue(S), Len(Q.q) > 0,
           Q.worknum < MaxWorknum, Len(Q.q) = 1 \/ Q.worknum = MaxWorknum - 1
    PROVE  /\ Started(Q) = {Q.q[Len(Q.q)]}
           /\ Run(Q) = [q |-> SubSeq(Q.q, 1, Len(Q.q) - 1), worknum |-> Q.worknum + 1]
<1>0. Len(Q.q) \in Nat /\ Q.worknum \in Int /\ MaxWorknum \in Int
  BY QueueParts, MaxWorknumAssumption
<1>. DEFINE free == MaxWorknum - Q.worknum
<1>1. NumStarted(Q) = 1
  <2>1. NumStarted(Q) = IF Len(Q.q) < free THEN Len(Q.q) ELSE free
    BY DEF NumStarted
  <2>2. free \in Int /\ free >= 1
    BY <1>0
  <2>3. CASE Len(Q.q) = 1
    BY <2>1, <2>2, <2>3
  <2>4. CASE Q.worknum = MaxWorknum - 1
    <3>1. free = 1
      BY <1>0, <2>4
    <3>. HIDE DEF free
    <3>. QED BY <2>1, <3>1, <1>0
  <2>. QED BY <2>3, <2>4
<1>2. (Len(Q.q) - 1 + 1) .. Len(Q.q) = {Len(Q.q)}
  BY QueueParts
<1>3. Started(Q) = {Q.q[Len(Q.q)]}
  BY <1>1, <1>2 DEF Started
<1>. QED BY <1>1, <1>3 DEF Run

\* queue_push on a settled queue: the item starts at once when there is a slot
\* (and then nothing else was waiting), and waits at the head otherwise.
LEMMA PushRun ==
    ASSUME NEW S, NEW Q \in Queue(S), Settled(Q), Injective(Q),
           NEW item \in S, ~ Holds(Q, item),
           NEW P, P = Push(Q, item)
    PROVE  /\ Run(P) \in Queue(S)
           /\ Settled(Run(P))
           /\ Injective(Run(P))
           /\ \/ /\ Started(P) = {item}
                 /\ Q.worknum < MaxWorknum
                 /\ Run(P).worknum = Q.worknum + 1
                 /\ \A s : ~ Holds(Run(P), s)
                 /\ \A s : ~ Holds(Q, s)
              \/ /\ Started(P) = {}
                 /\ Run(P).worknum = Q.worknum
                 /\ \A s : Holds(Run(P), s) <=> (s = item \/ Holds(Q, s))
<1>1. P = [q |-> <<item>> \o Q.q, worknum |-> Q.worknum]
  BY DEF Push
<1>2. /\ P \in Queue(S) 
      /\ Len(P.q) = Len(Q.q) + 1
      /\ P.q[1] = item
      /\ \A i \in 2 .. Len(P.q) : P.q[i] = Q.q[i - 1]
  BY <1>1 DEF Queue
<1>3. CASE Q.worknum < MaxWorknum
  <2>1. Len(Q.q) = 0
    BY <1>3, MaxWorknumAssumption DEF Settled, Queue
  <2>2. Started(P) = {item} /\ Run(P) = [q |-> SubSeq(P.q, 1, 0), worknum |-> Q.worknum + 1]
    BY <1>1, <1>2, <1>3, <2>1, RunOne
  <2>3. SubSeq(P.q, 1, 0) = << >>
    BY <1>2 DEF Queue
  <2>4. Run(P) = [q |-> << >>, worknum |-> Q.worknum + 1]
    BY <2>2, <2>3
  <2>5. Q.worknum + 1 \in 0 .. WordSize - 1
    BY <1>3, MaxWorknumAssumption, WordSizeAssumption DEF Queue
  <2>6. Run(P) \in Queue(S) /\ Settled(Run(P)) /\ Injective(Run(P))
    BY <2>4, <2>5 DEF Queue, Settled, Injective
  <2>. QED BY <1>3, <2>1, <2>2, <2>4, <2>6 DEF Holds
<1>4. CASE ~(Q.worknum < MaxWorknum)
  <2>1. Settled(P)
    BY <1>1, <1>4, MaxWorknumAssumption DEF Settled, Queue
  <2>2. Started(P) = {} /\ Run(P) = P
    BY <1>2, <2>1, RunNothing
  <2>3. \A i \in 1 .. Len(P.q) : i = 1 \/ (i - 1 \in 1 .. Len(Q.q) /\ P.q[i] = Q.q[i - 1])
    <3>. TAKE i \in 1 .. Len(P.q)
    <3>1. i \in Int /\ (i = 1 \/ (i \in 2 .. Len(P.q) /\ i - 1 \in 1 .. Len(Q.q)))
      BY <1>2, QueueParts
    <3>. QED BY <1>2, <3>1
  <2>4. Injective(P)
    <3>. SUFFICES ASSUME NEW i \in 1 .. Len(P.q), NEW k \in 1 .. Len(P.q), P.q[i] = P.q[k]
                  PROVE  i = k
      BY DEF Injective
    <3>1. CASE i = 1
      BY <3>1, <2>3, <1>2 DEF Holds
    <3>2. CASE k = 1
      BY <3>2, <2>3, <1>2 DEF Holds
    <3>3. CASE i # 1 /\ k # 1
      <4>1. Q.q[i - 1] = Q.q[k - 1] /\ i - 1 \in 1 .. Len(Q.q) /\ k - 1 \in 1 .. Len(Q.q)
        BY <3>3, <2>3
      <4>2. i - 1 = k - 1
        BY <4>1 DEF Injective
      <4>. QED BY <4>2
    <3>. QED BY <3>1, <3>2, <3>3
  <2>5. \A s : Holds(P, s) <=> (s = item \/ Holds(Q, s))
    <3>. TAKE s
    <3>1. Holds(P, s) => (s = item \/ Holds(Q, s))
      BY <2>3, <1>2 DEF Holds
    <3>2. s = item => Holds(P, s)
      BY <1>2 DEF Holds, Queue
    <3>3. Holds(Q, s) => Holds(P, s)
      <4>. SUFFICES ASSUME NEW i \in 1 .. Len(Q.q), Q.q[i] = s
                    PROVE  \E k \in 1 .. Len(P.q) : P.q[k] = s
        BY DEF Holds
      <4>1. i + 1 \in 2 .. Len(P.q) /\ (i + 1) - 1 = i
        BY <1>2, QueueParts
      <4>2. P.q[i + 1] = s
        BY <1>2, <4>1
      <4>. QED BY <4>1, <4>2
    <3>. QED BY <3>1, <3>2, <3>3
  <2>6. Run(P).worknum = Q.worknum
    <3>1. P.worknum = Q.worknum
      BY <1>1
    <3>. QED BY <2>2, <3>1
  <2>. QED BY <1>2, <2>1, <2>2, <2>4, <2>5, <2>6, Zenon
<1>. QED BY <1>3, <1>4

\* queue_worker_ready on a settled queue: the freed slot goes to the item at
\* the tail when the queue was exactly full, and nothing is started otherwise.
LEMMA ReadyRun ==
    ASSUME NEW S, NEW Q \in Queue(S), Settled(Q), Injective(Q),
           NEW P, P = WorkerReady(Q)
    PROVE  /\ Run(P) \in Queue(S)
           /\ Settled(Run(P))
           /\ Injective(Run(P))
           /\ \/ \E t \in S :
                    /\ Holds(Q, t)
                    /\ Started(P) = {t}
                    /\ Q.worknum = MaxWorknum
                    /\ Run(P).worknum = Q.worknum
                    /\ \A s : Holds(Run(P), s) <=> (s # t /\ Holds(Q, s))
              \/ /\ Started(P) = {}
                 /\ Run(P).worknum = IF Q.worknum = 0 THEN WordSize - 1 ELSE Q.worknum - 1
                 /\ \A s : Holds(Run(P), s) <=> Holds(Q, s)
<1>. DEFINE w == IF Q.worknum = 0 THEN WordSize - 1 ELSE Q.worknum - 1
<1>1. P = [q |-> Q.q, worknum |-> w]
  BY DEF WorkerReady
<1>2. w \in 0 .. WordSize - 1
  BY MaxWorknumAssumption, WordSizeAssumption DEF Queue
<1>3. P \in Queue(S) /\ Injective(P)
  BY <1>1, <1>2 DEF Queue, Injective
<1>4. CASE Settled(P)
  <2>1. Started(P) = {} /\ Run(P) = P
    BY <1>3, <1>4, RunNothing
  <2>. QED BY <1>1, <1>3, <1>4, <2>1 DEF Holds
<1>5. CASE ~ Settled(P)
  <2>1. /\ Len(Q.q) > 0 
        /\ Q.worknum = MaxWorknum
        /\ w = MaxWorknum - 1
    BY <1>1, <1>2, <1>5, MaxWorknumAssumption, WordSizeAssumption DEF Settled, Queue
  <2>. DEFINE n == Len(Q.q)
              t == Q.q[n]
  <2>2. Started(P) = {t} /\ Run(P) = [q |-> SubSeq(Q.q, 1, n - 1), worknum |-> MaxWorknum]
    <3>1. P.worknum = MaxWorknum - 1 /\ P.q = Q.q /\ MaxWorknum \in Int
      BY <1>1, <2>1, MaxWorknumAssumption
    <3>2. /\ Started(P) = {P.q[Len(P.q)]}
          /\ Run(P) = [q |-> SubSeq(P.q, 1, Len(P.q) - 1), worknum |-> P.worknum + 1]
      BY <1>3, <2>1, <3>1, RunOne
    <3>3. P.worknum + 1 = MaxWorknum
      BY <3>1
    <3>. QED BY <3>1, <3>2, <3>3
  <2>3. Q.q \in Seq(S) /\ n \in Nat /\ n > 0 /\ t \in S
    BY <2>1, QueueParts
  <2>4. /\ SubSeq(Q.q, 1, n - 1) \in Seq(S)
        /\ Len(SubSeq(Q.q, 1, n - 1)) = n - 1
        /\ \A i \in 1 .. n - 1 : SubSeq(Q.q, 1, n - 1)[i] = Q.q[i]
    BY <2>3, SubSeqProperties
  <2>5. Run(P) \in Queue(S)
    BY <2>2, <2>4, MaxWorknumAssumption, WordSizeAssumption DEF Queue
  <2>6. Settled(Run(P))
    BY <2>2, MaxWorknumAssumption DEF Settled
  <2>7. Injective(Run(P))
    BY <2>2, <2>3, <2>4 DEF Injective
  <2>8. \A s : Holds(Run(P), s) <=> (s # t /\ Holds(Q, s))
    <3>. TAKE s
    <3>1. Holds(Run(P), s) => s # t
      <4>. SUFFICES ASSUME NEW i \in 1 .. n - 1, Q.q[i] = t
                    PROVE  FALSE
        BY <2>2, <2>4 DEF Holds
      <4>1. i \in 1 .. n /\ n \in 1 .. n /\ i # n
        BY <2>3
      <4>. QED BY <4>1 DEF Injective
    <3>2. Holds(Run(P), s) => Holds(Q, s)
      BY <2>2, <2>3, <2>4 DEF Holds
    <3>3. s # t /\ Holds(Q, s) => Holds(Run(P), s)
      BY <2>2, <2>3, <2>4 DEF Holds
    <3>. QED BY <3>1, <3>2, <3>3
  <2>9. Holds(Q, t)
    BY <2>3 DEF Holds
  <2>10. Run(P).worknum = Q.worknum
    BY <2>1, <2>2
  <2>. HIDE DEF t, n, w
  <2>. QED BY <2>1, <2>2, <2>3, <2>5, <2>6, <2>7, <2>8, <2>9, <2>10, Zenon
<1>. QED BY <1>4, <1>5

\* queue_remove of an item that is on the queue: the others stay, in order.
LEMMA RemoveFacts ==
    ASSUME NEW S, NEW Q \in Queue(S), Settled(Q), Injective(Q),
           NEW item, Holds(Q, item)
    PROVE  /\ Remove(Q, item) \in Queue(S)
           /\ Remove(Q, item).worknum = Q.worknum
           /\ Settled(Remove(Q, item))
           /\ Injective(Remove(Q, item))
           /\ \A s : Holds(Remove(Q, item), s) <=> (s # item /\ Holds(Q, s))
<1>. DEFINE First(i) == Q.q[i] = item /\ \A k \in 1 .. i - 1 : Q.q[k] # item
            at == CHOOSE i \in 1 .. Len(Q.q) : First(i)
            n == Len(Q.q)
            R == Remove(Q, item)
            L == SubSeq(Q.q, 1, at - 1)
            T == SubSeq(Q.q, at + 1, n)
<1>1. Q.q \in Seq(S) /\ n \in Nat /\ Q.worknum \in 0 .. WordSize - 1
  BY QueueParts DEF Queue
<1>2. PICK j \in 1 .. n : Q.q[j] = item
  BY DEF Holds
<1>3. First(j)
  <2>1. \A k \in 1 .. j - 1 : k \in 1 .. n /\ k # j
    BY <1>1
  <2>. QED BY <1>1, <1>2, <2>1 DEF Injective
<1>4. at \in 1 .. n /\ First(at)
  BY <1>2, <1>3
<1>5. R = [q |-> L \o T, worknum |-> Q.worknum]
  BY <1>2, <1>3 DEF Remove
<1>. HIDE DEF at
<1>6. /\ L \in Seq(S)
      /\ Len(L) = at - 1
      /\ \A k \in 1 .. at - 1 : L[k] = Q.q[k]
  <2>1. at - 1 \in Int /\ \A k \in 1 .. at - 1 : Q.q[k] \in S
    BY <1>1, <1>4
  <2>2. /\ SubSeq(Q.q, 1, at - 1) \in Seq(S)
        /\ Len(SubSeq(Q.q, 1, at - 1)) = IF 1 <= at - 1 THEN (at - 1) - 1 + 1 ELSE 0
        /\ \A k \in 1 .. (at - 1) - 1 + 1 : SubSeq(Q.q, 1, at - 1)[k] = Q.q[1 + k - 1]
    BY <2>1, SubSeqProperties
  <2>. QED BY <1>4, <2>2
<1>7. /\ T \in Seq(S)
      /\ Len(T) = n - at
      /\ \A k \in 1 .. n - at : T[k] = Q.q[at + k]
  <2>1. at + 1 \in Int /\ n \in Int /\ \A k \in at + 1 .. n : Q.q[k] \in S
    BY <1>1, <1>4
  <2>2. /\ SubSeq(Q.q, at + 1, n) \in Seq(S)
        /\ Len(SubSeq(Q.q, at + 1, n)) = IF at + 1 <= n THEN n - (at + 1) + 1 ELSE 0
        /\ \A k \in 1 .. n - (at + 1) + 1 : SubSeq(Q.q, at + 1, n)[k] = Q.q[(at + 1) + k - 1]
    BY <2>1, SubSeqProperties
  <2>. QED BY <1>1, <1>4, <2>2
<1>. HIDE DEF L, T
<1>8. /\ L \o T \in Seq(S)
      /\ Len(L \o T) = n - 1
      /\ \A k \in 1 .. n - 1 : (L \o T)[k] = IF k < at THEN Q.q[k] ELSE Q.q[k + 1]
  <2>1. /\ L \o T \in Seq(S)
        /\ Len(L \o T) = Len(L) + Len(T)
        /\ \A k \in 1 .. Len(L) + Len(T) :
              (L \o T)[k] = IF k <= Len(L) THEN L[k] ELSE T[k - Len(L)]
    BY <1>6, <1>7, ConcatProperties
  <2>2. Len(L) + Len(T) = n - 1
    BY <1>1, <1>4, <1>6, <1>7
  <2>3. ASSUME NEW k \in 1 .. n - 1
        PROVE  (L \o T)[k] = IF k < at THEN Q.q[k] ELSE Q.q[k + 1]
    <3>1. CASE k < at
      BY <2>1, <2>2, <3>1, <1>4, <1>6
    <3>2. CASE ~ (k < at)
      <4>1. /\ k - (at - 1) \in 1 .. n - at
            /\ at + (k - (at - 1)) = k + 1
            /\ ~ (k <= at - 1)
        BY <3>2, <1>1, <1>4
      <4>2. (L \o T)[k] = T[k - (at - 1)]
        BY <2>1, <2>2, <4>1, <1>6
      <4>. QED BY <4>1, <4>2, <1>7, <3>2
    <3>. QED BY <3>1, <3>2
  <2>. QED BY <2>1, <2>2, <2>3
<1>. DEFINE r == L \o T
<1>9. R.q = r /\ R.worknum = Q.worknum
  BY <1>5
<1>. HIDE DEF r, R
<1>10. R \in Queue(S) /\ Settled(R)
  <2>1. R \in Queue(S)
    BY <1>1, <1>5, <1>8 DEF Queue, R
  <2>2. Len(R.q) = n - 1
    BY <1>8, <1>9 DEF r
  <2>. QED BY <2>1, <2>2, <1>1, <1>2, <1>9 DEF Settled
<1>11. /\ Len(R.q) = n - 1
       /\ \A k \in 1 .. n - 1 : R.q[k] = IF k < at THEN Q.q[k] ELSE Q.q[k + 1]
  BY <1>8, <1>9 DEF r
<1>12. Injective(R)
  <2>. SUFFICES ASSUME NEW i \in 1 .. n - 1, NEW k \in 1 .. n - 1, R.q[i] = R.q[k]
                PROVE  i = k
    BY <1>11 DEF Injective
  <2>. DEFINE up(x) == IF x < at THEN x ELSE x + 1
  <2>1. up(i) \in 1 .. n /\ up(k) \in 1 .. n /\ R.q[i] = Q.q[up(i)] /\ R.q[k] = Q.q[up(k)]
    BY <1>1, <1>4, <1>11
  <2>2. up(i) = up(k)
    BY <2>1 DEF Injective
  <2>. QED BY <2>2, <1>4
<1>13. ASSUME NEW s
       PROVE  Holds(R, s) <=> (s # item /\ Holds(Q, s))
  <2>1. ASSUME NEW k \in 1 .. n - 1, R.q[k] = s
        PROVE  s # item /\ Holds(Q, s)
    <3>. DEFINE up == IF k < at THEN k ELSE k + 1
    <3>1. up \in 1 .. n /\ up # at /\ Q.q[up] = s
      BY <1>1, <1>4, <1>11, <2>1
    <3>2. Q.q[up] # item
      BY <3>1, <1>4 DEF Injective
    <3>. QED BY <3>1, <3>2 DEF Holds
  <2>2. ASSUME NEW k \in 1 .. n, Q.q[k] = s, s # item
        PROVE  Holds(R, s)
    <3>. DEFINE down == IF k < at THEN k ELSE k - 1
    <3>1. k # at
      BY <1>4, <2>2
    <3>2. down \in 1 .. n - 1 /\ R.q[down] = Q.q[k]
      BY <1>1, <1>4, <1>11, <3>1
    <3>. QED BY <3>2, <1>11, <2>2 DEF Holds
  <2>. QED BY <2>1, <2>2, <1>11 DEF Holds
<1>. QED BY <1>9, <1>10, <1>12, <1>13 DEF R

\* What a user of a queue knows of it: who waits, and that worknum counts who is worked on.
Serves(S, Q, waits, works) ==
    /\ Q \in Queue(S) /\ Settled(Q) /\ Injective(Q)
    /\ waits \subseteq S /\ works \subseteq S /\ IsFiniteSet(works)
    /\ \A s \in S : Holds(Q, s) <=> s \in waits
    /\ Q.worknum = Cardinality(works)

LEMMA EmptyServes ==
    ASSUME NEW S
    PROVE  Serves(S, EmptyQueue, {}, {})
<1>1. IsFiniteSet({}) /\ Cardinality({}) = 0
  BY FS_EmptySet
<1>2. EmptyQueue.worknum = 0
  BY DEF EmptyQueue
<1>. QED BY <1>1, <1>2, EmptyQueueFacts DEF Serves

\* An item that is pushed is started at once, or waits.
LEMMA PushServes ==
    ASSUME NEW S, NEW Q, NEW waits, NEW works, Serves(S, Q, waits, works),
           NEW item \in S, item \notin waits, item \notin works,
           NEW P, P = Push(Q, item)
    PROVE  \/ Started(P) = {item} /\ Serves(S, Run(P), waits, works \union {item})
           \/ Started(P) = {} /\ Serves(S, Run(P), waits \union {item}, works)
<1>1. /\ Q \in Queue(S) /\ Settled(Q) /\ Injective(Q) /\ ~ Holds(Q, item)
      /\ IsFiniteSet(works) /\ Q.worknum = Cardinality(works)
  BY DEF Serves
<1>2. Run(P) \in Queue(S) /\ Settled(Run(P)) /\ Injective(Run(P))
  BY <1>1, PushRun
<1>3. CASE /\ Started(P) = {item} /\ Run(P).worknum = Q.worknum + 1
           /\ \A s : ~ Holds(Run(P), s)
           /\ \A s : ~ Holds(Q, s)
  <2>1. /\ IsFiniteSet(works \union {item})
        /\ Cardinality(works \union {item}) = Cardinality(works) + 1
    BY <1>1, FS_AddElement
  <2>. QED BY <1>1, <1>2, <1>3, <2>1 DEF Serves
<1>4. CASE /\ Started(P) = {} /\ Run(P).worknum = Q.worknum
           /\ \A s : Holds(Run(P), s) <=> (s = item \/ Holds(Q, s))
  BY <1>1, <1>2, <1>4 DEF Serves
<1>. QED BY <1>1, <1>3, <1>4, PushRun

\* When an item is done, one that waits is started, or the slot is free.
LEMMA ReadyServes ==
    ASSUME NEW S, NEW Q, NEW waits, NEW works, Serves(S, Q, waits, works),
           waits \intersect works = {}, NEW item \in works,
           NEW P, P = WorkerReady(Q)
    PROVE  \/ \E t \in waits : /\ Started(P) = {t}
                               /\ Serves(S, Run(P), waits \ {t}, (works \ {item}) \union {t})
           \/ Started(P) = {} /\ Serves(S, Run(P), waits, works \ {item})
<1>1. /\ Q \in Queue(S) /\ Settled(Q) /\ Injective(Q) /\ waits \subseteq S
      /\ IsFiniteSet(works) /\ Q.worknum = Cardinality(works) /\ works \subseteq S
      /\ \A s \in S : Holds(Q, s) <=> s \in waits
  BY DEF Serves
<1>2. Run(P) \in Queue(S) /\ Settled(Run(P)) /\ Injective(Run(P))
  BY <1>1, ReadyRun
<1>3. /\ IsFiniteSet(works \ {item}) /\ Cardinality(works \ {item}) = Cardinality(works) - 1
      /\ Cardinality(works) \in Nat /\ Cardinality(works \ {item}) \in Nat
  BY <1>1, FS_RemoveElement, FS_CardinalityType
<1>4. ASSUME NEW t \in S, Holds(Q, t), Started(P) = {t}, Run(P).worknum = Q.worknum,
             \A s : Holds(Run(P), s) <=> (s # t /\ Holds(Q, s))
      PROVE  \E u \in waits :
                /\ Started(P) = {u}
                /\ Serves(S, Run(P), waits \ {u}, (works \ {item}) \union {u})
  <2>1. t \in waits /\ t \notin works
    BY <1>1, <1>4
  <2>2. /\ IsFiniteSet((works \ {item}) \union {t})
        /\ Cardinality((works \ {item}) \union {t}) = Cardinality(works)
    <3>. DEFINE w == works \ {item}
    <3>1. IsFiniteSet(w) /\ Cardinality(w) = Cardinality(works) - 1 /\ t \notin w
      BY <1>3, <2>1
    <3>. HIDE DEF w
    <3>2. IsFiniteSet(w \union {t}) /\ Cardinality(w \union {t}) = Cardinality(w) + 1
      BY <3>1, FS_AddElement
    <3>3. Cardinality(w) + 1 = Cardinality(works)
      BY <1>3, <3>1
    <3>. QED BY <3>2, <3>3 DEF w
  <2>. QED BY <1>1, <1>2, <1>4, <2>1, <2>2 DEF Serves
<1>5. CASE /\ Started(P) = {}
           /\ Run(P).worknum = IF Q.worknum = 0 THEN WordSize - 1 ELSE Q.worknum - 1
           /\ \A s : Holds(Run(P), s) <=> Holds(Q, s)
  <2>1. Run(P).worknum = Cardinality(works \ {item})
    BY <1>1, <1>3, <1>5
  <2>. QED BY <1>1, <1>2, <1>3, <1>5, <2>1 DEF Serves
<1>6. \/ \E t \in S :
            /\ Holds(Q, t) /\ Started(P) = {t} /\ Run(P).worknum = Q.worknum
            /\ \A s : Holds(Run(P), s) <=> (s # t /\ Holds(Q, s))
      \/ /\ Started(P) = {}
         /\ Run(P).worknum = IF Q.worknum = 0 THEN WordSize - 1 ELSE Q.worknum - 1
         /\ \A s : Holds(Run(P), s) <=> Holds(Q, s)
  <2>1. /\ Q \in Queue(S) /\ Settled(Q) /\ Injective(Q) /\ P = WorkerReady(Q)
    BY <1>1
  <2>. QED BY <2>1, ReadyRun
<1>. QED BY <1>4, <1>5, <1>6

\* No more slots than there are: queue_push ...
LEMMA PushBound ==
    ASSUME NEW S, NEW Q, NEW waits, NEW works, Serves(S, Q, waits, works),
           NEW item \in S, item \notin waits, Q.worknum <= MaxWorknum,
           NEW P, P = Push(Q, item)
    PROVE  Run(P).worknum <= MaxWorknum
<1>1. Q \in Queue(S) /\ Settled(Q) /\ Injective(Q) /\ ~ Holds(Q, item)
  BY DEF Serves
<1>2. \/ Q.worknum < MaxWorknum /\ Run(P).worknum = Q.worknum + 1
      \/ Run(P).worknum = Q.worknum
  BY <1>1, PushRun
<1>3. Q.worknum \in Int
  BY <1>1, QueueParts
<1>. QED BY <1>2, <1>3, MaxWorknumAssumption

\* ... and queue_worker_ready.
LEMMA ReadyBound ==
    ASSUME NEW S, NEW Q, NEW waits, NEW works, Serves(S, Q, waits, works),
           works # {}, Q.worknum <= MaxWorknum,
           NEW P, P = WorkerReady(Q)
    PROVE  Run(P).worknum <= MaxWorknum
<1>1. Q \in Queue(S) /\ Settled(Q) /\ Injective(Q)
  BY DEF Serves
<1>2. Q.worknum \in Nat /\ Q.worknum # 0
  BY FS_EmptySet, FS_CardinalityType DEF Serves
<1>3. \/ Run(P).worknum = Q.worknum
      \/ Run(P).worknum = Q.worknum - 1
  BY <1>1, <1>2, ReadyRun
<1>. QED BY <1>2, <1>3, MaxWorknumAssumption

=============================================================================
